------------------------------ MODULE Startup -------------------------------
(***************************************************************************)
(* main (system.c): the kernel from its first instruction to user mode,    *)
(* and the system it hands over to, that of Sched.  A step is a call of    *)
(* main; where something it needs is missing the processor resets or the   *)
(* kernel follows a null pointer: astray.  Between enable_int and the lret *)
(* of return_gate the kernel runs with interrupts on, on the boot stack;   *)
(* they go astray too where what they need is missing.                     *)
(***************************************************************************)
EXTENDS SchedProps

CONSTANTS
    BootSlot,          \* slot whose stack is the boot stack: protected_tasks[4]
    MaxWindow          \* bound: interrupts between enable_int and lret

ASSUME StartupAssumption ==
    /\ BootSlot \in Tasks \ {Idle, Init1}
    /\ MaxWindow \in Nat /\ MaxWindow < DEFAULT_QUANTUM

VARIABLES
    pc,                \* next call of main, by its place
    tables,            \* descriptor tables the processor has been told of
    tss_ready,         \* setTSS done
    sysenter_esp,      \* slot MSR 0x175 points to, or -1
    page_table,        \* "none", "kernel" or "user" pages, of each slot
    dirs,              \* slots whose directory entry has been set
    paging,            \* CR0.PG
    shared,            \* shared_vector has its frames
    keys, buffered,    \* characters typed (history), and in the buffer
    loaded,            \* the user program is in the pages of this slot, or -1
    interrupts,        \* the interrupt flag, with clock and keyboard unmasked
    window             \* interrupts taken in the kernel so far
hardware == <<tables, tss_ready, sysenter_esp, page_table, dirs, paging,
              shared, keys, buffered, loaded, interrupts, window>>
startup_vars == <<vars, hardware, pc>>

Mut_main_late_buffer ==
    <<"set_eflags", "setGdt", "setIdt", "setTSS", "init_mm", "init_sched",
      "init_idle", "init_task1", "initialize_sharedvector",
      "copy_data", "enable_int", "initialize_circularbuffer", "return_gate">>
Mut_main_early_interrupts ==
    <<"set_eflags", "setGdt", "enable_int", "setIdt", "setTSS", "init_mm", "init_sched",
      "init_idle", "init_task1", "initialize_sharedvector",
      "initialize_circularbuffer", "copy_data", "return_gate">>
main ==
    <<"set_eflags", "setGdt", "setIdt", "setTSS", "init_mm", "init_sched",
      "init_idle", "init_task1", "initialize_sharedvector",
      "initialize_circularbuffer", "copy_data", "enable_int", "return_gate">>

Astray == 0            \* pc of a machine that has gone astray
UserMode == pc > Len(main)
InMain == pc \in DOMAIN main
calls(f) == InMain /\ main[pc] = f
returns == pc' = pc + 1
goes_astray == pc' = Astray /\ UNCHANGED <<vars, hardware>>

\* The lists are not initialised: their heads hold null pointers.
null_list == <<-1>>

\* set_seg_regs points the stack at the end of protected_tasks[4]: current()
\* is the slot whose stack it is.
boot_stack == current = BootSlot

StartupInit ==
    /\ pc = 1
    /\ task = [t \in Tasks |-> [blank_task EXCEPT !.PID = 0]]
    /\ kstack = [t \in Tasks |-> 0]
    /\ freequeue = null_list /\ readyqueue = null_list
    /\ boot_stack /\ remaining_quantum = 0 /\ global_PID = FirstPID
    /\ esp0 = -1 /\ cr3 = NoDir /\ wild = FALSE
    /\ tables = {} /\ tss_ready = FALSE /\ sysenter_esp = -1
    /\ page_table = [t \in Tasks |-> "none"] /\ dirs = {} /\ paging = FALSE
    /\ shared = FALSE /\ keys = 0 /\ buffered = 0 /\ loaded = -1
    /\ interrupts = FALSE /\ window = 0

-----------------------------------------------------------------------------
SetEflags ==
    /\ calls("set_eflags") /\ interrupts' = FALSE /\ returns
    /\ UNCHANGED <<vars, tables, tss_ready, sysenter_esp, page_table, dirs,
                   paging, shared, keys, buffered, loaded, window>>

\* The descriptor of the TSS gets its base; the table stays the boot one.
SetGdt ==
    /\ calls("setGdt") /\ tables' = tables \cup {"gdt"} /\ returns
    /\ UNCHANGED <<vars, tss_ready, sysenter_esp, page_table, dirs, paging,
                   shared, keys, buffered, loaded, interrupts, window>>

\* setInterruptHandler and setTrapHandler fill the gates of the table.
set_handlers == tables' = tables \cup {"idt"}

\* The gates of exceptions, clock and keyboard; setSysenter with the stack
\* of INITIAL_ESP.
SetIdt ==
    /\ calls("setIdt") /\ set_handlers
    /\ sysenter_esp' = Init1 /\ returns
    /\ UNCHANGED <<vars, tss_ready, page_table, dirs, paging, shared, keys, buffered,
                   loaded, interrupts, window>>

\* ltr needs the descriptor.
SetTSS ==
    /\ calls("setTSS")
    /\ IF "gdt" \notin tables THEN goes_astray
       ELSE /\ esp0' = Init1 /\ tss_ready' = TRUE /\ returns
            /\ UNCHANGED <<task, kstack, freequeue, readyqueue, current,
                           remaining_quantum, global_PID, cr3, wild>>
            /\ UNCHANGED <<tables, sysenter_esp, page_table, dirs, paging,
                           shared, keys, buffered, loaded, interrupts, window>>

\* The pages of the kernel in every page table, the tables in every directory,
\* and the paging bit of CR0.
init_table_pages == page_table' = [t \in Tasks |-> "kernel"]
init_dir_pages == dirs' = Tasks
set_pe_flag == paging' = TRUE

\* init_table_pages, init_frames, init_dir_pages, allocate_DIR of slot 0,
\* set_cr3 and set_pe_flag: the kernel goes on in its identity mapping.
InitMm ==
    /\ calls("init_mm")
    /\ init_table_pages /\ init_dir_pages /\ set_pe_flag
    /\ task' = [task EXCEPT ![0].dir = 0] /\ cr3' = 0 /\ returns
    /\ UNCHANGED <<kstack, freequeue, readyqueue, current, remaining_quantum,
                   global_PID, esp0, wild>>
    /\ UNCHANGED <<tables, tss_ready, sysenter_esp, shared, keys, buffered,
                   loaded, interrupts, window>>

InitSched ==
    /\ calls("init_sched")
    /\ freequeue' = init_freequeue /\ readyqueue' = <<>>
    /\ task' = [t \in Tasks |-> [task[t] EXCEPT !.PID = -1]] /\ returns
    /\ UNCHANGED <<kstack, current, remaining_quantum, global_PID, esp0, cr3,
                   wild, hardware>>

\* The first of the free queue becomes idle: it starts in cpu_idle.
InitIdle ==
    /\ calls("init_idle")
    /\ IF freequeue = null_list THEN goes_astray
       ELSE LET c == Head(freequeue)
            IN  /\ freequeue' = Tail(freequeue)
                /\ task' = [task EXCEPT ![c].PID = 0, ![c].dir = c,
                               ![c].total_quantum = DEFAULT_QUANTUM,
                               ![c].register_esp = <<c, Depth["idle"]>>]
                /\ kstack' = [kstack EXCEPT ![c] = Depth["idle"]]
                /\ returns
                /\ UNCHANGED <<readyqueue, current, remaining_quantum,
                               global_PID, esp0, cr3, wild, hardware>>

\* The next of the free queue becomes the initial process, with frames for
\* its user pages, and both kernel stack pointers are moved to its stack.
InitTask1 ==
    /\ calls("init_task1")
    /\ IF freequeue = null_list THEN goes_astray
       ELSE LET c == Head(freequeue)
            IN  /\ freequeue' = Tail(freequeue)
                /\ task' = [task EXCEPT ![c].PID = 1, ![c].dir = c,
                               ![c].total_quantum = DEFAULT_QUANTUM,
                               ![c].state = "ST_RUN"]
                /\ page_table' = IF c \in dirs THEN [page_table EXCEPT ![c] = "user"]
                                 ELSE page_table
                /\ remaining_quantum' = DEFAULT_QUANTUM
                /\ esp0' = c /\ sysenter_esp' = c /\ cr3' = c
                /\ returns
                /\ UNCHANGED <<kstack, readyqueue, current, global_PID, wild>>
                /\ UNCHANGED <<tables, tss_ready, dirs, paging, shared, keys, buffered, loaded, interrupts, window>>

InitializeSharedVector ==
    /\ calls("initialize_sharedvector") /\ shared' = TRUE /\ returns
    /\ UNCHANGED <<vars, tables, tss_ready, sysenter_esp, page_table, dirs,
                   paging, keys, buffered, loaded, interrupts, window>>

InitializeCircularBuffer ==
    /\ calls("initialize_circularbuffer") /\ buffered' = 0 /\ returns
    /\ UNCHANGED <<vars, tables, tss_ready, sysenter_esp, page_table, dirs,
                   paging, shared, keys, loaded, interrupts, window>>

\* The user pages are written through the page table in use.
CopyUser ==
    /\ calls("copy_data")
    /\ IF paging /\ page_table[cr3] # "user" THEN goes_astray
       ELSE /\ loaded' = cr3 /\ returns
            /\ UNCHANGED <<vars, tables, tss_ready, sysenter_esp, page_table,
                           dirs, paging, shared, keys, buffered, interrupts, window>>

EnableInt ==
    /\ calls("enable_int") /\ interrupts' = TRUE /\ returns
    /\ UNCHANGED <<vars, tables, tss_ready, sysenter_esp, page_table, dirs,
                   paging, shared, keys, buffered, loaded, window>>

\* The lret to L_USER_START.
ReturnGate ==
    /\ calls("return_gate")
    /\ IF loaded # cr3 \/ page_table[cr3] # "user" THEN goes_astray
       ELSE /\ returns /\ current' = esp0
            /\ UNCHANGED <<task, kstack, freequeue, readyqueue,
                           remaining_quantum, global_PID, esp0, cr3, wild,
                           hardware>>

-----------------------------------------------------------------------------
\* An interrupt in the kernel stays on the boot stack, so current() is the
\* slot that stack is in.  With no gate for it the processor resets.
taken == InMain /\ interrupts /\ window < MaxWindow
without_gate == "idt" \notin tables

\* clock_routine.  Nobody is ready yet, so schedule does not switch; but the
\* null pointers of a list that is not initialised are no empty list, and at
\* the end of a quantum schedule follows them.
WindowClock ==
    /\ taken
    /\ IF without_gate \/ (Tick = 0 /\ readyqueue = null_list) THEN goes_astray
       ELSE /\ remaining_quantum' = IF Tick = 0 THEN task[current].total_quantum ELSE Tick
            /\ window' = window + 1
            /\ UNCHANGED <<pc, task, kstack, freequeue, readyqueue, current, global_PID,
                           esp0, cr3, wild>>
            /\ UNCHANGED <<tables, tss_ready, sysenter_esp, page_table, dirs, paging,
                           shared, keys, buffered, loaded, interrupts>>

\* keyboard_routine puts a character in the buffer.  The buffer is in .bss,
\* zeros that the image brings: an empty one before it is initialised too.
WindowKey ==
    /\ taken
    /\ IF without_gate THEN goes_astray
       ELSE /\ keys' = keys + 1 /\ buffered' = buffered + 1 /\ window' = window + 1
            /\ UNCHANGED <<pc, vars, tables, tss_ready, sysenter_esp, page_table, dirs,
                           paging, shared, loaded, interrupts>>

\* In user mode the system is the one of Sched; task_switch and sys_fork
\* keep MSR 0x175 with tss.esp0.
Runs ==
    /\ UserMode /\ Next
    /\ sysenter_esp' = esp0'
    /\ UNCHANGED <<pc, tables, tss_ready, page_table, dirs, paging, shared, keys, buffered, loaded, interrupts, window>>

StartupNext ==
    \/ SetEflags \/ SetGdt \/ SetIdt \/ SetTSS \/ InitMm \/ InitSched
    \/ InitIdle \/ InitTask1 \/ InitializeSharedVector
    \/ InitializeCircularBuffer \/ CopyUser \/ EnableInt
    \/ ReturnGate \/ WindowClock \/ WindowKey \/ Runs
StartupSpec == StartupInit /\ [][StartupNext]_startup_vars

-----------------------------------------------------------------------------
\* Until the first process runs, no call of main needs what a later one sets
\* up, and no interrupt that main lets in finds its gate missing or a list
\* not initialised (system.c, hardware.c:98).
NeverAstray == pc # Astray

\* The first process starts in a sound system: with both ways into the
\* kernel, interrupts and sysenter, leading to its kernel stack, with the
\* program that was loaded in its pages, and with the scheduler in a state
\* from which all its guarantees follow, whatever interrupts came on the
\* boot stack, where current() is a free slot (the invariants of Sched); and
\* every key typed so far is in the buffer for it to read.
StartsSound ==
    UserMode =>
        /\ tables = {"gdt", "idt"} /\ tss_ready /\ sysenter_esp = esp0
        /\ loaded = Init1 /\ page_table[Init1] = "user"
        /\ paging /\ task[loaded].dir = loaded
        /\ TypeOK /\ SlotPartition /\ IdleOnlyWhenAlone /\ StateMatchesPlace
        /\ DistinctPIDs /\ ContextOfCurrent /\ ResumePointsToFrame
        /\ buffered = keys
=============================================================================
