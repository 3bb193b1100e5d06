--------------------------- MODULE FirstDelivery ----------------------------
(***************************************************************************)
(* E1 as a whole: main, call by call, and then its one process, which      *)
(* writes and asks for the time while the clock ticks.  Nothing manages    *)
(* processes: init_sched, init_idle and init_task1 are empty, the library  *)
(* gives slot 0 its user pages, and the calls run on the stack of slot 1.  *)
(* A page fault, of the program or of the kernel on its behalf, shows the  *)
(* address of the instruction and stops the system.                        *)
(*                                                                         *)
(* Pointers are those of UserMemory: E1 and E2 have the same utils.c, so   *)
(* delivery is "E2".  What reaches the screen is ConsoleE2.                *)
(***************************************************************************)
EXTENDS UserMemory, Sequences

CONSTANTS
    NR_TASKS,
    NUM_PAG_KERNEL,
    Radix,             \* of the addresses pf_routine shows (16)
    MaxTicks          \* bound: ticks of the clock

VARIABLES
    place,            \* next call of main, by its place
    told,             \* what the processor has been told of
    stack0,           \* slots the stacks of INITIAL_ESP are in: [tss, msr]
    phys_mem,         \* frames marked USED_FRAME
    pagusr_table,     \* page table of every slot
    dir_of_0,         \* slot whose directory task[0] has, or NoDir
    cr3, paging,
    program,          \* frame copy_data wrote each user page to, or NoFrame
    interrupts, zeos_ticks, returned,
    report,           \* what pf_routine shows, <<>> as long as it has not run
    fault             \* history: the page fault it was for
kernel_vars == <<told, stack0, phys_mem, pagusr_table, dir_of_0, cr3, paging,
                 program, interrupts>>
answers == <<returned, report, fault>>
first_kernel_vars == <<place, kernel_vars, zeos_ticks, answers>>
first_vars == <<first_kernel_vars, pointer_vars>>

Slots == 0 .. NR_TASKS - 1
Frames == 0 .. TOTAL_PAGES - 1
KernelPages == 0 .. NUM_PAG_KERNEL - 1
UserPages == USER_FIRST_PAGE .. EndPage - 1
NoDir == -1
NoFrame == -1
KernelStack == 1      \* slot of INITIAL_ESP
AllocFrames == {f \in Frames : \E n \in Frames : f = NUM_PAG_KERNEL + 2 * n}

\* The data of E1 comes first, and there is a frame for every user page.
ASSUME FirstAssumption ==
    /\ {NR_TASKS, NUM_PAG_KERNEL, Radix, MaxTicks} \subseteq Nat
    /\ NR_TASKS >= 4 /\ Radix >= 2
    /\ 0 < NUM_PAG_KERNEL /\ NUM_PAG_KERNEL <= USER_FIRST_PAGE
    /\ NUM_PAG_CODE > 0 /\ EndPage <= TOTAL_PAGES /\ Words % PAGE_SIZE = 0
    /\ NUM_PAG_KERNEL + 2 * (NUM_PAG_CODE + NUM_PAG_DATA) <= TOTAL_PAGES + 1

Mut_main_E1 ==
    <<"set_eflags", "setGdt", "setIdt", "setTSS", "init_mm", "init_sched",
      "init_idle", "init_task1", "copy_data", "monoprocess_init_addr_space",
      "enable_int", "return_gate">>
main_E1 ==
    <<"set_eflags", "setGdt", "setIdt", "setTSS", "init_mm",
      "monoprocess_init_addr_space", "init_sched", "init_idle", "init_task1",
      "copy_data", "enable_int", "return_gate">>

Lost == 0             \* the place of a machine that reset or stopped in main
InKernel == place \in DOMAIN main_E1
InProgram == place > Len(main_E1)
at_call(f) == InKernel /\ main_E1[place] = f
next_call == place' = place + 1 /\ UNCHANGED <<zeos_ticks, answers, pointer_vars>>
lost == place' = Lost
        /\ UNCHANGED <<kernel_vars, zeos_ticks, answers, pointer_vars>>

NoEntry == [frame |-> 0, present |-> FALSE, user |-> FALSE, rw |-> FALSE]

FirstKernelInit ==
    /\ place = 1 /\ told = {} /\ stack0 = [tss |-> NoDir, msr |-> NoDir]
    /\ phys_mem = {} /\ pagusr_table = [s \in Slots |-> [pag \in Frames |-> NoEntry]]
    /\ dir_of_0 = NoDir /\ cr3 = NoDir /\ paging = FALSE
    /\ program = [pag \in UserPages |-> NoFrame]
    /\ interrupts = FALSE /\ zeos_ticks = 0
    /\ returned = 0 /\ report = <<>> /\ fault = [eip |-> 0, page |-> 0, write |-> FALSE]
FirstInit == FirstKernelInit /\ PointersInit /\ delivery = "E2"

-----------------------------------------------------------------------------
\* main

\* popfl of a zero: interrupts masked.
FirstSetEflags ==
    /\ at_call("set_eflags") /\ interrupts' = FALSE /\ next_call
    /\ UNCHANGED <<told, stack0, phys_mem, pagusr_table, dir_of_0, cr3, paging, program>>

\* The base of the TSS goes into its descriptor.
FirstSetGdt ==
    /\ at_call("setGdt") /\ told' = told \cup {"gdt"} /\ next_call
    /\ UNCHANGED <<stack0, phys_mem, pagusr_table, dir_of_0, cr3, paging, program, interrupts>>

\* The gates of page fault, clock and keyboard, and the three registers of
\* sysenter.
FirstSetIdt ==
    /\ at_call("setIdt") /\ told' = told \cup {"idt"}
    /\ stack0' = [stack0 EXCEPT !.msr = KernelStack] /\ next_call
    /\ UNCHANGED <<phys_mem, pagusr_table, dir_of_0, cr3, paging, program, interrupts>>

\* ltr needs the descriptor.
FirstSetTSS ==
    /\ at_call("setTSS")
    /\ IF "gdt" \notin told THEN lost
       ELSE /\ told' = told \cup {"tss"}
            /\ stack0' = [stack0 EXCEPT !.tss = KernelStack] /\ next_call
            /\ UNCHANGED <<phys_mem, pagusr_table, dir_of_0, cr3, paging, program, interrupts>>

\* Page 0 is left out, "to comply with NULL convention".
init_table_pages ==
    [pag \in Frames |->
        IF pag \in KernelPages \ {0}
        THEN [frame |-> pag, present |-> TRUE, user |-> FALSE, rw |-> TRUE]
        ELSE NoEntry]
init_frames == KernelPages
allocate_DIR(s) == s

\* The tables and the directories of all slots; that of slot 0 is used.
FirstInitMm ==
    /\ at_call("init_mm")
    /\ pagusr_table' = [s \in Slots |-> init_table_pages]
    /\ phys_mem' = init_frames
    /\ dir_of_0' = allocate_DIR(0) /\ cr3' = dir_of_0' /\ paging' = TRUE
    /\ next_call
    /\ UNCHANGED <<told, stack0, program, interrupts>>

\* alloc_frame called for one page after the other: each time the lowest
\* free frame, of every second one.  Code comes first.
before(p, q) == IF (p \in CodePages) = (q \in CodePages) THEN p < q ELSE p \in CodePages
free == AllocFrames \ phys_mem
allocated(alloc) ==
    /\ \A p, q \in UserPages : before(p, q) => alloc[p] < alloc[q]
    /\ \A p \in UserPages, f \in free : f < alloc[p] => \E q \in UserPages : alloc[q] = f

\* Code is read only.
set_user_pages(alloc) ==
    [pag \in Frames |->
        IF pag \in UserPages
        THEN [frame |-> alloc[pag], present |-> TRUE, user |-> TRUE, rw |-> pag \in DataPages]
        ELSE pagusr_table[dir_of_0][pag]]

\* Of the library: set_user_pages and set_cr3 of task[0].
monoprocess_init_addr_space ==
    /\ at_call("monoprocess_init_addr_space")
    /\ IF dir_of_0 = NoDir THEN lost
       ELSE \E alloc \in [UserPages -> free] :
               /\ allocated(alloc)
               /\ pagusr_table' = [pagusr_table EXCEPT ![dir_of_0] = set_user_pages(alloc)]
               /\ phys_mem' = phys_mem \cup {alloc[pag] : pag \in UserPages}
               /\ cr3' = dir_of_0 /\ next_call
               /\ UNCHANGED <<told, stack0, dir_of_0, paging, program, interrupts>>

EmptyCalls ==
    /\ \/ at_call("init_sched") \/ at_call("init_idle") \/ at_call("init_task1")
    /\ next_call /\ UNCHANGED kernel_vars

\* The kernel may write to a read-only page: CR0.WP is never set.
entry(pag) == IF pag \in Frames THEN pagusr_table[cr3][pag] ELSE NoEntry
CopyProgram ==
    /\ at_call("copy_data")
    /\ IF ~paging \/ \E pag \in UserPages : ~entry(pag).present THEN lost
       ELSE /\ program' = [pag \in UserPages |-> entry(pag).frame] /\ next_call
            /\ UNCHANGED <<told, stack0, phys_mem, pagusr_table, dir_of_0, cr3, paging, interrupts>>

FirstEnableInt ==
    /\ at_call("enable_int") /\ interrupts' = TRUE /\ next_call
    /\ UNCHANGED <<told, stack0, phys_mem, pagusr_table, dir_of_0, cr3, paging, program>>

\* lret to usr_main, the first page of code, with USER_ESP at the end of the
\* data.
FirstReturnGate ==
    /\ at_call("return_gate")
    /\ IF ~paging \/ ~entry(FirstData + NUM_PAG_DATA).user THEN lost
       ELSE next_call /\ UNCHANGED kernel_vars

-----------------------------------------------------------------------------
\* Interrupts and calls

\* A gate is found only once the processor has been told of the table.
ClockRoutine ==
    /\ InProgram \/ (InKernel /\ interrupts)
    /\ report = <<>> /\ zeos_ticks < MaxTicks
    /\ IF "idt" \notin told THEN lost
       ELSE /\ zeos_ticks' = zeos_ticks + 1
            /\ UNCHANGED <<place, kernel_vars, answers, pointer_vars>>

Runs == InProgram /\ report = <<>> /\ call = NoCall

sys_gettime == /\ Runs /\ returned' = zeos_ticks
               /\ UNCHANGED <<place, kernel_vars, zeos_ticks, report, fault, pointer_vars>>

\* long_to_char: the digits as the division leaves them, the last one first,
\* and then exchanged in pairs from both ends.
remainders(num) ==
    LET stored[n \in 0 .. num] == IF n < Radix THEN <<n>>
                                  ELSE <<n % Radix>> \o stored[n \div Radix]
    IN  stored[num]
turned(s) ==
    LET i == Len(s)
        swapped[k \in 0 .. i \div 2] ==
            IF k = 0 THEN s
            ELSE [swapped[k - 1] EXCEPT ![k] = swapped[k - 1][i + 1 - k],
                                        ![i + 1 - k] = swapped[k - 1][k]]
    IN  swapped[i \div 2]
Mut_long_to_char(num) == remainders(num)
long_to_char(num) == turned(remainders(num))

\* It never returns, and interrupts stay masked.
pf_routine(eip, pag, write) ==
    /\ report' = long_to_char(eip)
    /\ fault' = [eip |-> eip, page |-> pag, write |-> write]
    /\ UNCHANGED <<place, kernel_vars, zeos_ticks, returned>>

\* The error of the processor: the program may use the pages marked for it.
allowed(pag, write) == entry(pag).present /\ entry(pag).user /\ (write => entry(pag).rw)

\* An instruction the program could fetch, or one it could not.
ProgramFault(eip, pag, write) ==
    /\ ~allowed(pag, write)
    /\ allowed(page(eip), FALSE) \/ (page(eip) = pag /\ ~write)
    /\ pf_routine(eip, pag, write) /\ UNCHANGED pointer_vars

\* sys_write on descriptor 1: the answer, or a fault of copy_from_user.
refusal(addr, n) == IF accessible(WRITE, addr, unsigned(n)) THEN -22 ELSE -14
Write(addr, n) ==
    /\ SysWrite(addr, n)
    /\ IF ~call'.ok
       THEN /\ returned' = refusal(addr, n)
            /\ UNCHANGED <<place, kernel_vars, zeos_ticks, report, fault>>
       ELSE LET absent == {pag \in touched' : ~entry(pag).present}
            IN  IF absent = {}
                THEN /\ returned' = n
                     /\ UNCHANGED <<place, kernel_vars, zeos_ticks, report, fault>>
                ELSE \E pag \in absent, eip \in 0 .. NUM_PAG_KERNEL * PAGE_SIZE - 1 :
                        pf_routine(eip, pag, FALSE)

WriteReturns == /\ report = <<>> /\ Answered
                /\ UNCHANGED <<place, kernel_vars, zeos_ticks, answers>>

\* The last two are what the program does while it runs.
FirstNext ==
    \/ FirstSetEflags \/ FirstSetGdt \/ FirstSetIdt \/ FirstSetTSS \/ FirstInitMm
    \/ monoprocess_init_addr_space \/ EmptyCalls \/ CopyProgram
    \/ FirstEnableInt \/ FirstReturnGate
    \/ ClockRoutine \/ sys_gettime
    \/ WriteReturns
    \/ Runs /\ \E addr \in 0 .. Words - 1, n \in Sizes : Write(addr, n)
    \/ Runs /\ \E eip \in 0 .. Words - 1, pag \in 0 .. page(Words - 1), write \in BOOLEAN :
          ProgramFault(eip, pag, write)
FirstSpec == FirstInit /\ [][FirstNext]_first_vars

-----------------------------------------------------------------------------
\* main of E1 gets to user mode, and what the program finds there is right:
\* both ways into the kernel lead to one kernel stack, its pages are there
\* with their access, in frames of its own that the byte map knows of and
\* the program was copied to, and no other page is in its reach.
FirstStartsSound ==
    /\ place # Lost
    /\ InProgram =>
          /\ told = {"gdt", "idt", "tss"} /\ stack0.tss = stack0.msr /\ paging
          /\ \A pag \in UserPages :
                /\ allowed(pag, FALSE) /\ (allowed(pag, TRUE) <=> pag \in DataPages)
                /\ entry(pag).frame \in phys_mem \ KernelPages
                /\ program[pag] = entry(pag).frame
          /\ \A p, q \in UserPages : entry(p).frame = entry(q).frame => p = q
          /\ \A pag \in Frames \ UserPages : ~allowed(pag, FALSE)

\* The number a row of digits denotes.
number(digits) ==
    LET upto[n \in 0 .. Len(digits)] ==
            IF n = 0 THEN 0 ELSE Radix * upto[n - 1] + digits[n]
    IN  upto[Len(digits)]

\* The program was to blame: it left its pages, or wrote to its code.
BlamesProgram ==
    InProgram /\ (fault.page \in UserPages => fault.write /\ fault.page \in CodePages)

\* Only a program that leaves its pages or writes to its code, itself or
\* through a pointer it passes to write, stops the system of E1; and the
\* number on the screen is the address of the instruction, with no digit
\* too many.
OnlyProgramStops ==
    report # <<>> =>
        /\ BlamesProgram
        /\ number(report) = fault.eip
        /\ \A i \in DOMAIN report : report[i] \in 0 .. Radix - 1
        /\ report[1] = 0 => Len(report) = 1
=============================================================================
