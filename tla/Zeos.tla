-------------------------------- MODULE Zeos --------------------------------
(***************************************************************************)
(* The scheduler of Sched and the memory of Memory as one system, with     *)
(* what the frames of private data hold.  Here nothing is left to choice   *)
(* that the other part decides: the running process makes the calls, a     *)
(* fork takes the slot at the head of the free queue and fails if and only *)
(* if alloc_frame does, and a program reads and writes through the page    *)
(* directory in CR3, whoever's it is.                                      *)
(*                                                                         *)
(* Programs attach above the pages fork copies through, so the copy never  *)
(* meets an attachment (run window shows what happens when it does).       *)
(***************************************************************************)
EXTENDS Integers, Sequences, FiniteSets

CONSTANTS
    NR_TASKS, DEFAULT_QUANTUM, Depth, MaxPID,
    TOTAL_PAGES, NUM_PAG_KERNEL, NUM_PAG_CODE, NUM_PAG_DATA, GuardPages, SHARED,
    AttachPages, MaxRef,
    Values, Initial      \* of a page of data, and after boot

VARIABLES
    task, kstack, freequeue, readyqueue, current, remaining_quantum, global_PID,
    esp0, cr3, wild,
    live, phys_mem, pt, ref, delete, content, halted,
    data                 \* what each frame holds, as private data

Procs == 1 .. NR_TASKS - 1
S == INSTANCE Sched
M == INSTANCE Memory WITH FirstProc <- 1

ASSUME ZeosAssumption ==
    /\ S!SchedAssumption /\ M!MemoryAssumption
    /\ Initial \in Values
    /\ AttachPages \cap (0 .. M!PAG_LOG_INIT_SHM + NUM_PAG_DATA - 1) = {}

sched_vars == <<task, kstack, freequeue, readyqueue, current, remaining_quantum,
                global_PID, esp0, cr3, wild>>
memory_vars == <<live, phys_mem, pt, ref, delete, content, halted>>

vars == <<sched_vars, memory_vars, data>>

Init == S!Init /\ M!Init /\ data = [f \in M!Frames |-> Initial]

\* The table of the running task, and the frame the processor reaches.
own_PT == task[current].dir
reached(pag) == pt[cr3][pag].frame

UserRuns == S!UserRuns /\ ~halted
OnlySched  == ~halted /\ UNCHANGED <<memory_vars, data>>
OnlyMemory == UserRuns /\ UNCHANGED <<sched_vars, data>>

-----------------------------------------------------------------------------
Clock == S!ClockInterrupt /\ OnlySched
Yield == S!SysYield /\ OnlySched

\* copy_data of each page, from where CR3 has it to the frame of the child.
Mut_copied_data(c) ==
    [f \in M!Frames |->
        IF \E pag \in M!DataPages : pt'[c][pag].frame = f THEN Initial ELSE data[f]]
copied_data(c) ==
    [f \in M!Frames |->
        IF \E pag \in M!DataPages : pt'[c][pag].frame = f
        THEN data[reached(CHOOSE pag \in M!DataPages : pt'[c][pag].frame = f)]
        ELSE data[f]]

Fork == LET child == Head(freequeue) IN
    /\ ~halted
    /\ S!SysFork
    /\ M!SysFork(own_PT, child)
    /\ data' = copied_data(child)

ForkFails == LET child == Head(freequeue) IN
    /\ ~halted
    /\ S!SysForkNoFrames
    /\ M!SysForkNoFrames(own_PT, child)
    /\ UNCHANGED data

\* Frames are given back with what they hold.
Exit == /\ ~halted
        /\ S!SysExit
        /\ M!SysExit(own_PT)
        /\ UNCHANGED data

ExitFaults == M!SysExitFaults(own_PT) /\ OnlyMemory

Shmat(id, page) == M!SysShmat(own_PT, id, page) /\ OnlyMemory
Shmdt(page) == M!SysShmdt(own_PT, page) /\ OnlyMemory
Shmrm(id) == M!SysShmrm(own_PT, id) /\ OnlyMemory
WriteShared(id) == M!UserWrite(own_PT, id) /\ OnlyMemory

\* The program writes a page of its data.
Write(pag, v) ==
    /\ UserRuns
    /\ pt[cr3][pag].present
    /\ data' = [data EXCEPT ![reached(pag)] = v]
    /\ UNCHANGED <<sched_vars, memory_vars>>

Next ==
    \/ Clock \/ Yield \/ Fork \/ ForkFails \/ Exit \/ ExitFaults
    \/ \E pag \in M!DataPages, v \in Values : Write(pag, v)
    \/ \E id \in M!Ids : \/ Shmrm(id) \/ WriteShared(id)
                         \/ \E page \in AttachPages : Shmat(id, page)
    \/ \E page \in IF current = S!Idle THEN {} ELSE M!attached(own_PT) : Shmdt(page)

Spec == Init /\ [][Next]_vars
=============================================================================
