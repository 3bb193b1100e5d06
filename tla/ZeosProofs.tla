----------------------------- MODULE ZeosProofs -----------------------------
(***************************************************************************)
(* Proofs about Zeos, from those about its two parts.  SP and MP are the   *)
(* parts with their proofs; the first lemmas say that they are the parts   *)
(* Zeos is made of.                                                        *)
(***************************************************************************)
EXTENDS ZeosProps, TLAPS

SP == INSTANCE SchedProofs
MP == INSTANCE MemoryProofs WITH FirstProc <- 1

\* The parts' assumptions are those of Zeos.
LEMMA SchedConstants == SP!SchedAssumption
BY ZeosAssumption
DEF S!SchedAssumption, SP!SchedAssumption, S!Paths, SP!Paths, S!FirstPID, SP!FirstPID

LEMMA MemoryConstants == MP!MemoryAssumption
BY ZeosAssumption
DEF M!MemoryAssumption, MP!MemoryAssumption, M!IsFiniteSet, MP!IsFiniteSet, M!KernelPages, MP!KernelPages,
    M!PAG_LOG_INIT_SHM, MP!PAG_LOG_INIT_SHM, M!PAG_LOG_INIT_DATA, MP!PAG_LOG_INIT_DATA,
    M!PAG_LOG_INIT_CODE, MP!PAG_LOG_INIT_CODE, M!Pages, MP!Pages

\* The scheduler of Zeos is the one of the proofs.
LEMMA SameSched ==
    /\ S!Init <=> SP!Init
    /\ S!ClockInterrupt <=> SP!ClockInterrupt
    /\ S!SysYield <=> SP!SysYield
    /\ S!SysFork <=> SP!SysFork
    /\ S!SysForkNoFrames <=> SP!SysForkNoFrames
    /\ S!SysExit <=> SP!SysExit
    /\ S!UserRuns <=> SP!UserRuns
    /\ S!Alive = SP!Alive /\ S!Idle = 0 /\ S!FirstPID = 1000
<1>1. S!Init <=> SP!Init
  BY DEF S!Init, SP!Init, S!Tasks, SP!Tasks, S!Idle, SP!Idle, S!Init1, SP!Init1,
         S!init_idle, SP!init_idle, S!init_task1, SP!init_task1, S!blank_task,
         SP!blank_task, S!NoDir, SP!NoDir, S!NoEsp, SP!NoEsp, S!init_freequeue,
         SP!init_freequeue, S!FirstPID, SP!FirstPID
<1> USE DEF S!Idle, SP!Idle, S!UserRuns, SP!UserRuns,
            S!sched_next_rr, SP!sched_next_rr, S!task_switch, SP!task_switch,
            S!readied, SP!readied, S!requeued, SP!requeued, S!unlinked, SP!unlinked,
            S!Tick, SP!Tick
<1>2. S!ClockInterrupt <=> SP!ClockInterrupt
  BY DEF S!ClockInterrupt, SP!ClockInterrupt, S!ClockPreempt, SP!ClockPreempt,
         S!ClockContinue, SP!ClockContinue
<1>3. S!SysYield <=> SP!SysYield
  BY DEF S!SysYield, SP!SysYield
<1>4. S!SysExit <=> SP!SysExit
  BY DEF S!SysExit, SP!SysExit
<1>5. S!SysFork <=> SP!SysFork
  BY DEF S!SysFork, SP!SysFork, S!copied, SP!copied, S!child_esp, SP!child_esp,
         S!child_queued, SP!child_queued
<1>6. S!SysForkNoFrames <=> SP!SysForkNoFrames
  BY DEF S!SysForkNoFrames, SP!SysForkNoFrames, S!copied, SP!copied
<1>7. /\ S!UserRuns <=> SP!UserRuns
      /\ S!Alive = SP!Alive /\ S!Idle = 0 /\ S!FirstPID = 1000
  BY DEF S!Alive, SP!Alive, S!QueueSet, SP!QueueSet, S!FirstPID
<1> QED  BY <1>1, <1>2, <1>3, <1>4, <1>5, <1>6, <1>7

\* The memory of Zeos is the one of the proofs: its layout,
LEMMA SameLayout ==
    /\ M!Frames = MP!Frames /\ M!Ids = MP!Ids /\ M!Pages = MP!Pages
    /\ M!KernelPages = MP!KernelPages /\ M!CodePages = MP!CodePages
    /\ M!DataPages = MP!DataPages /\ M!ShmPages = MP!ShmPages
    /\ M!WindowPages = MP!WindowPages /\ M!FreeFrames = MP!FreeFrames
BY DEF M!Frames, MP!Frames, M!Ids, MP!Ids, M!Pages, MP!Pages, M!KernelPages,
       MP!KernelPages, M!CodePages, MP!CodePages, M!DataPages, MP!DataPages,
       M!ShmPages, MP!ShmPages, M!WindowPages, MP!WindowPages, M!FreeFrames,
       MP!FreeFrames, M!AllocFrames, MP!AllocFrames, M!PAG_LOG_INIT_SHM,
       MP!PAG_LOG_INIT_SHM, M!PAG_LOG_INIT_DATA, MP!PAG_LOG_INIT_DATA,
       M!PAG_LOG_INIT_CODE, MP!PAG_LOG_INIT_CODE

\* and its calls.
LEMMA SameMemory ==
    /\ M!Init <=> MP!Init
    /\ \A p, c : M!SysFork(p, c) <=> MP!SysFork(p, c)
    /\ \A p, c : M!SysForkNoFrames(p, c) <=> MP!SysForkNoFrames(p, c)
    /\ \A p : M!SysExit(p) <=> MP!SysExit(p)
    /\ \A p : M!SysExitFaults(p) <=> MP!SysExitFaults(p)
    /\ \A p, id, page : M!SysShmat(p, id, page) <=> MP!SysShmat(p, id, page)
    /\ \A p, page : M!SysShmdt(p, page) <=> MP!SysShmdt(p, page)
    /\ \A p, id : M!SysShmrm(p, id) <=> MP!SysShmrm(p, id)
    /\ \A p, id : M!UserWrite(p, id) <=> MP!UserWrite(p, id)
    /\ \A p : M!attached(p) = MP!attached(p)
<1> USE SameLayout
<1>1. /\ M!Unmapped = MP!Unmapped /\ \A f : M!MapTo(f) = MP!MapTo(f)
      /\ \A p, page : M!get_frame(p, page) = MP!get_frame(p, page)
      /\ \A n : M!boot_frame(n) = MP!boot_frame(n)
      /\ \A id : M!id_frame(id) = MP!id_frame(id)
      /\ \A p : M!Running(p) <=> MP!Running(p)
      /\ \A f : M!find_shframe(f) = MP!find_shframe(f)
      /\ \A F : M!freeable(F) = MP!freeable(F)
  BY DEF M!Unmapped, MP!Unmapped, M!MapTo, MP!MapTo, M!get_frame,
      MP!get_frame, M!boot_frame, MP!boot_frame, M!id_frame, MP!id_frame,
      M!Running, MP!Running, M!find_shframe, MP!find_shframe, M!freeable,
      MP!freeable
<1>2. \A p : M!attached(p) = MP!attached(p)
  BY <1>1 DEF M!attached, MP!attached
<1>3. \A p, id : M!attachments(p, id) = MP!attachments(p, id)
  BY <1>1, <1>2 DEF M!attachments, MP!attachments
<1>4. \A A : M!Cardinality(A) = MP!Cardinality(A)
  BY DEF M!Cardinality, MP!Cardinality
<1>5. M!Init <=> MP!Init
  BY <1>1 DEF M!Init, MP!Init, M!user_table, MP!user_table, M!init_table,
      MP!init_table, M!kernel_entry, MP!kernel_entry, M!CodeFrame,
      MP!CodeFrame, M!PAG_LOG_INIT_CODE, MP!PAG_LOG_INIT_CODE
<1>6. ASSUME NEW p, NEW c  PROVE M!SysFork(p, c) <=> MP!SysFork(p, c)
  <2>1. \A alloc : M!lowest_free(alloc) <=> MP!lowest_free(alloc)
    BY DEF M!lowest_free, MP!lowest_free
  <2>2. M!copied_attachments(p) = MP!copied_attachments(p)
    BY <1>2 DEF M!copied_attachments, MP!copied_attachments
  <2>3. \A alloc : M!child_table(p, c, alloc) = MP!child_table(p, c, alloc)
    BY <1>1, <2>2 DEF M!child_table, MP!child_table
  <2>4. M!parent_table(p) = MP!parent_table(p)
    BY <1>1 DEF M!parent_table, MP!parent_table
  <2>5. \A id : M!inherited(p, id) = MP!inherited(p, id)
    BY <1>3, <1>4 DEF M!inherited, MP!inherited
  <2>6. \A id : M!stale_window(p, id) <=> MP!stale_window(p, id)
    BY <1>3 DEF M!stale_window, MP!stale_window
  <2> QED
    BY <1>1, <2>1, <2>3, <2>4, <2>5, <2>6, Zenon DEF M!SysFork, MP!SysFork
<1>7. \A p, c : M!SysForkNoFrames(p, c) <=> MP!SysForkNoFrames(p, c)
  BY <1>1, <1>4 DEF M!SysForkNoFrames, MP!SysForkNoFrames,
      M!PAG_LOG_INIT_DATA, MP!PAG_LOG_INIT_DATA,
      M!PAG_LOG_INIT_CODE, MP!PAG_LOG_INIT_CODE
<1>8. ASSUME NEW p  PROVE /\ M!SysExit(p) <=> MP!SysExit(p)
                          /\ M!SysExitFaults(p) <=> MP!SysExitFaults(p)
  <2>1. M!left_ref(p) = MP!left_ref(p)
    BY <1>3, <1>4 DEF M!left_ref, MP!left_ref
  <2>2. M!to_clear(p) = MP!to_clear(p)
    BY <1>3, <2>1 DEF M!to_clear, MP!to_clear
  <2>3. M!left_data(p) = MP!left_data(p)
    BY <1>1, Zenon DEF M!left_data, MP!left_data
  <2>4. M!left_table(p) = MP!left_table(p)
    BY <1>1, <1>2 DEF M!left_table, MP!left_table
  <2>5. \A id : M!last(p, id) = MP!last(p, id)
    BY <1>3 DEF M!last, MP!last
  <2>6. \A id : M!still_there(p, id) <=> MP!still_there(p, id)
    BY <1>1, <1>2, <2>5 DEF M!still_there, MP!still_there
  <2>7. \A id : M!may_be_there(p, id) <=> MP!may_be_there(p, id)
    BY <1>1, <1>2 DEF M!may_be_there, MP!may_be_there
  <2>8. M!cleared_instead(p, M!to_clear(p)) = MP!cleared_instead(p, MP!to_clear(p))
    BY <1>1, <2>2, Zenon DEF M!cleared_instead, MP!cleared_instead
  <2>9. M!SysExit(p) <=> MP!SysExit(p)
    BY <1>1, <2>1, <2>2, <2>3, <2>4, <2>7, <2>8, Zenon DEF M!SysExit, MP!SysExit
  <2> QED
    BY <1>1, <2>2, <2>6, <2>9, Zenon DEF M!SysExitFaults, MP!SysExitFaults
<1>9. /\ \A p, id, page : M!SysShmat(p, id, page) <=> MP!SysShmat(p, id, page)
      /\ \A p, page : M!SysShmdt(p, page) <=> MP!SysShmdt(p, page)
      /\ \A p, id : M!SysShmrm(p, id) <=> MP!SysShmrm(p, id)
      /\ \A p, id : M!UserWrite(p, id) <=> MP!UserWrite(p, id)
  BY <1>1 DEF M!SysShmat, MP!SysShmat, M!SysShmdt, MP!SysShmdt,
      M!SysShmrm, MP!SysShmrm, M!UserWrite, MP!UserWrite,
      M!candidates, MP!candidates
<1> QED  BY <1>2, <1>5, <1>6, <1>7, <1>8, <1>9

-----------------------------------------------------------------------------
\* The inductive invariant: those of the two parts, and what ties them: the
\* slots in use are the living processes, and idle keeps its PID.
ZInv == /\ SP!IInv /\ MP!Tables
        /\ live = SP!Alive
        /\ task[0].PID = 0
        /\ data \in [MP!Frames -> Values]

\* The running process uses its own table, through CR3 as well.
LEMMA OwnTable ==
    ASSUME ZInv, current # 0
    PROVE  own_PT = current /\ cr3 = current /\ current \in live /\ current \in Procs
<1>1. current \in SP!Alive
  BY DEF SP!Alive, SP!Idle
<1>2. task[current].dir = current /\ cr3 = task[current].dir
  BY <1>1 DEF ZInv, SP!IInv, SP!ContextOfCurrent
<1> QED  BY <1>1, <1>2 DEF ZInv, MP!Tables, MP!TablesTyped, own_PT

\* A step of Zeos is a step of the scheduler, or none,
LEMMA SchedStep == ASSUME [Next]_vars  PROVE [SP!Next]_(SP!vars)
<1>1. CASE Clock \/ Yield \/ Fork \/ ForkFails \/ Exit
  BY <1>1, SameSched DEF Clock, Yield, Fork, ForkFails, Exit, SP!Next
<1>2. CASE ~(Clock \/ Yield \/ Fork \/ ForkFails \/ Exit)
  <2>1. UNCHANGED sched_vars
    BY <1>2 DEF Next, vars, OnlyMemory, ExitFaults, Shmat, Shmdt, Shmrm, WriteShared, Write
  <2> QED  BY <2>1 DEF sched_vars, SP!vars
<1> QED  BY <1>1, <1>2

\* and a step of the memory, or none.
LEMMA MemoryStep == ASSUME ZInv, [Next]_vars  PROVE [MP!Next]_(MP!vars)
<1>1. CASE UNCHANGED memory_vars
  BY <1>1 DEF memory_vars, MP!vars
<1>2. ASSUME current # 0,
             \/ \E c \in Procs : MP!SysFork(current, c) \/ MP!SysForkNoFrames(current, c)
             \/ MP!SysExit(current) \/ MP!SysExitFaults(current)
             \/ \E id \in MP!Ids, page \in AttachPages : MP!SysShmat(current, id, page)
             \/ \E page \in MP!attached(current) : MP!SysShmdt(current, page)
             \/ \E id \in MP!Ids : MP!SysShmrm(current, id) \/ MP!UserWrite(current, id)
      PROVE  MP!Next
  BY <1>2, OwnTable, Zenon DEF MP!Next, MP!ProcNext
<1>3. CASE Fork \/ ForkFails
  <2>1. /\ current # 0
        /\ \E c : MP!SysFork(own_PT, c) \/ MP!SysForkNoFrames(own_PT, c)
    BY <1>3, SameMemory, SameSched
       DEF Fork, ForkFails, S!SysFork, S!SysForkNoFrames, S!UserRuns
  <2>2. \E c \in Procs : MP!SysFork(current, c) \/ MP!SysForkNoFrames(current, c)
    BY <2>1, OwnTable DEF MP!SysFork, MP!SysForkNoFrames
  <2> QED  BY <1>2, <2>1, <2>2
<1>4. CASE Exit \/ ExitFaults
  <2>1. /\ current # 0
        /\ MP!SysExit(own_PT) \/ MP!SysExitFaults(own_PT)
    BY <1>4, SameMemory, SameSched
       DEF Exit, ExitFaults, OnlyMemory, UserRuns, S!SysExit, S!UserRuns
  <2> QED  BY <1>2, <2>1, OwnTable
<1>5. CASE \E id \in M!Ids : \/ Shmrm(id) \/ WriteShared(id)
                             \/ \E page \in AttachPages : Shmat(id, page)
  <2>1. current # 0
    BY <1>5, SameSched DEF Shmrm, WriteShared, Shmat, OnlyMemory, UserRuns, S!UserRuns
  <2>2. PICK id \in MP!Ids : \/ MP!SysShmrm(own_PT, id) \/ MP!UserWrite(own_PT, id)
                             \/ \E page \in AttachPages : MP!SysShmat(own_PT, id, page)
    BY <1>5, SameMemory, SameLayout DEF Shmrm, WriteShared, Shmat
  <2> QED  BY <1>2, <2>1, <2>2, OwnTable
<1>6. CASE \E page \in IF current = S!Idle THEN {} ELSE M!attached(own_PT) : Shmdt(page)
  <2>1. current # 0
    BY <1>6, SameSched
  <2>2. \E page \in MP!attached(own_PT) : MP!SysShmdt(own_PT, page)
    BY <1>6, <2>1, SameMemory, SameSched DEF Shmdt
  <2> QED  BY <1>2, <2>1, <2>2, OwnTable
<1>7. CASE Clock \/ Yield \/ \E pag \in M!DataPages, v \in Values : Write(pag, v)
  BY <1>1, <1>7 DEF Clock, Yield, Write, OnlySched
<1> QED  BY <1>1, <1>3, <1>4, <1>5, <1>6, <1>7 DEF Next, vars

\* The frames that data pages use, and their entries.
LEMMA DataEntries ==
    ASSUME ZInv, NEW t \in live, NEW pag \in MP!DataPages
    PROVE  pt[t][pag].present /\ pt[t][pag].frame \in MP!Frames
<1>1. t \in Procs /\ pag \in MP!Pages /\ pt \in [Procs -> [MP!Pages -> MP!Entries]]
  BY MemoryConstants, MP!PageKinds DEF ZInv, MP!Tables, MP!TablesTyped
<1> QED  BY <1>1 DEF ZInv, MP!Tables, MP!DataMapped, MP!Entries


\* One kind of step after the other: what it does to the processes and to the
\* data, for the invariant and for the promise.

\* The clock and sys_yield.
LEMMA TurnStep ==
    ASSUME ZInv, Clock \/ Yield
    PROVE  /\ SP!Alive' = SP!Alive
           /\ \A t \in SP!Alive \cup {0} : task'[t].PID = task[t].PID
           /\ current' \in SP!Alive \cup {0}
           /\ UNCHANGED <<memory_vars, data>>
<1>1. SP!IInv /\ UNCHANGED <<memory_vars, data>>
  BY DEF ZInv, Clock, Yield, OnlySched
<1>2. 0 \in SP!Tasks /\ SP!Alive \subseteq SP!Tasks /\ current \in SP!Alive \cup {0}
  BY <1>1, SchedConstants, SP!Slots, SP!QueueTasks
     DEF SP!Idle, SP!Alive, SP!IInv, SP!TypeOK
<1>3. CASE SP!ClockPreempt \/ SP!SysYield
  <2>1. /\ current' \in SP!QueueSet(readyqueue) \cup {current}
        /\ SP!Alive' = SP!Alive
        /\ \A t \in SP!Tasks : task'[t].PID = task[t].PID
    BY <1>1, <1>3, SchedConstants, SP!TurnSets
  <2> QED  BY <1>1, <1>2, <2>1 DEF SP!Alive
<1>4. CASE SP!ClockContinue
  BY <1>1, <1>2, <1>4 DEF SP!ClockContinue, SP!Alive
<1> QED  BY <1>3, <1>4, SameSched DEF Clock, Yield, SP!ClockInterrupt

\* fork.
LEMMA ForkStep ==
    ASSUME ZInv, Fork
    PROVE  LET u == Head(freequeue) IN
           /\ u \in Procs /\ u \notin SP!Alive /\ u # 0
           /\ SP!Alive' = SP!Alive \cup {u} /\ live' = live \cup {u}
           /\ current \in SP!Alive /\ current' = current
           /\ task'[u].PID = global_PID + 1
           /\ \A t \in SP!Alive \cup {0} : task'[t].PID = task[t].PID
           /\ global_PID \in SP!FirstPID .. MaxPID - 1
           /\ cr3 = current
           /\ data' = copied_data(u)
<1> DEFINE u == Head(freequeue)
<1>1. SP!IInv /\ SP!SysFork /\ MP!SysFork(own_PT, u) /\ data' = copied_data(u)
  BY SameSched, SameMemory DEF ZInv, Fork
<1>2. current # 0 /\ global_PID < MaxPID
  BY <1>1 DEF SP!SysFork, SP!UserRuns, SP!Idle
<1>3. u \in Procs /\ live' = live \cup {u}
  BY <1>1 DEF MP!SysFork
<1>4. /\ u \in SP!Tasks /\ u \notin SP!Alive /\ u # 0 /\ current' = current
      /\ SP!Alive' = SP!Alive \cup {u} /\ task'[u].PID = global_PID + 1
      /\ \A t \in SP!Tasks \ {u} : task'[t].PID = task[t].PID
  BY <1>1, SchedConstants, SP!ForkSets DEF SP!Idle
<1>5. 0 \in SP!Tasks /\ SP!Alive \subseteq SP!Tasks
  BY <1>1, SchedConstants, SP!Slots, SP!QueueTasks
     DEF SP!Idle, SP!Alive, SP!IInv, SP!TypeOK
<1>6. current \in SP!Alive /\ cr3 = current
  BY <1>2, OwnTable DEF ZInv
<1>7. global_PID \in SP!FirstPID .. MaxPID - 1
  <2>1. global_PID \in SP!FirstPID .. MaxPID /\ MaxPID \in Nat
    BY <1>1, SchedConstants DEF SP!IInv, SP!TypeOK, SP!SchedAssumption
  <2> QED  BY <1>2, <2>1 DEF SP!FirstPID
<1> QED  BY <1>1, <1>3, <1>4, <1>5, <1>6, <1>7

\* A fork that fails.
LEMMA ForkFailsStep ==
    ASSUME ZInv, ForkFails
    PROVE  /\ SP!Alive' = SP!Alive /\ live' = live
           /\ \A t \in SP!Alive \cup {0} : task'[t].PID = task[t].PID
           /\ current' = current /\ data' = data
<1> DEFINE u == Head(freequeue)
<1>1. SP!IInv /\ SP!SysForkNoFrames /\ MP!SysForkNoFrames(own_PT, u) /\ data' = data
  BY SameSched, SameMemory DEF ZInv, ForkFails
<1>2. /\ u \notin SP!Alive /\ u # 0 /\ current' = current /\ SP!Alive' = SP!Alive
      /\ \A t \in SP!Tasks \ {u} : task'[t] = task[t]
  BY <1>1, SchedConstants, SP!ForkFailsSets DEF SP!Idle
<1>3. 0 \in SP!Tasks /\ SP!Alive \subseteq SP!Tasks
  BY <1>1, SchedConstants, SP!Slots, SP!QueueTasks
     DEF SP!Idle, SP!Alive, SP!IInv, SP!TypeOK
<1>4. live' = live
  BY <1>1 DEF MP!SysForkNoFrames
<1> QED  BY <1>1, <1>2, <1>3, <1>4

\* exit.
LEMMA ExitStep ==
    ASSUME ZInv, Exit
    PROVE  /\ current \in SP!Alive
           /\ SP!Alive' = SP!Alive \ {current} /\ live' = live \ {current}
           /\ \A t \in (SP!Alive \cup {0}) \ {current} : task'[t].PID = task[t].PID
           /\ current' \in SP!Alive' \cup {0} /\ data' = data
<1>1. SP!IInv /\ SP!SysExit /\ MP!SysExit(own_PT) /\ data' = data
  BY SameSched, SameMemory DEF ZInv, Exit
<1>2. /\ current # 0 /\ current' # current
      /\ current' \in SP!QueueSet(readyqueue) \cup {0}
      /\ SP!Alive' = SP!Alive \ {current}
      /\ \A t \in SP!Tasks \ {current} : task'[t].PID = task[t].PID
  BY <1>1, SchedConstants, SP!ExitSets DEF SP!Idle
<1>3. 0 \in SP!Tasks /\ SP!Alive \subseteq SP!Tasks
  BY <1>1, SchedConstants, SP!Slots, SP!QueueTasks
     DEF SP!Idle, SP!Alive, SP!IInv, SP!TypeOK
<1>4. own_PT = current /\ current \in SP!Alive
  BY <1>2, OwnTable DEF ZInv
<1>5. live' = live \ {current}
  BY <1>1, <1>4 DEF MP!SysExit
<1> QED  BY <1>1, <1>2, <1>3, <1>4, <1>5 DEF SP!Alive

\* The other calls: the processes are as they were.
LEMMA CallStep ==
    ASSUME ZInv, Next, ~(Clock \/ Yield \/ Fork \/ ForkFails \/ Exit)
    PROVE  /\ UNCHANGED sched_vars /\ SP!Alive' = SP!Alive /\ live' = live
           /\ \/ data' = data
              \/ /\ UNCHANGED memory_vars
                 /\ \E pag \in M!DataPages, v \in Values : Write(pag, v)
<1>1. UNCHANGED sched_vars
  BY DEF Next, OnlyMemory, ExitFaults, Shmat, Shmdt, Shmrm, WriteShared, Write
<1>2. SP!Alive' = SP!Alive
  BY <1>1 DEF sched_vars, SP!Alive, SP!QueueSet
<1>3. live' = live
  <2>1. M!SysExitFaults(own_PT) => live' = live
    BY DEF M!SysExitFaults
  <2>2. \A id, page : M!SysShmat(own_PT, id, page) => live' = live
    BY DEF M!SysShmat
  <2>3. \A page : M!SysShmdt(own_PT, page) => live' = live
    BY DEF M!SysShmdt
  <2>4. \A id : M!SysShmrm(own_PT, id) \/ M!UserWrite(own_PT, id) => live' = live
    BY DEF M!SysShmrm, M!UserWrite
  <2> QED
    BY <2>1, <2>2, <2>3, <2>4
       DEF Next, ExitFaults, Shmat, Shmdt, Shmrm, WriteShared, Write, memory_vars
<1>4. \/ data' = data
      \/ /\ UNCHANGED memory_vars
         /\ \E pag \in M!DataPages, v \in Values : Write(pag, v)
  BY DEF Next, OnlyMemory, ExitFaults, Shmat, Shmdt, Shmrm, WriteShared, Write
<1> QED  BY <1>1, <1>2, <1>3, <1>4


\* Where data is copied to, and what from.
LEMMA CopiedData ==
    ASSUME ZInv, Fork, MP!Tables'
    PROVE  LET u == Head(freequeue) IN
           /\ data' \in [MP!Frames -> Values]
           /\ \A pag \in MP!DataPages :
                 data'[pt'[u][pag].frame] = data[pt[current][pag].frame]
           /\ \A t \in SP!Alive, pag \in MP!DataPages :
                 data'[pt'[t][pag].frame] = data[pt[t][pag].frame]
<1> DEFINE u == Head(freequeue)
<1>1. /\ u \in Procs /\ u \notin live /\ live' = live \cup {u} /\ cr3 = current
      /\ current \in live /\ data' = copied_data(u) /\ live = SP!Alive
      /\ data \in [MP!Frames -> Values]
  BY ForkStep DEF ZInv
<1>2. \A t \in live', pag \in MP!DataPages : pt'[t][pag].frame \in MP!Frames
  <2> SUFFICES ASSUME NEW t \in live', NEW pag \in MP!DataPages
               PROVE  pt'[t][pag].frame \in MP!Frames
    OBVIOUS
  <2>1. t \in Procs /\ pag \in MP!Pages /\ pt' \in [Procs -> [MP!Pages -> MP!Entries]]
    BY MemoryConstants, MP!PageKinds DEF MP!Tables, MP!TablesTyped, MP!Entries
  <2> QED  BY <2>1 DEF MP!Entries
<1>3. \A t, s \in live', pag, r \in MP!DataPages :
         pt'[t][pag].frame = pt'[s][r].frame => t = s /\ pag = r
  BY DEF MP!Tables, MP!DataDistinct, MP!get_frame
<1>4. \A t \in live, pag \in MP!DataPages : pt'[t][pag] = pt[t][pag]
  BY <1>1, MemoryConstants, MemoryStep, MP!DataStays DEF ZInv, Next
<1>5. \A t \in live, pag \in MP!DataPages : pt[t][pag].frame \in MP!Frames
  BY DataEntries
<1>6. data' = [f \in MP!Frames |->
                 IF \E pag \in MP!DataPages : pt'[u][pag].frame = f
                 THEN data[pt[current][CHOOSE pag \in MP!DataPages :
                                            pt'[u][pag].frame = f].frame]
                 ELSE data[f]]
  BY <1>1, SameLayout DEF copied_data, reached
<1> HIDE DEF u
<1>7. data' \in [MP!Frames -> Values]
  <2>1. ASSUME NEW f \in MP!Frames, NEW pag \in MP!DataPages, pt'[u][pag].frame = f
        PROVE  data[pt[current][CHOOSE r \in MP!DataPages :
                                   pt'[u][r].frame = f].frame] \in Values
    <3>1. (CHOOSE r \in MP!DataPages : pt'[u][r].frame = f) \in MP!DataPages
      BY <2>1
    <3> QED  BY <3>1, <1>1, <1>5
  <2> QED  BY <2>1, <1>1, <1>6
<1>8. ASSUME NEW pag \in MP!DataPages
      PROVE  data'[pt'[u][pag].frame] = data[pt[current][pag].frame]
  <2>1. u \in live' /\ pt'[u][pag].frame \in MP!Frames
    BY <1>1, <1>2
  <2>2. (CHOOSE r \in MP!DataPages : pt'[u][r].frame = pt'[u][pag].frame) = pag
    BY <1>3, <2>1
  <2> QED  BY <1>6, <2>1, <2>2
<1>9. ASSUME NEW t \in live, NEW pag \in MP!DataPages
      PROVE  data'[pt'[t][pag].frame] = data[pt[t][pag].frame]
  <2>1. pt'[t][pag].frame = pt[t][pag].frame /\ pt[t][pag].frame \in MP!Frames
    BY <1>4, <1>5
  <2>2. ~\E r \in MP!DataPages : pt'[u][r].frame = pt'[t][pag].frame
    BY <1>1, <1>3
  <2> QED  BY <1>6, <2>1, <2>2
<1> QED  BY <1>1, <1>7, <1>8, <1>9 DEF u

\* Every step preserves the invariant.
LEMMA NextZInv == ZInv /\ [Next]_vars => ZInv'
<1> SUFFICES ASSUME ZInv, [Next]_vars  PROVE ZInv'
  OBVIOUS
<1>1. SP!IInv' /\ MP!Tables'
  BY SchedStep, MemoryStep, SchedConstants, MemoryConstants, SP!NextIInv, MP!NextTables
     DEF ZInv
<1> DEFINE Rest == /\ live' = SP!Alive' /\ task'[0].PID = 0
                   /\ data' \in [MP!Frames -> Values]
<1>2. CASE Clock \/ Yield
  <2>1. Rest
    BY <1>2, TurnStep DEF ZInv, memory_vars
  <2> QED  BY <1>1, <2>1 DEF ZInv
<1>3. CASE Fork
  <2>1. Rest
    BY <1>1, <1>3, ForkStep, CopiedData DEF ZInv
  <2> QED  BY <1>1, <2>1 DEF ZInv
<1>4. CASE ForkFails
  <2>1. Rest
    BY <1>4, ForkFailsStep DEF ZInv
  <2> QED  BY <1>1, <2>1 DEF ZInv
<1>5. CASE Exit
  <2>1. 0 \notin SP!Alive
    BY DEF ZInv, MP!Tables, MP!TablesTyped, Procs
  <2>2. Rest
    BY <1>5, <2>1, ExitStep DEF ZInv
  <2> QED  BY <1>1, <2>2 DEF ZInv
<1>6. CASE Next /\ ~(Clock \/ Yield \/ Fork \/ ForkFails \/ Exit)
  <2>1. UNCHANGED sched_vars /\ SP!Alive' = SP!Alive /\ live' = live
    BY <1>6, CallStep
  <2>2. ASSUME NEW pag \in M!DataPages, NEW v \in Values, Write(pag, v)
        PROVE  data' \in [MP!Frames -> Values]
    BY <2>2 DEF Write, ZInv
  <2>3. Rest
    BY <1>6, <2>1, <2>2, CallStep DEF ZInv, sched_vars
  <2> QED  BY <1>1, <2>3 DEF ZInv
<1>7. CASE UNCHANGED vars
  <2>1. SP!Alive' = SP!Alive
    BY <1>7 DEF vars, sched_vars, SP!Alive, SP!QueueSet
  <2>2. Rest
    BY <1>7, <2>1 DEF vars, sched_vars, memory_vars, ZInv
  <2> QED  BY <1>1, <2>2 DEF ZInv
<1> QED  BY <1>2, <1>3, <1>4, <1>5, <1>6, <1>7 DEF Next

LEMMA InitZInv == Init => ZInv
<1> SUFFICES ASSUME Init  PROVE ZInv
  OBVIOUS
<1>1. SP!Init /\ MP!Init /\ data = [f \in MP!Frames |-> Initial]
  BY SameSched, SameMemory, SameLayout DEF Init
<1>2. SP!IInv /\ MP!Tables
  BY <1>1, SchedConstants, MemoryConstants, SP!InitIInv, MP!InitTables
<1>3. live = {1} /\ SP!Alive = {1}
  BY <1>1 DEF MP!Init, SP!Init, SP!Alive, SP!QueueSet, SP!Init1, SP!Idle
<1>4. task[0].PID = 0
  BY <1>1, SchedConstants, SP!Slots
     DEF SP!Init, SP!init_idle, SP!blank_task, SP!Idle
<1> QED  BY <1>1, <1>2, <1>3, <1>4, ZeosAssumption DEF ZInv

LEMMA ZInvariant == Spec => []ZInv
BY InitZInv, NextZInv, PTL DEF Spec

-----------------------------------------------------------------------------
(* The theorems.                                                           *)

\* A program never faults on its own data, whatever switch gave it the
\* processor (task_switch, set_cr3).
THEOREM OwnDataThere == Spec => []OwnDataMapped
<1>1. ZInv => OwnDataMapped
  <2> SUFFICES ASSUME ZInv, S!UserRuns, NEW pag \in M!DataPages
               PROVE  pt[cr3][pag].present
    BY DEF OwnDataMapped
  <2>1. cr3 \in live
    BY OwnTable, SameSched DEF S!UserRuns
  <2> QED  BY <2>1, DataEntries, SameLayout
<1> QED  BY <1>1, ZInvariant, PTL

\* What a process has as its data, by its slot.
own(t) == [pag \in MP!DataPages |-> data[pt[t][pag].frame]]

\* The data of a PID is that of the slot it lives in.
MemBySlot == /\ DOMAIN mem = {task[t].PID : t \in SP!Alive}
             /\ \A t \in SP!Alive : mem[task[t].PID] = own(t)
             /\ mem = [pid \in DOMAIN mem |-> mem[pid]]

LEMMA MemIs ==
    ZInv => /\ MemBySlot
            /\ \A t, u \in SP!Alive : task[t].PID = task[u].PID => t = u
            /\ \A t \in SP!Alive : task[t].PID \in 1 .. global_PID
<1> SUFFICES ASSUME ZInv
             PROVE  /\ MemBySlot
                    /\ \A t, u \in SP!Alive : task[t].PID = task[u].PID => t = u
                    /\ \A t \in SP!Alive : task[t].PID \in 1 .. global_PID
  OBVIOUS
<1>1. /\ \A t, u \in SP!Alive : task[t].PID = task[u].PID => t = u
      /\ \A t \in SP!Alive : task[t].PID \in 1 .. global_PID
  BY DEF ZInv, SP!IInv, SP!DistinctPIDs
<1>2. \A t \in SP!Alive : task[t].dir = t
  BY DEF ZInv, SP!IInv, SP!ContextOfCurrent
<1>3. Alive = SP!Alive
  BY SameSched DEF Alive
<1>4. ASSUME NEW t \in SP!Alive  PROVE slot(task[t].PID) = t
  BY <1>1, <1>3 DEF slot
<1>5. mem = [pid \in {task[t].PID : t \in SP!Alive} |-> data_of(slot(pid))]
  BY <1>3 DEF mem
<1>6. ASSUME NEW t \in SP!Alive  PROVE mem[task[t].PID] = own(t)
  <2>1. mem[task[t].PID] = data_of(t)
    BY <1>4, <1>5
  <2> QED  BY <2>1, <1>2, SameLayout DEF data_of, own
<1>7. MemBySlot
  BY <1>5, <1>6 DEF MemBySlot
<1> QED  BY <1>1, <1>7

LEMMA MemBySlots == ZInv => MemBySlot
BY MemIs

\* It is so after a step as well.
LEMMA MemIsNext ==
    ASSUME ZInv'
    PROVE  /\ DOMAIN mem' = {task'[t].PID : t \in SP!Alive'}
           /\ \A t \in SP!Alive' : mem'[task'[t].PID] = own(t)'
           /\ mem' = [pid \in DOMAIN mem' |-> mem'[pid]]
<1>1. MemBySlot'
  BY MemBySlots, PTL
<1> QED  BY <1>1 DEF MemBySlot

\* Data that stays where it is, of processes that keep their PIDs.
LEMMA SameMem ==
    ASSUME ZInv, ZInv', SP!Alive' = SP!Alive,
           \A t \in SP!Alive : task'[t].PID = task[t].PID /\ own(t)' = own(t)
    PROVE  mem' = mem
<1>1. /\ DOMAIN mem' = {task'[t].PID : t \in SP!Alive}
      /\ \A t \in SP!Alive : mem'[task'[t].PID] = own(t)'
      /\ mem' = [pid \in DOMAIN mem' |-> mem'[pid]]
  BY MemIsNext
<1>2. DOMAIN mem' = DOMAIN mem
  BY <1>1, MemIs DEF MemBySlot
<1>3. \A pid \in DOMAIN mem : mem'[pid] = mem[pid]
  BY <1>1, MemIs DEF MemBySlot
<1> QED  BY <1>1, <1>2, <1>3, MemIs DEF MemBySlot

\* A page of data stays in its frame, while the process lives.
LEMMA OwnStays ==
    ASSUME ZInv, [Next]_vars, data' = data, NEW t \in live, t \in live'
    PROVE  own(t)' = own(t)
<1>1. \A pag \in MP!DataPages : pt'[t][pag] = pt[t][pag]
  BY MemoryConstants, MemoryStep, MP!DataStays DEF ZInv
<1> QED  BY <1>1 DEF own

\* The processor is with a process there is, or with idle when there is none.
RunnerIs == /\ current = 0 => running = 0 /\ DOMAIN mem = {}
            /\ current # 0 => current \in SP!Alive /\ running \in DOMAIN mem

LEMMA WhoRuns == ZInv => RunnerIs
<1> SUFFICES ASSUME ZInv  PROVE RunnerIs
  OBVIOUS
<1>1. CASE current = 0
  <2>1. SP!Alive = {}
    <3>1. readyqueue = <<>>
      BY <1>1 DEF ZInv, SP!IInv, SP!IdleOnlyWhenAlone, SP!Idle
    <3> QED  BY <1>1, <3>1, SchedConstants, SP!EmptyQueue DEF SP!Alive, SP!Idle
  <2> QED  BY <1>1, <2>1, MemIs DEF MemBySlot, running, ZInv, RunnerIs
<1>2. CASE current # 0
  BY <1>2, OwnTable, MemIs DEF MemBySlot, running, ZInv, RunnerIs
<1> QED  BY <1>1, <1>2

LEMMA WhoRunsNext ==
    ASSUME ZInv'
    PROVE  /\ current' = 0 => running' = 0 /\ DOMAIN mem' = {}
           /\ current' # 0 => current' \in SP!Alive' /\ running' \in DOMAIN mem'
<1>1. RunnerIs'
  BY WhoRuns, PTL
<1> QED  BY <1>1 DEF RunnerIs

\* Every step of the system is one the promise allows: turns pass the
\* processor on,
LEMMA TurnPromise == ASSUME ZInv, ZInv', Clock \/ Yield  PROVE Promise!Switch
<1>1. /\ SP!Alive' = SP!Alive /\ UNCHANGED <<memory_vars, data>>
      /\ \A t \in SP!Alive : task'[t].PID = task[t].PID
  BY TurnStep
<1>2. \A t \in SP!Alive : own(t)' = own(t)
  BY <1>1 DEF own, memory_vars
<1>3. mem' = mem
  BY <1>1, <1>2, SameMem
<1>4. /\ current' = 0 => running' = 0
      /\ current' # 0 => running' \in DOMAIN mem'
  BY WhoRunsNext
<1> QED  BY <1>3, <1>4 DEF Promise!Switch, Promise!Next_running

\* fork gives the child a copy,
LEMMA ForkPromise ==
    ASSUME ZInv, ZInv', Fork
    PROVE  \E pid \in S!FirstPID + 1 .. MaxPID : Promise!Fork(pid)
<1> DEFINE pid == global_PID + 1
<1>0. PICK u : u = Head(freequeue)
  OBVIOUS
<1>1. /\ u \notin SP!Alive
      /\ SP!Alive' = SP!Alive \cup {u}
      /\ current \in SP!Alive /\ current' = current
      /\ task'[u].PID = pid
      /\ \A t \in SP!Alive : task'[t].PID = task[t].PID
      /\ global_PID \in SP!FirstPID .. MaxPID - 1
  BY <1>0, ForkStep
<1>2. /\ \A pag \in MP!DataPages :
            data'[pt'[u][pag].frame] = data[pt[current][pag].frame]
      /\ \A t \in SP!Alive, pag \in MP!DataPages :
            data'[pt'[t][pag].frame] = data[pt[t][pag].frame]
  BY <1>0, CopiedData DEF ZInv
<1>3. own(u)' = own(current) /\ \A t \in SP!Alive : own(t)' = own(t)
  BY <1>2 DEF own
<1>4. /\ DOMAIN mem' = {task'[t].PID : t \in SP!Alive'}
      /\ \A t \in SP!Alive' : mem'[task'[t].PID] = own(t)'
      /\ mem' = [q \in DOMAIN mem' |-> mem'[q]]
  BY MemIsNext
<1>5. pid \in S!FirstPID + 1 .. MaxPID
  <2>1. MaxPID \in Nat
    BY SchedConstants DEF SP!SchedAssumption
  <2> QED  BY <1>1, <2>1, SameSched DEF SP!FirstPID
<1>6. pid \notin DOMAIN mem /\ running \in DOMAIN mem /\ running' = running
  <2>1. \A t \in SP!Alive : task[t].PID \in 1 .. global_PID
    BY MemIs DEF MemBySlot
  <2>2. pid \notin DOMAIN mem
    BY <1>1, <2>1, MemIs DEF MemBySlot, SP!FirstPID
  <2> QED  BY <1>1, <2>2, MemIs DEF MemBySlot, running
<1>7. DOMAIN mem' = DOMAIN mem \cup {pid}
  BY <1>1, <1>4, MemIs DEF MemBySlot
<1>8. mem'[pid] = mem[running]
  <2>1. mem[running] = own(current)
    BY <1>1, MemIs DEF MemBySlot, running
  <2>2. mem'[pid] = own(u)'
    BY <1>1, <1>4
  <2> QED  BY <2>1, <2>2, <1>3
<1>9. \A q \in DOMAIN mem : mem'[q] = mem[q]
  BY <1>1, <1>3, <1>4, MemIs DEF MemBySlot
<1>10. mem' = [q \in DOMAIN mem \cup {pid} |-> IF q = pid THEN mem[running] ELSE mem[q]]
  BY <1>4, <1>6, <1>7, <1>8, <1>9
<1>11. Promise!Fork(pid)
  BY <1>6, <1>10 DEF Promise!Fork
<1> QED  BY <1>5, <1>11

\* exit takes its data away,
LEMMA ExitPromise == ASSUME ZInv, ZInv', Exit  PROVE Promise!Exit
<1>1. /\ current \in SP!Alive /\ data' = data
      /\ SP!Alive' = SP!Alive \ {current} /\ live' = live \ {current}
      /\ \A t \in SP!Alive \ {current} : task'[t].PID = task[t].PID
  BY ExitStep
<1>2. \A t \in SP!Alive \ {current} : own(t)' = own(t)
  BY <1>1, OwnStays DEF ZInv, Next
<1>3. /\ DOMAIN mem' = {task'[t].PID : t \in SP!Alive'}
      /\ \A t \in SP!Alive' : mem'[task'[t].PID] = own(t)'
      /\ mem' = [q \in DOMAIN mem' |-> mem'[q]]
  BY MemIsNext
<1>4. running = task[current].PID /\ running \in DOMAIN mem
  BY <1>1, MemIs DEF MemBySlot, running
<1>5. DOMAIN mem' = DOMAIN mem \ {running}
  BY <1>1, <1>3, <1>4, MemIs DEF MemBySlot
<1>6. \A q \in DOMAIN mem' : mem'[q] = mem[q]
  BY <1>1, <1>2, <1>3, MemIs DEF MemBySlot
<1>7. mem' = [q \in DOMAIN mem \ {running} |-> mem[q]]
  BY <1>3, <1>5, <1>6
<1>8. /\ current' = 0 => running' = 0 /\ DOMAIN mem' = {}
      /\ current' # 0 => running' \in DOMAIN mem'
  BY WhoRunsNext
<1> QED  BY <1>4, <1>7, <1>8 DEF Promise!Exit, Promise!Next_running

\* and a program writes its own data only.
LEMMA WritePromise ==
    ASSUME ZInv, ZInv', NEW pag \in M!DataPages, NEW v \in Values, Write(pag, v)
    PROVE  Promise!Write(pag, v)
<1>1. /\ cr3 = current /\ current \in SP!Alive /\ live = SP!Alive
      /\ UNCHANGED <<sched_vars, memory_vars>>
      /\ data' = [data EXCEPT ![pt[current][pag].frame] = v]
      /\ pag \in MP!DataPages
  BY OwnTable, SameLayout, SameSched DEF Write, UserRuns, S!UserRuns, reached, ZInv
<1>2. /\ SP!Alive' = SP!Alive /\ running' = running
      /\ \A t \in SP!Alive : task'[t].PID = task[t].PID
  BY <1>1 DEF sched_vars, SP!Alive, SP!QueueSet, running
<1>0. PICK c \in SP!Alive : c = current
  BY <1>1
<1>3. ASSUME NEW t \in SP!Alive \ {c}  PROVE own(t)' = own(t)
  <2>1. \A r \in MP!DataPages : pt[t][r].frame # pt[current][pag].frame
    BY <1>0, <1>1 DEF ZInv, MP!Tables, MP!DataDistinct, MP!get_frame
  <2>2. \A r \in MP!DataPages : data'[pt[t][r].frame] = data[pt[t][r].frame]
    BY <1>1, <2>1, DataEntries DEF ZInv
  <2> QED  BY <1>1, <2>2 DEF own, memory_vars
<1>4. own(c)' = [own(c) EXCEPT ![pag] = v]
  <2>1. \A r \in MP!DataPages \ {pag} : pt[current][r].frame # pt[current][pag].frame
    BY <1>0, <1>1 DEF ZInv, MP!Tables, MP!DataDistinct, MP!get_frame
  <2>2. \A r \in MP!DataPages \ {pag} :
           data'[pt[current][r].frame] = data[pt[current][r].frame]
    BY <1>1, <2>1, DataEntries DEF ZInv
  <2>3. data'[pt[current][pag].frame] = v
    BY <1>1, DataEntries DEF ZInv
  <2> QED  BY <1>0, <1>1, <2>2, <2>3 DEF own, memory_vars
<1>5. /\ DOMAIN mem' = {task'[t].PID : t \in SP!Alive'}
      /\ \A t \in SP!Alive' : mem'[task'[t].PID] = own(t)'
      /\ mem' = [q \in DOMAIN mem' |-> mem'[q]]
  BY MemIsNext
<1>6. running = task[c].PID /\ running \in DOMAIN mem
  BY <1>0, <1>1, MemIs DEF MemBySlot, running
<1>7. DOMAIN mem' = DOMAIN mem
  BY <1>2, <1>5, MemIs DEF MemBySlot
<1>8. \A q \in DOMAIN mem \ {running} : mem'[q] = mem[q]
  BY <1>2, <1>3, <1>5, <1>6, MemIs DEF MemBySlot
<1>9. mem'[running] = [mem[running] EXCEPT ![pag] = v]
  BY <1>0, <1>2, <1>4, <1>5, <1>6, MemIs DEF MemBySlot
<1>10. mem' = [mem EXCEPT ![running] = [mem[running] EXCEPT ![pag] = v]]
  BY <1>5, <1>6, <1>7, <1>8, <1>9, MemIs DEF MemBySlot
<1> QED  BY <1>2, <1>6, <1>10 DEF Promise!Write

\* Every other step, or none, leaves the data of every process as it is.
LEMMA StepPromise == ZInv /\ ZInv' /\ [Next]_vars => [Promise!Next]_(Promise!vars)
<1> SUFFICES ASSUME ZInv, ZInv', [Next]_vars  PROVE [Promise!Next]_(Promise!vars)
  OBVIOUS
<1>1. CASE Clock \/ Yield
  BY <1>1, TurnPromise DEF Promise!Next
<1>2. CASE Fork
  BY <1>2, ForkPromise DEF Promise!Next
<1>3. CASE Exit
  BY <1>3, ExitPromise DEF Promise!Next
<1>4. CASE \E pag \in M!DataPages, v \in Values : Write(pag, v)
  BY <1>4, WritePromise DEF Promise!Next
<1>5. ASSUME SP!Alive' = SP!Alive, live' = live, data' = data, current' = current,
             \A t \in SP!Alive \cup {0} : task'[t].PID = task[t].PID
      PROVE  UNCHANGED Promise!vars
  <2>1. \A t \in SP!Alive : own(t)' = own(t)
    BY <1>5, OwnStays DEF ZInv
  <2>2. mem' = mem
    BY <1>5, <2>1, SameMem
  <2>3. running' = running
    BY <1>5, WhoRuns DEF running, RunnerIs
  <2> QED  BY <2>2, <2>3 DEF Promise!vars
<1>6. CASE ForkFails
  BY <1>5, <1>6, ForkFailsStep
<1>7. CASE Next /\ ~(\/ Clock \/ Yield \/ Fork \/ ForkFails \/ Exit
                     \/ \E pag \in M!DataPages, v \in Values : Write(pag, v))
  <2>1. UNCHANGED sched_vars /\ SP!Alive' = SP!Alive /\ live' = live /\ data' = data
    BY <1>7, CallStep
  <2> QED  BY <1>5, <2>1 DEF sched_vars
<1>8. CASE UNCHANGED vars
  BY <1>5, <1>8 DEF vars, sched_vars, memory_vars, SP!Alive, SP!QueueSet
<1> QED  BY <1>1, <1>2, <1>3, <1>4, <1>6, <1>7, <1>8

LEMMA InitPromise == Init => Promise!Init
<1> SUFFICES ASSUME Init  PROVE Promise!Init
  OBVIOUS
<1>1. ZInv /\ SP!Init /\ MP!Init /\ data = [f \in MP!Frames |-> Initial]
  BY InitZInv, SameSched, SameMemory, SameLayout DEF Init
<1>2. SP!Alive = {1} /\ current = 1
  BY <1>1 DEF SP!Init, SP!Alive, SP!QueueSet, SP!Init1, SP!Idle
<1>3. task[1].PID = 1
  BY <1>1, SchedConstants, SP!Slots
     DEF SP!Init, SP!init_task1, SP!blank_task, SP!Idle, SP!Init1
<1>4. own(1) = [pag \in MP!DataPages |-> Initial]
  BY <1>1, <1>2, DataEntries DEF own, ZInv
<1>5. mem = [pid \in {1} |-> [pag \in M!DataPages |-> Initial]]
  BY <1>1, <1>2, <1>3, <1>4, MemIs, SameLayout DEF MemBySlot
<1> QED  BY <1>2, <1>3, <1>5 DEF Promise!Init, running

\* A process reads what it wrote, and nobody else writes its data: the
\* scheduler and the memory together implement Isolation, for every number of
\* slots and pages, and any sequence of calls.
THEOREM ProcessesIsolated == Spec => Isolated
<1>1. Init => Promise!Init
  BY InitPromise
<1>2. ZInv /\ ZInv' /\ [Next]_vars => [Promise!Next]_(Promise!vars)
  BY StepPromise
<1> QED  BY <1>1, <1>2, ZInvariant, PTL DEF Spec, Isolated, Promise!Spec
=============================================================================
