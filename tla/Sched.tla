------------------------------- MODULE Sched -------------------------------
(***************************************************************************)
(* Processes and round-robin scheduler of PROJECTE/zeos: the task array,   *)
(* the free and ready queues, fork, exit, yield, the clock-driven          *)
(* scheduler and the task switch (sched.c, sys.c, kernel-utils.S).         *)
(*                                                                         *)
(* Definitions named Mut_... are faulty variants of the one they precede;  *)
(* nothing uses them but the tests of the properties.                      *)
(*                                                                         *)
(* Interrupts are masked in the kernel (interrupt gates, sysenter), so a   *)
(* handler is one atomic step.  It ends where the next task resumes, on    *)
(* the frame that task left on its own kernel stack.                       *)
(*                                                                         *)
(* A stack pointer is a pair <<slot, depth>>: the task_union it points     *)
(* into and how deep.  The depth at which switch_stack saves depends on    *)
(* the C frames of the path that led there, hence on the build: it is the  *)
(* constant Depth.  Page contents, statistics and the pointers of the      *)
(* lists are the subject of other modules; whether alloc_frame finds       *)
(* enough frames for a fork is a free choice here.                         *)
(***************************************************************************)
EXTENDS Integers, Sequences

CONSTANTS
    NR_TASKS,         \* slots of the task array
    DEFAULT_QUANTUM,  \* clock ticks of a turn
    Depth,            \* depth of the frame saved by each switch path
    MaxPID            \* bound: no fork once global_PID has this value

Paths == {"idle", "fork", "clock", "yield", "exit"}
FirstPID == 1000      \* initial value of global_PID

ASSUME SchedAssumption ==
    /\ NR_TASKS \in Nat /\ NR_TASKS >= 2
    /\ DEFAULT_QUANTUM \in Nat \ {0}
    /\ Depth \in [Paths -> Nat]
    /\ MaxPID \in Nat /\ MaxPID >= FirstPID

Tasks == 0 .. NR_TASKS - 1
Idle  == 0            \* slot idle_task points to
Init1 == 1            \* slot of the initial process
NoDir == -1           \* dir_pages_baseAddr never assigned
NoEsp == <<-1, 0>>    \* register_esp never assigned (zero)

VARIABLES
    task,               \* the task_struct of every slot
    kstack,             \* depth of the switch frame last built on each stack
    freequeue, readyqueue,
    current,            \* slot whose kernel stack is in use
    remaining_quantum,
    global_PID,
    esp0,               \* slot tss.esp0 and MSR 0x175 point to
    cr3,                \* page directory in use
    wild                \* a task resumed where it had left no frame

vars == <<task, kstack, freequeue, readyqueue, current, remaining_quantum,
          global_PID, esp0, cr3, wild>>

-----------------------------------------------------------------------------
\* Boot: init_sched, init_idle and init_task1, in that order.

init_freequeue == [i \in 1 .. NR_TASKS |-> i - 1]

\* A slot of the zeroed task array after init_freequeue.
blank_task == [PID |-> -1, state |-> "ST_RUN", total_quantum |-> 0,
               dir |-> NoDir, register_esp |-> NoEsp]

Mut_init_idle == [blank_task EXCEPT !.PID = 0, !.dir = Idle,
                     !.total_quantum = DEFAULT_QUANTUM]
init_idle == [blank_task EXCEPT !.PID = 0, !.total_quantum = DEFAULT_QUANTUM,
                  !.dir = Idle, !.register_esp = <<Idle, Depth["idle"]>>]

init_task1 == [blank_task EXCEPT !.PID = 1, !.dir = Init1,
                  !.total_quantum = DEFAULT_QUANTUM]

Init ==
    /\ task = [t \in Tasks |-> CASE t = Idle  -> init_idle
                                 [] t = Init1 -> init_task1
                                 [] OTHER     -> blank_task]
    /\ kstack = [t \in Tasks |-> IF t = Idle THEN Depth["idle"] ELSE 0]
    /\ freequeue = Tail(Tail(init_freequeue))
    /\ readyqueue = <<>>
    /\ current = Init1
    /\ remaining_quantum = DEFAULT_QUANTUM
    /\ global_PID = FirstPID
    /\ esp0 = Init1
    /\ cr3 = Init1
    /\ wild = FALSE

-----------------------------------------------------------------------------
\* The task switch.  switch_stack receives the stack pointer to load by
\* value, read before the one of the outgoing task is stored; tk is the
\* task array as the caller left it.

Mut_task_switch(tk, new, path) ==
    LET esp == tk[new].register_esp IN
    /\ esp0' = new
    /\ task' = [tk EXCEPT ![current].register_esp = <<current, Depth[path]>>]
    /\ kstack' = [kstack EXCEPT ![current] = Depth[path]]
    /\ wild' = (esp # <<new, kstack'[new]>>)
    /\ current' = new
    /\ UNCHANGED cr3

task_switch(tk, new, path) ==
    LET esp == tk[new].register_esp IN
    /\ esp0' = new
    /\ cr3' = tk[new].dir
    /\ task' = [tk EXCEPT ![current].register_esp = <<current, Depth[path]>>]
    /\ kstack' = [kstack EXCEPT ![current] = Depth[path]]
    /\ wild' = (esp # <<new, kstack'[new]>>)
    /\ current' = new

\* The next task is the first of the ready queue rq, or idle.
sched_next_rr(tk, rq, path) ==
    LET new == IF rq # <<>> THEN Head(rq) ELSE Idle IN
    /\ readyqueue' = IF rq # <<>> THEN Tail(rq) ELSE rq
    /\ remaining_quantum' = tk[new].total_quantum
    /\ task_switch([tk EXCEPT ![new].state = "ST_RUN"], new, path)

\* update_process_state_rr(current(), &readyqueue): the task array and the
\* ready queue it leaves.  A task that is not running is unlinked first.
unlinked(t) == IF task[t].state # "ST_RUN"
               THEN SelectSeq(readyqueue, LAMBDA u : u # t)
               ELSE readyqueue
requeued(t) == Append(unlinked(t), t)
readied(t) == [task EXCEPT ![t].state = "ST_READY"]

\* clock_routine -> schedule -> update_sched_data_rr, needs_sched_rr.
Mut_Tick == remaining_quantum
Tick == remaining_quantum - 1

Mut_ClockPreempt ==
    /\ ~wild
    /\ readyqueue # <<>>
    /\ sched_next_rr(readied(current), requeued(current), "clock")
    /\ UNCHANGED <<freequeue, global_PID>>

ClockPreempt ==
    /\ ~wild
    /\ Tick = 0 /\ readyqueue # <<>>
    /\ sched_next_rr(readied(current), requeued(current), "clock")
    /\ UNCHANGED <<freequeue, global_PID>>

ClockContinue ==
    /\ ~wild
    /\ ~(Tick = 0 /\ readyqueue # <<>>)
    /\ remaining_quantum' = IF Tick = 0 THEN task[current].total_quantum ELSE Tick
    /\ UNCHANGED <<task, kstack, freequeue, readyqueue, current, global_PID,
                   esp0, cr3, wild>>

ClockInterrupt == ClockPreempt \/ ClockContinue

-----------------------------------------------------------------------------
\* System calls of the running process.  Idle makes none.

UserRuns == ~wild /\ current # Idle

\* sys_yield -> force_task_switch.
SysYield ==
    /\ UserRuns
    /\ sched_next_rr(readied(current), requeued(current), "yield")
    /\ UNCHANGED <<freequeue, global_PID>>

\* copy_data of the whole task_union, then allocate_DIR.
Mut_copied(u) == [task EXCEPT ![u] = task[current]]
copied(u) == [task EXCEPT ![u] = [task[current] EXCEPT !.dir = u]]

\* register_ebp - current() + uchild: the parent's place in the child's stack.
Mut_child_esp(u) == <<current, Depth["fork"]>>
child_esp(u) == <<u, Depth["fork"]>>

Mut_child_queued(u) == <<u>> \o readyqueue
child_queued(u) == Append(readyqueue, u)

Mut_SysFork ==
    /\ UserRuns
    /\ freequeue # <<>>
    /\ LET u == Head(freequeue) IN
        /\ freequeue' = Tail(freequeue)
        /\ task' = [copied(u) EXCEPT ![u].PID = global_PID + 1,
                        ![u].state = "ST_READY",
                        ![u].register_esp = child_esp(u)]
        /\ kstack' = [kstack EXCEPT ![u] = Depth["fork"]]
        /\ readyqueue' = child_queued(u)
        /\ cr3' = task[current].dir
    /\ UNCHANGED <<current, remaining_quantum, esp0, wild, global_PID>>

\* sys_fork when every page of the child gets a frame: the child is queued
\* with a switch frame of its own (at the parent's depth, in its own
\* stack); the parent's directory is reloaded.
SysFork ==
    /\ UserRuns
    /\ freequeue # <<>>
    /\ global_PID < MaxPID
    /\ LET u == Head(freequeue) IN
        /\ freequeue' = Tail(freequeue)
        /\ global_PID' = global_PID + 1
        /\ task' = [copied(u) EXCEPT ![u].PID = global_PID + 1,
                        ![u].state = "ST_READY",
                        ![u].register_esp = child_esp(u)]
        /\ kstack' = [kstack EXCEPT ![u] = Depth["fork"]]
        /\ readyqueue' = child_queued(u)
        /\ cr3' = task[current].dir
    /\ UNCHANGED <<current, remaining_quantum, esp0, wild>>

Mut_SysForkNoFrames ==
    /\ UserRuns
    /\ freequeue # <<>>
    /\ LET u == Head(freequeue) IN
        /\ freequeue' = Tail(freequeue)
        /\ task' = copied(u)
        /\ kstack' = [kstack EXCEPT ![u] = kstack[current]]
    /\ UNCHANGED <<readyqueue, current, remaining_quantum, global_PID,
                   esp0, cr3, wild>>

\* sys_fork when alloc_frame fails: the slot returns to the end of the free
\* queue and keeps what was copied into it, the parent's PID included.
SysForkNoFrames ==
    /\ UserRuns
    /\ freequeue # <<>>
    /\ LET u == Head(freequeue) IN
        /\ freequeue' = Append(Tail(freequeue), u)
        /\ task' = copied(u)
        /\ kstack' = [kstack EXCEPT ![u] = kstack[current]]
    /\ UNCHANGED <<readyqueue, current, remaining_quantum, global_PID,
                   esp0, cr3, wild>>

\* sys_exit: the slot is free before the switch that leaves its stack.
SysExit ==
    /\ UserRuns
    /\ freequeue' = Append(freequeue, current)
    /\ sched_next_rr([task EXCEPT ![current].PID = -1], readyqueue, "exit")
    /\ UNCHANGED global_PID

-----------------------------------------------------------------------------
Next == ClockInterrupt \/ SysYield \/ SysFork \/ SysForkNoFrames \/ SysExit

Spec == Init /\ [][Next]_vars

\* The clock keeps ticking; a process is free never to call the kernel.
FairSpec == Spec /\ WF_vars(ClockInterrupt)

\* The processes of the system: the running one and the ready ones.
QueueSet(q) == {q[i] : i \in DOMAIN q}
Alive == QueueSet(readyqueue) \cup ({current} \ {Idle})
=============================================================================
