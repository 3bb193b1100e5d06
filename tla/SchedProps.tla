----------------------------- MODULE SchedProps -----------------------------
(***************************************************************************)
(* What must hold of the processes and the scheduler of Sched.             *)
(***************************************************************************)
EXTENDS Sched

PIDs == {-1, 0, 1} \cup FirstPID .. MaxPID

StackPointers == (Tasks \X Nat) \cup {NoEsp}

Task_struct == [PID : PIDs,
                state : {"ST_RUN", "ST_READY"},
                total_quantum : {0, DEFAULT_QUANTUM},
                dir : Tasks \cup {NoDir},
                register_esp : StackPointers]

\* Type invariant.
TypeOK ==
    /\ task \in [Tasks -> Task_struct]
    /\ kstack \in [Tasks -> Nat]
    /\ freequeue \in Seq(Tasks)
    /\ readyqueue \in Seq(Tasks)
    /\ current \in Tasks
    /\ remaining_quantum \in 1 .. DEFAULT_QUANTUM
    /\ global_PID \in FirstPID .. MaxPID
    /\ esp0 \in Tasks
    /\ cr3 \in Tasks \cup {NoDir}
    /\ wild \in BOOLEAN

NoRepeat(q) == \A i, j \in DOMAIN q : q[i] = q[j] => i = j

\* No slot is lost and none has two owners: every slot but idle's is exactly
\* one of free, ready and running, and appears once in its queue (the queues
\* of sys_fork, sys_exit, force_task_switch and sched_next_rr).
SlotPartition ==
    /\ NoRepeat(freequeue) /\ NoRepeat(readyqueue)
    /\ QueueSet(freequeue) \cap QueueSet(readyqueue) = {}
    /\ current \notin QueueSet(freequeue) \cup QueueSet(readyqueue)
    /\ Idle \notin QueueSet(freequeue) \cup QueueSet(readyqueue)
    /\ Tasks = QueueSet(freequeue) \cup QueueSet(readyqueue) \cup {current, Idle}

\* Idle runs only when there is no process left (sched_next_rr).
IdleOnlyWhenAlone == current = Idle => readyqueue = <<>>

\* The state field agrees with the place of the task: the running task is
\* ST_RUN, so update_process_state_rr never unlinks a task that is in no
\* list, and the queued ones are ST_READY.
StateMatchesPlace ==
    /\ task[current].state = "ST_RUN"
    /\ \A t \in QueueSet(readyqueue) : task[t].state = "ST_READY"

\* Two processes never share a PID and none has one that is still to be
\* given out, slots left behind by failed forks notwithstanding.
DistinctPIDs ==
    /\ \A t, u \in Alive : task[t].PID = task[u].PID => t = u
    /\ \A t \in Alive : task[t].PID \in 1 .. global_PID

\* The processor context belongs to the running task: kernel entry stack
\* (TSS and MSR) and page directory; no two tasks use one directory,
\* although fork copies the parent's pointer.
ContextOfCurrent ==
    /\ esp0 = current
    /\ cr3 = task[current].dir
    /\ \A t \in Alive \cup {Idle} : task[t].dir = t

\* Every task that is waiting for the processor has its saved stack pointer
\* on the switch frame in its own stack, so it resumes where it stopped:
\* never in the stack it was copied from, nor in an older frame.
ResumePointsToFrame ==
    \A t \in QueueSet(readyqueue) \cup ({Idle} \ {current}) :
        task[t].register_esp = <<t, kstack[t]>>

\* A resume goes wrong only in sys_yield with nobody else ready.
LoneYieldOnly ==
    [][wild' => SysYield /\ readyqueue = <<>>]_vars

\* A task is chosen only from the head of the ready queue and joins it only
\* at the end: nobody overtakes (round robin).
NoOvertaking ==
    [][\A i, j \in DOMAIN readyqueue :
         i < j => \/ \E k, l \in DOMAIN readyqueue' :
                        /\ k < l
                        /\ readyqueue'[k] = readyqueue[i]
                        /\ readyqueue'[l] = readyqueue[j]
                  \/ i = 1 /\ current' = readyqueue[i]]_vars

\* A process keeps the processor until its quantum is used up, unless it
\* gives it away itself: the clock never takes it earlier, and a turn starts
\* with a full quantum.
FullTurn ==
    [][current' # current =>
          /\ ClockInterrupt => remaining_quantum = 1
          /\ remaining_quantum' = DEFAULT_QUANTUM]_vars

\* Every ready process gets the processor, whatever the others do, as long
\* as the clock ticks.
ReadyRuns == \A t \in Tasks : t \in QueueSet(readyqueue) ~> (current = t \/ wild)

\* The processes take turns as RoundRobin says: forks join at the end of the
\* ring, an exit hands the turn on, every other switch moves the head to the
\* end, and PIDs are never given out twice.
RR == INSTANCE RoundRobin WITH
        First <- 1, FirstPID <- FirstPID,
        ring <- IF current = Idle THEN <<>>
                ELSE [i \in 1 .. Len(readyqueue) + 1 |->
                        IF i = 1 THEN task[current].PID
                        ELSE task[readyqueue[i - 1]].PID],
        last <- global_PID
TakesTurns == RR!Spec

\* "System call to force a task switch": it comes back to its caller.
NeverWild == ~wild
=============================================================================
