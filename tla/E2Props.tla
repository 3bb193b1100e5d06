------------------------------ MODULE E2Props -------------------------------
(***************************************************************************)
(* What must hold of the processes of the second delivery.                 *)
(***************************************************************************)
EXTENDS E2Processes

\* The slots a queue holds, and the sons in a ring, in the order of next.
Listed(head) == [i \in DOMAIN nodes(machine, head, Fuel) |-> nodes(machine, head, Fuel)[i][2]]
SetOf(q) == {q[i] : i \in DOMAIN q}
Free  == SetOf(Listed(freequeue))
Ready == SetOf(Listed(readyqueue))
Live  == Ready \cup ({current} \ {Idle})

\* As long as every process outlives its sons, through every order of calls
\* the free and the ready queue stay rings of their own, and every slot but
\* idle's is in exactly one of them or running (list_del and list_add_tail in
\* sys_fork, sys_exit, sys_block, schedule).  (The sons that sys_exit hands to
\* idle hang from a list nobody initialised.  When their slots are used again
\* it leads from the sons of one process to those of another and to free
\* slots, and with 5 slots an unblock can make the running process ready.)
QueuesAreRings ==
    ~orphaned =>
        /\ is_ring(machine, freequeue, Fuel) /\ is_ring(machine, readyqueue, Fuel)
        /\ Len(Listed(freequeue)) + Len(Listed(readyqueue)) + 2 = NR_TASKS
        /\ Free \cup Ready \cup {current, Idle} = Tasks

\* As long as every process outlives its sons, the sons of a process are a
\* ring of exactly the processes it forked and that have not exited, and every
\* walk over them ends.
FamilyIntact ==
    ~orphaned =>
        /\ status # "hung"
        /\ \A t \in Live :
              /\ is_ring(machine, Sons(t), Fuel)
              /\ SetOf(Listed(Sons(t))) = {u \in Live : task[u].pParent = t}

\* As long as every process outlives its sons, no clock interrupt, fork or
\* unblock follows a null pointer where page 0 is not mapped, which would stop
\* the kernel: only the initial process does, when it exits (it has no parent)
\* or blocks (blocked was never initialized).
FaultOnlyByInit ==
    status = "ok" /\ ~orphaned /\ ~HasPage0(current) =>
        /\ ~schedule(machine).null
        /\ current = Init1 =>
              /\ \A pid \in FirstPID .. MaxPID : ~sys_unblock(machine, pid).null
              /\ ~list_empty(machine, freequeue) =>
                    ~sys_fork(machine).null /\ ~sys_fork_no_frames(machine).null

\* As long as every process outlives its sons, the processes take turns as
\* RoundRobin says, blocked or not.
RR == INSTANCE RoundRobin WITH
        First <- 1, FirstPID <- FirstPID,
        ring <- IF current = Idle THEN <<>>
                ELSE <<task[current].PID>> \o
                     [i \in DOMAIN Listed(readyqueue) |-> task[Listed(readyqueue)[i]].PID],
        last <- global_pids
TakesTurns == RR!Init /\ [][RR!Next \/ orphaned']_(RR!vars)

\* Every ready process gets the processor, as long as the clock ticks, the
\* kernel has not stopped and every process outlives its sons.
ReadyRuns == \A t \in Tasks : t \in Ready ~> (current = t \/ status # "ok" \/ orphaned)

-----------------------------------------------------------------------------
\* What comments and tests of the delivery say, and the code does not.

\* "move any alive children from cur to idle": an orphan is found from the
\* sons of idle.
OrphansReachIdle ==
    \A t \in Live : task[t].PID # 1 /\ task[t].pParent \notin Live
                        => t \in SetOf(Listed(Sons(Idle)))

\* A process that called block does not run until it is unblocked.
BlockedIsSuspended == status = "ok" => task[current].state # "ST_BLOCKED"

\* An unblock reaches the child it names: it becomes ready, or will not stop
\* at its next block.
UnblockReachesChild ==
    [][\A pid \in FirstPID .. MaxPID : \A t \in Live \ {current} :
         SysUnblock(pid) /\ task[t].PID = pid /\ task[t].pParent = current
             => task'[t] # task[t]]_vars
=============================================================================
