---------------------------- MODULE E2Processes ----------------------------
(***************************************************************************)
(* Processes of the second delivery, E2/zeos, at the level of its list     *)
(* pointers: the queues, the rings of sons, fork, exit, block, unblock and *)
(* the round-robin scheduler (sched.c, sys.c over list.c).                 *)
(*                                                                         *)
(* A handler runs with interrupts masked, so it is one step: a function    *)
(* from machine to machine, where a machine is a heap of List with the     *)
(* rest of the kernel's state in further fields.  A step that follows the  *)
(* null pointer in a process without page 0 ends in pf_routine, a step     *)
(* whose loop never meets its end never returns: both stop the system.     *)
(*                                                                         *)
(* Frames, stack pointers and what fork copies besides the task_struct are *)
(* left out (see Memory and Sched, where they are the same): whether       *)
(* alloc_frame finds enough frames is a free choice.  All tasks have the   *)
(* same quantum.  Mut_... definitions are faulty variants, for tests only. *)
(***************************************************************************)
EXTENDS List

CONSTANTS
    NR_TASKS, QUANTUM,
    MaxPID,        \* bound: no fork once global_pids has this value
    MaxPending     \* bound: unblocks of one process not yet consumed

ASSUME E2Assumption ==
    /\ NR_TASKS \in Nat /\ NR_TASKS >= 3
    /\ QUANTUM \in Nat \ {0}
    /\ {MaxPID, MaxPending} \subseteq Nat

Tasks == 0 .. NR_TASKS - 1
FirstPID == 1000
NoPID == -2                    \* what is read as PID outside the task array
NoTask == -1

\* The list_head structures: three in every task, the heads, and page 0.
List(t) == <<"list", t>>
Sons(t) == <<"sons", t>>
Brothers(t) == <<"brothers", t>>
freequeue  == <<"freequeue", 0>>
readyqueue == <<"readyqueue", 0>>
blocked    == <<"blocked", 0>>
Nodes == ({"list", "sons", "brothers"} \X Tasks) \cup
         {freequeue, readyqueue, blocked, NULL}
Fuel == 3 * NR_TASKS + 4       \* no list is longer than that

VARIABLES
    link,            \* next and prev of every list_head
    task,            \* PID, state, pending_unblocks, pParent of every slot
    current, quantum_ticks, global_pids,
    status,          \* "ok", "fault" or "hung"
    orphaned         \* history: has a process exited before one of its sons?

vars == <<link, task, current, quantum_ticks, global_pids, status, orphaned>>

-----------------------------------------------------------------------------
\* Boot.  Slots are pushed onto the free queue, so the last one becomes idle
\* and the one before it the initial process.  Neither blocked nor the sons
\* of idle are initialized.

Idle  == NR_TASKS - 1
Init1 == NR_TASKS - 2

zeroed == [at |-> [n \in Nodes |-> [next |-> NULL, prev |-> NULL]], null |-> FALSE]

init_sched ==
    LET fill[i \in 0 .. NR_TASKS] ==
            IF i = 0 THEN INIT_LIST_HEAD(INIT_LIST_HEAD(zeroed, readyqueue), freequeue)
            ELSE list_add(fill[i - 1], List(i - 1), freequeue)
    IN  fill[NR_TASKS]

taken(h) == list_del(h, list_first(h, freequeue))
init_idle(h) == taken(h)
Mut_init_task1(h) == taken(h)
init_task1(h) ==
    INIT_LIST_HEAD(INIT_LIST_HEAD(taken(h), Sons(Init1)), Brothers(Init1))

blank_task == [PID |-> 0, state |-> "ST_RUN", pending_unblocks |-> 0, pParent |-> NoTask]

Init ==
    /\ link = init_task1(init_idle(init_sched)).at
    /\ task = [t \in Tasks |-> IF t = Init1 THEN [blank_task EXCEPT !.PID = 1]
                                            ELSE blank_task]
    /\ current = Init1
    /\ quantum_ticks = QUANTUM
    /\ global_pids = FirstPID
    /\ status = "ok"
    /\ orphaned = FALSE

-----------------------------------------------------------------------------
\* A step of the machine.

machine == [at |-> link, null |-> FALSE, hung |-> FALSE, task |-> task,
            current |-> current, quantum_ticks |-> quantum_ticks,
            global_pids |-> global_pids]

HasPage0(t) == t \notin {Idle, Init1}

Stops(why) == /\ status' = why
              /\ UNCHANGED <<link, task, current, quantum_ticks, global_pids>>

Becomes(result) == \E m \in {result} :
    IF m.null /\ ~HasPage0(current) THEN Stops("fault")
    ELSE IF m.hung THEN Stops("hung")
    ELSE /\ link' = m.at
         /\ task' = m.task
         /\ current' = m.current
         /\ quantum_ticks' = m.quantum_ticks
         /\ global_pids' = m.global_pids
         /\ UNCHANGED status

\* list_head_to_task_struct(p)->PID
PID_of(m, p) == IF p[1] \in {"list", "sons", "brothers"} THEN m.task[p[2]].PID ELSE NoPID

for_each(m, head, Body(_, _)) ==
    With(list_for_each_safe(m, head, 2 * Fuel, Body), LAMBDA e :
         IF e.pos = head THEN e.heap ELSE [e.heap EXCEPT !.hung = TRUE])

-----------------------------------------------------------------------------
\* The scheduler.

update_process_state_rr(m, t, dst) ==
    LET out == IF m.task[t].state # "ST_RUN" THEN list_del(m, List(t)) ELSE m
    IN  [list_add_tail(out, List(t), dst) EXCEPT
            !.task[t].state = IF dst = readyqueue THEN "ST_READY" ELSE "ST_BLOCKED"]

task_switch(m, new) == [m EXCEPT !.task[new].state = "ST_RUN", !.current = new,
                                 !.quantum_ticks = QUANTUM]

sched_next_rr(result) == With(result, LAMBDA m :
    LET f == list_first(m, readyqueue)
    IN  IF list_empty(m, readyqueue) THEN task_switch(m, Idle)
        ELSE task_switch(list_del(m, f), f[2]))

needs_sched_rr(m) == m.quantum_ticks = 1 /\ ~list_empty(m, readyqueue)

schedule(result) == With(result, LAMBDA m :
    IF needs_sched_rr(m)
    THEN sched_next_rr(update_process_state_rr(m, m.current, readyqueue))
    ELSE [m EXCEPT !.quantum_ticks = IF @ = 1 THEN QUANTUM ELSE @ - 1])

-----------------------------------------------------------------------------
\* fork.  The child starts as a copy of its parent's task_struct.

copied(m, u) ==
    [m EXCEPT !.task[u] = m.task[m.current], !.at[List(u)] = m.at[List(m.current)],
              !.at[Sons(u)] = m.at[Sons(m.current)],
              !.at[Brothers(u)] = m.at[Brothers(m.current)]]

child_of(m) == list_first(m, freequeue)[2]
new_task(m) == copied(taken(m), child_of(m))

adopted(m, u) ==
    [list_add(INIT_LIST_HEAD(m, Sons(u)), Brothers(u), Sons(m.current))
        EXCEPT !.task[u].pParent = m.current]

numbered(m, u) == [m EXCEPT !.global_pids = @ + 1, !.task[u].PID = m.global_pids + 1,
                            !.task[u].state = "ST_READY"]

sys_fork(m) ==
    LET u == child_of(m)
    IN  adopted(list_add_tail(numbered(new_task(m), u), List(u), readyqueue), u)

Mut_sys_fork_no_frames(m) == new_task(m)
sys_fork_no_frames(m) == list_add_tail(new_task(m), List(child_of(m)), freequeue)

-----------------------------------------------------------------------------
\* exit

leave(h, p) == IF PID_of(h, p) = h.task[h.current].PID THEN list_del(h, p) ELSE h
to_idle(h, p) == list_add_tail(list_del(h, p), p, Sons(Idle))

Mut_leave_parent(m) == m
leave_parent(m) ==
    LET parent == m.task[m.current].pParent
    IN  IF parent = NoTask THEN [m EXCEPT !.null = TRUE]
        ELSE for_each(m, Sons(parent), leave)

hand_over_sons(m) == for_each(m, Sons(m.current), to_idle)

sys_exit(m) ==
    LET t == m.current
        alone == hand_over_sons(leave_parent(m))
        unlinked == list_del([alone EXCEPT !.task[t].PID = -1], List(t))
    IN  sched_next_rr(list_add_tail(unlinked, List(t), freequeue))

-----------------------------------------------------------------------------
\* block and unblock

\* is_child and get_child: the walk over the sons of the caller up to the
\* first one with that PID.
sons(m) == nodes(m, Sons(m.current), Fuel)
hits(m, pid) == {i \in DOMAIN sons(m) : PID_of(m, sons(m)[i]) = pid}
first_hit(m, pid) == CHOOSE i \in hits(m, pid) : \A j \in hits(m, pid) : i <= j
get_child(m, pid) == sons(m)[first_hit(m, pid)][2]
walked(m, pid) ==
    LET end == IF hits(m, pid) = {} THEN Len(sons(m)) ELSE first_hit(m, pid)
    IN  [m EXCEPT !.null = \E i \in 1 .. end : sons(m)[i] = NULL,
                  !.hung = hits(m, pid) = {} /\ end = Fuel]

sys_unblock(m, pid) ==
    LET t == get_child(m, pid)
    IN  CASE hits(m, pid) = {} -> walked(m, pid)
          [] hits(m, pid) # {} /\ m.task[t].state = "ST_BLOCKED" ->
                 update_process_state_rr(walked(m, pid), m.current, readyqueue)
          [] OTHER -> [walked(m, pid) EXCEPT !.task[m.current].pending_unblocks = @ + 1]

sys_block(m) ==
    IF m.task[m.current].pending_unblocks = 0
    THEN schedule(update_process_state_rr(m, m.current, blocked))
    ELSE [m EXCEPT !.task[m.current].pending_unblocks = @ - 1]

-----------------------------------------------------------------------------
Running == status = "ok"
UserRuns == Running /\ current # Idle

ClockInterrupt == Running /\ Becomes(schedule(machine)) /\ UNCHANGED orphaned

SysFork ==
    /\ UserRuns
    /\ ~list_empty(machine, freequeue)
    /\ global_pids < MaxPID
    /\ Becomes(sys_fork(machine)) /\ UNCHANGED orphaned

SysForkNoFrames ==
    /\ UserRuns
    /\ ~list_empty(machine, freequeue)
    /\ Becomes(sys_fork_no_frames(machine)) /\ UNCHANGED orphaned

SysExit ==
    /\ UserRuns /\ Becomes(sys_exit(machine))
    /\ orphaned' = (orphaned \/ ~list_empty(machine, Sons(current)))

SysBlock == UserRuns /\ Becomes(sys_block(machine)) /\ UNCHANGED orphaned

SysUnblock(pid) ==
    /\ UserRuns
    /\ task[current].pending_unblocks < MaxPending
    /\ Becomes(sys_unblock(machine, pid)) /\ UNCHANGED orphaned

Next ==
    \/ ClockInterrupt
    \/ SysFork \/ SysForkNoFrames \/ SysExit
    \/ SysBlock
    \/ \E pid \in FirstPID .. MaxPID : SysUnblock(pid)

Spec == Init /\ [][Next]_vars

\* The clock keeps ticking; a process is free never to call the kernel.
FairSpec == Spec /\ WF_vars(ClockInterrupt)
=============================================================================
