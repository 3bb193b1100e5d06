----------------------------- MODULE ProcStats ------------------------------
(***************************************************************************)
(* The statistics of the processes of PROJECTE (p_stats.c and its callers):*)
(* the steps of Sched, with the time that goes by in each and the counter  *)
(* each reading of the clock charges it to.                                *)
(*                                                                         *)
(* Time goes by in a program (Work) and in a handler: Before the switch,   *)
(* on the stack of the process that entered, and After it, on the stack of *)
(* the one that resumes.  Only the clock and keyboard handlers call        *)
(* user_to_system and system_to_user; a system call enters and leaves      *)
(* without a reading.  Readings that wrap are the subject of module Ticks. *)
(***************************************************************************)
EXTENDS Sched

CONSTANTS
    Spans,       \* what time a handler takes before and after a switch
    MaxNow       \* bound: end of time

ASSUME ProcStatsAssumption == Spans \subseteq Nat /\ MaxNow \in Nat

ESRCH == 3
EFAULT == 14
EINVAL == 22

VARIABLES
    now,
    stats,       \* p_stats of every slot
    via,         \* the path by which a slot last left the processor
    born,        \* history: when init_stats last set the counters of a slot
    waited,      \* history: the time a process has been ready
    answer       \* history: the last get_stats, its PID, slot and result

pvars == <<now, stats, via, born, waited, answer>>

no_answer == [pid |-> 0, slot |-> Idle, result |-> -ESRCH]
Mut_init_stats(at) == [user_ticks |-> 0, system_ticks |-> 0, ready_ticks |-> 0,
                       elapsed_total_ticks |-> 0]
init_stats(at) == [user_ticks |-> 0, system_ticks |-> 0, ready_ticks |-> 0,
                   elapsed_total_ticks |-> at]

StatsInit ==
    /\ Init
    /\ now = 0
    /\ stats = [t \in Tasks |-> init_stats(0)]
    /\ via = [t \in Tasks |-> "idle"]
    /\ born = [t \in Tasks |-> 0]
    /\ waited = [t \in Tasks |-> 0]
    /\ answer = no_answer

-----------------------------------------------------------------------------
\* update_stats(v, elapsed): what went by since the last reading goes to v.
to_user(s, at) == [s EXCEPT !.user_ticks = @ + (at - s.elapsed_total_ticks),
                            !.elapsed_total_ticks = at]
to_system(s, at) == [s EXCEPT !.system_ticks = @ + (at - s.elapsed_total_ticks),
                              !.elapsed_total_ticks = at]
to_ready(s, at) == [s EXCEPT !.ready_ticks = @ + (at - s.elapsed_total_ticks),
                             !.elapsed_total_ticks = at]

\* sched_next_rr at time at (and update_process_state_rr just before it).
Mut_switched(st, old, new, at) == [st EXCEPT ![new] = to_ready(@, at)]
switched(st, old, new, at) ==
    LET s == [st EXCEPT ![old] = to_system(@, at)]
    IN  [s EXCEPT ![new] = to_ready(@, at)]

\* A task resumes where it left: in the clock handler, which charges the
\* time until it returns, or in a system call, in fork's child or in idle.
left_by_clock(t) == via[t] = "clock"
resumed(st, t, at) == [st EXCEPT ![t] = to_system(@, at)]

\* Processes in the ready queue wait.
waiting(w, q, d) == [t \in Tasks |-> IF t \in QueueSet(q) THEN w[t] + d ELSE w[t]]

TimeLeft(n) == now + n <= MaxNow

\* The time between two instructions of a program.
Work ==
    /\ ~wild /\ TimeLeft(1)
    /\ now' = now + 1
    /\ waited' = waiting(waited, readyqueue, 1)
    /\ UNCHANGED <<vars, stats, via, born, answer>>

ClockTicks(d, e) ==
    /\ TimeLeft(d + e)
    /\ ClockContinue
    /\ now' = now + d + e
    /\ stats' = resumed([stats EXCEPT ![current] = to_user(@, now)], current, now + d + e)
    /\ waited' = waiting(waited, readyqueue, d + e)
    /\ UNCHANGED <<via, born, answer>>

\* A key: keyboard_handler reads the clock on entry and on return, between two
\* instructions of a program or of idle.
KeyInterrupts(d) ==
    /\ ~wild /\ TimeLeft(d)
    /\ now' = now + d
    /\ stats' = resumed([stats EXCEPT ![current] = to_user(@, now)], current, now + d)
    /\ waited' = waiting(waited, readyqueue, d)
    /\ UNCHANGED <<vars, via, born, answer>>

\* What a switching handler leaves: st are the statistics before the switch.
Switches(st, path, d, e) ==
    /\ TimeLeft(d + e)
    /\ now' = now + d + e
    /\ LET s == switched(st, current, current', now + d) IN
        stats' = IF left_by_clock(current') THEN resumed(s, current', now + d + e) ELSE s
    /\ via' = [via EXCEPT ![current] = path]
    /\ waited' = waiting(waiting(waited, readyqueue, d), readyqueue', e)
    /\ UNCHANGED <<born, answer>>

ClockSwitches(d, e) ==
    /\ ClockPreempt
    /\ Switches([stats EXCEPT ![current] = to_user(@, now)], "clock", d, e)

YieldSwitches(d, e) == SysYield /\ Switches(stats, "yield", d, e)
ExitSwitches(d, e) == SysExit /\ Switches(stats, "exit", d, e)

\* fork: the child starts with counters of its own.
Forks(d) ==
    /\ SysFork /\ TimeLeft(d)
    /\ LET u == Head(freequeue) IN
        /\ stats' = [stats EXCEPT ![u] = init_stats(now + d)]
        /\ born' = [born EXCEPT ![u] = now + d]
        /\ via' = [via EXCEPT ![u] = "fork"]
        /\ waited' = [waiting(waited, readyqueue, d) EXCEPT ![u] = 0]
    /\ now' = now + d
    /\ UNCHANGED answer

\* A fork that fails leaves the counters of the parent in the free slot.
ForkFails(d) ==
    /\ SysForkNoFrames /\ TimeLeft(d)
    /\ LET u == Head(freequeue) IN
        /\ stats' = [stats EXCEPT ![u] = stats[current]]
        /\ born' = [born EXCEPT ![u] = born[current]]
        /\ waited' = [waiting(waited, readyqueue, d) EXCEPT ![u] = waited[current]]
    /\ now' = now + d
    /\ UNCHANGED <<via, answer>>

\* sys_get_stats: the first slot with the PID, if the caller may write the
\* block.  Left out: remaining_ticks and total_trans, which are only reported.
SysGetStats(pid, writable) ==
    /\ UserRuns
    /\ LET found == {t \in Tasks : task[t].PID = pid}
           first == CHOOSE t \in found : \A u \in found : t <= u
           result == CASE ~writable -> -EFAULT
                       [] writable /\ pid < 0 -> -EINVAL
                       [] writable /\ pid >= 0 /\ found = {} -> -ESRCH
                       [] OTHER -> 0
       IN  answer' = [pid |-> pid, slot |-> IF result = 0 THEN first ELSE Idle,
                      result |-> result]
    /\ UNCHANGED <<vars, now, stats, via, born, waited>>

StatsNext ==
    \/ Work
    \/ \E d, e \in Spans : \/ ClockTicks(d, e) \/ ClockSwitches(d, e)
                           \/ YieldSwitches(d, e) \/ ExitSwitches(d, e)
    \/ \E d \in Spans : KeyInterrupts(d) \/ Forks(d) \/ ForkFails(d)
    \/ \E pid \in {-1, 0, 1} \cup FirstPID + 1 .. MaxPID, writable \in BOOLEAN :
           SysGetStats(pid, writable)

StatsSpec == StatsInit /\ [][StatsNext]_<<vars, pvars>>

-----------------------------------------------------------------------------
\* No time is lost or counted twice, whatever the path by which a process
\* left the processor and came back: the counters of every slot add up to
\* the time from its init_stats to its last reading.
AllTimeCounted ==
    \A t \in Tasks :
        stats[t].user_ticks + stats[t].system_ticks + stats[t].ready_ticks
            = stats[t].elapsed_total_ticks - born[t]

\* The ready time of a process is the time it spent in the ready queue.
ReadyTimeExact ==
    \A t \in Alive :
        waited[t] = IF t \in QueueSet(readyqueue)
                    THEN stats[t].ready_ticks + (now - stats[t].elapsed_total_ticks)
                    ELSE stats[t].ready_ticks

\* "No such process": get_stats answers for processes, never for a slot
\* without one.
StatsOfProcess ==
    [][answer' # answer /\ answer'.result = 0
          => answer'.slot \in Alive \cup {Idle}]_<<vars, pvars>>
=============================================================================
