------------------------- MODULE SchedClientsProofs -------------------------
(***************************************************************************)
(* Proofs about the two modules that build on Sched, with the invariant of *)
(* SchedProofs: a step of either is a step of the scheduler or leaves it   *)
(* alone.                                                                  *)
(*                                                                         *)
(* ProcStats: no time is lost or counted twice, for every number of tasks, *)
(* quantum and length of the handlers.                                     *)
(*                                                                         *)
(* Startup: nothing is used before it is set up and the first process      *)
(* starts in a sound system, for any number of slots, any quantum and any  *)
(* bound on the interrupts of the window that is below the quantum.        *)
(***************************************************************************)
EXTENDS ProcStats, Startup, SchedProofs

-----------------------------------------------------------------------------
(* ProcStats.                                                              *)

Counters == [user_ticks : Int, system_ticks : Int, ready_ticks : Int,
             elapsed_total_ticks : Int]

\* What a reading of the clock does not change: minus the time of birth.
Sum(s) == ((s.user_ticks + s.system_ticks) + s.ready_ticks) - s.elapsed_total_ticks

StatsInv ==
    /\ now \in Int
    /\ born \in [Tasks -> Int]
    /\ stats \in [Tasks -> Counters]
    /\ \A t \in Tasks : Sum(stats[t]) = 0 - born[t]

\* st2 differs from st by readings only.
Same(st, st2) == /\ st2 \in [Tasks -> Counters]
                 /\ \A t \in Tasks : Sum(st2[t]) = Sum(st[t])

LEMMA SetCounters ==
    ASSUME NEW s \in Counters, NEW x \in Int, NEW y \in Int
    PROVE  /\ [s EXCEPT !.user_ticks = x, !.elapsed_total_ticks = y] \in Counters
           /\ [s EXCEPT !.system_ticks = x, !.elapsed_total_ticks = y] \in Counters
           /\ [s EXCEPT !.ready_ticks = x, !.elapsed_total_ticks = y] \in Counters
  BY DEF Counters

\* A reading moves time from one counter to another.
LEMMA Reading ==
    ASSUME NEW s \in Counters, NEW at \in Int
    PROVE  /\ to_user(s, at) \in Counters /\ Sum(to_user(s, at)) = Sum(s)
           /\ to_system(s, at) \in Counters /\ Sum(to_system(s, at)) = Sum(s)
           /\ to_ready(s, at) \in Counters /\ Sum(to_ready(s, at)) = Sum(s)
  <1>1. /\ s.user_ticks \in Int /\ s.system_ticks \in Int /\ s.ready_ticks \in Int
        /\ s.elapsed_total_ticks \in Int
    BY DEF Counters
  <1>2. to_user(s, at) \in Counters /\ Sum(to_user(s, at)) = Sum(s)
    <2>0. s.user_ticks + (at - s.elapsed_total_ticks) \in Int  BY <1>1
    <2>1. to_user(s, at) \in Counters  BY <2>0, SetCounters DEF to_user
    <2>2. /\ to_user(s, at).user_ticks = s.user_ticks + (at - s.elapsed_total_ticks)
          /\ to_user(s, at).system_ticks = s.system_ticks
          /\ to_user(s, at).ready_ticks = s.ready_ticks
          /\ to_user(s, at).elapsed_total_ticks = at
      BY DEF Counters, to_user
    <2> QED  BY <1>1, <2>1, <2>2 DEF Sum
  <1>3. to_system(s, at) \in Counters /\ Sum(to_system(s, at)) = Sum(s)
    <2>0. s.system_ticks + (at - s.elapsed_total_ticks) \in Int  BY <1>1
    <2>1. to_system(s, at) \in Counters  BY <2>0, SetCounters DEF to_system
    <2>2. /\ to_system(s, at).user_ticks = s.user_ticks
          /\ to_system(s, at).system_ticks = s.system_ticks + (at - s.elapsed_total_ticks)
          /\ to_system(s, at).ready_ticks = s.ready_ticks
          /\ to_system(s, at).elapsed_total_ticks = at
      BY DEF Counters, to_system
    <2> QED  BY <1>1, <2>1, <2>2 DEF Sum
  <1>4. to_ready(s, at) \in Counters /\ Sum(to_ready(s, at)) = Sum(s)
    <2>0. s.ready_ticks + (at - s.elapsed_total_ticks) \in Int  BY <1>1
    <2>1. to_ready(s, at) \in Counters  BY <2>0, SetCounters DEF to_ready
    <2>2. /\ to_ready(s, at).user_ticks = s.user_ticks
          /\ to_ready(s, at).system_ticks = s.system_ticks
          /\ to_ready(s, at).ready_ticks = s.ready_ticks + (at - s.elapsed_total_ticks)
          /\ to_ready(s, at).elapsed_total_ticks = at
      BY DEF Counters, to_ready
    <2> QED  BY <1>1, <2>1, <2>2 DEF Sum
  <1> QED  BY <1>2, <1>3, <1>4

LEMMA ReadingAt ==
    ASSUME NEW st \in [Tasks -> Counters], NEW t \in Tasks, NEW at \in Int
    PROVE  /\ Same(st, [st EXCEPT ![t] = to_user(@, at)])
           /\ Same(st, [st EXCEPT ![t] = to_system(@, at)])
           /\ Same(st, [st EXCEPT ![t] = to_ready(@, at)])
  <1>1. st[t] \in Counters  OBVIOUS
  <1> QED  BY <1>1, Reading DEF Same

LEMMA SameTransitive ==
    ASSUME NEW st1, NEW st2, NEW st3, Same(st1, st2), Same(st2, st3)
    PROVE  Same(st1, st3)
  BY DEF Same

\* Readings keep the invariant.
LEMMA SameInv ==
    ASSUME StatsInv, now' \in Int, Same(stats, stats'), born' = born
    PROVE  StatsInv'
  BY DEF StatsInv, Same

LEMMA SwitchSame ==
    ASSUME NEW st \in [Tasks -> Counters], NEW old \in Tasks, NEW new \in Tasks,
           NEW at \in Int
    PROVE  Same(st, switched(st, old, new, at))
  <1> DEFINE s == [st EXCEPT ![old] = to_system(@, at)]
  <1>1. Same(st, s)  BY ReadingAt
  <1>2. s \in [Tasks -> Counters]  BY <1>1 DEF Same
  <1>3. Same(s, [s EXCEPT ![new] = to_ready(@, at)])
    <2> HIDE DEF s
    <2> QED  BY <1>2, ReadingAt
  <1> QED  BY <1>1, <1>3, SameTransitive DEF switched

\* A switching handler, from the clock or from a system call.
LEMMA SwitchesStep ==
    ASSUME StatsInv, NEW st, Same(stats, st), current \in Tasks, current' \in Tasks,
           NEW path, NEW d \in Int, NEW e \in Int, Switches(st, path, d, e)
    PROVE  StatsInv'
  <1> DEFINE s == switched(st, current, current', now + d)
  <1>1. now \in Int /\ now + d \in Int /\ (now + d) + e \in Int  BY DEF StatsInv
  <1>2. st \in [Tasks -> Counters]  BY DEF Same
  <1>3. Same(st, s)  BY <1>1, <1>2, SwitchSame
  <1>4. Same(stats, s)  BY <1>3, SameTransitive
  <1>5. s \in [Tasks -> Counters]  BY <1>3 DEF Same
  <1>6. stats' = IF left_by_clock(current')
                 THEN [s EXCEPT ![current'] = to_system(@, (now + d) + e)] ELSE s
    BY DEF Switches, resumed
  <1>7. Same(s, [s EXCEPT ![current'] = to_system(@, (now + d) + e)])
    <2> HIDE DEF s
    <2> QED  BY <1>1, <1>5, ReadingAt
  <1> HIDE DEF s
  <1>8. Same(stats, stats')  BY <1>4, <1>6, <1>7, SameTransitive
  <1>9. now' \in Int /\ born' = born  BY <1>1 DEF Switches
  <1> QED  BY <1>8, <1>9, SameInv

LEMMA NextStats ==
    ASSUME TypeOK, TypeOK', StatsInv, [StatsNext]_<<vars, pvars>>
    PROVE  StatsInv'
  <1> USE ProcStatsAssumption
  <1>0. /\ current \in Tasks /\ current' \in Tasks /\ freequeue \in Seq(Tasks)
        /\ now \in Int /\ born \in [Tasks -> Int] /\ stats \in [Tasks -> Counters]
        /\ \A n \in Spans : n \in Int
        /\ Same(stats, stats)
    <2>1. current \in Tasks /\ current' \in Tasks /\ freequeue \in Seq(Tasks)
      BY DEF TypeOK
    <2>2. now \in Int /\ born \in [Tasks -> Int] /\ stats \in [Tasks -> Counters]
      BY DEF StatsInv
    <2>3. Same(stats, stats)  BY <2>2 DEF Same
    <2>4. \A n \in Spans : n \in Int  OBVIOUS
    <2> QED  BY <2>1, <2>2, <2>3, <2>4
  <1>1. CASE Work
    BY <1>0, <1>1, SameInv DEF Work
  <1>2. ASSUME NEW d \in Spans, NEW e \in Spans, ClockTicks(d, e) PROVE StatsInv'
    <2> DEFINE s == [stats EXCEPT ![current] = to_user(@, now)]
    <2>1. Same(stats, s)  BY <1>0, ReadingAt
    <2>2. s \in [Tasks -> Counters]  BY <2>1 DEF Same
    <2>3. (now + d) + e \in Int  BY <1>0
    <2>4. Same(s, [s EXCEPT ![current] = to_system(@, (now + d) + e)])
      <3> HIDE DEF s
      <3> QED  BY <1>0, <2>2, <2>3, ReadingAt
    <2>5. /\ stats' = [s EXCEPT ![current] = to_system(@, (now + d) + e)]
          /\ now' = (now + d) + e /\ born' = born
      BY <1>2 DEF ClockTicks, resumed
    <2> HIDE DEF s
    <2> QED  BY <2>1, <2>3, <2>4, <2>5, SameTransitive, SameInv
  <1>3. ASSUME NEW d \in Spans, NEW e \in Spans, ClockSwitches(d, e) PROVE StatsInv'
    <2> DEFINE s == [stats EXCEPT ![current] = to_user(@, now)]
    <2>1. Same(stats, s)  BY <1>0, ReadingAt
    <2>2. Switches(s, "clock", d, e)  BY <1>3 DEF ClockSwitches
    <2> HIDE DEF s
    <2> QED  BY <1>0, <2>1, <2>2, SwitchesStep
  <1>4. ASSUME NEW d \in Spans, NEW e \in Spans, YieldSwitches(d, e) PROVE StatsInv'
    BY <1>0, <1>4, SwitchesStep DEF YieldSwitches
  <1>5. ASSUME NEW d \in Spans, NEW e \in Spans, ExitSwitches(d, e) PROVE StatsInv'
    BY <1>0, <1>5, SwitchesStep DEF ExitSwitches
  <1>6. ASSUME NEW d \in Spans, Forks(d) PROVE StatsInv'
    <2> DEFINE u == Head(freequeue)
               s == init_stats(now + d)
    <2>1. u \in Tasks  BY <1>0, <1>6 DEF Forks, SysFork
    <2>2. now + d \in Int  BY <1>0
    <2>3. s \in Counters /\ Sum(s) = 0 - (now + d)
      BY <2>2 DEF Counters, Sum, init_stats
    <2>4. /\ stats' = [stats EXCEPT ![u] = s] /\ born' = [born EXCEPT ![u] = now + d]
          /\ now' = now + d
      BY <1>6 DEF Forks
    <2> HIDE DEF u, s
    <2> QED  BY <1>0, <2>1, <2>2, <2>3, <2>4 DEF StatsInv
  <1>7. ASSUME NEW d \in Spans, ForkFails(d) PROVE StatsInv'
    <2> DEFINE u == Head(freequeue)
    <2>1. u \in Tasks  BY <1>0, <1>7 DEF ForkFails, SysForkNoFrames
    <2>2. now + d \in Int  BY <1>0
    <2>3. /\ stats' = [stats EXCEPT ![u] = stats[current]]
          /\ born' = [born EXCEPT ![u] = born[current]] /\ now' = now + d
      BY <1>7 DEF ForkFails
    <2> HIDE DEF u
    <2> QED  BY <1>0, <2>1, <2>2, <2>3 DEF StatsInv
  <1>8. ASSUME NEW d \in Spans, KeyInterrupts(d) PROVE StatsInv'
    <2> DEFINE s == [stats EXCEPT ![current] = to_user(@, now)]
    <2>1. Same(stats, s)  BY <1>0, ReadingAt
    <2>2. s \in [Tasks -> Counters]  BY <2>1 DEF Same
    <2>3. now + d \in Int  BY <1>0
    <2>4. Same(s, [s EXCEPT ![current] = to_system(@, now + d)])
      <3> HIDE DEF s
      <3> QED  BY <1>0, <2>2, <2>3, ReadingAt
    <2>5. /\ stats' = [s EXCEPT ![current] = to_system(@, now + d)]
          /\ now' = now + d /\ born' = born
      BY <1>8 DEF KeyInterrupts, resumed
    <2> HIDE DEF s
    <2> QED  BY <2>1, <2>3, <2>4, <2>5, SameTransitive, SameInv
  <1>9. ASSUME NEW pid, NEW writable, SysGetStats(pid, writable) PROVE StatsInv'
    BY <1>0, <1>9, SameInv DEF SysGetStats
  <1>10. CASE UNCHANGED <<vars, pvars>>
    BY <1>0, <1>10, SameInv DEF pvars
  <1> QED  BY <1>1, <1>2, <1>3, <1>4, <1>5, <1>6, <1>7, <1>8, <1>9, <1>10 DEF StatsNext

\* The statistics never disturb the scheduler.
LEMMA StatsStepOfSched == [StatsNext]_<<vars, pvars>> => [Next]_vars
  BY DEF StatsNext, Work, ClockTicks, ClockSwitches, YieldSwitches, ExitSwitches,
         KeyInterrupts, Forks, ForkFails, SysGetStats, Next, ClockInterrupt, vars
LEMMA StatsImplementsSched == StatsSpec => Spec
  <1>1. StatsInit => Init  BY DEF StatsInit
  <1> QED  BY <1>1, StatsStepOfSched, PTL DEF StatsSpec, Spec

LEMMA InitStats == StatsInit => StatsInv
  BY DEF StatsInit, StatsInv, init_stats, Counters, Sum

\* Every slot's counters add up to the time since its init_stats: no path out
\* of the processor and back, by the clock, yield, exit or fork, drops time.
THEOREM NoTimeLost == StatsSpec => []AllTimeCounted
  <1>1. StatsInit => StatsInv
    BY InitStats
  <1>2. TypeOK /\ TypeOK' /\ StatsInv /\ [StatsNext]_<<vars, pvars>> => StatsInv'
    BY NextStats
  <1>3. StatsInv => AllTimeCounted
    BY DEF StatsInv, AllTimeCounted, Counters, Sum
  <1>4. StatsSpec => []TypeOK
    BY StatsImplementsSched, TypeCorrect, PTL
  <1> QED  BY <1>1, <1>2, <1>3, <1>4, PTL DEF StatsSpec

-----------------------------------------------------------------------------
(* Ready time.  The invariant is the property itself with the types of the *)
(* counters; what it takes from Sched is who is in the ready queue.        *)

ReadyInv == /\ StatsInv
            /\ waited \in [Tasks -> Int]
            /\ ReadyTimeExact

\* Readings that leave the ready time of a process alone.
LEMMA ReadingReady ==
    ASSUME NEW s \in Counters, NEW at \in Int
    PROVE  /\ to_user(s, at).ready_ticks = s.ready_ticks
           /\ to_system(s, at).ready_ticks = s.ready_ticks
           /\ to_system(s, at).elapsed_total_ticks = at
           /\ to_ready(s, at).ready_ticks = s.ready_ticks + (at - s.elapsed_total_ticks)
           /\ to_ready(s, at).elapsed_total_ticks = at
  BY DEF Counters, to_user, to_system, to_ready

LEMMA Waiting ==
    ASSUME NEW w \in [Tasks -> Int], NEW q, NEW d \in Int
    PROVE  /\ waiting(w, q, d) \in [Tasks -> Int]
           /\ \A t \in Tasks : waiting(w, q, d)[t] = IF t \in QueueSet(q) THEN w[t] + d
                                                     ELSE w[t]
  BY DEF waiting

\* Who is where among the processes.
LEMMA Places ==
    ASSUME IInv
    PROVE  /\ current \in Tasks /\ QueueSet(readyqueue) \subseteq Tasks
           /\ Alive = QueueSet(readyqueue) \cup ({current} \ {Idle}) /\ Alive \subseteq Tasks
           /\ current \notin QueueSet(readyqueue) /\ Idle \notin QueueSet(readyqueue)
  <1>1. readyqueue \in Seq(Tasks) /\ current \in Tasks
    BY DEF IInv, TypeOK
  <1>2. QueueSet(readyqueue) \subseteq Tasks
    BY <1>1, QueueTasks
  <1> QED  BY <1>1, <1>2 DEF IInv, SlotPartition, Alive

\* Time that goes by while the processes stay where they are, charged to any
\* counter of the running task but its ready time.
LEMMA SamePlaces ==
    ASSUME IInv, ReadyInv, StatsInv', NEW n \in Int, now' = now + n,
           QueueSet(readyqueue') = QueueSet(readyqueue), current' = current,
           waited' = waiting(waited, readyqueue, n),
           \A t \in QueueSet(readyqueue) : stats'[t] = stats[t],
           stats'[current].ready_ticks = stats[current].ready_ticks
    PROVE  ReadyInv'
  <1>1. waited \in [Tasks -> Int] /\ stats \in [Tasks -> Counters] /\ now \in Int
    BY DEF ReadyInv, StatsInv
  <1>2. /\ waited' \in [Tasks -> Int]
        /\ \A t \in Tasks : waited'[t] = IF t \in QueueSet(readyqueue) THEN waited[t] + n
                                         ELSE waited[t]
    BY <1>1, Waiting
  <1>3. Alive' = Alive
    BY DEF Alive
  <1>4. ASSUME NEW t \in Alive
        PROVE  waited'[t] = IF t \in QueueSet(readyqueue)
                            THEN stats'[t].ready_ticks + (now' - stats'[t].elapsed_total_ticks)
                            ELSE stats'[t].ready_ticks
    <2>1. t \in Tasks /\ (t \notin QueueSet(readyqueue) => t = current)
      BY Places
    <2>2. waited[t] = IF t \in QueueSet(readyqueue)
                      THEN stats[t].ready_ticks + (now - stats[t].elapsed_total_ticks)
                      ELSE stats[t].ready_ticks
      BY DEF ReadyInv, ReadyTimeExact
    <2>3. stats[t].ready_ticks \in Int /\ stats[t].elapsed_total_ticks \in Int
      BY <1>1, <2>1 DEF Counters
    <2> QED  BY <1>1, <1>2, <2>1, <2>2, <2>3
  <1> QED  BY <1>2, <1>3, <1>4 DEF ReadyInv, ReadyTimeExact

\* A switch: the outgoing task may join the queue, the incoming one leaves it
\* and gets the time it waited.
LEMMA SwitchReady ==
    ASSUME IInv, ReadyInv, StatsInv', current' \in Tasks,
           NEW st \in [Tasks -> Counters],
           \A t \in QueueSet(readyqueue) : st[t] = stats[t],
           st[current].ready_ticks = stats[current].ready_ticks,
           current # Idle,
           current' \in QueueSet(readyqueue) \cup {current, Idle},
           QueueSet(readyqueue') \subseteq (QueueSet(readyqueue) \cup {current}) \ {current'},
           Alive' \subseteq Alive,
           NEW path, NEW d \in Int, NEW e \in Int, Switches(st, path, d, e)
    PROVE  ReadyInv'
  <1> DEFINE at == now + d
             s1 == [st EXCEPT ![current] = to_system(@, at)]
             s2 == [s1 EXCEPT ![current'] = to_ready(@, at)]
             s3 == [s2 EXCEPT ![current'] = to_system(@, at + e)]
             w1 == waiting(waited, readyqueue, d)
  <1>1. /\ waited \in [Tasks -> Int] /\ stats \in [Tasks -> Counters] /\ now \in Int
        /\ at \in Int /\ at + e \in Int
    BY DEF ReadyInv, StatsInv
  <1>2. /\ current \in Tasks /\ QueueSet(readyqueue) \subseteq Tasks
        /\ Alive = QueueSet(readyqueue) \cup {current} /\ Alive \subseteq Tasks
        /\ current \notin QueueSet(readyqueue)
    BY Places
  <1>3. /\ now' = at + e /\ stats' = IF left_by_clock(current') THEN s3 ELSE s2
        /\ waited' = waiting(w1, readyqueue', e)
    BY DEF Switches, switched, resumed
  <1>4. /\ s1 \in [Tasks -> Counters] /\ s1[current] = to_system(st[current], at)
        /\ \A t \in Tasks \ {current} : s1[t] = st[t]
    BY <1>1, <1>2, ReadingAt DEF Same
  <1> HIDE DEF s1
  <1>5. /\ s2 \in [Tasks -> Counters] /\ s2[current'] = to_ready(s1[current'], at)
        /\ \A t \in Tasks \ {current'} : s2[t] = s1[t]
    BY <1>1, <1>4, ReadingAt DEF Same
  <1> HIDE DEF s2
  <1>6. /\ s3 \in [Tasks -> Counters] /\ s3[current'] = to_system(s2[current'], at + e)
        /\ \A t \in Tasks \ {current'} : s3[t] = s2[t]
    BY <1>1, <1>5, ReadingAt DEF Same
  <1> HIDE DEF s3
  <1>7. /\ stats' \in [Tasks -> Counters]
        /\ stats'[current'].ready_ticks = s2[current'].ready_ticks
        /\ \A t \in Tasks \ {current'} : stats'[t] = s2[t]
    BY <1>1, <1>3, <1>5, <1>6, ReadingReady
  <1>8. /\ w1 \in [Tasks -> Int]
        /\ \A t \in Tasks : w1[t] = IF t \in QueueSet(readyqueue) THEN waited[t] + d
                                    ELSE waited[t]
    BY <1>1, Waiting
  <1> HIDE DEF w1
  <1>9. /\ waited' \in [Tasks -> Int]
        /\ \A t \in Tasks : waited'[t] = IF t \in QueueSet(readyqueue') THEN w1[t] + e
                                         ELSE w1[t]
    BY <1>3, <1>8, Waiting
  <1>10. \A t \in Alive : /\ stats[t].ready_ticks \in Int
                          /\ stats[t].elapsed_total_ticks \in Int
    BY <1>1, <1>2 DEF Counters
  <1>11. \A t \in Alive :
            waited[t] = IF t \in QueueSet(readyqueue)
                        THEN stats[t].ready_ticks + (now - stats[t].elapsed_total_ticks)
                        ELSE stats[t].ready_ticks
    BY DEF ReadyInv, ReadyTimeExact
  <1>12. ASSUME NEW t \in Alive'
         PROVE  waited'[t] = IF t \in QueueSet(readyqueue')
                             THEN stats'[t].ready_ticks + (now' - stats'[t].elapsed_total_ticks)
                             ELSE stats'[t].ready_ticks
    <2>0. t \in Alive /\ t \in Tasks
      BY <1>2
    <2>1. CASE t # current'
      <3>1. t \in QueueSet(readyqueue')
        BY <2>1 DEF Alive
      <3>2. stats'[t] = s1[t] /\ waited'[t] = w1[t] + e
        BY <1>5, <1>7, <1>9, <2>0, <2>1, <3>1
      <3>3. CASE t = current
        <4>1. /\ stats'[t].ready_ticks = stats[t].ready_ticks
              /\ stats'[t].elapsed_total_ticks = at
          BY <1>1, <1>2, <1>4, <3>2, <3>3, ReadingReady
        <4>2. waited'[t] = waited[t] + e
          BY <1>2, <1>8, <3>2, <3>3
        <4>3. waited[t] = stats[t].ready_ticks
          BY <1>2, <1>11, <2>0, <3>3
        <4> QED  BY <1>1, <1>3, <1>10, <2>0, <3>1, <4>1, <4>2, <4>3
      <3>4. CASE t # current
        <4>1. t \in QueueSet(readyqueue) /\ stats'[t] = stats[t]
          BY <1>2, <1>4, <2>0, <3>2, <3>4
        <4>2. waited'[t] = (waited[t] + d) + e
          BY <1>8, <2>0, <3>2, <4>1
        <4>3. waited[t] = stats[t].ready_ticks + (now - stats[t].elapsed_total_ticks)
          BY <1>11, <2>0, <4>1
        <4> QED  BY <1>1, <1>3, <1>10, <2>0, <3>1, <4>1, <4>2, <4>3
      <3> QED  BY <3>3, <3>4
    <2>2. CASE t = current'
      <3>1. t \notin QueueSet(readyqueue') /\ waited'[t] = w1[t]
        BY <1>9, <2>0, <2>2
      <3>2. stats'[t].ready_ticks
              = s1[t].ready_ticks + (at - s1[t].elapsed_total_ticks)
        BY <1>1, <1>4, <1>5, <1>7, <2>0, <2>2, ReadingReady
      <3>3. CASE t = current
        <4>1. /\ s1[t].ready_ticks = stats[t].ready_ticks
              /\ s1[t].elapsed_total_ticks = at
          BY <1>1, <1>2, <1>4, <3>3, ReadingReady
        <4>2. waited'[t] = waited[t]
          BY <1>2, <1>8, <3>1, <3>3
        <4>3. waited[t] = stats[t].ready_ticks
          BY <1>2, <1>11, <2>0, <3>3
        <4> QED  BY <1>1, <1>10, <2>0, <3>1, <3>2, <4>1, <4>2, <4>3
      <3>4. CASE t # current
        <4>1. t \in QueueSet(readyqueue) /\ s1[t] = stats[t]
          BY <1>2, <1>4, <2>0, <3>4
        <4>2. waited'[t] = waited[t] + d
          BY <1>8, <2>0, <3>1, <4>1
        <4>3. waited[t] = stats[t].ready_ticks + (now - stats[t].elapsed_total_ticks)
          BY <1>11, <2>0, <4>1
        <4> QED  BY <1>1, <1>10, <2>0, <3>1, <3>2, <4>1, <4>2, <4>3
      <3> QED  BY <3>3, <3>4
    <2> QED  BY <2>1, <2>2
  <1> QED  BY <1>9, <1>12 DEF ReadyInv, ReadyTimeExact

LEMMA NextReady ==
    ASSUME IInv, ReadyInv, [StatsNext]_<<vars, pvars>>
    PROVE  ReadyInv'
  <1> USE ProcStatsAssumption
  <1>0. /\ StatsInv /\ waited \in [Tasks -> Int] /\ stats \in [Tasks -> Counters]
        /\ now \in Int /\ \A n \in Spans : n \in Int
    BY DEF ReadyInv, StatsInv
  <1>p. /\ current \in Tasks /\ QueueSet(readyqueue) \subseteq Tasks
        /\ Alive = QueueSet(readyqueue) \cup ({current} \ {Idle}) /\ Alive \subseteq Tasks
        /\ current \notin QueueSet(readyqueue) /\ Idle \notin QueueSet(readyqueue)
    BY Places
  <1>i. IInv' /\ TypeOK /\ TypeOK'
    <2>1. [StatsNext]_<<vars, pvars>> => [Next]_vars
      BY StatsStepOfSched
    <2>2. IInv'
      BY <2>1, NextIInv
    <2> QED  BY <2>2 DEF IInv
  <1>n. StatsInv' /\ current' \in Tasks
    BY <1>0, <1>i, NextStats DEF TypeOK
  <1>1. CASE Work
    BY <1>0, <1>1, <1>n, SamePlaces DEF Work, vars
  <1>2. ASSUME NEW d \in Spans, NEW e \in Spans, ClockTicks(d, e) PROVE ReadyInv'
    <2> DEFINE s == [stats EXCEPT ![current] = to_user(@, now)]
    <2>1. /\ s \in [Tasks -> Counters] /\ s[current] = to_user(stats[current], now)
          /\ \A t \in Tasks \ {current} : s[t] = stats[t]
      BY <1>0, <1>p, ReadingAt DEF Same
    <2>2. /\ stats' = [s EXCEPT ![current] = to_system(@, (now + d) + e)]
          /\ now' = now + (d + e) /\ waited' = waiting(waited, readyqueue, d + e)
          /\ readyqueue' = readyqueue /\ current' = current
      BY <1>0, <1>2 DEF ClockTicks, resumed, ClockContinue
    <2>3. (now + d) + e \in Int /\ d + e \in Int
      BY <1>0
    <2> HIDE DEF s
    <2>4. /\ stats'[current] = to_system(s[current], (now + d) + e)
          /\ \A t \in Tasks \ {current} : stats'[t] = stats[t]
      BY <1>p, <2>1, <2>2
    <2>5. stats'[current].ready_ticks = stats[current].ready_ticks
      BY <1>0, <1>p, <2>1, <2>3, <2>4, ReadingReady
    <2>6. \A t \in QueueSet(readyqueue) : stats'[t] = stats[t]
      BY <1>p, <2>4
    <2> QED  BY <1>n, <2>2, <2>3, <2>5, <2>6, SamePlaces
  <1>3. ASSUME NEW d \in Spans, NEW e \in Spans, ClockSwitches(d, e) PROVE ReadyInv'
    <2> DEFINE s == [stats EXCEPT ![current] = to_user(@, now)]
    <2>1. /\ s \in [Tasks -> Counters] /\ s[current] = to_user(stats[current], now)
          /\ \A t \in Tasks \ {current} : s[t] = stats[t]
      BY <1>0, <1>p, ReadingAt DEF Same
    <2>2. ClockPreempt /\ Switches(s, "clock", d, e)
      BY <1>3 DEF ClockSwitches
    <2> HIDE DEF s
    <2>3. /\ \A t \in QueueSet(readyqueue) : s[t] = stats[t]
          /\ s[current].ready_ticks = stats[current].ready_ticks
      BY <1>0, <1>p, <2>1, ReadingReady
    <2>4. /\ current # Idle /\ current' \in QueueSet(readyqueue) \cup {current}
          /\ QueueSet(readyqueue') = (QueueSet(readyqueue) \cup {current}) \ {current'}
          /\ Alive' = Alive
      BY <2>2, TurnSets
    <2> QED  BY <1>0, <1>n, <2>1, <2>2, <2>3, <2>4, SwitchReady
  <1>4. ASSUME NEW d \in Spans, NEW e \in Spans, YieldSwitches(d, e) PROVE ReadyInv'
    <2>1. SysYield /\ Switches(stats, "yield", d, e)
      BY <1>4 DEF YieldSwitches
    <2>2. /\ current # Idle /\ current' \in QueueSet(readyqueue) \cup {current}
          /\ QueueSet(readyqueue') = (QueueSet(readyqueue) \cup {current}) \ {current'}
          /\ Alive' = Alive
      BY <2>1, TurnSets
    <2> QED  BY <1>0, <1>n, <2>1, <2>2, SwitchReady
  <1>5. ASSUME NEW d \in Spans, NEW e \in Spans, ExitSwitches(d, e) PROVE ReadyInv'
    <2>1. SysExit /\ Switches(stats, "exit", d, e)
      BY <1>5 DEF ExitSwitches
    <2>2. /\ current # Idle /\ current' \in QueueSet(readyqueue) \cup {Idle}
          /\ QueueSet(readyqueue') = QueueSet(readyqueue) \ {current'}
          /\ Alive' = Alive \ {current}
      BY <2>1, ExitSets
    <2> QED  BY <1>0, <1>n, <2>1, <2>2, SwitchReady
  <1>6. ASSUME NEW d \in Spans, Forks(d) PROVE ReadyInv'
    <2> DEFINE u == Head(freequeue)
               w == waiting(waited, readyqueue, d)
    <2>1. /\ u \in Tasks /\ u \notin Alive /\ current # Idle /\ current' = current
          /\ QueueSet(readyqueue') = QueueSet(readyqueue) \cup {u}
          /\ Alive' = Alive \cup {u}
      BY <1>6, ForkSets DEF Forks
    <2>2. /\ stats' = [stats EXCEPT ![u] = init_stats(now + d)] /\ now' = now + d
          /\ waited' = [w EXCEPT ![u] = 0]
      BY <1>6 DEF Forks
    <2> HIDE DEF u
    <2>3. /\ w \in [Tasks -> Int]
          /\ \A t \in Tasks : w[t] = IF t \in QueueSet(readyqueue) THEN waited[t] + d
                                     ELSE waited[t]
      BY <1>0, Waiting
    <2> HIDE DEF w
    <2>4. waited' \in [Tasks -> Int]
      <3>1. waited' = [t \in Tasks |-> IF t = u THEN 0 ELSE w[t]]
        BY <2>2, <2>3
      <3>2. \A t \in Tasks : w[t] \in Int
        BY <2>3
      <3> QED  BY <3>1, <3>2
    <2>5. ASSUME NEW t \in Alive'
          PROVE  waited'[t] = IF t \in QueueSet(readyqueue')
                              THEN stats'[t].ready_ticks + (now' - stats'[t].elapsed_total_ticks)
                              ELSE stats'[t].ready_ticks
      <3>1. CASE t = u
        <4>1. stats'[t].ready_ticks = 0 /\ stats'[t].elapsed_total_ticks = now + d
          BY <1>0, <2>1, <2>2, <3>1 DEF init_stats
        <4> QED  BY <1>0, <2>1, <2>2, <2>3, <3>1, <4>1
      <3>2. CASE t # u
        <4>1. t \in Alive /\ t \in Tasks /\ stats'[t] = stats[t] /\ waited'[t] = w[t]
              /\ (t \in QueueSet(readyqueue') <=> t \in QueueSet(readyqueue))
          BY <1>0, <1>p, <2>1, <2>2, <2>3, <3>2
        <4>2. waited[t] = IF t \in QueueSet(readyqueue)
                          THEN stats[t].ready_ticks + (now - stats[t].elapsed_total_ticks)
                          ELSE stats[t].ready_ticks
          BY <4>1 DEF ReadyInv, ReadyTimeExact
        <4>3. stats[t].ready_ticks \in Int /\ stats[t].elapsed_total_ticks \in Int
          BY <1>0, <4>1 DEF Counters
        <4> QED  BY <1>0, <2>2, <2>3, <4>1, <4>2, <4>3
      <3> QED  BY <3>1, <3>2
    <2> QED  BY <1>n, <2>4, <2>5 DEF ReadyInv, ReadyTimeExact
  <1>7. ASSUME NEW d \in Spans, ForkFails(d) PROVE ReadyInv'
    <2> DEFINE u == Head(freequeue)
               w == waiting(waited, readyqueue, d)
    <2>1. /\ u \in Tasks /\ u \notin Alive /\ current' = current /\ readyqueue' = readyqueue
          /\ Alive' = Alive
      BY <1>7, ForkFailsSets DEF ForkFails
    <2>2. /\ stats' = [stats EXCEPT ![u] = stats[current]] /\ now' = now + d
          /\ waited' = [w EXCEPT ![u] = waited[current]]
      BY <1>7 DEF ForkFails
    <2> HIDE DEF u
    <2>3. /\ w \in [Tasks -> Int]
          /\ \A t \in Tasks : w[t] = IF t \in QueueSet(readyqueue) THEN waited[t] + d
                                     ELSE waited[t]
      BY <1>0, Waiting
    <2> HIDE DEF w
    <2>4. waited' \in [Tasks -> Int]
      BY <1>0, <1>p, <2>2, <2>3
    <2>5. ASSUME NEW t \in Alive'
          PROVE  waited'[t] = IF t \in QueueSet(readyqueue')
                              THEN stats'[t].ready_ticks + (now' - stats'[t].elapsed_total_ticks)
                              ELSE stats'[t].ready_ticks
      <3>1. t \in Alive /\ t \in Tasks /\ stats'[t] = stats[t] /\ waited'[t] = w[t]
        BY <1>0, <1>p, <2>1, <2>2, <2>3
      <3>2. waited[t] = IF t \in QueueSet(readyqueue)
                        THEN stats[t].ready_ticks + (now - stats[t].elapsed_total_ticks)
                        ELSE stats[t].ready_ticks
        BY <3>1 DEF ReadyInv, ReadyTimeExact
      <3>3. stats[t].ready_ticks \in Int /\ stats[t].elapsed_total_ticks \in Int
        BY <1>0, <3>1 DEF Counters
      <3> QED  BY <1>0, <2>1, <2>2, <2>3, <3>1, <3>2, <3>3
    <2> QED  BY <1>n, <2>4, <2>5 DEF ReadyInv, ReadyTimeExact
  <1>8. ASSUME NEW d \in Spans, KeyInterrupts(d) PROVE ReadyInv'
    <2> DEFINE s == [stats EXCEPT ![current] = to_user(@, now)]
    <2>1. /\ s \in [Tasks -> Counters] /\ s[current] = to_user(stats[current], now)
          /\ \A t \in Tasks \ {current} : s[t] = stats[t]
      BY <1>0, <1>p, ReadingAt DEF Same
    <2>2. /\ stats' = [s EXCEPT ![current] = to_system(@, now + d)]
          /\ now' = now + d /\ waited' = waiting(waited, readyqueue, d)
          /\ readyqueue' = readyqueue /\ current' = current
      BY <1>8 DEF KeyInterrupts, resumed, vars
    <2>3. now + d \in Int /\ d \in Int
      BY <1>0
    <2> HIDE DEF s
    <2>4. /\ stats'[current] = to_system(s[current], now + d)
          /\ \A t \in Tasks \ {current} : stats'[t] = stats[t]
      BY <1>p, <2>1, <2>2
    <2>5. stats'[current].ready_ticks = stats[current].ready_ticks
      BY <1>0, <1>p, <2>1, <2>3, <2>4, ReadingReady
    <2>6. \A t \in QueueSet(readyqueue) : stats'[t] = stats[t]
      BY <1>p, <2>4
    <2> QED  BY <1>n, <2>2, <2>3, <2>5, <2>6, SamePlaces
  <1>9. CASE (\E pid, writable : SysGetStats(pid, writable)) \/ UNCHANGED <<vars, pvars>>
    <2>1. UNCHANGED <<readyqueue, current, now, stats, waited>>
      BY <1>9 DEF SysGetStats, vars, pvars
    <2> QED  BY <1>0, <1>n, <2>1 DEF ReadyInv, ReadyTimeExact, Alive, QueueSet
  <1> QED  BY <1>1, <1>2, <1>3, <1>4, <1>5, <1>6, <1>7, <1>8, <1>9 DEF StatsNext

\* get_stats is exact about waiting: for every number of tasks and length of
\* the handlers, ready_ticks is the time the process spent in the ready queue,
\* up to the last time it left it.
THEOREM ReadyTimeIsExact == StatsSpec => []ReadyTimeExact
  <1>1. StatsInit => ReadyInv
    <2> SUFFICES ASSUME StatsInit PROVE ReadyInv
      OBVIOUS
    <2>1. StatsInv /\ waited \in [Tasks -> Int]
      BY InitStats DEF StatsInit
    <2>2. QueueSet(readyqueue) = {} /\ Alive \subseteq Tasks
      BY EmptyQueue, Slots DEF StatsInit, Init, Alive
    <2>3. \A t \in Tasks : stats[t].ready_ticks = 0 /\ waited[t] = 0
      BY DEF StatsInit, init_stats
    <2> QED  BY <2>1, <2>2, <2>3 DEF ReadyInv, ReadyTimeExact
  <1>2. IInv /\ ReadyInv /\ [StatsNext]_<<vars, pvars>> => ReadyInv'
    BY NextReady
  <1>3. ReadyInv => ReadyTimeExact
    BY DEF ReadyInv
  <1>4. StatsSpec => []IInv
    BY StatsImplementsSched, Invariant, PTL
  <1> QED  BY <1>1, <1>2, <1>3, <1>4, PTL DEF StatsSpec

-----------------------------------------------------------------------------
(* Startup.                                                                *)

(* The inductive invariant: what the calls of main made so far have left,  *)
(* by the place of the next one.  calls("enable_int") is pc = 12.          *)

idle_stack == [t \in Tasks |-> IF t = Idle THEN Depth["idle"] ELSE 0]

\* The descriptors, MSRs and TSS: what setGdt, setIdt and setTSS leave.
Descriptors ==
    /\ pc <= 2 => tables = {}
    /\ pc = 3 => tables = {"gdt"}
    /\ pc > 3 => tables = {"gdt", "idt"} /\ sysenter_esp = Init1
    /\ pc > 4 => tss_ready

\* The pages: all of the kernel by init_mm, those of the user by init_task1.
Pages ==
    /\ page_table \in [Tasks -> {"none", "kernel", "user"}]
    /\ pc > 5 => dirs = Tasks /\ paging
    /\ pc > 8 => page_table[Init1] = "user"
    /\ pc > 11 => loaded = Init1

\* The interrupt flag, the keys and the bound of the window.
Window ==
    /\ window \in 0 .. MaxWindow
    /\ interrupts => pc > 12
    /\ pc <= 12 => keys = 0 /\ window = 0
    /\ keys \in Nat /\ buffered = keys

\* The variables of Sched on the boot stack.  Each interrupt of the window
\* takes at most one tick from the first turn.
Booting ==
    /\ global_PID = FirstPID /\ wild = FALSE /\ current = BootSlot
    /\ task \in [Tasks -> Task_struct]
    /\ pc = 7 => freequeue = init_freequeue
    /\ pc = 8 => freequeue = Tail(init_freequeue)
    /\ pc > 7 => IdleFilled
    /\ pc > 8 => /\ Task1Filled /\ freequeue = Tail(Tail(init_freequeue))
                 /\ esp0 = Init1 /\ cr3 = Init1
                 /\ remaining_quantum \in DEFAULT_QUANTUM - window .. DEFAULT_QUANTUM
    /\ pc <= 7 => kstack = [t \in Tasks |-> 0]
    /\ pc > 7 => kstack = idle_stack
    /\ pc > 6 => readyqueue = <<>>

\* Processes run: the invariant of Sched, the entry stacks together, and the
\* directory of the loaded program still its own.
Running == IInv /\ sysenter_esp = esp0 /\ task[Init1].dir = Init1

SInv == /\ pc \in 1 .. Len(main) + 1
        /\ pc <= Len(main) => Descriptors /\ Booting
        /\ UserMode => /\ tables = {"gdt", "idt"} /\ tss_ready
                       /\ Running
        /\ Pages /\ Window

\* The calls of main, by place.
LEMMA Calls ==
    /\ Len(main) = 13 /\ DOMAIN main = 1 .. 13
    /\ main[1] = "set_eflags" /\ main[2] = "setGdt" /\ main[3] = "setIdt"
    /\ main[4] = "setTSS" /\ main[5] = "init_mm" /\ main[6] = "init_sched"
    /\ main[7] = "init_idle" /\ main[8] = "init_task1"
    /\ main[9] = "initialize_sharedvector"
    /\ main[10] = "initialize_circularbuffer" /\ main[11] = "copy_data"
    /\ main[12] = "enable_int" /\ main[13] = "return_gate"
BY DEF main

\* A call of main is at one place only.
LEMMA CallAt ==
    ASSUME pc \in 1 .. 14
    PROVE  /\ calls("set_eflags") => pc = 1
           /\ calls("setGdt") => pc = 2
           /\ calls("setIdt") => pc = 3
           /\ calls("setTSS") => pc = 4
           /\ calls("init_mm") => pc = 5
           /\ calls("init_sched") => pc = 6
           /\ calls("init_idle") => pc = 7
           /\ calls("init_task1") => pc = 8
           /\ calls("initialize_sharedvector") => pc = 9
           /\ calls("initialize_circularbuffer") => pc = 10
           /\ calls("copy_data") => pc = 11
           /\ calls("enable_int") => pc = 12
           /\ calls("return_gate") => pc = 13
           /\ InMain <=> pc <= 13
           /\ UserMode <=> pc = 14
<1>1. \/ pc = 1 \/ pc = 2 \/ pc = 3 \/ pc = 4 \/ pc = 5 \/ pc = 6 \/ pc = 7 \/ pc = 8
      \/ pc = 9 \/ pc = 10 \/ pc = 11 \/ pc = 12 \/ pc = 13 \/ pc = 14
  OBVIOUS
<1> QED  BY <1>1, Calls DEF calls, InMain, UserMode

\* The slots of idle, of the initial process and of the boot stack are three.
LEMMA BootSlots ==
    /\ Idle = 0 /\ Init1 = 1 /\ Idle \in Tasks /\ Init1 \in Tasks
    /\ BootSlot \in Tasks /\ BootSlot # Idle /\ BootSlot # Init1
    /\ MaxWindow \in Nat /\ MaxWindow < DEFAULT_QUANTUM /\ DEFAULT_QUANTUM \in Nat
BY Slots, StartupAssumption, SchedAssumption DEF Idle, Init1

\* The free queue has a first and a second slot: it is not a null list.
LEMMA FreeQueueReady ==
    /\ init_freequeue # null_list /\ Head(init_freequeue) = Idle
    /\ Tail(init_freequeue) # null_list /\ Head(Tail(init_freequeue)) = Init1
<1>1. Head(null_list) = -1
  BY DEF null_list
<1>2. -1 # Idle /\ -1 # Init1
  BY DEF Idle, Init1
<1> QED  BY <1>1, <1>2, FirstFree

\* The constants and field values boot writes are of a task_struct.
LEMMA BootValues ==
    /\ {-1, 0, 1} \subseteq PIDs /\ 0 \in Tasks
    /\ <<Idle, Depth["idle"]>> \in StackPointers /\ NoEsp \in StackPointers
<1>1. Depth["idle"] \in Nat
  BY Slots DEF Paths
<1> QED  BY <1>1, BootSlots, StackPlace DEF PIDs, StackPointers

\* Filling four fields of a slot leaves a task_struct with those fields:
\* those of init_idle,
LEMMA FillIdle ==
    ASSUME NEW r \in Task_struct, NEW q,
           q = [r EXCEPT !.PID = 0, !.dir = Idle, !.total_quantum = DEFAULT_QUANTUM,
                         !.register_esp = <<Idle, Depth["idle"]>>]
    PROVE  /\ q \in Task_struct /\ q.dir = Idle /\ q.total_quantum = DEFAULT_QUANTUM
           /\ q.register_esp = <<Idle, Depth["idle"]>>
<1> DEFINE esp == <<Idle, Depth["idle"]>>
<1>1. esp \in StackPointers /\ 0 \in PIDs /\ Idle \in Tasks
  BY BootValues, BootSlots
<1> HIDE DEF esp
<1>2. q = [r EXCEPT !.PID = 0, !.dir = Idle, !.total_quantum = DEFAULT_QUANTUM,
                    !.register_esp = esp]
  BY DEF esp
<1>3. /\ q \in Task_struct /\ q.dir = Idle /\ q.total_quantum = DEFAULT_QUANTUM
      /\ q.register_esp = esp
  BY <1>1, <1>2 DEF Task_struct
<1> QED  BY <1>3 DEF esp

\* and those of init_task1.
LEMMA FillTask1 ==
    ASSUME NEW r \in Task_struct, NEW q,
           q = [r EXCEPT !.PID = 1, !.dir = Init1, !.total_quantum = DEFAULT_QUANTUM,
                         !.state = "ST_RUN"]
    PROVE  /\ q \in Task_struct /\ q.PID = 1 /\ q.state = "ST_RUN" /\ q.dir = Init1
           /\ q.total_quantum = DEFAULT_QUANTUM
<1>1. 1 \in PIDs /\ Init1 \in Tasks
  BY BootValues, BootSlots
<1> QED  BY <1>1 DEF Task_struct

-----------------------------------------------------------------------------
(* One lemma per call of main.                                             *)

LEMMA StartupInitSInv == StartupInit => SInv
<1> SUFFICES ASSUME StartupInit PROVE SInv
  OBVIOUS
<1> USE DEF StartupInit
<1>1. pc = 1 /\ pc \in 1 .. Len(main) + 1 /\ pc <= Len(main) /\ ~UserMode
  BY Calls DEF UserMode
<1>2. Descriptors
  BY <1>1 DEF Descriptors
<1>3. Booting
  <2>1. [blank_task EXCEPT !.PID = 0] \in Task_struct
    BY BootValues DEF blank_task, Task_struct
  <2> QED  BY <1>1, <2>1 DEF Booting, boot_stack
<1>4. Pages /\ Window
  BY <1>1, BootSlots DEF Pages, Window
<1> QED  BY <1>1, <1>2, <1>3, <1>4 DEF SInv

\* While main runs, SInv is its four parts.
LEMMA InMainSInv ==
    ASSUME SInv
    PROVE  /\ pc \in 1 .. 14 /\ Pages /\ Window
           /\ pc <= 13 => Descriptors /\ Booting
BY Calls DEF SInv
LEMMA NextCall ==
    ASSUME SInv, pc <= 12, pc' = pc + 1, Descriptors', Booting', Pages', Window'
    PROVE  SInv' /\ pc' # Astray
<1>1. pc' \in 1 .. 13
  BY InMainSInv
<1> QED  BY <1>1, Calls DEF SInv, UserMode, Astray

LEMMA SetEflagsStep == ASSUME SInv, SetEflags PROVE SInv' /\ pc' # Astray
<1>1. /\ pc = 1 /\ Pages /\ Window /\ Descriptors /\ Booting
  BY InMainSInv, CallAt DEF SetEflags
<1>2. pc' = pc + 1 /\ Descriptors' /\ Booting' /\ Pages' /\ Window'
  BY <1>1, BootSlots DEF SetEflags, Pages, Window, Descriptors, Booting, IdleFilled, Task1Filled, hardware, vars, returns
<1> QED  BY <1>1, <1>2, NextCall

LEMMA SetGdtStep == ASSUME SInv, SetGdt PROVE SInv' /\ pc' # Astray
<1>1. /\ pc = 2 /\ Pages /\ Window /\ Descriptors /\ Booting
  BY InMainSInv, CallAt DEF SetGdt
<1>2. pc' = pc + 1 /\ Descriptors' /\ Booting' /\ Pages' /\ Window'
  BY <1>1, BootSlots DEF SetGdt, Pages, Window, Descriptors, Booting, IdleFilled, Task1Filled, hardware, vars, returns
<1> QED  BY <1>1, <1>2, NextCall

LEMMA SetIdtStep == ASSUME SInv, SetIdt PROVE SInv' /\ pc' # Astray
<1>1. /\ pc = 3 /\ Pages /\ Window /\ Descriptors /\ Booting
  BY InMainSInv, CallAt DEF SetIdt
<1>2. pc' = pc + 1 /\ Descriptors' /\ Booting' /\ Pages' /\ Window'
  BY <1>1, BootSlots DEF SetIdt, set_handlers, Pages, Window, Descriptors, Booting, IdleFilled, Task1Filled, hardware, vars, returns
<1> QED  BY <1>1, <1>2, NextCall

LEMMA InitializeSharedVectorStep == ASSUME SInv, InitializeSharedVector PROVE SInv' /\ pc' # Astray
<1>1. /\ pc = 9 /\ Pages /\ Window /\ Descriptors /\ Booting
  BY InMainSInv, CallAt DEF InitializeSharedVector
<1>2. pc' = pc + 1 /\ Descriptors' /\ Booting' /\ Pages' /\ Window'
  BY <1>1, BootSlots DEF InitializeSharedVector, Pages, Window, Descriptors, Booting, IdleFilled, Task1Filled, hardware, vars, returns
<1> QED  BY <1>1, <1>2, NextCall

LEMMA InitializeCircularBufferStep == ASSUME SInv, InitializeCircularBuffer PROVE SInv' /\ pc' # Astray
<1>1. /\ pc = 10 /\ Pages /\ Window /\ Descriptors /\ Booting
  BY InMainSInv, CallAt DEF InitializeCircularBuffer
<1>2. pc' = pc + 1 /\ Descriptors' /\ Booting' /\ Pages' /\ Window'
  BY <1>1, BootSlots DEF InitializeCircularBuffer, Pages, Window, Descriptors, Booting, IdleFilled, Task1Filled, hardware, vars, returns
<1> QED  BY <1>1, <1>2, NextCall

LEMMA EnableIntStep == ASSUME SInv, EnableInt PROVE SInv' /\ pc' # Astray
<1>1. /\ pc = 12 /\ Pages /\ Window /\ Descriptors /\ Booting
  BY InMainSInv, CallAt DEF EnableInt
<1>2. pc' = pc + 1 /\ Descriptors' /\ Booting' /\ Pages' /\ Window'
  BY <1>1, BootSlots DEF EnableInt, Pages, Window, Descriptors, Booting, IdleFilled, Task1Filled, hardware, vars, returns
<1> QED  BY <1>1, <1>2, NextCall

LEMMA SetTSSStep == ASSUME SInv, SetTSS PROVE SInv' /\ pc' # Astray
<1>1. /\ pc = 4 /\ Pages /\ Window /\ Descriptors /\ Booting
  BY InMainSInv, CallAt DEF SetTSS
<1>2. pc' = pc + 1 /\ Descriptors' /\ Booting' /\ Pages' /\ Window'
  BY <1>1 DEF SetTSS, Pages, Window, Descriptors, Booting, IdleFilled, Task1Filled, hardware, vars, returns
<1> QED  BY <1>1, <1>2, NextCall

LEMMA InitMmStep == ASSUME SInv, InitMm PROVE SInv' /\ pc' # Astray
<1>1. /\ pc = 5 /\ Pages /\ Window /\ Descriptors /\ Booting
  BY InMainSInv, CallAt DEF InitMm
<1>2. task' \in [Tasks -> Task_struct]
  BY <1>1, BootValues DEF InitMm, Booting, Task_struct
<1>3. pc' = pc + 1 /\ Descriptors' /\ Booting' /\ Pages' /\ Window'
  BY <1>1, <1>2
  DEF InitMm, init_table_pages, init_dir_pages, set_pe_flag, Pages, Window, Descriptors, Booting, IdleFilled, Task1Filled, hardware, vars, returns
<1> QED  BY <1>1, <1>3, NextCall

LEMMA InitSchedStep == ASSUME SInv, InitSched PROVE SInv' /\ pc' # Astray
<1>1. /\ pc = 6 /\ Pages /\ Window /\ Descriptors /\ Booting
  BY InMainSInv, CallAt DEF InitSched
<1>2. task' \in [Tasks -> Task_struct]
  BY <1>1, BootValues DEF InitSched, Booting, Task_struct
<1>3. pc' = pc + 1 /\ Descriptors' /\ Booting' /\ Pages' /\ Window'
  BY <1>1, <1>2 DEF InitSched, Pages, Window, Descriptors, Booting, IdleFilled, Task1Filled, hardware, vars, returns
<1> QED  BY <1>1, <1>3, NextCall

LEMMA InitIdleStep == ASSUME SInv, InitIdle PROVE SInv' /\ pc' # Astray
<1>1. /\ pc = 7 /\ Pages /\ Window /\ Descriptors /\ Booting
  BY InMainSInv, CallAt DEF InitIdle
<1>2. freequeue = init_freequeue /\ freequeue # null_list /\ Head(freequeue) = Idle
  BY <1>1, FreeQueueReady DEF Booting
<1>3. /\ freequeue' = Tail(freequeue) /\ pc' = pc + 1
      /\ task' = [task EXCEPT ![Idle].PID = 0, ![Idle].dir = Idle,
                              ![Idle].total_quantum = DEFAULT_QUANTUM,
                              ![Idle].register_esp = <<Idle, Depth["idle"]>>]
      /\ kstack' = [kstack EXCEPT ![Idle] = Depth["idle"]]
      /\ UNCHANGED <<readyqueue, current, remaining_quantum, global_PID, esp0, cr3, wild, hardware>>
  BY <1>2 DEF InitIdle, returns
<1>4. task' \in [Tasks -> Task_struct] /\ IdleFilled'
  <2> DEFINE r == task[Idle]
             q == [r EXCEPT !.PID = 0, !.dir = Idle, !.total_quantum = DEFAULT_QUANTUM,
                            !.register_esp = <<Idle, Depth["idle"]>>]
  <2>1. task \in [Tasks -> Task_struct] /\ r \in Task_struct
    BY <1>1, BootSlots DEF Booting
  <2>2. task' = [task EXCEPT ![Idle] = q]
    BY <1>3
  <2> HIDE DEF r
  <2>3. /\ q \in Task_struct /\ q.dir = Idle /\ q.total_quantum = DEFAULT_QUANTUM
        /\ q.register_esp = <<Idle, Depth["idle"]>>
    BY <2>1, FillIdle
  <2> HIDE DEF q
  <2> QED  BY <2>1, <2>2, <2>3, BootSlots DEF IdleFilled
<1>5. kstack' = idle_stack
  <2>1. kstack = [t \in Tasks |-> 0]
    BY <1>1 DEF Booting
  <2> QED  BY <1>3, <2>1, BootSlots DEF idle_stack
<1>6. Descriptors' /\ Booting' /\ Pages' /\ Window'
  BY <1>1, <1>2, <1>3, <1>4, <1>5 DEF Pages, Window, Descriptors, Booting, hardware
<1> QED  BY <1>1, <1>3, <1>6, NextCall

LEMMA InitTask1Step == ASSUME SInv, InitTask1 PROVE SInv' /\ pc' # Astray
<1>1. /\ pc = 8 /\ Pages /\ Window /\ Descriptors /\ Booting
  BY InMainSInv, CallAt DEF InitTask1
<1>2. /\ freequeue = Tail(init_freequeue)
      /\ freequeue # null_list /\ Head(freequeue) = Init1
  BY <1>1, FreeQueueReady DEF Booting
<1>3. /\ freequeue' = Tail(freequeue) /\ pc' = pc + 1
      /\ task' = [task EXCEPT ![Init1].PID = 1, ![Init1].dir = Init1,
                              ![Init1].total_quantum = DEFAULT_QUANTUM,
                              ![Init1].state = "ST_RUN"]
      /\ page_table' = IF Init1 \in dirs THEN [page_table EXCEPT ![Init1] = "user"]
                       ELSE page_table
      /\ remaining_quantum' = DEFAULT_QUANTUM
      /\ esp0' = Init1 /\ sysenter_esp' = Init1 /\ cr3' = Init1
      /\ UNCHANGED <<kstack, readyqueue, current, global_PID, wild>>
      /\ UNCHANGED <<tables, tss_ready, dirs, paging, shared, keys, buffered, loaded, interrupts, window>>
  <2> DEFINE c == Head(freequeue)
  <2>1. c = Init1
    BY <1>2
  <2> HIDE DEF c
  <2>2. /\ task' = [task EXCEPT ![c].PID = 1, ![c].dir = c,
                               ![c].total_quantum = DEFAULT_QUANTUM,
                               ![c].state = "ST_RUN"]
        /\ page_table' = IF c \in dirs THEN [page_table EXCEPT ![c] = "user"]
                         ELSE page_table
        /\ freequeue' = Tail(freequeue)
        /\ esp0' = c /\ sysenter_esp' = c /\ cr3' = c
    BY <1>2, Zenon DEF InitTask1, c
  <2>3. /\ pc' = pc + 1 /\ remaining_quantum' = DEFAULT_QUANTUM
        /\ UNCHANGED <<kstack, readyqueue, current, global_PID, wild>>
        /\ UNCHANGED <<tables, tss_ready, dirs, paging, shared, keys, buffered, loaded, interrupts, window>>
    BY <1>2, Zenon DEF InitTask1, returns
  <2> QED  BY <2>1, <2>2, <2>3, Zenon
<1>4. task' \in [Tasks -> Task_struct] /\ Task1Filled'
  <2> DEFINE r == task[Init1]
             q == [r EXCEPT !.PID = 1, !.dir = Init1, !.total_quantum = DEFAULT_QUANTUM,
                            !.state = "ST_RUN"]
  <2>1. task \in [Tasks -> Task_struct] /\ r \in Task_struct
    BY <1>1, BootSlots DEF Booting
  <2>2. task' = [task EXCEPT ![Init1] = q]
    BY <1>3
  <2> HIDE DEF r
  <2>3. /\ q \in Task_struct /\ q.PID = 1 /\ q.state = "ST_RUN" /\ q.dir = Init1
        /\ q.total_quantum = DEFAULT_QUANTUM
    BY <2>1, FillTask1
  <2> HIDE DEF q
  <2> QED  BY <2>1, <2>2, <2>3, BootSlots DEF Task1Filled
<1>5. IdleFilled'
  BY <1>1, <1>3, BootSlots DEF Booting, IdleFilled
<1>6. Pages' /\ page_table'[Init1] = "user"
  BY <1>1, <1>3, BootSlots DEF Pages
<1>7. Descriptors' /\ Window'
  BY <1>1, <1>3 DEF Window, Descriptors
<1>8. Booting'
  BY <1>1, <1>2, <1>3, <1>4, <1>5, BootSlots DEF Booting, Window
<1> QED  BY <1>1, <1>3, <1>6, <1>7, <1>8, NextCall

LEMMA CopyUserStep == ASSUME SInv, CopyUser PROVE SInv' /\ pc' # Astray
<1>1. /\ pc = 11 /\ Pages /\ Window /\ Descriptors /\ Booting
  BY InMainSInv, CallAt DEF CopyUser
<1>2. cr3 = Init1 /\ page_table[Init1] = "user"
  BY <1>1 DEF Booting, Pages
<1>3. /\ loaded' = Init1 /\ pc' = pc + 1
      /\ UNCHANGED <<vars, tables, tss_ready, sysenter_esp, page_table,
                     dirs, paging, shared, keys, buffered, interrupts, window>>
  BY <1>2 DEF CopyUser, returns
<1>4. Descriptors' /\ Booting' /\ Pages' /\ Window'
  BY <1>1, <1>3 DEF Pages, Window, Descriptors, Booting, IdleFilled, Task1Filled, hardware, vars, returns
<1> QED  BY <1>1, <1>3, <1>4, NextCall

\* return_gate: the state handed over is one that boot may leave.
LEMMA ReturnGateStep == ASSUME SInv, ReturnGate PROVE SInv' /\ pc' # Astray
<1>1. /\ pc = 13 /\ Pages /\ Window /\ Descriptors /\ Booting
  BY InMainSInv, CallAt DEF ReturnGate
<1>2. loaded = cr3 /\ page_table[cr3] = "user"
  BY <1>1 DEF Booting, Pages
<1>3. /\ pc' = 14 /\ current' = esp0
      /\ UNCHANGED <<task, kstack, freequeue, readyqueue, remaining_quantum,
                     global_PID, esp0, cr3, wild, hardware>>
  BY <1>1, <1>2 DEF ReturnGate, returns
<1>4. remaining_quantum \in 1 .. DEFAULT_QUANTUM
  BY <1>1, BootSlots DEF Booting, Window
<1>5. Booted'
  BY <1>1, <1>3, <1>4 DEF Booting, Booted, IdleFilled, Task1Filled, idle_stack
<1>6. IInv'
  BY <1>5, BootedIInv, PTL
<1>7. Running' /\ tables' = {"gdt", "idt"} /\ tss_ready'
  BY <1>1, <1>3, <1>6 DEF Running, Booting, Descriptors, Task1Filled, hardware
<1>8. Pages' /\ Window'
  BY <1>1, <1>3 DEF Pages, Window, hardware
<1> QED  BY <1>3, <1>7, <1>8, Calls DEF SInv, UserMode, Astray

\* Interrupts come only at the last call of main, with gates and lists ready,
\* and the quantum outlasts the window, so schedule never looks at the slot
\* of the boot stack.
LEMMA WindowStep == ASSUME SInv, WindowClock \/ WindowKey PROVE SInv' /\ pc' # Astray
<1>1. /\ pc = 13 /\ Pages /\ Window /\ Descriptors /\ Booting
      /\ window < MaxWindow /\ ~without_gate
  BY InMainSInv, CallAt DEF WindowClock, WindowKey, taken, Window, Descriptors, without_gate
<1>2. CASE WindowClock
  <2>1. /\ remaining_quantum \in DEFAULT_QUANTUM - window .. DEFAULT_QUANTUM
        /\ window \in Nat
    BY <1>1 DEF Booting, Window
  <2>2. remaining_quantum - 1 # 0
    BY <1>1, <2>1, BootSlots
  <2>3. remaining_quantum' = remaining_quantum - 1 /\ pc' = pc /\ window' = window + 1
    BY <1>1, <1>2, <2>2 DEF WindowClock, Tick
  <2>4. remaining_quantum' \in DEFAULT_QUANTUM - window' .. DEFAULT_QUANTUM
    BY <1>1, <2>1, <2>3, BootSlots
  <2>5. /\ UNCHANGED <<task, kstack, freequeue, readyqueue, current, global_PID, esp0, cr3, wild>>
        /\ UNCHANGED <<tables, tss_ready, sysenter_esp, page_table, dirs, paging,
                       shared, keys, buffered, loaded, interrupts>>
    BY <1>1, <1>2, <2>2 DEF WindowClock, Tick
  <2>6. Descriptors' /\ Pages' /\ Window'
    BY <1>1, <2>3, <2>5, BootSlots DEF Descriptors, Pages, Window
  <2>7. Booting'
    BY <1>1, <2>3, <2>4, <2>5 DEF Booting, IdleFilled, Task1Filled
  <2> QED  BY <1>1, <2>3, <2>6, <2>7, Calls DEF SInv, UserMode, Astray
<1>3. CASE WindowKey
  <2>1. /\ keys' = keys + 1 /\ buffered' = buffered + 1 /\ window' = window + 1
        /\ pc' = pc
        /\ UNCHANGED <<vars, tables, tss_ready, sysenter_esp, page_table, dirs,
                       paging, shared, loaded, interrupts>>
    BY <1>1, <1>3 DEF WindowKey
  <2>2. Descriptors' /\ Pages' /\ Window'
    BY <1>1, <2>1, BootSlots DEF Descriptors, Pages, Window
  <2>3. remaining_quantum' \in DEFAULT_QUANTUM - window' .. DEFAULT_QUANTUM
    BY <1>1, <2>1, BootSlots DEF vars, Booting, Window
  <2>4. Booting'
    BY <1>1, <2>1, <2>3 DEF vars, Booting, IdleFilled, Task1Filled
  <2> QED  BY <1>1, <2>1, <2>2, <2>4, Calls DEF SInv, UserMode, Astray
<1> QED  BY <1>2, <1>3

\* Processes run as in Sched.
LEMMA RunsStep == ASSUME SInv, Runs PROVE SInv' /\ pc' # Astray
<1>1. /\ pc = 14 /\ pc' = pc /\ Next /\ sysenter_esp' = esp0' /\ IInv
      /\ task[Init1].dir = Init1 /\ tables = {"gdt", "idt"} /\ tss_ready
      /\ Pages /\ Window
      /\ UNCHANGED <<tables, tss_ready, page_table, dirs, paging, shared, keys, buffered, loaded, interrupts, window>>
  BY InMainSInv, CallAt DEF Runs, SInv, Running
<1>2. IInv'
  BY <1>1, NextIInv
<1>3. task'[Init1].dir = Init1
  BY <1>1, NextDirs, BootSlots
<1>4. Pages' /\ Window'
  BY <1>1 DEF Pages, Window
<1> QED  BY <1>1, <1>2, <1>3, <1>4, Calls DEF SInv, UserMode, Running, Astray

LEMMA StartupNextSInv == SInv /\ [StartupNext]_startup_vars => SInv'
<1> SUFFICES ASSUME SInv, [StartupNext]_startup_vars PROVE SInv'
  OBVIOUS
<1>1. CASE StartupNext
  BY <1>1, SetEflagsStep, SetGdtStep, SetIdtStep, SetTSSStep, InitMmStep,
     InitSchedStep, InitIdleStep, InitTask1Step, InitializeSharedVectorStep,
     InitializeCircularBufferStep, CopyUserStep, EnableIntStep, ReturnGateStep,
     WindowStep, RunsStep
  DEF StartupNext
<1>2. CASE UNCHANGED startup_vars
  <2>1. UNCHANGED vars /\ UNCHANGED hardware /\ UNCHANGED pc
    BY <1>2 DEF startup_vars
  <2>2. IInv => IInv'
    BY <2>1, NextIInv
  <2>3. Running => Running'
    BY <2>1, <2>2 DEF UserMode, Running, vars, hardware
  <2>4. (Descriptors => Descriptors') /\ (Pages => Pages') /\ (Window => Window')
    BY <2>1 DEF Descriptors, Pages, Window, hardware
  <2>5. Booting => Booting'
    BY <2>1 DEF Booting, IdleFilled, Task1Filled, vars, hardware
  <2>6. pc' = pc /\ UserMode' = UserMode /\ tables' = tables /\ tss_ready' = tss_ready
    BY <2>1 DEF UserMode, hardware
  <2> QED BY <2>2, <2>3, <2>4, <2>5, <2>6 DEF SInv, Running
<1> QED  BY <1>1, <1>2

-----------------------------------------------------------------------------
(* The theorems.                                                           *)

LEMMA SInvAlways == StartupSpec => []SInv
<1>1. StartupInit => SInv
  BY StartupInitSInv
<1>2. SInv /\ [StartupNext]_startup_vars => SInv'
  BY StartupNextSInv
<1> QED  BY <1>1, <1>2, PTL DEF StartupSpec

\* Before the first process runs neither a call of main nor an interrupt
\* needs what is not set up yet: no reset, no null pointer.
THEOREM StartupNeverAstray == StartupSpec => []NeverAstray
<1>1. SInv => NeverAstray
  BY Calls DEF SInv, NeverAstray, Astray
<1> QED  BY <1>1, SInvAlways, PTL

\* Whatever interrupts the boot stack took, processes start, and go on, in a
\* state of Sched's invariant, with the program loaded and both ways into
\* the kernel on the stack of the running one.
THEOREM StartupSound == StartupSpec => []StartsSound
<1>1. SInv => StartsSound
  BY Calls, BootSlots DEF SInv, StartsSound, UserMode, Running, Pages, Window, IInv
<1> QED  BY <1>1, SInvAlways, PTL
=============================================================================
