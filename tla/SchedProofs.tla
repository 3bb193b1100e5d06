----------------------------- MODULE SchedProofs -----------------------------
(***************************************************************************)
(* Proofs about Sched, for any number of slots, any quantum and any depths *)
(* of the saved frames.                                                    *)
(***************************************************************************)
EXTENDS SchedProps, TLAPS

-----------------------------------------------------------------------------
(* Queues without repetition.                                              *)

\* Append adds its element to the set of a queue and repeats nothing new.
LEMMA AppendQueue ==
    ASSUME NEW S, NEW q \in Seq(S), NEW e \in S
    PROVE  /\ Append(q, e) \in Seq(S)
           /\ QueueSet(Append(q, e)) = QueueSet(q) \cup {e}
           /\ NoRepeat(q) /\ e \notin QueueSet(q) => NoRepeat(Append(q, e))
<1> DEFINE r == Append(q, e)
<1>1. /\ r \in Seq(S)
      /\ DOMAIN r = 1 .. Len(q) + 1
      /\ DOMAIN q = 1 .. Len(q)
      /\ Len(q) \in Nat
      /\ \A i \in 1 .. Len(q) : r[i] = q[i]
      /\ r[Len(q) + 1] = e
  OBVIOUS
<1> HIDE DEF r
<1>2. QueueSet(r) = QueueSet(q) \cup {e}
  <2>1. ASSUME NEW x \in QueueSet(r) PROVE x \in QueueSet(q) \cup {e}
    BY <1>1, <2>1 DEF QueueSet
  <2>2. ASSUME NEW x \in QueueSet(q) PROVE x \in QueueSet(r)
    <3>1. PICK i \in DOMAIN q : x = q[i]
      BY <2>2 DEF QueueSet
    <3>2. i \in DOMAIN r /\ r[i] = x
      BY <1>1, <3>1
    <3> QED BY <3>2 DEF QueueSet
  <2>3. e \in QueueSet(r)
    <3>1. Len(q) + 1 \in DOMAIN r
      BY <1>1
    <3> QED BY <1>1, <3>1 DEF QueueSet
  <2> QED BY <2>1, <2>2, <2>3
<1>3. ASSUME NoRepeat(q), e \notin QueueSet(q) PROVE NoRepeat(r)
  BY <1>1, <1>3 DEF NoRepeat, QueueSet
<1> QED BY <1>1, <1>2, <1>3 DEF r

\* Tail removes exactly the head from a queue that repeats nothing.
LEMMA TailQueue ==
    ASSUME NEW S, NEW q \in Seq(S), q # <<>>, NoRepeat(q)
    PROVE  /\ Tail(q) \in Seq(S) /\ NoRepeat(Tail(q))
           /\ Head(q) \in S /\ Head(q) \in QueueSet(q)
           /\ QueueSet(Tail(q)) = QueueSet(q) \ {Head(q)}
<1> DEFINE r == Tail(q)
<1>1. /\ r \in Seq(S)
      /\ Len(q) \in Nat /\ Len(q) >= 1
      /\ DOMAIN q = 1 .. Len(q)
      /\ DOMAIN r = 1 .. Len(q) - 1
      /\ \A i \in 1 .. Len(q) - 1 : r[i] = q[i + 1]
      /\ Head(q) = q[1] /\ q[1] \in S
  OBVIOUS
<1> HIDE DEF r
<1>2. NoRepeat(r)
  BY <1>1 DEF NoRepeat
<1>3. Head(q) \in QueueSet(q)
  BY <1>1 DEF QueueSet
<1>4. ASSUME NEW x \in QueueSet(r) PROVE x \in QueueSet(q) \ {Head(q)}
  <2>1. PICK i \in DOMAIN r : x = r[i]
    BY <1>4 DEF QueueSet
  <2>2. i + 1 \in DOMAIN q /\ x = q[i + 1] /\ i + 1 # 1
    BY <1>1, <2>1
  <2> QED BY <1>1, <2>2 DEF QueueSet, NoRepeat
<1>5. ASSUME NEW x \in QueueSet(q) \ {Head(q)} PROVE x \in QueueSet(r)
  <2>1. PICK i \in DOMAIN q : x = q[i]
    BY <1>5 DEF QueueSet
  <2>2. i - 1 \in DOMAIN r /\ r[i - 1] = x
    BY <1>1, <1>5, <2>1
  <2> QED BY <2>2 DEF QueueSet
<1>6. QueueSet(r) = QueueSet(q) \ {Head(q)}
  BY <1>4, <1>5
<1> QED BY <1>1, <1>2, <1>3, <1>6 DEF r

\* The elements of a queue of slots are slots.
LEMMA QueueTasks ==
    ASSUME NEW S, NEW q \in Seq(S)
    PROVE  QueueSet(q) \subseteq S
BY DEF QueueSet

\* An empty queue holds nothing.
LEMMA EmptyQueue == QueueSet(<<>>) = {} /\ NoRepeat(<<>>)
BY DEF QueueSet, NoRepeat

-----------------------------------------------------------------------------
(* The inductive invariant: the invariants the runs check, and that every  *)
(* task that can get the processor has a quantum to spend, without which   *)
(* remaining_quantum would not stay positive.                              *)

LiveQuantum == \A t \in Alive \cup {Idle} : task[t].total_quantum = DEFAULT_QUANTUM

IInv == /\ TypeOK
        /\ SlotPartition
        /\ IdleOnlyWhenAlone
        /\ StateMatchesPlace
        /\ DistinctPIDs
        /\ ContextOfCurrent
        /\ ResumePointsToFrame
        /\ LiveQuantum

\* The slots of idle and of the initial process are two slots.
LEMMA Slots ==
    /\ Idle \in Tasks /\ Init1 \in Tasks /\ Idle # Init1
    /\ Tasks \subseteq Int
    /\ DEFAULT_QUANTUM \in Nat \ {0}
    /\ \A p \in Paths : Depth[p] \in Nat
BY SchedAssumption DEF Tasks, Idle, Init1

\* A place in the stack of a slot is a stack pointer.
LEMMA StackPlace ==
    ASSUME NEW t \in Tasks, NEW d \in Nat
    PROVE  <<t, d>> \in StackPointers
BY DEF StackPointers

\* Changing one field of a task_struct leaves a task_struct with the other
\* fields as they were: the saved stack pointer,
LEMMA SetEsp ==
    ASSUME NEW r \in Task_struct, NEW e \in StackPointers, NEW q,
           q = [r EXCEPT !.register_esp = e]
    PROVE  /\ q \in Task_struct /\ q.register_esp = e
           /\ q.PID = r.PID /\ q.state = r.state
           /\ q.dir = r.dir /\ q.total_quantum = r.total_quantum
BY DEF Task_struct

\* the state,
LEMMA SetState ==
    ASSUME NEW r \in Task_struct, NEW e \in {"ST_RUN", "ST_READY"}, NEW q,
           q = [r EXCEPT !.state = e]
    PROVE  /\ q \in Task_struct /\ q.state = e
           /\ q.PID = r.PID /\ q.dir = r.dir
           /\ q.register_esp = r.register_esp /\ q.total_quantum = r.total_quantum
BY DEF Task_struct

\* the PID,
LEMMA SetPID ==
    ASSUME NEW r \in Task_struct, NEW e \in PIDs, NEW q,
           q = [r EXCEPT !.PID = e]
    PROVE  /\ q \in Task_struct /\ q.PID = e
           /\ q.state = r.state /\ q.dir = r.dir
           /\ q.register_esp = r.register_esp /\ q.total_quantum = r.total_quantum
BY DEF Task_struct

\* the page directory.
LEMMA SetDir ==
    ASSUME NEW r \in Task_struct, NEW e \in Tasks, NEW q,
           q = [r EXCEPT !.dir = e]
    PROVE  /\ q \in Task_struct /\ q.dir = e
           /\ q.PID = r.PID /\ q.state = r.state
           /\ q.register_esp = r.register_esp /\ q.total_quantum = r.total_quantum
BY DEF Task_struct

\* init_freequeue: every slot is in the free queue once, that of idle and then
\* that of the initial process in front.
LEMMA FirstFree ==
    /\ init_freequeue \in Seq(Tasks) /\ NoRepeat(init_freequeue)
    /\ init_freequeue # <<>> /\ Head(init_freequeue) = Idle
    /\ QueueSet(init_freequeue) = Tasks
    /\ Tail(init_freequeue) # <<>> /\ Head(Tail(init_freequeue)) = Init1
<1> DEFINE q == init_freequeue
<1>1. /\ q \in Seq(Tasks) /\ Len(q) = NR_TASKS
      /\ DOMAIN q = 1 .. NR_TASKS /\ \A i \in 1 .. NR_TASKS : q[i] = i - 1
  BY SchedAssumption DEF init_freequeue, Tasks
<1> HIDE DEF q
<1>2. NoRepeat(q) /\ q # <<>> /\ Head(q) = Idle
  BY <1>1, SchedAssumption DEF NoRepeat, Idle
<1>3. ASSUME NEW t \in Tasks PROVE t \in QueueSet(q)
  <2>1. t + 1 \in DOMAIN q /\ q[t + 1] = t
    BY <1>1, SchedAssumption DEF Tasks
  <2> QED BY <2>1 DEF QueueSet
<1>4. QueueSet(q) \subseteq Tasks
  BY <1>1 DEF QueueSet
<1>5. Tail(q) # <<>> /\ Head(Tail(q)) = Init1
  <2>1. Len(Tail(q)) = NR_TASKS - 1 /\ Tail(q)[1] = q[2]
    BY <1>1, SchedAssumption
  <2>2. ASSUME NEW r \in Seq(Tasks), Len(r) >= 1 PROVE r # <<>> /\ Head(r) = r[1]
    BY <2>2
  <2>3. Tail(q) \in Seq(Tasks) /\ Len(Tail(q)) >= 1
    BY <1>1, <2>1, SchedAssumption
  <2>4. Tail(q) # <<>> /\ Head(Tail(q)) = Tail(q)[1]
    BY <2>2, <2>3
  <2>5. q[2] = 1
    BY <1>1, SchedAssumption
  <2> QED BY <2>1, <2>4, <2>5 DEF Init1
<1> QED BY <1>1, <1>2, <1>3, <1>4, <1>5 DEF q

\* What boot hands over, whatever is left of the first turn: the slots of
\* idle and of the initial process filled, the rest of any content.
IdleFilled == /\ task[Idle].dir = Idle /\ task[Idle].total_quantum = DEFAULT_QUANTUM
              /\ task[Idle].register_esp = <<Idle, Depth["idle"]>>
Task1Filled == /\ task[Init1].PID = 1 /\ task[Init1].state = "ST_RUN"
               /\ task[Init1].dir = Init1
               /\ task[Init1].total_quantum = DEFAULT_QUANTUM
Booted ==
    /\ task \in [Tasks -> Task_struct] /\ IdleFilled /\ Task1Filled
    /\ kstack = [t \in Tasks |-> IF t = Idle THEN Depth["idle"] ELSE 0]
    /\ freequeue = Tail(Tail(init_freequeue)) /\ readyqueue = <<>>
    /\ current = Init1 /\ remaining_quantum \in 1 .. DEFAULT_QUANTUM
    /\ global_PID = FirstPID /\ esp0 = Init1 /\ cr3 = Init1 /\ wild = FALSE

\* Boot leaves a state of the invariant.
LEMMA BootedIInv == Booted => IInv
<1> SUFFICES ASSUME Booted PROVE IInv
  OBVIOUS
<1> USE Slots
<1> DEFINE q == Tail(init_freequeue)
<1>3. /\ init_freequeue \in Seq(Tasks) /\ NoRepeat(init_freequeue)
      /\ init_freequeue # <<>> /\ Head(init_freequeue) = Idle
      /\ QueueSet(init_freequeue) = Tasks
      /\ Tail(init_freequeue) # <<>> /\ Head(Tail(init_freequeue)) = Init1
  BY FirstFree
<1>4. q \in Seq(Tasks) /\ NoRepeat(q) /\ QueueSet(q) = Tasks \ {Idle}
  BY <1>3, TailQueue
<1>5. q # <<>> /\ Head(q) = Init1
  BY <1>3
<1> HIDE DEF q
<1>6. /\ Tail(q) \in Seq(Tasks) /\ NoRepeat(Tail(q))
      /\ QueueSet(Tail(q)) = Tasks \ {Idle, Init1}
  BY <1>4, <1>5, TailQueue
<1>7. /\ freequeue = Tail(q) /\ readyqueue = <<>> /\ current = Init1
      /\ Alive = {Init1}
  BY EmptyQueue DEF Booted, Alive, q
<1>8. TypeOK
  <2>1. kstack \in [Tasks -> Nat]
    BY DEF Booted, Paths
  <2>2. FirstPID \in FirstPID .. MaxPID
    BY SchedAssumption DEF FirstPID
  <2>3. freequeue \in Seq(Tasks) /\ readyqueue \in Seq(Tasks)
    BY <1>6, <1>7
  <2> QED BY <2>1, <2>2, <2>3 DEF Booted, TypeOK
<1>9. SlotPartition
  BY <1>6, <1>7, EmptyQueue DEF SlotPartition
<1>10. StateMatchesPlace /\ ContextOfCurrent /\ LiveQuantum
  BY <1>7, EmptyQueue
  DEF Booted, IdleFilled, Task1Filled, StateMatchesPlace, ContextOfCurrent, LiveQuantum
<1>11. DistinctPIDs
  BY <1>7 DEF Booted, Task1Filled, DistinctPIDs, FirstPID
<1>12. ResumePointsToFrame
  BY <1>7, EmptyQueue DEF Booted, IdleFilled, ResumePointsToFrame
<1> QED BY <1>7, <1>8, <1>9, <1>10, <1>11, <1>12 DEF IInv, IdleOnlyWhenAlone

LEMMA InitIInv == Init => IInv
<1> SUFFICES ASSUME Init PROVE Booted
  BY BootedIInv
<1> USE Slots
<1>1. /\ init_idle \in Task_struct /\ init_task1 \in Task_struct
      /\ blank_task \in Task_struct
  <2>1. <<Idle, Depth["idle"]>> \in StackPointers
    BY StackPlace DEF Paths
  <2>2. NoEsp \in StackPointers /\ {-1, 0, 1} \subseteq PIDs
    BY DEF StackPointers, PIDs
  <2> QED BY <2>1, <2>2
          DEF init_idle, init_task1, blank_task, Task_struct
<1>2. /\ task \in [Tasks -> Task_struct]
      /\ task[Init1] = init_task1
      /\ task[Idle] = init_idle
  BY <1>1 DEF Init
<1>3. IdleFilled /\ Task1Filled
  BY <1>2 DEF IdleFilled, Task1Filled, init_idle, init_task1, blank_task
<1> QED BY <1>2, <1>3 DEF Init, Booted

\* What a dispatch does, whoever asks for it: rq is the ready queue and tk
\* the task array the caller left, which differs only at the caller.
LEMMA Dispatch ==
    ASSUME IInv, current # Idle,
           NEW tk \in [Tasks -> Task_struct], NEW rq \in Seq(Tasks),
           NEW path \in Paths,
           NoRepeat(rq), QueueSet(rq) \subseteq QueueSet(readyqueue) \cup {current},
           \A t \in Tasks \ {current} : tk[t] = task[t],
           tk[current].dir = task[current].dir,
           tk[current].total_quantum = task[current].total_quantum,
           current \in QueueSet(rq) => tk[current].state = "ST_READY",
           sched_next_rr(tk, rq, path)
    PROVE  /\ task' \in [Tasks -> Task_struct]
           /\ kstack' \in [Tasks -> Nat]
           /\ remaining_quantum' = DEFAULT_QUANTUM
           /\ readyqueue' \in Seq(Tasks) /\ NoRepeat(readyqueue')
           /\ current' = IF rq = <<>> THEN Idle ELSE Head(rq)
           /\ current' \in QueueSet(rq) \cup {Idle}
           /\ QueueSet(readyqueue') = QueueSet(rq) \ {current'}
           /\ \A t \in Tasks : task'[t].PID = tk[t].PID
           /\ IdleOnlyWhenAlone' /\ StateMatchesPlace' /\ ContextOfCurrent'
           /\ ResumePointsToFrame' /\ LiveQuantum'
           /\ wild' \in BOOLEAN
           /\ wild' => current' = current
<1> USE Slots
<1> DEFINE new == IF rq # <<>> THEN Head(rq) ELSE Idle
           tk2 == [tk EXCEPT ![new].state = "ST_RUN"]
<1>1. /\ task \in [Tasks -> Task_struct] /\ kstack \in [Tasks -> Nat]
      /\ current \in Tasks /\ Idle \in Tasks
      /\ Idle \notin QueueSet(readyqueue)
      /\ current \notin QueueSet(readyqueue)
  BY DEF IInv, TypeOK, SlotPartition
<1>2. new \in Tasks /\ new \in QueueSet(rq) \cup {Idle}
  BY <1>1, TailQueue
<1>3. /\ readyqueue' \in Seq(Tasks) /\ NoRepeat(readyqueue')
      /\ QueueSet(readyqueue') = QueueSet(rq) \ {new}
      /\ rq = <<>> => readyqueue' = <<>>
      /\ new \notin QueueSet(readyqueue')
  <2>1. CASE rq = <<>>
    BY <2>1, EmptyQueue DEF sched_next_rr
  <2>2. CASE rq # <<>>
    BY <2>2, TailQueue DEF sched_next_rr
  <2> QED BY <2>1, <2>2
<1>4. Idle \notin QueueSet(rq)
  BY <1>1
<1>5. /\ remaining_quantum' = tk2[new].total_quantum
      /\ esp0' = new
      /\ cr3' = tk2[new].dir
      /\ current' = new
  BY DEF sched_next_rr, task_switch, new, tk2
<1>6. /\ task' = [tk2 EXCEPT ![current].register_esp = <<current, Depth[path]>>]
      /\ kstack' = [kstack EXCEPT ![current] = Depth[path]]
      /\ wild' = (tk2[new].register_esp # <<new, kstack'[new]>>)
  BY DEF sched_next_rr, task_switch, new, tk2
<1>7. /\ tk2 \in [Tasks -> Task_struct]
      /\ \A t \in Tasks : /\ tk2[t].PID = tk[t].PID
                          /\ tk2[t].dir = tk[t].dir
                          /\ tk2[t].total_quantum = tk[t].total_quantum
                          /\ tk2[t].register_esp = tk[t].register_esp
                          /\ t # new => tk2[t].state = tk[t].state
      /\ tk2[new].state = "ST_RUN"
  <2> HIDE DEF new
  <2>1. tk2 = [tk EXCEPT ![new] = [tk[new] EXCEPT !.state = "ST_RUN"]]
    OBVIOUS
  <2> HIDE DEF tk2
  <2>2. tk2[new] = [tk[new] EXCEPT !.state = "ST_RUN"]
    BY <1>2, <2>1
  <2>3. \A t \in Tasks \ {new} : tk2[t] = tk[t]
    BY <2>1
  <2>4. /\ tk2[new] \in Task_struct
        /\ tk2[new].state = "ST_RUN"
        /\ tk2[new].PID = tk[new].PID
        /\ tk2[new].dir = tk[new].dir
        /\ tk2[new].register_esp = tk[new].register_esp
        /\ tk2[new].total_quantum = tk[new].total_quantum
    BY <1>2, <2>2, SetState
  <2>5. tk2 \in [Tasks -> Task_struct]
    BY <1>2, <2>1, <2>2, <2>4
  <2> QED BY <2>3, <2>4, <2>5
<1> HIDE DEF new, tk2
<1>8. /\ task' \in [Tasks -> Task_struct]
      /\ \A t \in Tasks : /\ task'[t].PID = tk[t].PID
                          /\ task'[t].dir = task[t].dir
                          /\ task'[t].total_quantum = task[t].total_quantum
                          /\ t # current => task'[t].register_esp = task[t].register_esp
                          /\ t # new => task'[t].state = tk[t].state
      /\ task'[new].state = "ST_RUN"
      /\ task'[current].register_esp = <<current, Depth[path]>>
  <2> DEFINE esp == <<current, Depth[path]>>
  <2>1. esp \in StackPointers
    BY <1>1, StackPlace
  <2> HIDE DEF esp
  <2>2. task' = [tk2 EXCEPT ![current] = [tk2[current] EXCEPT !.register_esp = esp]]
    BY <1>6, <1>7 DEF esp
  <2>3. task' \in [Tasks -> Task_struct]
    BY <1>1, <1>7, <2>1, <2>2, SetEsp
  <2>4. \A t \in Tasks \ {current} : task'[t] = tk2[t]
    BY <1>7, <2>2
  <2>5. /\ task'[current].register_esp = esp
        /\ task'[current].PID = tk2[current].PID
        /\ task'[current].state = tk2[current].state
        /\ task'[current].dir = tk2[current].dir
        /\ task'[current].total_quantum = tk2[current].total_quantum
    BY <1>1, <1>7, <2>1, <2>2, SetEsp
  <2>6. /\ task'[current].dir = task[current].dir
        /\ task'[current].total_quantum = task[current].total_quantum
        /\ task'[current].PID = tk[current].PID
        /\ current # new => task'[current].state = tk[current].state
    BY <1>1, <1>7, <2>5
  <2>7. ASSUME NEW t \in Tasks, t # current
        PROVE  /\ task'[t].PID = tk[t].PID
               /\ task'[t].dir = task[t].dir
               /\ task'[t].total_quantum = task[t].total_quantum
               /\ task'[t].register_esp = task[t].register_esp
               /\ t # new => task'[t].state = tk[t].state
    BY <1>7, <2>4, <2>7
  <2>8. task'[new].state = "ST_RUN"
    BY <1>2, <1>7, <2>4, <2>5
  <2> QED BY <2>3, <2>5, <2>6, <2>7, <2>8 DEF esp
<1>9. /\ kstack' \in [Tasks -> Nat]
      /\ kstack'[current] = Depth[path]
      /\ \A t \in Tasks \ {current} : kstack'[t] = kstack[t]
  BY <1>1, <1>6
<1>10. /\ QueueSet(readyqueue) \subseteq Tasks
       /\ QueueSet(readyqueue') \subseteq QueueSet(readyqueue) \cup {current}
       /\ Alive \cup {Idle} = QueueSet(readyqueue) \cup {current, Idle}
       /\ Alive' \subseteq Alive \cup {Idle}
  <2>1. QueueSet(readyqueue) \subseteq Tasks
    BY DEF IInv, TypeOK, QueueSet
  <2>2. QueueSet(readyqueue') \subseteq QueueSet(readyqueue) \cup {current}
    BY <1>3
  <2>3. Alive \cup {Idle} = QueueSet(readyqueue) \cup {current, Idle}
    BY DEF Alive
  <2>4. Alive' \cup {Idle} = QueueSet(readyqueue') \cup {new, Idle}
    BY <1>5 DEF Alive
  <2> QED BY <1>2, <2>1, <2>2, <2>3, <2>4
<1>11. new \in Alive \cup {Idle}
  BY <1>2, <1>10
<1>12. LiveQuantum' /\ remaining_quantum' = DEFAULT_QUANTUM
  <2>1. \A t \in Alive \cup {Idle} : task[t].total_quantum = DEFAULT_QUANTUM
    BY DEF IInv, LiveQuantum
  <2>2. tk2[new].total_quantum = task[new].total_quantum
    BY <1>1, <1>2, <1>7
  <2>3. \A t \in Alive' \cup {Idle} : task'[t].total_quantum = DEFAULT_QUANTUM
    BY <1>1, <1>8, <1>10, <2>1
  <2> QED BY <1>5, <1>11, <2>1, <2>2, <2>3 DEF LiveQuantum
<1>13. IdleOnlyWhenAlone'
  <2>1. current' = Idle => rq = <<>>
    BY <1>4, <1>5, TailQueue DEF new
  <2> QED BY <1>3, <2>1 DEF IdleOnlyWhenAlone
<1>14. StateMatchesPlace'
  <2>1. ASSUME NEW t \in QueueSet(readyqueue') PROVE task'[t].state = "ST_READY"
    <3>1. t \in Tasks /\ t # new /\ t \in QueueSet(rq)
      BY <1>1, <1>3, <1>10
    <3>2. task'[t].state = tk[t].state
      BY <1>8, <3>1
    <3>3. t # current => task[t].state = "ST_READY"
      BY <3>1 DEF IInv, StateMatchesPlace
    <3> QED BY <3>1, <3>2, <3>3
  <2> QED BY <1>5, <1>8, <2>1 DEF StateMatchesPlace
<1>15. ContextOfCurrent'
  <2>1. \A t \in Alive \cup {Idle} : task[t].dir = t
    BY DEF IInv, ContextOfCurrent
  <2>2. \A t \in Alive' \cup {Idle} : task'[t].dir = t
    BY <1>1, <1>8, <1>10, <2>1
  <2>3. tk2[new].dir = task[new].dir /\ task'[new].dir = task[new].dir
    BY <1>1, <1>2, <1>7, <1>8
  <2> QED BY <1>5, <2>2, <2>3 DEF ContextOfCurrent
<1>16. \A t \in QueueSet(readyqueue) \cup {Idle} : task[t].register_esp = <<t, kstack[t]>>
  BY DEF IInv, ResumePointsToFrame
<1>17. ResumePointsToFrame'
  <2>1. ASSUME NEW t \in QueueSet(readyqueue') \cup {Idle}
        PROVE  task'[t].register_esp = <<t, kstack'[t]>>
    <3>1. CASE t = current
      BY <1>8, <1>9, <3>1
    <3>2. CASE t # current
      BY <1>1, <1>8, <1>9, <1>10, <1>16, <3>2
    <3> QED BY <3>1, <3>2
  <2> QED BY <2>1 DEF ResumePointsToFrame
<1>18. wild' \in BOOLEAN /\ (wild' => current' = current)
  <2>1. wild' \in BOOLEAN
    BY <1>6
  <2>2. ASSUME new # current PROVE ~wild'
    <3>1. tk2[new].register_esp = <<new, kstack'[new]>>
      BY <1>1, <1>2, <1>7, <1>9, <1>16, <2>2
    <3> QED BY <1>6, <3>1
  <2> QED BY <1>5, <2>1, <2>2
<1>19. current' = IF rq = <<>> THEN Idle ELSE Head(rq)
  BY <1>5 DEF new
<1> QED BY <1>2, <1>3, <1>5, <1>8, <1>9, <1>12, <1>13, <1>14, <1>15, <1>17, <1>18, <1>19

-----------------------------------------------------------------------------
(* One lemma per action: the invariant survives it.                        *)

\* The invariant after a dispatch follows from what is left to check: the
\* partition of the slots, the PIDs and the two variables it does not touch.
LEMMA DispatchIInv ==
    ASSUME IInv,
           task' \in [Tasks -> Task_struct], kstack' \in [Tasks -> Nat],
           remaining_quantum' = DEFAULT_QUANTUM,
           readyqueue' \in Seq(Tasks), current' \in Tasks, wild' \in BOOLEAN,
           freequeue' \in Seq(Tasks), global_PID' \in FirstPID .. MaxPID,
           IdleOnlyWhenAlone', StateMatchesPlace', ContextOfCurrent',
           ResumePointsToFrame', LiveQuantum', SlotPartition', DistinctPIDs'
    PROVE  IInv'
<1>1. esp0' \in Tasks /\ cr3' \in Tasks \cup {NoDir}
  <2>1. task'[current'] \in Task_struct
    OBVIOUS
  <2> QED BY <2>1 DEF ContextOfCurrent, Task_struct
<1>2. remaining_quantum' \in 1 .. DEFAULT_QUANTUM
  BY SchedAssumption
<1>3. TypeOK'
  BY <1>1, <1>2 DEF TypeOK
<1> QED BY <1>3 DEF IInv

\* force_task_switch and a clock tick at the end of a quantum: the running
\* task is put at the end of the ready queue and the first one is taken.
LEMMA RotateStep ==
    ASSUME IInv, current # Idle, NEW path \in Paths,
           sched_next_rr(readied(current), requeued(current), path),
           UNCHANGED <<freequeue, global_PID>>
    PROVE  /\ IInv'
           /\ requeued(current) = Append(readyqueue, current)
           /\ current' = Head(Append(readyqueue, current))
           /\ \A t \in Tasks : task'[t].PID = task[t].PID
           /\ wild' => current' = current
<1> USE Slots
<1> DEFINE tk == readied(current)
           rq == requeued(current)
<1>1. /\ task \in [Tasks -> Task_struct] /\ current \in Tasks
      /\ readyqueue \in Seq(Tasks) /\ NoRepeat(readyqueue)
      /\ freequeue \in Seq(Tasks) /\ NoRepeat(freequeue)
      /\ global_PID \in FirstPID .. MaxPID
      /\ current \notin QueueSet(readyqueue) /\ Idle \notin QueueSet(readyqueue)
      /\ current \notin QueueSet(freequeue) /\ Idle \notin QueueSet(freequeue)
      /\ QueueSet(freequeue) \cap QueueSet(readyqueue) = {}
      /\ Tasks = QueueSet(freequeue) \cup QueueSet(readyqueue) \cup {current, Idle}
  BY DEF IInv, TypeOK, SlotPartition
<1>2. rq = Append(readyqueue, current)
  BY DEF IInv, StateMatchesPlace, requeued, unlinked
<1>3. /\ rq \in Seq(Tasks) /\ NoRepeat(rq) /\ rq # <<>>
      /\ QueueSet(rq) = QueueSet(readyqueue) \cup {current}
  <2>1. Append(readyqueue, current) # <<>>
    BY <1>1
  <2> QED BY <1>1, <1>2, <2>1, AppendQueue
<1>4. /\ tk \in [Tasks -> Task_struct]
      /\ \A t \in Tasks \ {current} : tk[t] = task[t]
      /\ tk[current].state = "ST_READY"
      /\ tk[current].PID = task[current].PID
      /\ tk[current].dir = task[current].dir
      /\ tk[current].total_quantum = task[current].total_quantum
  <2>1. tk = [task EXCEPT ![current] = [task[current] EXCEPT !.state = "ST_READY"]]
    BY DEF readied
  <2> HIDE DEF tk
  <2>2. tk[current] = [task[current] EXCEPT !.state = "ST_READY"]
    BY <1>1, <2>1
  <2>3. \A t \in Tasks \ {current} : tk[t] = task[t]
    BY <1>1, <2>1
  <2>4. task[current] \in Task_struct
    BY <1>1
  <2>5. /\ tk[current] \in Task_struct
        /\ tk[current].state = "ST_READY"
        /\ tk[current].PID = task[current].PID
        /\ tk[current].dir = task[current].dir
        /\ tk[current].total_quantum = task[current].total_quantum
    BY <2>2, <2>4, SetState
  <2>6. tk \in [Tasks -> Task_struct]
    BY <1>1, <2>1, <2>2, <2>5
  <2> QED BY <2>3, <2>5, <2>6
<1>5. \A t \in Tasks : tk[t].PID = task[t].PID
  BY <1>4
<1> HIDE DEF tk, rq
<1>6. sched_next_rr(tk, rq, path)
  BY DEF tk, rq
<1>7. /\ task' \in [Tasks -> Task_struct]
      /\ kstack' \in [Tasks -> Nat]
      /\ remaining_quantum' = DEFAULT_QUANTUM
      /\ readyqueue' \in Seq(Tasks) /\ NoRepeat(readyqueue')
      /\ current' = IF rq = <<>> THEN Idle ELSE Head(rq)
      /\ current' \in QueueSet(rq) \cup {Idle}
      /\ QueueSet(readyqueue') = QueueSet(rq) \ {current'}
      /\ \A t \in Tasks : task'[t].PID = tk[t].PID
      /\ IdleOnlyWhenAlone' /\ StateMatchesPlace' /\ ContextOfCurrent'
      /\ ResumePointsToFrame' /\ LiveQuantum'
      /\ wild' \in BOOLEAN
      /\ wild' => current' = current
  BY <1>3, <1>4, <1>6, Dispatch
<1>8. current' = Head(rq) /\ current' \in QueueSet(rq)
  BY <1>3, <1>7, TailQueue
<1>9. SlotPartition'
  BY <1>1, <1>3, <1>7, <1>8 DEF SlotPartition
<1>10. DistinctPIDs'
  <2>1. Alive' = Alive
    BY <1>1, <1>3, <1>7, <1>8 DEF Alive
  <2>2. Alive \subseteq Tasks
    BY <1>1 DEF Alive
  <2>3. \A t \in Alive : task'[t].PID = task[t].PID
    BY <1>5, <1>7, <2>2
  <2> QED BY <2>1, <2>3 DEF IInv, DistinctPIDs
<1>11. current' \in Tasks
  BY <1>1, <1>3, <1>8
<1>12. IInv'
  BY <1>1, <1>7, <1>9, <1>10, <1>11, DispatchIInv
<1> QED BY <1>2, <1>5, <1>7, <1>8, <1>12 DEF rq

\* A clock tick that switches.
LEMMA ClockPreemptStep == ASSUME IInv, ClockPreempt PROVE IInv' /\ ~wild'
<1>1. current # Idle /\ readyqueue # <<>>
  BY DEF IInv, IdleOnlyWhenAlone, ClockPreempt
<1>2. /\ IInv' /\ (wild' => current' = current)
      /\ current' = Head(Append(readyqueue, current))
  BY <1>1, RotateStep DEF ClockPreempt, Paths
<1>3. /\ readyqueue \in Seq(Tasks) /\ NoRepeat(readyqueue) /\ current \in Tasks
      /\ current \notin QueueSet(readyqueue)
  BY DEF IInv, TypeOK, SlotPartition
<1>4. Head(Append(readyqueue, current)) = Head(readyqueue)
  BY <1>1, <1>3
<1>5. current' # current
  BY <1>1, <1>2, <1>3, <1>4, TailQueue
<1> QED BY <1>2, <1>5

\* sys_yield goes wrong only with nobody else to switch to.
LEMMA YieldStep == ASSUME IInv, SysYield PROVE IInv' /\ (wild' => readyqueue = <<>>)
<1>1. /\ IInv' /\ (wild' => current' = current)
      /\ current' = Head(Append(readyqueue, current))
  BY RotateStep DEF SysYield, UserRuns, Paths
<1>2. /\ readyqueue \in Seq(Tasks) /\ NoRepeat(readyqueue) /\ current \in Tasks
      /\ current \notin QueueSet(readyqueue)
  BY DEF IInv, TypeOK, SlotPartition
<1>3. ASSUME readyqueue # <<>> PROVE current' # current
  <2>1. Head(Append(readyqueue, current)) = Head(readyqueue)
    BY <1>2, <1>3
  <2> QED BY <1>1, <1>2, <1>3, <2>1, TailQueue
<1> QED BY <1>1, <1>3

\* A clock tick that goes on with the same task.
LEMMA ClockContinueStep == ASSUME IInv, ClockContinue PROVE IInv' /\ ~wild'
<1>1. /\ remaining_quantum \in 1 .. DEFAULT_QUANTUM
      /\ task[current].total_quantum = DEFAULT_QUANTUM
      /\ DEFAULT_QUANTUM \in Nat \ {0}
  BY Slots DEF IInv, TypeOK, LiveQuantum, Alive
<1>2. remaining_quantum' \in 1 .. DEFAULT_QUANTUM
  BY <1>1 DEF ClockContinue, Tick
<1>3. UNCHANGED <<task, kstack, freequeue, readyqueue, current, global_PID,
                  esp0, cr3, wild>> /\ ~wild
  BY DEF ClockContinue
<1>4. TypeOK'
  BY <1>2, <1>3 DEF IInv, TypeOK
<1> QED BY <1>3, <1>4
        DEF IInv, SlotPartition, IdleOnlyWhenAlone, StateMatchesPlace, DistinctPIDs,
            ContextOfCurrent, ResumePointsToFrame, LiveQuantum, Alive

\* What both outcomes of fork start from: the first free slot holds a copy
\* of the parent with a directory of its own.
LEMMA ForkCopy ==
    ASSUME IInv, UserRuns, freequeue # <<>>
    PROVE  LET u == Head(freequeue) IN
           /\ u \in Tasks /\ u \notin Alive /\ u # Idle /\ u # current
           /\ u \in QueueSet(freequeue) /\ u \notin QueueSet(readyqueue)
           /\ Tail(freequeue) \in Seq(Tasks) /\ NoRepeat(Tail(freequeue))
           /\ QueueSet(Tail(freequeue)) = QueueSet(freequeue) \ {u}
           /\ copied(u) \in [Tasks -> Task_struct]
           /\ \A t \in Tasks \ {u} : copied(u)[t] = task[t]
           /\ copied(u)[u].dir = u
           /\ copied(u)[u].total_quantum = DEFAULT_QUANTUM
<1> DEFINE u == Head(freequeue)
           c == copied(u)
<1>1. /\ task \in [Tasks -> Task_struct] /\ current \in Tasks
      /\ freequeue \in Seq(Tasks) /\ NoRepeat(freequeue)
      /\ current \notin QueueSet(freequeue) /\ Idle \notin QueueSet(freequeue)
      /\ QueueSet(freequeue) \cap QueueSet(readyqueue) = {}
  BY DEF IInv, TypeOK, SlotPartition
<1>2. /\ u \in Tasks /\ u \in QueueSet(freequeue)
      /\ Tail(freequeue) \in Seq(Tasks) /\ NoRepeat(Tail(freequeue))
      /\ QueueSet(Tail(freequeue)) = QueueSet(freequeue) \ {u}
  BY <1>1, TailQueue
<1>3. u \notin QueueSet(readyqueue) /\ u # Idle /\ u # current /\ u \notin Alive
  BY <1>1, <1>2 DEF Alive
<1>4. c = [task EXCEPT ![u] = [task[current] EXCEPT !.dir = u]]
  BY DEF copied
<1> HIDE DEF u, c
<1>5. task[current] \in Task_struct /\ task[current].total_quantum = DEFAULT_QUANTUM
  BY <1>1 DEF IInv, LiveQuantum, Alive
<1>6. c[u] = [task[current] EXCEPT !.dir = u]
  BY <1>1, <1>2, <1>4
<1>7. /\ c[u] \in Task_struct /\ c[u].dir = u
      /\ c[u].total_quantum = DEFAULT_QUANTUM
  BY <1>2, <1>5, <1>6, SetDir
<1>8. c \in [Tasks -> Task_struct] /\ \A t \in Tasks \ {u} : c[t] = task[t]
  BY <1>1, <1>2, <1>4, <1>6, <1>7
<1> QED BY <1>2, <1>3, <1>7, <1>8 DEF u, c

\* sys_fork that succeeds.
LEMMA ForkStep == ASSUME IInv, SysFork PROVE IInv' /\ ~wild'
<1> USE Slots
<1> DEFINE u == Head(freequeue)
           c == copied(u)
<1>1. /\ u \in Tasks /\ u \notin Alive /\ u # Idle /\ u # current
      /\ u \in QueueSet(freequeue) /\ u \notin QueueSet(readyqueue)
      /\ Tail(freequeue) \in Seq(Tasks) /\ NoRepeat(Tail(freequeue))
      /\ QueueSet(Tail(freequeue)) = QueueSet(freequeue) \ {u}
      /\ c \in [Tasks -> Task_struct]
      /\ \A t \in Tasks \ {u} : c[t] = task[t]
      /\ c[u].dir = u
      /\ c[u].total_quantum = DEFAULT_QUANTUM
  BY ForkCopy DEF SysFork
<1>2. /\ freequeue' = Tail(freequeue)
      /\ global_PID' = global_PID + 1
      /\ task' = [c EXCEPT ![u].PID = global_PID + 1, ![u].state = "ST_READY",
                          ![u].register_esp = child_esp(u)]
      /\ kstack' = [kstack EXCEPT ![u] = Depth["fork"]]
      /\ readyqueue' = Append(readyqueue, u)
      /\ cr3' = task[current].dir
      /\ UNCHANGED <<current, remaining_quantum, esp0, wild>>
      /\ ~wild /\ global_PID < MaxPID
  BY DEF SysFork, UserRuns, child_queued
<1> HIDE DEF u, c
<1>3. /\ task \in [Tasks -> Task_struct] /\ kstack \in [Tasks -> Nat]
      /\ current \in Tasks /\ readyqueue \in Seq(Tasks) /\ NoRepeat(readyqueue)
      /\ global_PID \in FirstPID .. MaxPID
      /\ remaining_quantum \in 1 .. DEFAULT_QUANTUM
  BY DEF IInv, TypeOK, SlotPartition
<1>4. /\ global_PID' \in FirstPID .. MaxPID /\ global_PID' \in PIDs
      /\ global_PID' = global_PID + 1 /\ global_PID \in Nat
  BY <1>2, <1>3, SchedAssumption DEF PIDs, FirstPID
<1>5. /\ readyqueue' \in Seq(Tasks) /\ NoRepeat(readyqueue')
      /\ QueueSet(readyqueue') = QueueSet(readyqueue) \cup {u}
  BY <1>1, <1>2, <1>3, AppendQueue
<1>6. /\ task' \in [Tasks -> Task_struct]
      /\ \A t \in Tasks \ {u} : task'[t] = task[t]
      /\ task'[u].PID = global_PID'
      /\ task'[u].state = "ST_READY"
      /\ task'[u].dir = u
      /\ task'[u].register_esp = <<u, Depth["fork"]>>
      /\ task'[u].total_quantum = DEFAULT_QUANTUM
  <2> DEFINE r1 == [c[u] EXCEPT !.PID = global_PID']
             r2 == [r1 EXCEPT !.state = "ST_READY"]
             r3 == [r2 EXCEPT !.register_esp = child_esp(u)]
  <2>1. task' = [c EXCEPT ![u] = r3]
    BY <1>1, <1>2
  <2>2. c[u] \in Task_struct
    BY <1>1
  <2>3. /\ r1 \in Task_struct /\ r1.PID = global_PID' /\ r1.dir = u
        /\ r1.total_quantum = DEFAULT_QUANTUM
    <3> HIDE DEF r1
    <3>1. r1 = [c[u] EXCEPT !.PID = global_PID']
      BY DEF r1
    <3> QED BY <1>1, <1>4, <2>2, <3>1, SetPID
  <2> HIDE DEF r1
  <2>4. /\ r2 \in Task_struct /\ r2.PID = global_PID' /\ r2.dir = u
        /\ r2.total_quantum = DEFAULT_QUANTUM /\ r2.state = "ST_READY"
    <3> HIDE DEF r2
    <3>1. r2 = [r1 EXCEPT !.state = "ST_READY"]
      BY DEF r2
    <3> QED BY <2>3, <3>1, SetState
  <2> HIDE DEF r2
  <2>5. child_esp(u) = <<u, Depth["fork"]>> /\ child_esp(u) \in StackPointers
    BY <1>1, StackPlace DEF child_esp, Paths
  <2>6. /\ r3 \in Task_struct /\ r3.PID = global_PID' /\ r3.dir = u
        /\ r3.total_quantum = DEFAULT_QUANTUM /\ r3.state = "ST_READY"
        /\ r3.register_esp = <<u, Depth["fork"]>>
    <3> HIDE DEF r3
    <3>1. r3 = [r2 EXCEPT !.register_esp = child_esp(u)]
      BY DEF r3
    <3>2. r3.register_esp = child_esp(u)
      BY <2>4, <2>5, <3>1, SetEsp
    <3> QED BY <2>4, <2>5, <3>1, <3>2, SetEsp
  <2> HIDE DEF r3
  <2>7. task'[u] = r3 /\ \A t \in Tasks \ {u} : task'[t] = task[t]
    BY <1>1, <2>1
  <2>8. task' \in [Tasks -> Task_struct]
    BY <1>1, <2>1, <2>6
  <2> QED BY <2>6, <2>7, <2>8
<1>7. /\ kstack' \in [Tasks -> Nat] /\ kstack'[u] = Depth["fork"]
      /\ \A t \in Tasks \ {u} : kstack'[t] = kstack[t]
  BY <1>1, <1>2, <1>3 DEF Paths
<1>8. Alive' = Alive \cup {u} /\ Alive \subseteq Tasks /\ current' = current
  <2>1. QueueSet(readyqueue) \subseteq Tasks
    BY <1>3 DEF QueueSet
  <2> QED BY <1>2, <1>3, <1>5, <2>1 DEF Alive
<1>9. TypeOK'
  <2>1. cr3' \in Tasks \cup {NoDir} /\ esp0' \in Tasks /\ wild' \in BOOLEAN
    BY <1>2 DEF IInv, ContextOfCurrent, TypeOK
  <2>2. remaining_quantum' \in 1 .. DEFAULT_QUANTUM
    BY <1>2, <1>3
  <2>3. freequeue' \in Seq(Tasks) /\ current' \in Tasks
    BY <1>1, <1>2, <1>3
  <2> QED BY <1>4, <1>5, <1>6, <1>7, <2>1, <2>2, <2>3 DEF TypeOK
<1>10. SlotPartition'
  <2>1. QueueSet(freequeue') = QueueSet(freequeue) \ {u} /\ NoRepeat(freequeue')
    BY <1>1, <1>2
  <2> QED BY <1>1, <1>5, <1>8, <2>1 DEF IInv, SlotPartition
<1>11. IdleOnlyWhenAlone'
  BY <1>8 DEF SysFork, UserRuns, IdleOnlyWhenAlone
<1>12. StateMatchesPlace'
  <2>1. QueueSet(readyqueue) \subseteq Tasks
    BY <1>3 DEF QueueSet
  <2> QED BY <1>1, <1>3, <1>5, <1>6, <1>8, <2>1 DEF IInv, StateMatchesPlace
<1>13. DistinctPIDs'
  <2>1. ASSUME NEW t \in Alive PROVE task'[t].PID = task[t].PID
    BY <1>1, <1>6, <1>8
  <2>2. \A t \in Alive : task[t].PID \in 1 .. global_PID
    BY DEF IInv, DistinctPIDs
  <2>3. \A t \in Alive' : task'[t].PID \in 1 .. global_PID'
    BY <1>4, <1>6, <1>8, <2>1, <2>2
  <2>4. \A t \in Alive : task'[t].PID # task'[u].PID
    BY <1>4, <1>6, <2>1, <2>2
  <2>5. \A t, v \in Alive : task'[t].PID = task'[v].PID => t = v
    BY <2>1 DEF IInv, DistinctPIDs
  <2>6. \A t, v \in Alive' : task'[t].PID = task'[v].PID => t = v
    BY <1>8, <2>4, <2>5
  <2> QED BY <2>3, <2>6 DEF DistinctPIDs
<1>14. ContextOfCurrent'
  <2>1. \A t \in Alive' \cup {Idle} : task'[t].dir = t
    BY <1>1, <1>6, <1>8 DEF IInv, ContextOfCurrent
  <2> QED BY <1>1, <1>2, <1>3, <1>6, <2>1 DEF IInv, ContextOfCurrent
<1>15. ResumePointsToFrame'
  <2>1. \A t \in QueueSet(readyqueue) \cup {Idle} :
            t \in Tasks \ {u} /\ task[t].register_esp = <<t, kstack[t]>>
    <3>1. QueueSet(readyqueue) \subseteq Tasks
      BY <1>3 DEF QueueSet
    <3>2. current # Idle
      BY DEF SysFork, UserRuns
    <3> QED BY <1>1, <3>1, <3>2 DEF IInv, ResumePointsToFrame
  <2>2. \A t \in QueueSet(readyqueue') \cup {Idle} :
            task'[t].register_esp = <<t, kstack'[t]>>
    BY <1>5, <1>6, <1>7, <2>1
  <2> QED BY <2>2 DEF ResumePointsToFrame
<1>16. LiveQuantum'
  BY <1>1, <1>6, <1>8 DEF IInv, LiveQuantum
<1> QED BY <1>2, <1>9, <1>10, <1>11, <1>12, <1>13, <1>14, <1>15, <1>16 DEF IInv

\* sys_fork without frames: no process sees a difference.
LEMMA ForkNoFramesStep == ASSUME IInv, SysForkNoFrames PROVE IInv' /\ ~wild'
<1> USE Slots
<1> DEFINE u == Head(freequeue)
           c == copied(u)
<1>1. /\ u \in Tasks /\ u \notin Alive /\ u # Idle /\ u # current
      /\ u \in QueueSet(freequeue) /\ u \notin QueueSet(readyqueue)
      /\ Tail(freequeue) \in Seq(Tasks) /\ NoRepeat(Tail(freequeue))
      /\ QueueSet(Tail(freequeue)) = QueueSet(freequeue) \ {u}
      /\ c \in [Tasks -> Task_struct]
      /\ \A t \in Tasks \ {u} : c[t] = task[t]
  BY ForkCopy DEF SysForkNoFrames
<1>2. /\ freequeue' = Append(Tail(freequeue), u)
      /\ task' = c
      /\ kstack' = [kstack EXCEPT ![u] = kstack[current]]
      /\ UNCHANGED <<readyqueue, current, remaining_quantum, global_PID,
                     esp0, cr3, wild>>
      /\ ~wild /\ current # Idle
  BY DEF SysForkNoFrames, UserRuns
<1> HIDE DEF u, c
<1>3. /\ task \in [Tasks -> Task_struct] /\ kstack \in [Tasks -> Nat]
      /\ current \in Tasks /\ readyqueue \in Seq(Tasks)
      /\ QueueSet(readyqueue) \subseteq Tasks
  BY DEF IInv, TypeOK, QueueSet
<1>4. /\ freequeue' \in Seq(Tasks) /\ NoRepeat(freequeue')
      /\ QueueSet(freequeue') = QueueSet(freequeue)
  <2> DEFINE q == Tail(freequeue)
  <2>1. q \in Seq(Tasks) /\ NoRepeat(q) /\ u \notin QueueSet(q)
    BY <1>1
  <2> HIDE DEF q
  <2>2. /\ Append(q, u) \in Seq(Tasks) /\ NoRepeat(Append(q, u))
        /\ QueueSet(Append(q, u)) = QueueSet(q) \cup {u}
    BY <1>1, <2>1, AppendQueue
  <2> QED BY <1>1, <1>2, <2>2 DEF q
<1>5. /\ task' \in [Tasks -> Task_struct] /\ kstack' \in [Tasks -> Nat]
      /\ \A t \in Tasks \ {u} : task'[t] = task[t] /\ kstack'[t] = kstack[t]
  BY <1>1, <1>2, <1>3
<1>6. /\ Alive' = Alive /\ QueueSet(readyqueue') = QueueSet(readyqueue)
      /\ \A t \in Alive \cup {current, Idle} \cup QueueSet(readyqueue) :
            task'[t] = task[t] /\ kstack'[t] = kstack[t]
  <2>1. Alive' = Alive /\ QueueSet(readyqueue') = QueueSet(readyqueue)
    BY <1>2 DEF Alive
  <2>2. Alive \cup {current, Idle} \cup QueueSet(readyqueue) \subseteq Tasks \ {u}
    BY <1>1, <1>3 DEF Alive
  <2> QED BY <1>5, <2>1, <2>2
<1>7. TypeOK'
  BY <1>2, <1>4, <1>5 DEF IInv, TypeOK
<1>8. SlotPartition' /\ IdleOnlyWhenAlone'
  BY <1>2, <1>4, <1>6 DEF IInv, SlotPartition, IdleOnlyWhenAlone
<1>9. StateMatchesPlace' /\ ContextOfCurrent'
  BY <1>2, <1>6 DEF IInv, StateMatchesPlace, ContextOfCurrent
<1>10. DistinctPIDs' /\ LiveQuantum'
  BY <1>2, <1>6 DEF IInv, DistinctPIDs, LiveQuantum
<1>11. ResumePointsToFrame'
  BY <1>2, <1>6 DEF IInv, ResumePointsToFrame
<1> QED BY <1>2, <1>7, <1>8, <1>9, <1>10, <1>11 DEF IInv

\* sys_exit: the slot that is freed is the one whose stack is being left.
LEMMA ExitStep == ASSUME IInv, SysExit PROVE IInv' /\ ~wild'
<1> USE Slots
<1> DEFINE tk == [task EXCEPT ![current].PID = -1]
<1>1. /\ task \in [Tasks -> Task_struct] /\ current \in Tasks /\ current # Idle
      /\ readyqueue \in Seq(Tasks) /\ NoRepeat(readyqueue)
      /\ freequeue \in Seq(Tasks) /\ NoRepeat(freequeue)
      /\ global_PID \in FirstPID .. MaxPID
      /\ current \notin QueueSet(readyqueue) /\ Idle \notin QueueSet(readyqueue)
      /\ current \notin QueueSet(freequeue) /\ Idle \notin QueueSet(freequeue)
      /\ QueueSet(freequeue) \cap QueueSet(readyqueue) = {}
      /\ Tasks = QueueSet(freequeue) \cup QueueSet(readyqueue) \cup {current, Idle}
  BY DEF IInv, TypeOK, SlotPartition, SysExit, UserRuns
<1>2. /\ freequeue' = Append(freequeue, current) /\ global_PID' = global_PID
      /\ sched_next_rr(tk, readyqueue, "exit")
  BY DEF SysExit
<1>3. tk = [task EXCEPT ![current] = [task[current] EXCEPT !.PID = -1]]
  OBVIOUS
<1> HIDE DEF tk
<1>4. tk[current] = [task[current] EXCEPT !.PID = -1]
  BY <1>1, <1>3
<1>5. /\ tk[current] \in Task_struct /\ tk[current].dir = task[current].dir
      /\ tk[current].total_quantum = task[current].total_quantum
  <2>1. -1 \in PIDs /\ task[current] \in Task_struct
    BY <1>1 DEF PIDs
  <2> QED BY <1>4, <2>1, SetPID
<1>6. /\ tk \in [Tasks -> Task_struct]
      /\ \A t \in Tasks \ {current} : tk[t] = task[t]
  BY <1>1, <1>3, <1>4, <1>5
<1>7. "exit" \in Paths
  BY DEF Paths
<1>8. /\ task' \in [Tasks -> Task_struct]
      /\ kstack' \in [Tasks -> Nat]
      /\ remaining_quantum' = DEFAULT_QUANTUM
      /\ readyqueue' \in Seq(Tasks) /\ NoRepeat(readyqueue')
      /\ current' \in QueueSet(readyqueue) \cup {Idle}
      /\ QueueSet(readyqueue') = QueueSet(readyqueue) \ {current'}
      /\ \A t \in Tasks : task'[t].PID = tk[t].PID
      /\ IdleOnlyWhenAlone' /\ StateMatchesPlace' /\ ContextOfCurrent'
      /\ ResumePointsToFrame' /\ LiveQuantum'
      /\ wild' \in BOOLEAN
      /\ wild' => current' = current
  BY <1>1, <1>2, <1>5, <1>6, <1>7, Dispatch
<1>9. current' # current /\ current' \in Tasks
  BY <1>1, <1>8
<1>10. /\ freequeue' \in Seq(Tasks) /\ NoRepeat(freequeue')
       /\ QueueSet(freequeue') = QueueSet(freequeue) \cup {current}
  BY <1>1, <1>2, AppendQueue
<1>11. SlotPartition'
  BY <1>1, <1>8, <1>9, <1>10 DEF SlotPartition
<1>12. DistinctPIDs'
  <2>1. Alive' \subseteq QueueSet(readyqueue)
    BY <1>8 DEF Alive
  <2>2. QueueSet(readyqueue) \subseteq Alive /\ QueueSet(readyqueue) \subseteq Tasks \ {current}
    BY <1>1 DEF Alive
  <2>3. \A t \in Alive' : t \in Alive /\ task'[t].PID = task[t].PID
    BY <1>6, <1>8, <2>1, <2>2
  <2> QED BY <1>2, <2>3 DEF IInv, DistinctPIDs
<1>13. IInv'
  BY <1>1, <1>2, <1>8, <1>9, <1>10, <1>11, <1>12, DispatchIInv
<1> QED BY <1>8, <1>9, <1>13

-----------------------------------------------------------------------------
(* What a step does to the processes, for the modules that build on Sched. *)

\* The clock at the end of a quantum and sys_yield only pass the processor on.
LEMMA TurnSets ==
    ASSUME IInv, ClockPreempt \/ SysYield
    PROVE  /\ IInv' /\ current # Idle
           /\ current' \in QueueSet(readyqueue) \cup {current}
           /\ QueueSet(readyqueue') = (QueueSet(readyqueue) \cup {current}) \ {current'}
           /\ Alive' = Alive
           /\ \A t \in Tasks : task'[t].PID = task[t].PID
<1>0. current # Idle
  BY DEF IInv, IdleOnlyWhenAlone, ClockPreempt, SysYield, UserRuns
<1> DEFINE rq == Append(readyqueue, current)
<1>1. /\ readyqueue \in Seq(Tasks) /\ NoRepeat(readyqueue) /\ current \in Tasks
      /\ current \notin QueueSet(readyqueue) /\ Idle \notin QueueSet(readyqueue)
  BY DEF IInv, TypeOK, SlotPartition
<1>2. PICK path \in Paths :
         /\ sched_next_rr(readied(current), requeued(current), path)
         /\ UNCHANGED <<freequeue, global_PID>>
  BY DEF ClockPreempt, SysYield, Paths
<1>3. /\ IInv' /\ requeued(current) = rq /\ current' = Head(rq)
      /\ \A t \in Tasks : task'[t].PID = task[t].PID
  BY <1>0, <1>2, RotateStep
<1>4. /\ rq \in Seq(Tasks) /\ NoRepeat(rq) /\ rq # <<>>
      /\ QueueSet(rq) = QueueSet(readyqueue) \cup {current}
  <2>1. Len(Append(readyqueue, current)) = Len(readyqueue) + 1 /\ Len(readyqueue) \in Nat
    BY <1>1
  <2>2. rq # <<>>
    BY <2>1
  <2> QED BY <1>1, <2>2, AppendQueue
<1> HIDE DEF rq
<1>5. readyqueue' = Tail(rq)
  BY <1>2, <1>3, <1>4 DEF sched_next_rr
<1>6. /\ current' \in QueueSet(readyqueue) \cup {current}
      /\ QueueSet(readyqueue') = (QueueSet(readyqueue) \cup {current}) \ {current'}
  BY <1>3, <1>4, <1>5, TailQueue
<1>7. Alive' = Alive
  BY <1>0, <1>1, <1>6 DEF Alive
<1> QED BY <1>0, <1>3, <1>6, <1>7

\* sys_exit hands it to the first in the queue, or to idle.
LEMMA ExitSets ==
    ASSUME IInv, SysExit
    PROVE  /\ IInv' /\ current # Idle /\ current' # current
           /\ current' \in QueueSet(readyqueue) \cup {Idle}
           /\ QueueSet(readyqueue') = QueueSet(readyqueue) \ {current'}
           /\ Alive' = Alive \ {current} /\ Alive' \subseteq Tasks
           /\ \A t \in Tasks \ {current} : task'[t].PID = task[t].PID
<1>1. /\ readyqueue \in Seq(Tasks) /\ NoRepeat(readyqueue) /\ current \in Tasks
      /\ current \notin QueueSet(readyqueue) /\ Idle \notin QueueSet(readyqueue)
      /\ current # Idle /\ task \in [Tasks -> Task_struct]
  BY DEF IInv, TypeOK, SlotPartition, SysExit, UserRuns
<1>2. IInv'
  BY ExitStep
<1> DEFINE new == IF readyqueue # <<>> THEN Head(readyqueue) ELSE Idle
           tk == [[task EXCEPT ![current].PID = -1] EXCEPT ![new].state = "ST_RUN"]
<1>3. /\ readyqueue' = IF readyqueue # <<>> THEN Tail(readyqueue) ELSE readyqueue
      /\ current' = new
      /\ task' = [tk EXCEPT ![current].register_esp = <<current, Depth["exit"]>>]
  BY DEF SysExit, sched_next_rr, task_switch
<1>4. /\ current' \in QueueSet(readyqueue) \cup {Idle}
      /\ QueueSet(readyqueue') = QueueSet(readyqueue) \ {current'}
  <2>1. CASE readyqueue # <<>>
    BY <1>1, <1>3, <2>1, TailQueue
  <2>2. CASE readyqueue = <<>>
    BY <1>3, <2>2, EmptyQueue
  <2> QED BY <2>1, <2>2
<1>5. current' # current /\ Alive' = Alive \ {current}
  BY <1>1, <1>4 DEF Alive
<1>6. \A t \in Tasks \ {current} : task'[t].PID = task[t].PID
  <2>1. /\ \A t \in Tasks \ {current} : tk[t].PID = task[t].PID
        /\ \A t \in Tasks \ {current} : task'[t] = tk[t]
    BY <1>1, <1>3 DEF Task_struct
  <2> QED BY <2>1
<1>7. Alive \subseteq Tasks
  BY <1>1, QueueTasks DEF Alive
<1> QED BY <1>1, <1>2, <1>4, <1>5, <1>6, <1>7

\* sys_fork adds the slot at the head of the free queue.
LEMMA ForkSets ==
    ASSUME IInv, SysFork
    PROVE  LET u == Head(freequeue) IN
           /\ IInv' /\ current # Idle /\ current' = current
           /\ u \in Tasks /\ u \notin Alive /\ u # Idle
           /\ QueueSet(readyqueue') = QueueSet(readyqueue) \cup {u}
           /\ Alive' = Alive \cup {u}
           /\ task'[u].PID = global_PID + 1 /\ global_PID' = global_PID + 1
           /\ \A t \in Tasks \ {u} : task'[t].PID = task[t].PID
<1> DEFINE u == Head(freequeue)
           c == copied(u)
<1>1. /\ u \in Tasks /\ u \notin Alive /\ u # Idle /\ u # current
      /\ u \notin QueueSet(readyqueue)
      /\ c \in [Tasks -> Task_struct]
      /\ \A t \in Tasks \ {u} : c[t] = task[t]
  BY ForkCopy DEF SysFork
<1>2. /\ readyqueue \in Seq(Tasks) /\ current \in Tasks /\ current # Idle
  BY DEF IInv, TypeOK, SysFork, UserRuns
<1>3. /\ global_PID' = global_PID + 1 /\ current' = current
      /\ task' = [c EXCEPT ![u].PID = global_PID + 1, ![u].state = "ST_READY",
                           ![u].register_esp = child_esp(u)]
      /\ readyqueue' = Append(readyqueue, u)
  BY DEF SysFork, child_queued
<1> HIDE DEF u, c
<1>4. QueueSet(readyqueue') = QueueSet(readyqueue) \cup {u}
  BY <1>1, <1>2, <1>3, AppendQueue
<1>5. /\ task'[u].PID = global_PID + 1
      /\ \A t \in Tasks \ {u} : task'[t].PID = task[t].PID
  BY <1>1, <1>3 DEF Task_struct
<1>6. Alive' = Alive \cup {u}
  BY <1>2, <1>3, <1>4 DEF Alive
<1>7. IInv'
  BY ForkStep
<1> QED BY <1>1, <1>2, <1>3, <1>4, <1>5, <1>6, <1>7 DEF u

\* A fork that fails changes no process.
LEMMA ForkFailsSets ==
    ASSUME IInv, SysForkNoFrames
    PROVE  LET u == Head(freequeue) IN
           /\ IInv' /\ current # Idle /\ current' = current
           /\ u \in Tasks /\ u \notin Alive /\ u # Idle
           /\ readyqueue' = readyqueue /\ Alive' = Alive
           /\ global_PID' = global_PID
           /\ \A t \in Tasks \ {u} : task'[t] = task[t]
<1>1. LET u == Head(freequeue) IN
      /\ u \in Tasks /\ u \notin Alive /\ u # Idle /\ u # current
      /\ \A t \in Tasks \ {u} : copied(u)[t] = task[t]
  BY ForkCopy DEF SysForkNoFrames
<1>2. IInv'
  BY ForkNoFramesStep
<1> QED BY <1>1, <1>2 DEF SysForkNoFrames, UserRuns, Alive

-----------------------------------------------------------------------------
(* The theorems.                                                           *)

\* A page directory, once a slot's own, stays its own: a task switch changes
\* no directory,
LEMMA DispatchDirs ==
    ASSUME NEW tk \in [Tasks -> Task_struct], NEW rq, NEW path, current \in Tasks,
           sched_next_rr(tk, rq, path), NEW t \in Tasks
    PROVE  task'[t].dir = tk[t].dir
<1> DEFINE new == IF rq # <<>> THEN Head(rq) ELSE Idle
           mid == [tk EXCEPT ![new].state = "ST_RUN"]
<1>1. task' = [mid EXCEPT ![current].register_esp = <<current, Depth[path]>>]
  BY DEF sched_next_rr, task_switch
<1>2. mid[t].dir = tk[t].dir
  BY DEF Task_struct
<1>3. task'[t] = IF t = current THEN [mid[t] EXCEPT !.register_esp = <<current, Depth[path]>>]
                 ELSE mid[t]
  BY <1>1
<1>4. mid[t] = IF t = new THEN [tk[t] EXCEPT !.state = "ST_RUN"] ELSE tk[t]
  OBVIOUS
<1> HIDE DEF mid, new
<1> QED  BY <1>2, <1>3

\* and sys_fork gives the slot it takes its own.
LEMMA NextDirs ==
    ASSUME IInv, [Next]_vars, NEW t \in Tasks
    PROVE  task'[t].dir \in {task[t].dir, t}
<1>0. task \in [Tasks -> Task_struct] /\ current \in Tasks
  BY DEF IInv, TypeOK
<1>1. ASSUME NEW path, sched_next_rr(readied(current), requeued(current), path)
      PROVE  task'[t].dir = task[t].dir
  <2> DEFINE tk == readied(current)
  <2>1. tk \in [Tasks -> Task_struct] /\ tk[t].dir = task[t].dir
    BY <1>0 DEF readied, Task_struct
  <2> QED  BY <1>0, <1>1, <2>1, DispatchDirs
<1>2. CASE SysExit
  <2> DEFINE tk == [task EXCEPT ![current].PID = -1]
  <2>1. -1 \in PIDs
    BY DEF PIDs
  <2>2. tk \in [Tasks -> Task_struct] /\ tk[t].dir = task[t].dir
    BY <1>0, <2>1 DEF Task_struct
  <2>3. sched_next_rr(tk, readyqueue, "exit")
    BY <1>2 DEF SysExit
  <2> QED  BY <1>0, <2>2, <2>3, DispatchDirs
<1>3. CASE SysFork \/ SysForkNoFrames
  <2> DEFINE u == Head(freequeue)
             c == copied(u)
  <2>1. /\ u \in Tasks /\ c \in [Tasks -> Task_struct] /\ c[u].dir = u
        /\ \A s \in Tasks \ {u} : c[s] = task[s]
    BY <1>3, ForkCopy DEF SysFork, SysForkNoFrames
  <2>2. CASE SysFork
    <3>1. task' = [c EXCEPT ![u] = [c[u] EXCEPT !.PID = global_PID + 1,
                                        !.state = "ST_READY",
                                        !.register_esp = child_esp(u)]]
      BY <2>2, <2>1 DEF SysFork
    <3> HIDE DEF c, u
    <3>2. [c[u] EXCEPT !.PID = global_PID + 1, !.state = "ST_READY",
                       !.register_esp = child_esp(u)].dir = c[u].dir
      BY <2>1 DEF Task_struct
    <3> QED  BY <2>1, <3>1, <3>2
  <2>3. CASE SysForkNoFrames
    BY <2>1, <2>3 DEF SysForkNoFrames
  <2> QED  BY <1>3, <2>2, <2>3
<1>4. CASE ClockContinue \/ UNCHANGED vars
  BY <1>4 DEF ClockContinue, vars
<1>5. CASE ClockPreempt \/ SysYield
  BY <1>1, <1>5 DEF ClockPreempt, SysYield
<1> QED  BY <1>2, <1>3, <1>4, <1>5 DEF Next, ClockInterrupt

\* Every step of the specification preserves the invariant.
LEMMA NextIInv == IInv /\ [Next]_vars => IInv'
<1> SUFFICES ASSUME IInv, [Next]_vars PROVE IInv'
  OBVIOUS
<1>1. CASE ClockPreempt
  BY <1>1, ClockPreemptStep
<1>2. CASE ClockContinue
  BY <1>2, ClockContinueStep
<1>3. CASE SysYield
  BY <1>3, YieldStep
<1>4. CASE SysFork
  BY <1>4, ForkStep
<1>5. CASE SysForkNoFrames
  BY <1>5, ForkNoFramesStep
<1>6. CASE SysExit
  BY <1>6, ExitStep
<1>7. CASE UNCHANGED vars
  BY <1>7
  DEF vars, IInv, TypeOK, SlotPartition, IdleOnlyWhenAlone, StateMatchesPlace,
      DistinctPIDs, ContextOfCurrent, ResumePointsToFrame, LiveQuantum, Alive
<1> QED BY <1>1, <1>2, <1>3, <1>4, <1>5, <1>6, <1>7 DEF Next, ClockInterrupt

\* The inductive invariant holds throughout (fork, exit, yield, the clock).
THEOREM Invariant == Spec => []IInv
<1>1. Init => IInv
  BY InitIInv
<1>2. IInv /\ [Next]_vars => IInv'
  BY NextIInv
<1> QED BY <1>1, <1>2, PTL DEF Spec

\* Every variable of the scheduler keeps its type; in particular the quantum
\* counter of needs_sched_rr never runs below one.
THEOREM TypeCorrect == Spec => []TypeOK
<1>1. IInv => TypeOK
  BY DEF IInv
<1> QED BY <1>1, Invariant, PTL

\* No slot of the task array is lost or owned twice by the queues, for any
\* number of slots.
THEOREM SlotsPartitioned == Spec => []SlotPartition
<1>1. IInv => SlotPartition
  BY DEF IInv
<1> QED BY <1>1, Invariant, PTL

\* sched_next_rr gives the processor to idle only when no process is left.
THEOREM IdleWhenAlone == Spec => []IdleOnlyWhenAlone
<1>1. IInv => IdleOnlyWhenAlone
  BY DEF IInv
<1> QED BY <1>1, Invariant, PTL

\* update_process_state_rr always finds the state field telling where the
\* task is: no task in no list is ever unlinked.
THEOREM StateTellsPlace == Spec => []StateMatchesPlace
<1>1. IInv => StateMatchesPlace
  BY DEF IInv
<1> QED BY <1>1, Invariant, PTL

\* Two processes never have the same PID.
THEOREM PIDsDistinct == Spec => []DistinctPIDs
<1>1. IInv => DistinctPIDs
  BY DEF IInv
<1> QED BY <1>1, Invariant, PTL

\* Kernel stack and page directory of the processor are the running task's.
THEOREM ContextIsCurrent == Spec => []ContextOfCurrent
<1>1. IInv => ContextOfCurrent
  BY DEF IInv
<1> QED BY <1>1, Invariant, PTL

\* A waiting task's saved stack pointer is on the frame in its own stack.
THEOREM ResumeOnOwnFrame == Spec => []ResumePointsToFrame
<1>1. IInv => ResumePointsToFrame
  BY DEF IInv
<1> QED BY <1>1, Invariant, PTL

\* sys_yield with nobody else ready is the only way to resume on no frame,
\* whatever the depths a build gives to the switch paths.
THEOREM OnlyLoneYieldGoesWild == Spec => LoneYieldOnly
<1>1. IInv /\ [Next]_vars => [wild' => SysYield /\ readyqueue = <<>>]_vars
  <2> SUFFICES ASSUME IInv, Next, wild' PROVE SysYield /\ readyqueue = <<>>
    OBVIOUS
  <2>1. CASE ClockPreempt
    BY <2>1, ClockPreemptStep
  <2>2. CASE ClockContinue
    BY <2>2, ClockContinueStep
  <2>3. CASE SysYield
    BY <2>3, YieldStep
  <2>4. CASE SysFork
    BY <2>4, ForkStep
  <2>5. CASE SysForkNoFrames
    BY <2>5, ForkNoFramesStep
  <2>6. CASE SysExit
    BY <2>6, ExitStep
  <2> QED BY <2>1, <2>2, <2>3, <2>4, <2>5, <2>6 DEF Next, ClockInterrupt
<1> QED BY <1>1, Invariant, PTL DEF Spec, LoneYieldOnly

-----------------------------------------------------------------------------
(* The order in which the processes get the processor: no overtaking, full *)
(* turns, and the refinement of RoundRobin.                                *)

(* What a step does to the turns, one shape for each kind of step.         *)

SamePIDs(S) == \A t \in S : task'[t].PID = task[t].PID

\* The queue and the running task stay.
Stays ==
    /\ UNCHANGED <<current, readyqueue, global_PID>>
    /\ SamePIDs(Alive)

\* The running task goes to the end of the queue and the first one runs.
Rotates ==
    /\ current # Idle
    /\ current' = Head(Append(readyqueue, current))
    /\ readyqueue' = Tail(Append(readyqueue, current))
    /\ remaining_quantum' = DEFAULT_QUANTUM
    /\ SamePIDs(Tasks) /\ UNCHANGED global_PID

\* A new process joins the end of the queue.
Joins ==
    /\ current # Idle /\ current' = current
    /\ global_PID' = global_PID + 1
    /\ \E u \in Tasks : /\ readyqueue' = Append(readyqueue, u)
                        /\ task'[u].PID = global_PID'
    /\ SamePIDs(Alive)

\* The running task leaves and the first of the queue, or idle, runs.
Exits ==
    /\ current # Idle
    /\ IF readyqueue = <<>>
       THEN current' = Idle /\ readyqueue' = <<>>
       ELSE current' = Head(readyqueue) /\ readyqueue' = Tail(readyqueue)
    /\ remaining_quantum' = DEFAULT_QUANTUM
    /\ SamePIDs(QueueSet(readyqueue)) /\ UNCHANGED global_PID

LEMMA AppendNonempty ==
    ASSUME NEW S, NEW q \in Seq(S), NEW e \in S PROVE Append(q, e) # <<>>
<1>1. Len(Append(q, e)) = Len(q) + 1 /\ Len(q) \in Nat /\ Len(<<>>) = 0
  OBVIOUS
<1>2. Len(Append(q, e)) # 0
  BY <1>1
<1> QED BY <1>1, <1>2

LEMMA RotatesShape ==
    ASSUME IInv, current # Idle, NEW path \in Paths,
           sched_next_rr(readied(current), requeued(current), path),
           UNCHANGED <<freequeue, global_PID>>
    PROVE  Rotates
<1>1. /\ IInv' /\ requeued(current) = Append(readyqueue, current)
      /\ current' = Head(Append(readyqueue, current))
      /\ SamePIDs(Tasks)
  BY RotateStep DEF SamePIDs
<1>2. readyqueue \in Seq(Tasks) /\ current \in Tasks
  BY DEF IInv, TypeOK
<1>3. Append(readyqueue, current) # <<>>
  BY <1>2, AppendNonempty
<1>4. readyqueue' = Tail(Append(readyqueue, current))
  BY <1>1, <1>3 DEF sched_next_rr
<1>5. remaining_quantum' = DEFAULT_QUANTUM
  <2> DEFINE rq == Append(readyqueue, current)
  <2>1. Head(rq) \in Alive
    <3>1. /\ QueueSet(rq) = QueueSet(readyqueue) \cup {current}
          /\ rq \in Seq(Tasks) /\ NoRepeat(rq)
      BY <1>2, AppendQueue DEF IInv, SlotPartition
    <3>2. Head(rq) \in QueueSet(rq)
      BY <1>3, <3>1, TailQueue
    <3> QED BY <3>1, <3>2 DEF Alive
  <2>2. remaining_quantum' = readied(current)[Head(rq)].total_quantum
    BY <1>1, <1>3 DEF sched_next_rr
  <2>3. task \in [Tasks -> Task_struct]
    BY DEF IInv, TypeOK
  <2>4. readied(current)[Head(rq)].total_quantum = task[Head(rq)].total_quantum
    BY <1>2, <2>3 DEF readied
  <2> QED BY <2>1, <2>2, <2>4 DEF IInv, LiveQuantum
<1> QED BY <1>1, <1>4, <1>5 DEF Rotates

LEMMA JoinsShape == ASSUME IInv, SysFork PROVE Joins
<1> DEFINE u == Head(freequeue)
           c == copied(u)
<1>1. /\ u \in Tasks /\ u \notin Alive
      /\ c \in [Tasks -> Task_struct]
      /\ \A t \in Tasks \ {u} : c[t] = task[t]
  BY ForkCopy DEF SysFork
<1>2. /\ global_PID' = global_PID + 1
      /\ task' = [c EXCEPT ![u].PID = global_PID + 1, ![u].state = "ST_READY",
                          ![u].register_esp = child_esp(u)]
      /\ readyqueue' = Append(readyqueue, u)
      /\ current' = current /\ current # Idle
  BY DEF SysFork, UserRuns, child_queued
<1> HIDE DEF u, c
<1>3. /\ task'[u].PID = global_PID + 1
      /\ \A t \in Tasks \ {u} : task'[t] = task[t]
  <2> DEFINE r1 == [c[u] EXCEPT !.PID = global_PID + 1]
             r2 == [r1 EXCEPT !.state = "ST_READY"]
             r3 == [r2 EXCEPT !.register_esp = child_esp(u)]
  <2>1. task' = [c EXCEPT ![u] = r3]
    BY <1>1, <1>2
  <2>2. task'[u] = r3 /\ \A t \in Tasks \ {u} : task'[t] = task[t]
    BY <1>1, <2>1
  <2>3. c[u] \in Task_struct
    BY <1>1
  <2>4. r3.PID = global_PID + 1
    BY <2>3 DEF Task_struct
  <2> QED BY <2>2, <2>4
<1>4. Alive \subseteq Tasks
  BY DEF IInv, TypeOK, Alive, QueueSet
<1>5. SamePIDs(Alive)
  BY <1>1, <1>3, <1>4 DEF SamePIDs
<1> QED BY <1>1, <1>2, <1>3, <1>5 DEF Joins

LEMMA ExitsShape == ASSUME IInv, SysExit PROVE Exits
<1> DEFINE tk == [task EXCEPT ![current].PID = -1]
           new == IF readyqueue # <<>> THEN Head(readyqueue) ELSE Idle
<1>1. /\ task \in [Tasks -> Task_struct] /\ current \in Tasks /\ current # Idle
      /\ readyqueue \in Seq(Tasks) /\ NoRepeat(readyqueue)
      /\ current \notin QueueSet(readyqueue)
      /\ QueueSet(readyqueue) \subseteq Tasks
      /\ Idle \notin QueueSet(readyqueue) /\ Idle \in Tasks
  BY Slots DEF IInv, TypeOK, SlotPartition, SysExit, UserRuns, QueueSet
<1>2. /\ UNCHANGED global_PID
      /\ sched_next_rr(tk, readyqueue, "exit")
  BY DEF SysExit
<1>3. /\ current' = new
      /\ readyqueue' = IF readyqueue # <<>> THEN Tail(readyqueue) ELSE readyqueue
      /\ remaining_quantum' = tk[new].total_quantum
      /\ task' = [[tk EXCEPT ![new].state = "ST_RUN"]
                    EXCEPT ![current].register_esp = <<current, Depth["exit"]>>]
  BY <1>2 DEF sched_next_rr, task_switch
<1>4. new \in QueueSet(readyqueue) \cup {Idle} /\ new # current /\ new \in Tasks
  <2>1. CASE readyqueue = <<>>
    BY <1>1, <2>1
  <2>2. CASE readyqueue # <<>>
    BY <1>1, <2>2, TailQueue
  <2> QED BY <2>1, <2>2
<1>5. remaining_quantum' = DEFAULT_QUANTUM
  <2>1. tk[new] = task[new]
    BY <1>1, <1>4
  <2>2. new \in Alive \cup {Idle}
    BY <1>4 DEF Alive
  <2> QED BY <1>3, <2>1, <2>2 DEF IInv, LiveQuantum
<1>6. SamePIDs(QueueSet(readyqueue))
  <2> SUFFICES ASSUME NEW t \in QueueSet(readyqueue)
      PROVE  task'[t].PID = task[t].PID
    BY DEF SamePIDs
  <2> HIDE DEF new
  <2> DEFINE tk2 == [tk EXCEPT ![new].state = "ST_RUN"]
  <2>1. tk[t] = task[t] /\ t # current /\ t \in Tasks /\ task[t] \in Task_struct
    BY <1>1
  <2>2. tk2[t] = IF t = new THEN [tk[t] EXCEPT !.state = "ST_RUN"] ELSE tk[t]
    BY <1>1, <1>4, <2>1
  <2>3. tk2[t].PID = task[t].PID
    BY <2>1, <2>2 DEF Task_struct
  <2>4. task'[t] = tk2[t]
    BY <1>1, <1>3, <2>1
  <2> QED BY <2>3, <2>4
<1> QED BY <1>1, <1>2, <1>3, <1>5, <1>6 DEF Exits

\* Every step has one of the shapes, by its action.
LEMMA Shapes ==
    ASSUME IInv, [Next]_vars
    PROVE  /\ Stays \/ Rotates \/ Joins \/ Exits
           /\ ClockInterrupt => Stays \/ (Rotates /\ remaining_quantum = 1)
<1>1. CASE ClockPreempt
  <2>1. current # Idle
    BY <1>1 DEF IInv, IdleOnlyWhenAlone, ClockPreempt
  <2>2. Rotates
    BY <1>1, <2>1, RotatesShape DEF ClockPreempt, Paths
  <2>3. remaining_quantum = 1
    BY <1>1 DEF ClockPreempt, Tick, IInv, TypeOK
  <2>4. ~ClockContinue
    BY <1>1 DEF ClockPreempt, ClockContinue
  <2> QED BY <1>1, <2>2, <2>3
<1>2. CASE ClockContinue
  BY <1>2 DEF ClockContinue, Stays, SamePIDs
<1>3. CASE ClockInterrupt
  BY <1>1, <1>2, <1>3 DEF ClockInterrupt
<1>4. CASE SysYield
  <2>1. Rotates
    BY <1>4, RotatesShape DEF SysYield, UserRuns, Paths
  <2> QED BY <1>3, <2>1
<1>5. CASE SysFork
  BY <1>3, <1>5, JoinsShape
<1>6. CASE SysForkNoFrames
  <2>1. Stays
    <3> DEFINE u == Head(freequeue)
    <3>1. /\ u \in Tasks /\ u \notin Alive
          /\ \A t \in Tasks \ {u} : copied(u)[t] = task[t]
      BY <1>6, ForkCopy DEF SysForkNoFrames
    <3>2. task' = copied(u) /\ UNCHANGED <<readyqueue, current, global_PID>>
      BY <1>6 DEF SysForkNoFrames
    <3>3. Alive \subseteq Tasks
      BY DEF IInv, TypeOK, Alive, QueueSet
    <3> QED BY <3>1, <3>2, <3>3 DEF Stays, SamePIDs
  <2> QED BY <1>3, <2>1
<1>7. CASE SysExit
  BY <1>3, <1>7, ExitsShape
<1>8. CASE UNCHANGED vars
  BY <1>3, <1>8 DEF vars, Stays, SamePIDs
<1> QED BY <1>3, <1>4, <1>5, <1>6, <1>7, <1>8 DEF Next

-----------------------------------------------------------------------------
\* A process that loses the processor to the clock has used its quantum up,
\* and whoever gets the processor starts with a full one.
THEOREM FullTurns == Spec => FullTurn
<1> DEFINE A == current' # current =>
                   /\ ClockInterrupt => remaining_quantum = 1
                   /\ remaining_quantum' = DEFAULT_QUANTUM
<1>1. IInv /\ [Next]_vars => [A]_vars
  <2> SUFFICES ASSUME IInv, [Next]_vars PROVE A
    OBVIOUS
  <2> QED BY Shapes DEF Stays, Rotates, Joins, Exits
<1>2. Spec => [][A]_vars
  BY <1>1, Invariant, PTL DEF Spec
<1> QED BY <1>2 DEF FullTurn, A

-----------------------------------------------------------------------------
(* Queues, element by element.                                             *)

LEMMA SameSeq ==
    ASSUME NEW S, NEW s \in Seq(S), NEW t \in Seq(S), Len(s) = Len(t),
           \A n \in 1 .. Len(s) : s[n] = t[n]
    PROVE  s = t
OBVIOUS

LEMMA AppendElements ==
    ASSUME NEW S, NEW q \in Seq(S), NEW e \in S
    PROVE  /\ Append(q, e) \in Seq(S) /\ Len(q) \in Nat
           /\ Len(Append(q, e)) = Len(q) + 1
           /\ DOMAIN q = 1 .. Len(q)
           /\ \A n \in 1 .. Len(q) : Append(q, e)[n] = q[n]
           /\ Append(q, e)[Len(q) + 1] = e
OBVIOUS

LEMMA TailElements ==
    ASSUME NEW S, NEW q \in Seq(S), q # <<>>
    PROVE  /\ Tail(q) \in Seq(S) /\ Len(q) \in Nat /\ Len(q) >= 1
           /\ Len(Tail(q)) = Len(q) - 1
           /\ DOMAIN Tail(q) = 1 .. Len(q) - 1
           /\ \A n \in 1 .. Len(q) - 1 : Tail(q)[n] = q[n + 1]
           /\ Head(q) = q[1] /\ q[1] \in S
OBVIOUS

\* A queue after Append and Tail: everyone is one place further on.
LEMMA RotatedElements ==
    ASSUME NEW S, NEW q \in Seq(S), NEW e \in S
    PROVE  LET r == Tail(Append(q, e)) IN
           /\ r \in Seq(S) /\ Len(r) = Len(q) /\ Len(q) \in Nat
           /\ DOMAIN r = 1 .. Len(q)
           /\ \A n \in 1 .. Len(q) : r[n] = Append(q, e)[n + 1]
           /\ Head(Append(q, e)) = Append(q, e)[1]
<1> DEFINE a == Append(q, e)
<1>1. a \in Seq(S) /\ Len(q) \in Nat /\ Len(a) = Len(q) + 1 /\ a # <<>>
  BY AppendElements, AppendNonempty
<1> HIDE DEF a
<1>2. /\ Tail(a) \in Seq(S) /\ Len(Tail(a)) = Len(a) - 1
      /\ DOMAIN Tail(a) = 1 .. Len(a) - 1
      /\ \A n \in 1 .. Len(a) - 1 : Tail(a)[n] = a[n + 1]
      /\ Head(a) = a[1]
  BY <1>1, TailElements
<1>3. Len(a) - 1 = Len(q)
  BY <1>1
<1> QED BY <1>1, <1>2, <1>3 DEF a

-----------------------------------------------------------------------------
\* Of two processes in the ready queue, the first stays before the second
\* until it gets the processor.
THEOREM NobodyOvertakes == Spec => NoOvertaking
<1> DEFINE Goes(i, j) ==
             \/ \E k, l \in DOMAIN readyqueue' :
                   /\ k < l
                   /\ readyqueue'[k] = readyqueue[i]
                   /\ readyqueue'[l] = readyqueue[j]
             \/ i = 1 /\ current' = readyqueue[i]
           A == \A i, j \in DOMAIN readyqueue : i < j => Goes(i, j)
<1>1. IInv /\ [Next]_vars => [A]_vars
  <2> SUFFICES ASSUME IInv, [Next]_vars,
                      NEW i \in DOMAIN readyqueue, NEW j \in DOMAIN readyqueue, i < j
      PROVE  Goes(i, j)
    OBVIOUS
  <2>1. /\ readyqueue \in Seq(Tasks) /\ current \in Tasks
        /\ Len(readyqueue) \in Nat
        /\ i \in 1 .. Len(readyqueue) /\ j \in 1 .. Len(readyqueue)
    BY DEF IInv, TypeOK
  <2>2. CASE Stays
    BY <2>2 DEF Stays
  <2>3. CASE Joins
    <3>1. PICK u \in Tasks : readyqueue' = Append(readyqueue, u)
      BY <2>3 DEF Joins
    <3>2. /\ readyqueue' \in Seq(Tasks) /\ Len(readyqueue') = Len(readyqueue) + 1
          /\ \A n \in 1 .. Len(readyqueue) : readyqueue'[n] = readyqueue[n]
      BY <2>1, <3>1, AppendElements
    <3>3. DOMAIN readyqueue' = 1 .. Len(readyqueue) + 1
      BY <3>2
    <3>4. i \in DOMAIN readyqueue' /\ j \in DOMAIN readyqueue'
      BY <2>1, <3>3
    <3> QED BY <2>1, <3>2, <3>4
  <2>4. CASE Rotates
    <3>1. /\ DOMAIN readyqueue' = 1 .. Len(readyqueue)
          /\ \A n \in 1 .. Len(readyqueue) :
                readyqueue'[n] = Append(readyqueue, current)[n + 1]
          /\ current' = Append(readyqueue, current)[1]
      BY <2>1, <2>4, RotatedElements DEF Rotates
    <3>2. \A n \in 1 .. Len(readyqueue) : Append(readyqueue, current)[n] = readyqueue[n]
      BY <2>1, AppendElements
    <3>3. CASE i = 1
      BY <2>1, <3>1, <3>2, <3>3
    <3>4. CASE i # 1
      <4>1. /\ i - 1 \in 1 .. Len(readyqueue) /\ j - 1 \in 1 .. Len(readyqueue)
            /\ i - 1 < j - 1 /\ i - 1 + 1 = i /\ j - 1 + 1 = j
        BY <2>1, <3>4
      <4>2. readyqueue'[i - 1] = readyqueue[i] /\ readyqueue'[j - 1] = readyqueue[j]
        BY <2>1, <3>1, <3>2, <4>1
      <4> QED BY <3>1, <4>1, <4>2
    <3> QED BY <3>3, <3>4
  <2>5. CASE Exits
    <3>1. readyqueue # <<>>
      BY <2>1
    <3>2. current' = Head(readyqueue) /\ readyqueue' = Tail(readyqueue)
      BY <2>5, <3>1 DEF Exits
    <3>3. /\ DOMAIN readyqueue' = 1 .. Len(readyqueue) - 1
          /\ \A n \in 1 .. Len(readyqueue) - 1 : readyqueue'[n] = readyqueue[n + 1]
          /\ current' = readyqueue[1]
      BY <2>1, <3>1, <3>2, TailElements
    <3>4. CASE i = 1
      BY <3>3, <3>4
    <3>5. CASE i # 1
      <4>1. /\ i - 1 \in 1 .. Len(readyqueue) - 1 /\ j - 1 \in 1 .. Len(readyqueue) - 1
            /\ i - 1 < j - 1 /\ i - 1 + 1 = i /\ j - 1 + 1 = j
        BY <2>1, <3>5
      <4>2. readyqueue'[i - 1] = readyqueue[i] /\ readyqueue'[j - 1] = readyqueue[j]
        BY <3>3, <4>1
      <4> QED BY <3>3, <4>1, <4>2
    <3> QED BY <3>4, <3>5
  <2> QED BY <2>2, <2>3, <2>4, <2>5, Shapes
<1>2. Spec => [][A]_vars
  BY <1>1, Invariant, PTL DEF Spec
<1> QED BY <1>2 DEF NoOvertaking, A, Goes

-----------------------------------------------------------------------------
(* The ring of RoundRobin.                                                 *)

\* PIDs of the task c and of the queue q behind it, in task array tk.
RingOf(tk, c, q) ==
    IF c = Idle THEN <<>>
    ELSE [i \in 1 .. Len(q) + 1 |-> IF i = 1 THEN tk[c].PID ELSE tk[q[i - 1]].PID]

turns == RingOf(task, current, readyqueue)

LEMMA RingElements ==
    ASSUME NEW tk, NEW c, NEW q \in Seq(Tasks), c # Idle, tk[c].PID \in PIDs,
           \A t \in QueueSet(q) : tk[t].PID \in PIDs
    PROVE  /\ RingOf(tk, c, q) \in Seq(PIDs) /\ RingOf(tk, c, q) # <<>>
           /\ Len(q) \in Nat /\ Len(RingOf(tk, c, q)) = Len(q) + 1
           /\ RingOf(tk, c, q)[1] = tk[c].PID
           /\ \A n \in 1 .. Len(q) : RingOf(tk, c, q)[n + 1] = tk[q[n]].PID
<1> DEFINE r == [i \in 1 .. Len(q) + 1 |-> IF i = 1 THEN tk[c].PID ELSE tk[q[i - 1]].PID]
<1>1. RingOf(tk, c, q) = r
  BY DEF RingOf
<1>2. Len(q) \in Nat /\ DOMAIN q = 1 .. Len(q)
  OBVIOUS
<1>3. \A n \in 1 .. Len(q) : q[n] \in QueueSet(q)
  BY <1>2 DEF QueueSet
<1>4. ASSUME NEW i \in 1 .. Len(q) + 1 PROVE r[i] \in PIDs
  <2>1. CASE i = 1
    BY <2>1
  <2>2. CASE i # 1
    <3>1. i - 1 \in 1 .. Len(q)
      BY <1>2, <2>2
    <3>2. r[i] = tk[q[i - 1]].PID
      BY <2>2
    <3> QED BY <1>3, <3>1, <3>2
  <2> QED BY <2>1, <2>2
<1>5. r[1] = tk[c].PID
  BY <1>2
<1>6. ASSUME NEW n \in 1 .. Len(q) PROVE r[n + 1] = tk[q[n]].PID
  <2>1. n + 1 \in 1 .. Len(q) + 1 /\ n + 1 # 1 /\ n + 1 - 1 = n
    BY <1>2
  <2> QED BY <2>1
<1>7. r \in [1 .. Len(q) + 1 -> PIDs]
  BY <1>4
<1> HIDE DEF r
<1>8. r \in Seq(PIDs) /\ Len(r) = Len(q) + 1
  BY <1>2, <1>7
<1>9. r # <<>>
  BY <1>2, <1>8
<1> QED BY <1>1, <1>2, <1>5, <1>6, <1>8, <1>9

\* The ring of a state, and of its successor when somebody runs there.
LEMMA Turns ==
    ASSUME IInv, current # Idle
    PROVE  /\ turns \in Seq(PIDs) /\ turns # <<>>
           /\ readyqueue \in Seq(Tasks) /\ current \in Tasks
           /\ Len(readyqueue) \in Nat /\ Len(turns) = Len(readyqueue) + 1
           /\ DOMAIN readyqueue = 1 .. Len(readyqueue)
           /\ turns[1] = task[current].PID
           /\ \A n \in 1 .. Len(readyqueue) : turns[n + 1] = task[readyqueue[n]].PID
<1>1. /\ readyqueue \in Seq(Tasks) /\ current \in Tasks
      /\ task \in [Tasks -> Task_struct]
  BY DEF IInv, TypeOK
<1>2. QueueSet(readyqueue) \subseteq Tasks
  BY <1>1 DEF QueueSet
<1>3. \A t \in Tasks : task[t].PID \in PIDs
  BY <1>1 DEF Task_struct
<1> QED BY <1>1, <1>2, <1>3, RingElements DEF turns

LEMMA TurnsNext ==
    ASSUME IInv', current' # Idle
    PROVE  /\ turns' \in Seq(PIDs)
           /\ Len(readyqueue') \in Nat /\ Len(turns') = Len(readyqueue') + 1
           /\ turns'[1] = task'[current'].PID
           /\ \A n \in 1 .. Len(readyqueue') : turns'[n + 1] = task'[readyqueue'[n]].PID
<1>1. /\ readyqueue' \in Seq(Tasks) /\ current' \in Tasks
      /\ task' \in [Tasks -> Task_struct]
  BY DEF IInv, TypeOK
<1>2. QueueSet(readyqueue') \subseteq Tasks
  BY <1>1 DEF QueueSet
<1>3. \A t \in Tasks : task'[t].PID \in PIDs
  BY <1>1 DEF Task_struct
<1>4. turns' = RingOf(task', current', readyqueue')
  BY DEF turns, RingOf
<1> QED BY <1>1, <1>2, <1>3, <1>4, RingElements

\* Who stays in the queue or runs keeps the PID the ring holds.
LEMMA StaysTurns == ASSUME IInv, IInv', Stays PROVE turns' = turns
<1>1. CASE current = Idle
  BY <1>1 DEF turns, RingOf, Stays
<1>2. CASE current # Idle
  <2>1. current' # Idle /\ current' = current /\ readyqueue' = readyqueue
    BY <1>2 DEF Stays
  <2>2. \A n \in 1 .. Len(readyqueue) : readyqueue[n] \in Alive
    BY <1>2, Turns DEF Alive, QueueSet
  <2>3. current \in Alive
    BY <1>2 DEF Alive
  <2>4. turns'[1] = turns[1]
    BY <1>2, <2>1, <2>3, Turns, TurnsNext DEF Stays, SamePIDs
  <2>5. \A n \in 1 .. Len(readyqueue) : turns'[n + 1] = turns[n + 1]
    BY <1>2, <2>1, <2>2, Turns, TurnsNext DEF Stays, SamePIDs
  <2>6. ASSUME NEW i \in 1 .. Len(turns) PROVE turns'[i] = turns[i]
    <3>1. CASE i = 1
      BY <2>4, <3>1
    <3>2. CASE i # 1
      <4>1. i - 1 \in 1 .. Len(readyqueue) /\ i - 1 + 1 = i
        BY <1>2, <3>2, Turns
      <4> QED BY <2>5, <4>1
    <3> QED BY <3>1, <3>2
  <2>7. turns \in Seq(PIDs) /\ turns' \in Seq(PIDs) /\ Len(turns') = Len(turns)
    BY <1>2, <2>1, Turns, TurnsNext
  <2> QED BY <2>6, <2>7, SameSeq
<1> QED BY <1>1, <1>2

LEMMA JoinsTurns ==
    ASSUME IInv, IInv', Joins
    PROVE  turns # <<>> /\ turns' = Append(turns, global_PID + 1)
<1>1. current # Idle /\ current' # Idle /\ current' = current
  BY DEF Joins
<1>2. PICK u \in Tasks : readyqueue' = Append(readyqueue, u) /\ task'[u].PID = global_PID + 1
  BY DEF Joins
<1> DEFINE n == Len(readyqueue)
<1>3. /\ turns \in Seq(PIDs) /\ Len(turns) = n + 1 /\ n \in Nat /\ turns # <<>>
      /\ readyqueue \in Seq(Tasks) /\ DOMAIN readyqueue = 1 .. n
      /\ turns[1] = task[current].PID
      /\ \A m \in 1 .. n : turns[m + 1] = task[readyqueue[m]].PID
  BY <1>1, Turns
<1>4. /\ Len(readyqueue') = n + 1
      /\ \A m \in 1 .. n : readyqueue'[m] = readyqueue[m]
      /\ readyqueue'[n + 1] = u
  BY <1>2, <1>3, AppendElements
<1>5. /\ turns' \in Seq(PIDs) /\ Len(turns') = n + 2
      /\ turns'[1] = task'[current].PID
      /\ \A m \in 1 .. n + 1 : turns'[m + 1] = task'[readyqueue'[m]].PID
  BY <1>1, <1>3, <1>4, TurnsNext
<1>6. current \in Alive /\ \A m \in 1 .. n : readyqueue[m] \in Alive
  BY <1>1, <1>3 DEF Alive, QueueSet
<1>7. turns'[1] = turns[1]
  BY <1>3, <1>5, <1>6 DEF Joins, SamePIDs
<1>8. ASSUME NEW m \in 1 .. n PROVE turns'[m + 1] = turns[m + 1]
  <2>1. m \in 1 .. n + 1
    BY <1>3
  <2>2. task'[readyqueue[m]].PID = task[readyqueue[m]].PID
    BY <1>6 DEF Joins, SamePIDs
  <2> QED BY <1>3, <1>4, <1>5, <2>1, <2>2
<1>9. turns'[n + 2] = global_PID + 1
  <2>1. n + 1 \in 1 .. n + 1 /\ n + 1 + 1 = n + 2
    BY <1>3
  <2> QED BY <1>2, <1>4, <1>5, <2>1
<1>10. global_PID + 1 \in PIDs
  <2>1. global_PID' = global_PID + 1 /\ global_PID' \in FirstPID .. MaxPID
    BY DEF Joins, IInv, TypeOK
  <2> QED BY <2>1 DEF PIDs
<1> DEFINE a == Append(turns, global_PID + 1)
<1> HIDE DEF n
<1>11. /\ a \in Seq(PIDs) /\ Len(a) = n + 2 /\ a[n + 2] = global_PID + 1
       /\ \A i \in 1 .. n + 1 : a[i] = turns[i]
  <2>1. n + 1 + 1 = n + 2
    BY <1>3
  <2> QED BY <1>3, <1>10, <2>1, AppendElements
<1> HIDE DEF a
<1>12. ASSUME NEW i \in 1 .. n + 2 PROVE turns'[i] = a[i]
  <2>1. CASE i = 1
    <3>1. 1 \in 1 .. n + 1
      BY <1>3
    <3> QED BY <1>7, <1>11, <2>1, <3>1
  <2>2. CASE i = n + 2
    BY <1>9, <1>11, <2>2
  <2>3. CASE i # 1 /\ i # n + 2
    <3>1. i - 1 \in 1 .. n /\ i - 1 + 1 = i /\ i \in 1 .. n + 1
      BY <1>3, <2>3
    <3>2. turns'[i] = turns[i]
      BY <1>8, <3>1
    <3> QED BY <1>11, <3>1, <3>2
  <2> QED BY <2>1, <2>2, <2>3
<1>13. turns' = a
  BY <1>5, <1>11, <1>12, SameSeq
<1> QED BY <1>3, <1>13 DEF a

LEMMA RotatesTurns ==
    ASSUME IInv, IInv', Rotates
    PROVE  turns # <<>> /\ turns' = Append(Tail(turns), Head(turns))
<1> DEFINE n == Len(readyqueue)
           q == Append(readyqueue, current)
           a == Append(Tail(turns), Head(turns))
<1>1. /\ current # Idle
      /\ current' = Head(q) /\ readyqueue' = Tail(q) /\ SamePIDs(Tasks)
  BY DEF Rotates
<1>2. /\ turns \in Seq(PIDs) /\ turns # <<>> /\ Len(turns) = n + 1 /\ n \in Nat
      /\ readyqueue \in Seq(Tasks) /\ current \in Tasks /\ DOMAIN readyqueue = 1 .. n
      /\ turns[1] = task[current].PID
      /\ \A m \in 1 .. n : turns[m + 1] = task[readyqueue[m]].PID
  BY <1>1, Turns
<1>3. /\ Len(readyqueue') = n /\ current' = q[1]
      /\ \A m \in 1 .. n : readyqueue'[m] = q[m + 1]
      /\ \A m \in 1 .. n : q[m] = readyqueue[m]
      /\ q[n + 1] = current
      /\ q \in Seq(Tasks) /\ Len(q) = n + 1
  BY <1>1, <1>2, RotatedElements, AppendElements
<1> HIDE DEF n, q
<1>4. \A m \in 1 .. n + 1 : q[m] \in Tasks
  BY <1>2, <1>3
<1>5. current' # Idle
  <2>1. Idle \notin QueueSet(readyqueue)
    BY DEF IInv, SlotPartition
  <2>2. \A m \in 1 .. n : readyqueue[m] # Idle
    BY <1>2, <2>1 DEF QueueSet
  <2>3. CASE n = 0
    BY <1>1, <1>3, <2>3
  <2>4. CASE n # 0
    <3>1. 1 \in 1 .. n
      BY <1>2, <2>4
    <3> QED BY <1>3, <2>2, <3>1
  <2> QED BY <2>3, <2>4
<1>6. /\ turns' \in Seq(PIDs) /\ Len(turns') = n + 1
      /\ turns'[1] = task'[current'].PID
      /\ \A m \in 1 .. n : turns'[m + 1] = task'[readyqueue'[m]].PID
  BY <1>3, <1>5, TurnsNext
<1>7. \A m \in 1 .. n + 1 : task'[q[m]].PID = task[q[m]].PID
  BY <1>1, <1>4 DEF SamePIDs
<1>8. ASSUME NEW i \in 1 .. n + 1 PROVE turns'[i] = task[q[i]].PID
  <2>1. CASE i = 1
    BY <1>3, <1>6, <1>7, <2>1
  <2>2. CASE i # 1
    <3>1. i - 1 \in 1 .. n /\ i - 1 + 1 = i
      BY <1>2, <2>2
    <3> QED BY <1>3, <1>6, <1>7, <3>1
  <2> QED BY <2>1, <2>2
<1>9. /\ Tail(turns) \in Seq(PIDs) /\ Len(Tail(turns)) = n
      /\ \A m \in 1 .. n : Tail(turns)[m] = turns[m + 1]
      /\ Head(turns) = turns[1] /\ turns[1] \in PIDs
  <2>1. n + 1 - 1 = n
    BY <1>2
  <2> QED BY <1>2, <2>1, TailElements
<1>10. /\ a \in Seq(PIDs) /\ Len(a) = n + 1 /\ a[n + 1] = turns[1]
       /\ \A m \in 1 .. n : a[m] = turns[m + 1]
  BY <1>9, AppendElements
<1> HIDE DEF a
<1>11. ASSUME NEW i \in 1 .. n + 1 PROVE turns'[i] = a[i]
  <2>1. CASE i = n + 1
    BY <1>2, <1>3, <1>8, <1>10, <2>1
  <2>2. CASE i # n + 1
    <3>1. i \in 1 .. n
      BY <1>2, <2>2
    <3> QED BY <1>2, <1>3, <1>8, <1>10, <3>1
  <2> QED BY <2>1, <2>2
<1>12. turns' = a
  BY <1>6, <1>10, <1>11, SameSeq
<1> QED BY <1>2, <1>12 DEF a

LEMMA ExitsTurns ==
    ASSUME IInv, IInv', Exits
    PROVE  turns # <<>> /\ turns' = Tail(turns)
<1> DEFINE n == Len(readyqueue)
<1>1. /\ current # Idle
      /\ turns \in Seq(PIDs) /\ turns # <<>> /\ Len(turns) = n + 1 /\ n \in Nat
      /\ readyqueue \in Seq(Tasks) /\ DOMAIN readyqueue = 1 .. n
      /\ \A m \in 1 .. n : turns[m + 1] = task[readyqueue[m]].PID
  BY Turns DEF Exits
<1>2. /\ Tail(turns) \in Seq(PIDs) /\ Len(Tail(turns)) = n
      /\ \A m \in 1 .. n : Tail(turns)[m] = turns[m + 1]
  <2>1. n + 1 - 1 = n
    BY <1>1
  <2> QED BY <1>1, <2>1, TailElements
<1>3. CASE readyqueue = <<>>
  <2>1. turns' = <<>> /\ n = 0
    BY <1>3 DEF Exits, turns, RingOf
  <2>2. <<>> \in Seq(PIDs) /\ Len(<<>>) = 0
    OBVIOUS
  <2>3. \A i \in 1 .. 0 : Tail(turns)[i] = <<>>[i]
    OBVIOUS
  <2>4. Tail(turns) = <<>>
    BY <1>2, <2>1, <2>2, <2>3, SameSeq
  <2> QED BY <1>1, <2>1, <2>4
<1>4. CASE readyqueue # <<>>
  <2>1. /\ current' = readyqueue[1] /\ n >= 1 /\ Len(readyqueue') = n - 1
        /\ \A m \in 1 .. n - 1 : readyqueue'[m] = readyqueue[m + 1]
    BY <1>1, <1>4, TailElements DEF Exits
  <2>2. \A m \in 1 .. n : readyqueue[m] \in QueueSet(readyqueue)
    BY <1>1 DEF QueueSet
  <2>3. current' # Idle
    BY <1>1, <2>1, <2>2 DEF IInv, SlotPartition
  <2>4. /\ turns' \in Seq(PIDs) /\ Len(turns') = n - 1 + 1
        /\ turns'[1] = task'[current'].PID
        /\ \A m \in 1 .. n - 1 : turns'[m + 1] = task'[readyqueue'[m]].PID
    BY <2>1, <2>3, TurnsNext
  <2>5. \A m \in 1 .. n : task'[readyqueue[m]].PID = task[readyqueue[m]].PID
    BY <2>2 DEF Exits, SamePIDs
  <2>6. ASSUME NEW i \in 1 .. n PROVE turns'[i] = Tail(turns)[i]
    <3>1. turns'[i] = task'[readyqueue[i]].PID
      <4>1. CASE i = 1
        BY <2>1, <2>4, <4>1
      <4>2. CASE i # 1
        <5>1. i - 1 \in 1 .. n - 1 /\ i - 1 + 1 = i
          BY <1>1, <4>2
        <5> QED BY <2>1, <2>4, <5>1
      <4> QED BY <4>1, <4>2
    <3> QED BY <1>1, <1>2, <2>5, <3>1
  <2>7. n - 1 + 1 = n
    BY <1>1
  <2> QED BY <1>1, <1>2, <2>4, <2>6, <2>7, SameSeq
<1> QED BY <1>3, <1>4, <1>1

\* Every step of the scheduler is a step of the ring, or none.
LEMMA RingStep == IInv /\ [Next]_vars /\ IInv' => [RR!Next]_(RR!vars)
<1> SUFFICES ASSUME IInv, [Next]_vars, IInv'
    PROVE  [RR!Next]_(RR!vars)
  OBVIOUS
<1>1. [RR!Next]_(RR!vars) <=>
        \/ /\ turns # <<>>
           /\ global_PID' = global_PID + 1
           /\ turns' = Append(turns, global_PID + 1)
        \/ /\ turns # <<>>
           /\ turns' = Append(Tail(turns), Head(turns))
           /\ UNCHANGED global_PID
        \/ /\ turns # <<>>
           /\ turns' = Tail(turns)
           /\ UNCHANGED global_PID
        \/ UNCHANGED <<turns, global_PID>>
  BY DEF RR!Next, RR!Fork, RR!Rotate, RR!Exit, RR!vars, turns, RingOf
<1>2. CASE Stays
  BY <1>1, <1>2, StaysTurns DEF Stays
<1>3. CASE Rotates
  BY <1>1, <1>3, RotatesTurns DEF Rotates
<1>4. CASE Joins
  BY <1>1, <1>4, JoinsTurns DEF Joins
<1>5. CASE Exits
  BY <1>1, <1>5, ExitsTurns DEF Exits
<1> QED BY <1>2, <1>3, <1>4, <1>5, Shapes

\* The scheduler, with its slots, queues, quanta and switches, implements
\* the ring of PIDs that only rotates, whatever the number of processes.
THEOREM Refinement == Spec => TakesTurns
<1>1. Init => RR!Init
  <2> SUFFICES ASSUME Init PROVE RR!Init
    OBVIOUS
  <2>1. IInv /\ current # Idle /\ readyqueue = <<>>
    BY InitIInv, Slots DEF Init
  <2>2. task[current].PID = 1
    BY Slots DEF Init, init_task1, blank_task
  <2>3. turns \in Seq(PIDs) /\ Len(turns) = 1 /\ turns[1] = 1
    BY <2>1, <2>2, Turns
  <2>4. turns = <<1>>
    <3>1. <<1>> \in Seq(PIDs) /\ Len(<<1>>) = 1 /\ <<1>>[1] = 1
      BY DEF PIDs
    <3> QED BY <2>3, <3>1, SameSeq
  <2>5. RR!Init <=> turns = <<1>> /\ global_PID = FirstPID
    BY DEF RR!Init, turns, RingOf
  <2> QED BY <2>4, <2>5 DEF Init
<1>2. IInv /\ [Next]_vars /\ IInv' => [RR!Next]_(RR!vars)
  BY RingStep
<1> QED BY <1>1, <1>2, Invariant, PTL DEF Spec, TakesTurns, RR!Spec
=============================================================================
