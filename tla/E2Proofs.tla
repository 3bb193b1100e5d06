------------------------------ MODULE E2Proofs ------------------------------
(***************************************************************************)
(* As long as every process outlives its sons, the queues and families of  *)
(* the second delivery are what they should be, and its processes take     *)
(* turns as RoundRobin says: for every number of slots and any quantum.    *)
(*                                                                         *)
(* First pointers: what each function of list.c does to a list that is the *)
(* ring of a sequence, and what a walk over a ring does.  Then the         *)
(* inductive invariant, Good: there are sequences fq, rq, kids of which    *)
(* the queues and the sons of every live process are the rings, and the    *)
(* rings share no node.  Each handler takes Good to Good and changes rq as *)
(* Outcome says; the properties are read off fq, rq and kids.              *)
(***************************************************************************)
EXTENDS E2Props, FiniteSetTheorems, WellFoundedInduction, TLAPS

-----------------------------------------------------------------------------
(* Pointers.                                                               *)

Links == [Nodes -> [next : Nodes, prev : Nodes]]
States == {"ST_RUN", "ST_READY", "ST_BLOCKED"}
TaskStructs == [PID : Int, state : States, pending_unblocks : Int, pParent : Int]
Machines == [at : Links, null : BOOLEAN, hung : BOOLEAN,
             task : [Tasks -> TaskStructs], current : Tasks,
             quantum_ticks : Int, global_pids : Int]
Heaps == [at : Links, null : BOOLEAN]     \* as main sets them up

\* g differs from h in its pointers.
Same(g, h) ==
    /\ g.hung = h.hung /\ g.task = h.task /\ g.current = h.current
    /\ g.quantum_ticks = h.quantum_ticks /\ g.global_pids = h.global_pids

\* h is a machine, or a heap of main; and g is of the same kind.
Kind(g, h) ==
    /\ h \in Machines => g \in Machines /\ Same(g, h)
    /\ h \in Heaps => g \in Heaps

LEMMA NodesAre ==
    /\ \A t \in Tasks : {List(t), Sons(t), Brothers(t)} \subseteq Nodes
    /\ {freequeue, readyqueue, blocked, NULL} \subseteq Nodes
    /\ \A t \in Tasks : \A x \in {freequeue, readyqueue, blocked, NULL} :
          x # List(t) /\ x # Sons(t) /\ x # Brothers(t)
    /\ \A s, t \in Tasks :
          /\ List(s) # Sons(t) /\ List(s) # Brothers(t) /\ Sons(s) # Brothers(t)
          /\ (List(s) = List(t) => s = t) /\ (Sons(s) = Sons(t) => s = t)
          /\ (Brothers(s) = Brothers(t) => s = t)
    /\ freequeue # readyqueue /\ freequeue # blocked /\ freequeue # NULL
    /\ readyqueue # blocked /\ readyqueue # NULL /\ blocked # NULL
  BY DEF Nodes, List, Sons, Brothers, freequeue, readyqueue, blocked, NULL

\* at2 is at with one pointer changed.
WroteNext(at2, at, n, to) ==
    /\ at2 \in Links
    /\ \A x \in Nodes : /\ at2[x].next = IF x = n THEN to ELSE at[x].next
                        /\ at2[x].prev = at[x].prev
WrotePrev(at2, at, n, to) ==
    /\ at2 \in Links
    /\ \A x \in Nodes : /\ at2[x].prev = IF x = n THEN to ELSE at[x].prev
                        /\ at2[x].next = at[x].next

LEMMA SetNext ==
    ASSUME NEW h, h \in Machines \/ h \in Heaps, NEW n \in Nodes, NEW to \in Nodes,
           NEW g, g = set_next(h, n, to)
    PROVE  /\ WroteNext(g.at, h.at, n, to) /\ (g.null <=> h.null \/ n = NULL)
           /\ Kind(g, h) /\ (g \in Machines \/ g \in Heaps)
  <1>1. h.at \in Links /\ h.null \in BOOLEAN  BY DEF Machines, Heaps
  <1>2. PICK a : a = [h.at EXCEPT ![n].next = to]  OBVIOUS
  <1>3. PICK b : b = (h.null \/ n = NULL)  OBVIOUS
  <1>4. a \in Links /\ b \in BOOLEAN  BY <1>1, <1>2, <1>3 DEF Links
  <1>5. g = [h EXCEPT !.null = b, !.at = a]
    BY <1>2, <1>3 DEF set_next, Machines, Heaps
  <1>w. WroteNext(a, h.at, n, to)
    BY <1>1, <1>2, <1>4 DEF WroteNext, Links
  <1>6. ASSUME h \in Machines PROVE g \in Machines /\ Same(g, h)
    BY <1>4, <1>5, <1>6 DEF Machines, Same
  <1>7. ASSUME h \in Heaps PROVE g \in Heaps
    BY <1>4, <1>5, <1>7 DEF Heaps
  <1>8. g.at = a /\ g.null = b
    BY <1>5 DEF Machines, Heaps
  <1> QED  BY <1>w, <1>3, <1>6, <1>7, <1>8 DEF Kind

LEMMA SetPrev ==
    ASSUME NEW h, h \in Machines \/ h \in Heaps, NEW n \in Nodes, NEW to \in Nodes,
           NEW g, g = set_prev(h, n, to)
    PROVE  /\ WrotePrev(g.at, h.at, n, to) /\ (g.null <=> h.null \/ n = NULL)
           /\ Kind(g, h) /\ (g \in Machines \/ g \in Heaps)
  <1>1. h.at \in Links /\ h.null \in BOOLEAN  BY DEF Machines, Heaps
  <1>2. PICK a : a = [h.at EXCEPT ![n].prev = to]  OBVIOUS
  <1>3. PICK b : b = (h.null \/ n = NULL)  OBVIOUS
  <1>4. a \in Links /\ b \in BOOLEAN  BY <1>1, <1>2, <1>3 DEF Links
  <1>5. g = [h EXCEPT !.null = b, !.at = a]
    BY <1>2, <1>3 DEF set_prev, Machines, Heaps
  <1>w. WrotePrev(a, h.at, n, to)
    BY <1>1, <1>2, <1>4 DEF WrotePrev, Links
  <1>6. ASSUME h \in Machines PROVE g \in Machines /\ Same(g, h)
    BY <1>4, <1>5, <1>6 DEF Machines, Same
  <1>7. ASSUME h \in Heaps PROVE g \in Heaps
    BY <1>4, <1>5, <1>7 DEF Heaps
  <1>8. g.at = a /\ g.null = b
    BY <1>5 DEF Machines, Heaps
  <1> QED  BY <1>w, <1>3, <1>6, <1>7, <1>8 DEF Kind

\* What __list_add and list_del change.
Added(at2, at, new, prev, next) ==
    /\ at2 \in Links
    /\ \A x \in Nodes : at2[x].next = IF x = prev THEN new
                                      ELSE IF x = new THEN next ELSE at[x].next
    /\ \A x \in Nodes : at2[x].prev = IF x = new THEN prev
                                      ELSE IF x = next THEN new ELSE at[x].prev
Deleted(at2, at, entry) ==
    /\ at2 \in Links
    /\ \A x \in Nodes : at2[x].next = IF x = entry THEN NULL
                                      ELSE IF x = at[entry].prev THEN at[entry].next
                                      ELSE at[x].next
    /\ \A x \in Nodes : at2[x].prev = IF x = entry THEN NULL
                                      ELSE IF x = at[entry].next THEN at[entry].prev
                                      ELSE at[x].prev
Reset(at2, at, list) ==
    /\ at2 \in Links
    /\ \A x \in Nodes : /\ at2[x].next = IF x = list THEN list ELSE at[x].next
                        /\ at2[x].prev = IF x = list THEN list ELSE at[x].prev

LEMMA KindTrans ==
    ASSUME NEW f, NEW g, NEW h, Kind(f, g), Kind(g, h)
    PROVE  Kind(f, h)
  BY DEF Kind, Same

LEMMA KindRefl == ASSUME NEW h PROVE Kind(h, h)
  BY DEF Kind, Same

LEMMA Adding ==
    ASSUME NEW h, h \in Machines \/ h \in Heaps,
           NEW new \in Nodes, NEW prev \in Nodes, NEW next \in Nodes,
           NEW g, g = __list_add(h, new, prev, next)
    PROVE  /\ Added(g.at, h.at, new, prev, next)
           /\ (g.null <=> h.null \/ NULL \in {new, prev, next})
           /\ Kind(g, h) /\ (g \in Machines \/ g \in Heaps)
  <1>1. PICK a : a = set_prev(h, next, new)  OBVIOUS
  <1>2. PICK b : b = set_next(a, new, next)  OBVIOUS
  <1>3. PICK c : c = set_prev(b, new, prev)  OBVIOUS
  <1>4. g = set_next(c, prev, new)  BY <1>1, <1>2, <1>3 DEF __list_add
  <1>5. /\ WrotePrev(a.at, h.at, next, new) /\ (a.null <=> h.null \/ next = NULL)
        /\ Kind(a, h) /\ (a \in Machines \/ a \in Heaps)
    BY <1>1, SetPrev
  <1>6. /\ WroteNext(b.at, a.at, new, next) /\ (b.null <=> a.null \/ new = NULL)
        /\ Kind(b, a) /\ (b \in Machines \/ b \in Heaps)
    BY <1>2, <1>5, SetNext
  <1>7. /\ WrotePrev(c.at, b.at, new, prev) /\ (c.null <=> b.null \/ new = NULL)
        /\ Kind(c, b) /\ (c \in Machines \/ c \in Heaps)
    BY <1>3, <1>6, SetPrev
  <1>8. /\ WroteNext(g.at, c.at, prev, new) /\ (g.null <=> c.null \/ prev = NULL)
        /\ Kind(g, c) /\ (g \in Machines \/ g \in Heaps)
    BY <1>4, <1>7, SetNext
  <1>9. Kind(g, h)  BY <1>5, <1>6, <1>7, <1>8, KindTrans
  <1>10. h.at \in Links  BY DEF Machines, Heaps
  <1>11. Added(g.at, h.at, new, prev, next)
    BY <1>5, <1>6, <1>7, <1>8, <1>10 DEF Added, WroteNext, WrotePrev
  <1> QED  BY <1>5, <1>6, <1>7, <1>8, <1>9, <1>11

LEMMA Deleting ==
    ASSUME NEW h, h \in Machines \/ h \in Heaps, NEW entry \in Nodes,
           NEW g, g = list_del(h, entry)
    PROVE  /\ Deleted(g.at, h.at, entry)
           /\ (g.null <=> h.null \/ NULL \in {entry, h.at[entry].next, h.at[entry].prev})
           /\ Kind(g, h) /\ (g \in Machines \/ g \in Heaps)
  <1>0. h.at \in Links  BY DEF Machines, Heaps
  <1>1. PICK p, n : p = h.at[entry].prev /\ n = h.at[entry].next  OBVIOUS
  <1>2. p \in Nodes /\ n \in Nodes  BY <1>0, <1>1 DEF Links
  <1>3. PICK a : a = set_prev(h, n, p)  OBVIOUS
  <1>4. PICK b : b = set_next(a, p, n)  OBVIOUS
  <1>5. PICK c : c = set_next(b, entry, NULL)  OBVIOUS
  <1>6. g = set_prev(c, entry, NULL)
    BY <1>1, <1>3, <1>4, <1>5 DEF list_del, __list_del, With
  <1>n. NULL \in Nodes  BY NodesAre
  <1>7. /\ WrotePrev(a.at, h.at, n, p) /\ (a.null <=> h.null \/ n = NULL)
        /\ Kind(a, h) /\ (a \in Machines \/ a \in Heaps)
    BY <1>2, <1>3, SetPrev
  <1>8. /\ WroteNext(b.at, a.at, p, n) /\ (b.null <=> a.null \/ p = NULL)
        /\ Kind(b, a) /\ (b \in Machines \/ b \in Heaps)
    BY <1>2, <1>4, <1>7, SetNext
  <1>9. /\ WroteNext(c.at, b.at, entry, NULL) /\ (c.null <=> b.null \/ entry = NULL)
        /\ Kind(c, b) /\ (c \in Machines \/ c \in Heaps)
    BY <1>n, <1>5, <1>8, SetNext
  <1>10. /\ WrotePrev(g.at, c.at, entry, NULL) /\ (g.null <=> c.null \/ entry = NULL)
         /\ Kind(g, c) /\ (g \in Machines \/ g \in Heaps)
    BY <1>n, <1>6, <1>9, SetPrev
  <1>11. Kind(g, h)  BY <1>7, <1>8, <1>9, <1>10, KindTrans
  <1>12. Deleted(g.at, h.at, entry)
    BY <1>0, <1>1, <1>2, <1>7, <1>8, <1>9, <1>10 DEF Deleted, WroteNext, WrotePrev
  <1> QED  BY <1>1, <1>7, <1>8, <1>9, <1>10, <1>11, <1>12

LEMMA Resetting ==
    ASSUME NEW h, h \in Machines \/ h \in Heaps, NEW list \in Nodes,
           NEW g, g = INIT_LIST_HEAD(h, list)
    PROVE  /\ Reset(g.at, h.at, list) /\ (g.null <=> h.null \/ list = NULL)
           /\ Kind(g, h) /\ (g \in Machines \/ g \in Heaps)
  <1>0. h.at \in Links  BY DEF Machines, Heaps
  <1>1. PICK a : a = set_next(h, list, list)  OBVIOUS
  <1>2. g = set_prev(a, list, list)  BY <1>1 DEF INIT_LIST_HEAD
  <1>3. /\ WroteNext(a.at, h.at, list, list) /\ (a.null <=> h.null \/ list = NULL)
        /\ Kind(a, h) /\ (a \in Machines \/ a \in Heaps)
    BY <1>1, SetNext
  <1>4. /\ WrotePrev(g.at, a.at, list, list) /\ (g.null <=> a.null \/ list = NULL)
        /\ Kind(g, a) /\ (g \in Machines \/ g \in Heaps)
    BY <1>2, <1>3, SetPrev
  <1>5. Kind(g, h)  BY <1>3, <1>4, KindTrans
  <1>6. Reset(g.at, h.at, list)
    BY <1>3, <1>4 DEF Reset, WroteNext, WrotePrev
  <1> QED  BY <1>3, <1>4, <1>5, <1>6

LEMMA AddingHead ==
    ASSUME NEW h, h \in Machines \/ h \in Heaps, NEW new \in Nodes, NEW head \in Nodes,
           NEW g, g = list_add(h, new, head)
    PROVE  /\ Added(g.at, h.at, new, head, h.at[head].next)
           /\ (g.null <=> h.null \/ NULL \in {new, head, h.at[head].next})
           /\ Kind(g, h) /\ (g \in Machines \/ g \in Heaps)
  <1>1. PICK n : n = h.at[head].next  OBVIOUS
  <1>2. n \in Nodes  BY <1>1 DEF Machines, Heaps, Links
  <1>3. g = __list_add(h, new, head, n)  BY <1>1 DEF list_add, With
  <1>4. /\ Added(g.at, h.at, new, head, n)
        /\ (g.null <=> h.null \/ NULL \in {new, head, n})
        /\ Kind(g, h) /\ (g \in Machines \/ g \in Heaps)
    BY <1>2, <1>3, Adding
  <1> QED  BY <1>1, <1>4

LEMMA AddingTail ==
    ASSUME NEW h, h \in Machines \/ h \in Heaps, NEW new \in Nodes, NEW head \in Nodes,
           NEW g, g = list_add_tail(h, new, head)
    PROVE  /\ Added(g.at, h.at, new, h.at[head].prev, head)
           /\ (g.null <=> h.null \/ NULL \in {new, head, h.at[head].prev})
           /\ Kind(g, h) /\ (g \in Machines \/ g \in Heaps)
  <1>1. PICK p : p = h.at[head].prev  OBVIOUS
  <1>2. p \in Nodes  BY <1>1 DEF Machines, Heaps, Links
  <1>3. g = __list_add(h, new, p, head)  BY <1>1 DEF list_add_tail, With
  <1>4. /\ Added(g.at, h.at, new, p, head)
        /\ (g.null <=> h.null \/ NULL \in {new, p, head})
        /\ Kind(g, h) /\ (g \in Machines \/ g \in Heaps)
    BY <1>2, <1>3, Adding
  <1> QED  BY <1>1, <1>4

-----------------------------------------------------------------------------
(* Rings: head, then the node of kind k of the tasks of q, and back.       *)

place(k, head, q, i) == IF i \in 1 .. Len(q) THEN <<k, q[i]>> ELSE head
Ring(at, k, head, q) ==
    \A i \in 0 .. Len(q) : /\ at[place(k, head, q, i)].next = place(k, head, q, i + 1)
                           /\ at[place(k, head, q, i + 1)].prev = place(k, head, q, i)
Distinct(q) == \A i, j \in 1 .. Len(q) : q[i] = q[j] => i = j
In(q) == {q[i] : i \in 1 .. Len(q)}

\* head is a list_head of its own, and tasks have one of kind k.
Heads(k, head) ==
    /\ head \in Nodes
    /\ \A t \in Tasks : <<k, t>> \in Nodes /\ <<k, t>> # head
Around(k, head, q) == {head} \cup {<<k, t>> : t \in In(q)}

LEMMA HeadsAre ==
    /\ Heads("list", freequeue) /\ Heads("list", readyqueue)
    /\ \A t \in Tasks : Heads("brothers", Sons(t))
  BY DEF Heads, Nodes, freequeue, readyqueue, Sons

LEMMA Places ==
    ASSUME NEW k, NEW head, Heads(k, head), NEW q \in Seq(Tasks), NEW i \in Int
    PROVE  /\ place(k, head, q, i) \in Nodes
           /\ place(k, head, q, i) \in Around(k, head, q)
  <1>1. CASE i \in 1 .. Len(q)
    <2>1. q[i] \in Tasks /\ q[i] \in In(q)  BY <1>1 DEF In
    <2> QED  BY <1>1, <2>1 DEF place, Heads, Around
  <1>2. CASE i \notin 1 .. Len(q)
    BY <1>2 DEF place, Heads, Around
  <1> QED  BY <1>1, <1>2

\* Two places of a ring are the same node only if they are the same place,
\* or both are the head.
LEMMA PlacesDiffer ==
    ASSUME NEW k, NEW head, Heads(k, head), NEW q \in Seq(Tasks), Distinct(q),
           NEW i \in 0 .. Len(q), NEW j \in 0 .. Len(q),
           place(k, head, q, i) = place(k, head, q, j)
    PROVE  i = j
  <1>1. \A l \in 1 .. Len(q) : q[l] \in Tasks  OBVIOUS
  <1>2. \A l \in 1 .. Len(q) : <<k, q[l]>> # head  BY <1>1 DEF Heads
  <1>3. CASE i = 0 /\ j = 0  BY <1>3
  <1>4. CASE i \in 1 .. Len(q) /\ j = 0  BY <1>2, <1>4 DEF place
  <1>5. CASE j \in 1 .. Len(q) /\ i = 0  BY <1>2, <1>5 DEF place
  <1>6. CASE i \in 1 .. Len(q) /\ j \in 1 .. Len(q)
    <2>1. <<k, q[i]>> = <<k, q[j]>>  BY <1>6 DEF place
    <2> QED  BY <1>6, <2>1 DEF Distinct
  <1> QED  BY <1>3, <1>4, <1>5, <1>6

\* A ring that nothing wrote to is still there.
LEMMA RingStays ==
    ASSUME NEW k, NEW head, Heads(k, head), NEW q \in Seq(Tasks),
           NEW at, NEW at2, Ring(at, k, head, q),
           \A x \in Around(k, head, q) : at2[x].next = at[x].next /\ at2[x].prev = at[x].prev
    PROVE  Ring(at2, k, head, q)
  <1> SUFFICES ASSUME NEW i \in 0 .. Len(q)
               PROVE  /\ at2[place(k, head, q, i)].next = place(k, head, q, i + 1)
                      /\ at2[place(k, head, q, i + 1)].prev = place(k, head, q, i)
    BY DEF Ring
  <1>1. PICK x, y : x = place(k, head, q, i) /\ y = place(k, head, q, i + 1)  OBVIOUS
  <1>2. x \in Around(k, head, q) /\ y \in Around(k, head, q)
    <2>1. i \in Int /\ i + 1 \in Int  OBVIOUS
    <2> QED  BY <1>1, <2>1, Places
  <1>3. at[x].next = y /\ at[y].prev = x  BY <1>1 DEF Ring
  <1> QED  BY <1>1, <1>2, <1>3

LEMMA EmptyRing ==
    ASSUME NEW k, NEW head, NEW at
    PROVE  Ring(at, k, head, <<>>) <=> at[head].next = head /\ at[head].prev = head
  <1>1. Len(<<>>) = 0 /\ \A i \in Int : place(k, head, <<>>, i) = head
    BY DEF place
  <1> QED  BY <1>1 DEF Ring

LEMMA RingTail ==
    ASSUME NEW k, NEW head, Heads(k, head), NEW q \in Seq(Tasks), Distinct(q),
           NEW at, Ring(at, k, head, q), NEW t \in Tasks, t \notin In(q),
           NEW at2, Added(at2, at, <<k, t>>, at[head].prev, head),
           NEW q2, q2 = Append(q, t)
    PROVE  Ring(at2, k, head, q2)
  <1>1. PICK n : n = Len(q)  OBVIOUS
  <1>2. n \in Nat /\ Len(q2) = n + 1 /\ q2 \in Seq(Tasks)  BY <1>1
  <1>3. PICK new : new = <<k, t>>  OBVIOUS
  <1>4. PICK last : last = place(k, head, q, n)  OBVIOUS
  <1>5. at[head].prev = last
    <2>1. place(k, head, q, n + 1) = head  BY <1>1, <1>2 DEF place
    <2> QED  BY <1>1, <1>2, <1>4, <2>1 DEF Ring
  <1>6. \A i \in 0 .. n : place(k, head, q2, i) = place(k, head, q, i)
    <2>1. \A i \in 1 .. n : q2[i] = q[i]  BY <1>1
    <2> QED  BY <1>1, <1>2, <2>1 DEF place
  <1>7. place(k, head, q2, n + 1) = new /\ place(k, head, q2, n + 2) = head
    <2>1. q2[n + 1] = t  BY <1>1
    <2> QED  BY <1>2, <1>3, <2>1 DEF place
  <1>8. new \in Nodes /\ head \in Nodes /\ new # head  BY <1>3 DEF Heads
  <1>9. \A i \in 0 .. n : place(k, head, q, i) \in Nodes /\ place(k, head, q, i) # new
    <2> TAKE i \in 0 .. n
    <2>1. CASE i = 0  BY <1>8, <2>1 DEF place
    <2>2. CASE i \in 1 .. Len(q)
      <3>1. q[i] \in In(q) /\ q[i] \in Tasks  BY <2>2 DEF In
      <3> QED  BY <1>3, <2>2, <3>1 DEF place, Heads
    <2> QED  BY <1>1, <2>1, <2>2
  <1>10. \A i \in 0 .. n : place(k, head, q, i) = last => i = n
    BY <1>1, <1>2, <1>4, PlacesDiffer
  <1>11. \A i \in 1 .. n : place(k, head, q, i) # head
    BY <1>1 DEF place, Heads
  <1>12. ASSUME NEW i \in 0 .. n + 1
         PROVE  /\ at2[place(k, head, q2, i)].next = place(k, head, q2, i + 1)
                /\ at2[place(k, head, q2, i + 1)].prev = place(k, head, q2, i)
    <2>1. CASE i \in 0 .. n - 1
      <3>1. PICK x, y : x = place(k, head, q, i) /\ y = place(k, head, q, i + 1)  OBVIOUS
      <3>2. at[x].next = y /\ at[y].prev = x  BY <1>1, <2>1, <3>1 DEF Ring
      <3>3. x \in Nodes /\ x # new /\ x # last /\ y \in Nodes /\ y # new /\ y # head
        BY <1>2, <1>9, <1>10, <1>11, <2>1, <3>1
      <3>4. x = place(k, head, q2, i) /\ y = place(k, head, q2, i + 1)
        BY <1>2, <1>6, <2>1, <3>1
      <3> QED  BY <1>3, <1>5, <3>2, <3>3, <3>4 DEF Added
    <2>2. CASE i = n
      <3>1. place(k, head, q2, i) = last /\ place(k, head, q2, i + 1) = new
        BY <1>2, <1>4, <1>6, <1>7, <2>2
      <3>2. last \in Nodes  BY <1>2, <1>4, <1>9
      <3> QED  BY <1>3, <1>5, <1>8, <3>1, <3>2 DEF Added
    <2>3. CASE i = n + 1
      <3>1. place(k, head, q2, i) = new /\ place(k, head, q2, i + 1) = head
        BY <1>2, <1>7, <2>3
      <3>2. new # last  BY <1>2, <1>4, <1>9
      <3> QED  BY <1>3, <1>5, <1>8, <3>1, <3>2 DEF Added
    <2> QED  BY <1>2, <2>1, <2>2, <2>3
  <1> QED  BY <1>2, <1>12 DEF Ring

LEMMA RingHead ==
    ASSUME NEW k, NEW head, Heads(k, head), NEW q \in Seq(Tasks), Distinct(q),
           NEW at, Ring(at, k, head, q), NEW t \in Tasks, t \notin In(q),
           NEW at2, Added(at2, at, <<k, t>>, head, at[head].next),
           NEW q2, q2 = <<t>> \o q
    PROVE  Ring(at2, k, head, q2)
  <1>1. PICK n : n = Len(q)  OBVIOUS
  <1>2. n \in Nat /\ Len(q2) = n + 1 /\ q2 \in Seq(Tasks)  BY <1>1
  <1>3. PICK new : new = <<k, t>>  OBVIOUS
  <1>4. PICK first : first = place(k, head, q, 1)  OBVIOUS
  <1>5. at[head].next = first
    <2>1. place(k, head, q, 0) = head /\ 0 \in 0 .. n  BY <1>1, <1>2 DEF place
    <2> QED  BY <1>1, <1>4, <2>1 DEF Ring
  <1>6. \A i \in 1 .. n + 1 : place(k, head, q2, i + 1) = place(k, head, q, i)
    <2>1. \A i \in 1 .. n : q2[i + 1] = q[i]  BY <1>1
    <2>2. \A i \in 1 .. n + 1 : i \in 1 .. n <=> i + 1 \in 1 .. n + 1  BY <1>2
    <2> QED  BY <1>1, <1>2, <2>1, <2>2 DEF place
  <1>7. place(k, head, q2, 0) = head /\ place(k, head, q2, 1) = new
    <2>1. q2[1] = t  BY <1>1
    <2> QED  BY <1>2, <1>3, <2>1 DEF place
  <1>8. new \in Nodes /\ head \in Nodes /\ new # head  BY <1>3 DEF Heads
  <1>9. \A i \in 1 .. n + 1 : place(k, head, q, i) \in Nodes /\ place(k, head, q, i) # new
    <2> TAKE i \in 1 .. n + 1
    <2>1. CASE i = n + 1  BY <1>1, <1>2, <1>8, <2>1 DEF place
    <2>2. CASE i \in 1 .. Len(q)
      <3>1. q[i] \in In(q) /\ q[i] \in Tasks  BY <2>2 DEF In
      <3> QED  BY <1>3, <2>2, <3>1 DEF place, Heads
    <2> QED  BY <1>1, <1>2, <2>1, <2>2
  <1>10. \A i \in 1 .. n : place(k, head, q, i) # head
    BY <1>1 DEF place, Heads
  <1>11. \A i \in 1 .. n : place(k, head, q, i + 1) = first => n = 0
    <2> TAKE i \in 1 .. n
    <2>1. CASE i = n
      <3>1. place(k, head, q, i + 1) = head  BY <1>1, <1>2, <2>1 DEF place
      <3> QED  BY <1>2, <1>4, <1>10, <3>1
    <2>2. CASE i < n
      <3>1. i + 1 \in 0 .. Len(q) /\ 1 \in 0 .. Len(q)  BY <1>1, <1>2, <2>2
      <3>2. ~(i + 1 = 1)  OBVIOUS
      <3> QED  BY <1>4, <3>1, <3>2, PlacesDiffer
    <2> QED  BY <1>2, <2>1, <2>2
  <1>12. ASSUME NEW i \in 0 .. n + 1
         PROVE  /\ at2[place(k, head, q2, i)].next = place(k, head, q2, i + 1)
                /\ at2[place(k, head, q2, i + 1)].prev = place(k, head, q2, i)
    <2>1. CASE i \in 2 .. n + 1
      <3>1. PICK l : l = i - 1  OBVIOUS
      <3>2. l \in 1 .. n /\ i = l + 1  BY <1>2, <2>1, <3>1
      <3>3. PICK x, y : x = place(k, head, q, l) /\ y = place(k, head, q, l + 1)  OBVIOUS
      <3>4. at[x].next = y /\ at[y].prev = x  BY <1>1, <3>2, <3>3 DEF Ring
      <3>5. x \in Nodes /\ x # new /\ x # head /\ y \in Nodes /\ y # new /\ y # first
        BY <1>2, <1>9, <1>10, <1>11, <3>2, <3>3
      <3>6. x = place(k, head, q2, i) /\ y = place(k, head, q2, i + 1)
        <4>1. l \in 1 .. n + 1 /\ l + 1 \in 1 .. n + 1  BY <1>2, <3>2
        <4> QED  BY <1>6, <3>2, <3>3, <4>1
      <3> QED  BY <1>3, <1>5, <3>4, <3>5, <3>6 DEF Added
    <2>2. CASE i = 0
      <3>1. place(k, head, q2, i) = head /\ place(k, head, q2, i + 1) = new
        BY <1>7, <2>2
      <3> QED  BY <1>3, <1>5, <1>8, <3>1 DEF Added
    <2>3. CASE i = 1
      <3>1. place(k, head, q2, i) = new /\ place(k, head, q2, i + 1) = first
        <4>1. 1 \in 1 .. n + 1  BY <1>2
        <4> QED  BY <1>4, <1>6, <1>7, <2>3, <4>1
      <3>2. first \in Nodes /\ first # new
        <4>1. 1 \in 1 .. n + 1  BY <1>2
        <4> QED  BY <1>4, <1>9, <4>1
      <3> QED  BY <1>3, <1>5, <1>8, <3>1, <3>2 DEF Added
    <2> QED  BY <1>2, <2>1, <2>2, <2>3
  <1> QED  BY <1>2, <1>12 DEF Ring

Removed(q, j) == [i \in 1 .. Len(q) - 1 |-> IF i < j THEN q[i] ELSE q[i + 1]]

LEMMA RemovedIs ==
    ASSUME NEW q \in Seq(Tasks), Distinct(q), NEW j \in 1 .. Len(q), NEW q2, q2 = Removed(q, j)
    PROVE  /\ q2 \in Seq(Tasks) /\ Len(q2) + 1 = Len(q) /\ Distinct(q2)
           /\ In(q2) = In(q) \ {q[j]}
  <1>1. PICK n \in Nat : n + 1 = Len(q)  OBVIOUS
  <1>2. q2 = [i \in 1 .. n |-> IF i < j THEN q[i] ELSE q[i + 1]]  BY <1>1 DEF Removed
  <1>3. j \in 1 .. n + 1 /\ \A i \in 1 .. n + 1 : q[i] \in Tasks  BY <1>1
  <1>4. q2 \in [1 .. n -> Tasks]  BY <1>2, <1>3
  <1>5. q2 \in Seq(Tasks) /\ Len(q2) = n  BY <1>4
  <1>6. Distinct(q2)
    <2>1. ASSUME NEW a \in 1 .. n, NEW b \in 1 .. n, q2[a] = q2[b] PROVE a = b
      <3>1. PICK c \in 1 .. n + 1 : q2[a] = q[c] /\ c = (IF a < j THEN a ELSE a + 1)
        BY <1>2
      <3>2. PICK d \in 1 .. n + 1 : q2[b] = q[d] /\ d = (IF b < j THEN b ELSE b + 1)
        BY <1>2
      <3>3. c = d  BY <1>1, <2>1, <3>1, <3>2 DEF Distinct
      <3> QED  BY <1>3, <3>1, <3>2, <3>3
    <2> QED  BY <1>5, <2>1 DEF Distinct
  <1>7. In(q2) \subseteq In(q) \ {q[j]}
    <2>1. ASSUME NEW a \in 1 .. n PROVE q2[a] \in In(q) /\ q2[a] # q[j]
      <3>1. PICK c \in 1 .. n + 1 : q2[a] = q[c] /\ c = (IF a < j THEN a ELSE a + 1)
        BY <1>2
      <3>2. c # j  BY <1>3, <3>1
      <3> QED  BY <1>1, <3>1, <3>2 DEF In, Distinct
    <2> QED  BY <1>5, <2>1 DEF In
  <1>8. In(q) \ {q[j]} \subseteq In(q2)
    <2>1. ASSUME NEW c \in 1 .. n + 1, q[c] # q[j] PROVE q[c] \in In(q2)
      <3>1. CASE c < j
        <4>1. c \in 1 .. n /\ q2[c] = q[c]  BY <1>2, <1>3, <3>1
        <4> QED  BY <1>5, <4>1 DEF In
      <3>2. CASE c > j
        <4>1. PICK b : b = c - 1  OBVIOUS
        <4>2. b \in 1 .. n /\ ~(b < j) /\ b + 1 = c  BY <1>3, <3>2, <4>1
        <4>3. q2[b] = q[c]  BY <1>2, <4>2
        <4> QED  BY <1>5, <4>2, <4>3 DEF In
      <3> QED  BY <2>1, <1>3, <3>1, <3>2
    <2> QED  BY <1>1, <2>1 DEF In
  <1> QED  BY <1>1, <1>5, <1>6, <1>7, <1>8

LEMMA RingRemove ==
    ASSUME NEW k, NEW head, Heads(k, head), NEW q \in Seq(Tasks), Distinct(q),
           NEW at, Ring(at, k, head, q), NEW j \in 1 .. Len(q),
           NEW at2, Deleted(at2, at, <<k, q[j]>>),
           NEW q2, q2 = Removed(q, j)
    PROVE  Ring(at2, k, head, q2)
  <1>1. PICK n \in Nat : n + 1 = Len(q)  OBVIOUS
  <1>2. Len(q2) = n /\ q2 \in Seq(Tasks)  BY <1>1, RemovedIs
  <1>3. PICK entry, p, s : /\ entry = place(k, head, q, j) /\ p = place(k, head, q, j - 1)
                           /\ s = place(k, head, q, j + 1)
    OBVIOUS
  <1>4. j \in 1 .. n + 1 /\ entry = <<k, q[j]>>  BY <1>1, <1>3 DEF place
  <1>5. at[entry].prev = p /\ at[entry].next = s
    <2>1. PICK i : i = j - 1  OBVIOUS
    <2>2. i \in 0 .. Len(q) /\ j = i + 1 /\ j \in 0 .. Len(q)  BY <1>1, <2>1
    <2> QED  BY <1>3, <2>1, <2>2 DEF Ring
  <1>6. \A i \in 0 .. n + 1 : place(k, head, q2, i) = IF i < j THEN place(k, head, q, i)
                                                      ELSE place(k, head, q, i + 1)
    <2> TAKE i \in 0 .. n + 1
    <2>1. CASE i \in 1 .. n
      <3>1. q2[i] = IF i < j THEN q[i] ELSE q[i + 1]  BY <1>1, <2>1 DEF Removed
      <3> QED  BY <1>1, <1>2, <2>1, <3>1 DEF place
    <2>2. CASE i = 0  BY <1>2, <1>4, <2>2 DEF place
    <2>3. CASE i = n + 1  BY <1>1, <1>2, <1>4, <2>3 DEF place
    <2> QED  BY <2>1, <2>2, <2>3
  <1>7. \A a, b \in 0 .. n + 1 : place(k, head, q, a) = place(k, head, q, b) => a = b
    BY <1>1, PlacesDiffer
  <1>8. \A a \in 0 .. n + 2 : place(k, head, q, a) \in Nodes
    <2>1. \A a \in 0 .. n + 2 : a \in Int  BY <1>1
    <2> QED  BY <2>1, Places
  <1>9. place(k, head, q, n + 2) = head /\ place(k, head, q, 0) = head
    BY <1>1 DEF place
  \* So two places differ unless they are the two ends.
  <1>10. \A a, b \in 0 .. n + 2 :
            place(k, head, q, a) = place(k, head, q, b)
                => a = b \/ (a = n + 2 /\ b = 0) \/ (a = 0 /\ b = n + 2)
    <2> TAKE a, b \in 0 .. n + 2
    <2>1. PICK c : c = IF a = n + 2 THEN 0 ELSE a  OBVIOUS
    <2>2. PICK d : d = IF b = n + 2 THEN 0 ELSE b  OBVIOUS
    <2>3. c \in 0 .. n + 1 /\ d \in 0 .. n + 1  BY <2>1, <2>2
    <2>4. place(k, head, q, c) = place(k, head, q, a)  BY <1>9, <2>1
    <2>5. place(k, head, q, d) = place(k, head, q, b)  BY <1>9, <2>2
    <2> QED  BY <1>7, <2>1, <2>2, <2>3, <2>4, <2>5
  <1>11. \A i \in 0 .. n + 1 : /\ at[place(k, head, q, i)].next = place(k, head, q, i + 1)
                               /\ at[place(k, head, q, i + 1)].prev = place(k, head, q, i)
    BY <1>1 DEF Ring
  <1>12. ASSUME NEW i \in 0 .. n
         PROVE  /\ at2[place(k, head, q2, i)].next = place(k, head, q2, i + 1)
                /\ at2[place(k, head, q2, i + 1)].prev = place(k, head, q2, i)
    <2>1. CASE i = j - 1
      <3>1. place(k, head, q2, i) = p /\ place(k, head, q2, i + 1) = s
        <4>1. i < j /\ i + 1 = j /\ i \in 0 .. n + 1 /\ i + 1 \in 0 .. n + 1
          BY <1>4, <2>1
        <4> QED  BY <1>3, <1>6, <2>1, <4>1
      <3>2. p # entry /\ s # entry /\ p \in Nodes /\ s \in Nodes
        <4>1. PICK a, b : a = j - 1 /\ b = j + 1  OBVIOUS
        <4>2. a \in 0 .. n + 2 /\ j \in 0 .. n + 2 /\ b \in 0 .. n + 2  BY <1>4, <4>1
        <4>3. a # j /\ b # j /\ j # 0 /\ j # n + 2  BY <1>4, <4>1
        <4>4. p = place(k, head, q, a) /\ s = place(k, head, q, b)  BY <1>3, <4>1
        <4>5. entry = place(k, head, q, j)  BY <1>3
        <4> QED  BY <1>8, <1>10, <4>2, <4>3, <4>4, <4>5
      <3> QED  BY <1>4, <1>5, <3>1, <3>2 DEF Deleted
    <2>2. CASE i # j - 1
      <3>1. PICK l : l = IF i < j THEN i ELSE i + 1  OBVIOUS
      <3>2. /\ l \in 0 .. n + 1 /\ l # j /\ l # j - 1 /\ l + 1 # j /\ l + 1 # j + 1
            /\ l + 1 \in 0 .. n + 2 /\ l \in 0 .. n + 2
        BY <1>4, <2>2, <3>1
      <3>3. PICK x, y : x = place(k, head, q, l) /\ y = place(k, head, q, l + 1)  OBVIOUS
      <3>4. x = place(k, head, q2, i) /\ y = place(k, head, q2, i + 1)
        <4>1. i \in 0 .. n + 1 /\ i + 1 \in 0 .. n + 1 /\ (i < j <=> i + 1 < j)
          BY <1>4, <2>2
        <4> QED  BY <1>6, <3>1, <3>3, <4>1
      <3>5. at[x].next = y /\ at[y].prev = x  BY <1>11, <3>2, <3>3
      <3>6. x \in Nodes /\ y \in Nodes  BY <1>8, <3>2, <3>3
      <3>7. PICK a, b, c : a = j - 1 /\ b = j + 1 /\ c = l + 1  OBVIOUS
      <3>8. x # entry /\ x # p
        <4>1. a \in 0 .. n + 2 /\ j \in 0 .. n + 2 /\ j # 0 /\ j # n + 2 /\ l # n + 2 /\ a # n + 2
          BY <1>4, <3>2, <3>7
        <4>2. l # j /\ l # a  BY <3>2, <3>7
        <4>3. p = place(k, head, q, a) /\ entry = place(k, head, q, j)  BY <1>3, <3>7
        <4> QED  BY <1>10, <3>2, <3>3, <4>1, <4>2, <4>3
      <3>9. y # entry /\ y # s
        <4>1. b \in 0 .. n + 2 /\ j \in 0 .. n + 2 /\ c \in 0 .. n + 2 /\ j # 0 /\ j # n + 2 /\ c # 0 /\ b # 0
          BY <1>4, <3>2, <3>7
        <4>2. c # j /\ c # b  BY <3>2, <3>7
        <4>3. s = place(k, head, q, b) /\ entry = place(k, head, q, j)  BY <1>3, <3>7
        <4>4. y = place(k, head, q, c)  BY <3>3, <3>7
        <4> QED  BY <1>10, <4>1, <4>2, <4>3, <4>4
      <3> QED  BY <1>4, <1>5, <3>4, <3>5, <3>6, <3>8, <3>9 DEF Deleted
    <2> QED  BY <2>1, <2>2
  <1> QED  BY <1>2, <1>12 DEF Ring

\* The pointers of a ring stay in the ring.
LEMMA RingClosed ==
    ASSUME NEW k, NEW head, Heads(k, head), NEW q \in Seq(Tasks),
           NEW at, Ring(at, k, head, q), NEW x \in Around(k, head, q)
    PROVE  at[x].next \in Around(k, head, q) /\ at[x].prev \in Around(k, head, q)
  <1>1. \A i \in Int : place(k, head, q, i) \in Around(k, head, q)
    BY Places
  <1>2. PICK i \in 0 .. Len(q) : x = place(k, head, q, i)
    <2>1. CASE x = head
      BY <2>1 DEF place
    <2>2. CASE x # head
      <3>1. PICK j \in 1 .. Len(q) : x = <<k, q[j]>>  BY <2>2 DEF Around, In
      <3> QED  BY <3>1 DEF place
    <2> QED  BY <2>1, <2>2
  <1>3. at[x].next = place(k, head, q, i + 1)  BY <1>2 DEF Ring
  <1>4. \E j \in 1 .. Len(q) + 1 : x = place(k, head, q, j)
    <2>1. CASE i = 0
      BY <1>2, <2>1 DEF place
    <2>2. CASE i # 0
      BY <1>2, <2>2
    <2> QED  BY <2>1, <2>2
  <1>5. PICK j \in 0 .. Len(q) : x = place(k, head, q, j + 1)
    <2>1. PICK l \in 1 .. Len(q) + 1 : x = place(k, head, q, l)  BY <1>4
    <2>2. PICK j : j = l - 1  OBVIOUS
    <2>3. j \in 0 .. Len(q) /\ l = j + 1  BY <2>2
    <2> QED  BY <2>1, <2>3
  <1>6. at[x].prev = place(k, head, q, j)  BY <1>5 DEF Ring
  <1> QED  BY <1>1, <1>3, <1>6

-----------------------------------------------------------------------------
(* Walks.  What a recursive function is, is an induction over its          *)
(* arguments, which here is the well-foundedness of <.                     *)

\* A set of numbers has a least one.
LEMMA Least ==
    ASSUME NEW T \in SUBSET Nat, T # {}
    PROVE  \E x \in T : \A y \in T : x <= y
  <1> DEFINE R == OpToRel(<, Nat)
  <1>1. IsWellFoundedOn(R, Nat)  BY NatLessThanWellFounded
  <1>2. \A x, y \in Nat : x < y => <<x, y>> \in R  BY DEF OpToRel
  <1> HIDE DEF R
  <1>3. PICK x \in T : \A y \in T : ~ (<<y, x>> \in R)  BY <1>1, WFMin
  <1>4. \A y \in T : y \in Nat /\ x \in Nat /\ ~ (y < x)  BY <1>2, <1>3
  <1>5. \A y \in T : x <= y  BY <1>4
  <1> QED  BY <1>5

LEMMA Induction ==
    ASSUME NEW T, 0 \in T, \A n \in Nat : n \in T => n + 1 \in T
    PROVE  Nat \subseteq T
  <1> SUFFICES ASSUME NEW m \in Nat \ T PROVE FALSE  OBVIOUS
  <1> DEFINE C == Nat \ T
  <1>1. PICK x \in C : \A y \in C : x <= y  BY Least
  <1>2. x # 0 /\ x - 1 \in Nat /\ x - 1 \notin C  BY <1>1
  <1> QED  BY <1>1, <1>2

LEMMA ExtendedIs ==
    ASSUME NEW at, NEW head, NEW s, NEW x, x = IF s = <<>> THEN at[head].next ELSE at[s[Len(s)]].next
    PROVE  extended(at, head, s) = IF x = head THEN s ELSE Append(s, x)
  <1>1. \A v : (CHOOSE r \in {IF y = head THEN s ELSE Append(s, y) : y \in {v}} : TRUE)
                 = IF v = head THEN s ELSE Append(s, v)
    <2> TAKE v
    <2>1. PICK e : e = IF v = head THEN s ELSE Append(s, v)  OBVIOUS
    <2>2. {IF y = head THEN s ELSE Append(s, y) : y \in {v}} = {e}  BY <2>1, Zenon
    <2>3. (CHOOSE r \in {e} : TRUE) = e  OBVIOUS
    <2> QED  BY <2>1, <2>2, <2>3, Zenon
  <1>2. extended(at, head, s) =
          CHOOSE r \in {IF y = head THEN s ELSE Append(s, y) :
                          y \in {IF s = <<>> THEN at[head].next ELSE at[s[Len(s)]].next}} : TRUE
    BY Zenon DEF extended, With
  <1> QED  BY <1>1, <1>2, Zenon

IsWalk(w, at, head, fuel) ==
    w = [i \in 0 .. fuel |-> IF i = 0 THEN <<>> ELSE extended(at, head, w[i - 1])]

\* The first i nodes of a ring.
Begin(k, q, i) == [j \in 1 .. (IF i < Len(q) THEN i ELSE Len(q)) |-> <<k, q[j]>>]

LEMMA NextOfBegin ==
    ASSUME NEW k, NEW head, Heads(k, head), NEW q \in Seq(Tasks),
           NEW at, Ring(at, k, head, q), NEW i \in Nat
    PROVE  extended(at, head, Begin(k, q, i)) = Begin(k, q, i + 1)
  <1>1. PICK n \in Nat : n = Len(q)  OBVIOUS
  <1>2. PICK s : s = Begin(k, q, i)  OBVIOUS
  <1>3. PICK m \in 0 .. n : m = IF i < n THEN i ELSE n  BY <1>1
  <1>4. s = [j \in 1 .. m |-> <<k, q[j]>>]  BY <1>1, <1>2, <1>3 DEF Begin
  <1>5. Len(s) = m /\ (s = <<>> <=> m = 0)
    <2>1. Len(s) = m  BY <1>4
    <2>2. CASE m = 0
      <3>1. s = <<>>  BY <1>4, <2>2
      <3> QED  BY <2>1, <2>2, <3>1
    <2>3. CASE m # 0
      <3>1. Len(<<>>) = 0  OBVIOUS
      <3> QED  BY <2>1, <2>3, <3>1
    <2> QED  BY <2>1, <2>2, <2>3
  <1>6. PICK x : x = IF s = <<>> THEN at[head].next ELSE at[s[Len(s)]].next  OBVIOUS
  <1>7. x = place(k, head, q, m + 1)
    <2>1. at[place(k, head, q, m)].next = place(k, head, q, m + 1)  BY <1>1 DEF Ring
    <2>2. CASE m = 0
      <3>1. place(k, head, q, m) = head  BY <2>2 DEF place
      <3> QED  BY <1>5, <1>6, <2>1, <2>2, <3>1
    <2>3. CASE m # 0
      <3>1. place(k, head, q, m) = <<k, q[m]>> /\ s[m] = <<k, q[m]>>
        BY <1>1, <1>4, <2>3 DEF place
      <3> QED  BY <1>5, <1>6, <2>1, <2>3, <3>1
    <2> QED  BY <2>2, <2>3
  <1>8. extended(at, head, s) = IF x = head THEN s ELSE Append(s, x)
    BY <1>6, ExtendedIs
  <1>9. CASE m = n
    <2>1. x = head  BY <1>1, <1>7, <1>9 DEF place
    <2>2. Begin(k, q, i + 1) = s
      BY <1>1, <1>3, <1>4, <1>9 DEF Begin
    <2> QED  BY <1>2, <1>8, <2>1, <2>2
  <1>10. CASE m < n
    <2>1. i = m /\ i < n  BY <1>3, <1>10
    <2>2. x = <<k, q[m + 1]>> /\ x # head
      BY <1>1, <1>7, <1>10 DEF place, Heads
    <2>3. Begin(k, q, i + 1) = [j \in 1 .. m + 1 |-> <<k, q[j]>>]
      <3>1. (IF i + 1 < n THEN i + 1 ELSE n) = m + 1  BY <2>1
      <3> QED  BY <1>1, <3>1 DEF Begin
    <2>4. Append(s, x) = [j \in 1 .. m + 1 |-> <<k, q[j]>>]
      BY <1>4, <1>5, <2>2
    <2> QED  BY <1>2, <1>8, <2>2, <2>3, <2>4
  <1> QED  BY <1>3, <1>9, <1>10

LEMMA WalkIs ==
    ASSUME NEW k, NEW head, Heads(k, head), NEW q \in Seq(Tasks),
           NEW at, Ring(at, k, head, q), NEW fuel \in Nat, Len(q) <= fuel,
           NEW w, IsWalk(w, at, head, fuel)
    PROVE  w[fuel] = [j \in 1 .. Len(q) |-> <<k, q[j]>>]
  <1> DEFINE T == {i \in Nat : i <= fuel => w[i] = Begin(k, q, i)}
  <1>1. 0 \in T
    <2>1. Begin(k, q, 0) = <<>>  BY DEF Begin
    <2>2. w[0] = <<>>  BY DEF IsWalk
    <2> QED  BY <2>1, <2>2
  <1>2. ASSUME NEW i \in Nat, i \in T PROVE i + 1 \in T
    <2>1. CASE i + 1 <= fuel
      <3>1. PICK l : l = i + 1  OBVIOUS
      <3>2. l \in 0 .. fuel /\ l # 0 /\ l - 1 = i  BY <2>1, <3>1
      <3>3. w[l] = extended(at, head, w[i])  BY <3>2 DEF IsWalk
      <3>4. w[i] = Begin(k, q, i)  BY <1>2, <2>1
      <3>5. w[l] = Begin(k, q, l)  BY <3>1, <3>3, <3>4, NextOfBegin
      <3> QED  BY <3>1, <3>5
    <2> QED  BY <2>1
  <1>3. Nat \subseteq T
    <2> HIDE DEF T
    <2> QED  BY <1>1, <1>2, Induction
  <1>4. w[fuel] = Begin(k, q, fuel)  BY <1>3
  <1> QED  BY <1>4 DEF Begin

LEMMA WalkExists ==
    ASSUME NEW k, NEW head, Heads(k, head), NEW q \in Seq(Tasks),
           NEW at, Ring(at, k, head, q), NEW fuel \in Nat
    PROVE  IsWalk([i \in 0 .. fuel |-> Begin(k, q, i)], at, head, fuel)
  <1>1. PICK w : w = [i \in 0 .. fuel |-> Begin(k, q, i)]  OBVIOUS
  <1>2. ASSUME NEW i \in 0 .. fuel
        PROVE  w[i] = IF i = 0 THEN <<>> ELSE extended(at, head, w[i - 1])
    <2>1. CASE i = 0  BY <1>1, <2>1 DEF Begin
    <2>2. CASE i # 0
      <3>1. PICK l : l = i - 1  OBVIOUS
      <3>2. l \in Nat /\ l \in 0 .. fuel /\ i = l + 1  BY <2>2, <3>1
      <3>3. extended(at, head, Begin(k, q, l)) = Begin(k, q, i)  BY <3>2, NextOfBegin
      <3>4. w[l] = Begin(k, q, l)  BY <1>1, <3>2
      <3> QED  BY <1>1, <2>2, <3>1, <3>3, <3>4
    <2> QED  BY <2>1, <2>2
  <1>3. w = [i \in 0 .. fuel |-> w[i]]  BY <1>1
  <1>4. IsWalk(w, at, head, fuel)  BY <1>2, <1>3 DEF IsWalk
  <1> QED  BY <1>1, <1>4

\* The nodes of a ring.
LEMMA NodesOfRing ==
    ASSUME NEW k, NEW head, Heads(k, head), NEW q \in Seq(Tasks),
           NEW h, Ring(h.at, k, head, q), NEW fuel \in Nat, Len(q) <= fuel
    PROVE  nodes(h, head, fuel) = [j \in 1 .. Len(q) |-> <<k, q[j]>>]
  <1>2. PICK x : x = CHOOSE walk : walk = [i \in 0 .. fuel |->
             IF i = 0 THEN <<>>
             ELSE CHOOSE r \in {extended(h.at, head, y) : y \in {walk[i - 1]}} : TRUE]
    OBVIOUS
  <1>3. \A w : w = [i \in 0 .. fuel |->
             IF i = 0 THEN <<>>
             ELSE CHOOSE r \in {extended(h.at, head, y) : y \in {w[i - 1]}} : TRUE]
          <=> IsWalk(w, h.at, head, fuel)
    <2>1. \A v : (CHOOSE r \in {extended(h.at, head, y) : y \in {v}} : TRUE) = extended(h.at, head, v)
      OBVIOUS
    <2> QED  BY <2>1, Zenon DEF IsWalk
  <1>4. IsWalk(x, h.at, head, fuel)
    <2>1. \E w : IsWalk(w, h.at, head, fuel)  BY WalkExists
    <2> QED  BY <1>2, <1>3, <2>1
  <1>5. nodes(h, head, fuel) = x[fuel]
    BY <1>2, Zenon DEF nodes, With
  <1> QED  BY <1>4, <1>5, WalkIs

LEMMA IsRing ==
    ASSUME NEW k, NEW head, Heads(k, head), NEW q \in Seq(Tasks),
           NEW h, Ring(h.at, k, head, q), NEW fuel \in Nat, Len(q) <= fuel
    PROVE  is_ring(h, head, fuel)
  <1>1. PICK n \in Nat : n = Len(q)  OBVIOUS
  <1>2. PICK r : r = <<head>> \o nodes(h, head, fuel) \o <<head>>  OBVIOUS
  <1>3. PICK s : s = [j \in 1 .. n |-> <<k, q[j]>>]  OBVIOUS
  <1>4. nodes(h, head, fuel) = s  BY <1>1, <1>3, NodesOfRing
  <1>5. s \in Seq(Nodes) /\ Len(s) = n
    <2>1. \A j \in 1 .. n : <<k, q[j]>> \in Nodes  BY <1>1 DEF Heads
    <2>2. s \in [1 .. n -> Nodes]  BY <1>3, <2>1
    <2> QED  BY <2>2
  <1>6. head \in Nodes  BY DEF Heads
  <1>7. /\ r \in Seq(Nodes) /\ Len(r) = n + 2 /\ r[1] = head /\ r[n + 2] = head
        /\ \A j \in 1 .. n : r[j + 1] = s[j]
    <2>1. r = <<head>> \o s \o <<head>>  BY <1>2, <1>4, Zenon
    <2> QED  BY <1>5, <1>6, <2>1
  <1>8. \A i \in 0 .. n + 1 : r[i + 1] = place(k, head, q, i)
    <2> TAKE i \in 0 .. n + 1
    <2>1. CASE i = 0  BY <1>1, <1>7, <2>1 DEF place
    <2>2. CASE i = n + 1  BY <1>1, <1>7, <2>2 DEF place
    <2>3. CASE i \in 1 .. n  BY <1>1, <1>3, <1>7, <2>3 DEF place
    <2> QED  BY <2>1, <2>2, <2>3
  <1>9. ASSUME NEW i \in 1 .. Len(r) - 1
        PROVE  h.at[r[i]].next = r[i + 1] /\ h.at[r[i + 1]].prev = r[i]
    <2>1. PICK l : l = i - 1  OBVIOUS
    <2>2. l \in 0 .. n /\ l + 1 = i /\ l \in 0 .. n + 1 /\ i \in 0 .. n + 1 /\ l \in 0 .. Len(q)
      BY <1>1, <1>7, <2>1
    <2>3. r[i] = place(k, head, q, l) /\ r[i + 1] = place(k, head, q, l + 1)
      BY <1>8, <2>2
    <2> QED  BY <2>2, <2>3 DEF Ring
  <1>10. is_ring(h, head, fuel) =
           CHOOSE b \in {\A i \in 1 .. Len(y) - 1 :
                            h.at[y[i]].next = y[i + 1] /\ h.at[y[i + 1]].prev = y[i] :
                          y \in {r}} : TRUE
    BY <1>2, Zenon DEF is_ring, With
  <1>11. {\A i \in 1 .. Len(y) - 1 :
             h.at[y[i]].next = y[i + 1] /\ h.at[y[i + 1]].prev = y[i] : y \in {r}} = {TRUE}
    <2>1. (\A i \in 1 .. Len(r) - 1 :
             h.at[r[i]].next = r[i + 1] /\ h.at[r[i + 1]].prev = r[i]) = TRUE
      BY <1>9
    <2> QED  BY <2>1, Zenon
  <1>12. (CHOOSE b \in {TRUE} : TRUE) = TRUE  OBVIOUS
  <1> QED  BY <1>10, <1>11, <1>12, Zenon

LEMMA AtPos ==
    ASSUME NEW h \in Machines, NEW p \in Nodes, p # NULL
    PROVE  at_pos(h, p) = [heap |-> h, pos |-> p, n |-> h.at[p].next]
  <1>1. [h EXCEPT !.null = @ \/ p = NULL] = h
    <2>1. (h.null \/ p = NULL) = h.null  BY DEF Machines
    <2> QED  BY <2>1 DEF Machines
  <1> QED  BY <1>1 DEF at_pos

LEMMA LeaveRound ==
    ASSUME NEW s, NEW head
    PROVE  round(s, head, leave) = IF s.pos = head THEN s ELSE at_pos(leave(s.heap, s.pos), s.n)
  <1>1. PICK g : g = leave(s.heap, s.pos)  OBVIOUS
  <1>2. (CHOOSE r \in {at_pos(y, s.n) : y \in {g}} : TRUE) = at_pos(g, s.n)
    OBVIOUS
  <1> QED  BY <1>1, <1>2, Zenon DEF round, With

\* The walk of sys_exit over the sons of its parent, after c rounds: it is at
\* the son after the c-th, and the j-th has left the ring.
LeaveAt(m, d, head, q, j, i) ==
    at_pos(IF i < j THEN m ELSE d,
           place("brothers", head, q, (IF i < Len(q) THEN i ELSE Len(q)) + 1))

\* p is the parent of the j-th of its sons q, which runs.
Leaving(m, d, p, q, j) ==
    /\ m \in Machines /\ p \in Tasks /\ q \in Seq(Tasks) /\ Distinct(q)
    /\ Ring(m.at, "brothers", Sons(p), q)
    /\ j \in 1 .. Len(q)
    /\ \A l \in 1 .. Len(q) : m.task[q[l]].PID = m.task[m.current].PID <=> l = j
    /\ d = list_del(m, Brothers(q[j]))

LEMMA NotNull ==
    ASSUME NEW k \in {"list", "brothers"}, NEW head, Heads(k, head), head # NULL,
           NEW q \in Seq(Tasks), NEW i \in Int
    PROVE  place(k, head, q, i) # NULL /\ place(k, head, q, i) \in Nodes
  BY Places DEF place, NULL

LEMMA LeaveStep ==
    ASSUME NEW m, NEW d, NEW p, NEW q, NEW j, Leaving(m, d, p, q, j), NEW i \in Nat
    PROVE  round(LeaveAt(m, d, Sons(p), q, j, i), Sons(p), leave)
             = LeaveAt(m, d, Sons(p), q, j, i + 1)
  <1>1. /\ m \in Machines /\ p \in Tasks /\ q \in Seq(Tasks) /\ Distinct(q)
        /\ Ring(m.at, "brothers", Sons(p), q)
        /\ j \in 1 .. Len(q)
        /\ \A l \in 1 .. Len(q) : m.task[q[l]].PID = m.task[m.current].PID <=> l = j
        /\ d = list_del(m, Brothers(q[j]))
    BY DEF Leaving
  <1>2. PICK n \in Nat : n = Len(q)  BY <1>1
  <1>3. PICK head : head = Sons(p)  OBVIOUS
  <1>4. Heads("brothers", head) /\ head # NULL  BY <1>1, <1>3, HeadsAre, NodesAre
  <1>5. Ring(m.at, "brothers", head, q)  BY <1>1, <1>3
  <1>6. \A a \in Int : place("brothers", head, q, a) # NULL /\ place("brothers", head, q, a) \in Nodes
    BY <1>1, <1>4, NotNull
  <1>7. PICK entry : entry = Brothers(q[j])  OBVIOUS
  <1>8. q[j] \in Tasks /\ entry \in Nodes /\ entry = place("brothers", head, q, j)
    BY <1>1, <1>2, <1>7, NodesAre DEF place, Brothers
  <1>9. Deleted(d.at, m.at, entry) /\ d \in Machines /\ Same(d, m)
    <2>1. d = list_del(m, entry)  BY <1>1, <1>7
    <2> QED  BY <1>1, <1>8, <2>1, Deleting DEF Kind
  <1>10. PICK c \in Nat : c = IF i < n THEN i ELSE n  BY <1>2
  <1>11. PICK x : x = place("brothers", head, q, c + 1)  OBVIOUS
  <1>12. PICK h : h = IF i < j THEN m ELSE d  OBVIOUS
  <1>13. PICK s : s = LeaveAt(m, d, head, q, j, i)  OBVIOUS
  <1>14. s = at_pos(h, x)  BY <1>2, <1>10, <1>11, <1>12, <1>13 DEF LeaveAt
  <1>15. h \in Machines /\ x \in Nodes /\ x # NULL
    <2>1. c + 1 \in Int  OBVIOUS
    <2> QED  BY <1>1, <1>6, <1>9, <1>11, <1>12, <2>1
  <1>16. s.heap = h /\ s.pos = x /\ s.n = h.at[x].next  BY <1>14, <1>15, AtPos
  <1>17. CASE i >= n
    <2>1. c = n /\ x = head  BY <1>2, <1>10, <1>11, <1>17 DEF place
    <2>2. LeaveAt(m, d, head, q, j, i + 1) = s
      <3>1. (IF i + 1 < n THEN i + 1 ELSE n) = n /\ ~(i < j) /\ ~(i + 1 < j)
        BY <1>1, <1>2, <1>17
      <3>2. h = d  BY <1>12, <3>1
      <3>3. (IF i + 1 < Len(q) THEN i + 1 ELSE Len(q)) = n  BY <1>2, <3>1
      <3> QED  BY <1>11, <1>14, <2>1, <3>1, <3>2, <3>3 DEF LeaveAt
    <2>3. round(s, head, leave) = s  BY <1>16, <2>1, LeaveRound
    <2> QED  BY <1>3, <1>13, <2>2, <2>3
  <1>18. CASE i < n
    <2>1. PICK l : l = i + 1  OBVIOUS
    <2>2. l \in 1 .. n /\ c = i /\ l \in 1 .. Len(q) /\ l \in 0 .. Len(q)
      BY <1>2, <1>10, <1>18, <2>1
    <2>3. x = place("brothers", head, q, l) /\ x = <<"brothers", q[l]>>
      BY <1>11, <2>1, <2>2 DEF place
    <2>4. x # head  BY <1>1, <1>4, <2>2, <2>3 DEF Heads
    <2>5. PICK y : y = place("brothers", head, q, l + 1)  OBVIOUS
    <2>6. s.n = y
      <3>1. m.at[x].next = y  BY <1>5, <2>2, <2>3, <2>5 DEF Ring
      <3>2. ASSUME ~(i < j) PROVE d.at[x].next = y
        <4>1. PICK b : b = j - 1  OBVIOUS
        <4>2. b \in 0 .. Len(q) /\ b # l /\ j # l /\ j \in 0 .. Len(q) /\ b + 1 = j
          BY <1>1, <1>2, <2>1, <3>2, <4>1
        <4>3. x # entry  BY <1>1, <1>4, <1>8, <2>2, <2>3, <4>2, PlacesDiffer
        <4>4. x # place("brothers", head, q, b)
          BY <1>1, <1>4, <2>2, <2>3, <4>2, PlacesDiffer
        <4>5. m.at[entry].prev = place("brothers", head, q, b)
          BY <1>5, <1>8, <4>2 DEF Ring
        <4> QED  BY <1>9, <1>15, <3>1, <4>3, <4>4, <4>5 DEF Deleted
      <3> QED  BY <1>12, <1>16, <3>1, <3>2
    <2>7. PICK g : g = IF i + 1 < j THEN m ELSE d  OBVIOUS
    <2>8. leave(h, x) = g
      <3>1. PID_of(h, x) = h.task[q[l]].PID
        BY <2>3 DEF PID_of
      <3>2. h.task = m.task /\ h.current = m.current
        BY <1>9, <1>12 DEF Same
      <3>3. (PID_of(h, x) = h.task[h.current].PID) <=> l = j
        BY <1>1, <2>2, <3>1, <3>2
      <3>4. CASE l = j
        <4>1. h = m /\ x = entry /\ g = d
          BY <1>8, <1>12, <2>1, <2>3, <2>7, <3>4
        <4> QED  BY <1>1, <1>7, <3>3, <3>4, <4>1 DEF leave
      <3>5. CASE l # j
        <4>1. g = h  BY <1>1, <1>12, <2>1, <2>7, <3>5
        <4> QED  BY <3>3, <3>5, <4>1 DEF leave
      <3> QED  BY <3>4, <3>5
    <2>9. round(s, head, leave) = at_pos(g, y)
      BY <1>16, <2>4, <2>6, <2>8, LeaveRound
    <2>10. LeaveAt(m, d, head, q, j, i + 1) = at_pos(g, y)
      <3>1. (IF i + 1 < Len(q) THEN i + 1 ELSE Len(q)) = l
        BY <1>2, <2>1, <2>2
      <3> QED  BY <2>5, <2>7, <3>1 DEF LeaveAt
    <2> QED  BY <1>3, <1>13, <2>9, <2>10
  <1> QED  BY <1>2, <1>17, <1>18

IsLeave(w, m, head, fuel) ==
    w = [i \in 0 .. fuel |-> IF i = 0 THEN at_pos(m, m.at[head].next)
                             ELSE round(w[i - 1], head, leave)]

LEMMA LeaveBegins ==
    ASSUME NEW m, NEW d, NEW p, NEW q, NEW j, Leaving(m, d, p, q, j)
    PROVE  at_pos(m, m.at[Sons(p)].next) = LeaveAt(m, d, Sons(p), q, j, 0)
  <1>1. /\ q \in Seq(Tasks) /\ Ring(m.at, "brothers", Sons(p), q) /\ j \in 1 .. Len(q)
    BY DEF Leaving
  <1>2. 0 < j /\ (IF 0 < Len(q) THEN 0 ELSE Len(q)) + 1 = 1 /\ 0 \in 0 .. Len(q)  BY <1>1
  <1>3. m.at[Sons(p)].next = place("brothers", Sons(p), q, 1)
    <2>1. place("brothers", Sons(p), q, 0) = Sons(p)  BY DEF place
    <2> QED  BY <1>1, <1>2, <2>1 DEF Ring
  <1> QED  BY <1>2, <1>3 DEF LeaveAt

LEMMA LeaveExists ==
    ASSUME NEW m, NEW d, NEW p, NEW q, NEW j, Leaving(m, d, p, q, j), NEW fuel \in Nat
    PROVE  IsLeave([i \in 0 .. fuel |-> LeaveAt(m, d, Sons(p), q, j, i)], m, Sons(p), fuel)
  <1>1. PICK w : w = [i \in 0 .. fuel |-> LeaveAt(m, d, Sons(p), q, j, i)]  OBVIOUS
  <1>2. ASSUME NEW i \in 0 .. fuel
        PROVE  w[i] = IF i = 0 THEN at_pos(m, m.at[Sons(p)].next)
                      ELSE round(w[i - 1], Sons(p), leave)
    <2>1. CASE i = 0  BY <1>1, <2>1, LeaveBegins
    <2>2. CASE i # 0
      <3>1. PICK l : l = i - 1  OBVIOUS
      <3>2. l \in Nat /\ l \in 0 .. fuel /\ i = l + 1  BY <2>2, <3>1
      <3>3. round(LeaveAt(m, d, Sons(p), q, j, l), Sons(p), leave) = LeaveAt(m, d, Sons(p), q, j, i)
        BY <3>2, LeaveStep
      <3>4. w[l] = LeaveAt(m, d, Sons(p), q, j, l)  BY <1>1, <3>2
      <3>5. w[i] = LeaveAt(m, d, Sons(p), q, j, i)  BY <1>1
      <3> QED  BY <2>2, <3>1, <3>3, <3>4, <3>5
    <2> QED  BY <2>1, <2>2
  <1>3. w = [i \in 0 .. fuel |-> w[i]]  BY <1>1
  <1>4. IsLeave(w, m, Sons(p), fuel)  BY <1>2, <1>3 DEF IsLeave
  <1> QED  BY <1>1, <1>4

LEMMA LeaveIs ==
    ASSUME NEW m, NEW d, NEW p, NEW q, NEW j, Leaving(m, d, p, q, j), NEW fuel \in Nat,
           NEW w, IsLeave(w, m, Sons(p), fuel)
    PROVE  w[fuel] = LeaveAt(m, d, Sons(p), q, j, fuel)
  <1> DEFINE T == {i \in Nat : i <= fuel => w[i] = LeaveAt(m, d, Sons(p), q, j, i)}
  <1>1. 0 \in T
    <2>1. w[0] = at_pos(m, m.at[Sons(p)].next)  BY DEF IsLeave
    <2> QED  BY <2>1, LeaveBegins
  <1>2. ASSUME NEW i \in Nat, i \in T PROVE i + 1 \in T
    <2>1. CASE i + 1 <= fuel
      <3>1. PICK l : l = i + 1  OBVIOUS
      <3>2. l \in 0 .. fuel /\ l # 0 /\ l - 1 = i  BY <2>1, <3>1
      <3>3. w[l] = round(w[i], Sons(p), leave)  BY <3>2 DEF IsLeave
      <3>4. w[i] = LeaveAt(m, d, Sons(p), q, j, i)  BY <1>2, <2>1
      <3>5. w[l] = LeaveAt(m, d, Sons(p), q, j, l)  BY <3>1, <3>3, <3>4, LeaveStep
      <3> QED  BY <3>1, <3>5
    <2> QED  BY <2>1
  <1>3. Nat \subseteq T
    <2> HIDE DEF T
    <2> QED  BY <1>1, <1>2, Induction
  <1> QED  BY <1>3

\* What the walk does: the running process leaves the ring, and it ends.
LEMMA LeaveLoop ==
    ASSUME NEW m, NEW d, NEW p, NEW q, NEW j, Leaving(m, d, p, q, j), Len(q) <= 2 * Fuel,
           2 * Fuel \in Nat
    PROVE  for_each(m, Sons(p), leave) = d
  <1>1. PICK fuel \in Nat : fuel = 2 * Fuel  OBVIOUS
  <1>2. PICK head : head = Sons(p)  OBVIOUS
  <1>3. PICK x : x = CHOOSE loop : loop = [i \in 0 .. fuel |->
             IF i = 0 THEN CHOOSE r \in {at_pos(y, y.at[head].next) : y \in {m}} : TRUE
             ELSE CHOOSE r \in {round(y, head, leave) : y \in {loop[i - 1]}} : TRUE]
    OBVIOUS
  <1>4. \A w : w = [i \in 0 .. fuel |->
             IF i = 0 THEN CHOOSE r \in {at_pos(y, y.at[head].next) : y \in {m}} : TRUE
             ELSE CHOOSE r \in {round(y, head, leave) : y \in {w[i - 1]}} : TRUE]
          <=> IsLeave(w, m, head, fuel)
    <2>1. \A v : (CHOOSE r \in {round(y, head, leave) : y \in {v}} : TRUE) = round(v, head, leave)
      OBVIOUS
    <2>2. (CHOOSE r \in {at_pos(y, y.at[head].next) : y \in {m}} : TRUE) = at_pos(m, m.at[head].next)
      OBVIOUS
    <2> QED  BY <2>1, <2>2, Zenon DEF IsLeave
  <1>5. IsLeave(x, m, head, fuel)
    <2>1. \E w : IsLeave(w, m, head, fuel)  BY <1>2, LeaveExists
    <2> QED  BY <1>3, <1>4, <2>1
  <1>6. list_for_each_safe(m, head, fuel, leave) = x[fuel]
    BY <1>3, Zenon DEF list_for_each_safe, With
  <1>7. PICK e : e = x[fuel]  OBVIOUS
  <1>8. e = LeaveAt(m, d, head, q, j, fuel)  BY <1>2, <1>5, <1>7, LeaveIs
  <1>9. e.heap = d /\ e.pos = head
    <2>1. /\ m \in Machines /\ p \in Tasks /\ q \in Seq(Tasks) /\ j \in 1 .. Len(q)
          /\ d = list_del(m, Brothers(q[j]))
      BY DEF Leaving
    <2>2. ~(fuel < j) /\ (IF fuel < Len(q) THEN fuel ELSE Len(q)) + 1 = Len(q) + 1
      BY <1>1, <2>1
    <2>3. place("brothers", head, q, Len(q) + 1) = head  BY <2>1 DEF place
    <2>4. e = at_pos(d, head)  BY <1>8, <2>2, <2>3 DEF LeaveAt
    <2>5. head \in Nodes /\ head # NULL /\ q[j] \in Tasks  BY <1>2, <2>1, NodesAre
    <2>6. d \in Machines
      <3>1. Brothers(q[j]) \in Nodes  BY <2>5, NodesAre
      <3> QED  BY <2>1, <3>1, Deleting DEF Kind
    <2> QED  BY <2>4, <2>5, <2>6, AtPos
  <1>10. \A v : (CHOOSE r \in {IF y.pos = head THEN y.heap ELSE [y.heap EXCEPT !.hung = TRUE] : y \in {v}} : TRUE)
               = IF v.pos = head THEN v.heap ELSE [v.heap EXCEPT !.hung = TRUE]
    <2> TAKE v
    <2>1. PICK f : f = IF v.pos = head THEN v.heap ELSE [v.heap EXCEPT !.hung = TRUE]  OBVIOUS
    <2>2. {IF y.pos = head THEN y.heap ELSE [y.heap EXCEPT !.hung = TRUE] : y \in {v}} = {f}
      BY <2>1, Zenon
    <2>3. (CHOOSE r \in {f} : TRUE) = f  OBVIOUS
    <2> QED  BY <2>1, <2>2, <2>3, Zenon
  <1>11. for_each(m, head, leave) = IF e.pos = head THEN e.heap ELSE [e.heap EXCEPT !.hung = TRUE]
    <2>1. for_each(m, head, leave) =
            CHOOSE r \in {IF y.pos = head THEN y.heap ELSE [y.heap EXCEPT !.hung = TRUE] :
                            y \in {list_for_each_safe(m, head, 2 * Fuel, leave)}} : TRUE
      BY Zenon DEF for_each, With
    <2>2. list_for_each_safe(m, head, 2 * Fuel, leave) = e  BY <1>1, <1>6, <1>7
    <2> QED  BY <1>10, <2>1, <2>2, Zenon
  <1> QED  BY <1>2, <1>9, <1>11

IsHandOver(w, s, head, fuel) ==
    w = [i \in 0 .. fuel |-> IF i = 0 THEN s ELSE round(w[i - 1], head, to_idle)]

\* A walk over no sons.
LEMMA HandOverNone ==
    ASSUME NEW m \in Machines, list_empty(m, Sons(m.current)), 2 * Fuel \in Nat
    PROVE  hand_over_sons(m) = m
  <1>1. PICK fuel \in Nat : fuel = 2 * Fuel  OBVIOUS
  <1>2. PICK head : head = Sons(m.current)  OBVIOUS
  <1>3. head \in Nodes /\ head # NULL /\ m.at[head].next = head
    <2>1. m.current \in Tasks  BY DEF Machines
    <2> QED  BY <1>2, <2>1, NodesAre DEF list_empty
  <1>4. PICK s : s = at_pos(m, head)  OBVIOUS
  <1>5. s.heap = m /\ s.pos = head  BY <1>3, <1>4, AtPos
  <1>6. round(s, head, to_idle) = s  BY <1>5, Zenon DEF round
  <1>7. PICK x : x = CHOOSE loop : loop = [i \in 0 .. fuel |->
             IF i = 0 THEN CHOOSE r \in {at_pos(y, y.at[head].next) : y \in {m}} : TRUE
             ELSE CHOOSE r \in {round(y, head, to_idle) : y \in {loop[i - 1]}} : TRUE]
    OBVIOUS
  <1>8. \A w : w = [i \in 0 .. fuel |->
             IF i = 0 THEN CHOOSE r \in {at_pos(y, y.at[head].next) : y \in {m}} : TRUE
             ELSE CHOOSE r \in {round(y, head, to_idle) : y \in {w[i - 1]}} : TRUE]
          <=> IsHandOver(w, s, head, fuel)
    <2>1. \A v : (CHOOSE r \in {round(y, head, to_idle) : y \in {v}} : TRUE) = round(v, head, to_idle)
      OBVIOUS
    <2>2. (CHOOSE r \in {at_pos(y, y.at[head].next) : y \in {m}} : TRUE) = s
      <3>1. (CHOOSE r \in {at_pos(y, y.at[head].next) : y \in {m}} : TRUE) = at_pos(m, m.at[head].next)
        OBVIOUS
      <3> QED  BY <1>3, <1>4, <3>1
    <2> QED  BY <2>1, <2>2, Zenon DEF IsHandOver
  <1>9. \E w : IsHandOver(w, s, head, fuel)
    <2>1. PICK w : w = [i \in 0 .. fuel |-> s]  OBVIOUS
    <2>2. ASSUME NEW i \in 0 .. fuel PROVE w[i] = IF i = 0 THEN s ELSE round(w[i - 1], head, to_idle)
      <3>1. CASE i = 0  BY <2>1, <3>1
      <3>2. CASE i # 0
        <4>1. i - 1 \in 0 .. fuel  BY <3>2
        <4>2. w[i - 1] = s  BY <2>1, <4>1
        <4>3. w[i] = s  BY <2>1
        <4> QED  BY <1>6, <3>2, <4>2, <4>3
      <3> QED  BY <3>1, <3>2
    <2>3. w = [i \in 0 .. fuel |-> w[i]]  BY <2>1
    <2>4. IsHandOver(w, s, head, fuel)  BY <2>2, <2>3 DEF IsHandOver
    <2> QED  BY <2>4
  <1>10. x = [i \in 0 .. fuel |-> IF i = 0 THEN s ELSE round(x[i - 1], head, to_idle)]
    <2>1. IsHandOver(x, s, head, fuel)  BY <1>7, <1>8, <1>9
    <2> QED  BY <2>1 DEF IsHandOver
  <1>11. x[fuel] = s
    <2> DEFINE T == {i \in Nat : i <= fuel => x[i] = s}
    <2>1. 0 \in T  BY <1>10
    <2>2. ASSUME NEW i \in Nat, i \in T PROVE i + 1 \in T
      <3>1. CASE i + 1 <= fuel
        <4>1. PICK l : l = i + 1  OBVIOUS
        <4>2. l \in 0 .. fuel /\ l # 0 /\ l - 1 = i  BY <3>1, <4>1
        <4>3. x[l] = round(x[i], head, to_idle)  BY <1>10, <4>2
        <4>4. x[i] = s  BY <2>2, <3>1
        <4>5. x[l] = s  BY <1>6, <4>3, <4>4
        <4> QED  BY <4>1, <4>5
      <3> QED  BY <3>1
    <2>3. Nat \subseteq T
      <3> HIDE DEF T
      <3> QED  BY <2>1, <2>2, Induction
    <2> QED  BY <2>3
  <1>12. list_for_each_safe(m, head, fuel, to_idle) = x[fuel]
    BY <1>7, Zenon DEF list_for_each_safe, With
  <1>13. \A v : v.pos = head =>
           (CHOOSE r \in {IF y.pos = head THEN y.heap ELSE [y.heap EXCEPT !.hung = TRUE] : y \in {v}} : TRUE)
               = v.heap
    <2> TAKE v
    <2> HAVE v.pos = head
    <2>1. PICK f : f = v.heap  OBVIOUS
    <2>2. {IF y.pos = head THEN y.heap ELSE [y.heap EXCEPT !.hung = TRUE] : y \in {v}} = {f}
      BY <2>1, Zenon
    <2>3. (CHOOSE r \in {f} : TRUE) = f  OBVIOUS
    <2> QED  BY <2>1, <2>2, <2>3, Zenon
  <1>14. hand_over_sons(m) = s.heap
    <2>1. hand_over_sons(m) =
            CHOOSE r \in {IF y.pos = head THEN y.heap ELSE [y.heap EXCEPT !.hung = TRUE] :
                            y \in {list_for_each_safe(m, head, 2 * Fuel, to_idle)}} : TRUE
      BY <1>2, Zenon DEF hand_over_sons, for_each, With
    <2>2. list_for_each_safe(m, head, 2 * Fuel, to_idle) = s  BY <1>1, <1>11, <1>12
    <2> QED  BY <1>5, <1>13, <2>1, <2>2, Zenon
  <1> QED  BY <1>5, <1>14

-----------------------------------------------------------------------------
(* What an operation on one ring does to the other pointers.               *)

\* at2 differs from at in the nodes of N only.
Touches(at2, at, N) ==
    \A x \in Nodes \ N : at2[x].next = at[x].next /\ at2[x].prev = at[x].prev

\* g is h with other pointers, and no null pointer was followed.
Moved(g, h, N) ==
    /\ g \in Machines /\ Same(g, h) /\ (g.null <=> h.null)
    /\ Touches(g.at, h.at, N)

LEMMA MovedTrans ==
    ASSUME NEW f, NEW g, NEW h, NEW N, Moved(f, g, N), Moved(g, h, N)
    PROVE  Moved(f, h, N)
  BY DEF Moved, Same, Touches

LEMMA MovedMore ==
    ASSUME NEW g, NEW h, NEW N, NEW M, Moved(g, h, N), N \subseteq M
    PROVE  Moved(g, h, M)
  BY DEF Moved, Touches

Kinds == {"list", "brothers"}

\* A ring of its own at head: head is not null, and q names the tasks in it.
Own(at, k, head, q) ==
    /\ k \in Kinds /\ Heads(k, head) /\ head # NULL
    /\ q \in Seq(Tasks) /\ Distinct(q) /\ Ring(at, k, head, q)

LEMMA AroundNotNull ==
    ASSUME NEW k \in Kinds, NEW head, Heads(k, head), head # NULL, NEW q \in Seq(Tasks)
    PROVE  NULL \notin Around(k, head, q) /\ Around(k, head, q) \subseteq Nodes
  <1>1. \A t \in In(q) : t \in Tasks  BY DEF In
  <1> QED  BY <1>1 DEF Around, Heads, Kinds, NULL

LEMMA NewNode ==
    ASSUME NEW k \in Kinds, NEW head, Heads(k, head), NEW t \in Tasks
    PROVE  <<k, t>> \in Nodes /\ <<k, t>> # NULL /\ <<k, t>> # head
  BY DEF Heads, Kinds, NULL

LEMMA JoinTail ==
    ASSUME NEW h \in Machines, NEW k, NEW head, NEW q, Own(h.at, k, head, q),
           NEW t \in Tasks, t \notin In(q),
           NEW g, g = list_add_tail(h, <<k, t>>, head)
    PROVE  /\ Own(g.at, k, head, Append(q, t))
           /\ Moved(g, h, Around(k, head, q) \cup {<<k, t>>})
  <1>1. /\ k \in Kinds /\ Heads(k, head) /\ head # NULL
        /\ q \in Seq(Tasks) /\ Distinct(q) /\ Ring(h.at, k, head, q)
    BY DEF Own
  <1>2. <<k, t>> \in Nodes /\ <<k, t>> # NULL /\ head \in Nodes
    BY <1>1, NewNode DEF Heads
  <1>3. head \in Around(k, head, q)  BY DEF Around
  <1>4. PICK p : p = h.at[head].prev  OBVIOUS
  <1>5. p \in Around(k, head, q) /\ p # NULL
    <2>1. p \in Around(k, head, q)  BY <1>1, <1>3, <1>4, RingClosed
    <2> QED  BY <1>1, <2>1, AroundNotNull
  <1>6. /\ Added(g.at, h.at, <<k, t>>, p, head)
        /\ (g.null <=> h.null \/ NULL \in {<<k, t>>, head, p})
        /\ Kind(g, h)
    BY <1>2, <1>4, AddingTail
  <1>7. Ring(g.at, k, head, Append(q, t))
    BY <1>1, <1>4, <1>6, RingTail
  <1>8. Append(q, t) \in Seq(Tasks) /\ Distinct(Append(q, t))
    BY <1>1 DEF Distinct, In
  <1>9. Moved(g, h, Around(k, head, q) \cup {<<k, t>>})
    <2>1. g \in Machines /\ Same(g, h)  BY <1>6 DEF Kind
    <2>2. g.null <=> h.null  BY <1>1, <1>2, <1>5, <1>6
    <2>3. Touches(g.at, h.at, Around(k, head, q) \cup {<<k, t>>})
      BY <1>3, <1>5, <1>6 DEF Touches, Added
    <2> QED  BY <2>1, <2>2, <2>3 DEF Moved
  <1> QED  BY <1>1, <1>7, <1>8, <1>9 DEF Own

LEMMA JoinHeadAny ==
    ASSUME NEW h, h \in Machines \/ h \in Heaps, NEW k, NEW head, NEW q, Own(h.at, k, head, q),
           NEW t \in Tasks, t \notin In(q),
           NEW g, g = list_add(h, <<k, t>>, head)
    PROVE  /\ Own(g.at, k, head, <<t>> \o q)
           /\ Kind(g, h) /\ (g.null <=> h.null)
           /\ Touches(g.at, h.at, Around(k, head, q) \cup {<<k, t>>})
  <1>1. /\ k \in Kinds /\ Heads(k, head) /\ head # NULL
        /\ q \in Seq(Tasks) /\ Distinct(q) /\ Ring(h.at, k, head, q)
    BY DEF Own
  <1>2. <<k, t>> \in Nodes /\ <<k, t>> # NULL /\ head \in Nodes
    BY <1>1, NewNode DEF Heads
  <1>3. head \in Around(k, head, q)  BY DEF Around
  <1>4. PICK p : p = h.at[head].next  OBVIOUS
  <1>5. p \in Around(k, head, q) /\ p # NULL
    <2>1. p \in Around(k, head, q)  BY <1>1, <1>3, <1>4, RingClosed
    <2> QED  BY <1>1, <2>1, AroundNotNull
  <1>6. /\ Added(g.at, h.at, <<k, t>>, head, p)
        /\ (g.null <=> h.null \/ NULL \in {<<k, t>>, head, p})
        /\ Kind(g, h)
    BY <1>2, <1>4, AddingHead
  <1>7. Ring(g.at, k, head, <<t>> \o q)
    BY <1>1, <1>4, <1>6, RingHead
  <1>8. <<t>> \o q \in Seq(Tasks) /\ Distinct(<<t>> \o q)
    <2>1. PICK q2 : q2 = <<t>> \o q  OBVIOUS
    <2>2. PICK n \in Nat : n = Len(q)  BY <1>1
    <2>3. q2 \in Seq(Tasks) /\ Len(q2) = n + 1 /\ q2[1] = t  BY <1>1, <2>1, <2>2
    <2>4. \A i \in 2 .. n + 1 : q2[i] = q[i - 1] /\ i - 1 \in 1 .. n  BY <1>1, <2>1, <2>2
    <2>5. \A i \in 2 .. n + 1 : q2[i] # t
      <3>1. \A i \in 1 .. n : q[i] # t  BY <2>2 DEF In
      <3> QED  BY <2>4, <3>1
    <2>6. ASSUME NEW i \in 1 .. n + 1, NEW l \in 1 .. n + 1, q2[i] = q2[l] PROVE i = l
      <3>1. CASE i = 1 \/ l = 1
        BY <2>3, <2>5, <2>6, <3>1
      <3>2. CASE i # 1 /\ l # 1
        <4>1. i \in 2 .. n + 1 /\ l \in 2 .. n + 1  BY <2>2, <3>2
        <4>2. PICK a, b : a = i - 1 /\ b = l - 1  OBVIOUS
        <4>3. q[a] = q[b] /\ a \in 1 .. Len(q) /\ b \in 1 .. Len(q)
          BY <2>2, <2>4, <2>6, <4>1, <4>2
        <4>4. a = b  BY <1>1, <4>3 DEF Distinct
        <4> QED  BY <4>1, <4>2, <4>4
      <3> QED  BY <3>1, <3>2
    <2> QED  BY <2>1, <2>3, <2>6 DEF Distinct
  <1>9. Touches(g.at, h.at, Around(k, head, q) \cup {<<k, t>>})
    BY <1>3, <1>5, <1>6 DEF Touches, Added
  <1>10. g.null <=> h.null  BY <1>1, <1>2, <1>5, <1>6
  <1> QED  BY <1>1, <1>6, <1>7, <1>8, <1>9, <1>10 DEF Own

LEMMA JoinHead ==
    ASSUME NEW h \in Machines, NEW k, NEW head, NEW q, Own(h.at, k, head, q),
           NEW t \in Tasks, t \notin In(q),
           NEW g, g = list_add(h, <<k, t>>, head)
    PROVE  /\ Own(g.at, k, head, <<t>> \o q)
           /\ Moved(g, h, Around(k, head, q) \cup {<<k, t>>})
  <1>1. /\ Own(g.at, k, head, <<t>> \o q)
        /\ Kind(g, h) /\ (g.null <=> h.null)
        /\ Touches(g.at, h.at, Around(k, head, q) \cup {<<k, t>>})
    BY JoinHeadAny
  <1> QED  BY <1>1 DEF Moved, Kind

\* g is h, where the j-th node of the ring has left it.
HasQuit(g, h, k, head, q, j) ==
    /\ Own(g.at, k, head, Removed(q, j))
    /\ Kind(g, h) /\ (g.null <=> h.null) /\ Touches(g.at, h.at, Around(k, head, q))
    /\ g.at[<<k, q[j]>>].next = NULL /\ g.at[<<k, q[j]>>].prev = NULL

LEMMA QuitAny ==
    ASSUME NEW h, h \in Machines \/ h \in Heaps, NEW k, NEW head, NEW q, Own(h.at, k, head, q),
           NEW j \in 1 .. Len(q),
           NEW g, g = list_del(h, <<k, q[j]>>)
    PROVE  HasQuit(g, h, k, head, q, j)
  <1>1. /\ k \in Kinds /\ Heads(k, head) /\ head # NULL
        /\ q \in Seq(Tasks) /\ Distinct(q) /\ Ring(h.at, k, head, q)
    BY DEF Own
  <1>2. PICK entry : entry = <<k, q[j]>>  OBVIOUS
  <1>3. q[j] \in Tasks /\ q[j] \in In(q)  BY <1>1 DEF In
  <1>4. entry \in Nodes /\ entry # NULL /\ entry \in Around(k, head, q)
    BY <1>1, <1>2, <1>3, NewNode DEF Around
  <1>5. PICK p, n : p = h.at[entry].prev /\ n = h.at[entry].next  OBVIOUS
  <1>6. p \in Around(k, head, q) /\ n \in Around(k, head, q)
    BY <1>1, <1>4, <1>5, RingClosed
  <1>7. p # NULL /\ n # NULL  BY <1>1, <1>6, AroundNotNull
  <1>8. /\ Deleted(g.at, h.at, entry)
        /\ (g.null <=> h.null \/ NULL \in {entry, n, p})
        /\ Kind(g, h)
    BY <1>2, <1>4, <1>5, Deleting
  <1>9. Ring(g.at, k, head, Removed(q, j))
    BY <1>1, <1>2, <1>8, RingRemove
  <1>10. Removed(q, j) \in Seq(Tasks) /\ Distinct(Removed(q, j))
    BY <1>1, RemovedIs
  <1>11. Touches(g.at, h.at, Around(k, head, q))
    BY <1>4, <1>5, <1>6, <1>8 DEF Touches, Deleted
  <1>12. g.at[entry].next = NULL /\ g.at[entry].prev = NULL
    BY <1>4, <1>8 DEF Deleted
  <1>13. g.null <=> h.null  BY <1>4, <1>7, <1>8
  <1> QED  BY <1>1, <1>2, <1>8, <1>9, <1>10, <1>11, <1>12, <1>13 DEF Own, HasQuit

LEMMA Quit ==
    ASSUME NEW h \in Machines, NEW k, NEW head, NEW q, Own(h.at, k, head, q),
           NEW j \in 1 .. Len(q),
           NEW g, g = list_del(h, <<k, q[j]>>)
    PROVE  /\ Own(g.at, k, head, Removed(q, j))
           /\ Moved(g, h, Around(k, head, q))
           /\ g.at[<<k, q[j]>>].next = NULL /\ g.at[<<k, q[j]>>].prev = NULL
  <1>1. HasQuit(g, h, k, head, q, j)  BY QuitAny
  <1> QED  BY <1>1 DEF HasQuit, Moved, Kind

LEMMA OwnStays ==
    ASSUME NEW at, NEW at2, NEW k, NEW head, NEW q, Own(at, k, head, q),
           NEW N, Touches(at2, at, N), N \cap Around(k, head, q) = {}
    PROVE  Own(at2, k, head, q)
  <1>1. /\ k \in Kinds /\ Heads(k, head) /\ head # NULL
        /\ q \in Seq(Tasks) /\ Distinct(q) /\ Ring(at, k, head, q)
    BY DEF Own
  <1>2. Around(k, head, q) \subseteq Nodes  BY <1>1, AroundNotNull
  <1>3. \A x \in Around(k, head, q) : at2[x].next = at[x].next /\ at2[x].prev = at[x].prev
    BY <1>2 DEF Touches
  <1>4. Ring(at2, k, head, q)  BY <1>1, <1>3, RingStays
  <1> QED  BY <1>1, <1>4 DEF Own

-----------------------------------------------------------------------------
(* What holds as long as every process outlives its sons: fq and rq are    *)
(* the slots of the two queues and kids[t] the sons of process t, in the   *)
(* order of their rings.                                                   *)

\* The queues are rings, and hold every slot but the count ones of out.
Queues(at, fq, rq, out, count) ==
    /\ Own(at, "list", freequeue, fq) /\ Own(at, "list", readyqueue, rq)
    /\ In(fq) \cap In(rq) = {} /\ (In(fq) \cup In(rq)) \cap out = {}
    /\ In(fq) \cup In(rq) \cup out = Tasks
    /\ Len(fq) + Len(rq) + count = NR_TASKS

Families(at, kids, live) == \A t \in live : Own(at, "brothers", Sons(t), kids[t])

\* The sons of a process are those it forked; all but the initial process
\* have a parent, and it lives.
Kinship(task_, kids, live) ==
    /\ kids \in [Tasks -> Seq(Tasks)] /\ live \subseteq Tasks
    /\ \A t \in live : In(kids[t]) = {u \in live : task_[u].pParent = t}
    /\ \A u \in live \ {Init1} : task_[u].pParent \in live /\ task_[u].pParent # u
    /\ Init1 \in live /\ task_[Init1].pParent = NoTask

Names(task_, last, live) ==
    /\ \A u \in live : task_[u].PID <= last
    /\ \A u, v \in live : task_[u].PID = task_[v].PID => u = v

Related(m, kids, live) ==
    /\ Families(m.at, kids, live)
    /\ Kinship(m.task, kids, live)
    /\ Names(m.task, m.global_pids, live)

\* Where List(t) of the running process points to: nowhere or, since it
\* called block, to the list nobody initialized.
Running1(m) ==
    /\ m.task[m.current].state \in {"ST_RUN", "ST_BLOCKED"}
    /\ m.task[m.current].state = "ST_RUN" =>
          m.at[List(m.current)].next = NULL /\ m.at[blocked].prev = NULL
    /\ m.task[m.current].state = "ST_BLOCKED" =>
          /\ m.at[List(m.current)].next = blocked /\ m.at[blocked].prev = List(m.current)
          /\ HasPage0(m.current)
    /\ m.at[List(m.current)].prev = NULL

AllReady(m, rq) == \A u \in In(rq) : m.task[u].state = "ST_READY"
Alive(m, rq) == In(rq) \cup {m.current}

Good(m, fq, rq, kids) ==
    /\ m \in Machines /\ m.current # Idle
    /\ Queues(m.at, fq, rq, {m.current, Idle}, 2)
    /\ Related(m, kids, Alive(m, rq))
    /\ AllReady(m, rq) /\ Running1(m)

\* Between two processes: all are ready.
Waiting(m, fq, rq, kids) ==
    /\ m \in Machines
    /\ Queues(m.at, fq, rq, {Idle}, 1)
    /\ Related(m, kids, In(rq))
    /\ AllReady(m, rq) /\ m.at[blocked].prev = NULL

FamilyNodes(live) == {Sons(t) : t \in live} \cup {Brothers(t) : t \in live}
QueueNodes == {freequeue, readyqueue, blocked, NULL} \cup {List(t) : t \in Tasks}

\* g says of the processes in live what h says.
Agree(g, h, live) ==
    /\ g.global_pids = h.global_pids
    /\ \A u \in live : g.task[u].PID = h.task[u].PID /\ g.task[u].pParent = h.task[u].pParent

\* No null pointer was followed but in a process that has page 0.
Safe(g, m) == g.null => m.null \/ HasPage0(m.current)

LEMMA Slots ==
    /\ Idle \in Tasks /\ Init1 \in Tasks /\ Idle # Init1 /\ NoTask \notin Tasks
    /\ NR_TASKS \in Nat /\ QUANTUM \in Nat /\ QUANTUM # 0
    /\ Fuel \in Nat /\ 2 * Fuel \in Nat /\ NR_TASKS < Fuel /\ NR_TASKS <= 2 * Fuel
  BY E2Assumption DEF Idle, Init1, Tasks, NoTask, Fuel

LEMMA InTasks == ASSUME NEW q \in Seq(Tasks) PROVE In(q) \subseteq Tasks
  BY DEF In

LEMMA QueueFamily == QueueNodes \cap FamilyNodes(Tasks) = {}
  <1> SUFFICES ASSUME NEW x \in QueueNodes, x \in FamilyNodes(Tasks) PROVE FALSE  OBVIOUS
  <1>1. PICK t \in Tasks : x = Sons(t) \/ x = Brothers(t)  BY DEF FamilyNodes
  <1>2. x \in {freequeue, readyqueue, blocked, NULL} \/ \E s \in Tasks : x = List(s)
    BY DEF QueueNodes
  <1> QED  BY <1>1, <1>2, NodesAre

LEMMA AroundQueue ==
    ASSUME NEW head \in {freequeue, readyqueue}, NEW q \in Seq(Tasks)
    PROVE  Around("list", head, q) \subseteq QueueNodes
  BY InTasks DEF Around, QueueNodes, List

LEMMA FamiliesStay ==
    ASSUME NEW at, NEW at2, NEW kids, NEW live, Families(at, kids, live), live \subseteq Tasks,
           \A t \in live : In(kids[t]) \subseteq live,
           NEW N, Touches(at2, at, N), N \cap FamilyNodes(live) = {}
    PROVE  Families(at2, kids, live)
  <1> SUFFICES ASSUME NEW t \in live PROVE Own(at2, "brothers", Sons(t), kids[t])
    BY DEF Families
  <1>1. Own(at, "brothers", Sons(t), kids[t])  BY DEF Families
  <1>2. Around("brothers", Sons(t), kids[t]) \subseteq FamilyNodes(live)
    BY DEF Around, FamilyNodes, Brothers
  <1>3. N \cap Around("brothers", Sons(t), kids[t]) = {}  BY <1>2
  <1> QED  BY <1>1, <1>3, OwnStays

LEMMA KinshipSame ==
    ASSUME NEW task_, NEW task2, NEW kids, NEW live, Kinship(task_, kids, live),
           \A x \in live : task2[x].pParent = task_[x].pParent
    PROVE  Kinship(task2, kids, live)
  <1>1. \A t \in live : {u \in live : task2[u].pParent = t} = {u \in live : task_[u].pParent = t}
    OBVIOUS
  <1>2. \A t \in live : In(kids[t]) = {u \in live : task2[u].pParent = t}
    <2> TAKE t \in live
    <2>1. In(kids[t]) = {u \in live : task_[u].pParent = t}  BY DEF Kinship
    <2> QED  BY <1>1, <2>1
  <1>3. \A u \in live \ {Init1} : task2[u].pParent \in live /\ task2[u].pParent # u
    <2> TAKE u \in live \ {Init1}
    <2>1. task_[u].pParent \in live /\ task_[u].pParent # u  BY DEF Kinship
    <2> QED  BY <2>1
  <1>4. Init1 \in live /\ task_[Init1].pParent = NoTask  BY DEF Kinship
  <1>5. task2[Init1].pParent = NoTask  BY <1>4
  <1>6. kids \in [Tasks -> Seq(Tasks)] /\ live \subseteq Tasks  BY DEF Kinship
  <1> QED  BY <1>2, <1>3, <1>4, <1>5, <1>6 DEF Kinship

LEMMA KinshipStays ==
    ASSUME NEW m, NEW g, NEW kids, NEW live, Kinship(m.task, kids, live), Agree(g, m, live)
    PROVE  Kinship(g.task, kids, live)
  BY KinshipSame DEF Agree

LEMMA NamesStay ==
    ASSUME NEW m, NEW g, NEW live, Names(m.task, m.global_pids, live), Agree(g, m, live)
    PROVE  Names(g.task, g.global_pids, live)
  <1>1. \A u \in live : g.task[u].PID = m.task[u].PID  BY DEF Agree
  <1>2. g.global_pids = m.global_pids  BY DEF Agree
  <1> QED  BY <1>1, <1>2 DEF Names

\* An operation on the queues leaves the families alone.
LEMMA RelatedStay ==
    ASSUME NEW m, NEW g, NEW kids, NEW live, Related(m, kids, live),
           Agree(g, m, live), Touches(g.at, m.at, QueueNodes)
    PROVE  Related(g, kids, live)
  <1>1. Families(m.at, kids, live) /\ Kinship(m.task, kids, live)
        /\ Names(m.task, m.global_pids, live)
    BY DEF Related
  <1>2. live \subseteq Tasks /\ \A t \in live : In(kids[t]) \subseteq live
    BY <1>1 DEF Kinship
  <1>3. QueueNodes \cap FamilyNodes(live) = {}
    <2>1. FamilyNodes(live) \subseteq FamilyNodes(Tasks)  BY <1>2 DEF FamilyNodes
    <2> QED  BY <2>1, QueueFamily
  <1>4. Families(g.at, kids, live)  BY <1>1, <1>2, <1>3, FamiliesStay
  <1> QED  BY <1>1, <1>4, KinshipStays, NamesStay DEF Related

LEMMA SameAgree == ASSUME NEW g, NEW m, Same(g, m), NEW live PROVE Agree(g, m, live)
  BY DEF Same, Agree

\* The two queues do not share nodes.
LEMMA QueuesApart ==
    ASSUME NEW fq \in Seq(Tasks), NEW rq \in Seq(Tasks), In(fq) \cap In(rq) = {}
    PROVE  /\ Around("list", freequeue, fq) \cap Around("list", readyqueue, rq) = {}
           /\ blocked \notin Around("list", freequeue, fq)
           /\ blocked \notin Around("list", readyqueue, rq)
           /\ \A t \in Tasks \ In(fq) : List(t) \notin Around("list", freequeue, fq)
           /\ \A t \in Tasks \ In(rq) : List(t) \notin Around("list", readyqueue, rq)
  <1>1. In(fq) \subseteq Tasks /\ In(rq) \subseteq Tasks  BY InTasks
  <1>2. /\ \A x \in Around("list", freequeue, fq) : x = freequeue \/ \E t \in In(fq) : x = List(t)
        /\ \A x \in Around("list", readyqueue, rq) : x = readyqueue \/ \E t \in In(rq) : x = List(t)
    BY DEF Around, List
  <1>3. \A s, t \in Tasks : List(s) = List(t) => s = t  BY NodesAre
  <1>4. \A t \in Tasks : List(t) # freequeue /\ List(t) # readyqueue /\ List(t) # blocked
    BY NodesAre
  <1>5. freequeue # readyqueue /\ freequeue # blocked /\ readyqueue # blocked  BY NodesAre
  <1> QED  BY <1>1, <1>2, <1>3, <1>4, <1>5

LEMMA InAppend ==
    ASSUME NEW q \in Seq(Tasks), NEW t \in Tasks
    PROVE  /\ In(Append(q, t)) = In(q) \cup {t} /\ Len(Append(q, t)) = Len(q) + 1
           /\ Append(q, t) \in Seq(Tasks)
  <1>1. PICK n \in Nat : n = Len(q)  OBVIOUS
  <1>2. PICK q2 : q2 = Append(q, t)  OBVIOUS
  <1>3. q2 \in Seq(Tasks) /\ Len(q2) = n + 1 /\ q2[n + 1] = t /\ \A i \in 1 .. n : q2[i] = q[i]
    BY <1>1, <1>2
  <1>4. In(q2) = In(q) \cup {t}
    <2>1. \A i \in 1 .. n + 1 : q2[i] \in In(q) \cup {t}
      BY <1>1, <1>3 DEF In
    <2>2. \A i \in 1 .. n : q[i] \in In(q2)  BY <1>3 DEF In
    <2>3. t \in In(q2)  BY <1>3 DEF In
    <2> QED  BY <1>1, <1>3, <2>1, <2>2, <2>3 DEF In
  <1> QED  BY <1>1, <1>2, <1>3, <1>4

LEMMA FirstIs ==
    ASSUME NEW h, NEW k, NEW head, NEW q, Own(h.at, k, head, q)
    PROVE  /\ list_empty(h, head) <=> Len(q) = 0
           /\ Len(q) # 0 => list_first(h, head) = <<k, q[1]>> /\ 1 \in 1 .. Len(q)
                            /\ q[1] \in In(q) /\ q[1] \in Tasks
  <1>1. /\ Heads(k, head) /\ q \in Seq(Tasks) /\ Ring(h.at, k, head, q)
    BY DEF Own
  <1>2. Len(q) \in Nat  BY <1>1
  <1>3. h.at[head].next = place(k, head, q, 1)
    <2>1. place(k, head, q, 0) = head /\ 0 \in 0 .. Len(q) /\ 0 + 1 = 1  BY <1>2 DEF place
    <2> QED  BY <1>1, <2>1 DEF Ring
  <1>4. CASE Len(q) = 0
    <2>1. place(k, head, q, 1) = head  BY <1>4 DEF place
    <2> QED  BY <1>3, <1>4, <2>1 DEF list_empty
  <1>5. CASE Len(q) # 0
    <2>1. 1 \in 1 .. Len(q)  BY <1>2, <1>5
    <2>2. q[1] \in Tasks /\ q[1] \in In(q)  BY <1>1, <2>1 DEF In
    <2>3. place(k, head, q, 1) = <<k, q[1]>> /\ <<k, q[1]>> # head
      BY <1>1, <2>1, <2>2 DEF place, Heads
    <2> QED  BY <1>3, <1>5, <2>1, <2>2, <2>3 DEF list_empty, list_first
  <1> QED  BY <1>4, <1>5

-----------------------------------------------------------------------------
(* The operations on the queues.                                           *)

LEMMA QueuesParts ==
    ASSUME NEW at, NEW fq, NEW rq, NEW out, NEW count, Queues(at, fq, rq, out, count)
    PROVE  /\ Own(at, "list", freequeue, fq) /\ Own(at, "list", readyqueue, rq)
           /\ fq \in Seq(Tasks) /\ rq \in Seq(Tasks)
           /\ In(fq) \cap In(rq) = {} /\ (In(fq) \cup In(rq)) \cap out = {}
           /\ In(fq) \cup In(rq) \cup out = Tasks
           /\ Len(fq) + Len(rq) + count = NR_TASKS
  BY DEF Queues, Own

LEMMA JoinReady ==
    ASSUME NEW h \in Machines, NEW fq, NEW rq, NEW out, NEW count \in Nat,
           NEW t \in Tasks, t \notin out,
           Queues(h.at, fq, rq, out \cup {t}, count + 1),
           NEW g, g = list_add_tail(h, List(t), readyqueue)
    PROVE  /\ Queues(g.at, fq, Append(rq, t), out, count)
           /\ Moved(g, h, Around("list", readyqueue, rq) \cup {List(t)})
  <1>1. /\ Own(h.at, "list", freequeue, fq) /\ Own(h.at, "list", readyqueue, rq)
        /\ fq \in Seq(Tasks) /\ rq \in Seq(Tasks)
        /\ In(fq) \cap In(rq) = {} /\ (In(fq) \cup In(rq)) \cap (out \cup {t}) = {}
        /\ In(fq) \cup In(rq) \cup (out \cup {t}) = Tasks
        /\ Len(fq) + Len(rq) + (count + 1) = NR_TASKS
    <2>1. PICK o, c : o = out \cup {t} /\ c = count + 1  OBVIOUS
    <2>2. Queues(h.at, fq, rq, o, c)  BY <2>1
    <2> QED  BY <2>1, <2>2, QueuesParts
  <1>2. t \notin In(fq) /\ t \notin In(rq)  BY <1>1
  <1>3. Own(g.at, "list", readyqueue, Append(rq, t))
        /\ Moved(g, h, Around("list", readyqueue, rq) \cup {List(t)})
    <2>1. g = list_add_tail(h, <<"list", t>>, readyqueue)  BY DEF List
    <2> QED  BY <1>1, <1>2, <2>1, JoinTail DEF List
  <1>4. Own(g.at, "list", freequeue, fq)
    <2>1. (Around("list", readyqueue, rq) \cup {List(t)}) \cap Around("list", freequeue, fq) = {}
      BY <1>1, <1>2, QueuesApart
    <2> QED  BY <1>1, <1>3, <2>1, OwnStays DEF Moved
  <1>5. In(Append(rq, t)) = In(rq) \cup {t} /\ Len(Append(rq, t)) = Len(rq) + 1
    BY <1>1, InAppend
  <1>6. In(fq) \cap In(Append(rq, t)) = {} /\ (In(fq) \cup In(Append(rq, t))) \cap out = {}
        /\ In(fq) \cup In(Append(rq, t)) \cup out = Tasks
    BY <1>1, <1>2, <1>5
  <1>7. Len(fq) + Len(Append(rq, t)) + count = NR_TASKS
    BY <1>1, <1>5, Slots
  <1> QED  BY <1>3, <1>4, <1>6, <1>7 DEF Queues

LEMMA JoinFree ==
    ASSUME NEW h \in Machines, NEW fq, NEW rq, NEW out, NEW count \in Nat,
           NEW t \in Tasks, t \notin out,
           Queues(h.at, fq, rq, out \cup {t}, count + 1),
           NEW g, g = list_add_tail(h, List(t), freequeue)
    PROVE  /\ Queues(g.at, Append(fq, t), rq, out, count)
           /\ Moved(g, h, Around("list", freequeue, fq) \cup {List(t)})
  <1>1. /\ Own(h.at, "list", freequeue, fq) /\ Own(h.at, "list", readyqueue, rq)
        /\ fq \in Seq(Tasks) /\ rq \in Seq(Tasks)
        /\ In(fq) \cap In(rq) = {} /\ (In(fq) \cup In(rq)) \cap (out \cup {t}) = {}
        /\ In(fq) \cup In(rq) \cup (out \cup {t}) = Tasks
        /\ Len(fq) + Len(rq) + (count + 1) = NR_TASKS
    <2>1. PICK o, c : o = out \cup {t} /\ c = count + 1  OBVIOUS
    <2>2. Queues(h.at, fq, rq, o, c)  BY <2>1
    <2> QED  BY <2>1, <2>2, QueuesParts
  <1>2. t \notin In(fq) /\ t \notin In(rq)  BY <1>1
  <1>3. Own(g.at, "list", freequeue, Append(fq, t))
        /\ Moved(g, h, Around("list", freequeue, fq) \cup {List(t)})
    <2>1. g = list_add_tail(h, <<"list", t>>, freequeue)  BY DEF List
    <2> QED  BY <1>1, <1>2, <2>1, JoinTail DEF List
  <1>4. Own(g.at, "list", readyqueue, rq)
    <2>1. (Around("list", freequeue, fq) \cup {List(t)}) \cap Around("list", readyqueue, rq) = {}
      BY <1>1, <1>2, QueuesApart
    <2> QED  BY <1>1, <1>3, <2>1, OwnStays DEF Moved
  <1>5. In(Append(fq, t)) = In(fq) \cup {t} /\ Len(Append(fq, t)) = Len(fq) + 1
    BY <1>1, InAppend
  <1>6. In(Append(fq, t)) \cap In(rq) = {} /\ (In(Append(fq, t)) \cup In(rq)) \cap out = {}
        /\ In(Append(fq, t)) \cup In(rq) \cup out = Tasks
    BY <1>1, <1>2, <1>5
  <1>7. Len(Append(fq, t)) + Len(rq) + count = NR_TASKS
    BY <1>1, <1>5, Slots
  <1> QED  BY <1>3, <1>4, <1>6, <1>7 DEF Queues

Some(q) == Len(q) # 0
Lead(q) == q[1]
Rest(q) == Removed(q, 1)

\* g is h without the first of the queue q.
Taken(g, h, head, q) ==
    /\ Moved(g, h, Around("list", head, q))
    /\ list_first(h, head) = List(Lead(q)) /\ Lead(q) \in In(q) /\ Lead(q) \in Tasks
    /\ In(Rest(q)) = In(q) \ {Lead(q)}
    /\ g.at[List(Lead(q))].next = NULL /\ g.at[List(Lead(q))].prev = NULL

LEMMA LeaveReady ==
    ASSUME NEW h \in Machines, NEW fq, NEW rq, NEW out, NEW count \in Nat,
           NEW count2, count2 = count + 1, NEW out2, out2 = out \cup {Lead(rq)},
           Queues(h.at, fq, rq, out, count), Some(rq),
           NEW g, g = list_del(h, list_first(h, readyqueue))
    PROVE  Queues(g.at, fq, Rest(rq), out2, count2) /\ Taken(g, h, readyqueue, rq)
  <1>0. Rest(rq) = Removed(rq, 1) /\ Lead(rq) = rq[1] /\ Len(rq) # 0
    BY DEF Rest, Lead, Some
  <1>1. /\ Own(h.at, "list", freequeue, fq) /\ Own(h.at, "list", readyqueue, rq)
        /\ fq \in Seq(Tasks) /\ rq \in Seq(Tasks)
        /\ In(fq) \cap In(rq) = {} /\ (In(fq) \cup In(rq)) \cap out = {}
        /\ In(fq) \cup In(rq) \cup out = Tasks
        /\ Len(fq) + Len(rq) + count = NR_TASKS
    BY QueuesParts
  <1>2. /\ list_first(h, readyqueue) = List(rq[1]) /\ 1 \in 1 .. Len(rq)
        /\ rq[1] \in In(rq) /\ rq[1] \in Tasks
    BY <1>0, <1>1, FirstIs DEF List
  <1>3. /\ Own(g.at, "list", readyqueue, Removed(rq, 1))
        /\ Moved(g, h, Around("list", readyqueue, rq))
        /\ g.at[List(rq[1])].next = NULL /\ g.at[List(rq[1])].prev = NULL
    <2>1. g = list_del(h, <<"list", rq[1]>>)  BY <1>2 DEF List
    <2> QED  BY <1>1, <1>2, <2>1, Quit DEF List
  <1>4. Own(g.at, "list", freequeue, fq)
    <2>1. Around("list", readyqueue, rq) \cap Around("list", freequeue, fq) = {}
      BY <1>1, QueuesApart
    <2> QED  BY <1>1, <1>3, <2>1, OwnStays DEF Moved
  <1>5. In(Removed(rq, 1)) = In(rq) \ {rq[1]} /\ Len(Removed(rq, 1)) + 1 = Len(rq)
        /\ Len(Removed(rq, 1)) \in Nat
    <2>1. Distinct(rq)  BY <1>1 DEF Own
    <2>2. Removed(rq, 1) \in Seq(Tasks) /\ Len(Removed(rq, 1)) + 1 = Len(rq)
          /\ In(Removed(rq, 1)) = In(rq) \ {rq[1]}
      BY <1>1, <1>2, <2>1, RemovedIs
    <2> QED  BY <2>2
  <1>6. In(fq) \cap In(Removed(rq, 1)) = {}
        /\ (In(fq) \cup In(Removed(rq, 1))) \cap (out \cup {rq[1]}) = {}
        /\ In(fq) \cup In(Removed(rq, 1)) \cup (out \cup {rq[1]}) = Tasks
    BY <1>1, <1>2, <1>5
  <1>7. Len(fq) + Len(Removed(rq, 1)) + (count + 1) = NR_TASKS
    BY <1>1, <1>5, Slots
  <1> QED  BY <1>0, <1>2, <1>3, <1>4, <1>5, <1>6, <1>7 DEF Queues, Taken

LEMMA LeaveFree ==
    ASSUME NEW h \in Machines, NEW fq, NEW rq, NEW out, NEW count \in Nat,
           NEW count2, count2 = count + 1, NEW out2, out2 = out \cup {Lead(fq)},
           Queues(h.at, fq, rq, out, count), Some(fq),
           NEW g, g = list_del(h, list_first(h, freequeue))
    PROVE  Queues(g.at, Rest(fq), rq, out2, count2) /\ Taken(g, h, freequeue, fq)
  <1>0. Rest(fq) = Removed(fq, 1) /\ Lead(fq) = fq[1] /\ Len(fq) # 0
    BY DEF Rest, Lead, Some
  <1>1. /\ Own(h.at, "list", freequeue, fq) /\ Own(h.at, "list", readyqueue, rq)
        /\ fq \in Seq(Tasks) /\ rq \in Seq(Tasks)
        /\ In(fq) \cap In(rq) = {} /\ (In(fq) \cup In(rq)) \cap out = {}
        /\ In(fq) \cup In(rq) \cup out = Tasks
        /\ Len(fq) + Len(rq) + count = NR_TASKS
    BY QueuesParts
  <1>2. /\ list_first(h, freequeue) = List(fq[1]) /\ 1 \in 1 .. Len(fq)
        /\ fq[1] \in In(fq) /\ fq[1] \in Tasks
    BY <1>0, <1>1, FirstIs DEF List
  <1>3. /\ Own(g.at, "list", freequeue, Removed(fq, 1))
        /\ Moved(g, h, Around("list", freequeue, fq))
        /\ g.at[List(fq[1])].next = NULL /\ g.at[List(fq[1])].prev = NULL
    <2>1. g = list_del(h, <<"list", fq[1]>>)  BY <1>2 DEF List
    <2> QED  BY <1>1, <1>2, <2>1, Quit DEF List
  <1>4. Own(g.at, "list", readyqueue, rq)
    <2>1. Around("list", freequeue, fq) \cap Around("list", readyqueue, rq) = {}
      BY <1>1, QueuesApart
    <2> QED  BY <1>1, <1>3, <2>1, OwnStays DEF Moved
  <1>5. In(Removed(fq, 1)) = In(fq) \ {fq[1]} /\ Len(Removed(fq, 1)) + 1 = Len(fq)
        /\ Len(Removed(fq, 1)) \in Nat
    <2>1. Distinct(fq)  BY <1>1 DEF Own
    <2>2. Removed(fq, 1) \in Seq(Tasks) /\ Len(Removed(fq, 1)) + 1 = Len(fq)
          /\ In(Removed(fq, 1)) = In(fq) \ {fq[1]}
      BY <1>1, <1>2, <2>1, RemovedIs
    <2> QED  BY <2>2
  <1>6. In(Removed(fq, 1)) \cap In(rq) = {}
        /\ (In(Removed(fq, 1)) \cup In(rq)) \cap (out \cup {fq[1]}) = {}
        /\ In(Removed(fq, 1)) \cup In(rq) \cup (out \cup {fq[1]}) = Tasks
    BY <1>1, <1>2, <1>5
  <1>7. Len(Removed(fq, 1)) + Len(rq) + (count + 1) = NR_TASKS
    BY <1>1, <1>5, Slots
  <1> QED  BY <1>0, <1>2, <1>3, <1>4, <1>5, <1>6, <1>7 DEF Queues, Taken

\* Writes to the pointers of slots in neither queue leave the queues alone.
LEMMA QueuesStay ==
    ASSUME NEW at, NEW at2, NEW fq, NEW rq, NEW out, NEW count, Queues(at, fq, rq, out, count),
           NEW N, Touches(at2, at, N),
           \A x \in N : /\ x # freequeue /\ x # readyqueue
                        /\ \A t \in Tasks \ out : x # List(t)
    PROVE  Queues(at2, fq, rq, out, count)
  <1>1. /\ Own(at, "list", freequeue, fq) /\ Own(at, "list", readyqueue, rq)
        /\ (In(fq) \cup In(rq)) \cap out = {}
        /\ In(fq) \cup In(rq) \cup out = Tasks
    BY QueuesParts
  <1>2. In(fq) \subseteq Tasks \ out /\ In(rq) \subseteq Tasks \ out  BY <1>1
  <1>3. N \cap Around("list", freequeue, fq) = {} /\ N \cap Around("list", readyqueue, rq) = {}
    BY <1>2 DEF Around, List
  <1>4. Own(at2, "list", freequeue, fq) /\ Own(at2, "list", readyqueue, rq)
    BY <1>1, <1>3, OwnStays
  <1> QED  BY <1>4 DEF Queues

\* The running process leaves the list nobody initialized, if it is there.
LEMMA Off ==
    ASSUME NEW m \in Machines, Running1(m), NEW g, g = list_del(m, List(m.current))
    PROVE  /\ g \in Machines /\ Same(g, m) /\ (m.null => g.null)
           /\ Touches(g.at, m.at, {List(m.current), blocked, NULL})
           /\ g.at[blocked].prev = NULL
  <1>1. PICK e : e = List(m.current)  OBVIOUS
  <1>2. e \in Nodes /\ blocked \in Nodes /\ NULL \in Nodes /\ e # blocked /\ e # NULL /\ blocked # NULL
    <2>1. m.current \in Tasks  BY DEF Machines
    <2> QED  BY <1>1, <2>1, NodesAre
  <1>3. /\ Deleted(g.at, m.at, e) /\ Kind(g, m)
        /\ (g.null <=> m.null \/ NULL \in {e, m.at[e].next, m.at[e].prev})
    BY <1>1, <1>2, Deleting
  <1>4. m.at[e].prev = NULL  BY <1>1 DEF Running1
  <1>5. \/ m.at[e].next = NULL /\ m.at[blocked].prev = NULL
        \/ m.at[e].next = blocked /\ m.at[blocked].prev = e
    BY <1>1 DEF Running1
  <1>6. g.at[blocked].prev = NULL
    BY <1>2, <1>3, <1>4, <1>5 DEF Deleted
  <1>7. Touches(g.at, m.at, {e, blocked, NULL})
    BY <1>2, <1>3, <1>4, <1>5 DEF Deleted, Touches
  <1> QED  BY <1>1, <1>3, <1>6, <1>7 DEF Kind

-----------------------------------------------------------------------------
(* The scheduler.                                                          *)

\* One field of one task written.
WroteTask(g, h, t) ==
    /\ g \in Machines
    /\ \A u \in Tasks \ {t} : g.task[u] = h.task[u]
    /\ g.at = h.at /\ g.null = h.null /\ g.hung = h.hung

set_state(h, t, s) == [h EXCEPT !.task[t].state = s]

LEMMA StateWritten ==
    ASSUME NEW h \in Machines, NEW t \in Tasks, NEW s \in States,
           NEW g, g = set_state(h, t, s)
    PROVE  /\ WroteTask(g, h, t) /\ Agree(g, h, Tasks) /\ g.task[t].state = s
           /\ g.current = h.current /\ g.quantum_ticks = h.quantum_ticks
  <1>1. PICK a : a = [h.task EXCEPT ![t].state = s]  OBVIOUS
  <1>2. h.task \in [Tasks -> TaskStructs]  BY DEF Machines
  <1>3. /\ a \in [Tasks -> TaskStructs] /\ \A u \in Tasks \ {t} : a[u] = h.task[u]
        /\ a[t].state = s /\ a[t].PID = h.task[t].PID /\ a[t].pParent = h.task[t].pParent
    BY <1>1, <1>2 DEF TaskStructs
  <1>4. g = [h EXCEPT !.task = a]  BY <1>1 DEF set_state
  <1>5. g \in Machines /\ g.task = a /\ g.at = h.at /\ g.null = h.null /\ g.hung = h.hung
        /\ g.current = h.current /\ g.quantum_ticks = h.quantum_ticks
        /\ g.global_pids = h.global_pids
    BY <1>3, <1>4 DEF Machines
  <1>6. \A u \in Tasks : g.task[u].PID = h.task[u].PID /\ g.task[u].pParent = h.task[u].pParent
    BY <1>3, <1>5
  <1> QED  BY <1>3, <1>5, <1>6 DEF WroteTask, Agree

LEMMA SwitchedTo ==
    ASSUME NEW h \in Machines, NEW t \in Tasks, NEW g, g = task_switch(h, t)
    PROVE  /\ WroteTask(g, h, t) /\ Agree(g, h, Tasks) /\ g.task[t].state = "ST_RUN"
           /\ g.current = t
  <1>1. PICK a : a = [h.task EXCEPT ![t].state = "ST_RUN"]  OBVIOUS
  <1>2. h.task \in [Tasks -> TaskStructs]  BY DEF Machines
  <1>3. /\ a \in [Tasks -> TaskStructs] /\ \A u \in Tasks \ {t} : a[u] = h.task[u]
        /\ a[t].state = "ST_RUN" /\ a[t].PID = h.task[t].PID /\ a[t].pParent = h.task[t].pParent
    <2>1. PICK s \in States : s = "ST_RUN"  BY DEF States
    <2>2. a = [h.task EXCEPT ![t].state = s]  BY <1>1, <2>1
    <2>3. /\ a \in [Tasks -> TaskStructs] /\ \A u \in Tasks \ {t} : a[u] = h.task[u]
          /\ a[t].state = s /\ a[t].PID = h.task[t].PID /\ a[t].pParent = h.task[t].pParent
      BY <1>2, <2>2 DEF TaskStructs
    <2> QED  BY <2>1, <2>3
  <1>4. g = [h EXCEPT !.task = a, !.current = t, !.quantum_ticks = QUANTUM]
    BY <1>1 DEF task_switch
  <1>q. QUANTUM \in Int  BY Slots
  <1>5. g \in Machines /\ g.task = a /\ g.at = h.at /\ g.null = h.null /\ g.hung = h.hung
        /\ g.current = t /\ g.global_pids = h.global_pids
    BY <1>3, <1>4, <1>q DEF Machines
  <1>6. \A u \in Tasks : g.task[u].PID = h.task[u].PID /\ g.task[u].pParent = h.task[u].pParent
    BY <1>3, <1>5
  <1> QED  BY <1>3, <1>5, <1>6 DEF WroteTask, Agree

LEMMA AgreeTrans ==
    ASSUME NEW f, NEW g, NEW h, NEW live, Agree(f, g, live), Agree(g, h, live)
    PROVE  Agree(f, h, live)
  BY DEF Agree

LEMMA AgreeLess ==
    ASSUME NEW g, NEW h, NEW live, Agree(g, h, Tasks), live \subseteq Tasks
    PROVE  Agree(g, h, live)
  BY DEF Agree

LEMMA SchedNextIs ==
    ASSUME NEW m
    PROVE  sched_next_rr(m) =
             IF list_empty(m, readyqueue) THEN task_switch(m, Idle)
             ELSE task_switch(list_del(m, list_first(m, readyqueue)), list_first(m, readyqueue)[2])
  <1>1. PICK f : f = IF list_empty(m, readyqueue) THEN task_switch(m, Idle)
             ELSE task_switch(list_del(m, list_first(m, readyqueue)), list_first(m, readyqueue)[2])
    OBVIOUS
  <1>2. {IF list_empty(y, readyqueue) THEN task_switch(y, Idle)
         ELSE task_switch(list_del(y, list_first(y, readyqueue)), list_first(y, readyqueue)[2]) :
            y \in {m}} = {f}
    BY <1>1, Zenon
  <1>3. sched_next_rr(m) = CHOOSE r \in {IF list_empty(y, readyqueue) THEN task_switch(y, Idle)
         ELSE task_switch(list_del(y, list_first(y, readyqueue)), list_first(y, readyqueue)[2]) :
            y \in {m}} : TRUE
    BY Zenon DEF sched_next_rr, With
  <1>4. (CHOOSE r \in {f} : TRUE) = f  OBVIOUS
  <1> QED  BY <1>1, <1>2, <1>3, <1>4, Zenon

\* The first ready process gets the processor.
LEMMA PickFirst ==
    ASSUME NEW m, NEW fq, NEW rq, NEW kids, Waiting(m, fq, rq, kids), Some(rq),
           NEW g, g = sched_next_rr(m)
    PROVE  /\ Good(g, fq, Rest(rq), kids) /\ g.current = Lead(rq)
           /\ Agree(g, m, Tasks) /\ g.null = m.null /\ g.hung = m.hung
  <1>1. /\ m \in Machines /\ Queues(m.at, fq, rq, {Idle}, 1) /\ Related(m, kids, In(rq))
        /\ AllReady(m, rq) /\ m.at[blocked].prev = NULL
    BY DEF Waiting
  <1>2. Own(m.at, "list", readyqueue, rq) /\ fq \in Seq(Tasks) /\ rq \in Seq(Tasks)
        /\ In(fq) \cap In(rq) = {} /\ (In(fq) \cup In(rq)) \cap {Idle} = {}
    BY <1>1, QueuesParts
  <1>3. PICK d : d = list_del(m, list_first(m, readyqueue))  OBVIOUS
  <1>4. PICK t : t = Lead(rq)  OBVIOUS
  <1>5. /\ Queues(d.at, fq, Rest(rq), {Idle} \cup {t}, 2)
        /\ Moved(d, m, Around("list", readyqueue, rq))
        /\ list_first(m, readyqueue) = List(t) /\ t \in In(rq) /\ t \in Tasks
        /\ In(Rest(rq)) = In(rq) \ {t}
        /\ d.at[List(t)].next = NULL /\ d.at[List(t)].prev = NULL
    <2>1. PICK c, e : c = 1 /\ e = c + 1  OBVIOUS
    <2>2. c \in Nat /\ e = c + 1 /\ Queues(m.at, fq, rq, {Idle}, c)  BY <1>1, <2>1
    <2>3. PICK o : o = {Idle} \cup {Lead(rq)}  OBVIOUS
    <2>4. Queues(d.at, fq, Rest(rq), o, e) /\ Taken(d, m, readyqueue, rq)
      BY <1>1, <1>3, <2>2, <2>3, LeaveReady
    <2>5. e = 2  BY <2>1
    <2> QED  BY <1>4, <2>3, <2>4, <2>5 DEF Taken
  <1>6. g = task_switch(d, t)
    <2>1. ~list_empty(m, readyqueue)  BY <1>2, FirstIs DEF Some
    <2>2. list_first(m, readyqueue)[2] = t  BY <1>5 DEF List
    <2> QED  BY <1>3, <2>1, <2>2, SchedNextIs
  <1>7. d \in Machines /\ Same(d, m) /\ (d.null <=> m.null)
        /\ Touches(d.at, m.at, Around("list", readyqueue, rq))
    BY <1>5 DEF Moved
  <1>8. /\ WroteTask(g, d, t) /\ Agree(g, d, Tasks) /\ g.task[t].state = "ST_RUN" /\ g.current = t
    BY <1>5, <1>6, <1>7, SwitchedTo
  <1>9. g \in Machines /\ g.at = d.at /\ g.null = d.null /\ g.hung = d.hung
        /\ \A u \in Tasks \ {t} : g.task[u] = d.task[u]
    BY <1>8 DEF WroteTask
  <1>10. Agree(g, m, Tasks)
    <2>1. Agree(d, m, Tasks)  BY <1>7, SameAgree
    <2> QED  BY <1>8, <2>1, AgreeTrans
  <1>11. Queues(g.at, fq, Rest(rq), {g.current, Idle}, 2)
    <2>1. {Idle} \cup {t} = {g.current, Idle}  BY <1>8
    <2> QED  BY <1>5, <1>9, <2>1
  <1>12. Alive(g, Rest(rq)) = In(rq)
    BY <1>5, <1>8 DEF Alive
  <1>13. Related(g, kids, In(rq))
    <2>1. In(rq) \subseteq Tasks  BY <1>2, InTasks
    <2>2. Agree(g, m, In(rq))  BY <1>10, <2>1, AgreeLess
    <2>3. Touches(g.at, m.at, QueueNodes)
      <3>1. Around("list", readyqueue, rq) \subseteq QueueNodes  BY <1>2, AroundQueue
      <3> QED  BY <1>7, <1>9, <3>1 DEF Touches
    <2> QED  BY <1>1, <2>2, <2>3, RelatedStay
  <1>14. AllReady(g, Rest(rq))
    <2> SUFFICES ASSUME NEW u \in In(Rest(rq)) PROVE g.task[u].state = "ST_READY"
      BY DEF AllReady
    <2>1. u \in In(rq) /\ u # t /\ u \in Tasks  BY <1>2, <1>5, InTasks
    <2>2. m.task[u].state = "ST_READY"  BY <1>1, <2>1 DEF AllReady
    <2>3. d.task = m.task  BY <1>7 DEF Same
    <2> QED  BY <1>9, <2>1, <2>2, <2>3
  <1>15. Running1(g)
    <2>1. blocked \in Nodes \ Around("list", readyqueue, rq)
      BY <1>2, QueuesApart, NodesAre
    <2>2. g.at[blocked].prev = NULL  BY <1>1, <1>7, <1>9, <2>1 DEF Touches
    <2> QED  BY <1>5, <1>8, <1>9, <2>2 DEF Running1
  <1>16. g.current # Idle  BY <1>2, <1>5, <1>8
  <1>17. g.null = m.null /\ g.hung = m.hung
    <2>1. d.null \in BOOLEAN /\ m.null \in BOOLEAN  BY <1>1, <1>7 DEF Machines
    <2> QED  BY <1>7, <1>9, <2>1 DEF Same
  <1>18. Related(g, kids, Alive(g, Rest(rq)))  BY <1>12, <1>13
  <1>19. Good(g, fq, Rest(rq), kids)
    BY <1>9, <1>11, <1>14, <1>15, <1>16, <1>18 DEF Good
  <1> QED  BY <1>4, <1>8, <1>10, <1>17, <1>19

\* The running process joins the ready ones.
LEMMA ToReady ==
    ASSUME NEW m, NEW fq, NEW rq, NEW kids, Good(m, fq, rq, kids),
           NEW g, g = update_process_state_rr(m, m.current, readyqueue)
    PROVE  /\ Waiting(g, fq, Append(rq, m.current), kids)
           /\ Agree(g, m, Tasks) /\ Safe(g, m) /\ g.hung = m.hung /\ (m.null => g.null)
  <1>1. /\ m \in Machines /\ m.current # Idle /\ Queues(m.at, fq, rq, {m.current, Idle}, 2)
        /\ Related(m, kids, Alive(m, rq)) /\ AllReady(m, rq) /\ Running1(m)
    BY DEF Good
  <1>2. PICK t : t = m.current  OBVIOUS
  <1>3. t \in Tasks  BY <1>1, <1>2 DEF Machines
  <1>4. PICK o : o = IF m.task[t].state # "ST_RUN" THEN list_del(m, List(t)) ELSE m  OBVIOUS
  <1>5. o \in Machines /\ Same(o, m) /\ (m.null => o.null)
        /\ Touches(o.at, m.at, {List(t), blocked, NULL}) /\ o.at[blocked].prev = NULL
        /\ (o.null => m.null \/ HasPage0(t))
    <2>1. CASE m.task[t].state # "ST_RUN"
      <3>1. o \in Machines /\ Same(o, m) /\ (m.null => o.null)
            /\ Touches(o.at, m.at, {List(t), blocked, NULL}) /\ o.at[blocked].prev = NULL
        BY <1>1, <1>2, <1>4, <2>1, Off
      <3>2. HasPage0(t)  BY <1>1, <1>2, <2>1 DEF Running1
      <3> QED  BY <3>1, <3>2
    <2>2. CASE m.task[t].state = "ST_RUN"
      <3>1. o = m /\ m.at[blocked].prev = NULL  BY <1>1, <1>2, <1>4, <2>2 DEF Running1
      <3> QED  BY <1>1, <3>1 DEF Same, Touches
    <2> QED  BY <2>1, <2>2
  <1>6. fq \in Seq(Tasks) /\ rq \in Seq(Tasks) /\ In(fq) \cap In(rq) = {}
    BY <1>1, QueuesParts
  <1>7. Queues(o.at, fq, rq, {Idle} \cup {t}, 2)
    <2>1. Queues(m.at, fq, rq, {Idle} \cup {t}, 2)
      <3>1. {m.current, Idle} = {Idle} \cup {t}  BY <1>2
      <3> QED  BY <1>1, <3>1
    <2>2. \A x \in {List(t), blocked, NULL} :
             x # freequeue /\ x # readyqueue /\ \A u \in Tasks \ ({Idle} \cup {t}) : x # List(u)
      BY <1>3, NodesAre
    <2>3. PICK O : O = {Idle} \cup {t}  OBVIOUS
    <2>4. PICK N : N = {List(t), blocked, NULL}  OBVIOUS
    <2>5. Queues(m.at, fq, rq, O, 2) /\ Touches(o.at, m.at, N)  BY <1>5, <2>1, <2>3, <2>4
    <2>6. \A x \in N : x # freequeue /\ x # readyqueue /\ \A u \in Tasks \ O : x # List(u)
      BY <2>2, <2>3, <2>4
    <2>7. Queues(o.at, fq, rq, O, 2)  BY <2>5, <2>6, QueuesStay
    <2> QED  BY <2>3, <2>7
  <1>8. PICK a : a = list_add_tail(o, List(t), readyqueue)  OBVIOUS
  <1>9. Queues(a.at, fq, Append(rq, t), {Idle}, 1)
        /\ Moved(a, o, Around("list", readyqueue, rq) \cup {List(t)})
    <2>1. PICK c, e : c = 1 /\ e = c + 1  OBVIOUS
    <2>2. c \in Nat /\ e = 2  BY <2>1
    <2>3. Queues(o.at, fq, rq, {Idle} \cup {t}, c + 1)  BY <1>7, <2>1, <2>2
    <2>4. t \notin {Idle}  BY <1>1, <1>2
    <2>5. Queues(a.at, fq, Append(rq, t), {Idle}, c)
        /\ Moved(a, o, Around("list", readyqueue, rq) \cup {List(t)})
      BY <1>3, <1>5, <1>8, <2>2, <2>3, <2>4, JoinReady
    <2> QED  BY <2>1, <2>5
  <1>10. a \in Machines /\ Same(a, o) /\ (a.null <=> o.null)
         /\ Touches(a.at, o.at, Around("list", readyqueue, rq) \cup {List(t)})
    BY <1>9 DEF Moved
  <1>11. g = [a EXCEPT !.task[t].state = "ST_READY"]
    BY <1>2, <1>4, <1>8 DEF update_process_state_rr
  <1>12. /\ WroteTask(g, a, t) /\ Agree(g, a, Tasks) /\ g.task[t].state = "ST_READY"
    <2>1. PICK s \in States : s = "ST_READY"  BY DEF States
    <2>2. g = set_state(a, t, s)  BY <1>11, <2>1 DEF set_state
    <2>3. WroteTask(g, a, t) /\ Agree(g, a, Tasks) /\ g.task[t].state = s
      BY <1>3, <1>10, <2>2, StateWritten
    <2> QED  BY <2>1, <2>3
  <1>13. g \in Machines /\ g.at = a.at /\ g.null = a.null /\ g.hung = a.hung
        /\ \A u \in Tasks \ {t} : g.task[u] = a.task[u]
    BY <1>12 DEF WroteTask
  <1>14. Agree(g, m, Tasks)
    <2>1. Agree(a, o, Tasks) /\ Agree(o, m, Tasks)  BY <1>5, <1>10, SameAgree
    <2> QED  BY <1>12, <2>1, AgreeTrans
  <1>15. In(Append(rq, t)) = In(rq) \cup {t} /\ In(rq) \subseteq Tasks
    BY <1>3, <1>6, InAppend, InTasks
  <1>16. Related(g, kids, In(Append(rq, t)))
    <2>1. Alive(m, rq) = In(Append(rq, t))  BY <1>2, <1>15 DEF Alive
    <2>2. Agree(g, m, In(Append(rq, t)))  BY <1>3, <1>14, <1>15, AgreeLess
    <2>3. Touches(g.at, m.at, QueueNodes)
      <3>1. Around("list", readyqueue, rq) \subseteq QueueNodes  BY <1>6, AroundQueue
      <3>2. {List(t), blocked, NULL} \subseteq QueueNodes  BY <1>3 DEF QueueNodes
      <3> QED  BY <1>5, <1>10, <1>13, <3>1, <3>2 DEF Touches
    <2> QED  BY <1>1, <2>1, <2>2, <2>3, RelatedStay
  <1>17. AllReady(g, Append(rq, t))
    <2> SUFFICES ASSUME NEW u \in In(Append(rq, t)) PROVE g.task[u].state = "ST_READY"
      BY DEF AllReady
    <2>1. CASE u = t  BY <1>12, <2>1
    <2>2. CASE u # t
      <3>1. u \in In(rq) /\ u \in Tasks  BY <1>15, <2>2
      <3>2. m.task[u].state = "ST_READY"  BY <1>1, <3>1 DEF AllReady
      <3>3. a.task = m.task  BY <1>5, <1>10 DEF Same
      <3> QED  BY <1>13, <2>2, <3>1, <3>2, <3>3
    <2> QED  BY <2>1, <2>2
  <1>18. g.at[blocked].prev = NULL
    <2>1. blocked \in Nodes \ (Around("list", readyqueue, rq) \cup {List(t)})
      BY <1>3, <1>6, QueuesApart, NodesAre
    <2> QED  BY <1>5, <1>10, <1>13, <2>1 DEF Touches
  <1>19. Waiting(g, fq, Append(rq, t), kids)
    BY <1>9, <1>13, <1>16, <1>17, <1>18 DEF Waiting
  <1>20. Safe(g, m) /\ (m.null => g.null)
    BY <1>2, <1>5, <1>10, <1>13 DEF Safe
  <1>21. g.hung = m.hung  BY <1>5, <1>10, <1>13 DEF Same
  <1> QED  BY <1>2, <1>14, <1>19, <1>20, <1>21

\* What a call does to the processes: nothing, or the running one gives way
\* to the next, or creates another, or ends.
Stands(m, rq, g, rq2) ==
    /\ Agree(g, m, Alive(m, rq)) /\ g.current = m.current /\ rq2 = rq
Turns(m, rq, g, rq2) ==
    /\ Agree(g, m, Alive(m, rq))
    /\ g.current = Lead(Append(rq, m.current)) /\ rq2 = Rest(Append(rq, m.current))
Forks(m, rq, g, rq2) ==
    /\ \A t \in Alive(m, rq) : g.task[t].PID = m.task[t].PID
    /\ g.current = m.current /\ g.global_pids = m.global_pids + 1
    /\ \E u \in Tasks : rq2 = Append(rq, u) /\ g.task[u].PID = m.global_pids + 1
Exits(m, rq, g, rq2) ==
    /\ Agree(g, m, In(rq)) /\ Some(rq)
    /\ g.current = Lead(rq) /\ rq2 = Rest(rq)

Outcome(m, rq, g) ==
    \E fq2, rq2, kids2 :
        /\ Good(g, fq2, rq2, kids2)
        /\ \/ Stands(m, rq, g, rq2) \/ Turns(m, rq, g, rq2)
           \/ Forks(m, rq, g, rq2) \/ Exits(m, rq, g, rq2)

\* Only data that no list depends on is written.
LEMMA StaysGood ==
    ASSUME NEW m, NEW fq, NEW rq, NEW kids, Good(m, fq, rq, kids),
           NEW g \in Machines, g.at = m.at, g.current = m.current, Agree(g, m, Tasks),
           \A u \in Tasks : g.task[u].state = m.task[u].state
    PROVE  Good(g, fq, rq, kids) /\ Stands(m, rq, g, rq)
  <1>1. /\ m \in Machines /\ m.current # Idle /\ Queues(m.at, fq, rq, {m.current, Idle}, 2)
        /\ Related(m, kids, Alive(m, rq)) /\ AllReady(m, rq) /\ Running1(m)
    BY DEF Good
  <1>2. rq \in Seq(Tasks) /\ m.current \in Tasks
    <2>1. rq \in Seq(Tasks)  BY <1>1, QueuesParts
    <2> QED  BY <1>1, <2>1 DEF Machines
  <1>3. Alive(m, rq) \subseteq Tasks /\ In(rq) \subseteq Tasks  BY <1>2, InTasks DEF Alive
  <1>4. Agree(g, m, Alive(m, rq))  BY <1>3, AgreeLess
  <1>5. Related(g, kids, Alive(m, rq))
    <2>1. Touches(g.at, m.at, QueueNodes)  BY DEF Touches
    <2> QED  BY <1>1, <1>4, <2>1, RelatedStay
  <1>6. Alive(g, rq) = Alive(m, rq)  BY DEF Alive
  <1>7. AllReady(g, rq)  BY <1>1, <1>3 DEF AllReady
  <1>8. Running1(g)
    <2>1. g.task[g.current].state = m.task[m.current].state  BY <1>2
    <2> QED  BY <1>1, <2>1 DEF Running1
  <1>9. Queues(g.at, fq, rq, {g.current, Idle}, 2)  BY <1>1
  <1>10. Good(g, fq, rq, kids)  BY <1>1, <1>5, <1>6, <1>7, <1>8, <1>9 DEF Good
  <1> QED  BY <1>4, <1>10 DEF Stands

next_tick(m) == [m EXCEPT !.quantum_ticks = IF @ = 1 THEN QUANTUM ELSE @ - 1]

LEMMA ScheduleIs ==
    ASSUME NEW m
    PROVE  schedule(m) =
             IF needs_sched_rr(m) THEN sched_next_rr(update_process_state_rr(m, m.current, readyqueue))
             ELSE next_tick(m)
  <1>1. PICK f : f = IF needs_sched_rr(m)
                     THEN sched_next_rr(update_process_state_rr(m, m.current, readyqueue))
                     ELSE next_tick(m)
    OBVIOUS
  <1>2. {IF needs_sched_rr(y) THEN sched_next_rr(update_process_state_rr(y, y.current, readyqueue))
         ELSE next_tick(y) : y \in {m}} = {f}
    BY <1>1, Zenon
  <1>3. schedule(m) = CHOOSE r \in
          {IF needs_sched_rr(y) THEN sched_next_rr(update_process_state_rr(y, y.current, readyqueue))
           ELSE next_tick(y) : y \in {m}} : TRUE
    BY Zenon DEF schedule, With, next_tick
  <1>4. (CHOOSE r \in {f} : TRUE) = f  OBVIOUS
  <1> QED  BY <1>1, <1>2, <1>3, <1>4, Zenon

LEMMA Ticked ==
    ASSUME NEW m \in Machines, NEW g, g = next_tick(m)
    PROVE  /\ g \in Machines /\ g.at = m.at /\ g.current = m.current /\ g.task = m.task
           /\ g.global_pids = m.global_pids /\ g.null = m.null /\ g.hung = m.hung
  <1>1. PICK n : n = IF m.quantum_ticks = 1 THEN QUANTUM ELSE m.quantum_ticks - 1  OBVIOUS
  <1>2. n \in Int
    <2>1. m.quantum_ticks \in Int  BY DEF Machines
    <2> QED  BY <1>1, <2>1, Slots
  <1>3. g = [m EXCEPT !.quantum_ticks = n]  BY <1>1 DEF next_tick
  <1> QED  BY <1>2, <1>3 DEF Machines

LEMMA TailIsSome ==
    ASSUME NEW q \in Seq(Tasks), NEW t \in Tasks
    PROVE  Some(Append(q, t))
  BY InAppend DEF Some

LEMMA Scheduled ==
    ASSUME NEW m, NEW fq, NEW rq, NEW kids, Good(m, fq, rq, kids), NEW g, g = schedule(m)
    PROVE  /\ \E rq2 : Good(g, fq, rq2, kids) /\ (Stands(m, rq, g, rq2) \/ Turns(m, rq, g, rq2))
           /\ Safe(g, m) /\ g.hung = m.hung /\ (m.null => g.null)
  <1>1. m \in Machines /\ Queues(m.at, fq, rq, {m.current, Idle}, 2)  BY DEF Good
  <1>2. rq \in Seq(Tasks) /\ m.current \in Tasks
    <2>1. rq \in Seq(Tasks)  BY <1>1, QueuesParts
    <2> QED  BY <1>1, <2>1 DEF Machines
  <1>3. CASE needs_sched_rr(m)
    <2>1. PICK w : w = update_process_state_rr(m, m.current, readyqueue)  OBVIOUS
    <2>2. PICK q : q = Append(rq, m.current)  OBVIOUS
    <2>3. /\ Waiting(w, fq, q, kids)
          /\ Agree(w, m, Tasks) /\ Safe(w, m) /\ w.hung = m.hung /\ (m.null => w.null)
      BY <2>1, <2>2, ToReady
    <2>4. Some(q)  BY <1>2, <2>2, TailIsSome
    <2>5. g = sched_next_rr(w)  BY <1>3, <2>1, ScheduleIs
    <2>6. /\ Good(g, fq, Rest(q), kids) /\ g.current = Lead(q)
          /\ Agree(g, w, Tasks) /\ g.null = w.null /\ g.hung = w.hung
      BY <2>3, <2>4, <2>5, PickFirst
    <2>7. Agree(g, m, Alive(m, rq))
      <3>1. Agree(g, m, Tasks)  BY <2>3, <2>6, AgreeTrans
      <3>2. Alive(m, rq) \subseteq Tasks  BY <1>2, InTasks DEF Alive
      <3> QED  BY <3>1, <3>2, AgreeLess
    <2>8. Turns(m, rq, g, Rest(q))  BY <2>2, <2>6, <2>7 DEF Turns
    <2> QED  BY <2>3, <2>6, <2>8 DEF Safe
  <1>4. CASE ~needs_sched_rr(m)
    <2>1. g = next_tick(m)  BY <1>4, ScheduleIs
    <2>2. /\ g \in Machines /\ g.at = m.at /\ g.current = m.current /\ g.task = m.task
          /\ g.global_pids = m.global_pids /\ g.null = m.null /\ g.hung = m.hung
      BY <1>1, <2>1, Ticked
    <2>3. Agree(g, m, Tasks) /\ \A u \in Tasks : g.task[u].state = m.task[u].state
      BY <2>2 DEF Agree
    <2>4. Good(g, fq, rq, kids) /\ Stands(m, rq, g, rq)  BY <2>2, <2>3, StaysGood
    <2> QED  BY <2>2, <2>4 DEF Safe
  <1> QED  BY <1>3, <1>4

\* A null pointer once followed is not forgotten.
LEMMA NextNull ==
    ASSUME NEW w \in Machines, w.null
    PROVE  sched_next_rr(w).null
  <1>1. \A h \in Machines : \A x : task_switch(h, x).null = h.null
    BY DEF task_switch, Machines
  <1>2. PICK d : d = list_del(w, list_first(w, readyqueue))  OBVIOUS
  <1>3. d \in Machines /\ d.null
    <2>1. list_first(w, readyqueue) \in Nodes
      BY NodesAre DEF list_first, Machines, Links
    <2> QED  BY <1>2, <2>1, Deleting DEF Kind
  <1> QED  BY <1>1, <1>2, <1>3, SchedNextIs

LEMMA NullSticks ==
    ASSUME NEW m \in Machines, m.null, NEW g, g = schedule(m)
    PROVE  g.null
  <1>1. PICK t : t = m.current  OBVIOUS
  <1>2. t \in Tasks /\ List(t) \in Nodes /\ readyqueue \in Nodes  BY <1>1, NodesAre DEF Machines
  <1>3. CASE ~needs_sched_rr(m)
    BY <1>3, ScheduleIs, Ticked
  <1>4. CASE needs_sched_rr(m)
    <2>1. PICK o : o = IF m.task[t].state # "ST_RUN" THEN list_del(m, List(t)) ELSE m  OBVIOUS
    <2>2. o \in Machines /\ o.null
      <3>1. CASE m.task[t].state # "ST_RUN"
        <4>1. o = list_del(m, List(t))  BY <2>1, <3>1
        <4> QED  BY <1>2, <4>1, Deleting DEF Kind
      <3>2. CASE m.task[t].state = "ST_RUN"  BY <2>1, <3>2
      <3> QED  BY <3>1, <3>2
    <2>3. PICK a : a = list_add_tail(o, List(t), readyqueue)  OBVIOUS
    <2>4. a \in Machines /\ a.null  BY <1>2, <2>2, <2>3, AddingTail DEF Kind
    <2>5. PICK s \in States : s = "ST_READY"  BY DEF States
    <2>6. PICK w : w = set_state(a, t, s)  OBVIOUS
    <2>7. w \in Machines /\ w.null  BY <1>2, <2>4, <2>6, StateWritten DEF WroteTask
    <2>8. w = update_process_state_rr(m, m.current, readyqueue)
      BY <1>1, <2>1, <2>3, <2>5, <2>6 DEF update_process_state_rr, set_state
    <2>9. g = sched_next_rr(w)  BY <1>4, <2>8, ScheduleIs
    <2> QED  BY <2>7, <2>9, NextNull
  <1> QED  BY <1>3, <1>4

\* The running process joins the list nobody initialized.
LEMMA ToBlocked ==
    ASSUME NEW m, NEW fq, NEW rq, NEW kids, Good(m, fq, rq, kids),
           NEW g, g = update_process_state_rr(m, m.current, blocked)
    PROVE  /\ g \in Machines /\ g.null /\ g.hung = m.hung
           /\ HasPage0(m.current) => Good(g, fq, rq, kids) /\ Stands(m, rq, g, rq)
  <1>1. /\ m \in Machines /\ m.current # Idle /\ Queues(m.at, fq, rq, {m.current, Idle}, 2)
        /\ Related(m, kids, Alive(m, rq)) /\ AllReady(m, rq) /\ Running1(m)
    BY DEF Good
  <1>2. PICK t : t = m.current  OBVIOUS
  <1>3. t \in Tasks /\ rq \in Seq(Tasks)
    <2>1. rq \in Seq(Tasks)  BY <1>1, QueuesParts
    <2> QED  BY <1>1, <1>2, <2>1 DEF Machines
  <1>4. PICK o : o = IF m.task[t].state # "ST_RUN" THEN list_del(m, List(t)) ELSE m  OBVIOUS
  <1>n. PICK N : N = {List(t), blocked, NULL}  OBVIOUS
  <1>5. o \in Machines /\ Same(o, m) /\ Touches(o.at, m.at, N) /\ o.at[blocked].prev = NULL
    <2>1. CASE m.task[t].state # "ST_RUN"
      BY <1>1, <1>2, <1>4, <1>n, <2>1, Off
    <2>2. CASE m.task[t].state = "ST_RUN"
      <3>1. o = m /\ m.at[blocked].prev = NULL  BY <1>1, <1>2, <1>4, <2>2 DEF Running1
      <3> QED  BY <1>1, <3>1 DEF Same, Touches
    <2> QED  BY <2>1, <2>2
  <1>6. PICK a : a = list_add_tail(o, List(t), blocked)  OBVIOUS
  <1>7. List(t) \in Nodes /\ blocked \in Nodes /\ NULL \in Nodes
        /\ List(t) # blocked /\ List(t) # NULL /\ blocked # NULL
    BY <1>3, NodesAre
  <1>8. /\ Added(a.at, o.at, List(t), NULL, blocked)
        /\ a.null /\ a \in Machines /\ Same(a, o)
    BY <1>5, <1>6, <1>7, AddingTail DEF Kind
  <1>9. Touches(a.at, o.at, N) /\ a.at[List(t)].next = blocked /\ a.at[List(t)].prev = NULL
        /\ a.at[blocked].prev = List(t)
    BY <1>7, <1>8, <1>n DEF Added, Touches
  <1>10. PICK s \in States : s = "ST_BLOCKED"  BY DEF States
  <1>11. g = set_state(a, t, s)
    <2>1. blocked # readyqueue  BY NodesAre
    <2> QED  BY <1>2, <1>4, <1>6, <1>10, <2>1 DEF update_process_state_rr, set_state
  <1>12. /\ WroteTask(g, a, t) /\ Agree(g, a, Tasks) /\ g.task[t].state = s
         /\ g.current = a.current
    BY <1>3, <1>8, <1>11, StateWritten
  <1>13. g \in Machines /\ g.at = a.at /\ g.null = a.null /\ g.hung = a.hung
         /\ \A u \in Tasks \ {t} : g.task[u] = a.task[u]
    BY <1>12 DEF WroteTask
  <1>14. g.current = t /\ g.hung = m.hung  BY <1>2, <1>5, <1>8, <1>12, <1>13 DEF Same
  <1>15. Agree(g, m, Tasks)
    <2>1. Agree(a, o, Tasks) /\ Agree(o, m, Tasks)  BY <1>5, <1>8, SameAgree
    <2> QED  BY <1>12, <2>1, AgreeTrans
  <1>16. Touches(g.at, m.at, N)  BY <1>5, <1>9, <1>13 DEF Touches
  <1>17. ASSUME HasPage0(t) PROVE Good(g, fq, rq, kids) /\ Stands(m, rq, g, rq)
    <2>1. Queues(g.at, fq, rq, {g.current, Idle}, 2)
      <3>1. PICK O : O = {g.current, Idle}  OBVIOUS
      <3>2. Queues(m.at, fq, rq, O, 2)  BY <1>1, <1>2, <1>14, <3>1
      <3>3. \A x \in N : x # freequeue /\ x # readyqueue /\ \A u \in Tasks \ O : x # List(u)
        BY <1>3, <1>14, <1>n, <3>1, NodesAre
      <3>4. Queues(g.at, fq, rq, O, 2)  BY <1>16, <3>2, <3>3, QueuesStay
      <3> QED  BY <3>1, <3>4
    <2>2. Alive(g, rq) = Alive(m, rq) /\ Alive(m, rq) \subseteq Tasks
      BY <1>2, <1>3, <1>14, InTasks DEF Alive
    <2>3. Agree(g, m, Alive(m, rq))  BY <1>15, <2>2, AgreeLess
    <2>4. Related(g, kids, Alive(g, rq))
      <3>1. N \subseteq QueueNodes  BY <1>3, <1>n DEF QueueNodes
      <3>2. Touches(g.at, m.at, QueueNodes)  BY <1>16, <3>1 DEF Touches
      <3>3. Related(g, kids, Alive(m, rq))  BY <1>1, <2>3, <3>2, RelatedStay
      <3> QED  BY <2>2, <3>3
    <2>5. AllReady(g, rq)
      <3> SUFFICES ASSUME NEW u \in In(rq) PROVE g.task[u].state = "ST_READY"
        BY DEF AllReady
      <3>1. u \in Tasks /\ m.task[u].state = "ST_READY"
        BY <1>1, <1>3, InTasks DEF AllReady
      <3>2. u # t  BY <1>1, <1>2, QueuesParts
      <3>3. a.task = m.task  BY <1>5, <1>8 DEF Same
      <3> QED  BY <1>13, <3>1, <3>2, <3>3
    <2>6. Running1(g)
      <3>1. g.task[g.current].state = "ST_BLOCKED"  BY <1>10, <1>12, <1>14
      <3> QED  BY <1>9, <1>13, <1>14, <1>17, <3>1 DEF Running1
    <2>7. Good(g, fq, rq, kids)
      BY <1>1, <1>2, <1>13, <1>14, <2>1, <2>4, <2>5, <2>6 DEF Good
    <2> QED  BY <1>2, <1>14, <2>3, <2>7 DEF Stands
  <1> QED  BY <1>2, <1>8, <1>13, <1>14, <1>17

set_pending(h, t, n) == [h EXCEPT !.task[t].pending_unblocks = n]

\* pending_unblocks of one task written.
LEMMA PendingWritten ==
    ASSUME NEW m, NEW fq, NEW rq, NEW kids, Good(m, fq, rq, kids), NEW t \in Tasks, NEW n \in Int,
           NEW h, h \in Machines, h.at = m.at, h.current = m.current, h.task = m.task,
           h.global_pids = m.global_pids,
           NEW g, g = set_pending(h, t, n)
    PROVE  Good(g, fq, rq, kids) /\ Stands(m, rq, g, rq) /\ g.null = h.null /\ g.hung = h.hung
  <1>1. PICK a : a = [h.task EXCEPT ![t].pending_unblocks = n]  OBVIOUS
  <1>2. h.task \in [Tasks -> TaskStructs]  BY DEF Machines
  <1>3. /\ a \in [Tasks -> TaskStructs]
        /\ \A u \in Tasks : a[u].PID = h.task[u].PID /\ a[u].pParent = h.task[u].pParent
                            /\ a[u].state = h.task[u].state
    BY <1>1, <1>2 DEF TaskStructs
  <1>4. g = [h EXCEPT !.task = a]  BY <1>1 DEF set_pending
  <1>5. g \in Machines /\ g.task = a /\ g.at = h.at /\ g.null = h.null /\ g.hung = h.hung
        /\ g.current = h.current /\ g.global_pids = h.global_pids
    BY <1>3, <1>4 DEF Machines
  <1>6. Agree(g, m, Tasks) /\ \A u \in Tasks : g.task[u].state = m.task[u].state
    BY <1>3, <1>5 DEF Agree
  <1>7. g.at = m.at /\ g.current = m.current  BY <1>5
  <1>8. Good(g, fq, rq, kids) /\ Stands(m, rq, g, rq)  BY <1>5, <1>6, <1>7, StaysGood
  <1> QED  BY <1>5, <1>8

LEMMA Blocked ==
    ASSUME NEW m, NEW fq, NEW rq, NEW kids, Good(m, fq, rq, kids), NEW g, g = sys_block(m)
    PROVE  \/ g.null /\ ~HasPage0(m.current)
           \/ g.hung = m.hung /\ Outcome(m, rq, g)
  <1>1. m \in Machines /\ m.current \in Tasks  BY DEF Good, Machines
  <1>2. CASE m.task[m.current].pending_unblocks = 0
    <2>1. PICK w : w = update_process_state_rr(m, m.current, blocked)  OBVIOUS
    <2>2. g = schedule(w)  BY <1>2, <2>1 DEF sys_block
    <2>3. /\ w \in Machines /\ w.null /\ w.hung = m.hung
          /\ HasPage0(m.current) => Good(w, fq, rq, kids) /\ Stands(m, rq, w, rq)
      BY <2>1, ToBlocked
    <2>4. CASE ~HasPage0(m.current)
      BY <2>2, <2>3, <2>4, NullSticks
    <2>5. CASE HasPage0(m.current)
      <3>1. Good(w, fq, rq, kids) /\ Stands(m, rq, w, rq)  BY <2>3, <2>5
      <3>2. PICK rq2 : Good(g, fq, rq2, kids) /\ (Stands(w, rq, g, rq2) \/ Turns(w, rq, g, rq2))
        BY <2>2, <3>1, Scheduled
      <3>3. g.hung = w.hung  BY <2>2, <3>1, Scheduled
      <3>4. Alive(w, rq) = Alive(m, rq) /\ w.current = m.current  BY <3>1 DEF Stands, Alive
      <3>5. Stands(m, rq, g, rq2) \/ Turns(m, rq, g, rq2)
        BY <3>1, <3>2, <3>4, AgreeTrans DEF Stands, Turns
      <3>6. Outcome(m, rq, g)  BY <3>2, <3>5 DEF Outcome
      <3>7. g.hung = m.hung  BY <2>3, <3>3
      <3> QED  BY <3>6, <3>7, Zenon
    <2> QED  BY <2>4, <2>5
  <1>3. CASE m.task[m.current].pending_unblocks # 0
    <2>1. PICK n : n = m.task[m.current].pending_unblocks - 1  OBVIOUS
    <2>2. n \in Int  BY <1>1, <2>1 DEF Machines, TaskStructs
    <2>3. g = set_pending(m, m.current, n)  BY <1>3, <2>1 DEF sys_block, set_pending
    <2>4. Good(g, fq, rq, kids) /\ Stands(m, rq, g, rq) /\ g.hung = m.hung
      BY <1>1, <2>2, <2>3, PendingWritten
    <2>5. Outcome(m, rq, g)  BY <2>4 DEF Outcome
    <2>6. g.hung = m.hung  BY <2>4
    <2> QED  BY <2>5, <2>6, Zenon
  <1> QED  BY <1>2, <1>3

-----------------------------------------------------------------------------
(* unblock                                                                 *)

\* A list of different tasks is no longer than the task array.
LEMMA Short ==
    ASSUME NEW q \in Seq(Tasks), Distinct(q)
    PROVE  Len(q) \in Nat /\ Len(q) <= NR_TASKS
  <1>1. PICK n \in Nat : n = Len(q)  OBVIOUS
  <1>2. q \in Injection(1 .. n, Tasks)
    <2>1. q \in [1 .. n -> Tasks]  BY <1>1
    <2>2. \A i, j \in 1 .. n : q[i] = q[j] => i = j  BY <1>1 DEF Distinct
    <2> QED  BY <2>1, <2>2 DEF Injection, IsInjective
  <1>3. IsFiniteSet(Tasks) /\ Cardinality(Tasks) = NR_TASKS
    <2>1. NR_TASKS \in Nat /\ 0 \in Int /\ NR_TASKS - 1 \in Int /\ NR_TASKS # 0
      BY E2Assumption
    <2>2. IsFiniteSet(0 .. NR_TASKS - 1)
          /\ Cardinality(0 .. NR_TASKS - 1) = IF 0 > NR_TASKS - 1 THEN 0 ELSE NR_TASKS - 1 - 0 + 1
      BY <2>1, FS_Interval
    <2> QED  BY <2>1, <2>2 DEF Tasks
  <1>4. Cardinality(1 .. n) <= Cardinality(Tasks)
    BY <1>2, <1>3, FS_Injection
  <1>5. Cardinality(1 .. n) = n
    <2>1. Cardinality(1 .. n) = IF 1 > n THEN 0 ELSE n - 1 + 1  BY FS_Interval
    <2> QED  BY <2>1
  <1> QED  BY <1>1, <1>3, <1>4, <1>5

NodesOf(k, q) == [j \in 1 .. Len(q) |-> <<k, q[j]>>]
Fits(q, fuel) == fuel \in Nat /\ Len(q) <= fuel

LEMMA NodesOfOwn ==
    ASSUME NEW h, NEW k, NEW head, NEW q, Own(h.at, k, head, q), NEW fuel, Fits(q, fuel)
    PROVE  nodes(h, head, fuel) = NodesOf(k, q) /\ (is_ring(h, head, fuel) <=> TRUE)
  BY NodesOfRing, IsRing DEF Own, Fits, NodesOf

LEMMA FitsFuel == ASSUME NEW q \in Seq(Tasks), Distinct(q) PROVE Fits(q, Fuel)
  BY Short, Slots DEF Fits

\* The sons of the running process, as is_child and get_child see them.
LEMMA SonsAre ==
    ASSUME NEW m, NEW fq, NEW rq, NEW kids, Good(m, fq, rq, kids), NEW q, q = kids[m.current]
    PROVE  /\ sons(m) = [j \in 1 .. Len(q) |-> <<"brothers", q[j]>>]
           /\ q \in Seq(Tasks) /\ Len(q) \in Nat /\ Len(q) < Fuel
           /\ \A j \in 1 .. Len(q) :
                 q[j] \in In(rq) /\ m.task[q[j]].pParent = m.current /\ <<"brothers", q[j]>> # NULL
  <1>1. /\ m \in Machines /\ Related(m, kids, Alive(m, rq))  BY DEF Good
  <1>2. m.current \in Tasks /\ m.current \in Alive(m, rq)  BY <1>1 DEF Machines, Alive
  <1>3. Families(m.at, kids, Alive(m, rq)) /\ Kinship(m.task, kids, Alive(m, rq))
    BY <1>1 DEF Related
  <1>4. Own(m.at, "brothers", Sons(m.current), q)  BY <1>2, <1>3 DEF Families
  <1>5. /\ Heads("brothers", Sons(m.current)) /\ q \in Seq(Tasks) /\ Distinct(q)
        /\ Ring(m.at, "brothers", Sons(m.current), q)
    BY <1>4 DEF Own
  <1>6. Len(q) \in Nat /\ Len(q) < Fuel /\ Len(q) <= Fuel /\ Fuel \in Nat
    <2>1. Len(q) \in Nat /\ Len(q) <= NR_TASKS  BY <1>5, Short
    <2> QED  BY <2>1, Slots
  <1>7. sons(m) = [j \in 1 .. Len(q) |-> <<"brothers", q[j]>>]
    <2>1. Fits(q, Fuel)  BY <1>5, FitsFuel
    <2>2. sons(m) = NodesOf("brothers", q)  BY <1>4, <2>1, NodesOfOwn DEF sons
    <2> QED  BY <2>2 DEF NodesOf
  <1>8. ASSUME NEW j \in 1 .. Len(q)
        PROVE  q[j] \in In(rq) /\ m.task[q[j]].pParent = m.current /\ <<"brothers", q[j]>> # NULL
    <2>1. PICK u : u = q[j]  OBVIOUS
    <2>2. u \in In(q)  BY <2>1 DEF In
    <2>3. In(q) = {v \in Alive(m, rq) : m.task[v].pParent = m.current}
      BY <1>2, <1>3 DEF Kinship
    <2>4. u \in Alive(m, rq) /\ m.task[u].pParent = m.current  BY <2>2, <2>3
    <2>5. u # m.current
      <3>1. CASE u = Init1
        <4>1. m.task[u].pParent = NoTask  BY <1>3, <3>1 DEF Kinship
        <4> QED  BY <1>2, <2>4, <4>1, Slots
      <3>2. CASE u # Init1
        BY <1>3, <2>4, <3>2 DEF Kinship
      <3> QED  BY <3>1, <3>2
    <2>6. u \in In(rq)  BY <2>4, <2>5 DEF Alive
    <2>7. <<"brothers", u>> # NULL  BY DEF NULL
    <2> QED  BY <2>1, <2>4, <2>6, <2>7
  <1> QED  BY <1>5, <1>6, <1>7, <1>8

LEMMA Walked ==
    ASSUME NEW m, NEW fq, NEW rq, NEW kids, Good(m, fq, rq, kids), ~m.null, ~m.hung,
           NEW pid, NEW w, w = walked(m, pid)
    PROVE  /\ w \in Machines /\ w.at = m.at /\ w.current = m.current /\ w.task = m.task
           /\ w.global_pids = m.global_pids /\ ~w.null /\ ~w.hung
           /\ hits(m, pid) # {} =>
                 get_child(m, pid) \in Tasks /\ m.task[get_child(m, pid)].state = "ST_READY"
  <1>1. PICK q : q = kids[m.current]  OBVIOUS
  <1>2. /\ sons(m) = [j \in 1 .. Len(q) |-> <<"brothers", q[j]>>]
        /\ q \in Seq(Tasks) /\ Len(q) \in Nat /\ Len(q) < Fuel
        /\ \A j \in 1 .. Len(q) :
              q[j] \in In(rq) /\ m.task[q[j]].pParent = m.current /\ <<"brothers", q[j]>> # NULL
    BY <1>1, SonsAre
  <1>3. PICK s : s = sons(m)  OBVIOUS
  <1>4. DOMAIN s = 1 .. Len(q) /\ Len(s) = Len(q) /\ \A j \in 1 .. Len(q) : s[j] = <<"brothers", q[j]>>
    BY <1>2, <1>3
  <1>5. hits(m, pid) \subseteq 1 .. Len(q)  BY <1>3, <1>4 DEF hits
  <1>6. ASSUME hits(m, pid) # {} PROVE first_hit(m, pid) \in hits(m, pid)
    <2>1. PICK H : H = hits(m, pid)  OBVIOUS
    <2>2. H \in SUBSET Nat /\ H # {}  BY <1>2, <1>5, <1>6, <2>1
    <2>3. \E x \in H : \A y \in H : x <= y  BY <2>2, Least
    <2>4. first_hit(m, pid) = CHOOSE i \in H : \A j \in H : i <= j  BY <2>1 DEF first_hit
    <2>5. first_hit(m, pid) \in H  BY <2>3, <2>4
    <2> QED  BY <2>1, <2>5
  <1>7. PICK end : end = IF hits(m, pid) = {} THEN Len(s) ELSE first_hit(m, pid)  OBVIOUS
  <1>8. end \in Nat /\ end <= Len(q)  BY <1>2, <1>4, <1>5, <1>6, <1>7
  <1>9. PICK a, b : /\ a = (\E i \in 1 .. end : s[i] = NULL)
                    /\ b = (hits(m, pid) = {} /\ end = Fuel)
    OBVIOUS
  <1>10. a = FALSE /\ b = FALSE
    <2>1. \A i \in 1 .. end : i \in 1 .. Len(q)  BY <1>2, <1>8
    <2>2. \A i \in 1 .. end : s[i] # NULL  BY <1>2, <1>4, <2>1
    <2>3. end # Fuel  BY <1>2, <1>8, Slots
    <2> QED  BY <1>9, <2>2, <2>3
  <1>11. w = [m EXCEPT !.null = a, !.hung = b]
    BY <1>3, <1>7, <1>9, Zenon DEF walked
  <1>12. /\ w \in Machines /\ w.at = m.at /\ w.current = m.current /\ w.task = m.task
         /\ w.global_pids = m.global_pids /\ ~w.null /\ ~w.hung
    <2>1. m \in Machines  BY DEF Good
    <2> QED  BY <1>10, <1>11, <2>1 DEF Machines
  <1>13. ASSUME hits(m, pid) # {}
         PROVE  get_child(m, pid) \in Tasks /\ m.task[get_child(m, pid)].state = "ST_READY"
    <2>1. PICK j \in 1 .. Len(q) : j = first_hit(m, pid)  BY <1>5, <1>6, <1>13
    <2>2. get_child(m, pid) = q[j]  BY <1>3, <1>4, <2>1 DEF get_child
    <2>3. q[j] \in In(rq) /\ q[j] \in Tasks  BY <1>2
    <2>4. AllReady(m, rq)  BY DEF Good
    <2> QED  BY <2>2, <2>3, <2>4 DEF AllReady
  <1> QED  BY <1>12, <1>13

LEMMA Unblocked ==
    ASSUME NEW m, NEW fq, NEW rq, NEW kids, Good(m, fq, rq, kids), ~m.null, ~m.hung,
           NEW pid, NEW g, g = sys_unblock(m, pid)
    PROVE  Good(g, fq, rq, kids) /\ Stands(m, rq, g, rq) /\ ~g.null /\ ~g.hung
  <1>1. PICK w : w = walked(m, pid)  OBVIOUS
  <1>2. /\ w \in Machines /\ w.at = m.at /\ w.current = m.current /\ w.task = m.task
        /\ w.global_pids = m.global_pids /\ ~w.null /\ ~w.hung
        /\ hits(m, pid) # {} =>
              get_child(m, pid) \in Tasks /\ m.task[get_child(m, pid)].state = "ST_READY"
    BY <1>1, Walked
  <1>3. CASE hits(m, pid) = {}
    <2>1. g = w  BY <1>1, <1>3, Zenon DEF sys_unblock
    <2>2. Agree(g, m, Tasks) /\ \A u \in Tasks : g.task[u].state = m.task[u].state
      BY <1>2, <2>1 DEF Agree
    <2>3. Good(g, fq, rq, kids) /\ Stands(m, rq, g, rq)
      BY <1>2, <2>1, <2>2, StaysGood
    <2> QED  BY <1>2, <2>1, <2>3
  <1>4. CASE hits(m, pid) # {}
    <2>1. PICK n : n = m.task[m.current].pending_unblocks + 1  OBVIOUS
    <2>2. m.current \in Tasks /\ n \in Int
      <3>1. m \in Machines  BY DEF Good
      <3> QED  BY <2>1, <3>1 DEF Machines, TaskStructs
    <2>3. m.task[get_child(m, pid)].state # "ST_BLOCKED"  BY <1>2, <1>4
    <2>4. g = [w EXCEPT !.task[m.current].pending_unblocks = @ + 1]
      BY <1>1, <1>4, <2>3 DEF sys_unblock
    <2>5. g = set_pending(w, m.current, n)
      BY <1>2, <2>1, <2>4 DEF set_pending
    <2>6. Good(g, fq, rq, kids) /\ Stands(m, rq, g, rq) /\ g.null = w.null /\ g.hung = w.hung
      BY <1>2, <2>2, <2>5, PendingWritten
    <2> QED  BY <1>2, <2>6
  <1> QED  BY <1>3, <1>4

-----------------------------------------------------------------------------
(* fork                                                                    *)

NodesOfSlot(u) == {List(u), Sons(u), Brothers(u)}

\* h is m, with the slot u out of the free queue: anything may stand in it.
Born(h, m, fq, rq, u) ==
    /\ h \in Machines /\ h.current = m.current
    /\ u \in Tasks /\ u # Idle /\ u # Init1 /\ u \notin Alive(m, rq)
    /\ Queues(h.at, Rest(fq), rq, {m.current, Idle} \cup {u}, 3)
    /\ Agree(h, m, Alive(m, rq)) /\ \A x \in Alive(m, rq) : h.task[x] = m.task[x]
    /\ Touches(h.at, m.at, Around("list", freequeue, fq) \cup NodesOfSlot(u))
    /\ (h.null <=> m.null) /\ h.hung = m.hung

LEMMA CopiedIs ==
    ASSUME NEW m \in Machines, NEW u \in Tasks, NEW g, g = copied(m, u)
    PROVE  /\ g \in Machines /\ g.current = m.current /\ g.global_pids = m.global_pids
           /\ g.null = m.null /\ g.hung = m.hung
           /\ \A x \in Tasks \ {u} : g.task[x] = m.task[x]
           /\ Touches(g.at, m.at, NodesOfSlot(u))
  <1>1. m.current \in Tasks /\ m.task \in [Tasks -> TaskStructs] /\ m.at \in Links  BY DEF Machines
  <1>2. PICK a, b, c, d : /\ a = m.task[m.current] /\ b = m.at[List(m.current)]
                          /\ c = m.at[Sons(m.current)] /\ d = m.at[Brothers(m.current)]
    OBVIOUS
  <1>3. a \in TaskStructs /\ {b, c, d} \subseteq [next : Nodes, prev : Nodes]
    BY <1>1, <1>2, NodesAre DEF Links
  <1>4. PICK e : e = [m.task EXCEPT ![u] = a]  OBVIOUS
  <1>5. PICK l : l = [m.at EXCEPT ![List(u)] = b, ![Sons(u)] = c, ![Brothers(u)] = d]  OBVIOUS
  <1>6. e \in [Tasks -> TaskStructs] /\ \A x \in Tasks \ {u} : e[x] = m.task[x]
    BY <1>1, <1>3, <1>4
  <1>7. l \in Links /\ Touches(l, m.at, NodesOfSlot(u))
    <2>1. l \in Links  BY <1>1, <1>3, <1>5 DEF Links
    <2>2. \A x \in Nodes \ NodesOfSlot(u) : l[x] = m.at[x]
      BY <1>1, <1>5 DEF Links, NodesOfSlot
    <2> QED  BY <2>1, <2>2 DEF Touches
  <1>8. g = [m EXCEPT !.task = e, !.at = l]
    BY <1>2, <1>4, <1>5 DEF copied, Machines
  <1> QED  BY <1>6, <1>7, <1>8 DEF Machines

LEMMA NewTask ==
    ASSUME NEW m, NEW fq, NEW rq, NEW kids, Good(m, fq, rq, kids), ~list_empty(m, freequeue),
           NEW u, u = child_of(m), NEW h, h = new_task(m)
    PROVE  Born(h, m, fq, rq, u) /\ u = Lead(fq) /\ u \in In(fq) /\ In(Rest(fq)) = In(fq) \ {u}
  <1>1. /\ m \in Machines /\ Queues(m.at, fq, rq, {m.current, Idle}, 2)
        /\ Related(m, kids, Alive(m, rq))
    BY DEF Good
  <1>2. /\ Own(m.at, "list", freequeue, fq)
        /\ fq \in Seq(Tasks) /\ rq \in Seq(Tasks) /\ m.current \in Tasks
        /\ In(fq) \cap In(rq) = {} /\ (In(fq) \cup In(rq)) \cap {m.current, Idle} = {}
    <2>1. m.current \in Tasks  BY <1>1 DEF Machines
    <2> QED  BY <1>1, <2>1, QueuesParts
  <1>3. Some(fq)  BY <1>2, FirstIs DEF Some
  <1>4. PICK d : d = list_del(m, list_first(m, freequeue))  OBVIOUS
  <1>5. PICK o : o = {m.current, Idle} \cup {Lead(fq)}  OBVIOUS
  <1>6. Queues(d.at, Rest(fq), rq, o, 3) /\ Taken(d, m, freequeue, fq)
    <2>1. PICK c, e : c = 2 /\ e = c + 1  OBVIOUS
    <2>2. PICK i : i = {m.current, Idle}  OBVIOUS
    <2>3. c \in Nat /\ e = c + 1 /\ Queues(m.at, fq, rq, i, c) /\ o = i \cup {Lead(fq)}
      BY <1>1, <1>5, <2>1, <2>2
    <2>4. Queues(d.at, Rest(fq), rq, o, e) /\ Taken(d, m, freequeue, fq)
      BY <1>1, <1>3, <1>4, <2>3, LeaveFree
    <2> QED  BY <2>1, <2>4
  <1>7. /\ Moved(d, m, Around("list", freequeue, fq))
        /\ list_first(m, freequeue) = List(Lead(fq)) /\ Lead(fq) \in In(fq) /\ Lead(fq) \in Tasks
        /\ In(Rest(fq)) = In(fq) \ {Lead(fq)}
    BY <1>6 DEF Taken
  <1>8. u = Lead(fq)  BY <1>7 DEF child_of, List
  <1>9. h = copied(d, u)  BY <1>4 , Zenon DEF new_task, taken
  <1>10. d \in Machines /\ Same(d, m) /\ (d.null <=> m.null)
         /\ Touches(d.at, m.at, Around("list", freequeue, fq))
    BY <1>7 DEF Moved
  <1>11. /\ h \in Machines /\ h.current = d.current /\ h.global_pids = d.global_pids
         /\ h.null = d.null /\ h.hung = d.hung
         /\ \A x \in Tasks \ {u} : h.task[x] = d.task[x]
         /\ Touches(h.at, d.at, NodesOfSlot(u))
    BY <1>7, <1>8, <1>9, <1>10, CopiedIs
  <1>12. u \in Tasks /\ u # Idle /\ u # m.current /\ u \notin In(rq)  BY <1>2, <1>7, <1>8
  <1>13. u \notin Alive(m, rq)  BY <1>12 DEF Alive
  <1>14. u # Init1
    <2>1. Init1 \in Alive(m, rq)  BY <1>1 DEF Related, Kinship
    <2> QED  BY <1>13, <2>1
  <1>15. Alive(m, rq) \subseteq Tasks \ {u}  BY <1>2, <1>13, InTasks DEF Alive
  <1>16. \A x \in Alive(m, rq) : h.task[x] = m.task[x]
    BY <1>10, <1>11, <1>15 DEF Same
  <1>17. Agree(h, m, Alive(m, rq))
    BY <1>10, <1>11, <1>16 DEF Agree, Same
  <1>18. Queues(h.at, Rest(fq), rq, {m.current, Idle} \cup {u}, 3)
    <2>1. Queues(d.at, Rest(fq), rq, o, 3) /\ u \in o  BY <1>5, <1>6, <1>8
    <2>2. \A x \in NodesOfSlot(u) : /\ x # freequeue /\ x # readyqueue
                                    /\ \A t \in Tasks \ o : x # List(t)
      BY <1>12, <2>1, NodesAre DEF NodesOfSlot
    <2>3. Queues(h.at, Rest(fq), rq, o, 3)  BY <1>11, <2>1, <2>2, QueuesStay
    <2> QED  BY <1>5, <1>8, <2>3
  <1>19. Touches(h.at, m.at, Around("list", freequeue, fq) \cup NodesOfSlot(u))
    BY <1>10, <1>11 DEF Touches
  <1>20. h.current = m.current /\ h.hung = m.hung /\ (h.null <=> m.null)
    BY <1>10, <1>11 DEF Same
  <1>21. Born(h, m, fq, rq, u)
    BY <1>11, <1>12, <1>13, <1>14, <1>16, <1>17, <1>18, <1>19, <1>20 DEF Born
  <1> QED  BY <1>7, <1>8, <1>21

\* What is written to slots of no process leaves the families alone.
LEMMA RelatedKeeps ==
    ASSUME NEW m, NEW g, NEW kids, NEW live, Related(m, kids, live), Agree(g, m, live),
           NEW N, Touches(g.at, m.at, N), N \cap FamilyNodes(live) = {}
    PROVE  Related(g, kids, live)
  <1>1. Families(m.at, kids, live) /\ Kinship(m.task, kids, live)
        /\ Names(m.task, m.global_pids, live)
    BY DEF Related
  <1>2. live \subseteq Tasks /\ \A t \in live : In(kids[t]) \subseteq live
    BY <1>1 DEF Kinship
  <1>3. Families(g.at, kids, live)  BY <1>1, <1>2, FamiliesStay
  <1> QED  BY <1>1, <1>3, KinshipStays, NamesStay DEF Related

LEMMA SlotApart ==
    ASSUME NEW live, live \subseteq Tasks, NEW u \in Tasks \ live
    PROVE  (QueueNodes \cup NodesOfSlot(u)) \cap FamilyNodes(live) = {}
  <1> SUFFICES ASSUME NEW x, x \in FamilyNodes(live), x \in QueueNodes \cup NodesOfSlot(u) PROVE FALSE
    OBVIOUS
  <1>1. PICK t \in live : x = Sons(t) \/ x = Brothers(t)  BY DEF FamilyNodes
  <1>2. t \in Tasks /\ t # u  OBVIOUS
  <1>3. x \notin QueueNodes
    <2>1. x \in FamilyNodes(Tasks)  BY <1>1, <1>2 DEF FamilyNodes
    <2> QED  BY <2>1, QueueFamily
  <1>4. x \notin NodesOfSlot(u)  BY <1>1, <1>2, NodesAre DEF NodesOfSlot
  <1> QED  BY <1>3, <1>4

\* There were no frames: the slot goes back.
LEMMA ForkedNone ==
    ASSUME NEW m, NEW fq, NEW rq, NEW kids, Good(m, fq, rq, kids), ~list_empty(m, freequeue),
           NEW g, g = sys_fork_no_frames(m)
    PROVE  /\ \E fq2 : Good(g, fq2, rq, kids) /\ Stands(m, rq, g, rq)
           /\ (g.null <=> m.null) /\ g.hung = m.hung
  <1>1. PICK u, h : u = child_of(m) /\ h = new_task(m)  OBVIOUS
  <1>2. Born(h, m, fq, rq, u)  BY <1>1, NewTask
  <1>3. /\ h \in Machines /\ h.current = m.current
        /\ u \in Tasks /\ u # Idle /\ u \notin Alive(m, rq)
        /\ Queues(h.at, Rest(fq), rq, {m.current, Idle} \cup {u}, 3)
        /\ Agree(h, m, Alive(m, rq)) /\ \A x \in Alive(m, rq) : h.task[x] = m.task[x]
        /\ Touches(h.at, m.at, Around("list", freequeue, fq) \cup NodesOfSlot(u))
        /\ (h.null <=> m.null) /\ h.hung = m.hung
    BY <1>2 DEF Born
  <1>4. /\ m \in Machines /\ m.current # Idle /\ Queues(m.at, fq, rq, {m.current, Idle}, 2)
        /\ Related(m, kids, Alive(m, rq)) /\ AllReady(m, rq) /\ Running1(m)
    BY DEF Good
  <1>5. /\ fq \in Seq(Tasks) /\ rq \in Seq(Tasks) /\ m.current \in Tasks
        /\ m.current \notin In(fq) /\ Rest(fq) \in Seq(Tasks) /\ m.current \notin In(Rest(fq))
        /\ In(fq) \cap In(rq) = {}
    <2>1. m.current \in Tasks  BY <1>4 DEF Machines
    <2> QED  BY <1>3, <1>4, <2>1, QueuesParts
  <1>6. g = list_add_tail(h, List(u), freequeue)  BY <1>1 DEF sys_fork_no_frames
  <1>7. PICK f2 : f2 = Append(Rest(fq), u)  OBVIOUS
  <1>8. Queues(g.at, f2, rq, {m.current, Idle}, 2)
        /\ Moved(g, h, Around("list", freequeue, Rest(fq)) \cup {List(u)})
    <2>1. PICK c, e : c = 2 /\ e = c + 1  OBVIOUS
    <2>2. PICK o : o = {m.current, Idle}  OBVIOUS
    <2>3. u \notin o  BY <1>3, <2>2 DEF Alive
    <2>4. c \in Nat /\ Queues(h.at, Rest(fq), rq, o \cup {u}, c + 1)  BY <1>3, <2>1, <2>2
    <2>5. Queues(g.at, f2, rq, o, c)
          /\ Moved(g, h, Around("list", freequeue, Rest(fq)) \cup {List(u)})
      BY <1>3, <1>6, <1>7, <2>3, <2>4, JoinFree
    <2> QED  BY <2>1, <2>2, <2>5
  <1>9. g \in Machines /\ Same(g, h) /\ (g.null <=> h.null)
        /\ Touches(g.at, h.at, Around("list", freequeue, Rest(fq)) \cup {List(u)})
    BY <1>8 DEF Moved
  <1>10. PICK N : N = Around("list", freequeue, fq) \cup NodesOfSlot(u)
                        \cup Around("list", freequeue, Rest(fq))
    OBVIOUS
  <1>11. Touches(g.at, m.at, N)
    BY <1>3, <1>9, <1>10 DEF Touches, NodesOfSlot
  <1>12. Alive(m, rq) \subseteq Tasks /\ Alive(g, rq) = Alive(m, rq) /\ g.current = m.current
    BY <1>3, <1>5, <1>9, InTasks DEF Alive, Same
  <1>13. Agree(g, m, Alive(m, rq))
    <2>1. Agree(g, h, Alive(m, rq))  BY <1>9, SameAgree
    <2> QED  BY <1>3, <2>1, AgreeTrans
  <1>14. Related(g, kids, Alive(g, rq))
    <2>1. N \subseteq QueueNodes \cup NodesOfSlot(u)
      BY <1>5, <1>10, AroundQueue
    <2>2. N \cap FamilyNodes(Alive(m, rq)) = {}
      BY <1>3, <1>12, <2>1, SlotApart
    <2>3. Related(g, kids, Alive(m, rq))  BY <1>4, <1>11, <1>13, <2>2, RelatedKeeps
    <2> QED  BY <1>12, <2>3
  <1>15. \A x \in Alive(m, rq) : g.task[x] = m.task[x]
    BY <1>3, <1>9 DEF Same
  <1>16. AllReady(g, rq)  BY <1>4, <1>15 DEF AllReady, Alive
  <1>17. Running1(g)
    <2>1. g.task[g.current] = m.task[m.current]  BY <1>12, <1>15 DEF Alive
    <2>2. List(m.current) \in Nodes \ N /\ blocked \in Nodes \ N
      <3>1. m.current # u  BY <1>3 DEF Alive
      <3>2. List(m.current) \notin Around("list", freequeue, fq)
            /\ blocked \notin Around("list", freequeue, fq)
        BY <1>5, QueuesApart
      <3>3. List(m.current) \notin Around("list", freequeue, Rest(fq))
            /\ blocked \notin Around("list", freequeue, Rest(fq))
        <4>1. In(Rest(fq)) \cap In(rq) = {}  BY <1>3, QueuesParts
        <4> QED  BY <1>5, <4>1, QueuesApart
      <3>4. List(m.current) \notin NodesOfSlot(u) /\ blocked \notin NodesOfSlot(u)
        BY <1>3, <1>5, <3>1, NodesAre DEF NodesOfSlot
      <3>5. List(m.current) \in Nodes /\ blocked \in Nodes  BY <1>5, NodesAre
      <3> QED  BY <1>10, <3>2, <3>3, <3>4, <3>5
    <2>3. /\ g.at[List(g.current)].next = m.at[List(m.current)].next
          /\ g.at[List(g.current)].prev = m.at[List(m.current)].prev
          /\ g.at[blocked].prev = m.at[blocked].prev
      BY <1>11, <1>12, <2>2 DEF Touches
    <2> QED  BY <1>4, <1>12, <2>1, <2>3 DEF Running1
  <1>18. Good(g, f2, rq, kids)
    BY <1>4, <1>8, <1>9, <1>12, <1>14, <1>16, <1>17 DEF Good
  <1>19. Stands(m, rq, g, rq)  BY <1>12, <1>13 DEF Stands
  <1>20. (g.null <=> m.null) /\ g.hung = m.hung  BY <1>3, <1>9 DEF Same
  <1> QED  BY <1>18, <1>19, <1>20

LEMMA NumberedIs ==
    ASSUME NEW m \in Machines, NEW u \in Tasks, NEW g, g = numbered(m, u)
    PROVE  /\ g \in Machines /\ g.current = m.current /\ g.global_pids = m.global_pids + 1
           /\ g.null = m.null /\ g.hung = m.hung /\ g.at = m.at
           /\ \A x \in Tasks \ {u} : g.task[x] = m.task[x]
           /\ g.task[u].PID = m.global_pids + 1 /\ g.task[u].state = "ST_READY"
  <1>1. m.task \in [Tasks -> TaskStructs] /\ m.global_pids \in Int  BY DEF Machines
  <1>2. PICK n : n = m.global_pids + 1  OBVIOUS
  <1>3. PICK s \in States : s = "ST_READY"  BY DEF States
  <1>4. PICK a : a = [m.task EXCEPT ![u].PID = n]  OBVIOUS
  <1>5. a \in [Tasks -> TaskStructs] /\ (\A x \in Tasks \ {u} : a[x] = m.task[x]) /\ a[u].PID = n
    BY <1>1, <1>2, <1>4 DEF TaskStructs
  <1>6. PICK b : b = [a EXCEPT ![u].state = s]  OBVIOUS
  <1>7. b \in [Tasks -> TaskStructs] /\ (\A x \in Tasks \ {u} : b[x] = m.task[x])
        /\ b[u].PID = n /\ b[u].state = s
    BY <1>5, <1>6 DEF TaskStructs
  <1>8. n \in Int  BY <1>1, <1>2
  <1>9. g = [m EXCEPT !.global_pids = n, !.task = b]
    BY <1>2, <1>3, <1>4, <1>6 DEF numbered, Machines
  <1> QED  BY <1>2, <1>3, <1>7, <1>8, <1>9 DEF Machines

set_parent(h, t, p) == [h EXCEPT !.task[t].pParent = p]

LEMMA ParentWritten ==
    ASSUME NEW h \in Machines, NEW t \in Tasks, NEW p \in Int,
           NEW g, g = set_parent(h, t, p)
    PROVE  /\ WroteTask(g, h, t) /\ g.task[t].pParent = p
           /\ g.task[t].PID = h.task[t].PID /\ g.task[t].state = h.task[t].state
           /\ g.current = h.current /\ g.global_pids = h.global_pids
  <1>1. PICK a : a = [h.task EXCEPT ![t].pParent = p]  OBVIOUS
  <1>2. h.task \in [Tasks -> TaskStructs]  BY DEF Machines
  <1>3. /\ a \in [Tasks -> TaskStructs] /\ \A u \in Tasks \ {t} : a[u] = h.task[u]
        /\ a[t].pParent = p /\ a[t].PID = h.task[t].PID /\ a[t].state = h.task[t].state
    BY <1>1, <1>2 DEF TaskStructs
  <1>4. g = [h EXCEPT !.task = a]  BY <1>1 DEF set_parent
  <1>5. g \in Machines /\ g.task = a /\ g.at = h.at /\ g.null = h.null /\ g.hung = h.hung
        /\ g.current = h.current /\ g.global_pids = h.global_pids
    BY <1>3, <1>4 DEF Machines
  <1> QED  BY <1>3, <1>5 DEF WroteTask

\* The nodes of the families of two processes are different.
LEMMA FamiliesApart ==
    ASSUME NEW task_, NEW kids, NEW live, Kinship(task_, kids, live),
           NEW s \in live, NEW t \in live, s # t
    PROVE  Around("brothers", Sons(s), kids[s]) \cap Around("brothers", Sons(t), kids[t]) = {}
  <1>1. live \subseteq Tasks /\ s \in Tasks /\ t \in Tasks  BY DEF Kinship
  <1>2. In(kids[s]) = {u \in live : task_[u].pParent = s}
        /\ In(kids[t]) = {u \in live : task_[u].pParent = t}
    BY DEF Kinship
  <1>3. In(kids[s]) \cap In(kids[t]) = {} /\ In(kids[s]) \subseteq Tasks /\ In(kids[t]) \subseteq Tasks
    BY <1>1, <1>2
  <1>4. /\ \A x \in Around("brothers", Sons(s), kids[s]) : x = Sons(s) \/ \E u \in In(kids[s]) : x = Brothers(u)
        /\ \A x \in Around("brothers", Sons(t), kids[t]) : x = Sons(t) \/ \E u \in In(kids[t]) : x = Brothers(u)
    BY DEF Around, Brothers
  <1>5. \A u, v \in Tasks : Brothers(u) = Brothers(v) => u = v  BY NodesAre
  <1>6. Sons(s) # Sons(t) /\ \A u \in Tasks : Brothers(u) # Sons(s) /\ Brothers(u) # Sons(t)
    BY <1>1, NodesAre
  <1> QED  BY <1>1, <1>3, <1>4, <1>5, <1>6

\* A new process u, with no sons, first of the sons of p.
LEMMA AdoptKin ==
    ASSUME NEW task_, NEW kids, NEW live, Kinship(task_, kids, live), NEW p \in live,
           NEW u \in Tasks, u \notin live, NEW task2,
           \A x \in live : task2[x].pParent = task_[x].pParent,
           task2[u].pParent = p,
           NEW q, q \in Seq(Tasks), In(q) = In(kids[p]) \cup {u},
           NEW kids2, kids2 = [kids EXCEPT ![p] = q, ![u] = <<>>]
    PROVE  Kinship(task2, kids2, live \cup {u})
  <1>1. /\ kids \in [Tasks -> Seq(Tasks)] /\ live \subseteq Tasks
        /\ \A t \in live : In(kids[t]) = {x \in live : task_[x].pParent = t}
        /\ \A x \in live \ {Init1} : task_[x].pParent \in live /\ task_[x].pParent # x
        /\ Init1 \in live /\ task_[Init1].pParent = NoTask
    BY DEF Kinship
  <1>2. p \in Tasks /\ p # u /\ u # Init1  BY <1>1
  <1>3. PICK e : e = <<>>  OBVIOUS
  <1>4. e \in Seq(Tasks) /\ In(e) = {}  BY <1>3 DEF In
  <1>5. kids2 \in [Tasks -> Seq(Tasks)] /\ kids2[p] = q /\ kids2[u] = e
        /\ \A t \in Tasks \ {p, u} : kids2[t] = kids[t]
    BY <1>1, <1>2, <1>3, <1>4
  <1>6. \A x \in live : task2[x].pParent # u
    <2> TAKE x \in live
    <2>1. CASE x = Init1
      <3>1. task_[x].pParent = NoTask  BY <1>1, <2>1
      <3> QED  BY <3>1, Slots
    <2>2. CASE x # Init1
      <3>1. task_[x].pParent \in live  BY <1>1, <2>2
      <3> QED  BY <3>1
    <2> QED  BY <2>1, <2>2
  <1>7. ASSUME NEW t \in live \cup {u}
        PROVE  In(kids2[t]) = {x \in live \cup {u} : task2[x].pParent = t}
    <2>1. CASE t = u
      <3>1. \A x \in live \cup {u} : task2[x].pParent # u  BY <1>2, <1>6
      <3> QED  BY <1>4, <1>5, <2>1, <3>1
    <2>2. CASE t = p
      <3>1. In(kids2[t]) = {x \in live : task_[x].pParent = p} \cup {u}
        BY <1>1, <1>5, <2>2
      <3>2. \A x : x \in {y \in live \cup {u} : task2[y].pParent = p}
                     <=> x \in {y \in live : task_[y].pParent = p} \cup {u}
        OBVIOUS
      <3>3. {y \in live \cup {u} : task2[y].pParent = p} = {y \in live : task_[y].pParent = p} \cup {u}
        BY <3>2
      <3> QED  BY <2>2, <3>1, <3>3
    <2>3. CASE t # u /\ t # p
      <3>1. t \in live /\ t \in Tasks \ {p, u}  BY <1>1, <2>3
      <3>2. In(kids2[t]) = {x \in live : task_[x].pParent = t}
        BY <1>1, <1>5, <3>1
      <3>3. \A x : x \in {y \in live \cup {u} : task2[y].pParent = t}
                     <=> x \in {y \in live : task_[y].pParent = t}
        BY <2>3
      <3>4. {y \in live \cup {u} : task2[y].pParent = t} = {y \in live : task_[y].pParent = t}
        BY <3>3
      <3> QED  BY <3>2, <3>4
    <2> QED  BY <2>1, <2>2, <2>3
  <1>8. ASSUME NEW x \in (live \cup {u}) \ {Init1}
        PROVE  task2[x].pParent \in live \cup {u} /\ task2[x].pParent # x
    <2>1. CASE x = u  BY <1>2, <2>1
    <2>2. CASE x # u
      <3>1. task_[x].pParent \in live /\ task_[x].pParent # x  BY <1>1, <2>2
      <3> QED  BY <2>2, <3>1
    <2> QED  BY <2>1, <2>2
  <1>9. live \cup {u} \subseteq Tasks /\ Init1 \in live \cup {u} /\ task2[Init1].pParent = NoTask
    BY <1>1
  <1> QED  BY <1>5, <1>7, <1>8, <1>9 DEF Kinship

LEMMA NewName ==
    ASSUME NEW task_, NEW last \in Int, NEW live, Names(task_, last, live), live \subseteq Tasks,
           task_ \in [Tasks -> TaskStructs],
           NEW u, u \notin live, NEW task2,
           \A x \in live : task2[x].PID = task_[x].PID, task2[u].PID = last + 1,
           NEW last2, last2 = last + 1
    PROVE  Names(task2, last2, live \cup {u})
  <1>1. \A x \in live : task_[x].PID \in Int  BY DEF TaskStructs
  <1>2. \A x \in live : task_[x].PID <= last  BY DEF Names
  <1>3. \A x \in live : task2[x].PID <= last2 /\ task2[x].PID # last2
    <2> TAKE x \in live
    <2>1. task_[x].PID \in Int /\ task_[x].PID <= last  BY <1>1, <1>2
    <2>2. task2[x].PID = task_[x].PID  OBVIOUS
    <2> QED  BY <2>1, <2>2
  <1>4. task2[u].PID = last2 /\ last2 <= last2  OBVIOUS
  <1>5. \A x, y \in live : task2[x].PID = task2[y].PID => x = y  BY DEF Names
  <1>6. \A x, y \in live \cup {u} : task2[x].PID = task2[y].PID => x = y
    BY <1>3, <1>4, <1>5
  <1>7. \A x \in live \cup {u} : task2[x].PID <= last2  BY <1>3, <1>4
  <1> QED  BY <1>6, <1>7 DEF Names

\* r is m, with a new process in slot u that is ready, and not yet a son.
Readied(r, m, fq, rq, u) ==
    /\ r \in Machines /\ r.current = m.current /\ r.global_pids = m.global_pids + 1
    /\ (r.null <=> m.null) /\ r.hung = m.hung
    /\ u \in Tasks \ Alive(m, rq) /\ u # Idle
    /\ (\A x \in Alive(m, rq) : r.task[x] = m.task[x])
    /\ r.task[u].PID = m.global_pids + 1 /\ r.task[u].state = "ST_READY"
    /\ Queues(r.at, Rest(fq), Append(rq, u), {m.current, Idle}, 2)
    /\ Touches(r.at, m.at, QueueNodes \cup NodesOfSlot(u))
    /\ r.at[List(m.current)].next = m.at[List(m.current)].next
    /\ r.at[List(m.current)].prev = m.at[List(m.current)].prev
    /\ r.at[blocked].prev = m.at[blocked].prev

LEMMA Queued ==
    ASSUME NEW m, NEW fq, NEW rq, NEW kids, Good(m, fq, rq, kids), ~list_empty(m, freequeue),
           NEW u, u = child_of(m),
           NEW r, r = list_add_tail(numbered(new_task(m), u), List(u), readyqueue)
    PROVE  Readied(r, m, fq, rq, u)
  <1>1. PICK h : h = new_task(m)  OBVIOUS
  <1>2. Born(h, m, fq, rq, u) /\ In(Rest(fq)) = In(fq) \ {u}  BY <1>1, NewTask
  <1>3. /\ h \in Machines /\ h.current = m.current
        /\ u \in Tasks /\ u # Idle /\ u \notin Alive(m, rq)
        /\ Queues(h.at, Rest(fq), rq, {m.current, Idle} \cup {u}, 3)
        /\ Agree(h, m, Alive(m, rq)) /\ \A x \in Alive(m, rq) : h.task[x] = m.task[x]
        /\ Touches(h.at, m.at, Around("list", freequeue, fq) \cup NodesOfSlot(u))
        /\ (h.null <=> m.null) /\ h.hung = m.hung
    BY <1>2 DEF Born
  <1>4. m \in Machines /\ m.current # Idle /\ Queues(m.at, fq, rq, {m.current, Idle}, 2)
    BY DEF Good
  <1>5. /\ fq \in Seq(Tasks) /\ rq \in Seq(Tasks) /\ m.current \in Tasks
        /\ m.current \notin In(fq) /\ m.current \notin In(rq) /\ In(fq) \cap In(rq) = {}
    <2>1. m.current \in Tasks  BY <1>4 DEF Machines
    <2> QED  BY <1>4, <2>1, QueuesParts
  <1>6. PICK n : n = numbered(h, u)  OBVIOUS
  <1>7. /\ n \in Machines /\ n.current = h.current /\ n.global_pids = h.global_pids + 1
        /\ n.null = h.null /\ n.hung = h.hung /\ n.at = h.at
        /\ \A x \in Tasks \ {u} : n.task[x] = h.task[x]
        /\ n.task[u].PID = h.global_pids + 1 /\ n.task[u].state = "ST_READY"
    BY <1>3, <1>6, NumberedIs
  <1>8. r = list_add_tail(n, List(u), readyqueue)  BY <1>1, <1>6
  <1>9. Queues(r.at, Rest(fq), Append(rq, u), {m.current, Idle}, 2)
        /\ Moved(r, n, Around("list", readyqueue, rq) \cup {List(u)})
    <2>1. PICK c, e : c = 2 /\ e = c + 1  OBVIOUS
    <2>2. PICK o : o = {m.current, Idle}  OBVIOUS
    <2>3. u \notin o  BY <1>3, <2>2 DEF Alive
    <2>4. c \in Nat /\ Queues(n.at, Rest(fq), rq, o \cup {u}, c + 1)  BY <1>3, <1>7, <2>1, <2>2
    <2>5. Queues(r.at, Rest(fq), Append(rq, u), o, c)
          /\ Moved(r, n, Around("list", readyqueue, rq) \cup {List(u)})
      BY <1>3, <1>7, <1>8, <2>3, <2>4, JoinReady
    <2> QED  BY <2>1, <2>2, <2>5
  <1>10. r \in Machines /\ Same(r, n) /\ (r.null <=> n.null)
         /\ Touches(r.at, n.at, Around("list", readyqueue, rq) \cup {List(u)})
    BY <1>9 DEF Moved
  <1>11. h.global_pids = m.global_pids  BY <1>3 DEF Agree
  <1>12. Alive(m, rq) \subseteq Tasks \ {u}  BY <1>3, <1>5, InTasks DEF Alive
  <1>13. \A x \in Alive(m, rq) : r.task[x] = m.task[x]
    BY <1>3, <1>7, <1>10, <1>12 DEF Same
  <1>14. /\ r.current = m.current /\ r.global_pids = m.global_pids + 1
         /\ (r.null <=> m.null) /\ r.hung = m.hung
         /\ r.task[u].PID = m.global_pids + 1 /\ r.task[u].state = "ST_READY"
    BY <1>3, <1>7, <1>10, <1>11 DEF Same
  <1>15. PICK N : N = Around("list", freequeue, fq) \cup NodesOfSlot(u)
                        \cup Around("list", readyqueue, rq)
    OBVIOUS
  <1>16. Touches(r.at, m.at, N)
    BY <1>3, <1>7, <1>10, <1>15 DEF Touches, NodesOfSlot
  <1>17. Touches(r.at, m.at, QueueNodes \cup NodesOfSlot(u))
    <2>1. N \subseteq QueueNodes \cup NodesOfSlot(u)  BY <1>5, <1>15, AroundQueue
    <2> QED  BY <1>16, <2>1 DEF Touches
  <1>18. List(m.current) \in Nodes \ N /\ blocked \in Nodes \ N
    <2>1. m.current # u  BY <1>3 DEF Alive
    <2>2. /\ List(m.current) \notin Around("list", freequeue, fq)
          /\ List(m.current) \notin Around("list", readyqueue, rq)
          /\ blocked \notin Around("list", freequeue, fq)
          /\ blocked \notin Around("list", readyqueue, rq)
      BY <1>5, QueuesApart
    <2>3. List(m.current) \notin NodesOfSlot(u) /\ blocked \notin NodesOfSlot(u)
      BY <1>3, <1>5, <2>1, NodesAre DEF NodesOfSlot
    <2>4. List(m.current) \in Nodes /\ blocked \in Nodes  BY <1>5, NodesAre
    <2> QED  BY <1>15, <2>2, <2>3, <2>4
  <1>19. /\ r.at[List(m.current)].next = m.at[List(m.current)].next
         /\ r.at[List(m.current)].prev = m.at[List(m.current)].prev
         /\ r.at[blocked].prev = m.at[blocked].prev
    BY <1>16, <1>18 DEF Touches
  <1> QED  BY <1>3, <1>9, <1>10, <1>13, <1>14, <1>17, <1>19 DEF Readied

\* The child becomes the first of the sons of the running process.
LEMMA Adopted ==
    ASSUME NEW m \in Machines, NEW kids, NEW live, Families(m.at, kids, live),
           Kinship(m.task, kids, live),
           m.current \in live, NEW u \in Tasks \ live,
           NEW g, g = adopted(m, u)
    PROVE  /\ g \in Machines /\ g.current = m.current /\ g.global_pids = m.global_pids
           /\ (g.null <=> m.null) /\ g.hung = m.hung
           /\ (\A x \in Tasks \ {u} : g.task[x] = m.task[x])
           /\ g.task[u].PID = m.task[u].PID /\ g.task[u].state = m.task[u].state
           /\ Touches(g.at, m.at, FamilyNodes(Tasks))
           /\ \E kids2 : /\ Families(g.at, kids2, live \cup {u})
                         /\ Kinship(g.task, kids2, live \cup {u})
  <1>1. PICK p, q : p = m.current /\ q = kids[p]  OBVIOUS
  <1>2. live \subseteq Tasks /\ p \in live /\ p \in Tasks /\ u \in Tasks /\ u \notin live /\ p # u
        /\ kids \in [Tasks -> Seq(Tasks)]
    BY <1>1 DEF Kinship
  <1>3. PICK s : s = INIT_LIST_HEAD(m, Sons(u))  OBVIOUS
  <1>4. PICK a : a = list_add(s, Brothers(u), Sons(p))  OBVIOUS
  <1>5. g = set_parent(a, u, p)
    BY <1>1, <1>3, <1>4 DEF adopted, set_parent
  <1>6. /\ Reset(s.at, m.at, Sons(u)) /\ (s.null <=> m.null)
        /\ s \in Machines /\ Same(s, m)
    <2>1. Sons(u) \in Nodes /\ Sons(u) # NULL  BY <1>2, NodesAre
    <2> QED  BY <1>3, <2>1, Resetting DEF Kind
  <1>7. Touches(s.at, m.at, {Sons(u)})  BY <1>6 DEF Reset, Touches
  <1>8. \A t \in live : In(kids[t]) \subseteq live  BY DEF Kinship
  <1>9. Families(s.at, kids, live)
    <2>1. {Sons(u)} \cap FamilyNodes(live) = {}
      <3>1. (QueueNodes \cup NodesOfSlot(u)) \cap FamilyNodes(live) = {}
        BY <1>2, SlotApart
      <3> QED  BY <3>1 DEF NodesOfSlot
    <2> QED  BY <1>2, <1>7, <1>8, <2>1, FamiliesStay
  <1>10. PICK e : e = <<>>  OBVIOUS
  <1>11. Own(s.at, "brothers", Sons(u), e)
    <2>1. e \in Seq(Tasks) /\ Distinct(e)  BY <1>10 DEF Distinct
    <2>2. Heads("brothers", Sons(u)) /\ Sons(u) # NULL /\ Sons(u) \in Nodes
      BY <1>2, HeadsAre, NodesAre
    <2>3. s.at[Sons(u)].next = Sons(u) /\ s.at[Sons(u)].prev = Sons(u)
      BY <1>6, <2>2 DEF Reset
    <2>4. Ring(s.at, "brothers", Sons(u), e)  BY <1>10, <2>3, EmptyRing
    <2> QED  BY <2>1, <2>2, <2>4 DEF Own, Kinds
  <1>12. Own(s.at, "brothers", Sons(p), q)  BY <1>1, <1>2, <1>9 DEF Families
  <1>13. In(q) \subseteq live /\ u \notin In(q) /\ q \in Seq(Tasks)
    BY <1>1, <1>2, <1>8
  <1>14. PICK q2 : q2 = <<u>> \o q  OBVIOUS
  <1>15. /\ Own(a.at, "brothers", Sons(p), q2)
         /\ Moved(a, s, Around("brothers", Sons(p), q) \cup {Brothers(u)})
    <2>1. a = list_add(s, <<"brothers", u>>, Sons(p))  BY <1>4 DEF Brothers
    <2> QED  BY <1>2, <1>6, <1>12, <1>13, <1>14, <2>1, JoinHead DEF Brothers
  <1>16. /\ a \in Machines /\ Same(a, s) /\ (a.null <=> s.null)
         /\ Touches(a.at, s.at, Around("brothers", Sons(p), q) \cup {Brothers(u)})
    BY <1>15 DEF Moved
  <1>17. /\ WroteTask(g, a, u) /\ g.task[u].pParent = p
         /\ g.task[u].PID = a.task[u].PID /\ g.task[u].state = a.task[u].state
         /\ g.current = a.current /\ g.global_pids = a.global_pids
    <2>1. p \in Int  BY <1>2, Slots DEF Tasks
    <2> QED  BY <1>2, <1>5, <1>16, <2>1, ParentWritten
  <1>18. /\ g \in Machines /\ g.at = a.at /\ g.null = a.null /\ g.hung = a.hung
         /\ \A x \in Tasks \ {u} : g.task[x] = a.task[x]
    BY <1>17 DEF WroteTask
  <1>19. PICK kids2 : kids2 = [kids EXCEPT ![p] = q2, ![u] = <<>>]  OBVIOUS
  <1>20. kids2[p] = q2 /\ kids2[u] = e /\ \A t \in Tasks \ {p, u} : kids2[t] = kids[t]
    BY <1>2, <1>10, <1>19
  <1>21. \A x \in live : g.task[x].pParent = m.task[x].pParent
    BY <1>2, <1>6, <1>16, <1>18 DEF Same
  <1>22. Kinship(g.task, kids2, live \cup {u})
    <2>1. q2 \in Seq(Tasks) /\ In(q2) = In(q) \cup {u}
      <3>1. PICK n \in Nat : n = Len(q)  BY <1>13
      <3>2. q2 \in Seq(Tasks) /\ Len(q2) = n + 1 /\ q2[1] = u /\ \A i \in 2 .. n + 1 : q2[i] = q[i - 1]
        BY <1>2, <1>13, <1>14, <3>1
      <3>3. \A i \in 1 .. n : q2[i + 1] = q[i]  BY <1>13, <1>14, <3>1
      <3>4. In(q2) \subseteq In(q) \cup {u}
        <4>1. ASSUME NEW i \in 1 .. n + 1 PROVE q2[i] \in In(q) \cup {u}
          <5>1. CASE i = 1  BY <3>2, <5>1
          <5>2. CASE i # 1
            <6>1. i \in 2 .. n + 1 /\ i - 1 \in 1 .. n  BY <5>2
            <6> QED  BY <3>1, <3>2, <6>1 DEF In
          <5> QED  BY <5>1, <5>2
        <4> QED  BY <3>2, <4>1 DEF In
      <3>5. In(q) \cup {u} \subseteq In(q2)
        <4>1. u \in In(q2)  BY <3>2 DEF In
        <4>2. \A i \in 1 .. n : q[i] \in In(q2)
          <5>1. \A i \in 1 .. n : i + 1 \in 1 .. n + 1  OBVIOUS
          <5> QED  BY <3>2, <3>3, <5>1 DEF In
        <4> QED  BY <3>1, <4>1, <4>2 DEF In
      <3> QED  BY <3>2, <3>4, <3>5
    <2> QED  BY <1>1, <1>2, <1>17, <1>19, <1>21, <2>1, AdoptKin
  <1>23. Families(g.at, kids2, live \cup {u})
    <2> SUFFICES ASSUME NEW t \in live \cup {u} PROVE Own(g.at, "brothers", Sons(t), kids2[t])
      BY DEF Families
    <2>1. CASE t = p  BY <1>15, <1>18, <1>20, <2>1
    <2>2. CASE t = u
      <3>1. Around("brothers", Sons(u), e) = {Sons(u)}  BY <1>10 DEF Around, In
      <3>2. (Around("brothers", Sons(p), q) \cup {Brothers(u)}) \cap {Sons(u)} = {}
        <4>1. Sons(u) # Sons(p) /\ Sons(u) # Brothers(u)  BY <1>2, NodesAre
        <4>2. \A x \in In(q) : Brothers(x) # Sons(u)  BY <1>2, <1>13, NodesAre
        <4> QED  BY <4>1, <4>2 DEF Around, Brothers
      <3>3. (Around("brothers", Sons(p), q) \cup {Brothers(u)}) \cap Around("brothers", Sons(u), e) = {}
        BY <3>1, <3>2
      <3>4. Own(a.at, "brothers", Sons(u), e)  BY <1>11, <1>16, <3>3, OwnStays
      <3> QED  BY <1>18, <1>20, <2>2, <3>4
    <2>3. CASE t # p /\ t # u
      <3>1. t \in live /\ t \in Tasks  BY <1>2, <2>3
      <3>2. Own(s.at, "brothers", Sons(t), kids[t])  BY <1>9, <3>1 DEF Families
      <3>3. Around("brothers", Sons(p), q) \cap Around("brothers", Sons(t), kids[t]) = {}
        BY <1>1, <1>2, <2>3, <3>1, FamiliesApart
      <3>4. Brothers(u) \notin Around("brothers", Sons(t), kids[t])
        <4>1. Brothers(u) # Sons(t)  BY <1>2, <3>1, NodesAre
        <4>2. \A x \in In(kids[t]) : Brothers(x) # Brothers(u)
          BY <1>2, <1>8, <3>1, NodesAre
        <4> QED  BY <4>1, <4>2 DEF Around, Brothers
      <3>5. (Around("brothers", Sons(p), q) \cup {Brothers(u)})
               \cap Around("brothers", Sons(t), kids[t]) = {}
        BY <3>3, <3>4
      <3>6. Own(a.at, "brothers", Sons(t), kids[t])  BY <1>16, <3>2, <3>5, OwnStays
      <3>7. kids2[t] = kids[t]  BY <1>20, <2>3, <3>1
      <3> QED  BY <1>18, <3>6, <3>7
    <2> QED  BY <2>1, <2>2, <2>3
  <1>24. Touches(g.at, m.at, FamilyNodes(Tasks))
    <2>1. Around("brothers", Sons(p), q) \cup {Brothers(u)} \cup {Sons(u)} \subseteq FamilyNodes(Tasks)
      BY <1>2, <1>13 DEF Around, FamilyNodes, Brothers
    <2> QED  BY <1>7, <1>16, <1>18, <2>1 DEF Touches
  <1>25. /\ g.current = m.current /\ g.global_pids = m.global_pids
         /\ (g.null <=> m.null) /\ g.hung = m.hung
         /\ (\A x \in Tasks \ {u} : g.task[x] = m.task[x])
         /\ g.task[u].PID = m.task[u].PID /\ g.task[u].state = m.task[u].state
    BY <1>6, <1>16, <1>17, <1>18 DEF Same
  <1> QED  BY <1>18, <1>22, <1>23, <1>24, <1>25

\* fork: the child is the last of the ready processes.
LEMMA Forked ==
    ASSUME NEW m, NEW fq, NEW rq, NEW kids, Good(m, fq, rq, kids), ~list_empty(m, freequeue),
           NEW g, g = sys_fork(m)
    PROVE  Outcome(m, rq, g) /\ (g.null <=> m.null) /\ g.hung = m.hung
  <1>1. PICK u : u = child_of(m)  OBVIOUS
  <1>2. PICK r : r = list_add_tail(numbered(new_task(m), u), List(u), readyqueue)  OBVIOUS
  <1>3. /\ r \in Machines /\ r.current = m.current /\ r.global_pids = m.global_pids + 1
        /\ (r.null <=> m.null) /\ r.hung = m.hung
        /\ u \in Tasks \ Alive(m, rq) /\ u # Idle
        /\ (\A x \in Alive(m, rq) : r.task[x] = m.task[x])
        /\ r.task[u].PID = m.global_pids + 1 /\ r.task[u].state = "ST_READY"
        /\ Queues(r.at, Rest(fq), Append(rq, u), {m.current, Idle}, 2)
        /\ Touches(r.at, m.at, QueueNodes \cup NodesOfSlot(u))
        /\ r.at[List(m.current)].next = m.at[List(m.current)].next
        /\ r.at[List(m.current)].prev = m.at[List(m.current)].prev
        /\ r.at[blocked].prev = m.at[blocked].prev
    <2>1. Readied(r, m, fq, rq, u)  BY <1>1, <1>2, Queued
    <2> QED  BY <2>1 DEF Readied
  <1>4. g = adopted(r, u)  BY <1>1, <1>2, Zenon DEF sys_fork
  <1>5. /\ m \in Machines /\ m.current # Idle /\ Queues(m.at, fq, rq, {m.current, Idle}, 2)
        /\ Related(m, kids, Alive(m, rq)) /\ AllReady(m, rq) /\ Running1(m)
    BY DEF Good
  <1>6. rq \in Seq(Tasks) /\ m.current \in Tasks
    <2>1. m.current \in Tasks  BY <1>5 DEF Machines
    <2> QED  BY <1>5, <2>1, QueuesParts
  <1>7. PICK live : live = Alive(m, rq)  OBVIOUS
  <1>8. Families(m.at, kids, live) /\ Kinship(m.task, kids, live)
        /\ Names(m.task, m.global_pids, live)
    BY <1>5, <1>7 DEF Related
  <1>9. live \subseteq Tasks /\ m.current \in live /\ u \in Tasks \ live /\ u \in Tasks /\ u \notin live
        /\ \A t \in live : In(kids[t]) \subseteq live
    BY <1>3, <1>7, <1>8 DEF Kinship, Alive
  <1>10. Families(r.at, kids, live)
    <2>1. PICK N : N = QueueNodes \cup NodesOfSlot(u)  OBVIOUS
    <2>2. N \cap FamilyNodes(live) = {}  BY <1>9, <2>1, SlotApart
    <2>3. Touches(r.at, m.at, N)  BY <1>3, <2>1
    <2> QED  BY <1>8, <1>9, <2>2, <2>3, FamiliesStay
  <1>11. Kinship(r.task, kids, live)
    <2>1. \A x \in live : r.task[x].pParent = m.task[x].pParent  BY <1>3, <1>7
    <2> QED  BY <1>8, <2>1, KinshipSame
  <1>12. /\ g \in Machines /\ g.current = r.current /\ g.global_pids = r.global_pids
         /\ (g.null <=> r.null) /\ g.hung = r.hung
         /\ (\A x \in Tasks \ {u} : g.task[x] = r.task[x])
         /\ g.task[u].PID = r.task[u].PID /\ g.task[u].state = r.task[u].state
         /\ Touches(g.at, r.at, FamilyNodes(Tasks))
         /\ \E kids2 : /\ Families(g.at, kids2, live \cup {u})
                       /\ Kinship(g.task, kids2, live \cup {u})
    BY <1>3, <1>4, <1>9, <1>10, <1>11, Adopted
  <1>13. PICK kids2 : /\ Families(g.at, kids2, live \cup {u})
                      /\ Kinship(g.task, kids2, live \cup {u})
    BY <1>12
  <1>14. \A x \in live : g.task[x] = m.task[x]
    <2>1. \A x \in live : x \in Tasks \ {u}  BY <1>9
    <2> QED  BY <1>3, <1>7, <1>12, <2>1
  <1>15. g.current = m.current /\ g.global_pids = m.global_pids + 1
         /\ g.task[u].PID = m.global_pids + 1 /\ g.task[u].state = "ST_READY"
    BY <1>3, <1>12
  <1>16. Names(g.task, g.global_pids, live \cup {u})
    <2>1. m.task \in [Tasks -> TaskStructs] /\ m.global_pids \in Int  BY <1>5 DEF Machines
    <2>2. PICK last, last2 : last = m.global_pids /\ last2 = m.global_pids + 1  OBVIOUS
    <2>3. last \in Int /\ last2 = last + 1 /\ g.task[u].PID = last + 1 /\ Names(m.task, last, live)
      BY <1>8, <1>15, <2>1, <2>2
    <2>4. \A x \in live : g.task[x].PID = m.task[x].PID  BY <1>14
    <2>5. Names(g.task, last2, live \cup {u})  BY <1>9, <2>1, <2>3, <2>4, NewName
    <2> QED  BY <1>15, <2>2, <2>5
  <1>17. PICK rq2 : rq2 = Append(rq, u)  OBVIOUS
  <1>18. In(rq2) = In(rq) \cup {u}  BY <1>6, <1>9, <1>17, InAppend
  <1>19. Alive(g, rq2) = live \cup {u}  BY <1>7, <1>15, <1>18 DEF Alive
  <1>20. Related(g, kids2, Alive(g, rq2))
    BY <1>13, <1>16, <1>19 DEF Related
  <1>21. Queues(g.at, Rest(fq), rq2, {g.current, Idle}, 2)
    <2>1. PICK o : o = {m.current, Idle}  OBVIOUS
    <2>2. Queues(r.at, Rest(fq), rq2, o, 2)  BY <1>3, <1>17, <2>1
    <2>3. PICK N : N = FamilyNodes(Tasks)  OBVIOUS
    <2>4. \A x \in N : /\ x # freequeue /\ x # readyqueue
                       /\ \A t \in Tasks \ o : x # List(t)
      <3>1. N \cap QueueNodes = {}  BY <2>3, QueueFamily
      <3> QED  BY <3>1 DEF QueueNodes
    <2>5. Touches(g.at, r.at, N)  BY <1>12, <2>3
    <2>6. Queues(g.at, Rest(fq), rq2, o, 2)  BY <2>2, <2>4, <2>5, QueuesStay
    <2> QED  BY <1>15, <2>1, <2>6
  <1>22. AllReady(g, rq2)
    <2> SUFFICES ASSUME NEW x \in In(rq2) PROVE g.task[x].state = "ST_READY"
      BY DEF AllReady
    <2>1. CASE x = u  BY <1>15, <2>1
    <2>2. CASE x # u
      <3>1. x \in In(rq) /\ x \in live  BY <1>7, <1>18, <2>2 DEF Alive
      <3>2. m.task[x].state = "ST_READY"  BY <1>5, <3>1 DEF AllReady
      <3> QED  BY <1>14, <3>1, <3>2
    <2> QED  BY <2>1, <2>2
  <1>23. Running1(g)
    <2>1. g.task[g.current] = m.task[m.current]  BY <1>9, <1>14, <1>15
    <2>2. List(m.current) \in Nodes \ FamilyNodes(Tasks) /\ blocked \in Nodes \ FamilyNodes(Tasks)
      <3>1. List(m.current) \in QueueNodes /\ blocked \in QueueNodes  BY <1>6 DEF QueueNodes
      <3>2. List(m.current) \in Nodes /\ blocked \in Nodes  BY <1>6, NodesAre
      <3> QED  BY <3>1, <3>2, QueueFamily
    <2>3. /\ g.at[List(g.current)].next = m.at[List(m.current)].next
          /\ g.at[List(g.current)].prev = m.at[List(m.current)].prev
          /\ g.at[blocked].prev = m.at[blocked].prev
      BY <1>3, <1>12, <1>15, <2>2 DEF Touches
    <2> QED  BY <1>5, <1>15, <2>1, <2>3 DEF Running1
  <1>24. Good(g, Rest(fq), rq2, kids2)
    BY <1>5, <1>12, <1>15, <1>20, <1>21, <1>22, <1>23 DEF Good
  <1>25. Forks(m, rq, g, rq2)
    <2>1. \A t \in Alive(m, rq) : g.task[t].PID = m.task[t].PID  BY <1>7, <1>14
    <2> QED  BY <1>9, <1>15, <1>17, <2>1 DEF Forks
  <1>26. Outcome(m, rq, g)  BY <1>24, <1>25 DEF Outcome
  <1>27. (g.null <=> m.null) /\ g.hung = m.hung  BY <1>3, <1>12
  <1> QED  BY <1>26, <1>27

-----------------------------------------------------------------------------
(* exit                                                                    *)

set_pid(h, t, n) == [h EXCEPT !.task[t].PID = n]

LEMMA PidWritten ==
    ASSUME NEW h \in Machines, NEW t \in Tasks, NEW n \in Int,
           NEW g, g = set_pid(h, t, n)
    PROVE  /\ WroteTask(g, h, t) /\ g.task[t].state = h.task[t].state
           /\ g.current = h.current /\ g.global_pids = h.global_pids
  <1>1. PICK a : a = [h.task EXCEPT ![t].PID = n]  OBVIOUS
  <1>2. h.task \in [Tasks -> TaskStructs]  BY DEF Machines
  <1>3. /\ a \in [Tasks -> TaskStructs] /\ \A u \in Tasks \ {t} : a[u] = h.task[u]
        /\ a[t].state = h.task[t].state
    BY <1>1, <1>2 DEF TaskStructs
  <1>4. g = [h EXCEPT !.task = a]  BY <1>1 DEF set_pid
  <1>5. g \in Machines /\ g.task = a /\ g.at = h.at /\ g.null = h.null /\ g.hung = h.hung
        /\ g.current = h.current /\ g.global_pids = h.global_pids
    BY <1>3, <1>4 DEF Machines
  <1> QED  BY <1>3, <1>5 DEF WroteTask

\* What exit does after the sons were handed over.
last_part(alone, t) ==
    sched_next_rr(list_add_tail(list_del(set_pid(alone, t, -1), List(t)), List(t), freequeue))

LEMMA ExitIs ==
    ASSUME NEW m
    PROVE  sys_exit(m) = last_part(hand_over_sons(leave_parent(m)), m.current)
  BY Zenon DEF sys_exit, last_part, set_pid

\* The initial process has no parent.
LEMMA InitExits ==
    ASSUME NEW m \in Machines, m.task[m.current].pParent = NoTask,
           list_empty(m, Sons(m.current)), NEW g, g = sys_exit(m)
    PROVE  g.null
  <1>1. PICK t : t = m.current  OBVIOUS
  <1>2. t \in Tasks /\ List(t) \in Nodes /\ freequeue \in Nodes
    BY <1>1, NodesAre DEF Machines
  <1>3. PICK l : l = [m EXCEPT !.null = TRUE]  OBVIOUS
  <1>4. l \in Machines /\ l.null /\ l.at = m.at /\ l.current = m.current
    BY <1>3 DEF Machines
  <1>5. leave_parent(m) = l  BY <1>3 DEF leave_parent
  <1>6. hand_over_sons(l) = l
    <2>1. list_empty(l, Sons(l.current))  BY <1>4 DEF list_empty
    <2> QED  BY <1>4, <2>1, HandOverNone, Slots
  <1>7. PICK n \in Int : n = -1  OBVIOUS
  <1>8. PICK e : e = set_pid(l, t, n)  OBVIOUS
  <1>9. e \in Machines /\ e.null  BY <1>2, <1>4, <1>8, PidWritten DEF WroteTask
  <1>10. PICK f : f = list_del(e, List(t))  OBVIOUS
  <1>11. f \in Machines /\ f.null  BY <1>2, <1>9, <1>10, Deleting DEF Kind
  <1>12. PICK w : w = list_add_tail(f, List(t), freequeue)  OBVIOUS
  <1>13. w \in Machines /\ w.null  BY <1>2, <1>11, <1>12, AddingTail DEF Kind
  <1>14. g = sched_next_rr(w)
    <2>1. g = last_part(l, t)  BY <1>1, <1>5, <1>6, ExitIs
    <2> QED  BY <1>7, <1>8, <1>10, <1>12, <2>1 DEF last_part
  <1> QED  BY <1>13, <1>14, NextNull

\* Process t, which has no sons, is no longer one of the sons of p.
LEMMA LeaveKin ==
    ASSUME NEW task_, NEW kids, NEW live, Kinship(task_, kids, live),
           NEW t \in live, t # Init1, In(kids[t]) = {},
           NEW p \in live, p # t, NEW task2,
           \A x \in live \ {t} : task2[x].pParent = task_[x].pParent,
           NEW q, q \in Seq(Tasks), In(q) = In(kids[p]) \ {t},
           task_[t].pParent = p,
           NEW kids2, kids2 = [kids EXCEPT ![p] = q]
    PROVE  Kinship(task2, kids2, live \ {t})
  <1>1. /\ kids \in [Tasks -> Seq(Tasks)] /\ live \subseteq Tasks
        /\ \A s \in live : In(kids[s]) = {x \in live : task_[x].pParent = s}
        /\ \A x \in live \ {Init1} : task_[x].pParent \in live /\ task_[x].pParent # x
        /\ Init1 \in live /\ task_[Init1].pParent = NoTask
    BY DEF Kinship
  <1>2. p \in Tasks  BY <1>1
  <1>3. kids2 \in [Tasks -> Seq(Tasks)] /\ kids2[p] = q /\ \A s \in Tasks \ {p} : kids2[s] = kids[s]
    BY <1>1, <1>2
  <1>4. \A x \in live : task_[x].pParent # t
    <2> TAKE x \in live
    <2>1. {y \in live : task_[y].pParent = t} = {}  BY <1>1
    <2> QED  BY <2>1
  <1>5. ASSUME NEW s \in live \ {t}
        PROVE  In(kids2[s]) = {x \in live \ {t} : task2[x].pParent = s}
    <2>1. In(kids[s]) = {x \in live : task_[x].pParent = s}  BY <1>1
    <2>2. In(kids2[s]) = In(kids[s]) \ {t}
      <3>1. CASE s = p  BY <1>3, <3>1
      <3>2. CASE s # p
        <4>1. s \in Tasks \ {p}  BY <1>1, <3>2
        <4>2. kids2[s] = kids[s]  BY <1>3, <4>1
        <4>3. t \notin In(kids[s])  BY <2>1, <3>2
        <4> QED  BY <4>2, <4>3
      <3> QED  BY <3>1, <3>2
    <2>3. \A x : x \in {y \in live \ {t} : task2[y].pParent = s}
                   <=> x \in {y \in live : task_[y].pParent = s} \ {t}
      OBVIOUS
    <2>4. {y \in live \ {t} : task2[y].pParent = s} = {y \in live : task_[y].pParent = s} \ {t}
      BY <2>3
    <2> QED  BY <2>1, <2>2, <2>4
  <1>6. ASSUME NEW x \in (live \ {t}) \ {Init1}
        PROVE  task2[x].pParent \in live \ {t} /\ task2[x].pParent # x
    <2>1. task_[x].pParent \in live /\ task_[x].pParent # x /\ task_[x].pParent # t
      BY <1>1, <1>4
    <2>2. task2[x].pParent = task_[x].pParent  OBVIOUS
    <2> QED  BY <2>1, <2>2
  <1>7. live \ {t} \subseteq Tasks /\ Init1 \in live \ {t} /\ task2[Init1].pParent = NoTask
    BY <1>1
  <1> QED  BY <1>3, <1>5, <1>6, <1>7 DEF Kinship

\* d is m after its running process left the ring of its parent p.
Left(d, m, kids, p, j) ==
    /\ d \in Machines /\ Same(d, m) /\ d = hand_over_sons(leave_parent(m))
    /\ p \in Tasks /\ p # m.current /\ m.task[m.current].pParent = p
    /\ j \in 1 .. Len(kids[p]) /\ kids[p][j] = m.current
    /\ Own(d.at, "brothers", Sons(p), Removed(kids[p], j))
    /\ Touches(d.at, m.at, Around("brothers", Sons(p), kids[p]))

LEMMA LeavesParent ==
    ASSUME NEW m, NEW fq, NEW rq, NEW kids, Good(m, fq, rq, kids), m.current # Init1,
           list_empty(m, Sons(m.current))
    PROVE  \E d, p, j : Left(d, m, kids, p, j) /\ p \in In(rq)
  <1>1. PICK t, p : t = m.current /\ p = m.task[t].pParent  OBVIOUS
  <1>2. PICK live : live = Alive(m, rq)  OBVIOUS
  <1>3. m \in Machines /\ Related(m, kids, live)  BY <1>2 DEF Good
  <1>4. Families(m.at, kids, live) /\ Kinship(m.task, kids, live)
        /\ Names(m.task, m.global_pids, live)
    BY <1>3 DEF Related
  <1>5. t \in live /\ t \in Tasks /\ p \in live /\ p # t /\ p \in Tasks /\ live \subseteq Tasks
    <2>1. t \in live  BY <1>1, <1>2 DEF Alive
    <2> QED  BY <1>1, <1>4, <2>1 DEF Kinship
  <1>6. p \in In(rq)  BY <1>1, <1>2, <1>5 DEF Alive
  <1>7. PICK q : q = kids[p]  OBVIOUS
  <1>8. Own(m.at, "brothers", Sons(p), q)  BY <1>4, <1>5, <1>7 DEF Families
  <1>9. q \in Seq(Tasks) /\ Distinct(q) /\ Ring(m.at, "brothers", Sons(p), q)  BY <1>8 DEF Own
  <1>10. In(q) = {x \in live : m.task[x].pParent = p}  BY <1>4, <1>5, <1>7 DEF Kinship
  <1>11. t \in In(q) /\ In(q) \subseteq live  BY <1>1, <1>5, <1>10
  <1>12. PICK j \in 1 .. Len(q) : q[j] = t  BY <1>11 DEF In
  <1>13. PICK d : d = list_del(m, Brothers(q[j]))  OBVIOUS
  <1>14. Leaving(m, d, p, q, j)
    <2>1. ASSUME NEW l \in 1 .. Len(q) PROVE m.task[q[l]].PID = m.task[m.current].PID <=> l = j
      <3>1. q[l] \in live  BY <1>11 DEF In
      <3>2. m.task[q[l]].PID = m.task[t].PID => q[l] = t  BY <1>4, <1>5, <3>1 DEF Names
      <3>3. q[l] = q[j] => l = j  BY <1>9 DEF Distinct
      <3> QED  BY <1>1, <1>12, <3>2, <3>3
    <2> QED  BY <1>3, <1>5, <1>9, <1>13, <2>1 DEF Leaving
  <1>15. for_each(m, Sons(p), leave) = d
    <2>1. Len(q) <= 2 * Fuel
      <3>1. Len(q) \in Nat /\ Len(q) <= NR_TASKS  BY <1>9, Short
      <3> QED  BY <3>1, Slots
    <2> QED  BY <1>14, <2>1, LeaveLoop, Slots
  <1>16. leave_parent(m) = d
    <2>1. p # NoTask  BY <1>5, Slots
    <2> QED  BY <1>1, <1>15, <2>1, Zenon DEF leave_parent
  <1>17. /\ Own(d.at, "brothers", Sons(p), Removed(q, j))
         /\ Moved(d, m, Around("brothers", Sons(p), q))
    <2>1. d = list_del(m, <<"brothers", q[j]>>)  BY <1>13 DEF Brothers
    <2> QED  BY <1>3, <1>8, <2>1, Quit
  <1>18. d \in Machines /\ Same(d, m) /\ Touches(d.at, m.at, Around("brothers", Sons(p), q))
    BY <1>17 DEF Moved
  <1>19. hand_over_sons(d) = d
    <2>1. d.current = t  BY <1>1, <1>18 DEF Same
    <2>2. Sons(t) \notin Around("brothers", Sons(p), q)
      <3>1. Sons(t) # Sons(p)  BY <1>5, NodesAre
      <3>2. \A x \in In(q) : Brothers(x) # Sons(t)  BY <1>5, <1>11, NodesAre
      <3> QED  BY <3>1, <3>2 DEF Around, Brothers
    <2>3. Sons(t) \in Nodes  BY <1>5, NodesAre
    <2>4. d.at[Sons(t)].next = m.at[Sons(t)].next  BY <1>18, <2>2, <2>3 DEF Touches
    <2>5. list_empty(d, Sons(d.current))  BY <1>1, <2>1, <2>4 DEF list_empty
    <2> QED  BY <1>18, <2>5, HandOverNone, Slots
  <1>20. d = hand_over_sons(leave_parent(m))  BY <1>16, <1>19
  <1>21. Left(d, m, kids, p, j)
    BY <1>1, <1>5, <1>7, <1>12, <1>17, <1>18, <1>20 DEF Left
  <1> QED  BY <1>6, <1>21

\* The slot of the process that ended is free, and the others wait.
Ended(w, m, rq) ==
    /\ w.hung = m.hung
    /\ w.global_pids = m.global_pids /\ \A x \in In(rq) : w.task[x] = m.task[x]

LEMMA Leaves ==
    ASSUME NEW m, NEW fq, NEW rq, NEW kids, Good(m, fq, rq, kids), m.current # Init1,
           list_empty(m, Sons(m.current)),
           NEW d, NEW p, NEW j, Left(d, m, kids, p, j), p \in In(rq),
           NEW t, t = m.current,
           NEW w, w = list_add_tail(list_del(set_pid(d, t, -1), List(t)), List(t), freequeue)
    PROVE  /\ \E kids2 : Waiting(w, Append(fq, t), rq, kids2)
           /\ Ended(w, m, rq)
  <1>1. /\ m \in Machines /\ m.current # Idle /\ Queues(m.at, fq, rq, {m.current, Idle}, 2)
        /\ Related(m, kids, Alive(m, rq)) /\ AllReady(m, rq) /\ Running1(m)
    BY DEF Good
  <1>2. /\ d \in Machines /\ Same(d, m)
        /\ p \in Tasks /\ p # m.current /\ m.task[m.current].pParent = p
        /\ j \in 1 .. Len(kids[p]) /\ kids[p][j] = m.current
        /\ Own(d.at, "brothers", Sons(p), Removed(kids[p], j))
        /\ Touches(d.at, m.at, Around("brothers", Sons(p), kids[p]))
    BY DEF Left
  <1>3. /\ fq \in Seq(Tasks) /\ rq \in Seq(Tasks) /\ t \in Tasks /\ t # Idle
        /\ t \notin In(fq) /\ t \notin In(rq) /\ In(rq) \subseteq Tasks
    <2>1. t \in Tasks  BY <1>1 DEF Machines
    <2>2. fq \in Seq(Tasks) /\ rq \in Seq(Tasks) /\ (In(fq) \cup In(rq)) \cap {m.current, Idle} = {}
      BY <1>1, QueuesParts
    <2> QED  BY <1>1, <2>1, <2>2, InTasks
  <1>4. PICK live : live = Alive(m, rq)  OBVIOUS
  <1>5. Families(m.at, kids, live) /\ Kinship(m.task, kids, live)
        /\ Names(m.task, m.global_pids, live)
    BY <1>1, <1>4 DEF Related
  <1>6. live = In(rq) \cup {t} /\ In(rq) = live \ {t} /\ t \in live /\ p \in live
        /\ live \subseteq Tasks /\ kids \in [Tasks -> Seq(Tasks)]
    BY <1>3, <1>4, <1>5 DEF Alive, Kinship
  <1>7. \A s \in live : In(kids[s]) \subseteq live  BY <1>5 DEF Kinship
  <1>8. PICK q, q2 : q = kids[p] /\ q2 = Removed(q, j)  OBVIOUS
  <1>9. q2 \in Seq(Tasks) /\ In(q2) = In(q) \ {t}
    <2>1. Own(m.at, "brothers", Sons(p), q)  BY <1>5, <1>6, <1>8 DEF Families
    <2>2. q \in Seq(Tasks) /\ Distinct(q)  BY <2>1 DEF Own
    <2>3. j \in 1 .. Len(q) /\ q[j] = t  BY <1>2, <1>8
    <2> QED  BY <1>8, <2>2, <2>3, RemovedIs
  <1>10. PICK kids2 : kids2 = [kids EXCEPT ![p] = q2]  OBVIOUS
  <1>11. kids2[p] = q2 /\ \A s \in Tasks \ {p} : kids2[s] = kids[s]  BY <1>2, <1>6, <1>10
  <1>12. PICK n \in Int : n = -1  OBVIOUS
  <1>13. PICK e : e = set_pid(d, t, n)  OBVIOUS
  <1>14. /\ e \in Machines /\ e.at = d.at /\ e.hung = d.hung
         /\ (\A x \in Tasks \ {t} : e.task[x] = d.task[x])
         /\ e.task[t].state = d.task[t].state
         /\ e.current = d.current /\ e.global_pids = d.global_pids
    <2>1. /\ WroteTask(e, d, t) /\ e.task[t].state = d.task[t].state
          /\ e.current = d.current /\ e.global_pids = d.global_pids
      BY <1>2, <1>3, <1>13, PidWritten
    <2> QED  BY <2>1 DEF WroteTask
  <1>15. Touches(d.at, m.at, FamilyNodes(Tasks))
    <2>1. In(q) \subseteq Tasks  BY <1>6, <1>7, <1>8
    <2>2. Around("brothers", Sons(p), q) \subseteq FamilyNodes(Tasks)
      BY <1>2, <2>1 DEF Around, FamilyNodes, Brothers
    <2> QED  BY <1>2, <1>8, <2>2 DEF Touches
  <1>16. \A x \in QueueNodes : x \in Nodes /\ d.at[x].next = m.at[x].next /\ d.at[x].prev = m.at[x].prev
    <2>1. QueueNodes \subseteq Nodes  BY NodesAre DEF QueueNodes
    <2> QED  BY <1>15, <2>1, QueueFamily DEF Touches
  <1>17. Running1(e)
    <2>1. List(t) \in QueueNodes /\ blocked \in QueueNodes  BY <1>3 DEF QueueNodes
    <2>2. e.current = t /\ e.task[t].state = m.task[t].state  BY <1>2, <1>14 DEF Same
    <2> QED  BY <1>1, <1>14, <1>16, <2>1, <2>2 DEF Running1
  <1>18. PICK f : f = list_del(e, List(t))  OBVIOUS
  <1>19. /\ f \in Machines /\ Same(f, e) /\ Touches(f.at, e.at, {List(t), blocked, NULL})
         /\ f.at[blocked].prev = NULL
    <2>1. e.current = t  BY <1>2, <1>14 DEF Same
    <2> QED  BY <1>14, <1>17, <1>18, <2>1, Off
  <1>20. w = list_add_tail(f, List(t), freequeue)  BY <1>12, <1>13, <1>18
  <1>21. PICK O : O = {Idle} \cup {t}  OBVIOUS
  <1>22. Queues(f.at, fq, rq, O, 2)
    <2>1. Queues(m.at, fq, rq, O, 2)
      <3>1. {m.current, Idle} = O  BY <1>21
      <3> QED  BY <1>1, <3>1
    <2>2. Queues(d.at, fq, rq, O, 2)
      <3>1. PICK N : N = FamilyNodes(Tasks)  OBVIOUS
      <3>2. \A x \in N : x # freequeue /\ x # readyqueue /\ \A u \in Tasks \ O : x # List(u)
        <4>1. N \cap QueueNodes = {}  BY <3>1, QueueFamily
        <4> QED  BY <4>1 DEF QueueNodes
      <3>3. Touches(d.at, m.at, N)  BY <1>15, <3>1
      <3> QED  BY <2>1, <3>2, <3>3, QueuesStay
    <2>3. PICK N : N = {List(t), blocked, NULL}  OBVIOUS
    <2>4. \A x \in N : x # freequeue /\ x # readyqueue /\ \A u \in Tasks \ O : x # List(u)
      BY <1>3, <1>21, <2>3, NodesAre
    <2>5. Touches(f.at, d.at, N)  BY <1>14, <1>19, <2>3
    <2> QED  BY <2>2, <2>4, <2>5, QueuesStay
  <1>23. Queues(w.at, Append(fq, t), rq, {Idle}, 1)
         /\ Moved(w, f, Around("list", freequeue, fq) \cup {List(t)})
    <2>1. PICK c, b : c = 1 /\ b = c + 1  OBVIOUS
    <2>2. c \in Nat /\ b = 2  BY <2>1
    <2>3. Queues(f.at, fq, rq, {Idle} \cup {t}, c + 1)  BY <1>21, <1>22, <2>1, <2>2
    <2>4. t \notin {Idle}  BY <1>3
    <2>5. Queues(w.at, Append(fq, t), rq, {Idle}, c)
          /\ Moved(w, f, Around("list", freequeue, fq) \cup {List(t)})
      BY <1>3, <1>19, <1>20, <2>2, <2>3, <2>4, JoinFree
    <2> QED  BY <2>1, <2>5
  <1>24. /\ w \in Machines /\ Same(w, f)
         /\ Touches(w.at, f.at, Around("list", freequeue, fq) \cup {List(t)})
    BY <1>23 DEF Moved
  <1>25. \A x \in In(rq) : w.task[x] = m.task[x]
    <2>1. \A x \in In(rq) : x \in Tasks \ {t}  BY <1>3
    <2> QED  BY <1>2, <1>14, <1>19, <1>24, <2>1 DEF Same
  <1>26. Ended(w, m, rq)
    BY <1>2, <1>14, <1>19, <1>24, <1>25 DEF Ended, Same
  <1>27. Touches(w.at, d.at, QueueNodes)
    <2>1. Around("list", freequeue, fq) \subseteq QueueNodes  BY <1>3, AroundQueue
    <2>2. {List(t), blocked, NULL} \subseteq QueueNodes  BY <1>3 DEF QueueNodes
    <2> QED  BY <1>14, <1>19, <1>24, <2>1, <2>2 DEF Touches
  <1>28. w.at[blocked].prev = NULL
    <2>1. blocked \in Nodes \ (Around("list", freequeue, fq) \cup {List(t)})
      <3>1. In(fq) \cap In(rq) = {}  BY <1>1, QueuesParts
      <3> QED  BY <1>3, <3>1, QueuesApart, NodesAre
    <2> QED  BY <1>19, <1>24, <2>1 DEF Touches
  <1>29. Kinship(w.task, kids2, In(rq))
    <2>1. In(kids[t]) = {}
      <3>1. Own(m.at, "brothers", Sons(t), kids[t])  BY <1>5, <1>6 DEF Families
      <3>2. Len(kids[t]) = 0  BY <3>1, FirstIs
      <3> QED  BY <3>2 DEF In
    <2>2. \A x \in live \ {t} : w.task[x].pParent = m.task[x].pParent  BY <1>6, <1>25
    <2>3. m.task[t].pParent = p /\ In(q2) = In(kids[p]) \ {t} /\ p # t /\ t # Init1
      BY <1>2, <1>8, <1>9
    <2>4. Kinship(w.task, kids2, live \ {t})
      BY <1>5, <1>6, <1>9, <1>10, <2>1, <2>2, <2>3, LeaveKin
    <2> QED  BY <1>6, <2>4
  <1>30. Families(w.at, kids2, In(rq))
    <2>1. Families(d.at, kids2, In(rq))
      <3> SUFFICES ASSUME NEW s \in In(rq) PROVE Own(d.at, "brothers", Sons(s), kids2[s])
        BY DEF Families
      <3>1. CASE s = p  BY <1>2, <1>8, <1>11, <3>1
      <3>2. CASE s # p
        <4>1. s \in live /\ s \in Tasks \ {p}  BY <1>3, <1>6, <3>2
        <4>2. Own(m.at, "brothers", Sons(s), kids[s])  BY <1>5, <4>1 DEF Families
        <4>3. Around("brothers", Sons(p), kids[p]) \cap Around("brothers", Sons(s), kids[s]) = {}
          BY <1>5, <1>6, <3>2, <4>1, FamiliesApart
        <4>4. Own(d.at, "brothers", Sons(s), kids[s])  BY <1>2, <4>2, <4>3, OwnStays
        <4> QED  BY <1>11, <4>1, <4>4
      <3> QED  BY <3>1, <3>2
    <2>2. \A s \in In(rq) : In(kids2[s]) \subseteq In(rq)  BY <1>29 DEF Kinship
    <2>3. QueueNodes \cap FamilyNodes(In(rq)) = {}
      <3>1. FamilyNodes(In(rq)) \subseteq FamilyNodes(Tasks)  BY <1>3 DEF FamilyNodes
      <3> QED  BY <3>1, QueueFamily
    <2> QED  BY <1>3, <1>27, <2>1, <2>2, <2>3, FamiliesStay
  <1>31. Names(w.task, w.global_pids, In(rq))
    <2>1. Names(m.task, m.global_pids, In(rq))  BY <1>5, <1>6 DEF Names
    <2>2. Agree(w, m, In(rq))  BY <1>26 DEF Agree, Ended
    <2> QED  BY <2>1, <2>2, NamesStay
  <1>32. Related(w, kids2, In(rq))  BY <1>29, <1>30, <1>31 DEF Related
  <1>33. AllReady(w, rq)  BY <1>1, <1>25 DEF AllReady
  <1>34. Waiting(w, Append(fq, t), rq, kids2)
    BY <1>23, <1>24, <1>28, <1>32, <1>33 DEF Waiting
  <1> QED  BY <1>26, <1>34

\* exit of a process that outlives its sons.
LEMMA Exited ==
    ASSUME NEW m, NEW fq, NEW rq, NEW kids, Good(m, fq, rq, kids),
           list_empty(m, Sons(m.current)), NEW g, g = sys_exit(m)
    PROVE  \/ g.null /\ ~HasPage0(m.current)
           \/ g.hung = m.hung /\ Outcome(m, rq, g)
  <1>1. /\ m \in Machines /\ Related(m, kids, Alive(m, rq))
        /\ Queues(m.at, fq, rq, {m.current, Idle}, 2)
    BY DEF Good
  <1>2. Kinship(m.task, kids, Alive(m, rq))  BY <1>1 DEF Related
  <1>3. CASE m.current = Init1
    <2>1. m.task[m.current].pParent = NoTask  BY <1>2, <1>3 DEF Kinship
    <2>2. g.null  BY <1>1, <2>1, InitExits
    <2> QED  BY <1>3, <2>2 DEF HasPage0
  <1>4. CASE m.current # Init1
    <2>1. PICK t : t = m.current  OBVIOUS
    <2>2. PICK d, p, j : Left(d, m, kids, p, j) /\ p \in In(rq)  BY <1>4, LeavesParent
    <2>3. PICK w : w = list_add_tail(list_del(set_pid(d, t, -1), List(t)), List(t), freequeue)
      OBVIOUS
    <2>4. PICK kids2 : Waiting(w, Append(fq, t), rq, kids2)
      BY <1>4, <2>1, <2>2, <2>3, Leaves
    <2>5. Ended(w, m, rq)  BY <1>4, <2>1, <2>2, <2>3, Leaves
    <2>6. g = sched_next_rr(w)
      <3>1. d = hand_over_sons(leave_parent(m))  BY <2>2 DEF Left
      <3>2. g = last_part(d, t)  BY <2>1, <3>1, ExitIs
      <3> QED  BY <2>3, <3>2 DEF last_part
    <2>7. Some(rq)
      <3>1. In(rq) # {} /\ rq \in Seq(Tasks)  BY <1>1, <2>2, QueuesParts
      <3> QED  BY <3>1 DEF Some, In
    <2>8. /\ Good(g, Append(fq, t), Rest(rq), kids2) /\ g.current = Lead(rq)
          /\ Agree(g, w, Tasks) /\ g.hung = w.hung
      BY <2>4, <2>6, <2>7, PickFirst
    <2>9. Agree(g, m, In(rq))
      <3>1. In(rq) \subseteq Tasks
        <4>1. rq \in Seq(Tasks)  BY <1>1, QueuesParts
        <4> QED  BY <4>1, InTasks
      <3>2. Agree(w, m, In(rq))  BY <2>5 DEF Ended, Agree
      <3>3. Agree(g, w, In(rq))  BY <2>8, <3>1, AgreeLess
      <3> QED  BY <3>2, <3>3, AgreeTrans
    <2>10. PICK rq2 : rq2 = Rest(rq)  OBVIOUS
    <2>11. Exits(m, rq, g, rq2)  BY <2>7, <2>8, <2>9, <2>10 DEF Exits
    <2>12. Outcome(m, rq, g)  BY <2>8, <2>10, <2>11 DEF Outcome
    <2>13. g.hung = m.hung  BY <2>5, <2>8 DEF Ended
    <2> QED  BY <2>12, <2>13, Zenon
  <1> QED  BY <1>3, <1>4

-----------------------------------------------------------------------------
(* Boot.                                                                   *)

\* The slots below i, the last one pushed first.
Down(i) == [l \in 1 .. i |-> i - l]

LEMMA DownIs ==
    ASSUME NEW i \in Nat, i <= NR_TASKS, NEW q, q = Down(i)
    PROVE  /\ q \in Seq(Tasks) /\ Distinct(q) /\ Len(q) = i /\ In(q) = 0 .. i - 1
           /\ i # 0 => 1 \in 1 .. Len(q) /\ q[1] = i - 1
  <1>1. q = [l \in 1 .. i |-> i - l] /\ NR_TASKS \in Nat  BY Slots DEF Down
  <1>2. q \in [1 .. i -> Tasks]  BY <1>1 DEF Tasks
  <1>3. q \in Seq(Tasks) /\ Len(q) = i  BY <1>2
  <1>4. Distinct(q)  BY <1>1, <1>3 DEF Distinct
  <1>5. In(q) = 0 .. i - 1
    <2>1. \A l \in 1 .. i : q[l] \in 0 .. i - 1  BY <1>1
    <2>2. ASSUME NEW x \in 0 .. i - 1 PROVE \E l \in 1 .. i : q[l] = x
      <3>1. i - x \in 1 .. i /\ q[i - x] = x  BY <1>1
      <3> QED  BY <3>1
    <2> QED  BY <1>3, <2>1, <2>2 DEF In
  <1> QED  BY <1>1, <1>3, <1>4, <1>5

LEMMA DownMore ==
    ASSUME NEW i \in Nat, i < NR_TASKS
    PROVE  <<i>> \o Down(i) = Down(i + 1)
  <1>1. PICK q, n : q = Down(i) /\ n = i + 1  OBVIOUS
  <1>2. q \in Seq(Tasks) /\ Len(q) = i
    <2>1. i <= NR_TASKS  BY Slots
    <2> QED  BY <1>1, <2>1, DownIs
  <1>3. PICK a, b : a = <<i>> \o q /\ b = Down(n)  OBVIOUS
  <1>4. i \in Tasks /\ n \in Nat  BY <1>1, Slots DEF Tasks
  <1>5. a \in Seq(Tasks) /\ Len(a) = n /\ a[1] = i  BY <1>1, <1>2, <1>3, <1>4
  <1>6. \A l \in 2 .. n : a[l] = q[l - 1] /\ l - 1 \in 1 .. i  BY <1>1, <1>2, <1>3, <1>4
  <1>7. \A l \in 1 .. i : q[l] = i - l  BY <1>1 DEF Down
  <1>8. b = [l \in 1 .. n |-> n - l]  BY <1>3 DEF Down
  <1>9. a = [l \in 1 .. n |-> a[l]]  BY <1>4, <1>5
  <1>10. ASSUME NEW l \in 1 .. n PROVE a[l] = n - l
    <2>1. CASE l = 1  BY <1>1, <1>5, <2>1
    <2>2. CASE l # 1
      <3>1. l \in 2 .. n  BY <1>4, <2>2
      <3>2. a[l] = i - (l - 1)
        <4>1. PICK s : s = l - 1  OBVIOUS
        <4>2. s \in 1 .. i /\ a[l] = q[s]  BY <1>6, <3>1, <4>1
        <4>3. q[s] = i - s  BY <1>7, <4>2
        <4> QED  BY <4>1, <4>2, <4>3
      <3> QED  BY <1>1, <1>4, <3>2
    <2> QED  BY <2>1, <2>2
  <1> QED  BY <1>1, <1>3, <1>8, <1>9, <1>10

LEMMA DownLess ==
    ASSUME NEW i \in Nat, i < NR_TASKS
    PROVE  Removed(Down(i + 1), 1) = Down(i)
  <1>1. PICK q, n : n = i + 1 /\ q = Down(n)  OBVIOUS
  <1>2. q = [l \in 1 .. n |-> n - l] /\ Len(q) = n /\ n \in Nat
    <2>1. n \in Nat /\ n <= NR_TASKS  BY <1>1, Slots
    <2> QED  BY <1>1, <2>1, DownIs DEF Down
  <1>3. PICK a : a = Removed(q, 1)  OBVIOUS
  <1>4. n - 1 = i  BY <1>1
  <1>5. a = [l \in 1 .. i |-> IF l < 1 THEN q[l] ELSE q[l + 1]]
    BY <1>2, <1>3, <1>4 DEF Removed
  <1>6. \A l \in 1 .. i : (IF l < 1 THEN q[l] ELSE q[l + 1]) = i - l
    <2> TAKE l \in 1 .. i
    <2>1. PICK s : s = l + 1  OBVIOUS
    <2>2. s \in 1 .. n /\ ~(l < 1)  BY <1>1, <2>1
    <2>3. q[s] = n - s  BY <1>2, <2>2
    <2> QED  BY <1>1, <2>1, <2>2, <2>3
  <1>7. a = Down(i)  BY <1>5, <1>6 DEF Down
  <1> QED  BY <1>1, <1>3, <1>7

empty_queues == INIT_LIST_HEAD(INIT_LIST_HEAD(zeroed, readyqueue), freequeue)

LEMMA EmptyQueues ==
    /\ empty_queues \in Heaps /\ ~empty_queues.null
    /\ \A x \in {freequeue, readyqueue} :
          empty_queues.at[x].next = x /\ empty_queues.at[x].prev = x
    /\ \A x \in Nodes \ {freequeue, readyqueue} :
          empty_queues.at[x].next = NULL /\ empty_queues.at[x].prev = NULL
  <1>1. /\ NULL \in Nodes /\ freequeue \in Nodes /\ readyqueue \in Nodes
        /\ freequeue # readyqueue /\ freequeue # NULL /\ readyqueue # NULL
    BY NodesAre
  <1>2. PICK z : z = zeroed  OBVIOUS
  <1>3. z \in Heaps /\ ~z.null /\ \A x \in Nodes : z.at[x].next = NULL /\ z.at[x].prev = NULL
    BY <1>1, <1>2 DEF zeroed, Heaps, Links
  <1>4. PICK a : a = INIT_LIST_HEAD(z, readyqueue)  OBVIOUS
  <1>5. Reset(a.at, z.at, readyqueue) /\ (a.null <=> z.null \/ readyqueue = NULL) /\ Kind(a, z)
    BY <1>1, <1>3, <1>4, Resetting
  <1>6. a \in Heaps /\ ~a.null  BY <1>1, <1>3, <1>5 DEF Kind
  <1>7. PICK b : b = INIT_LIST_HEAD(a, freequeue)  OBVIOUS
  <1>8. Reset(b.at, a.at, freequeue) /\ (b.null <=> a.null \/ freequeue = NULL) /\ Kind(b, a)
    BY <1>1, <1>6, <1>7, Resetting
  <1>9. b \in Heaps /\ ~b.null  BY <1>1, <1>6, <1>8 DEF Kind
  <1>10. b = empty_queues  BY <1>2, <1>4, <1>7 DEF empty_queues
  <1>11. \A x \in {freequeue, readyqueue} : b.at[x].next = x /\ b.at[x].prev = x
    BY <1>1, <1>5, <1>8 DEF Reset
  <1>12. \A x \in Nodes \ {freequeue, readyqueue} : b.at[x].next = NULL /\ b.at[x].prev = NULL
    BY <1>3, <1>5, <1>8 DEF Reset
  <1> QED  BY <1>9, <1>10, <1>11, <1>12

\* The slots below i are in the free queue.
Filled(h, i) ==
    /\ h \in Heaps /\ ~h.null
    /\ Own(h.at, "list", freequeue, Down(i))
    /\ Touches(h.at, empty_queues.at, {freequeue} \cup {List(t) : t \in Tasks})

LEMMA NoneFilled == Filled(empty_queues, 0)
  <1>1. PICK h : h = empty_queues  OBVIOUS
  <1>2. h \in Heaps /\ ~h.null /\ h.at[freequeue].next = freequeue /\ h.at[freequeue].prev = freequeue
    BY <1>1, EmptyQueues
  <1>3. PICK q : q = Down(0)  OBVIOUS
  <1>4. q \in Seq(Tasks) /\ Distinct(q) /\ Len(q) = 0
    <2>1. 0 \in Nat /\ 0 <= NR_TASKS  BY Slots
    <2> QED  BY <1>3, <2>1, DownIs
  <1>5. q = <<>>  BY <1>4
  <1>6. Own(h.at, "list", freequeue, q)
    <2>1. Ring(h.at, "list", freequeue, q)  BY <1>2, <1>5, EmptyRing
    <2> QED  BY <1>4, <2>1, HeadsAre, NodesAre DEF Own, Kinds
  <1>7. Touches(h.at, empty_queues.at, {freequeue} \cup {List(t) : t \in Tasks})
    BY <1>1 DEF Touches
  <1> QED  BY <1>1, <1>2, <1>3, <1>6, <1>7 DEF Filled

LEMMA OneMore ==
    ASSUME NEW h, NEW i \in Nat, i < NR_TASKS, Filled(h, i),
           NEW g, g = list_add(h, List(i), freequeue)
    PROVE  Filled(g, i + 1)
  <1>1. /\ h \in Heaps /\ ~h.null
        /\ Own(h.at, "list", freequeue, Down(i))
        /\ Touches(h.at, empty_queues.at, {freequeue} \cup {List(t) : t \in Tasks})
    BY DEF Filled
  <1>2. PICK q : q = Down(i)  OBVIOUS
  <1>3. i \in Tasks /\ i \notin In(q) /\ In(q) \subseteq Tasks
    <2>1. i <= NR_TASKS  BY Slots
    <2>2. In(q) = 0 .. i - 1  BY <1>2, <2>1, DownIs
    <2> QED  BY <2>2, Slots DEF Tasks
  <1>4. g = list_add(h, <<"list", i>>, freequeue)  BY DEF List
  <1>5. PICK q2 : q2 = <<i>> \o q  OBVIOUS
  <1>6. Own(g.at, "list", freequeue, q2)  BY <1>1, <1>2, <1>3, <1>4, <1>5, JoinHeadAny
  <1>7. Kind(g, h)  BY <1>1, <1>2, <1>3, <1>4, JoinHeadAny
  <1>8. g.null <=> h.null  BY <1>1, <1>2, <1>3, <1>4, JoinHeadAny
  <1>9. Touches(g.at, h.at, Around("list", freequeue, q) \cup {<<"list", i>>})
    BY <1>1, <1>2, <1>3, <1>4, JoinHeadAny
  <1>10. q2 = Down(i + 1)  BY <1>2, <1>5, DownMore
  <1>11. Around("list", freequeue, q) \cup {<<"list", i>>}
            \subseteq {freequeue} \cup {List(t) : t \in Tasks}
    BY <1>3 DEF Around, List
  <1>12. Touches(g.at, empty_queues.at, {freequeue} \cup {List(t) : t \in Tasks})
    BY <1>1, <1>9, <1>11 DEF Touches
  <1> QED  BY <1>1, <1>6, <1>7, <1>8, <1>10, <1>12 DEF Filled, Kind

IsFill(f, n) ==
    f = [i \in 0 .. n |-> IF i = 0 THEN empty_queues ELSE list_add(f[i - 1], List(i - 1), freequeue)]

LEMMA FillExists ==
    ASSUME NEW n \in Nat
    PROVE  \E f : IsFill(f, n)
  <1> DEFINE T == {k \in Nat : \E f : IsFill(f, k)}
  <1>1. 0 \in T
    <2>1. PICK f : f = [i \in 0 .. 0 |-> empty_queues]  OBVIOUS
    <2>2. f = [i \in 0 .. 0 |-> IF i = 0 THEN empty_queues
                                ELSE list_add(f[i - 1], List(i - 1), freequeue)]
      BY <2>1
    <2>3. IsFill(f, 0)  BY <2>2 DEF IsFill
    <2> QED  BY <2>3
  <1>2. ASSUME NEW k \in Nat, k \in T PROVE k + 1 \in T
    <2>1. PICK f : IsFill(f, k)  BY <1>2
    <2>2. PICK m \in Nat : m = k + 1  OBVIOUS
    <2>3. PICK x : x = list_add(f[k], List(k), freequeue)  OBVIOUS
    <2>4. PICK g : g = [i \in 0 .. m |-> IF i = m THEN x ELSE f[i]]  OBVIOUS
    <2>5. ASSUME NEW i \in 0 .. m
          PROVE  g[i] = IF i = 0 THEN empty_queues ELSE list_add(g[i - 1], List(i - 1), freequeue)
      <3>1. CASE i = m
        <4>1. i # 0 /\ i - 1 = k /\ k \in 0 .. m /\ k # m  BY <2>2, <3>1
        <4>2. g[i] = x /\ g[k] = f[k]  BY <2>4, <3>1, <4>1
        <4> QED  BY <2>3, <4>1, <4>2
      <3>2. CASE i # m
        <4>1. i \in 0 .. k  BY <2>2, <3>2
        <4>2. g[i] = f[i]  BY <2>4, <3>2
        <4>3. f[i] = IF i = 0 THEN empty_queues ELSE list_add(f[i - 1], List(i - 1), freequeue)
          BY <2>1, <4>1 DEF IsFill
        <4>4. i # 0 => i - 1 \in 0 .. m /\ i - 1 # m  BY <2>2, <4>1
        <4>5. i # 0 => g[i - 1] = f[i - 1]  BY <2>4, <4>4
        <4> QED  BY <4>2, <4>3, <4>5
      <3> QED  BY <3>1, <3>2
    <2>6. g = [i \in 0 .. m |-> g[i]]  BY <2>4
    <2>7. IsFill(g, m)  BY <2>5, <2>6 DEF IsFill
    <2> QED  BY <2>2, <2>7
  <1>3. Nat \subseteq T
    <2> HIDE DEF T
    <2> QED  BY <1>1, <1>2, Induction
  <1> QED  BY <1>3

LEMMA FillIs ==
    ASSUME NEW n \in Nat, n <= NR_TASKS, NEW f, IsFill(f, n)
    PROVE  Filled(f[n], n)
  <1> DEFINE T == {i \in Nat : i <= n => Filled(f[i], i)}
  <1>1. 0 \in T
    <2>1. f[0] = empty_queues  BY DEF IsFill
    <2> QED  BY <2>1, NoneFilled
  <1>2. ASSUME NEW i \in Nat, i \in T PROVE i + 1 \in T
    <2>1. CASE i + 1 <= n
      <3>1. PICK l : l = i + 1  OBVIOUS
      <3>2. l \in 0 .. n /\ l # 0 /\ l - 1 = i /\ i < NR_TASKS  BY <2>1, <3>1, Slots
      <3>3. f[l] = list_add(f[i], List(i), freequeue)  BY <3>2 DEF IsFill
      <3>4. Filled(f[i], i)  BY <1>2, <2>1
      <3>5. Filled(f[l], i + 1)  BY <3>2, <3>3, <3>4, OneMore
      <3> QED  BY <3>1, <3>5
    <2> QED  BY <2>1
  <1>3. Nat \subseteq T
    <2> HIDE DEF T
    <2> QED  BY <1>1, <1>2, Induction
  <1> QED  BY <1>3

LEMMA InitSched == Filled(init_sched, NR_TASKS)
  <1>1. PICK x : x = CHOOSE fill : fill = [i \in 0 .. NR_TASKS |->
             IF i = 0 THEN empty_queues ELSE list_add(fill[i - 1], List(i - 1), freequeue)]
    OBVIOUS
  <1>2. IsFill(x, NR_TASKS)
    <2>1. \E f : IsFill(f, NR_TASKS)  BY FillExists, Slots
    <2> QED  BY <1>1, <2>1, Zenon DEF IsFill
  <1>3. init_sched = x[NR_TASKS]  BY <1>1, Zenon DEF init_sched, empty_queues
  <1> QED  BY <1>2, <1>3, FillIs, Slots

\* A slot leaves the free queue.
LEMMA TakenIs ==
    ASSUME NEW h \in Heaps, ~h.null, NEW i \in Nat, i < NR_TASKS,
           NEW n, n = i + 1,
           Own(h.at, "list", freequeue, Down(n)), NEW g, g = taken(h)
    PROVE  /\ g \in Heaps /\ ~g.null /\ Own(g.at, "list", freequeue, Down(i))
           /\ Touches(g.at, h.at, {freequeue} \cup {List(t) : t \in Tasks})
           /\ g.at[List(i)].next = NULL /\ g.at[List(i)].prev = NULL
  <1>1. PICK q : q = Down(n)  OBVIOUS
  <1>2. q \in Seq(Tasks) /\ Len(q) = n /\ 1 \in 1 .. Len(q) /\ q[1] = i /\ n \in Nat
    <2>1. n \in Nat /\ n <= NR_TASKS /\ n # 0 /\ n - 1 = i  BY Slots
    <2> QED  BY <1>1, <2>1, DownIs
  <1>3. Own(h.at, "list", freequeue, q)  BY <1>1
  <1>4. list_first(h, freequeue) = <<"list", q[1]>>
    <2>1. Len(q) # 0  BY <1>2
    <2> QED  BY <1>3, <2>1, FirstIs
  <1>5. g = list_del(h, <<"list", q[1]>>)  BY <1>4 DEF taken
  <1>6. PICK j, q2 : j = 1 /\ q2 = Removed(q, j)  OBVIOUS
  <1>7. j \in 1 .. Len(q) /\ g = list_del(h, <<"list", q[j]>>) /\ q[j] = i /\ q2 = Removed(q, j)
    BY <1>2, <1>5, <1>6
  <1>8. PICK k : k = "list"  OBVIOUS
  <1>9. HasQuit(g, h, k, freequeue, q, j)
    <2>1. Own(h.at, k, freequeue, q)  BY <1>3, <1>8
    <2>2. g = list_del(h, <<k, q[j]>>)  BY <1>8, <1>7
    <2> QED  BY <1>7, <2>1, <2>2, QuitAny
  <1>10. /\ Own(g.at, "list", freequeue, q2) /\ Kind(g, h) /\ (g.null <=> h.null)
        /\ Touches(g.at, h.at, Around("list", freequeue, q))
        /\ g.at[<<"list", q[j]>>].next = NULL /\ g.at[<<"list", q[j]>>].prev = NULL
    BY <1>8, <1>9, <1>7 DEF HasQuit
  <1>11. q2 = Down(i)  BY <1>1, <1>6, DownLess
  <1>12. Around("list", freequeue, q) \subseteq {freequeue} \cup {List(t) : t \in Tasks}
    BY <1>2, InTasks DEF Around, List
  <1>13. Touches(g.at, h.at, {freequeue} \cup {List(t) : t \in Tasks})
    BY <1>10, <1>12 DEF Touches
  <1>14. g \in Heaps /\ ~g.null  BY <1>10 DEF Kind
  <1>15. g.at[List(i)].next = NULL /\ g.at[List(i)].prev = NULL  BY <1>10, <1>7 DEF List
  <1> QED  BY <1>10, <1>11, <1>13, <1>14, <1>15

no_sons == [t \in Tasks |-> <<>>]

\* The lists as main leaves them.
Booted(at) ==
    /\ at \in Links
    /\ Own(at, "list", freequeue, Down(Init1)) /\ Own(at, "list", readyqueue, <<>>)
    /\ Own(at, "brothers", Sons(Init1), <<>>)
    /\ at[List(Init1)].next = NULL /\ at[List(Init1)].prev = NULL /\ at[blocked].prev = NULL

LEMMA EmptyOwn ==
    ASSUME NEW k \in Kinds, NEW head, Heads(k, head), head # NULL, NEW at,
           at[head].next = head, at[head].prev = head
    PROVE  Own(at, k, head, <<>>)
  <1>1. PICK q : q = <<>>  OBVIOUS
  <1>2. q \in Seq(Tasks) /\ Distinct(q)  BY <1>1 DEF Distinct
  <1>3. Ring(at, k, head, q)  BY <1>1, EmptyRing
  <1>4. Own(at, k, head, q)  BY <1>2, <1>3 DEF Own
  <1> QED  BY <1>1, <1>4

LEMMA Boots == Booted(init_task1(init_idle(init_sched)).at)
  <1>1. /\ Idle \in Nat /\ Idle < NR_TASKS /\ NR_TASKS = Idle + 1
        /\ Init1 \in Nat /\ Init1 < NR_TASKS /\ Idle = Init1 + 1
        /\ Init1 \in Tasks
    BY E2Assumption DEF Idle, Init1, Tasks
  <1>2. /\ freequeue \in Nodes /\ readyqueue \in Nodes /\ blocked \in Nodes
        /\ Sons(Init1) \in Nodes /\ Brothers(Init1) \in Nodes /\ List(Init1) \in Nodes
        /\ Sons(Init1) # NULL /\ Brothers(Init1) # NULL /\ Sons(Init1) # Brothers(Init1)
        /\ readyqueue # NULL
    BY <1>1, NodesAre
  <1>3. PICK N : N = {freequeue} \cup {List(t) : t \in Tasks}  OBVIOUS
  <1>4. readyqueue \notin N /\ blocked \notin N  BY <1>3, NodesAre
  <1>5. PICK e, h : e = empty_queues /\ h = init_sched  OBVIOUS
  <1>6. h \in Heaps /\ ~h.null /\ Own(h.at, "list", freequeue, Down(NR_TASKS)) /\ Touches(h.at, e.at, N)
    BY <1>3, <1>5, InitSched DEF Filled
  <1>7. PICK a : a = taken(h)  OBVIOUS
  <1>8. a \in Heaps /\ ~a.null /\ Own(a.at, "list", freequeue, Down(Idle)) /\ Touches(a.at, h.at, N)
    BY <1>1, <1>3, <1>6, <1>7, TakenIs
  <1>9. PICK b : b = taken(a)  OBVIOUS
  <1>10. /\ b \in Heaps /\ ~b.null /\ Own(b.at, "list", freequeue, Down(Init1)) /\ Touches(b.at, a.at, N)
         /\ b.at[List(Init1)].next = NULL /\ b.at[List(Init1)].prev = NULL
    BY <1>1, <1>3, <1>8, <1>9, TakenIs
  <1>11. PICK c : c = INIT_LIST_HEAD(b, Sons(Init1))  OBVIOUS
  <1>12. Reset(c.at, b.at, Sons(Init1)) /\ c \in Heaps
    <2>1. Reset(c.at, b.at, Sons(Init1)) /\ Kind(c, b)  BY <1>2, <1>10, <1>11, Resetting
    <2> QED  BY <1>10, <2>1 DEF Kind
  <1>13. PICK d : d = INIT_LIST_HEAD(c, Brothers(Init1))  OBVIOUS
  <1>14. Reset(d.at, c.at, Brothers(Init1)) /\ d \in Heaps
    <2>1. Reset(d.at, c.at, Brothers(Init1)) /\ Kind(d, c)  BY <1>2, <1>12, <1>13, Resetting
    <2> QED  BY <1>12, <2>1 DEF Kind
  <1>15. d = init_task1(init_idle(init_sched))
    BY <1>5, <1>7, <1>9, <1>11, <1>13 DEF init_task1, init_idle
  <1>16. PICK M : M = {Sons(Init1), Brothers(Init1)}  OBVIOUS
  <1>17. Touches(d.at, b.at, M)  BY <1>12, <1>14, <1>16 DEF Reset, Touches
  <1>18. /\ freequeue \notin M /\ readyqueue \notin M /\ blocked \notin M
         /\ \A t \in Tasks : List(t) \notin M
    BY <1>1, <1>16, NodesAre
  <1>19. Own(d.at, "list", freequeue, Down(Init1))
    <2>1. PICK q : q = Down(Init1)  OBVIOUS
    <2>2. q \in Seq(Tasks)
      <3>1. Init1 <= NR_TASKS  BY <1>1
      <3> QED  BY <1>1, <2>1, <3>1, DownIs
    <2>3. M \cap Around("list", freequeue, q) = {}
      <3>1. In(q) \subseteq Tasks  BY <2>2, InTasks
      <3>2. \A x \in Around("list", freequeue, q) : x = freequeue \/ \E t \in In(q) : x = List(t)
        BY DEF Around, List
      <3> QED  BY <1>18, <3>1, <3>2
    <2>4. Own(b.at, "list", freequeue, q)  BY <1>10, <2>1
    <2> QED  BY <1>17, <2>1, <2>3, <2>4, OwnStays
  <1>20. readyqueue \in Nodes \ (N \cup M) /\ blocked \in Nodes \ (N \cup M)
    BY <1>2, <1>4, <1>18
  <1>21. \A x \in Nodes \ (N \cup M) : d.at[x].next = e.at[x].next /\ d.at[x].prev = e.at[x].prev
    BY <1>6, <1>8, <1>10, <1>17 DEF Touches
  <1>22. Own(d.at, "list", readyqueue, <<>>)
    <2>1. e.at[readyqueue].next = readyqueue /\ e.at[readyqueue].prev = readyqueue
      BY <1>5, EmptyQueues
    <2>2. d.at[readyqueue].next = readyqueue /\ d.at[readyqueue].prev = readyqueue
      BY <1>20, <1>21, <2>1
    <2> QED  BY <1>2, <2>2, EmptyOwn, HeadsAre DEF Kinds
  <1>23. d.at[blocked].prev = NULL
    <2>1. blocked \in Nodes \ {freequeue, readyqueue}  BY NodesAre
    <2>2. e.at[blocked].prev = NULL  BY <1>5, <2>1, EmptyQueues
    <2> QED  BY <1>20, <1>21, <2>2
  <1>24. Own(d.at, "brothers", Sons(Init1), <<>>)
    <2>1. d.at[Sons(Init1)].next = Sons(Init1) /\ d.at[Sons(Init1)].prev = Sons(Init1)
      BY <1>2, <1>12, <1>14 DEF Reset
    <2> QED  BY <1>1, <1>2, <2>1, EmptyOwn, HeadsAre DEF Kinds
  <1>25. d.at[List(Init1)].next = NULL /\ d.at[List(Init1)].prev = NULL
    BY <1>1, <1>2, <1>10, <1>17, <1>18 DEF Touches
  <1>26. d.at \in Links  BY <1>14 DEF Heaps
  <1> QED  BY <1>15, <1>19, <1>22, <1>23, <1>24, <1>25, <1>26 DEF Booted

\* The initial process runs, alone.
LEMMA GoodInit ==
    ASSUME Init
    PROVE  Good(machine, Down(Init1), <<>>, no_sons)
  <1>1. PICK m, fq, rq, kids : m = machine /\ fq = Down(Init1) /\ rq = <<>> /\ kids = no_sons
    OBVIOUS
  <1>2. /\ m.at = link /\ m.null = FALSE /\ m.hung = FALSE /\ m.task = task
        /\ m.current = current /\ m.quantum_ticks = quantum_ticks /\ m.global_pids = global_pids
        /\ m = [at |-> link, null |-> FALSE, hung |-> FALSE, task |-> task,
                current |-> current, quantum_ticks |-> quantum_ticks,
                global_pids |-> global_pids]
    BY <1>1 DEF machine
  <1>3. link = init_task1(init_idle(init_sched)).at /\ current = Init1
        /\ quantum_ticks = QUANTUM /\ global_pids = FirstPID
    BY DEF Init
  <1>4. Booted(link)  BY <1>3, Boots
  <1>5. /\ link \in Links
        /\ Own(link, "list", freequeue, fq) /\ Own(link, "list", readyqueue, rq)
        /\ Own(link, "brothers", Sons(Init1), rq)
        /\ link[List(Init1)].next = NULL /\ link[List(Init1)].prev = NULL
        /\ link[blocked].prev = NULL
    BY <1>1, <1>4 DEF Booted
  <1>6. /\ Init1 \in Nat /\ Idle \in Nat /\ Init1 \in Tasks /\ Idle \in Tasks /\ Init1 # Idle
        /\ Init1 + 2 = NR_TASKS /\ Init1 <= NR_TASKS /\ Tasks = (0 .. Init1 - 1) \cup {Init1, Idle}
        /\ Init1 \notin 0 .. Init1 - 1 /\ Idle \notin 0 .. Init1 - 1
    BY E2Assumption DEF Idle, Init1, Tasks
  <1>7. In(fq) = 0 .. Init1 - 1 /\ Len(fq) = Init1 /\ fq \in Seq(Tasks)
    BY <1>1, <1>6, DownIs
  <1>8. In(rq) = {} /\ Len(rq) = 0 /\ rq \in Seq(Tasks)  BY <1>1 DEF In
  <1>9. /\ task \in [Tasks -> TaskStructs]
        /\ task[Init1].PID = 1 /\ task[Init1].state = "ST_RUN" /\ task[Init1].pParent = NoTask
    <2>1. blank_task \in TaskStructs
      BY DEF blank_task, TaskStructs, States, NoTask
    <2>2. PICK t1 : t1 = [blank_task EXCEPT !.PID = 1]  OBVIOUS
    <2>3. t1 \in TaskStructs /\ t1.PID = 1 /\ t1.state = "ST_RUN" /\ t1.pParent = NoTask
      BY <2>2 DEF blank_task, TaskStructs, States, NoTask
    <2>4. task = [t \in Tasks |-> IF t = Init1 THEN t1 ELSE blank_task]
      BY <2>2 DEF Init
    <2> QED  BY <1>6, <2>1, <2>3, <2>4
  <1>10. m \in Machines
    <2>1. QUANTUM \in Int /\ FirstPID \in Int  BY Slots DEF FirstPID
    <2> QED  BY <1>2, <1>3, <1>5, <1>6, <1>9, <2>1 DEF Machines
  <1>11. Queues(m.at, fq, rq, {m.current, Idle}, 2)
    <2>1. m.current = Init1  BY <1>2, <1>3
    <2>2. In(fq) \cap In(rq) = {} /\ (In(fq) \cup In(rq)) \cap {m.current, Idle} = {}
          /\ In(fq) \cup In(rq) \cup {m.current, Idle} = Tasks
      BY <1>6, <1>7, <1>8, <2>1
    <2>3. Len(fq) + Len(rq) + 2 = NR_TASKS  BY <1>6, <1>7, <1>8
    <2> QED  BY <1>2, <1>5, <2>2, <2>3 DEF Queues
  <1>12. Alive(m, rq) = {Init1}  BY <1>2, <1>3, <1>8 DEF Alive
  <1>13. kids \in [Tasks -> Seq(Tasks)] /\ kids[Init1] = rq
    BY <1>1, <1>6, <1>8 DEF no_sons
  <1>14. Families(m.at, kids, {Init1})  BY <1>2, <1>5, <1>13 DEF Families
  <1>15. Kinship(m.task, kids, {Init1})
    <2>1. m.task[Init1].pParent = NoTask /\ NoTask # Init1
      BY <1>2, <1>6, <1>9, Slots
    <2>2. {u \in {Init1} : m.task[u].pParent = Init1} = {}  BY <2>1
    <2> QED  BY <1>6, <1>8, <1>13, <2>1, <2>2 DEF Kinship
  <1>16. Names(m.task, m.global_pids, {Init1})
    <2>1. m.task[Init1].PID <= m.global_pids  BY <1>2, <1>3, <1>9 DEF FirstPID
    <2> QED  BY <2>1 DEF Names
  <1>17. Related(m, kids, Alive(m, rq))  BY <1>12, <1>14, <1>15, <1>16 DEF Related
  <1>18. AllReady(m, rq)  BY <1>8 DEF AllReady
  <1>19. Running1(m)  BY <1>2, <1>3, <1>5, <1>9 DEF Running1
  <1>20. m.current # Idle  BY <1>2, <1>3, <1>6
  <1>21. Good(m, fq, rq, kids)  BY <1>10, <1>11, <1>17, <1>18, <1>19, <1>20 DEF Good
  <1> QED  BY <1>1, <1>21

-----------------------------------------------------------------------------
(* The steps of the system.                                                *)

LEMMA Cleared ==
    ASSUME NEW m, NEW rq, NEW g, Outcome(m, rq, g),
           NEW h, h = [g EXCEPT !.null = FALSE, !.hung = FALSE]
    PROVE  Outcome(m, rq, h)
  <1>1. PICK fq2, rq2, kids2 :
            /\ Good(g, fq2, rq2, kids2)
            /\ \/ Stands(m, rq, g, rq2) \/ Turns(m, rq, g, rq2)
               \/ Forks(m, rq, g, rq2) \/ Exits(m, rq, g, rq2)
    BY DEF Outcome
  <1>2. g \in Machines  BY <1>1 DEF Good
  <1>3. /\ h \in Machines /\ h.at = g.at /\ h.task = g.task /\ h.current = g.current
        /\ h.global_pids = g.global_pids
    BY <1>2 DEF Machines
  <1>4. Agree(h, g, Tasks)  BY <1>3 DEF Agree
  <1>5. Good(h, fq2, rq2, kids2)  BY <1>1, <1>3, <1>4, StaysGood
  <1>6. /\ Stands(m, rq, g, rq2) => Stands(m, rq, h, rq2)
        /\ Turns(m, rq, g, rq2) => Turns(m, rq, h, rq2)
        /\ Forks(m, rq, g, rq2) => Forks(m, rq, h, rq2)
        /\ Exits(m, rq, g, rq2) => Exits(m, rq, h, rq2)
    BY <1>3 DEF Stands, Turns, Forks, Exits, Agree
  <1> QED  BY <1>1, <1>5, <1>6 DEF Outcome

\* A call ends well, or faults in a process without page 0.
EndsWell(m, rq, g) == \/ g.null /\ ~HasPage0(m.current)
                      \/ ~g.hung /\ Outcome(m, rq, g)

\* What a step does while every process outlives its sons.
Steps(rq) ==
    \/ status' = "fault" /\ UNCHANGED machine
    \/ status' = status /\ Outcome(machine, rq, machine')

LEMMA BecomesIs ==
    ASSUME NEW rq, NEW g, Becomes(g), EndsWell(machine, rq, g)
    PROVE  Steps(rq)
  <1>1. \/ g.null /\ ~HasPage0(current) /\ Stops("fault")
        \/ ~(g.null /\ ~HasPage0(current)) /\ g.hung /\ Stops("hung")
        \/ /\ ~(g.null /\ ~HasPage0(current)) /\ ~g.hung
           /\ link' = g.at /\ task' = g.task /\ current' = g.current
           /\ quantum_ticks' = g.quantum_ticks /\ global_pids' = g.global_pids
           /\ UNCHANGED status
    BY DEF Becomes
  <1>2. machine.current = current  BY DEF machine
  <1>3. CASE Stops("fault")
    BY <1>3 DEF Stops, Steps, machine
  <1>4. CASE ~(g.null /\ ~HasPage0(current)) /\ g.hung
    BY <1>2, <1>4 DEF EndsWell
  <1>5. CASE /\ ~(g.null /\ ~HasPage0(current)) /\ ~g.hung
             /\ link' = g.at /\ task' = g.task /\ current' = g.current
             /\ quantum_ticks' = g.quantum_ticks /\ global_pids' = g.global_pids
             /\ UNCHANGED status
    <2>1. Outcome(machine, rq, g)  BY <1>2, <1>5 DEF EndsWell
    <2>2. g \in Machines  BY <2>1 DEF Outcome, Good
    <2>3. PICK h : h = [g EXCEPT !.null = FALSE, !.hung = FALSE]  OBVIOUS
    <2>4. Outcome(machine, rq, h)  BY <2>1, <2>3, Cleared
    <2>5. h = machine'  BY <1>5, <2>2, <2>3 DEF Machines, machine
    <2> QED  BY <1>5, <2>4, <2>5 DEF Steps
  <1> QED  BY <1>1, <1>3, <1>4, <1>5

\* The machine between two steps.
Between(fq, rq, kids) == Good(machine, fq, rq, kids)

LEMMA StepIs ==
    ASSUME Next, ~orphaned', NEW fq, NEW rq, NEW kids, Between(fq, rq, kids)
    PROVE  ~orphaned /\ status = "ok" /\ Steps(rq)
  <1>1. PICK m : m = machine  OBVIOUS
  <1>2. ~m.null /\ ~m.hung /\ m.current = current  BY <1>1 DEF machine
  <1>3. Good(m, fq, rq, kids)  BY <1>1 DEF Between
  <1>4. CASE ClockInterrupt
    <2>1. PICK g : g = schedule(m)  OBVIOUS
    <2>2. /\ \E rq2 : Good(g, fq, rq2, kids) /\ (Stands(m, rq, g, rq2) \/ Turns(m, rq, g, rq2))
          /\ g.hung = m.hung
      BY <1>3, <2>1, Scheduled
    <2>3. EndsWell(m, rq, g)  BY <1>2, <2>2 DEF EndsWell, Outcome
    <2>4. Becomes(g)  BY <1>1, <1>4, <2>1 DEF ClockInterrupt
    <2>5. Steps(rq)  BY <1>1, <2>3, <2>4, BecomesIs
    <2> QED  BY <1>4, <2>5 DEF ClockInterrupt, Running
  <1>5. CASE SysFork
    <2>1. PICK g : g = sys_fork(m)  OBVIOUS
    <2>2. ~list_empty(m, freequeue)  BY <1>1, <1>5 DEF SysFork
    <2>3. Outcome(m, rq, g) /\ g.hung = m.hung  BY <1>3, <2>1, <2>2, Forked
    <2>4. EndsWell(m, rq, g)  BY <1>2, <2>3 DEF EndsWell
    <2>5. Becomes(g)  BY <1>1, <1>5, <2>1 DEF SysFork
    <2>6. Steps(rq)  BY <1>1, <2>4, <2>5, BecomesIs
    <2> QED  BY <1>5, <2>6 DEF SysFork, UserRuns, Running
  <1>6. CASE SysForkNoFrames
    <2>1. PICK g : g = sys_fork_no_frames(m)  OBVIOUS
    <2>2. ~list_empty(m, freequeue)  BY <1>1, <1>6 DEF SysForkNoFrames
    <2>3. (\E fq2 : Good(g, fq2, rq, kids) /\ Stands(m, rq, g, rq)) /\ g.hung = m.hung
      BY <1>3, <2>1, <2>2, ForkedNone
    <2>4. EndsWell(m, rq, g)  BY <1>2, <2>3 DEF EndsWell, Outcome
    <2>5. Becomes(g)  BY <1>1, <1>6, <2>1 DEF SysForkNoFrames
    <2>6. Steps(rq)  BY <1>1, <2>4, <2>5, BecomesIs
    <2> QED  BY <1>6, <2>6 DEF SysForkNoFrames, UserRuns, Running
  <1>7. CASE SysExit
    <2>1. PICK g : g = sys_exit(m)  OBVIOUS
    <2>2. list_empty(m, Sons(m.current)) /\ ~orphaned  BY <1>1, <1>2, <1>7 DEF SysExit
    <2>3. \/ g.null /\ ~HasPage0(m.current)
          \/ g.hung = m.hung /\ Outcome(m, rq, g)
      BY <1>3, <2>1, <2>2, Exited
    <2>4. EndsWell(m, rq, g)  BY <1>2, <2>3 DEF EndsWell
    <2>5. Becomes(g)  BY <1>1, <1>7, <2>1 DEF SysExit
    <2>6. Steps(rq)  BY <1>1, <2>4, <2>5, BecomesIs
    <2> QED  BY <1>7, <2>2, <2>6 DEF SysExit, UserRuns, Running
  <1>8. CASE SysBlock
    <2>1. PICK g : g = sys_block(m)  OBVIOUS
    <2>2. \/ g.null /\ ~HasPage0(m.current)
          \/ g.hung = m.hung /\ Outcome(m, rq, g)
      BY <1>3, <2>1, Blocked
    <2>3. EndsWell(m, rq, g)  BY <1>2, <2>2 DEF EndsWell
    <2>4. Becomes(g)  BY <1>1, <1>8, <2>1 DEF SysBlock
    <2>5. Steps(rq)  BY <1>1, <2>3, <2>4, BecomesIs
    <2> QED  BY <1>8, <2>5 DEF SysBlock, UserRuns, Running
  <1>9. ASSUME NEW pid \in FirstPID .. MaxPID, SysUnblock(pid)
        PROVE  ~orphaned /\ status = "ok" /\ Steps(rq)
    <2>1. PICK g : g = sys_unblock(m, pid)  OBVIOUS
    <2>2. Good(g, fq, rq, kids) /\ Stands(m, rq, g, rq) /\ ~g.hung
      BY <1>2, <1>3, <2>1, Unblocked
    <2>3. EndsWell(m, rq, g)  BY <2>2 DEF EndsWell, Outcome
    <2>4. Becomes(g)  BY <1>1, <1>9, <2>1 DEF SysUnblock
    <2>5. Steps(rq)  BY <1>1, <2>3, <2>4, BecomesIs
    <2> QED  BY <1>9, <2>5 DEF SysUnblock, UserRuns, Running
  <1> QED  BY <1>4, <1>5, <1>6, <1>7, <1>8, <1>9 DEF Next

-----------------------------------------------------------------------------
(* The invariant.                                                          *)

Sound == status # "hung" /\ \E fq, rq, kids : Between(fq, rq, kids)

IInv == orphaned \in BOOLEAN /\ (~orphaned => Sound)

LEMMA InitIInv == Init => IInv
  <1> SUFFICES ASSUME Init PROVE IInv  OBVIOUS
  <1>1. Between(Down(Init1), <<>>, no_sons)  BY GoodInit DEF Between
  <1>2. status = "ok" /\ orphaned = FALSE  BY DEF Init
  <1> QED  BY <1>1, <1>2 DEF IInv, Sound

LEMMA SoundStep ==
    ASSUME NEW fq, NEW rq, NEW kids, Between(fq, rq, kids), Steps(rq)
    PROVE  \E fq2, rq2, kids2 : Between(fq2, rq2, kids2)'
  <1>1. CASE UNCHANGED machine
    <2>1. Between(fq, rq, kids)'  BY <1>1 DEF Between
    <2> QED  BY <2>1
  <1>2. CASE Outcome(machine, rq, machine')
    BY <1>2 DEF Outcome, Between
  <1> QED  BY <1>1, <1>2 DEF Steps

LEMMA NextIInv == IInv /\ [Next]_vars => IInv'
  <1> SUFFICES ASSUME IInv, [Next]_vars PROVE IInv'  OBVIOUS
  <1>1. CASE UNCHANGED vars
    <2>1. UNCHANGED <<machine, status, orphaned>>  BY <1>1 DEF vars, machine
    <2> QED  BY <2>1 DEF IInv, Sound, Between
  <1>2. CASE Next
    <2>1. orphaned' \in BOOLEAN
      BY <1>2 DEF IInv, Next, ClockInterrupt, SysFork, SysForkNoFrames, SysExit, SysBlock,
                  SysUnblock
    <2>2. ASSUME ~orphaned' PROVE Sound'
      <3>2. ~orphaned
        BY <1>2, <2>2 DEF Next, ClockInterrupt, SysFork, SysForkNoFrames, SysExit, SysBlock,
                          SysUnblock
      <3>3. PICK fq, rq, kids : Between(fq, rq, kids)  BY <3>2 DEF IInv, Sound
      <3>4. status = "ok" /\ Steps(rq)  BY <1>2, <2>2, <3>3, StepIs
      <3>5. status' # "hung"  BY <3>4 DEF Steps
      <3>6. \E fq2, rq2, kids2 : Between(fq2, rq2, kids2)'  BY <3>3, <3>4, SoundStep
      <3> QED  BY <3>5, <3>6 DEF Sound
    <2> QED  BY <2>1, <2>2 DEF IInv
  <1> QED  BY <1>1, <1>2

LEMMA Invariant == Spec => []IInv
  BY InitIInv, NextIInv, PTL DEF Spec

-----------------------------------------------------------------------------
(* What the queues and the sons are, read off the pointers.                *)

LEMMA ListedIs ==
    ASSUME NEW k, NEW head, NEW q, Own(machine.at, k, head, q)
    PROVE  Listed(head) = q /\ SetOf(Listed(head)) = In(q) /\ is_ring(machine, head, Fuel)
  <1>1. q \in Seq(Tasks) /\ Distinct(q)  BY DEF Own
  <1>2. Fits(q, Fuel)  BY <1>1, FitsFuel
  <1>3. nodes(machine, head, Fuel) = NodesOf(k, q) /\ is_ring(machine, head, Fuel)
    BY <1>2, NodesOfOwn
  <1>4. Listed(head) = q
    <2>1. Listed(head) = [i \in DOMAIN NodesOf(k, q) |-> NodesOf(k, q)[i][2]]
      BY <1>3 DEF Listed
    <2>2. PICK f : f = NodesOf(k, q)  OBVIOUS
    <2>3. DOMAIN f = 1 .. Len(q) /\ \A i \in 1 .. Len(q) : f[i] = <<k, q[i]>>
      BY <2>2 DEF NodesOf
    <2>4. \A i \in 1 .. Len(q) : f[i][2] = q[i]  BY <2>3
    <2>5. [i \in DOMAIN f |-> f[i][2]] = [i \in 1 .. Len(q) |-> q[i]]
      BY <2>3, <2>4, Zenon
    <2>6. [i \in 1 .. Len(q) |-> q[i]] = q  BY <1>1
    <2> QED  BY <2>1, <2>2, <2>5, <2>6
  <1>5. SetOf(q) = In(q)  BY <1>1 DEF SetOf, In
  <1> QED  BY <1>3, <1>4, <1>5

LEMMA BetweenIs ==
    ASSUME NEW fq, NEW rq, NEW kids, Between(fq, rq, kids)
    PROVE  /\ Listed(freequeue) = fq /\ Listed(readyqueue) = rq
           /\ Free = In(fq) /\ Ready = In(rq)
           /\ is_ring(machine, freequeue, Fuel) /\ is_ring(machine, readyqueue, Fuel)
           /\ Queues(machine.at, fq, rq, {current, Idle}, 2)
           /\ Live = Alive(machine, rq) /\ current # Idle
  <1>1. Queues(machine.at, fq, rq, {machine.current, Idle}, 2) /\ machine.current # Idle
    BY DEF Between, Good
  <1>2. machine.current = current  BY DEF machine
  <1>3. Own(machine.at, "list", freequeue, fq) /\ Own(machine.at, "list", readyqueue, rq)
    BY <1>1 DEF Queues
  <1>4. Listed(freequeue) = fq /\ SetOf(Listed(freequeue)) = In(fq)
        /\ is_ring(machine, freequeue, Fuel)
    BY <1>3, ListedIs
  <1>5. Listed(readyqueue) = rq /\ SetOf(Listed(readyqueue)) = In(rq)
        /\ is_ring(machine, readyqueue, Fuel)
    BY <1>3, ListedIs
  <1>6. Live = Alive(machine, rq)  BY <1>1, <1>2, <1>5 DEF Live, Ready, Alive
  <1> QED  BY <1>1, <1>2, <1>4, <1>5, <1>6 DEF Free, Ready

LEMMA IInvQueues == IInv => QueuesAreRings
  <1> SUFFICES ASSUME IInv, ~orphaned
      PROVE  /\ is_ring(machine, freequeue, Fuel) /\ is_ring(machine, readyqueue, Fuel)
             /\ Len(Listed(freequeue)) + Len(Listed(readyqueue)) + 2 = NR_TASKS
             /\ Free \cup Ready \cup {current, Idle} = Tasks
    BY DEF QueuesAreRings
  <1>1. PICK fq, rq, kids : Between(fq, rq, kids)  BY DEF IInv, Sound
  <1>2. /\ Listed(freequeue) = fq /\ Listed(readyqueue) = rq
        /\ Free = In(fq) /\ Ready = In(rq)
        /\ is_ring(machine, freequeue, Fuel) /\ is_ring(machine, readyqueue, Fuel)
        /\ Queues(machine.at, fq, rq, {current, Idle}, 2)
    BY <1>1, BetweenIs
  <1>3. In(fq) \cup In(rq) \cup {current, Idle} = Tasks /\ Len(fq) + Len(rq) + 2 = NR_TASKS
    BY <1>2, QueuesParts
  <1> QED  BY <1>2, <1>3

LEMMA IInvFamily == IInv => FamilyIntact
  <1> SUFFICES ASSUME IInv, ~orphaned
      PROVE  /\ status # "hung"
             /\ \A t \in Live :
                  /\ is_ring(machine, Sons(t), Fuel)
                  /\ SetOf(Listed(Sons(t))) = {u \in Live : task[u].pParent = t}
    BY DEF FamilyIntact
  <1>1. status # "hung"  BY DEF IInv, Sound
  <1>2. PICK fq, rq, kids : Between(fq, rq, kids)  BY DEF IInv, Sound
  <1>3. Live = Alive(machine, rq)  BY <1>2, BetweenIs
  <1>4. Families(machine.at, kids, Live) /\ Kinship(machine.task, kids, Live)
    BY <1>2, <1>3 DEF Between, Good, Related
  <1>5. machine.task = task  BY DEF machine
  <1>6. ASSUME NEW t \in Live
        PROVE  /\ is_ring(machine, Sons(t), Fuel)
               /\ SetOf(Listed(Sons(t))) = {u \in Live : task[u].pParent = t}
    <2>1. Own(machine.at, "brothers", Sons(t), kids[t])  BY <1>4 DEF Families
    <2>2. is_ring(machine, Sons(t), Fuel) /\ SetOf(Listed(Sons(t))) = In(kids[t])
      BY <2>1, ListedIs
    <2>3. In(kids[t]) = {u \in Live : task[u].pParent = t}
      BY <1>4, <1>5 DEF Kinship
    <2> QED  BY <2>2, <2>3
  <1> QED  BY <1>1, <1>6

LEMMA IInvFault == IInv => FaultOnlyByInit
  <1> SUFFICES ASSUME IInv, ~orphaned, ~HasPage0(current)
      PROVE  /\ ~schedule(machine).null
             /\ \A pid \in FirstPID .. MaxPID : ~sys_unblock(machine, pid).null
             /\ ~list_empty(machine, freequeue) =>
                  ~sys_fork(machine).null /\ ~sys_fork_no_frames(machine).null
    BY DEF FaultOnlyByInit
  <1>1. PICK fq, rq, kids : Between(fq, rq, kids)  BY DEF IInv, Sound
  <1>2. PICK m : m = machine  OBVIOUS
  <1>3. Good(m, fq, rq, kids) /\ ~m.null /\ ~m.hung /\ m.current = current
    BY <1>1, <1>2 DEF Between, machine
  <1>4. ~schedule(m).null
    <2>1. PICK g : g = schedule(m)  OBVIOUS
    <2>2. Safe(g, m)  BY <1>3, <2>1, Scheduled
    <2> QED  BY <1>3, <2>1, <2>2 DEF Safe
  <1>5. \A pid \in FirstPID .. MaxPID : ~sys_unblock(m, pid).null
    BY <1>3, Unblocked
  <1>6. ASSUME ~list_empty(m, freequeue)
        PROVE  ~sys_fork(m).null /\ ~sys_fork_no_frames(m).null
    <2>1. sys_fork(m).null <=> m.null  BY <1>3, <1>6, Forked
    <2>2. sys_fork_no_frames(m).null <=> m.null  BY <1>3, <1>6, ForkedNone
    <2> QED  BY <1>3, <2>1, <2>2
  <1> QED  BY <1>2, <1>4, <1>5, <1>6

\* As long as every process outlives its sons, whatever the number of slots
\* and the order of clock interrupts, forks, exits, blocks and unblocks, the
\* free and the ready queue of the second delivery are rings that hold every
\* slot but idle's and the running process's, each once.
THEOREM QueuesStayRings == Spec => []QueuesAreRings
  BY Invariant, IInvQueues, PTL

\* And the sons of every process are a ring of the processes it forked that
\* still live: is_child, get_child and sys_exit walk over them and end.
THEOREM FamiliesStayIntact == Spec => []FamilyIntact
  BY Invariant, IInvFamily, PTL

\* And no clock interrupt, fork or unblock follows a null pointer in the
\* initial process, which has no page 0 to read.
THEOREM NoFaultButInits == Spec => []FaultOnlyByInit
  BY Invariant, IInvFault, PTL

-----------------------------------------------------------------------------
(* The processes take turns.                                               *)

\* The running process before those of the queue, and PIDs for slots.
Round(t, q) == <<t>> \o q
PIDs(m, q) == [i \in 1 .. Len(q) |-> m.task[q[i]].PID]

LEMMA SameSeq ==
    ASSUME NEW S, NEW s \in Seq(S), NEW t \in Seq(S), NEW n \in Nat, Len(s) = n, Len(t) = n,
           \A i \in 1 .. n : s[i] = t[i]
    PROVE  s = t
  OBVIOUS

LEMMA RoundIs ==
    ASSUME NEW S, NEW t \in S, NEW q \in Seq(S), NEW n \in Nat, n = Len(q),
           NEW r, r = Round(t, q)
    PROVE  /\ r \in Seq(S) /\ Len(r) = n + 1 /\ r[1] = t
           /\ \A i \in 1 .. n : r[i + 1] = q[i]
  BY DEF Round

LEMMA PIDsAre ==
    ASSUME NEW m \in Machines, NEW q \in Seq(Tasks), NEW s, s = PIDs(m, q), NEW n \in Nat, n = Len(q)
    PROVE  /\ s \in Seq(Int) /\ Len(s) = n
           /\ \A i \in 1 .. n : s[i] = m.task[q[i]].PID /\ q[i] \in Tasks
  <1>1. m.task \in [Tasks -> TaskStructs]  BY DEF Machines
  <1>2. \A i \in 1 .. n : q[i] \in Tasks /\ m.task[q[i]].PID \in Int
    BY <1>1 DEF TaskStructs
  <1>3. s = [i \in 1 .. n |-> m.task[q[i]].PID]  BY DEF PIDs
  <1>4. s \in [1 .. n -> Int]  BY <1>2, <1>3
  <1>5. s \in Seq(Int) /\ Len(s) = n  BY <1>4
  <1> QED  BY <1>2, <1>3, <1>5

LEMMA SamePIDs ==
    ASSUME NEW m, NEW g, NEW q \in Seq(Tasks), \A t \in In(q) : g.task[t].PID = m.task[t].PID
    PROVE  PIDs(g, q) = PIDs(m, q)
  <1>1. \A i \in 1 .. Len(q) : q[i] \in In(q)  BY DEF In
  <1> QED  BY <1>1 DEF PIDs

\* The first of a queue and the rest are the queue.
LEMMA LeadRest ==
    ASSUME NEW q \in Seq(Tasks), Some(q)
    PROVE  Round(Lead(q), Rest(q)) = q
  <1>1. PICK n \in Nat : n + 1 = Len(q)
    <2>1. Len(q) \in Nat /\ Len(q) # 0  BY DEF Some
    <2>2. PICK n \in Nat : n = Len(q) - 1  BY <2>1
    <2> QED  BY <2>1, <2>2
  <1>2. PICK p : p = Rest(q)  OBVIOUS
  <1>3. \A i \in 1 .. n + 1 : q[i] \in Tasks  BY <1>1
  <1>4. p = [i \in 1 .. n |-> q[i + 1]]
    <2>1. p = [i \in 1 .. n |-> IF i < 1 THEN q[i] ELSE q[i + 1]]
      BY <1>1, <1>2 DEF Rest, Removed
    <2> QED  BY <2>1
  <1>5. p \in [1 .. n -> Tasks]  BY <1>3, <1>4
  <1>6. p \in Seq(Tasks) /\ Len(p) = n  BY <1>5
  <1>7. Lead(q) = q[1] /\ q[1] \in Tasks  BY <1>3 DEF Lead
  <1>8. PICK r : r = Round(Lead(q), Rest(q))  OBVIOUS
  <1>9. /\ r \in Seq(Tasks) /\ Len(r) = n + 1 /\ r[1] = q[1]
        /\ \A i \in 1 .. n : r[i + 1] = p[i]
    BY <1>2, <1>6, <1>7, <1>8, RoundIs
  <1>10. ASSUME NEW i \in 1 .. n + 1 PROVE r[i] = q[i]
    <2>1. CASE i = 1  BY <1>9, <2>1
    <2>2. CASE i # 1
      <3>1. PICK j \in 1 .. n : j + 1 = i
        <4>1. i - 1 \in 1 .. n /\ (i - 1) + 1 = i  BY <2>2
        <4> QED  BY <4>1
      <3> QED  BY <1>4, <1>9, <3>1
    <2> QED  BY <2>1, <2>2
  <1>11. n + 1 \in Nat  OBVIOUS
  <1>12. r = q  BY <1>1, <1>9, <1>10, <1>11, SameSeq
  <1> QED  BY <1>8, <1>12

\* Who was first is last.
LEMMA PIDsRotate ==
    ASSUME NEW m \in Machines, NEW c \in Tasks, NEW rq \in Seq(Tasks)
    PROVE  /\ PIDs(m, Round(c, rq)) # <<>>
           /\ PIDs(m, Append(rq, c)) =
                Append(Tail(PIDs(m, Round(c, rq))), Head(PIDs(m, Round(c, rq))))
           /\ PIDs(m, rq) = Tail(PIDs(m, Round(c, rq)))
  <1>1. PICK n \in Nat : n = Len(rq)  OBVIOUS
  <1>2. PICK r, q : r = Round(c, rq) /\ q = Append(rq, c)  OBVIOUS
  <1>3. r \in Seq(Tasks) /\ Len(r) = n + 1 /\ r[1] = c /\ \A i \in 1 .. n : r[i + 1] = rq[i]
    BY <1>1, <1>2, RoundIs
  <1>4. q \in Seq(Tasks) /\ Len(q) = n + 1 /\ q[n + 1] = c /\ \A i \in 1 .. n : q[i] = rq[i]
    BY <1>1, <1>2
  <1>5. n + 1 \in Nat  OBVIOUS
  <1>6. PICK a, b, d : a = PIDs(m, r) /\ b = PIDs(m, q) /\ d = PIDs(m, rq)  OBVIOUS
  <1>7. a \in Seq(Int) /\ Len(a) = n + 1 /\ \A i \in 1 .. n + 1 : a[i] = m.task[r[i]].PID
    BY <1>3, <1>5, <1>6, PIDsAre
  <1>8. b \in Seq(Int) /\ Len(b) = n + 1 /\ \A i \in 1 .. n + 1 : b[i] = m.task[q[i]].PID
    BY <1>4, <1>5, <1>6, PIDsAre
  <1>9. d \in Seq(Int) /\ Len(d) = n /\ \A i \in 1 .. n : d[i] = m.task[rq[i]].PID
    BY <1>1, <1>6, PIDsAre
  <1>10. \A i \in 1 .. n : i \in 1 .. n + 1 /\ i + 1 \in 1 .. n + 1  OBVIOUS
  <1>11. 1 \in 1 .. n + 1 /\ n + 1 \in 1 .. n + 1  OBVIOUS
  <1>12. a[1] = b[n + 1]
    <2>1. a[1] = m.task[r[1]].PID  BY <1>7, <1>11
    <2>2. b[n + 1] = m.task[q[n + 1]].PID  BY <1>8, <1>11
    <2>3. r[1] = q[n + 1]  BY <1>3, <1>4
    <2> QED  BY <2>1, <2>2, <2>3
  <1>13. ASSUME NEW i \in 1 .. n PROVE a[i + 1] = d[i] /\ b[i] = d[i]
    <2>1. a[i + 1] = m.task[r[i + 1]].PID  BY <1>7, <1>10
    <2>2. b[i] = m.task[q[i]].PID  BY <1>8, <1>10
    <2>3. r[i + 1] = rq[i] /\ q[i] = rq[i]  BY <1>3, <1>4
    <2>4. d[i] = m.task[rq[i]].PID  BY <1>9
    <2> QED  BY <2>1, <2>2, <2>3, <2>4
  <1>14. PICK e : e = Tail(a)  OBVIOUS
  <1>15. a # <<>> /\ e \in Seq(Int) /\ Len(e) = n /\ Head(a) = a[1]
         /\ (\A i \in 1 .. n : e[i] = a[i + 1]) /\ a[1] \in Int
    BY <1>7, <1>14
  <1>16. e = d
    <2>1. \A i \in 1 .. n : e[i] = d[i]  BY <1>13, <1>15
    <2> QED  BY <1>9, <1>15, <2>1, SameSeq
  <1>17. PICK f : f = Append(e, a[1])  OBVIOUS
  <1>18. f \in Seq(Int) /\ Len(f) = n + 1 /\ f[n + 1] = a[1] /\ \A i \in 1 .. n : f[i] = e[i]
    BY <1>15, <1>17
  <1>19. ASSUME NEW i \in 1 .. n + 1 PROVE f[i] = b[i]
    <2>1. CASE i = n + 1  BY <1>12, <1>18, <2>1
    <2>2. CASE i # n + 1
      <3>1. i \in 1 .. n  BY <2>2
      <3> QED  BY <1>13, <1>16, <1>18, <3>1
    <2> QED  BY <2>1, <2>2
  <1>20. f = b  BY <1>5, <1>8, <1>18, <1>19, SameSeq
  <1> QED  BY <1>2, <1>6, <1>14, <1>15, <1>16, <1>17, <1>20

LEMMA PIDsAppend ==
    ASSUME NEW m \in Machines, NEW q \in Seq(Tasks), NEW u \in Tasks,
           NEW p, m.task[u].PID = p
    PROVE  PIDs(m, Append(q, u)) = Append(PIDs(m, q), p)
  <1>1. PICK n \in Nat : n = Len(q)  OBVIOUS
  <1>2. PICK q2 : q2 = Append(q, u)  OBVIOUS
  <1>3. q2 \in Seq(Tasks) /\ Len(q2) = n + 1 /\ q2[n + 1] = u /\ \A i \in 1 .. n : q2[i] = q[i]
    BY <1>1, <1>2
  <1>4. n + 1 \in Nat  OBVIOUS
  <1>5. PICK a, b : a = PIDs(m, q) /\ b = PIDs(m, q2)  OBVIOUS
  <1>6. a \in Seq(Int) /\ Len(a) = n /\ \A i \in 1 .. n : a[i] = m.task[q[i]].PID
    BY <1>1, <1>5, PIDsAre
  <1>7. b \in Seq(Int) /\ Len(b) = n + 1 /\ \A i \in 1 .. n + 1 : b[i] = m.task[q2[i]].PID
    BY <1>3, <1>4, <1>5, PIDsAre
  <1>8. p \in Int
    <2>1. m.task \in [Tasks -> TaskStructs]  BY DEF Machines
    <2> QED  BY <2>1 DEF TaskStructs
  <1>9. PICK f : f = Append(a, p)  OBVIOUS
  <1>10. f \in Seq(Int) /\ Len(f) = n + 1 /\ f[n + 1] = p /\ \A i \in 1 .. n : f[i] = a[i]
    BY <1>6, <1>8, <1>9
  <1>11. ASSUME NEW i \in 1 .. n + 1 PROVE f[i] = b[i]
    <2>1. CASE i = n + 1  BY <1>3, <1>7, <1>10, <2>1
    <2>2. CASE i # n + 1
      <3>1. i \in 1 .. n  BY <2>2
      <3> QED  BY <1>3, <1>6, <1>7, <1>10, <3>1
    <2> QED  BY <2>1, <2>2
  <1>12. f = b  BY <1>4, <1>7, <1>10, <1>11, SameSeq
  <1> QED  BY <1>2, <1>5, <1>9, <1>12

LEMMA RoundAppend ==
    ASSUME NEW c \in Tasks, NEW q \in Seq(Tasks), NEW u \in Tasks
    PROVE  Round(c, Append(q, u)) = Append(Round(c, q), u)
  <1>1. PICK n \in Nat : n = Len(q)  OBVIOUS
  <1>2. PICK q2, r : q2 = Append(q, u) /\ r = Round(c, q)  OBVIOUS
  <1>3. q2 \in Seq(Tasks) /\ Len(q2) = n + 1 /\ q2[n + 1] = u /\ \A i \in 1 .. n : q2[i] = q[i]
    BY <1>1, <1>2
  <1>4. r \in Seq(Tasks) /\ Len(r) = n + 1 /\ r[1] = c /\ \A i \in 1 .. n : r[i + 1] = q[i]
    BY <1>1, <1>2, RoundIs
  <1>5. PICK a, b : a = Round(c, q2) /\ b = Append(r, u)  OBVIOUS
  <1>6. PICK k \in Nat : k = n + 1  OBVIOUS
  <1>7. a \in Seq(Tasks) /\ Len(a) = k + 1 /\ a[1] = c /\ \A i \in 1 .. k : a[i + 1] = q2[i]
    BY <1>3, <1>5, <1>6, RoundIs
  <1>8. b \in Seq(Tasks) /\ Len(b) = k + 1 /\ b[k + 1] = u /\ \A i \in 1 .. k : b[i] = r[i]
    BY <1>4, <1>5, <1>6
  <1>9. ASSUME NEW i \in 1 .. k + 1 PROVE a[i] = b[i]
    <2>1. CASE i = 1  BY <1>4, <1>6, <1>7, <1>8, <2>1
    <2>2. CASE i = k + 1  BY <1>3, <1>6, <1>7, <1>8, <2>2
    <2>3. CASE i # 1 /\ i # k + 1
      <3>1. PICK j \in 1 .. n : j + 1 = i
        <4>1. i - 1 \in 1 .. n /\ (i - 1) + 1 = i  BY <1>6, <2>3
        <4> QED  BY <4>1
      <3>2. i \in 1 .. k /\ j \in 1 .. k  BY <1>6, <2>3, <3>1
      <3>3. a[i] = q[j]  BY <1>3, <1>7, <3>1, <3>2
      <3>4. b[i] = q[j]  BY <1>4, <1>8, <3>1, <3>2
      <3> QED  BY <3>3, <3>4
    <2> QED  BY <2>1, <2>2, <2>3
  <1>10. k + 1 \in Nat  OBVIOUS
  <1>11. a = b  BY <1>7, <1>8, <1>9, <1>10, SameSeq
  <1> QED  BY <1>2, <1>5, <1>11

LEMMA InRound ==
    ASSUME NEW c \in Tasks, NEW q \in Seq(Tasks)
    PROVE  In(Round(c, q)) = In(q) \cup {c} /\ Round(c, q) \in Seq(Tasks)
  <1>1. PICK n \in Nat : n = Len(q)  OBVIOUS
  <1>2. PICK r : r = Round(c, q)  OBVIOUS
  <1>3. r \in Seq(Tasks) /\ Len(r) = n + 1 /\ r[1] = c /\ \A i \in 1 .. n : r[i + 1] = q[i]
    BY <1>1, <1>2, RoundIs
  <1>4. \A x : x \in In(r) <=> x = c \/ x \in In(q)
    <2>1. ASSUME NEW i \in 1 .. n + 1 PROVE r[i] = c \/ r[i] \in In(q)
      <3>1. CASE i = 1  BY <1>3, <3>1
      <3>2. CASE i # 1
        <4>1. PICK j \in 1 .. n : j + 1 = i
          <5>1. i - 1 \in 1 .. n /\ (i - 1) + 1 = i  BY <3>2
          <5> QED  BY <5>1
        <4>2. r[i] = q[j]  BY <1>3, <4>1
        <4> QED  BY <1>1, <4>2 DEF In
      <3> QED  BY <3>1, <3>2
    <2>2. \A j \in 1 .. n : j + 1 \in 1 .. n + 1  OBVIOUS
    <2>3. \A j \in 1 .. n : q[j] \in In(r)  BY <1>3, <2>2 DEF In
    <2>4. c \in In(r)
      <3>1. 1 \in 1 .. n + 1  OBVIOUS
      <3> QED  BY <1>3, <3>1 DEF In
    <2> QED  BY <1>1, <1>3, <2>1, <2>3, <2>4 DEF In
  <1> QED  BY <1>2, <1>3, <1>4

\* What RoundRobin allows the ring of PIDs and the last PID to do.
MovesOn(a, l, b, l2) ==
    \/ a # <<>> /\ l2 = l + 1 /\ b = Append(a, l + 1)
    \/ a # <<>> /\ b = Append(Tail(a), Head(a)) /\ l2 = l
    \/ a # <<>> /\ b = Tail(a) /\ l2 = l
    \/ b = a /\ l2 = l

LEMMA OutcomeMoves ==
    ASSUME NEW m, NEW fq, NEW rq, NEW kids, Good(m, fq, rq, kids),
           NEW g, NEW fq2, NEW rq2, NEW kids2, Good(g, fq2, rq2, kids2),
           \/ Stands(m, rq, g, rq2) \/ Turns(m, rq, g, rq2)
           \/ Forks(m, rq, g, rq2) \/ Exits(m, rq, g, rq2),
           NEW a, a = PIDs(m, Round(m.current, rq)),
           NEW b, b = PIDs(g, Round(g.current, rq2))
    PROVE  MovesOn(a, m.global_pids, b, g.global_pids)
  <1>1. PICK c : c = m.current  OBVIOUS
  <1>2. m \in Machines /\ g \in Machines /\ c \in Tasks /\ rq \in Seq(Tasks)
    BY <1>1, QueuesParts DEF Good, Machines
  <1>3. PICK r : r = Round(c, rq)  OBVIOUS
  <1>4. r \in Seq(Tasks) /\ In(r) = Alive(m, rq)  BY <1>1, <1>2, <1>3, InRound DEF Alive
  <1>5. a = PIDs(m, r)  BY <1>1, <1>3
  <1>6. /\ a # <<>> /\ PIDs(m, Append(rq, c)) = Append(Tail(a), Head(a))
        /\ PIDs(m, rq) = Tail(a)
    BY <1>2, <1>3, <1>5, PIDsRotate
  <1>7. CASE Stands(m, rq, g, rq2)
    <2>1. PIDs(g, r) = PIDs(m, r)  BY <1>4, <1>7, SamePIDs DEF Stands, Agree
    <2>2. b = PIDs(g, r)  BY <1>1, <1>3, <1>7 DEF Stands
    <2> QED  BY <1>5, <1>7, <2>1, <2>2 DEF MovesOn, Stands, Agree
  <1>8. CASE Turns(m, rq, g, rq2)
    <2>1. PICK q : q = Append(rq, c)  OBVIOUS
    <2>2. q \in Seq(Tasks) /\ In(q) = Alive(m, rq)  BY <1>1, <1>2, <2>1, InAppend DEF Alive
    <2>3. Some(q)  BY <1>2, <2>1, TailIsSome
    <2>4. Round(g.current, rq2) = q  BY <1>1, <1>8, <2>1, <2>2, <2>3, LeadRest DEF Turns
    <2>5. PIDs(g, q) = PIDs(m, q)  BY <1>8, <2>2, SamePIDs DEF Turns, Agree
    <2>6. b = Append(Tail(a), Head(a))  BY <1>6, <2>1, <2>4, <2>5
    <2> QED  BY <1>6, <1>8, <2>6 DEF MovesOn, Turns, Agree
  <1>9. CASE Forks(m, rq, g, rq2)
    <2>1. PICK u \in Tasks : rq2 = Append(rq, u) /\ g.task[u].PID = m.global_pids + 1
      BY <1>9 DEF Forks
    <2>2. PICK p : p = m.global_pids + 1  OBVIOUS
    <2>3. Round(g.current, rq2) = Append(r, u)
      BY <1>1, <1>2, <1>3, <1>9, <2>1, RoundAppend DEF Forks
    <2>4. PIDs(g, r) = PIDs(m, r)  BY <1>4, <1>9, SamePIDs DEF Forks
    <2>5. PIDs(g, Append(r, u)) = Append(PIDs(g, r), p)
      BY <1>2, <1>4, <2>1, <2>2, PIDsAppend
    <2>6. b = Append(a, p)  BY <1>5, <2>3, <2>4, <2>5
    <2> QED  BY <1>6, <1>9, <2>2, <2>6 DEF MovesOn, Forks
  <1>10. CASE Exits(m, rq, g, rq2)
    <2>1. Round(g.current, rq2) = rq  BY <1>2, <1>10, LeadRest DEF Exits
    <2>2. PIDs(g, rq) = PIDs(m, rq)  BY <1>2, <1>10, SamePIDs DEF Exits, Agree
    <2>3. b = Tail(a)  BY <1>6, <2>1, <2>2
    <2> QED  BY <1>6, <1>10, <2>3 DEF MovesOn, Exits, Agree
  <1> QED  BY <1>7, <1>8, <1>9, <1>10

\* The PIDs of the processes, as RoundRobin sees them.
turns == IF current = Idle THEN <<>>
         ELSE <<task[current].PID>> \o
              [i \in DOMAIN Listed(readyqueue) |-> task[Listed(readyqueue)[i]].PID]

LEMMA TurnsIs ==
    ASSUME NEW fq, NEW rq, NEW kids, Between(fq, rq, kids)
    PROVE  turns = PIDs(machine, Round(machine.current, rq))
  <1>1. Listed(readyqueue) = rq /\ current # Idle  BY BetweenIs
  <1>2. PICK m : m = machine  OBVIOUS
  <1>3. m.task = task /\ m.current = current  BY <1>2 DEF machine
  <1>4. PICK c : c = current  OBVIOUS
  <1>5. m \in Machines /\ c \in Tasks /\ rq \in Seq(Tasks)
    BY <1>2, <1>3, <1>4, QueuesParts DEF Between, Good, Machines
  <1>6. PICK d, r : d = PIDs(m, rq) /\ r = Round(c, rq)  OBVIOUS
  <1>7. DOMAIN rq = 1 .. Len(rq)  BY <1>5
  <1>8. d = [i \in DOMAIN rq |-> task[rq[i]].PID]  BY <1>3, <1>6, <1>7 DEF PIDs
  <1>9. PICK p : p = m.task[c].PID  OBVIOUS
  <1>10. turns = Round(p, d)
    BY <1>1, <1>3, <1>4, <1>8, <1>9, Zenon DEF turns, Round
  <1>11. PICK n \in Nat : n = Len(rq)  BY <1>5
  <1>12. r \in Seq(Tasks) /\ Len(r) = n + 1 /\ r[1] = c /\ \A i \in 1 .. n : r[i + 1] = rq[i]
    BY <1>5, <1>6, <1>11, RoundIs
  <1>13. n + 1 \in Nat  OBVIOUS
  <1>14. PICK a, b : a = PIDs(m, r) /\ b = Round(p, d)  OBVIOUS
  <1>15. a \in Seq(Int) /\ Len(a) = n + 1 /\ \A i \in 1 .. n + 1 : a[i] = m.task[r[i]].PID
    BY <1>5, <1>12, <1>13, <1>14, PIDsAre
  <1>16. d \in Seq(Int) /\ Len(d) = n /\ \A i \in 1 .. n : d[i] = m.task[rq[i]].PID
    BY <1>5, <1>6, <1>11, PIDsAre
  <1>17. p \in Int
    <2>1. m.task \in [Tasks -> TaskStructs]  BY <1>5 DEF Machines
    <2> QED  BY <1>5, <1>9, <2>1 DEF TaskStructs
  <1>18. b \in Seq(Int) /\ Len(b) = n + 1 /\ b[1] = p /\ \A i \in 1 .. n : b[i + 1] = d[i]
    <2>1. PICK S : S = Int  OBVIOUS
    <2>2. p \in S /\ d \in Seq(S) /\ n = Len(d)  BY <1>16, <1>17, <2>1
    <2>3. b \in Seq(S) /\ Len(b) = n + 1 /\ b[1] = p /\ \A i \in 1 .. n : b[i + 1] = d[i]
      BY <1>14, <2>2, RoundIs
    <2> QED  BY <2>1, <2>3
  <1>19. ASSUME NEW i \in 1 .. n + 1 PROVE a[i] = b[i]
    <2>1. a[i] = m.task[r[i]].PID  BY <1>15
    <2>2. CASE i = 1  BY <1>9, <1>12, <1>18, <2>1, <2>2
    <2>3. CASE i # 1
      <3>1. PICK j \in 1 .. n : j + 1 = i
        <4>1. i - 1 \in 1 .. n /\ (i - 1) + 1 = i  BY <2>3
        <4> QED  BY <4>1
      <3>2. r[i] = rq[j]  BY <1>12, <3>1
      <3>3. b[i] = m.task[rq[j]].PID  BY <1>16, <1>18, <3>1
      <3> QED  BY <2>1, <3>2, <3>3
    <2> QED  BY <2>2, <2>3
  <1>20. a = b  BY <1>13, <1>15, <1>18, <1>19, SameSeq
  <1> QED  BY <1>2, <1>3, <1>4, <1>6, <1>10, <1>14, <1>20

Reading ==
    \A fq, rq, kids :
        Between(fq, rq, kids) => turns = PIDs(machine, Round(machine.current, rq))

LEMMA Reads == Reading
  BY TurnsIs DEF Reading

LEMMA ReadsNext == Reading'
  BY Reads, PTL

\* Every step is a step of the ring, or none, or orphans a process.
Taking == MovesOn(turns, global_pids, turns', global_pids') \/ orphaned'

LEMMA StepTakes ==
    ASSUME IInv, [Next]_vars
    PROVE  Taking
  <1>1. CASE UNCHANGED vars
    <2>1. UNCHANGED <<turns, global_pids>>  BY <1>1 DEF vars, turns, Listed, machine
    <2> QED  BY <2>1 DEF Taking, MovesOn
  <1>2. CASE Next /\ ~orphaned'
    <2>1. ~orphaned
      BY <1>2 DEF Next, ClockInterrupt, SysFork, SysForkNoFrames, SysExit, SysBlock, SysUnblock
    <2>2. PICK fq, rq, kids : Between(fq, rq, kids)  BY <2>1 DEF IInv, Sound
    <2>3. Steps(rq)  BY <1>2, <2>2, StepIs
    <2>4. CASE UNCHANGED machine
      <3>1. UNCHANGED <<task, current, global_pids>>  BY <2>4 DEF machine
      <3>2. UNCHANGED <<turns, global_pids>>  BY <2>4, <3>1 DEF turns, Listed
      <3> QED  BY <3>2 DEF Taking, MovesOn
    <2>5. CASE Outcome(machine, rq, machine')
      <3>1. PICK m, g : m = machine /\ g = machine'  OBVIOUS
      <3>2. PICK fq2, rq2, kids2 :
                /\ Good(g, fq2, rq2, kids2)
                /\ \/ Stands(m, rq, g, rq2) \/ Turns(m, rq, g, rq2)
                   \/ Forks(m, rq, g, rq2) \/ Exits(m, rq, g, rq2)
        BY <2>5, <3>1 DEF Outcome
      <3>3. Good(m, fq, rq, kids)  BY <2>2, <3>1 DEF Between
      <3>4. PICK a, b : a = PIDs(m, Round(m.current, rq)) /\ b = PIDs(g, Round(g.current, rq2))
        OBVIOUS
      <3>5. MovesOn(a, m.global_pids, b, g.global_pids)
        BY <3>2, <3>3, <3>4, OutcomeMoves
      <3>6. turns = a  BY <2>2, <3>1, <3>4, TurnsIs
      <3>7. turns' = b
        <4>1. Between(fq2, rq2, kids2)'  BY <3>1, <3>2 DEF Between
        <4>2. turns' = PIDs(machine', Round(machine'.current, rq2))
          BY <4>1, ReadsNext DEF Reading
        <4> QED  BY <3>1, <3>4, <4>2
      <3>8. m.global_pids = global_pids /\ g.global_pids = global_pids'
        BY <3>1 DEF machine
      <3> QED  BY <3>5, <3>6, <3>7, <3>8 DEF Taking
    <2> QED  BY <2>3, <2>4, <2>5 DEF Steps
  <1> QED  BY <1>1, <1>2 DEF Taking

LEMMA InitTurns == Init => RR!Init
  <1> SUFFICES ASSUME Init PROVE RR!Init  OBVIOUS
  <1>1. Between(Down(Init1), <<>>, no_sons)  BY GoodInit DEF Between
  <1>2. turns = PIDs(machine, Round(machine.current, <<>>))  BY <1>1, TurnsIs
  <1>3. PICK c : c = Init1  OBVIOUS
  <1>4. PICK m : m = machine  OBVIOUS
  <1>5. m.current = c /\ m.task[c].PID = 1
    <2>1. m.task = task /\ m.current = current  BY <1>4 DEF machine
    <2>2. PICK t1 : t1 = [blank_task EXCEPT !.PID = 1]  OBVIOUS
    <2>3. t1.PID = 1  BY <2>2 DEF blank_task
    <2>4. task = [t \in Tasks |-> IF t = Init1 THEN t1 ELSE blank_task]
      BY <2>2 DEF Init
    <2> QED  BY <1>3, <2>1, <2>3, <2>4, Slots DEF Init
  <1>6. Round(c, <<>>) = <<c>>  BY DEF Round
  <1>7. PIDs(m, <<c>>) = <<1>>
    <2>1. PICK r : r = <<c>>  OBVIOUS
    <2>2. Len(r) = 1 /\ r[1] = c  BY <2>1
    <2>3. PIDs(m, r) = [i \in 1 .. 1 |-> 1]  BY <1>5, <2>2 DEF PIDs
    <2>4. [i \in 1 .. 1 |-> 1] = <<1>>  OBVIOUS
    <2> QED  BY <2>1, <2>3, <2>4
  <1>8. turns = <<1>>  BY <1>2, <1>4, <1>5, <1>6, <1>7
  <1>9. global_pids = FirstPID  BY DEF Init
  <1>10. RR!Init <=> turns = <<1>> /\ global_pids = FirstPID
    BY DEF RR!Init, turns
  <1> QED  BY <1>8, <1>9, <1>10

RingMoves == [RR!Next \/ orphaned']_(RR!vars)

LEMMA TakingMoves ==
    ASSUME Taking
    PROVE  RingMoves
  <1>1. RingMoves <=>
          \/ /\ turns # <<>>
             /\ global_pids' = global_pids + 1
             /\ turns' = Append(turns, global_pids + 1)
          \/ /\ turns # <<>>
             /\ turns' = Append(Tail(turns), Head(turns))
             /\ UNCHANGED global_pids
          \/ /\ turns # <<>>
             /\ turns' = Tail(turns)
             /\ UNCHANGED global_pids
          \/ orphaned'
          \/ UNCHANGED <<turns, global_pids>>
    BY DEF RingMoves, RR!Next, RR!Fork, RR!Rotate, RR!Exit, RR!vars, turns
  <1>2. \/ turns # <<>> /\ global_pids' = global_pids + 1 /\ turns' = Append(turns, global_pids + 1)
        \/ turns # <<>> /\ turns' = Append(Tail(turns), Head(turns)) /\ global_pids' = global_pids
        \/ turns # <<>> /\ turns' = Tail(turns) /\ global_pids' = global_pids
        \/ turns' = turns /\ global_pids' = global_pids
        \/ orphaned'
    BY DEF Taking, MovesOn
  <1> QED  BY <1>1, <1>2

LEMMA StepMoves == IInv /\ [Next]_vars => RingMoves
  BY StepTakes, TakingMoves

\* As long as every process outlives its sons, the second delivery implements
\* the ring of RoundRobin: its pointers, queues, quanta and switches let the
\* processes take turns, whatever their number; none leaves the ring but by
\* exiting, and none is passed by another.
THEOREM SonsTakeTurns == Spec => TakesTurns
  <1>1. Init => RR!Init  BY InitTurns
  <1>2. IInv /\ [Next]_vars => [RR!Next \/ orphaned']_(RR!vars)
    BY StepMoves DEF RingMoves
  <1> QED  BY <1>1, <1>2, Invariant, PTL DEF Spec, TakesTurns
=============================================================================
