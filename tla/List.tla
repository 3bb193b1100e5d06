------------------------------- MODULE List --------------------------------
(***************************************************************************)
(* The intrusive doubly linked lists of ZeOS (list.c, list.h), with the    *)
(* pointers they are made of.                                              *)
(*                                                                         *)
(* A heap is a record: at gives the two pointers of every list_head, and   *)
(* null says whether the null pointer was followed.  Page 0 is mapped in   *)
(* the processes that fork creates, so the null address is a list_head     *)
(* like any other; in the other ones following it is a page fault: the     *)
(* caller decides by null.  The order of the assignments is that of the    *)
(* source, for two of the nodes of an operation may be the same.           *)
(***************************************************************************)
EXTENDS Integers, Sequences

NULL == <<"NULL", 0>>

\* Body(x), with x evaluated once.
With(x, Body(_)) == CHOOSE r \in {Body(y) : y \in {x}} : TRUE

set_next(h, n, to) == [h EXCEPT !.null = @ \/ n = NULL, !.at[n].next = to]
set_prev(h, n, to) == [h EXCEPT !.null = @ \/ n = NULL, !.at[n].prev = to]

INIT_LIST_HEAD(h, list) == set_prev(set_next(h, list, list), list, list)

__list_add(h, new, prev, next) ==
    set_next(set_prev(set_next(set_prev(h, next, new), new, next), new, prev),
             prev, new)

list_add(heap, new, head) ==
    With(heap, LAMBDA h : __list_add(h, new, head, h.at[head].next))

Mut_list_add_tail(heap, new, head) ==
    With(heap, LAMBDA h : __list_add(h, new, head, h.at[head].next))
list_add_tail(heap, new, head) ==
    With(heap, LAMBDA h : __list_add(h, new, h.at[head].prev, head))

__list_del(h, prev, next) == set_next(set_prev(h, next, prev), prev, next)

list_del(heap, entry) ==
    With(heap, LAMBDA h :
        LET g == __list_del(h, h.at[entry].prev, h.at[entry].next)
        IN  set_prev(set_next(g, entry, NULL), entry, NULL))

list_empty(h, head) == h.at[head].next = head
list_first(h, head) == h.at[head].next

\* list_for_each_safe(pos, n, head): the loop at node p has read the next one
\* before its body runs.
at_pos(h, p) == [heap |-> [h EXCEPT !.null = @ \/ p = NULL], pos |-> p, n |-> h.at[p].next]

round(s, head, Body(_, _)) ==
    IF s.pos = head THEN s ELSE With(Body(s.heap, s.pos), LAMBDA g : at_pos(g, s.n))

\* Where the loop with the body Body(heap, pos) is after at most fuel rounds.
\* It has ended if pos is the head.
list_for_each_safe(heap, head, fuel, Body(_, _)) ==
    LET loop[i \in 0 .. fuel] ==
            IF i = 0 THEN With(heap, LAMBDA h : at_pos(h, h.at[head].next))
            ELSE With(loop[i - 1], LAMBDA s : round(s, head, Body))
    IN  loop[fuel]

-----------------------------------------------------------------------------
\* What the lists stand for.  The nodes after head, in order, up to the head
\* or at most fuel of them; head is a ring if following next leads back to
\* it and prev is the inverse of next on the way.
extended(at, head, s) ==
    With(IF s = <<>> THEN at[head].next ELSE at[s[Len(s)]].next,
         LAMBDA x : IF x = head THEN s ELSE Append(s, x))
nodes(heap, head, fuel) ==
    LET walk[i \in 0 .. fuel] ==
            IF i = 0 THEN <<>>
            ELSE With(walk[i - 1], LAMBDA s : extended(heap.at, head, s))
    IN  walk[fuel]

is_ring(h, head, fuel) ==
    With(<<head>> \o nodes(h, head, fuel) \o <<head>>, LAMBDA r :
        \A i \in 1 .. Len(r) - 1 :
            h.at[r[i]].next = r[i + 1] /\ h.at[r[i + 1]].prev = r[i])
=============================================================================
