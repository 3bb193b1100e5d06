---------------------------- MODULE BoundedFifo -----------------------------
(***************************************************************************)
(* What the keyboard buffer of PROJECTE/zeos promises: the characters      *)
(* typed come out once each and in order; what does not fit is dropped     *)
(* when it is typed, and never displaces what is already there.            *)
(***************************************************************************)
EXTENDS Naturals, Sequences

CONSTANTS
    Size,       \* characters it holds
    Chars

VARIABLES
    queue,      \* characters waiting, oldest first
    delivered   \* every character handed to a reader so far

vars == <<queue, delivered>>

Init == queue = <<>> /\ delivered = <<>>

Put == /\ Len(queue) < Size
       /\ \E c \in Chars : queue' = Append(queue, c)
       /\ UNCHANGED delivered

Get == /\ queue # <<>>
       /\ delivered' = Append(delivered, Head(queue))
       /\ queue' = Tail(queue)

Next == Put \/ Get

Spec == Init /\ [][Next]_vars
=============================================================================
