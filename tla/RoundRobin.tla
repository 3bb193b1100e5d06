----------------------------- MODULE RoundRobin -----------------------------
(***************************************************************************)
(* What the scheduler of PROJECTE/zeos promises its processes, without     *)
(* slots, queues, quanta or stacks: they stand in a ring whose head has    *)
(* the processor.  Nobody leaves the ring but by exiting, nobody moves but *)
(* from its head to its end, and a PID names one process for ever.         *)
(***************************************************************************)
EXTENDS Naturals, Sequences

CONSTANTS
    First,     \* PID of the initial process
    FirstPID   \* no PID given out by a fork is at or below it

VARIABLES
    ring,      \* PIDs of the processes, the running one first
    last       \* last PID given out

vars == <<ring, last>>

Init == ring = <<First>> /\ last = FirstPID

\* The running process creates another, which waits for a whole round.
Fork == /\ ring # <<>>
        /\ last' = last + 1
        /\ ring' = Append(ring, last + 1)

\* The processor goes to the next process.
Rotate == /\ ring # <<>>
          /\ ring' = Append(Tail(ring), Head(ring))
          /\ UNCHANGED last

\* The running process ends.
Exit == /\ ring # <<>>
        /\ ring' = Tail(ring)
        /\ UNCHANGED last

Next == Fork \/ Rotate \/ Exit

Spec == Init /\ [][Next]_vars
=============================================================================
