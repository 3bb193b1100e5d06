----------------------------- MODULE Isolation ------------------------------
(***************************************************************************)
(* What PROJECTE/zeos promises every process about its data: nobody else   *)
(* writes it, a child starts with a copy of its parent's, and it stays as  *)
(* it is while others run.  There are no slots, tables or frames here: a   *)
(* process is a PID, and its data a function of the page.                  *)
(***************************************************************************)
CONSTANTS
    PIDs,      \* of processes
    First,     \* the PID of the initial process
    IdlePID,   \* who runs when no process does
    DataPages,
    Values,
    Initial    \* what boot leaves in a page

VARIABLES
    mem,       \* the data of every process there is
    running    \* the PID that has the processor

vars == <<mem, running>>

Init == /\ mem = [pid \in {First} |-> [pag \in DataPages |-> Initial]]
        /\ running = First

Write(pag, v) == /\ running \in DOMAIN mem
                 /\ mem' = [mem EXCEPT ![running][pag] = v]
                 /\ UNCHANGED running

Fork(pid) == /\ running \in DOMAIN mem /\ pid \notin DOMAIN mem
             /\ mem' = [q \in DOMAIN mem \cup {pid} |->
                           IF q = pid THEN mem[running] ELSE mem[q]]
             /\ UNCHANGED running

\* The processor goes to idle only when nobody else could have it.
Next_running == IF DOMAIN mem' = {} THEN {IdlePID} ELSE DOMAIN mem'

Exit == /\ running \in DOMAIN mem
        /\ mem' = [q \in DOMAIN mem \ {running} |-> mem[q]]
        /\ running' \in Next_running

Switch == mem' = mem /\ running' \in Next_running \cup {IdlePID}

Next == \/ \E pag \in DataPages, v \in Values : Write(pag, v)
        \/ \E pid \in PIDs : Fork(pid)
        \/ Exit
        \/ Switch

Spec == Init /\ [][Next]_vars
=============================================================================
