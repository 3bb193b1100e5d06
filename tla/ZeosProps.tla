----------------------------- MODULE ZeosProps ------------------------------
(***************************************************************************)
(* What must hold of scheduler and memory together.                        *)
(***************************************************************************)
EXTENDS Zeos

Alive == S!Alive

\* A program never faults on its own data: whatever switch gave it the
\* processor, the directory in CR3 maps every page of it.
OwnDataMapped ==
    S!UserRuns => \A pag \in M!DataPages : pt[cr3][pag].present

\* A process reads what it wrote: the system implements Isolation, where the
\* data of a process is its own, through any sequence of forks, failed forks,
\* exits, switches, and frames and slots that are used again.
slot(pid) == CHOOSE t \in Alive : task[t].PID = pid
data_of(t) == [pag \in M!DataPages |-> data[pt[task[t].dir][pag].frame]]

mem == [pid \in {task[t].PID : t \in Alive} |-> data_of(slot(pid))]
running == task[current].PID

Promise == INSTANCE Isolation WITH
    PIDs <- S!FirstPID + 1 .. MaxPID, First <- 1, IdlePID <- 0,
    DataPages <- M!DataPages

Isolated == Promise!Spec
=============================================================================
