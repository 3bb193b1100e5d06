------------------------------ MODULE MCSched ------------------------------
EXTENDS SchedProps

\* Every path saves at a depth of its own.
MCDepth == [p \in Paths |-> CASE p = "idle" -> 2 [] p = "fork" -> 19
                              [] p = "clock" -> 41 [] p = "yield" -> 39
                              [] p = "exit" -> 40]
=============================================================================
