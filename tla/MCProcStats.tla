---------------------------- MODULE MCProcStats -----------------------------
EXTENDS ProcStats

MCDepth == [p \in Paths |-> CASE p = "idle" -> 2 [] p = "fork" -> 19
                              [] p = "clock" -> 41 [] p = "yield" -> 39
                              [] p = "exit" -> 40]
=============================================================================
