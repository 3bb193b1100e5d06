------------------------------- MODULE MCZeos -------------------------------
EXTENDS ZeosProps

\* Every path saves at a depth of its own.
MCDepth == [p \in {"idle", "fork", "clock", "yield", "exit"} |->
               CASE p = "idle" -> 2 [] p = "fork" -> 19 [] p = "clock" -> 41
                 [] p = "yield" -> 39 [] p = "exit" -> 40]
=============================================================================
