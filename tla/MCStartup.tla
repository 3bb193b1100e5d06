----------------------------- MODULE MCStartup ------------------------------
(***************************************************************************)
(* From the first instruction of the kernel to running processes.          *)
(***************************************************************************)
EXTENDS Startup

MCDepth == [p \in Paths |-> CASE p = "idle" -> 2 [] p = "fork" -> 19
                              [] p = "clock" -> 41 [] p = "yield" -> 39
                              [] p = "exit" -> 40]
=============================================================================
