------------------------------ MODULE MCParts -------------------------------
(***************************************************************************)
(* The parts of the system that keep to themselves, small enough to be     *)
(* checked together: a behaviour is one of one part, the others stay where *)
(* they start.  The parts: "console" and "console_e2", the screen and what *)
(* is written on it; "pointers", the tests of pointers; "ticks", the clock *)
(* of the statistics; "boot", from files to user mode; "first", the first  *)
(* delivery.                                                               *)
(***************************************************************************)
EXTENDS Ticks, FirstDelivery, Boot

VARIABLES
    part,
    scr, color_txt, console_call,             \* Console
    screen, buff, result                      \* ConsoleE2
console_vars == <<scr, color_txt, console_call>>
console_e2_vars == <<screen, buff, result>>

\* A text longer than the buffer with a new line in it, one shorter, none.
MCTexts == {<<>>, <<"a", "b", "NL", "a", "b">>, <<"b", "a", "a">>}
\* Less than, on and past the last row, column and colour.
C == INSTANCE Console WITH
        NUM_COLUMNS <- 2, NUM_ROWS <- 2, NL <- "NL", TAM_BUFFER <- 2,
        Texts <- MCTexts, Fds <- {0, 1}, Coordinates <- {-1, 1, 2},
        Colours <- {-1, 2, 16}, Full <- <<"b", "a">>, call <- console_call
E == INSTANCE ConsoleE2 WITH
        NUM_COLUMNS <- 2, NUM_ROWS <- 3, NL <- "NL", TAMBUFF <- 2,
        Texts <- MCTexts, Keys <- {"k"}, KeyX <- 1, KeyY <- 2, scr <- screen

\* Sizes from nothing to more than the pages there are, and negative ones.
MCSizes == (0 .. 5) \cup {8, 9} \cup {-9, -5, -1}

\* Files a byte less and more than buffers, tracks and segments; a user
\* program of the pages there are and one byte more; the longest image there is
\* room for below the boot sector, one byte more, and one whose size does not
\* fit the word for it.
MCBoots == {[length |-> 512, flag |-> TRUE], [length |-> 511, flag |-> TRUE],
            [length |-> 512, flag |-> FALSE]}
MCFiles ==
    {[system |-> s, user |-> u] : s \in {524, 1025, 9216, 65023}, u \in {4, 511, 2049}}
    \cup {[system |-> 65536, user |-> u] : u \in {114688, 114689}}
    \cup {[system |-> s, user |-> 114688] : s \in {409584, 409585, 933873}}

ASSUME PartsAssumption == C!ConsoleSizes /\ E!ConsoleSizes

-----------------------------------------------------------------------------
\* What has several initial values has them only in its own part.
PartsInit ==
    /\ part \in {"console", "console_e2", "pointers", "ticks", "boot", "first"}
    /\ C!Init /\ E!Init /\ Init /\ PointersInit /\ BootInit
    /\ FirstKernelInit
    /\ part # "pointers" => delivery = "E2"
    /\ part # "ticks" => tsc = 0
    /\ part # "boot" => boot.length = 512 /\ boot.flag /\ st_size = [system |-> 524, user |-> 4]

Others(own) ==
    /\ own # "console" => UNCHANGED console_vars
    /\ own # "console_e2" => UNCHANGED console_e2_vars
    /\ own \notin {"pointers", "first"} => UNCHANGED pointer_vars
    /\ own # "first" => UNCHANGED first_kernel_vars
    /\ own # "ticks" => UNCHANGED vars
    /\ own # "boot" => UNCHANGED boot_vars

PartsNext ==
    /\ \/ part = "console" /\ C!Next
       \/ part = "console_e2" /\ E!Next
       \/ part = "pointers" /\ PointersNext
       \/ part = "ticks" /\ Next
       \/ part = "boot" /\ BootNext
       \/ part = "first" /\ FirstNext
    /\ Others(part)
    /\ UNCHANGED part
PartsSpec == PartsInit /\ [][PartsNext]_<<part, console_vars, console_e2_vars,
                                          first_vars, vars, boot_vars>>

-----------------------------------------------------------------------------
\* Both consoles implement Terminal: see Console and ConsoleE2.
IsTerminal == C!IsTerminal /\ E!IsTerminal
=============================================================================
