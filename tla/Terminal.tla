------------------------------ MODULE Terminal ------------------------------
(***************************************************************************)
(* What the console promises: a line of cells, and a position in it that   *)
(* wraps from the end to the start.  A text is printed at once and whole,  *)
(* each character in the colours in force; a new line moves the position   *)
(* to the start of the next row; a character can be shown aside, without   *)
(* moving the position.                                                    *)
(***************************************************************************)
EXTENDS Integers, Sequences

CONSTANTS Columns, Rows, NewLine, Printable, Text

VARIABLES pos, cells, colour

Size == Columns * Rows

\* Position and cells after text.
After(text) ==
    LET after[n \in 0 .. Len(text)] ==
            IF n = 0 THEN <<pos, cells>>
            ELSE LET p == after[n - 1][1]
                     s == after[n - 1][2]
                 IN  IF text[n] = NewLine
                     THEN <<((p \div Columns + 1) * Columns) % Size, s>>
                     ELSE <<(p + 1) % Size, [s EXCEPT ![p] = <<text[n], colour>>]>>
    IN  after[Len(text)]

Display(text) == /\ <<pos', cells'>> = After(text)
                 /\ UNCHANGED colour
Move == pos' \in 0 .. Size - 1 /\ UNCHANGED <<cells, colour>>
Colour == UNCHANGED <<pos, cells>> /\ colour' # colour
Aside == /\ \E p \in 0 .. Size - 1, c \in Printable :
                cells' = [cells EXCEPT ![p] = <<c, colour>>]
         /\ UNCHANGED <<pos, colour>>

Next == (\E text \in Text : Display(text)) \/ Move \/ Colour \/ Aside
Spec == [][Next]_<<pos, cells, colour>>
=============================================================================
