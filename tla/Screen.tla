------------------------------- MODULE Screen -------------------------------
(***************************************************************************)
(* The text screen and its cursor (io.c): a screen is a record of the      *)
(* cursor x, y and the cells, each a character and the colours it has.     *)
(***************************************************************************)
EXTENDS Integers, SequencesExt

CONSTANTS NUM_COLUMNS, NUM_ROWS, NL
\* x and y are bytes.
ScreenSizes == NUM_COLUMNS \in 1 .. 255 /\ NUM_ROWS \in 1 .. 255

Cells == 0 .. NUM_COLUMNS * NUM_ROWS - 1
Byte(n) == n % 256
next_row(s) == [s EXCEPT !.x = 0, !.y = (@ + 1) % NUM_ROWS]

Mut_printc(s, c, colour) ==
    IF c = NL THEN next_row(s)
    ELSE LET t == [x |-> Byte(s.x + 1), y |-> s.y,
                   cells |-> [s.cells EXCEPT ![s.y * NUM_COLUMNS + s.x] = <<c, colour>>]]
         IN  IF t.x > NUM_COLUMNS THEN next_row(t) ELSE t
printc(s, c, colour) ==
    IF c = NL THEN next_row(s)
    ELSE LET t == [x |-> Byte(s.x + 1), y |-> s.y,
                   cells |-> [s.cells EXCEPT ![s.y * NUM_COLUMNS + s.x] = <<c, colour>>]]
         IN  IF t.x >= NUM_COLUMNS THEN next_row(t) ELSE t

printc_xy(s, mx, my, c, colour) ==
    [printc([s EXCEPT !.x = mx, !.y = my], c, colour) EXCEPT !.x = s.x, !.y = s.y]

\* printk, and the loop of sys_write_console: one printc per character.
printk(s, string, colour) ==
    LET shown[n \in 0 .. Len(string)] ==
            IF n = 0 THEN s ELSE printc(shown[n - 1], string[n], colour)
    IN  shown[Len(string)]
=============================================================================
