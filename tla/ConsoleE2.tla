------------------------------ MODULE ConsoleE2 -----------------------------
(***************************************************************************)
(* Output of E2: sys_write with its one static buffer, and the keyboard    *)
(* routine, which shows the last key at a fixed place.  The same in E1.    *)
(***************************************************************************)
EXTENDS Integers, SequencesExt

CONSTANTS NUM_COLUMNS, NUM_ROWS, NL, TAMBUFF, Texts,
          Keys,             \* characters of char_map
          KeyX, KeyY        \* place of the last key (5, 6)

Scr == INSTANCE Screen

\* io.c of E2 has fixed colours.
colour == 512
printc(s, c) == Scr!printc(s, c, colour)
printc_xy(s, mx, my, c) == Scr!printc_xy(s, mx, my, c, colour)

ConsoleSizes ==
    /\ Scr!ScreenSizes /\ TAMBUFF \in Nat \ {0}
    /\ \A t \in Texts : t \in Seq(Range(t))
    /\ KeyX \in 0 .. NUM_COLUMNS - 1 /\ KeyY \in 0 .. NUM_ROWS - 1

EBADF == 9
EFAULT == 14
EINVAL == 22

VARIABLES scr, buff, result
vars == <<scr, buff, result>>

Init ==
    /\ scr = [x |-> 0, y |-> (NUM_ROWS * 19) \div 25,
              cells |-> [i \in Scr!Cells |-> <<"blank", 0>>]]
    /\ buff = [i \in 1 .. TAMBUFF |-> "zero"]
    /\ result = 0

check_fd(fd) == IF fd # 1 THEN -EBADF ELSE 0

\* A piece of the text goes to the start of buff and from there to the
\* screen; what an earlier one left behind it stays.
copy_from_user(piece, b) == [i \in DOMAIN b |-> IF i <= Len(piece) THEN piece[i] ELSE b[i]]
sys_write_console(b, size, s) ==
    LET shown[n \in 0 .. size] == IF n = 0 THEN s ELSE printc(shown[n - 1], b[n])
    IN  shown[size]

pieces(text) ==
    LET loop[n \in 0 .. Len(text)] ==
            IF n = 0 THEN [left |-> Len(text), buff |-> buff, scr |-> scr]
            ELSE LET w == loop[n - 1]
                     from == Len(text) - w.left
                     size == IF w.left > TAMBUFF THEN TAMBUFF ELSE w.left
                     b == copy_from_user(SubSeq(text, from + 1, from + size), w.buff)
                 IN  [left |-> w.left - size, buff |-> b,
                      scr |-> sys_write_console(b, size, w.scr)]
    IN  loop[Len(text)]

refusal(fd, negative, accessible) ==
    IF check_fd(fd) # 0 THEN check_fd(fd)
    ELSE IF ~accessible THEN -EFAULT
    ELSE IF negative THEN -EINVAL ELSE 0

SysWriteRefused(fd, negative, accessible) ==
    /\ refusal(fd, negative, accessible) # 0
    /\ result' = refusal(fd, negative, accessible)
    /\ UNCHANGED <<scr, buff>>

SysWrite(text) ==
    /\ \E w \in {pieces(text)} : /\ scr' = w.scr /\ buff' = w.buff
                                 /\ result' = Len(text) - w.left

\* keyboard_routine: every key that goes down shows a character, "C" when
\* the map has none.
KeyboardRoutine(key) ==
    /\ scr' = printc_xy(scr, KeyX, KeyY, key)
    /\ UNCHANGED <<buff, result>>

Next ==
    \/ \E fd \in {0, 1}, negative, accessible \in BOOLEAN :
          SysWriteRefused(fd, negative, accessible)
    \/ \E text \in Texts : SysWrite(text)
    \/ \E key \in Keys \cup {"C"} : KeyboardRoutine(key)

Spec == Init /\ [][Next]_vars

-----------------------------------------------------------------------------
\* The console of E2 is a terminal too: texts from the one buffer appear
\* whole, in order and without what the buffer held before, and the keys an
\* interrupt shows between two writes never move the programs' cursor.
T == INSTANCE Terminal WITH
        Columns <- NUM_COLUMNS, Rows <- NUM_ROWS, NewLine <- NL,
        Printable <- Keys \cup {"C"}, Text <- Texts,
        pos <- scr.y * NUM_COLUMNS + scr.x, cells <- scr.cells, colour <- colour
IsTerminal == T!Spec
=============================================================================
