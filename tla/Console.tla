------------------------------- MODULE Console ------------------------------
(***************************************************************************)
(* Output of PROJECTE: sys_write (sys.c, devices.c), sys_gotoxy,           *)
(* sys_set_color, and the message the keyboard routine prints from an      *)
(* interrupt when its buffer is full.  A system call runs with interrupts  *)
(* masked, so each is one step; the cursor and the colours are the         *)
(* kernel's, shared by every process.                                      *)
(***************************************************************************)
EXTENDS Screen

CONSTANTS
    TAM_BUFFER,       \* characters of the kernel's buffer (512)
    Texts,            \* what programs write
    Fds,              \* descriptors they pass
    Coordinates, Colours,   \* arguments of gotoxy and set_color
    Full              \* the text of printk when the buffer is full ("EY")

ConsoleSizes ==
    /\ ScreenSizes /\ TAM_BUFFER \in Nat \ {0}
    /\ \A t \in Texts \cup {Full} : t \in Seq(Range(t))
    /\ Coordinates \subseteq Int

EBADF == 9
EFAULT == 14
EINVAL == 22

VARIABLES scr, color_txt, call   \* call: history, the last call and its result
vars == <<scr, color_txt, call>>

FirstRow == (NUM_ROWS * 19) \div 25   \* y = 19 of 25
Init ==
    /\ scr = [x |-> 0, y |-> FirstRow, cells |-> [i \in Cells |-> <<"blank", 0>>]]
    /\ color_txt = 512           \* 0x0200
    /\ call = [name |-> "none", args |-> <<>>, result |-> 0]

check_fd(fd) == IF fd # 1 THEN -EBADF ELSE 0

\* The text goes through the kernel's buffer in pieces, the last one partial.
\* A state of the loop is what is left, the place in the text and the screen.
write_loop(text) ==
    LET loop[n \in 0 .. Len(text)] ==
            IF n = 0 THEN [left |-> Len(text), from |-> 0, scr |-> scr]
            ELSE LET w == loop[n - 1]
                     size == IF w.left > TAM_BUFFER THEN TAM_BUFFER ELSE w.left
                 IN  [left |-> w.left - size, from |-> w.from + size,
                      scr |-> printk(w.scr, SubSeq(text, w.from + 1, w.from + size),
                                     color_txt)]
    IN  loop[Len(text)]

answered(name, args, n) == call' = [name |-> name, args |-> args, result |-> n]

\* access_ok refuses the buffer or not: module UserMemory.
SysWrite(fd, text, negative, readable) ==
    /\ LET refused == IF check_fd(fd) # 0 THEN check_fd(fd)
                      ELSE IF negative THEN -EINVAL
                      ELSE IF readable THEN 0 ELSE -EFAULT
           w == write_loop(text)
       IN  IF refused # 0
           THEN answered("write", <<text>>, refused) /\ UNCHANGED scr
           ELSE scr' = w.scr /\ answered("write", <<text>>, Len(text) - w.left)
    /\ UNCHANGED color_txt

SysGotoxy(xn, yn) ==
    /\ IF xn < 0 \/ yn < 0
       THEN answered("gotoxy", <<xn, yn>>, -EINVAL) /\ UNCHANGED scr
       ELSE /\ scr' = [scr EXCEPT !.x = xn % NUM_COLUMNS, !.y = yn % NUM_ROWS]
            /\ answered("gotoxy", <<xn, yn>>, 0)
    /\ UNCHANGED color_txt

SysSetColor(fg, bg) ==
    /\ IF fg \notin 0 .. 15 \/ bg \notin 0 .. 15
       THEN answered("set_color", <<fg, bg>>, -EINVAL) /\ UNCHANGED color_txt
       ELSE /\ color_txt' = (fg * 16 + bg) * 256
            /\ answered("set_color", <<fg, bg>>, 0)
    /\ UNCHANGED scr

KeyboardFull ==
    /\ scr' = printk(scr, Full, color_txt)
    /\ UNCHANGED <<color_txt, call>>

Next ==
    \/ \E fd \in Fds, text \in Texts, negative, readable \in BOOLEAN :
          SysWrite(fd, text, negative, readable)
    \/ \E xn, yn \in Coordinates : SysGotoxy(xn, yn)
    \/ \E fg, bg \in Colours : SysSetColor(fg, bg)
    \/ KeyboardFull

Spec == Init /\ [][Next]_vars

-----------------------------------------------------------------------------
\* The console is a terminal: a text, however many pieces of the kernel's
\* buffer it takes, is printed whole and in order where the cursor is, and
\* the cursor never leaves the screen, beyond which printc would write
\* outside the video memory.
T == INSTANCE Terminal WITH
        Columns <- NUM_COLUMNS, Rows <- NUM_ROWS, NewLine <- NL,
        Printable <- UNION {Range(t) : t \in Texts}, Text <- Texts \cup {Full},
        pos <- scr.y * NUM_COLUMNS + scr.x, cells <- scr.cells, colour <- color_txt
IsTerminal == T!Spec

\* What set_color does not do: text in the colours it was last given, the
\* low four bits of the attribute being the foreground.
ColoursAsAsked ==
    call.name = "set_color" /\ call.result = 0 =>
        /\ (color_txt \div 256) % 16 = call.args[1]
        /\ (color_txt \div 256) \div 16 = call.args[2]
=============================================================================
