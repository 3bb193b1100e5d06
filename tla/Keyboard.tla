------------------------------ MODULE Keyboard ------------------------------
(***************************************************************************)
(* Keyboard input of PROJECTE/zeos: the circular buffer, the interrupt     *)
(* routine that fills it and the read system call that empties it          *)
(* (circular_buffer.c, interrupt.c, sys.c).                                *)
(*                                                                         *)
(* sys_read runs with interrupts masked: its loop is one step per          *)
(* character, and no key is handled until the call returns.  Which process *)
(* calls it makes no difference: there is one buffer and nobody waits.     *)
(* Mut_... definitions are faulty variants, used only to test properties.  *)
(***************************************************************************)
EXTENDS Integers, Sequences

CONSTANTS
    BUFFER_SIZE,
    Chars,          \* characters
    NUL,            \* the one of zeroed memory and of keys without one
    char_map,       \* the table of interrupt.c
    Codes,          \* low seven bits of the scan codes the keyboard sends
    MaxTyped        \* bound: characters accepted in a behaviour

ASSUME KeyboardAssumption ==
    /\ BUFFER_SIZE \in Nat \ {0}
    /\ NUL \in Chars
    /\ char_map \in Seq(Chars)
    /\ Codes \subseteq Nat
    /\ MaxTyped \in Nat

EINVAL == 22
EFAULT == 14
Index == 0 .. BUFFER_SIZE - 1

VARIABLES
    data, head, tail, count,   \* kbd_circularBuffer
    reading,      \* a sys_read is in its loop
    maxchars,     \* its argument
    i,            \* characters it has copied
    ret,          \* result of the last sys_read
    ey,           \* the last key printed "EY"
    typed,        \* history: the characters accepted
    dropped,      \* history: a key was dropped since one was last taken out
    taken         \* history: the characters copied to user buffers

buffer == <<data, head, tail, count>>
vars == <<data, head, tail, count, reading, maxchars, i, ret, ey,
          typed, dropped, taken>>

Init ==
    /\ data = [n \in Index |-> NUL]
    /\ head = 0 /\ tail = 0 /\ count = 0
    /\ reading = FALSE /\ maxchars = 0 /\ i = 0 /\ ret = 0
    /\ ey = FALSE
    /\ typed = <<>> /\ dropped = FALSE /\ taken = <<>>

-----------------------------------------------------------------------------
circularBufferIsFull  == count = BUFFER_SIZE
circularBufferIsEmpty == count = 0

Mut_circularBufferEnqueue_overwrites(value) ==
    /\ data' = [data EXCEPT ![tail] = value]
    /\ tail' = (tail + 1) % BUFFER_SIZE
    /\ count' = IF circularBufferIsFull THEN count ELSE count + 1
    /\ typed' = Append(typed, value)
    /\ UNCHANGED <<head, dropped>>

circularBufferEnqueue(value) ==
    IF circularBufferIsFull
    THEN dropped' = TRUE /\ UNCHANGED <<data, head, tail, count, typed>>
    ELSE /\ data' = [data EXCEPT ![tail] = value]
         /\ tail' = (tail + 1) % BUFFER_SIZE
         /\ count' = count + 1
         /\ typed' = Append(typed, value)
         /\ UNCHANGED <<head, dropped>>

\* The case where it returns 1.
circularBufferDequeue ==
    /\ ~circularBufferIsEmpty
    /\ taken' = Append(taken, data[head])
    /\ dropped' = FALSE
    /\ head' = (head + 1) % BUFFER_SIZE
    /\ count' = count - 1
    /\ UNCHANGED <<data, tail>>

-----------------------------------------------------------------------------
\* char_map[code]: past the end of the table it is whatever lies there.
mapped(code) ==
    IF code < Len(char_map) THEN {char_map[code + 1]} ELSE Chars

\* keyboard_routine; a key counts when it is released (bit 0x80).
keyboard_routine(released, code) ==
    /\ ~reading
    /\ Len(typed) < MaxTyped
    /\ IF released
       THEN /\ \E c \in mapped(code) : circularBufferEnqueue(c)
            /\ ey' = (count' = BUFFER_SIZE)
       ELSE /\ ey' = FALSE
            /\ UNCHANGED <<data, head, tail, count, typed, dropped>>
    /\ UNCHANGED <<reading, maxchars, i, ret, taken>>

KeyboardInterrupt ==
    \E released \in BOOLEAN, code \in Codes : keyboard_routine(released, code)

\* sys_read up to its loop: the checks of its arguments.
ReadCall(n, writable) ==
    /\ ~reading
    /\ maxchars' = n
    /\ i' = 0
    /\ IF n < 0 \/ n >= BUFFER_SIZE
       THEN ret' = -EINVAL /\ reading' = FALSE
       ELSE IF ~writable
       THEN ret' = -EFAULT /\ reading' = FALSE
       ELSE ret' = 0 /\ reading' = TRUE
    /\ UNCHANGED <<data, head, tail, count, ey, typed, dropped,
                   taken>>

\* One turn of the loop.
ReadChar ==
    /\ reading
    /\ i < maxchars
    /\ circularBufferDequeue
    /\ i' = i + 1
    /\ UNCHANGED <<reading, maxchars, ret, ey, typed>>

Mut_ReadReturn_waits ==
    /\ reading
    /\ ~(i < maxchars /\ ~circularBufferIsEmpty)
    /\ reading' = (i < maxchars)
    /\ ret' = IF i < maxchars THEN ret ELSE i
    /\ UNCHANGED <<data, head, tail, count, maxchars, i, ey, typed, dropped,
                   taken>>

Mut_ReadReturn ==
    /\ reading
    /\ reading' = FALSE
    /\ ret' = i
    /\ UNCHANGED <<data, head, tail, count, maxchars, i, ey, typed, dropped,
                   taken>>

\* The loop ends: enough characters, or none left.
ReadReturn ==
    /\ reading
    /\ ~(i < maxchars /\ ~circularBufferIsEmpty)
    /\ reading' = FALSE
    /\ ret' = i
    /\ UNCHANGED <<data, head, tail, count, maxchars, i, ey, typed, dropped,
                   taken>>

SysRead ==
    \/ \E n \in -1 .. BUFFER_SIZE, w \in BOOLEAN : ReadCall(n, w)
    \/ ReadChar
    \/ ReadReturn

Next == KeyboardInterrupt \/ SysRead

Spec == Init /\ [][Next]_vars

\* A system call that has started goes on; nothing says a key is ever hit.
FairSpec == Spec /\ WF_vars(ReadChar \/ ReadReturn)
=============================================================================
