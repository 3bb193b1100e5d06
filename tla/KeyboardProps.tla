--------------------------- MODULE KeyboardProps ----------------------------
(***************************************************************************)
(* What must hold of the keyboard buffer of Keyboard.                      *)
(***************************************************************************)
EXTENDS Keyboard

\* Type invariant.
TypeOK ==
    /\ data \in [Index -> Chars]
    /\ head \in Index /\ tail \in Index
    /\ count \in 0 .. BUFFER_SIZE
    /\ reading \in BOOLEAN
    /\ maxchars \in -1 .. BUFFER_SIZE
    /\ i \in 0 .. BUFFER_SIZE - 1
    /\ ret \in {-EINVAL, -EFAULT} \cup (0 .. BUFFER_SIZE - 1)
    /\ ey \in BOOLEAN
    /\ typed \in Seq(Chars)
    /\ dropped \in BOOLEAN
    /\ taken \in Seq(Chars)

\* The three redundant fields agree, through any number of turns round the
\* array: tail is count places after head.
IndicesAgree == tail = (head + count) % BUFFER_SIZE

\* The cell of the n-th waiting character.
cell(n) == (head + n - 1) % BUFFER_SIZE

\* First in, first out, nothing lost, invented or repeated: the characters
\* read are the first of those accepted, and the cells from head on hold the
\* others, in order.
FifoOrder ==
    /\ Len(typed) = Len(taken) + count
    /\ \A n \in DOMAIN taken : taken[n] = typed[n]
    /\ \A n \in 1 .. count : data[cell(n)] = typed[Len(taken) + n]

\* sys_read never waits, yet leaves nothing behind that it could have given:
\* it returns less than it was asked for only if the buffer is empty.
ShortReadMeansEmpty ==
    [][reading /\ ~reading' => ret' = maxchars \/ count' = 0]_vars

\* A released key is dropped only when BUFFER_SIZE characters wait, and what
\* waits then stays until a read takes some of it: the circular array is used
\* to its last cell although a full and an empty one have head = tail.
DropsOnlyWhenFull == dropped => count = BUFFER_SIZE

\* A read system call always comes back.
ReadReturns == reading ~> ~reading

\* The buffer is a bounded first-in first-out queue that drops what does not
\* fit: head, tail, count and the wrap-around are not visible from outside.
Fifo == INSTANCE BoundedFifo WITH
          Size <- BUFFER_SIZE,
          queue <- [n \in 1 .. count |-> data[cell(n)]],
          delivered <- taken
ImplementsFifo == Fifo!Spec

-----------------------------------------------------------------------------
\* For TLC: code 3 is past the end of this table.
MCCharMap == <<"nul", "q", "w">>
=============================================================================
