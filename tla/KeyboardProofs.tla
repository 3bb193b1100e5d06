--------------------------- MODULE KeyboardProofs ---------------------------
(***************************************************************************)
(* Proofs about Keyboard, for any size of the buffer, any table of         *)
(* characters and any bound on what is typed.                              *)
(***************************************************************************)
EXTENDS KeyboardProps, TLAPS

-----------------------------------------------------------------------------
(* The wrap-around.                                                        *)

\* The remainder of a number below twice the divisor.
LEMMA Wrap ==
    ASSUME NEW N \in Nat \ {0}, NEW m \in 0 .. 2 * N - 1
    PROVE  m % N = IF m < N THEN m ELSE m - N
<1>1. CASE m < N
  BY <1>1
<1>2. CASE m >= N
  BY <1>2
<1> QED BY <1>1, <1>2

\* The place n after the place h of a ring of N.
Ring(N, h, n) == IF h + n < N THEN h + n ELSE h + n - N

\* The places of one round are in the ring and differ from one another.
LEMMA RingPlace ==
    ASSUME NEW N \in Nat \ {0}, NEW h \in 0 .. N - 1, NEW n \in 0 .. N
    PROVE  Ring(N, h, n) \in 0 .. N - 1 /\ (h + n) % N = Ring(N, h, n)
<1> DEFINE m == h + n
<1>1. m \in 0 .. 2 * N - 1
  OBVIOUS
<1> HIDE DEF m
<1>2. m % N = IF m < N THEN m ELSE m - N
  BY <1>1, Wrap
<1>3. Ring(N, h, n) \in 0 .. N - 1
  BY DEF Ring
<1> QED BY <1>2, <1>3 DEF Ring, m

LEMMA RingDistinct ==
    ASSUME NEW N \in Nat \ {0}, NEW h \in 0 .. N - 1,
           NEW n \in 0 .. N - 1, NEW m \in 0 .. N - 1, n # m
    PROVE  Ring(N, h, n) # Ring(N, h, m)
BY DEF Ring

\* One step on from a place is the next place.
LEMMA RingNext ==
    ASSUME NEW N \in Nat \ {0}, NEW h \in 0 .. N - 1, NEW n \in 0 .. N - 1
    PROVE  (Ring(N, h, n) + 1) % N = Ring(N, h, n + 1)
<1> DEFINE m == Ring(N, h, n) + 1
<1>1. m \in 0 .. 2 * N - 1
  BY DEF Ring
<1> HIDE DEF m
<1>2. m % N = IF m < N THEN m ELSE m - N
  BY <1>1, Wrap
<1>3. (IF m < N THEN m ELSE m - N) = Ring(N, h, n + 1)
  BY DEF Ring, m
<1> QED BY <1>2, <1>3 DEF m

\* Moving the start on by one shifts every place by one.
LEMMA RingShift ==
    ASSUME NEW N \in Nat \ {0}, NEW h \in 0 .. N - 1, NEW n \in 0 .. N - 1
    PROVE  (((h + 1) % N) + n) % N = Ring(N, h, n + 1)
<1> DEFINE m == h + 1
           g == m % N
           k == g + n
<1>1. m \in 0 .. 2 * N - 1
  OBVIOUS
<1> HIDE DEF m
<1>2. g = IF m < N THEN m ELSE m - N
  BY <1>1, Wrap
<1> HIDE DEF g
<1>3. k \in 0 .. 2 * N - 1
  BY <1>1, <1>2 DEF m
<1> HIDE DEF k
<1>4. k % N = IF k < N THEN k ELSE k - N
  BY <1>3, Wrap
<1>5. (IF k < N THEN k ELSE k - N) = Ring(N, h, n + 1)
  BY <1>2 DEF Ring, k, m
<1> QED BY <1>4, <1>5 DEF k, g, m

-----------------------------------------------------------------------------
(* The inductive invariant.  A read in progress is within its bounds.      *)

KInv == /\ TypeOK
        /\ IndicesAgree
        /\ FifoOrder
        /\ DropsOnlyWhenFull
        /\ reading => maxchars \in 0 .. BUFFER_SIZE - 1 /\ i <= maxchars

\* Where the cells are, by the ring.
LEMMA Cells ==
    ASSUME KInv
    PROVE  /\ BUFFER_SIZE \in Nat \ {0} /\ head \in 0 .. BUFFER_SIZE - 1
           /\ tail = Ring(BUFFER_SIZE, head, count)
           /\ \A n \in 1 .. BUFFER_SIZE : cell(n) = Ring(BUFFER_SIZE, head, n - 1)
<1>1. BUFFER_SIZE \in Nat \ {0} /\ head \in 0 .. BUFFER_SIZE - 1 /\ count \in 0 .. BUFFER_SIZE
  BY KeyboardAssumption DEF KInv, TypeOK, Index
<1>2. tail = Ring(BUFFER_SIZE, head, count)
  BY <1>1, RingPlace DEF KInv, IndicesAgree
<1>3. ASSUME NEW n \in 1 .. BUFFER_SIZE PROVE cell(n) = Ring(BUFFER_SIZE, head, n - 1)
  <2>1. n - 1 \in 0 .. BUFFER_SIZE /\ head + n - 1 = head + (n - 1)
    BY <1>1
  <2> QED BY <1>1, <2>1, RingPlace DEF cell
<1> QED BY <1>1, <1>2, <1>3

\* An accepted character goes to the cell after the last one; the cells in
\* use keep theirs.
LEMMA EnqueueCells ==
    ASSUME KInv, NEW c \in Chars, circularBufferEnqueue(c), count # BUFFER_SIZE
    PROVE  /\ count' = count + 1 /\ count' \in 0 .. BUFFER_SIZE
           /\ head' = head /\ typed' = Append(typed, c) /\ dropped' = dropped
           /\ data' \in [Index -> Chars] /\ tail' \in Index
           /\ IndicesAgree'
           /\ \A n \in 1 .. count' : cell(n)' = cell(n)
           /\ \A n \in 1 .. count : data'[cell(n)] = data[cell(n)]
           /\ data'[cell(count')] = c
<1> DEFINE N == BUFFER_SIZE
<1>1. /\ N \in Nat \ {0} /\ head \in 0 .. N - 1
      /\ tail = Ring(N, head, count)
      /\ \A n \in 1 .. N : cell(n) = Ring(N, head, n - 1)
  BY Cells
<1>2. /\ data \in [0 .. N - 1 -> Chars] /\ count \in 0 .. N - 1 /\ count + 1 \in 0 .. N
  BY <1>1 DEF KInv, TypeOK, Index
<1>3. /\ count' = count + 1 /\ head' = head /\ typed' = Append(typed, c)
      /\ dropped' = dropped
      /\ data' = [data EXCEPT ![tail] = c]
      /\ tail' = (tail + 1) % N
  BY DEF circularBufferEnqueue, circularBufferIsFull
<1>4. tail \in 0 .. N - 1
  BY <1>1, <1>2, RingPlace
<1>5. tail' = Ring(N, head, count + 1)
  <2>1. (Ring(N, head, count) + 1) % N = Ring(N, head, count + 1)
    BY <1>1, <1>2, RingNext
  <2> QED BY <1>1, <1>3, <2>1
<1>6. Ring(N, head, count + 1) = (head + (count + 1)) % N
  BY <1>1, <1>2, RingPlace
<1>7. Ring(N, head, count + 1) \in 0 .. N - 1
  BY <1>1, <1>2, RingPlace
<1>8. \A n \in 1 .. count' : cell(n)' = cell(n)
  BY <1>3 DEF cell
<1>9. cell(count') = tail
  BY <1>1, <1>2, <1>3
<1>10. data'[cell(count')] = c
  BY <1>2, <1>3, <1>4, <1>9
<1>11. ASSUME NEW n \in 1 .. count PROVE data'[cell(n)] = data[cell(n)]
  <2>1. n - 1 \in 0 .. N - 1 /\ n - 1 # count /\ n \in 1 .. N
    BY <1>1, <1>2
  <2>2. Ring(N, head, n - 1) # Ring(N, head, count) /\ Ring(N, head, n - 1) \in 0 .. N - 1
    BY <1>1, <1>2, <2>1 DEF Ring
  <2>3. cell(n) # tail /\ cell(n) \in 0 .. N - 1
    BY <1>1, <2>1, <2>2
  <2> QED BY <1>2, <1>3, <2>3
<1>12. data' \in [Index -> Chars] /\ tail' \in Index
  BY <1>2, <1>3, <1>4, <1>5, <1>7 DEF Index
<1>13. IndicesAgree'
  BY <1>3, <1>5, <1>6 DEF IndicesAgree
<1> QED BY <1>2, <1>3, <1>8, <1>10, <1>11, <1>12, <1>13

\* A character taken out shifts the cells by one.
LEMMA DequeueCells ==
    ASSUME KInv, circularBufferDequeue
    PROVE  /\ count \in 1 .. BUFFER_SIZE /\ count' = count - 1
           /\ count' \in 0 .. BUFFER_SIZE
           /\ data' = data /\ tail' = tail /\ head' \in Index /\ ~dropped' /\ dropped' \in BOOLEAN
           /\ taken' = Append(taken, data[cell(1)]) /\ data[cell(1)] \in Chars
           /\ IndicesAgree'
           /\ \A n \in 1 .. count' : cell(n)' = cell(n + 1)
<1> DEFINE N == BUFFER_SIZE
<1>1. /\ N \in Nat \ {0} /\ head \in 0 .. N - 1
      /\ tail = Ring(N, head, count)
      /\ \A n \in 1 .. N : cell(n) = Ring(N, head, n - 1)
  BY Cells
<1>2. /\ data \in [0 .. N - 1 -> Chars] /\ count \in 1 .. N
      /\ count - 1 \in 0 .. N - 1
  BY <1>1 DEF KInv, TypeOK, Index, circularBufferDequeue, circularBufferIsEmpty
<1>3. /\ count' = count - 1 /\ head' = (head + 1) % N
      /\ data' = data /\ tail' = tail /\ taken' = Append(taken, data[head])
      /\ ~dropped' /\ dropped' \in BOOLEAN
  BY DEF circularBufferDequeue
<1>4. cell(1) = head
  BY <1>1 DEF Ring
<1>5. head' \in 0 .. N - 1
  <2>1. 1 \in 0 .. N
    BY <1>1
  <2>2. (head + 1) % N = Ring(N, head, 1)
    BY <1>1, <2>1, RingPlace
  <2>3. Ring(N, head, 1) \in 0 .. N - 1
    BY <1>1, <2>1, RingPlace
  <2> QED BY <1>3, <2>2, <2>3
<1>6. tail' = (head' + count') % N
  <2>1. (((head + 1) % N) + (count - 1)) % N = Ring(N, head, count - 1 + 1)
    BY <1>1, <1>2, RingShift
  <2>2. count - 1 + 1 = count
    BY <1>2
  <2> QED BY <1>1, <1>3, <2>1, <2>2
<1>7. ASSUME NEW n \in 1 .. count' PROVE cell(n)' = cell(n + 1)
  <2>1. n - 1 \in 0 .. N - 1 /\ n + 1 \in 1 .. N /\ n - 1 + 1 = n /\ n + 1 - 1 = n
    BY <1>1, <1>2, <1>3
  <2>2. (((head + 1) % N) + (n - 1)) % N = Ring(N, head, n - 1 + 1)
    BY <1>1, <2>1, RingShift
  <2>3. head' + n - 1 = head' + (n - 1)
    BY <1>5, <2>1
  <2>4. cell(n)' = (head' + n - 1) % N
    BY DEF cell
  <2>5. cell(n)' = Ring(N, head, n)
    BY <1>3, <2>1, <2>2, <2>3, <2>4
  <2>6. cell(n + 1) = Ring(N, head, n)
    BY <1>1, <2>1
  <2> QED BY <2>5, <2>6
<1>8. data[cell(1)] \in Chars
  BY <1>1, <1>2, <1>4
<1>9. head' \in Index /\ IndicesAgree'
  BY <1>5, <1>6 DEF IndicesAgree, Index
<1>10. count' \in 0 .. N
  BY <1>1, <1>2, <1>3
<1> QED BY <1>2, <1>3, <1>4, <1>7, <1>8, <1>9, <1>10

-----------------------------------------------------------------------------
(* The invariant, step by step.                                            *)

LEMMA InitKInv == Init => KInv
<1> SUFFICES ASSUME Init PROVE KInv
  OBVIOUS
<1>1. BUFFER_SIZE \in Nat \ {0} /\ NUL \in Chars
  BY KeyboardAssumption
<1>2. TypeOK
  <2>1. data \in [Index -> Chars] /\ 0 \in Index
    BY <1>1 DEF Init, Index
  <2>2. typed \in Seq(Chars) /\ taken \in Seq(Chars)
    BY DEF Init
  <2> QED BY <1>1, <2>1, <2>2 DEF Init, TypeOK, EINVAL, EFAULT
<1>3. IndicesAgree
  BY <1>1, Wrap DEF Init, IndicesAgree
<1>4. FifoOrder
  BY DEF Init, FifoOrder
<1> QED BY <1>1, <1>2, <1>3, <1>4 DEF KInv, Init, DropsOnlyWhenFull

\* The characters accepted or dropped are characters.
LEMMA MappedChars ==
    ASSUME NEW code \in Codes, NEW c \in mapped(code)
    PROVE  c \in Chars
<1>1. code \in Nat /\ char_map \in Seq(Chars)
  BY KeyboardAssumption
<1>2. CASE code < Len(char_map)
  <2>1. code + 1 \in 1 .. Len(char_map)
    BY <1>1, <1>2
  <2> QED BY <1>1, <1>2, <2>1 DEF mapped
<1>3. CASE ~(code < Len(char_map))
  BY <1>3 DEF mapped
<1> QED BY <1>2, <1>3

\* An interrupt that changes the buffer adds one character to it.
LEMMA EnqueueStep ==
    ASSUME KInv, NEW c \in Chars, circularBufferEnqueue(c), count # BUFFER_SIZE,
           ~reading, UNCHANGED <<reading, maxchars, i, ret, taken>>,
           ey' \in BOOLEAN
    PROVE  KInv'
<1>1. /\ count' = count + 1 /\ count' \in 0 .. BUFFER_SIZE
      /\ head' = head /\ typed' = Append(typed, c) /\ dropped' = dropped
      /\ data' \in [Index -> Chars] /\ tail' \in Index
      /\ IndicesAgree'
      /\ \A n \in 1 .. count' : cell(n)' = cell(n)
      /\ \A n \in 1 .. count : data'[cell(n)] = data[cell(n)]
      /\ data'[cell(count')] = c
  BY EnqueueCells
<1>2. /\ count \in Nat /\ typed \in Seq(Chars) /\ taken \in Seq(Chars)
      /\ Len(typed) = Len(taken) + count
      /\ \A n \in DOMAIN taken : taken[n] = typed[n]
      /\ \A n \in 1 .. count : data[cell(n)] = typed[Len(taken) + n]
  BY KeyboardAssumption DEF KInv, TypeOK, FifoOrder
<1>3. TypeOK'
  <2>1. typed' \in Seq(Chars)
    BY <1>1, <1>2
  <2>2. TypeOK
    BY DEF KInv
  <2>3. Index' = Index
    BY DEF Index
  <2> QED BY <1>1, <2>1, <2>2, <2>3 DEF TypeOK
<1>4. FifoOrder'
  <2>1. Len(typed') = Len(typed) + 1 /\ Len(taken) \in Nat
    BY <1>1, <1>2
  <2>2. \A n \in 1 .. Len(typed) : typed'[n] = typed[n]
    BY <1>1, <1>2
  <2>3. typed'[Len(typed) + 1] = c
    BY <1>1, <1>2
  <2>4. Len(typed') = Len(taken') + count'
    BY <1>1, <1>2, <2>1
  <2>5. \A n \in DOMAIN taken' : taken'[n] = typed'[n]
    BY <1>2, <2>1, <2>2
  <2>6. ASSUME NEW n \in 1 .. count'
        PROVE  data'[cell(n)'] = typed'[Len(taken) + n]
    <3>1. CASE n = count'
      BY <1>1, <1>2, <2>1, <2>3, <3>1
    <3>2. CASE n # count'
      <4>1. n \in 1 .. count /\ Len(taken) + n \in 1 .. Len(typed)
        BY <1>1, <1>2, <2>1, <3>2
      <4> QED BY <1>1, <1>2, <2>2, <4>1
    <3> QED BY <3>1, <3>2
  <2> QED BY <2>4, <2>5, <2>6 DEF FifoOrder
<1>5. ~dropped
  BY DEF KInv, DropsOnlyWhenFull
<1> QED BY <1>1, <1>3, <1>4, <1>5 DEF KInv, DropsOnlyWhenFull

\* A turn of the loop of sys_read takes the oldest character.
LEMMA ReadCharStep ==
    ASSUME KInv, ReadChar
    PROVE  KInv' /\ data[cell(1)] = typed[Len(taken) + 1]
<1>1. circularBufferDequeue /\ reading /\ i < maxchars /\ i' = i + 1
      /\ UNCHANGED <<reading, maxchars, ret, ey, typed>>
  BY DEF ReadChar
<1>2. /\ count \in 1 .. BUFFER_SIZE /\ count' = count - 1
      /\ count' \in 0 .. BUFFER_SIZE
      /\ data' = data /\ tail' = tail /\ head' \in Index /\ ~dropped' /\ dropped' \in BOOLEAN
      /\ taken' = Append(taken, data[cell(1)]) /\ data[cell(1)] \in Chars
      /\ IndicesAgree'
      /\ \A n \in 1 .. count' : cell(n)' = cell(n + 1)
  BY <1>1, DequeueCells
<1>3. /\ count \in Nat /\ typed \in Seq(Chars) /\ taken \in Seq(Chars)
      /\ Len(typed) = Len(taken) + count
      /\ \A n \in DOMAIN taken : taken[n] = typed[n]
      /\ \A n \in 1 .. count : data[cell(n)] = typed[Len(taken) + n]
      /\ BUFFER_SIZE \in Nat \ {0}
  BY KeyboardAssumption DEF KInv, TypeOK, FifoOrder
<1>4. maxchars \in 0 .. BUFFER_SIZE - 1 /\ i \in 0 .. BUFFER_SIZE - 1
  BY <1>1 DEF KInv, TypeOK
<1>5. TypeOK'
  <2>1. taken' \in Seq(Chars)
    BY <1>2, <1>3
  <2>2. i' \in 0 .. BUFFER_SIZE - 1
    BY <1>1, <1>3, <1>4
  <2>3. TypeOK
    BY DEF KInv
  <2>4. Index' = Index
    BY DEF Index
  <2> QED BY <1>1, <1>2, <2>1, <2>2, <2>3, <2>4 DEF TypeOK
<1>6. data[cell(1)] = typed[Len(taken) + 1]
  BY <1>2, <1>3
<1>7. FifoOrder'
  <2>1. Len(taken') = Len(taken) + 1 /\ Len(taken) \in Nat
    BY <1>2, <1>3
  <2>2. \A n \in 1 .. Len(taken) : taken'[n] = taken[n]
    BY <1>2, <1>3
  <2>3. taken'[Len(taken) + 1] = data[cell(1)]
    BY <1>2, <1>3
  <2>4. Len(typed') = Len(taken') + count'
    BY <1>1, <1>2, <1>3, <2>1
  <2>5. ASSUME NEW n \in DOMAIN taken' PROVE taken'[n] = typed'[n]
    <3>1. n \in 1 .. Len(taken) + 1
      BY <1>2, <1>3, <2>1
    <3>2. CASE n = Len(taken) + 1
      BY <1>1, <1>6, <2>3, <3>2
    <3>3. CASE n # Len(taken) + 1
      <4>1. n \in 1 .. Len(taken) /\ n \in DOMAIN taken
        BY <1>3, <2>1, <3>1, <3>3
      <4> QED BY <1>1, <1>3, <2>2, <4>1
    <3> QED BY <3>2, <3>3
  <2>6. ASSUME NEW n \in 1 .. count'
        PROVE  data'[cell(n)'] = typed'[Len(taken') + n]
    <3>1. n + 1 \in 1 .. count
      BY <1>2, <1>3
    <3>2. Len(taken) + (n + 1) = Len(taken') + n
      BY <2>1
    <3> QED BY <1>1, <1>2, <1>3, <3>1, <3>2
  <2> QED BY <2>4, <2>5, <2>6 DEF FifoOrder
<1>8. (reading => maxchars \in 0 .. BUFFER_SIZE - 1 /\ i <= maxchars)'
  BY <1>1, <1>4
<1> QED BY <1>2, <1>5, <1>6, <1>7, <1>8 DEF KInv, DropsOnlyWhenFull

\* The system call's other steps leave the buffer alone.
LEMMA ReadCallStep ==
    ASSUME KInv, NEW n \in -1 .. BUFFER_SIZE, NEW w \in BOOLEAN, ReadCall(n, w)
    PROVE  KInv'
<1>1. BUFFER_SIZE \in Nat \ {0}
  BY KeyboardAssumption
<1>2. UNCHANGED <<data, head, tail, count, ey, typed, dropped, taken>>
      /\ maxchars' = n /\ i' = 0
  BY DEF ReadCall
<1>3. /\ reading' \in BOOLEAN
      /\ ret' \in {-EINVAL, -EFAULT, 0}
      /\ reading' => n \in 0 .. BUFFER_SIZE - 1
  <2>1. CASE n < 0 \/ n >= BUFFER_SIZE
    BY <2>1 DEF ReadCall
  <2>2. CASE ~(n < 0 \/ n >= BUFFER_SIZE) /\ ~w
    BY <2>2 DEF ReadCall
  <2>3. CASE ~(n < 0 \/ n >= BUFFER_SIZE) /\ w
    <3>1. ret' = 0 /\ reading' = TRUE
      BY <2>3 DEF ReadCall
    <3>2. n \in 0 .. BUFFER_SIZE - 1
      BY <1>1, <2>3
    <3> QED BY <3>1, <3>2
  <2> QED BY <2>1, <2>2, <2>3
<1>4. TypeOK'
  <2>1. TypeOK /\ Index' = Index
    BY DEF KInv, Index
  <2>2. ret' \in {-EINVAL, -EFAULT} \cup (0 .. BUFFER_SIZE - 1)
        /\ i' \in 0 .. BUFFER_SIZE - 1
    BY <1>1, <1>2, <1>3
  <2> QED BY <1>2, <1>3, <2>1, <2>2 DEF TypeOK
<1>5. IndicesAgree' /\ FifoOrder' /\ DropsOnlyWhenFull'
  BY <1>2 DEF KInv, IndicesAgree, FifoOrder, DropsOnlyWhenFull, cell
<1> QED BY <1>2, <1>3, <1>4, <1>5 DEF KInv

LEMMA ReadReturnStep ==
    ASSUME KInv, ReadReturn
    PROVE  KInv'
<1>1. UNCHANGED <<data, head, tail, count, maxchars, i, ey, typed, dropped, taken>>
      /\ ~reading' /\ reading' \in BOOLEAN /\ ret' = i
  BY DEF ReadReturn
<1>2. TypeOK'
  <2>1. TypeOK /\ Index' = Index
    BY DEF KInv, Index
  <2> QED BY <1>1, <2>1 DEF TypeOK
<1>3. IndicesAgree' /\ FifoOrder' /\ DropsOnlyWhenFull'
  BY <1>1 DEF KInv, IndicesAgree, FifoOrder, DropsOnlyWhenFull, cell
<1> QED BY <1>1, <1>2, <1>3 DEF KInv

LEMMA IdleStep == KInv /\ UNCHANGED vars => KInv'
<1> SUFFICES ASSUME KInv, UNCHANGED vars PROVE KInv'
  OBVIOUS
<1>1. TypeOK'
  BY DEF KInv, TypeOK, Index, vars
<1>2. IndicesAgree' /\ FifoOrder' /\ DropsOnlyWhenFull'
  BY DEF KInv, IndicesAgree, FifoOrder, DropsOnlyWhenFull, cell, vars
<1> QED BY <1>1, <1>2 DEF KInv, vars

\* What an interrupt does: it adds a character, or leaves the buffer alone.
LEMMA InterruptCases ==
    ASSUME KInv, NEW released \in BOOLEAN, NEW code \in Codes,
           keyboard_routine(released, code)
    PROVE  /\ ~reading /\ UNCHANGED <<reading, maxchars, i, ret, taken>>
           /\ ey' \in BOOLEAN
           /\ \/ /\ UNCHANGED <<data, head, tail, count, typed>>
                 /\ dropped' \in BOOLEAN /\ (dropped' => count = BUFFER_SIZE)
              \/ \E c \in Chars : /\ circularBufferEnqueue(c)
                                  /\ count # BUFFER_SIZE
<1>1. ~reading /\ UNCHANGED <<reading, maxchars, i, ret, taken>>
  BY DEF keyboard_routine
<1>2. CASE ~released
  BY <1>1, <1>2 DEF keyboard_routine, KInv, TypeOK, DropsOnlyWhenFull
<1>3. CASE released
  <2>1. PICK c \in mapped(code) : circularBufferEnqueue(c)
    BY <1>3 DEF keyboard_routine
  <2>2. c \in Chars
    BY <2>1, MappedChars
  <2>3. ey' = (count' = BUFFER_SIZE)
    BY <1>3 DEF keyboard_routine
  <2>4. CASE count = BUFFER_SIZE
    BY <1>1, <2>1, <2>3, <2>4 DEF circularBufferEnqueue, circularBufferIsFull
  <2>5. CASE count # BUFFER_SIZE
    BY <1>1, <2>1, <2>2, <2>3, <2>5
  <2> QED BY <2>4, <2>5
<1> QED BY <1>2, <1>3

LEMMA NextKInv == KInv /\ [Next]_vars => KInv'
<1> SUFFICES ASSUME KInv, [Next]_vars PROVE KInv'
  OBVIOUS
<1>1. CASE KeyboardInterrupt
  <2>1. PICK released \in BOOLEAN, code \in Codes : keyboard_routine(released, code)
    BY <1>1 DEF KeyboardInterrupt
  <2>2. /\ ~reading /\ UNCHANGED <<reading, maxchars, i, ret, taken>>
        /\ ey' \in BOOLEAN
        /\ \/ /\ UNCHANGED <<data, head, tail, count, typed>>
              /\ dropped' \in BOOLEAN /\ (dropped' => count = BUFFER_SIZE)
           \/ \E c \in Chars : circularBufferEnqueue(c) /\ count # BUFFER_SIZE
    BY <2>1, InterruptCases
  <2>3. CASE /\ UNCHANGED <<data, head, tail, count, typed>>
             /\ dropped' \in BOOLEAN /\ (dropped' => count = BUFFER_SIZE)
    <3>1. TypeOK'
      BY <2>2, <2>3 DEF KInv, TypeOK, Index
    <3>2. IndicesAgree' /\ FifoOrder' /\ DropsOnlyWhenFull'
      BY <2>2, <2>3 DEF KInv, IndicesAgree, FifoOrder, DropsOnlyWhenFull, cell
    <3> QED BY <2>2, <3>1, <3>2 DEF KInv
  <2>4. ASSUME NEW c \in Chars, circularBufferEnqueue(c), count # BUFFER_SIZE
        PROVE  KInv'
    BY <2>2, <2>4, EnqueueStep
  <2> QED BY <2>2, <2>3, <2>4
<1>2. CASE SysRead
  <2>1. ASSUME NEW n \in -1 .. BUFFER_SIZE, NEW w \in BOOLEAN, ReadCall(n, w)
        PROVE  KInv'
    BY <2>1, ReadCallStep
  <2>2. CASE ReadChar
    BY <2>2, ReadCharStep
  <2>3. CASE ReadReturn
    BY <2>3, ReadReturnStep
  <2> QED BY <1>2, <2>1, <2>2, <2>3 DEF SysRead
<1>3. CASE UNCHANGED vars
  BY <1>3, IdleStep
<1> QED BY <1>1, <1>2, <1>3 DEF Next

-----------------------------------------------------------------------------
(* The theorems.                                                           *)

\* Every reachable state satisfies the inductive invariant.
THEOREM BufferInvariant == Spec => []KInv
<1>1. Init => KInv
  BY InitKInv
<1>2. KInv /\ [Next]_vars => KInv'
  BY NextKInv
<1> QED BY <1>1, <1>2, PTL DEF Spec

\* The buffer, its indices and its history have their types.
THEOREM BufferTypeCorrect == Spec => []TypeOK
<1>1. KInv => TypeOK
  BY DEF KInv
<1> QED BY <1>1, BufferInvariant, PTL

\* head, tail and count agree whatever the number of turns round the array.
THEOREM IndicesAlwaysAgree == Spec => []IndicesAgree
<1>1. KInv => IndicesAgree
  BY DEF KInv
<1> QED BY <1>1, BufferInvariant, PTL

\* What is read is what was typed, in order, and the rest is in the buffer.
THEOREM NothingLostOrReordered == Spec => []FifoOrder
<1>1. KInv => FifoOrder
  BY DEF KInv
<1> QED BY <1>1, BufferInvariant, PTL

\* sys_read comes back short only from an empty buffer.
THEOREM ShortReads == Spec => ShortReadMeansEmpty
<1> DEFINE A == reading /\ ~reading' => ret' = maxchars \/ count' = 0
<1>1. KInv /\ [Next]_vars => [A]_vars
  <2> SUFFICES ASSUME KInv, [Next]_vars, reading, ~reading'
      PROVE  ret' = maxchars \/ count' = 0
    BY DEF A
  <2>1. CASE KeyboardInterrupt
    BY <2>1 DEF KeyboardInterrupt, keyboard_routine
  <2>2. CASE SysRead
    <3>1. ReadReturn
      BY <2>2 DEF SysRead, ReadCall, ReadChar
    <3>2. i \in Int /\ maxchars \in Int /\ i <= maxchars
      BY KeyboardAssumption DEF KInv, TypeOK
    <3> QED BY <3>1, <3>2 DEF ReadReturn, circularBufferIsEmpty
  <2>3. CASE UNCHANGED vars
    BY <2>3 DEF vars
  <2> QED BY <2>1, <2>2, <2>3 DEF Next
<1>2. Spec => [][A]_vars
  BY <1>1, BufferInvariant, PTL DEF Spec
<1> QED BY <1>2 DEF ShortReadMeansEmpty, A

\* A key is dropped only by a full buffer.
THEOREM Drops == Spec => []DropsOnlyWhenFull
<1>1. KInv => DropsOnlyWhenFull
  BY DEF KInv
<1> QED BY <1>1, BufferInvariant, PTL

-----------------------------------------------------------------------------
(* The buffer implements the bounded queue.                                *)

contents == [n \in 1 .. count |-> data[cell(n)]]

\* Two sequences of the same length and elements are the same.
LEMMA SameSequence ==
    ASSUME NEW S, NEW s \in Seq(S), NEW t \in Seq(S), Len(s) = Len(t),
           \A n \in 1 .. Len(s) : s[n] = t[n]
    PROVE  s = t
OBVIOUS

LEMMA Contents ==
    ASSUME KInv
    PROVE  /\ contents \in Seq(Chars) /\ Len(contents) = count
           /\ count \in 0 .. BUFFER_SIZE
           /\ \A n \in 1 .. count : contents[n] = data[cell(n)]
<1>1. /\ BUFFER_SIZE \in Nat \ {0} /\ head \in 0 .. BUFFER_SIZE - 1
      /\ \A n \in 1 .. BUFFER_SIZE : cell(n) = Ring(BUFFER_SIZE, head, n - 1)
  BY Cells
<1>2. count \in 0 .. BUFFER_SIZE /\ data \in [0 .. BUFFER_SIZE - 1 -> Chars]
  BY DEF KInv, TypeOK, Index
<1>3. ASSUME NEW n \in 1 .. count PROVE data[cell(n)] \in Chars
  <2>1. n - 1 \in 0 .. BUFFER_SIZE /\ n \in 1 .. BUFFER_SIZE
    BY <1>1, <1>2
  <2>2. cell(n) \in 0 .. BUFFER_SIZE - 1
    <3>1. Ring(BUFFER_SIZE, head, n - 1) \in 0 .. BUFFER_SIZE - 1
      BY <1>1, <2>1, RingPlace
    <3> QED BY <1>1, <2>1, <3>1
  <2> QED BY <1>2, <2>2
<1> QED BY <1>1, <1>2, <1>3 DEF contents

\* An accepted character is a Put of the queue.
LEMMA PutStep ==
    ASSUME KInv, NEW c \in Chars, circularBufferEnqueue(c), count # BUFFER_SIZE,
           KInv'
    PROVE  contents' = Append(contents, c) /\ Len(contents) < BUFFER_SIZE
<1>1. /\ count' = count + 1
      /\ \A n \in 1 .. count' : cell(n)' = cell(n)
      /\ \A n \in 1 .. count : data'[cell(n)] = data[cell(n)]
      /\ data'[cell(count')] = c
  BY EnqueueCells
<1>2. /\ contents \in Seq(Chars) /\ Len(contents) = count
      /\ count \in 0 .. BUFFER_SIZE
      /\ \A n \in 1 .. count : contents[n] = data[cell(n)]
  BY Contents
<1>3. /\ contents' = [n \in 1 .. count' |-> data'[cell(n)']]
  BY DEF contents
<1>4. contents' \in Seq(Chars) /\ Len(contents') = count + 1
  <2>1. BUFFER_SIZE' = BUFFER_SIZE /\ Chars' = Chars
    OBVIOUS
  <2>2. (contents \in Seq(Chars) /\ Len(contents) = count)'
    BY Contents, PTL
  <2> QED BY <1>1, <2>2
<1>5. Append(contents, c) \in Seq(Chars) /\ Len(Append(contents, c)) = count + 1
  BY <1>2
<1>6. ASSUME NEW n \in 1 .. count + 1 PROVE contents'[n] = Append(contents, c)[n]
  <2>1. contents'[n] = data'[cell(n)]
    BY <1>1, <1>3
  <2>2. CASE n = count + 1
    BY <1>1, <1>2, <2>1, <2>2
  <2>3. CASE n # count + 1
    <3>1. n \in 1 .. count
      BY <1>2, <2>3
    <3>2. Append(contents, c)[n] = contents[n]
      BY <1>2, <3>1
    <3> QED BY <1>1, <1>2, <2>1, <3>1, <3>2
  <2> QED BY <2>2, <2>3
<1>7. contents' = Append(contents, c)
  BY <1>4, <1>5, <1>6, SameSequence
<1>8. count < BUFFER_SIZE
  BY <1>2, KeyboardAssumption
<1> QED BY <1>2, <1>7, <1>8

\* A character read is a Get of the queue.
LEMMA GetStep ==
    ASSUME KInv, circularBufferDequeue, KInv'
    PROVE  /\ contents # <<>> /\ taken' = Append(taken, Head(contents))
           /\ contents' = Tail(contents)
<1>1. /\ count \in 1 .. BUFFER_SIZE /\ count' = count - 1
      /\ data' = data /\ taken' = Append(taken, data[cell(1)])
      /\ \A n \in 1 .. count' : cell(n)' = cell(n + 1)
  BY DequeueCells
<1>2. /\ contents \in Seq(Chars) /\ Len(contents) = count
      /\ \A n \in 1 .. count : contents[n] = data[cell(n)]
  BY Contents
<1>3. contents' = [n \in 1 .. count' |-> data'[cell(n)']]
  BY DEF contents
<1>4. contents' \in Seq(Chars) /\ Len(contents') = count - 1
  <2>1. (contents \in Seq(Chars) /\ Len(contents) = count)'
    BY Contents, PTL
  <2> QED BY <1>1, <2>1
<1>5. contents # <<>> /\ Head(contents) = data[cell(1)]
  BY <1>1, <1>2
<1>6. /\ Tail(contents) \in Seq(Chars) /\ Len(Tail(contents)) = count - 1
      /\ \A n \in 1 .. count - 1 : Tail(contents)[n] = contents[n + 1]
  BY <1>1, <1>2, <1>5
<1>7. ASSUME NEW n \in 1 .. count - 1 PROVE contents'[n] = Tail(contents)[n]
  <2>1. n + 1 \in 1 .. count
    BY <1>1
  <2>2. contents'[n] = data[cell(n + 1)]
    BY <1>1, <1>3
  <2> QED BY <1>2, <1>6, <2>1, <2>2
<1>8. contents' = Tail(contents)
  BY <1>4, <1>6, <1>7, SameSequence
<1> QED BY <1>1, <1>5, <1>8

LEMMA ContentsUnchanged == UNCHANGED <<data, head, count>> => UNCHANGED contents
BY DEF contents, cell

\* Every step of the keyboard is a step of the queue, or none.
LEMMA FifoStep == KInv /\ [Next]_vars /\ KInv' => [Fifo!Next]_(Fifo!vars)
<1> SUFFICES ASSUME KInv, [Next]_vars, KInv'
    PROVE  [Fifo!Next]_(Fifo!vars)
  OBVIOUS
<1>a. [Fifo!Next]_(Fifo!vars) <=>
        \/ /\ Len(contents) < BUFFER_SIZE
           /\ \E c \in Chars : contents' = Append(contents, c)
           /\ UNCHANGED taken
        \/ /\ contents # <<>>
           /\ taken' = Append(taken, Head(contents))
           /\ contents' = Tail(contents)
        \/ UNCHANGED <<contents, taken>>
  BY DEF Fifo!Next, Fifo!Put, Fifo!Get, Fifo!vars, contents
<1>b. UNCHANGED <<data, head, count, taken>> => UNCHANGED <<contents, taken>>
  BY ContentsUnchanged
<1>1. CASE KeyboardInterrupt
  <2>1. PICK released \in BOOLEAN, code \in Codes : keyboard_routine(released, code)
    BY <1>1 DEF KeyboardInterrupt
  <2>2. /\ UNCHANGED taken
        /\ \/ UNCHANGED <<data, head, tail, count, typed>>
           \/ \E c \in Chars : circularBufferEnqueue(c) /\ count # BUFFER_SIZE
    BY <2>1, InterruptCases
  <2>3. ASSUME NEW c \in Chars, circularBufferEnqueue(c), count # BUFFER_SIZE
        PROVE  [Fifo!Next]_(Fifo!vars)
    <3>1. contents' = Append(contents, c) /\ Len(contents) < BUFFER_SIZE
      BY <2>3, PutStep
    <3> QED BY <1>a, <2>2, <3>1
  <2> QED BY <1>a, <1>b, <2>2, <2>3
<1>2. CASE SysRead
  <2>1. CASE ReadChar
    <3>1. circularBufferDequeue
      BY <2>1 DEF ReadChar
    <3> QED BY <1>a, <3>1, GetStep
  <2>2. CASE UNCHANGED <<data, head, count, taken>>
    BY <1>a, <1>b, <2>2
  <2> QED BY <1>2, <2>1, <2>2 DEF SysRead, ReadCall, ReadReturn
<1>3. CASE UNCHANGED vars
  BY <1>a, <1>b, <1>3 DEF vars
<1> QED BY <1>1, <1>2, <1>3 DEF Next

\* The circular buffer, with its indices and its wrap-around, implements a
\* bounded first-in first-out queue that drops what does not fit.
THEOREM Refinement == Spec => ImplementsFifo
<1>1. Init => Fifo!Init
  <2> SUFFICES ASSUME Init PROVE Fifo!Init
    OBVIOUS
  <2>1. contents = <<>>
    BY DEF Init, contents
  <2> QED BY <2>1 DEF Init, Fifo!Init, contents
<1>2. KInv /\ [Next]_vars /\ KInv' => [Fifo!Next]_(Fifo!vars)
  BY FifoStep
<1> QED BY <1>1, <1>2, BufferInvariant, PTL DEF Spec, ImplementsFifo, Fifo!Spec
=============================================================================
