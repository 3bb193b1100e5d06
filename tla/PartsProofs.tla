---------------------------- MODULE PartsProofs -----------------------------
(***************************************************************************)
(* Theorems about the parts that keep to themselves.  The double division  *)
(* of get_ticks is exact, and the charges add up, for every word size,     *)
(* divisor and counter; no pointer leads a system call to the memory of    *)
(* the kernel, and no buffer in the data of the program is refused, for    *)
(* every word size and layout; image, boot sector and main bring files of  *)
(* every size to where they were linked; the first delivery reaches its    *)
(* program with a sound address space, for every layout; and both consoles *)
(* implement a terminal, for every screen, buffer and text.                *)
(***************************************************************************)
EXTENDS Ticks, FirstDelivery, Boot, SequenceTheorems, WellFoundedInduction, TLAPS

-----------------------------------------------------------------------------
(* Ticks.                                                                  *)

\* Quotient and rest of a division by a positive number.
LEMMA DivMod ==
    ASSUME NEW n \in Int, NEW b \in Nat \ {0}
    PROVE  n \div b \in Int /\ n % b \in 0 .. b - 1 /\ n = (b * (n \div b)) + (n % b)
  OBVIOUS

\* They are the only ones.
LEMMA DivModUnique ==
    ASSUME NEW b \in Nat \ {0}, NEW q \in Int, NEW r \in 0 .. b - 1
    PROVE  ((b * q) + r) \div b = q /\ ((b * q) + r) % b = r
  OBVIOUS

\* A quotient is not negative, and not larger than what the dividend allows.
LEMMA DivBounds ==
    ASSUME NEW n \in Nat, NEW b \in Nat \ {0}, NEW k \in Nat, n < b * k
    PROVE  n \div b \in 0 .. k - 1
  <1> DEFINE q == n \div b
             r == n % b
  <1>1. q \in Int /\ r \in 0 .. b - 1 /\ n = (b * q) + r  BY DivMod
  <1> HIDE DEF q, r
  <1>2. q >= 0
    <2> SUFFICES ASSUME q <= -1 PROVE FALSE  BY <1>1
    <2>1. b * q <= b * (-1)  BY <1>1
    <2> QED  BY <1>1, <2>1
  <1>3. q < k
    <2> SUFFICES ASSUME q >= k PROVE FALSE  BY <1>1
    <2>1. b * q >= b * k  BY <1>1
    <2> QED  BY <1>1, <2>1
  <1> QED  BY <1>1, <1>2, <1>3 DEF q

\* The division of a double word h * W + l by b in two.
LEMMA TwoDivisions ==
    ASSUME NEW w \in Nat \ {0}, NEW h \in Nat, NEW l \in 0 .. w - 1, NEW b \in Nat \ {0}
    PROVE  LET low == (((h % b) * w) + l) \div b
               rest == (((h % b) * w) + l) % b
           IN  /\ low \in 0 .. w - 1
               /\ ((h * w) + l) \div b = ((h \div b) * w) + low
               /\ ((h * w) + l) % b = rest
  <1> DEFINE u == h % b
             q == h \div b
             m == (u * w) + l
             low == m \div b
             rest == m % b
  <1>1. u \in 0 .. b - 1 /\ q \in Int /\ h = (b * q) + u  BY DivMod
  <1>2. m \in Nat /\ m < b * w
    <2> HIDE DEF u
    <2>1. u * w \in Nat /\ u * w <= (b - 1) * w  BY <1>1
    <2>2. (b - 1) * w = (b * w) - w  OBVIOUS
    <2>3. b * w \in Nat  OBVIOUS
    <2> QED  BY <2>1, <2>2, <2>3
  <1>3. low \in 0 .. w - 1
    <2> HIDE DEF m
    <2> QED  BY <1>2, DivBounds
  <1>4. rest \in 0 .. b - 1 /\ m = (b * low) + rest
    <2> HIDE DEF m
    <2> QED  BY <1>2, DivMod
  <1>5. (h * w) + l = (b * ((q * w) + low)) + rest
    <2> HIDE DEF u, q, low, rest
    <2>1. h * w = (b * (q * w)) + (u * w)  BY <1>1
    <2>2. b * ((q * w) + low) = (b * (q * w)) + (b * low)  BY <1>1, <1>3
    <2> QED  BY <1>1, <1>3, <1>4, <2>1, <2>2
  <1>6. (q * w) + low \in Int  BY <1>1, <1>3
  <1>7. (h * w) + l \in Int  OBVIOUS
  <1> HIDE DEF low, rest, q
  <1>8. /\ ((b * ((q * w) + low)) + rest) \div b = (q * w) + low
        /\ ((b * ((q * w) + low)) + rest) % b = rest
    BY <1>4, <1>6, DivModUnique
  <1> QED  BY <1>3, <1>5, <1>8 DEF low, rest, q

-----------------------------------------------------------------------------
\* The counter stays in a double word, and the history in order.
TypeInv == tsc \in 0 .. (W * W) - 1 /\ start \in 0 .. tsc

\* A reading of the counter: the division is exact, for every counter.
LEMMA ReadingExact ==
    ASSUME NEW c \in 0 .. (W * W) - 1
    PROVE  LET d == do_div(c \div W, c % W, CYCLESPERTICK)
           IN  /\ d.low \in 0 .. W - 1
               /\ (d.high * W) + d.low = ticks(c)
               /\ d.rest = c % CYCLESPERTICK
               /\ d.high \in Int
  <1> USE TicksAssumption
  <1> DEFINE h == c \div W
             l == c % W
             d == do_div(h, l, CYCLESPERTICK)
  <1>0. W * W \in Nat  OBVIOUS
  <1>1. h \in Nat /\ l \in 0 .. W - 1 /\ c = (h * W) + l
    <2>1. c < W * W /\ c \in Nat  BY <1>0
    <2>2. h \in 0 .. W - 1  BY <2>1, DivBounds
    <2> QED  BY <2>1, <2>2, DivMod
  <1> HIDE DEF h, l
  <1>2. (IF h # 0 THEN h % CYCLESPERTICK ELSE h) = h % CYCLESPERTICK
    <2>1. CASE h = 0
      <3>1. ((CYCLESPERTICK * 0) + 0) % CYCLESPERTICK = 0  BY DivModUnique
      <3> QED  BY <2>1, <3>1
    <2> QED  BY <2>1
  <1>3. (IF h # 0 THEN h \div CYCLESPERTICK ELSE h) = h \div CYCLESPERTICK
    <2>1. CASE h = 0
      <3>1. ((CYCLESPERTICK * 0) + 0) \div CYCLESPERTICK = 0  BY DivModUnique
      <3> QED  BY <2>1, <3>1
    <2> QED  BY <2>1
  <1>4. /\ d.high = h \div CYCLESPERTICK
        /\ d.low = (((h % CYCLESPERTICK) * W) + l) \div CYCLESPERTICK
        /\ d.rest = (((h % CYCLESPERTICK) * W) + l) % CYCLESPERTICK
    BY <1>2, <1>3 DEF do_div, divl
  <1>5. /\ (((h % CYCLESPERTICK) * W) + l) \div CYCLESPERTICK \in 0 .. W - 1
        /\ ((h * W) + l) \div CYCLESPERTICK =
              ((h \div CYCLESPERTICK) * W) + ((((h % CYCLESPERTICK) * W) + l) \div CYCLESPERTICK)
        /\ ((h * W) + l) % CYCLESPERTICK =
              (((h % CYCLESPERTICK) * W) + l) % CYCLESPERTICK
    <2>1. W \in Nat \ {0} /\ CYCLESPERTICK \in Nat \ {0}  OBVIOUS
    <2> QED  BY <1>1, <2>1, TwoDivisions
  <1>6. h \div CYCLESPERTICK \in Int  BY <1>1, DivMod
  <1> HIDE DEF d
  <1>7. /\ d.low \in 0 .. W - 1 /\ (d.high * W) + d.low = ticks(c)
        /\ d.rest = c % CYCLESPERTICK /\ d.high \in Int
    BY <1>1, <1>4, <1>5, <1>6 DEF ticks
  <1> QED  BY <1>7 DEF d, h, l

\* get_ticks is the number of ticks of the counter, in a word.
LEMMA ReadingInWord ==
    ASSUME NEW c \in 0 .. (W * W) - 1
    PROVE  get_ticks(c) = ticks(c) % W /\ get_ticks(c) \in 0 .. W - 1 /\ ticks(c) \in Int
  <1> USE TicksAssumption
  <1> DEFINE d == do_div(c \div W, c % W, CYCLESPERTICK)
  <1>1. /\ d.low \in 0 .. W - 1 /\ (d.high * W) + d.low = ticks(c) /\ d.high \in Int
    BY ReadingExact
  <1>2. get_ticks(c) = d.low  BY DEF get_ticks
  <1> HIDE DEF d
  <1>3. ((W * d.high) + d.low) % W = d.low  BY <1>1, DivModUnique
  <1>4. W * d.high = d.high * W  BY <1>1
  <1> QED  BY <1>1, <1>2, <1>3, <1>4

LEMMA TypeCorrect == Spec => []TypeInv
  <1> USE TicksAssumption DEF TypeInv
  <1>0. W * W \in Nat  OBVIOUS
  <1>1. Init => TypeInv  BY <1>0 DEF Init
  <1>2. TypeInv /\ [Next]_vars => TypeInv'
    BY <1>0 DEF Next, Cycles, Charge, vars
  <1> QED  BY <1>1, <1>2, PTL DEF Spec

\* Whatever the counter, the two divisions of do_div are the division of
\* the double word and the second one does not overflow.
THEOREM DivisionExact == Spec => []Exact
  <1>1. TypeInv => Exact
    <2> SUFFICES ASSUME TypeInv PROVE Exact  OBVIOUS
    <2> QED  BY ReadingExact DEF TypeInv, Exact
  <1> QED  BY <1>1, TypeCorrect, PTL

-----------------------------------------------------------------------------
\* Words wrap: a number and another that differs by some words are the same.
LEMMA ModShift ==
    ASSUME NEW a \in Int, NEW k \in Int, NEW w \in Nat \ {0}
    PROVE  (a + (w * k)) % w = a % w
  <1> DEFINE q == a \div w
             r == a % w
  <1>1. q \in Int /\ r \in 0 .. w - 1 /\ a = (w * q) + r  BY DivMod
  <1> HIDE DEF q, r
  <1>2. a + (w * k) = (w * (q + k)) + r  BY <1>1
  <1>3. ((w * (q + k)) + r) % w = r  BY <1>1, DivModUnique
  <1> QED  BY <1>2, <1>3 DEF r

\* A charge: differences of wrapped readings add up to the wrapped difference.
LEMMA Telescope ==
    ASSUME NEW w \in Nat \ {0}, NEW t0 \in Int, NEW t1 \in Int, NEW t2 \in Int
    PROVE  ((((t1 - t0) % w) + (t2 % w)) - (t1 % w)) % w = (t2 - t0) % w
  <1> DEFINE k0 == (t1 - t0) \div w
             k1 == t1 \div w
             k2 == t2 \div w
             r0 == (t1 - t0) % w
             r1 == t1 % w
             r2 == t2 % w
             k == (k1 - k0) - k2
  <1>1. k0 \in Int /\ r0 \in Int /\ t1 - t0 = (w * k0) + r0  BY DivMod
  <1>2. k1 \in Int /\ r1 \in Int /\ t1 = (w * k1) + r1  BY DivMod
  <1>3. k2 \in Int /\ r2 \in Int /\ t2 = (w * k2) + r2  BY DivMod
  <1> HIDE DEF k0, k1, k2, r0, r1, r2
  <1>4. (r0 + r2) - r1 = (t2 - t0) + (w * k)
    <2>1. w * k = ((w * k1) - (w * k0)) - (w * k2)  BY <1>1, <1>2, <1>3
    <2> DEFINE a0 == w * k0
               a1 == w * k1
               a2 == w * k2
    <2>2. a0 \in Int /\ a1 \in Int /\ a2 \in Int  BY <1>1, <1>2, <1>3
    <2>3. t1 - t0 = a0 + r0 /\ t1 = a1 + r1 /\ t2 = a2 + r2 /\ w * k = (a1 - a0) - a2
      BY <1>1, <1>2, <1>3, <2>1
    <2>4. r0 \in Int /\ r1 \in Int /\ r2 \in Int  BY <1>1, <1>2, <1>3
    <2> HIDE DEF k, a0, a1, a2
    <2>5. (r0 + r2) - r1 = (t2 - t0) + ((a1 - a0) - a2)  BY <2>2, <2>3, <2>4
    <2> QED  BY <2>3, <2>5
  <1>5. k \in Int /\ t2 - t0 \in Int  BY <1>1, <1>2, <1>3
  <1> HIDE DEF k
  <1>6. ((t2 - t0) + (w * k)) % w = (t2 - t0) % w  BY <1>5, ModShift
  <1> QED  BY <1>4, <1>6 DEF r0, r1, r2

\* The time charged to a process is the time that went by, however often the
\* readings wrap.
THEOREM ChargesCorrect == Spec => []ChargesAddUp
  <1> USE TicksAssumption
  <1>0. W * W \in Nat  OBVIOUS
  <1>1. Init => ChargesAddUp
    <2> SUFFICES ASSUME Init PROVE ChargesAddUp  OBVIOUS
    <2>1. tsc \in 0 .. (W * W) - 1 /\ start = tsc  BY DEF Init
    <2>2. /\ elapsed_total_ticks = ticks(tsc) % W
          /\ elapsed_total_ticks \in 0 .. W - 1 /\ ticks(tsc) \in Int
      BY <2>1, ReadingInWord DEF Init
    <2>3. (ticks(tsc) - ticks(start)) % W = 0
      <3>1. ((W * 0) + 0) % W = 0  BY DivModUnique
      <3>2. ticks(tsc) - ticks(start) = 0  BY <2>1, <2>2
      <3> QED  BY <3>1, <3>2
    <2>4. charged = 0  BY DEF Init
    <2>5. tsc \in start .. tsc  BY <1>0, <2>1
    <2> QED  BY <2>1, <2>2, <2>3, <2>4, <2>5 DEF ChargesAddUp
  <1>2. TypeInv /\ ChargesAddUp /\ [Next]_vars => ChargesAddUp'
    <2> SUFFICES ASSUME TypeInv, ChargesAddUp, [Next]_vars PROVE ChargesAddUp'
      OBVIOUS
    <2>0. tsc \in 0 .. (W * W) - 1 /\ start \in 0 .. tsc  BY DEF TypeInv
    <2>1. PICK t \in start .. tsc : /\ elapsed_total_ticks = ticks(t) % W
                                    /\ charged = (ticks(t) - ticks(start)) % W
      BY DEF ChargesAddUp
    <2>2. CASE Charge
      <3>1. /\ get_ticks(tsc) = ticks(tsc) % W /\ get_ticks(tsc) \in 0 .. W - 1
            /\ ticks(tsc) \in Int
        BY <2>0, ReadingInWord
      <3>2. ticks(t) \in Int /\ ticks(start) \in Int
        BY <1>0, <2>0, <2>1, ReadingInWord
      <3>3. charged' = ((((ticks(t) - ticks(start)) % W) + (ticks(tsc) % W))
                           - (ticks(t) % W)) % W
        BY <2>1, <2>2, <3>1 DEF Charge
      <3>4. charged' = (ticks(tsc) - ticks(start)) % W
        BY <3>1, <3>2, <3>3, Telescope
      <3>5. tsc' = tsc /\ start' = start /\ elapsed_total_ticks' = get_ticks(tsc)
        BY <2>2 DEF Charge
      <3>6. tsc \in start .. tsc  BY <1>0, <2>0
      <3> QED  BY <3>1, <3>4, <3>5, <3>6 DEF ChargesAddUp, ticks
    <2>3. CASE \E n \in Steps : Cycles(n)
      <3>1. /\ tsc' >= tsc /\ tsc' \in Int /\ start' = start
            /\ charged' = charged /\ elapsed_total_ticks' = elapsed_total_ticks
        BY <1>0, <2>0, <2>3 DEF Cycles
      <3>2. t \in start .. tsc'  BY <1>0, <2>0, <2>1, <3>1
      <3>3. elapsed_total_ticks \in 0 .. W - 1  BY DEF ChargesAddUp
      <3> QED  BY <2>1, <3>1, <3>2, <3>3 DEF ChargesAddUp, ticks
    <2>4. CASE UNCHANGED vars
      BY <2>1, <2>4 DEF ChargesAddUp, vars, ticks
    <2> QED  BY <2>2, <2>3, <2>4 DEF Next
  <1> QED  BY <1>1, <1>2, TypeCorrect, PTL DEF Spec

-----------------------------------------------------------------------------
(* UserMemory.                                                             *)

LEMMA PointerTypes ==
    /\ PAGE_SIZE \in Nat \ {0} /\ USER_FIRST_PAGE \in Nat \ {0}
    /\ Words \in Nat \ {0} /\ 2 * PAGE_SIZE <= Words
    /\ TOTAL_PAGES \in Nat /\ NUM_PAG_CODE \in Nat /\ NUM_PAG_DATA \in Nat
    /\ \A n \in Sizes : n \in Int /\ -Words <= 2 * n /\ 2 * n < Words
    /\ BUFFER_SIZE \in Nat /\ 2 * BUFFER_SIZE <= Words
  BY PointersAssumption

\* A later address is in the same page or a later one,
LEMMA DivMonotone ==
    ASSUME NEW a \in Int, NEW b \in Int, a <= b, NEW k \in Nat \ {0}
    PROVE  a \div k \in Int /\ b \div k \in Int /\ a \div k <= b \div k
  <1> DEFINE q == a \div k
             r == a % k
             p == b \div k
             s == b % k
  <1>1. q \in Int /\ r \in 0 .. k - 1 /\ a = (k * q) + r  BY DivMod
  <1>2. p \in Int /\ s \in 0 .. k - 1 /\ b = (k * p) + s  BY DivMod
  <1> HIDE DEF q, r, p, s
  <1>3. q <= p
    <2> SUFFICES ASSUME q >= p + 1 PROVE FALSE  BY <1>1, <1>2
    <2>1. k * q >= k * (p + 1)  BY <1>1, <1>2
    <2>2. k * (p + 1) = (k * p) + k  BY <1>2
    <2> QED  BY <1>1, <1>2, <2>1, <2>2
  <1> QED  BY <1>1, <1>2, <1>3 DEF q, p

\* and the one after it at most in the next page.
LEMMA DivNext ==
    ASSUME NEW a \in Int, NEW k \in Nat \ {0}
    PROVE  (a + 1) \div k <= (a \div k) + 1
  <1> DEFINE q == a \div k
             r == a % k
  <1>1. q \in Int /\ r \in 0 .. k - 1 /\ a = (k * q) + r  BY DivMod
  <1>2. ((k * (q + 1)) + 0) \div k = q + 1
    <2> HIDE DEF q
    <2> QED  BY <1>1, DivModUnique
  <1> HIDE DEF q, r
  <1>3. a + 1 <= (k * (q + 1)) + 0
    <2>1. k * (q + 1) = (k * q) + k  BY <1>1
    <2>2. k * q \in Int  BY <1>1
    <2> QED  BY <1>1, <2>1, <2>2
  <1>4. k * (q + 1) \in Int  BY <1>1
  <1>5. (a + 1) \div k <= ((k * (q + 1)) + 0) \div k  BY <1>3, <1>4, DivMonotone
  <1> QED  BY <1>2, <1>5 DEF q

\* A page below another ends before it begins.
LEMMA DivBelow ==
    ASSUME NEW a \in Int, NEW k \in Nat \ {0}, NEW m \in Int, a \div k < m
    PROVE  a < m * k
  <1> DEFINE q == a \div k
             r == a % k
  <1>1. q \in Int /\ r \in 0 .. k - 1 /\ a = (k * q) + r  BY DivMod
  <1> HIDE DEF q, r
  <1>2. q <= m - 1  BY <1>1 DEF q
  <1>3. k * q <= k * (m - 1)  BY <1>1, <1>2
  <1>4. k * (m - 1) = (m * k) - k  OBVIOUS
  <1>5. m * k \in Int /\ k * q \in Int  BY <1>1
  <1> QED  BY <1>1, <1>3, <1>4, <1>5

\* The words and bytes of a copy are those of the block.
LEMMA CopiedIsBlock ==
    ASSUME NEW addr \in Int, NEW size \in Nat
    PROVE  copied(addr, size) \subseteq {unsigned(a) : a \in addr .. addr + size - 1}
  <1> DEFINE words == IF size > 4 THEN (size - 1) \div 4 ELSE 0
             bytes == size - 4 * words
  <1>1. words \in Nat /\ bytes \in Nat
    OBVIOUS
  <1> HIDE DEF words
  <1>2. /\ addr .. addr + 4 * words - 1 \subseteq addr .. addr + size - 1
        /\ addr + 4 * words .. addr + 4 * words + bytes - 1 \subseteq addr .. addr + size - 1
    BY <1>1
  <1> QED  BY <1>2 DEF copied, words

\* A word as such is the number itself, and one that wraps is less by one
\* round.
LEMMA Unsigned ==
    ASSUME NEW n \in Int
    PROVE  /\ n \in 0 .. Words - 1 => unsigned(n) = n
           /\ n \in Words .. Words + Words - 1 => unsigned(n) = n - Words
  <1> USE PointerTypes
  <1>1. Words \in Nat \ {0}  OBVIOUS
  <1>2. ASSUME n \in 0 .. Words - 1 PROVE unsigned(n) = n
    <2>1. ((Words * 0) + n) % Words = n  BY <1>1, <1>2, DivModUnique
    <2> QED  BY <2>1 DEF unsigned
  <1>3. ASSUME n \in Words .. Words + Words - 1 PROVE unsigned(n) = n - Words
    <2>1. n - Words \in 0 .. Words - 1  BY <1>1, <1>3
    <2>2. ((Words * 1) + (n - Words)) % Words = n - Words
      BY <1>1, <2>1, DivModUnique
    <2>3. (Words * 1) + (n - Words) = n  BY <1>1
    <2> QED  BY <2>2, <2>3 DEF unsigned
  <1> QED  BY <1>2, <1>3

\* A block of less than half the words that access_ok lets begin in the user
\* pages does not wrap around the end of the address space.
LEMMA NoWrap ==
    ASSUME NEW addr \in 0 .. Words - 1, NEW size \in Nat, 2 * size <= Words,
           page(addr) >= USER_FIRST_PAGE, page(unsigned(addr + size)) >= page(addr)
    PROVE  \A a \in addr .. addr + size - 1 : page(unsigned(a)) >= USER_FIRST_PAGE
  <1> USE PointerTypes
  <1>1. Words \in Nat \ {0} /\ addr \in Int /\ PAGE_SIZE \in Nat \ {0}
    OBVIOUS
  <1>2. CASE addr + size <= Words
    <2> SUFFICES ASSUME NEW a \in addr .. addr + size - 1
                 PROVE  page(unsigned(a)) >= USER_FIRST_PAGE
      OBVIOUS
    <2>1. a \in 0 .. Words - 1 /\ addr <= a /\ a \in Int  BY <1>1, <1>2
    <2>2. unsigned(a) = a  BY <2>1, Unsigned
    <2>3. page(addr) \in Int /\ page(a) \in Int /\ page(addr) <= page(a)
      BY <1>1, <2>1, DivMonotone DEF page
    <2> QED  BY <2>2, <2>3
  <1>3. CASE addr + size > Words
    <2>1. addr + size \in Words .. Words + Words - 1  BY <1>1, <1>3
    <2>2. unsigned(addr + size) = (addr + size) - Words  BY <2>1, Unsigned
    <2> DEFINE e == (addr + size) - Words
               q == addr \div PAGE_SIZE
               p == e \div PAGE_SIZE
    <2>3. e \in Int /\ q \in Int /\ p \in Int
      BY <1>1, DivMod
    <2>4. q <= p  BY <2>2 DEF page
    <2>5. addr - e >= PAGE_SIZE  BY <1>1
    <2>6. addr = (PAGE_SIZE * q) + (addr % PAGE_SIZE) /\ addr % PAGE_SIZE \in 0 .. PAGE_SIZE - 1
      BY <1>1, DivMod
    <2>7. e = (PAGE_SIZE * p) + (e % PAGE_SIZE) /\ e % PAGE_SIZE \in 0 .. PAGE_SIZE - 1
      BY <1>1, <2>3, DivMod
    <2> HIDE DEF e, q, p
    <2>8. PAGE_SIZE * q <= PAGE_SIZE * p  BY <2>3, <2>4
    <2>9. PAGE_SIZE * q \in Int /\ PAGE_SIZE * p \in Int  BY <2>3
    <2> QED  BY <1>1, <2>3, <2>5, <2>6, <2>7, <2>8, <2>9
  <1> QED  BY <1>1, <1>2, <1>3

\* What sys_write and sys_read of both deliveries ask for, at least.
LEMMA AcceptedBegins ==
    ASSUME NEW type, NEW addr \in 0 .. Words - 1, NEW size \in Int,
           accessible(type, addr, size)
    PROVE  /\ page(addr) >= USER_FIRST_PAGE
           /\ page(unsigned(addr + size)) >= page(addr)
  <1> USE PointerTypes
  <1>1. page(addr) \in Int
    BY DivMod DEF page
  <1> QED
    BY <1>1 DEF accessible, access_ok, access_ok_E2, shared_ok, FirstData, EndPage

\* A call that is granted touches no page below the user pages.
LEMMA GrantedAbove ==
    ASSUME NEW addr \in 0 .. Words - 1, NEW n \in Nat, 2 * n <= Words,
           NEW type, accessible(type, addr, n)
    PROVE  \A p \in {page(a) : a \in copied(addr, n)} : p >= USER_FIRST_PAGE
  <1>1. \A a \in addr .. addr + n - 1 : page(unsigned(a)) >= USER_FIRST_PAGE
    BY AcceptedBegins, NoWrap
  <1>2. addr \in Int  OBVIOUS
  <1> QED  BY <1>1, <1>2, CopiedIsBlock

\* No pointer and no size makes the kernel touch its own memory for a program
\* (access_ok, sys_write, sys_read).
THEOREM KernelNotReached == PointersSpec => []NeverKernel
  <1> USE PointerTypes
  <1>1. PointersInit => NeverKernel
    BY DEF PointersInit, NeverKernel, NoCall
  <1>2. NeverKernel /\ [PointersNext]_pointer_vars => NeverKernel'
    <2> SUFFICES ASSUME NeverKernel, [PointersNext]_pointer_vars, call'.ok
                 PROVE  \A p \in touched' : p >= USER_FIRST_PAGE
      BY DEF NeverKernel
    <2>1. ASSUME NEW addr \in 0 .. Words - 1, NEW n \in Sizes, SysWrite(addr, n)
          PROVE  \A p \in touched' : p >= USER_FIRST_PAGE
      <3>1. call'.addr = addr /\ call'.size = n /\ n >= 0
        BY <2>1 DEF SysWrite, answer
      <3>2. n \in Nat /\ 2 * n <= Words /\ unsigned(n) = n
        BY <3>1, Unsigned
      <3>3. \E type : accessible(type, addr, n)
        BY <2>1, <3>2 DEF SysWrite, answer
      <3> QED  BY <3>1, <3>2, <3>3, GrantedAbove DEF touched
    <2>2. ASSUME NEW addr \in 0 .. Words - 1, NEW n \in Sizes, SysRead(addr, n)
          PROVE  \A p \in touched' : p >= USER_FIRST_PAGE
      <3>1. call'.addr = addr /\ call'.size = n /\ n >= 0 /\ n < BUFFER_SIZE
        BY <2>2 DEF SysRead, answer
      <3>2. n \in Nat /\ 2 * n <= Words
        BY <3>1
      <3>3. accessible(WRITE, addr, n)
        BY <2>2 DEF SysRead, answer
      <3> QED  BY <3>1, <3>2, <3>3, GrantedAbove DEF touched
    <2>3. CASE UNCHANGED call
      BY <2>3 DEF NeverKernel, touched, copied, page, unsigned
    <2>4. CASE Answered
      BY <2>4 DEF Answered, NoCall
    <2> QED
      BY <2>1, <2>2, <2>3, <2>4 DEF PointersNext, Attach, StackChanges, pointer_vars
  <1> QED  BY <1>1, <1>2, PTL DEF PointersSpec

\* A block in the data of the program begins and ends where access_ok wants.
LEMMA BlockInData ==
    ASSUME NEW addr \in 0 .. Words - 1, NEW n \in Nat \ {0}, 2 * n <= Words,
           {page(a) : a \in block(addr, n)} \subseteq DataPages
    PROVE  /\ page(addr) >= FirstData
           /\ page(unsigned(addr + n)) >= page(addr)
           /\ page(unsigned(addr + n)) <= FirstData + NUM_PAG_DATA
           /\ page(addr) \in Int /\ page(unsigned(addr + n)) \in Int
  <1> USE PointerTypes
  <1>1. addr \in Int /\ addr \in addr .. addr + n - 1 /\ addr + n - 1 \in addr .. addr + n - 1
    OBVIOUS
  <1>2. FirstData \in Nat \ {0} /\ FirstData + NUM_PAG_DATA <= EndPage /\ EndPage \in Nat
    BY DEF FirstData, EndPage
  <1>3. \A a \in addr .. addr + n - 1 : page(unsigned(a)) \in FirstData .. FirstData + NUM_PAG_DATA - 1
    BY DEF block, DataPages
  <1>4. addr + n - 1 < Words
    <2> SUFFICES ASSUME addr + n - 1 >= Words PROVE FALSE  BY <1>1
    <2>1. Words \in addr .. addr + n - 1  BY <1>1
    <2>2. unsigned(Words) = 0
      <3>1. Words \in Int /\ Words \in Words .. Words + Words - 1  OBVIOUS
      <3> QED  BY <3>1, Unsigned
    <2>3. page(0) = 0
      <3>1. ((PAGE_SIZE * 0) + 0) \div PAGE_SIZE = 0
        <4>1. PAGE_SIZE \in Nat \ {0} /\ 0 \in 0 .. PAGE_SIZE - 1  OBVIOUS
        <4> QED  BY <4>1, DivModUnique
      <3> QED  BY <3>1 DEF page
    <2> QED  BY <1>2, <1>3, <2>1, <2>2, <2>3
  <1> DEFINE e == addr + n - 1
  <1>5. e \in 0 .. Words - 1 /\ e \in Int  BY <1>1, <1>4
  <1>6. unsigned(addr) = addr /\ unsigned(e) = e
    BY <1>1, <1>5, Unsigned
  <1>7. page(addr) >= FirstData /\ page(e) <= FirstData + NUM_PAG_DATA - 1
        /\ page(addr) \in Int /\ page(e) \in Int
    BY <1>1, <1>2, <1>3, <1>6
  <1>8. e + 1 \in 0 .. Words - 1
    <2>1. e \div PAGE_SIZE < EndPage  BY <1>2, <1>7 DEF page
    <2> HIDE DEF e
    <2>2. e < EndPage * PAGE_SIZE  BY <1>2, <1>5, <2>1, DivBelow
    <2>3. EndPage * PAGE_SIZE < Words /\ EndPage * PAGE_SIZE \in Int
      BY <1>2, PointersAssumption DEF EndPage
    <2> QED  BY <1>5, <2>2, <2>3
  <1>9. addr + n = e + 1  BY <1>1
  <1>10. unsigned(addr + n) = e + 1  BY <1>5, <1>8, <1>9, Unsigned
  <1> HIDE DEF e
  <1>11. page(e + 1) <= page(e) + 1 /\ page(e + 1) \in Int
    BY <1>5, DivNext, DivMod DEF page
  <1>12. page(addr) <= page(e + 1)
    <2>1. addr <= e + 1  BY <1>5, <1>9
    <2> QED  BY <1>1, <1>5, <2>1, DivMonotone DEF page
  <1> QED  BY <1>2, <1>7, <1>10, <1>11, <1>12

\* A buffer in the data of the program is never refused (access_ok and the
\* tests before it in sys_write and sys_read).
THEOREM DataNotRefused == PointersSpec => []DataAccepted
  <1> USE PointerTypes
  <1>1. PointersInit => DataAccepted
    BY DEF PointersInit, DataAccepted
  <1>2. DataAccepted /\ [PointersNext]_pointer_vars => DataAccepted'
    <2> SUFFICES ASSUME DataAccepted, [PointersNext]_pointer_vars  PROVE DataAccepted'
      OBVIOUS
    <2>0. delivery' = delivery
      BY DEF PointersNext, SysWrite, SysRead, Answered, Attach, StackChanges, pointer_vars
    <2>1. DataPages' = DataPages
      BY <2>0 DEF DataPages, FirstData, Shared
    <2>2. ASSUME NEW addr \in 0 .. Words - 1, NEW n \in Sizes,
                 SysWrite(addr, n) \/ SysRead(addr, n), n \in 1 .. BUFFER_SIZE - 1,
                 {page(a) : a \in block(addr, n)} \subseteq DataPages
          PROVE  call'.ok
      <3>1. n \in Nat \ {0} /\ 2 * n <= Words /\ unsigned(n) = n
        BY <2>2, Unsigned
      <3>2. /\ page(addr) >= FirstData
            /\ page(unsigned(addr + n)) >= page(addr)
            /\ page(unsigned(addr + n)) <= FirstData + NUM_PAG_DATA
            /\ page(addr) \in Int /\ page(unsigned(addr + n)) \in Int
        BY <2>2, <3>1, BlockInData
      <3>3. Shared => access_ok(READ, addr, n) /\ access_ok(WRITE, addr, n)
        BY <3>2 DEF access_ok, FirstData, EndPage
      <3>4. ~Shared => access_ok_E2(WRITE, addr, n)
        BY <3>2 DEF access_ok_E2, FirstData
      <3>5. accessible(WRITE, addr, n) /\ (Shared => accessible(READ, addr, n))
        BY <3>3, <3>4 DEF accessible
      <3>6. CASE SysWrite(addr, n)
        <4>1. call'.ok = (IF Shared THEN n >= 0 /\ accessible(READ, addr, unsigned(n))
                          ELSE accessible(WRITE, addr, unsigned(n)) /\ n >= 0)
          BY <3>6 DEF SysWrite, answer
        <4>2. n >= 0  BY <3>1
        <4>3. IF Shared THEN n >= 0 /\ accessible(READ, addr, unsigned(n))
              ELSE accessible(WRITE, addr, unsigned(n)) /\ n >= 0
          BY <3>1, <3>5, <4>2, Zenon
        <4> QED  BY <4>1, <4>3
      <3>7. CASE SysRead(addr, n)
        <4>1. call'.ok = (n >= 0 /\ n < BUFFER_SIZE /\ accessible(WRITE, addr, n))
          BY <3>7 DEF SysRead, answer
        <4>2. n >= 0 /\ n < BUFFER_SIZE  BY <2>2
        <4> QED  BY <3>5, <4>1, <4>2
      <3> QED  BY <2>2, <3>6, <3>7
    <2>3. ASSUME NEW addr \in 0 .. Words - 1, NEW n \in Sizes,
                 SysWrite(addr, n) \/ SysRead(addr, n)
          PROVE  DataAccepted'
      <3>1. call'.addr = addr /\ call'.size = n
        BY <2>3 DEF SysWrite, SysRead, answer
      <3> QED  BY <2>1, <2>2, <2>3, <3>1 DEF DataAccepted, page, block, unsigned
    <2>4. CASE UNCHANGED call
      BY <2>1, <2>4 DEF DataAccepted, page, block, unsigned
    <2>5. CASE Answered
      BY <2>5 DEF Answered, DataAccepted
    <2> QED
      BY <2>3, <2>4, <2>5 DEF PointersNext, Attach, StackChanges, pointer_vars
  <1> QED  BY <1>1, <1>2, PTL DEF PointersSpec

-----------------------------------------------------------------------------
(* Image, BootLoader and Boot.                                             *)

\* Where each file lies in the image.
Base(file) == CASE file = "boot" -> 0
                [] file = "system" -> 512
                [] file = "user" -> 512 + st_size.system
Limit(file) == CASE file = "boot" -> 512
                 [] file = "system" -> 512 + st_size.system
                 [] file = "user" -> (512 + st_size.system) + st_size.user

\* A piece is a part of its file, at its place.
Piece(p) == /\ p.file \in {"boot", "system", "user"}
            /\ p.at \in Nat /\ p.first \in Nat /\ p.length \in Nat
            /\ p.at = Base(p.file) + p.first
            /\ p.at + p.length <= Limit(p.file)

ImageInv ==
    /\ st_size \in Files /\ end \in Nat /\ sz \in Nat
    /\ \A p \in out : Piece(p)
    /\ \A o \in 0 .. end - 1 : \E p \in out : o \in p.at .. p.at + p.length - 1
    /\ step \in {"boot", "system", "user", "patch", "done", "died"}
    /\ step = "boot" => end = 0
    /\ step = "system" => sz <= st_size.system /\ end + sz = 512 + st_size.system
    /\ step = "user" => /\ sz <= st_size.user
                         /\ end + sz = (512 + st_size.system) + st_size.user
    /\ step \in {"patch", "done"} => end = (512 + st_size.system) + st_size.user
    /\ step = "done" <=> status = 0
    /\ step = "done" => patch = Patches

LEMMA Sizes512 ==
    ASSUME st_size \in Files
    PROVE  /\ st_size \in [system : Nat, user : Nat]
           /\ st_size.system \in Nat /\ st_size.user \in Nat
           /\ 12 <= st_size.system
  BY ImageAssumption, BootAssumption

\* A piece more.
LEMMA WriteMore ==
    ASSUME ImageInv, NEW file \in {"boot", "system", "user"},
           NEW first \in Nat, NEW n \in Nat, write(file, first, n),
           st_size' = st_size,
           end = Base(file) + first, end + n <= Limit(file)
    PROVE  /\ end' = end + n /\ end' \in Nat
           /\ \A p \in out' : Piece(p)'
           /\ \A o \in 0 .. end' - 1 : \E p \in out' : o \in p.at .. p.at + p.length - 1
  <1> DEFINE q == [at |-> end, file |-> file, first |-> first, length |-> n]
  <1>1. out' = out \cup {q} /\ end' = end + n /\ end \in Nat
    BY DEF write, ImageInv
  <1>2. ASSUME NEW p \in out'  PROVE Piece(p)'
    <2>1. Piece(p)
      <3>1. CASE p \in out
        BY <3>1 DEF ImageInv
      <3>2. CASE p = q
        BY <1>1, <3>2 DEF Piece
      <3> QED  BY <1>1, <3>1, <3>2
    <2> QED  BY <2>1 DEF Piece, Base, Limit
  <1>3. ASSUME NEW o \in 0 .. end' - 1
        PROVE  \E p \in out' : o \in p.at .. p.at + p.length - 1
    <2>1. CASE o \in 0 .. end - 1
      BY <1>1, <2>1 DEF ImageInv
    <2>2. CASE o \in end .. end' - 1
      <3>1. q \in out' /\ o \in q.at .. q.at + q.length - 1
        BY <1>1, <2>2
      <3> QED  BY <3>1
    <2> QED  BY <1>1, <2>1, <2>2
  <1> QED  BY <1>1, <1>2, <1>3

LEMMA ImageStep == ASSUME ImageInv, ImageNext  PROVE ImageInv'
  <1>1. st_size \in Files /\ end \in Nat /\ sz \in Nat
    BY DEF ImageInv
  <1>2. st_size.system \in Nat /\ st_size.user \in Nat
    BY <1>1, Sizes512
  <1>3. CASE CopyBoot
    <2>1. /\ end = 0 /\ write("boot", 0, 512) /\ st_size' = st_size
          /\ step' = "system" /\ sz' = st_size.system /\ step = "boot"
          /\ status' = status /\ patch' = patch
      BY <1>3 DEF CopyBoot, ImageInv
    <2>2. Base("boot") = 0 /\ Limit("boot") = 512
      BY DEF Base, Limit
    <2>3. /\ end' = 512 /\ end' \in Nat /\ \A p \in out' : Piece(p)'
          /\ \A o \in 0 .. end' - 1 : \E p \in out' : o \in p.at .. p.at + p.length - 1
      BY <2>1, <2>2, WriteMore
    <2>4. /\ st_size' \in Files /\ sz' \in Nat
          /\ sz' <= st_size'.system /\ end' + sz' = 512 + st_size'.system
      <3>1. st_size' = st_size /\ sz' = st_size.system /\ end' = 512
        BY <2>1, <2>3
      <3>2. st_size'.system = st_size.system
        BY <3>1
      <3> QED  BY <1>1, <1>2, <3>1, <3>2
    <2>5. status' # 0 /\ step' = "system"
      BY <2>1 DEF ImageInv
    <2>6. step' # "boot" /\ step' # "user" /\ step' # "patch" /\ step' # "done"
      BY <2>5
    <2> QED  BY <2>3, <2>4, <2>5, <2>6, Zenon DEF ImageInv
  <1>4. CASE CopyPiece
    <2> DEFINE l == IF sz > BufSize THEN BufSize ELSE sz
               first == st_size[step] - sz
    <2>1. /\ step \in {"system", "user"} /\ sz > 0 /\ write(step, first, l)
          /\ sz' = sz - l /\ st_size' = st_size /\ step' = step
          /\ status' = status /\ patch' = patch
      BY <1>4 DEF CopyPiece
    <2>2. l \in Nat /\ l <= sz
      BY <1>1, ImageAssumption
    <2>3. /\ sz <= st_size[step] /\ end + sz = Limit(step)
          /\ Limit(step) = Base(step) + st_size[step]
          /\ Base(step) \in Nat /\ st_size[step] \in Nat
      <3>1. CASE step = "system"
        BY <1>1, <1>2, <3>1 DEF ImageInv, Base, Limit
      <3>2. CASE step = "user"
        BY <1>1, <1>2, <3>2 DEF ImageInv, Base, Limit
      <3> QED  BY <2>1, <3>1, <3>2
    <2> HIDE DEF l
    <2>4. /\ first \in Nat /\ end = Base(step) + first /\ end + l <= Limit(step)
          /\ sz' \in Nat /\ sz' <= st_size[step] /\ (end + l) + sz' = Limit(step)
      BY <1>1, <2>1, <2>2, <2>3
    <2> HIDE DEF first
    <2>5. /\ end' = end + l /\ end' \in Nat /\ \A p \in out' : Piece(p)'
          /\ \A o \in 0 .. end' - 1 : \E p \in out' : o \in p.at .. p.at + p.length - 1
      BY <2>1, <2>2, <2>4, WriteMore
    <2>6. CASE step = "system"
      <3>1. end' + sz' = 512 + st_size.system /\ sz' <= st_size.system
        BY <2>4, <2>5, <2>6 DEF Limit
      <3> QED  BY <1>1, <2>1, <2>4, <2>5, <2>6, <3>1 DEF ImageInv
    <2>7. CASE step = "user"
      <3>1. end' + sz' = (512 + st_size.system) + st_size.user /\ sz' <= st_size.user
        BY <2>4, <2>5, <2>7 DEF Limit
      <3> QED  BY <1>1, <2>1, <2>4, <2>5, <2>7, <3>1 DEF ImageInv
    <2> QED  BY <2>1, <2>6, <2>7
  <1>5. CASE NextFile
    <2>1. \A p : Piece(p)' <=> Piece(p)
      BY <1>5 DEF NextFile, Piece, Base, Limit
    <2> QED  BY <1>1, <1>2, <1>5, <2>1 DEF NextFile, ImageInv
  <1>6. CASE Patch
    <2>1. \A p : Piece(p)' <=> Piece(p)
      BY <1>6 DEF Patch, Piece, Base, Limit
    <2>2. Patches' = Patches
      BY <1>6 DEF Patch, Patches, im_size
    <2> QED  BY <1>1, <1>6, <2>1, <2>2 DEF Patch, ImageInv
  <1>7. CASE Dies
    <2>1. \A p : Piece(p)' <=> Piece(p)
      BY <1>7 DEF Dies, Piece, Base, Limit
    <2> QED  BY <1>1, <1>7, <2>1 DEF Dies, ImageInv
  <1> QED  BY <1>3, <1>4, <1>5, <1>6, <1>7 DEF ImageNext

\* What the finished image holds at the place of a byte of a file, but for
\* the words patched into the first twelve of the system.
LEMMA ImageHolds ==
    ASSUME ImageInv, status = 0, NEW file \in {"system", "user"},
           NEW b \in 0 .. st_size[file] - 1, file = "system" => b >= 12
    PROVE  image_byte(Base(file) + b) = [file |-> file, byte |-> b]
  <1> DEFINE o == Base(file) + b
  <1>1. /\ st_size.system \in Nat /\ st_size.user \in Nat /\ 12 <= st_size.system
        /\ end = (512 + st_size.system) + st_size.user /\ patch = Patches
    BY Sizes512 DEF ImageInv
  <1>2. /\ o \in 0 .. end - 1 /\ o >= 524
        /\ file = "system" => o < 512 + st_size.system
        /\ file = "user" => o >= 512 + st_size.system
        /\ o - Base(file) = b
    <2>1. CASE file = "system"
      BY <1>1, <2>1 DEF Base
    <2>2. CASE file = "user"
      BY <1>1, <2>2 DEF Base
    <2> QED  BY <2>1, <2>2
  <1>3. ~patched(o)
    <2>1. DOMAIN patch = {500, 512, 516, 520}
      BY <1>1 DEF Patches
    <2> HIDE DEF o
    <2> QED  BY <1>2, <2>1 DEF patched
  <1>4. ASSUME NEW p \in out, o \in p.at .. p.at + p.length - 1
        PROVE  p.file = file /\ p.first + (o - p.at) = b
    <2>1. Piece(p)
      BY DEF ImageInv
    <2>2. CASE p.file = "boot"
      BY <1>1, <1>2, <1>4, <2>1, <2>2 DEF Piece, Base, Limit
    <2>3. CASE p.file = "system"
      <3>1. o < 512 + st_size.system
        BY <1>1, <1>2, <1>4, <2>1, <2>3 DEF Piece, Base, Limit
      <3>2. file = "system"
        BY <1>1, <1>2, <3>1
      <3> QED  BY <1>1, <1>2, <1>4, <2>1, <2>3, <3>2 DEF Piece, Base
    <2>4. CASE p.file = "user"
      <3>1. o >= 512 + st_size.system
        BY <1>1, <1>2, <1>4, <2>1, <2>4 DEF Piece, Base, Limit
      <3>2. file = "user"
        BY <1>1, <1>2, <3>1
      <3> QED  BY <1>1, <1>2, <1>4, <2>1, <2>4, <3>2 DEF Piece, Base
    <2> QED  BY <2>1, <2>2, <2>3, <2>4 DEF Piece
  <1>5. \E p \in out : o \in p.at .. p.at + p.length - 1
    BY <1>2 DEF ImageInv
  <1> HIDE DEF o
  <1>6. PICK p \in out : /\ p = CHOOSE r \in out : o \in r.at .. r.at + r.length - 1
                         /\ o \in p.at .. p.at + p.length - 1
    BY <1>5
  <1>7. image_byte(o) = [file |-> p.file, byte |-> p.first + (o - p.at)]
    BY <1>3, <1>5, <1>6 DEF image_byte
  <1> QED  BY <1>4, <1>6, <1>7 DEF o
LEMMA ImageStarts == ASSUME ImageInit  PROVE ImageInv
  BY DEF ImageInit, ImageInv

LEMMA ImageStays == ASSUME ImageInv, UNCHANGED image_vars  PROVE ImageInv'
  <1>1. (\A p : Piece(p)' <=> Piece(p)) /\ Patches' = Patches
    BY DEF image_vars, Piece, Base, Limit, Patches, im_size
  <1> QED  BY <1>1 DEF image_vars, ImageInv

\* The size of the image fits the word build patches.
FitsWord == (image_size + 15) \div 16 < 65536

\* The sizes in the patched words are the sizes of the files, unless they do
\* not fit, and 15 bits are enough for what there is room for.
LEMMA PatchedSizes ==
    ASSUME ImageInv, status = 0
    PROVE  /\ patch[500] \in Nat
           /\ FitsWord => /\ 16 * patch[500] >= st_size.system + st_size.user
                          /\ p_sys_size = st_size.system /\ p_usr_size = st_size.user
           /\ image_size <= Room => FitsWord /\ patch[500] <= 32767
           /\ FitsWord /\ patch[500] <= 32767 => image_size <= Room
  <1>1. patch = Patches /\ st_size \in Files
    BY DEF ImageInv
  <1>2. st_size.system \in Nat /\ st_size.user \in Nat
    BY <1>1, Sizes512
  <1>3. /\ patch[500] = im_size
        /\ patch[512] = st_size.system % 16777216
        /\ patch[516] = st_size.user % 16777216
    BY <1>1 DEF Patches
  <1> DEFINE t == st_size.system + st_size.user
             w == (t + 15) \div 16
  <1>4. t \in Nat /\ im_size = w % 65536 /\ image_size = t
    BY <1>2, SMT DEF im_size, image_size
  <1>5. t < 16777216 => /\ st_size.system % 16777216 = st_size.system
                        /\ st_size.user % 16777216 = st_size.user
    BY <1>2, SMT
  <1>6. Room = 524272
    BY SMT DEF Room, INITSEG, SYSSEG, Paragraph
  <1> HIDE DEF t
  <1>7. w \in Nat /\ 16 * w >= t /\ 16 * w <= t + 15
    BY <1>4, SMT
  <1>8. FitsWord <=> w < 65536
    BY <1>4 DEF FitsWord
  <1> HIDE DEF w
  <1>9. im_size \in Nat /\ (w < 65536 => im_size = w)
    BY <1>4, <1>7, SMT
  <1>10. FitsWord => /\ 16 * patch[500] >= t
                     /\ p_sys_size = st_size.system /\ p_usr_size = st_size.user
    <2> SUFFICES ASSUME w < 65536
                 PROVE  /\ 16 * patch[500] >= t
                        /\ p_sys_size = st_size.system /\ p_usr_size = st_size.user
      BY <1>8
    <2>1. t < 16777216
      BY <1>4, <1>7, SMT
    <2> QED  BY <1>3, <1>5, <1>7, <1>9, <2>1 DEF p_sys_size, p_usr_size
  <1>11. t <= 524272 => w <= 32767
    BY <1>4, <1>7, SMT
  <1>12. w <= 32767 => t <= 524272
    BY <1>4, <1>7, SMT
  <1>13. image_size <= Room => FitsWord /\ patch[500] <= 32767
    BY <1>3, <1>4, <1>6, <1>7, <1>8, <1>9, <1>11
  <1>14. FitsWord /\ patch[500] <= 32767 => image_size <= Room
    BY <1>3, <1>4, <1>6, <1>8, <1>9, <1>12
  <1>15. patch[500] \in Nat
    BY <1>3, <1>9
  <1> QED  BY <1>10, <1>13, <1>14, <1>15 DEF t

\* The loop has read m sectors, 128 to a segment: they lie one behind the
\* other from SYSSEG, in the order of the disk, and the head is behind them.
Loaded(m) ==
    /\ DOMAIN memory = {65536 + (512 * i) : i \in 0 .. m - 1}
    /\ \A i \in 0 .. m - 1 : memory[65536 + (512 * i)] = i + 1
HeadAt(m) ==
    /\ head \in {0, 1} /\ track \in Nat /\ sread \in 0 .. sectors - 1
    /\ (((track * 2) + head) * sectors) + sread = m + 1
ReadTo(j, u) ==
    /\ es = 4096 * (j + 1) /\ bx = 512 * u
    /\ Loaded((128 * j) + u) /\ HeadAt((128 * j) + u)
    /\ u = 0 \/ 4096 * j <= syssize
    /\ j = 8 => u = 0
InOrder == \E j \in 0 .. 8, u \in 0 .. 127 : ReadTo(j, u)
LoaderInv == syssize \in Nat /\ InOrder

\* Three sectors a track or more, and less than a shift by 9 loses a bit of.
LEMMA Geometry ==
    /\ sectors \in Nat /\ sectors >= 3 /\ sectors <= 63 /\ setup_sects = 0
    /\ \A k \in 0 .. 63 : shl9(k) = 512 * k
  BY LoaderAssumption, BootAssumption DEF shl9, SectorSize, Segment

\* What is read in order does not reach the boot sector.
LEMMA BelowBootSector ==
    ASSUME InOrder
    PROVE  ~overwritten /\ \A a \in DOMAIN memory : a + SectorSize <= address(INITSEG, 0)
  <1>1. PICK j \in 0 .. 8, u \in 0 .. 127 : ReadTo(j, u)
    BY DEF InOrder
  <1>2. (128 * j) + u <= 1024
    BY <1>1 DEF ReadTo
  <1>3. DOMAIN memory = {65536 + (512 * i) : i \in 0 .. ((128 * j) + u) - 1}
    BY <1>1 DEF ReadTo, Loaded
  <1>4. address(INITSEG, 0) = 589824
    BY DEF address, INITSEG, Paragraph
  <1>5. ASSUME NEW a \in DOMAIN memory  PROVE a + 512 <= 589824 /\ a \in Nat
    BY <1>2, <1>3, <1>5
  <1> QED  BY <1>4, <1>5 DEF overwritten, SectorSize

LEMMA More ==
    ASSUME NEW j \in 0 .. 8
    PROVE  more(4096 * (j + 1)) <=> 4096 * j <= syssize
  <1>1. (4096 * (j + 1) + 65536 - 4096) % 65536 = 4096 * j
    OBVIOUS
  <1> QED  BY <1>1 DEF more, Segment, SYSSEG

LEMMA LoaderStarts ==
    ASSUME read_it, memory' = << >>, syssize' \in Nat
    PROVE  LoaderInv'
  <1>1. setup_sects = 0 /\ sectors \in Nat /\ sectors >= 3
    BY Geometry
  <1>2. DOMAIN memory' = {}
    BY DEF read_it
  <1>3. Loaded(0)'
    BY <1>2 DEF Loaded
  <1>4. HeadAt(0)'
    BY <1>1 DEF HeadAt, read_it
  <1>5. ReadTo(0, 0)'
    BY <1>3, <1>4 DEF ReadTo, read_it, SYSSEG
  <1> QED  BY <1>5 DEF LoaderInv, InOrder

\* The disk holds the image in its first 171 tracks.
LEMMA TrackFits ==
    ASSUME NEW m \in 0 .. 1024, HeadAt(m)
    PROVE  track % 256 = track /\ head % 2 = head
  <1>1. sectors \in Nat /\ sectors >= 3
    BY Geometry
  <1> DEFINE c == (track * 2) + head
  <1>2. c \in Nat /\ c >= 2 * track /\ track \in Nat /\ head \in {0, 1}
    BY DEF HeadAt
  <1>3. c * sectors <= 1025
    BY <1>1 DEF HeadAt
  <1> HIDE DEF c
  <1>4. c * 3 <= c * sectors
    BY <1>1, <1>2
  <1>5. c * 3 <= 1025
    BY <1>1, <1>2, <1>3, <1>4
  <1> QED  BY <1>2, <1>5

LEMMA ReadStep ==
    ASSUME NEW j \in 0 .. 7, NEW u \in 0 .. 127, ReadTo(j, u),
           4096 * j <= syssize, syssize \in Nat, ReadTrack
    PROVE  InOrder'
  <1> DEFINE m == (128 * j) + u
  <1>0. PICK n : n = to_read
    OBVIOUS
  <1>1. sectors \in Nat /\ sectors >= 3 /\ sectors <= 63
    BY Geometry
  <1>2. /\ es = 4096 * (j + 1) /\ bx = 512 * u /\ Loaded(m) /\ HeadAt(m)
        /\ sread \in 0 .. sectors - 1 /\ m \in 0 .. 1024
    BY DEF ReadTo, HeadAt
  <1>3. /\ n \in 1 .. 128 /\ n <= sectors - sread /\ n + u <= 128
        /\ n = sectors - sread \/ n + u = 128
    <2>1. (65536 - (512 * u)) \div 512 = 128 - u
      OBVIOUS
    <2>2. sectors - sread \in 0 .. 63 /\ shl9(sectors - sread) = 512 * (sectors - sread)
      BY <1>1, <1>2, Geometry
    <2> QED  BY <1>0, <1>1, <1>2, <2>1, <2>2 DEF to_read, SectorSize, Segment
  <1>4. address(es, bx) = 65536 + (512 * m)
    BY <1>2 DEF address, Paragraph
  <1> HIDE DEF m
  <1>5. lba(track % 256, head % 2, sread + 1) = m + 1
    <2>1. track % 256 = track /\ head % 2 = head
      BY <1>2, TrackFits
    <2>2. lba(track, head, sread + 1) = (((track * 2) + head) * sectors) + sread
      BY <1>1, <1>2 DEF lba, HeadAt
    <2> QED  BY <1>2, <2>1, <2>2 DEF HeadAt
  <1>6. Loaded(m + n)'
    <2> DEFINE to == 65536 + (512 * m)
               read == {to + (512 * i) : i \in 0 .. n - 1}
    <2>1. memory' = [a \in DOMAIN memory \cup read |->
                        IF a \in read THEN (m + 1) + ((a - to) \div 512) ELSE memory[a]]
      BY <1>0, <1>4, <1>5 DEF ReadTrack, read_track, int13, SectorSize
    <2>2. DOMAIN memory = {65536 + (512 * i) : i \in 0 .. m - 1}
          /\ \A i \in 0 .. m - 1 : memory[65536 + (512 * i)] = i + 1
      BY <1>2 DEF Loaded
    <2>3. DOMAIN memory \cup read = {65536 + (512 * i) : i \in 0 .. (m + n) - 1}
      <3>1. ASSUME NEW i \in 0 .. n - 1
            PROVE  to + (512 * i) = 65536 + (512 * (m + i)) /\ m + i \in 0 .. (m + n) - 1
        BY <1>2, <1>3
      <3>2. ASSUME NEW i \in m .. (m + n) - 1
            PROVE  65536 + (512 * i) = to + (512 * (i - m)) /\ i - m \in 0 .. n - 1
        BY <1>2, <1>3
      <3>3. ASSUME NEW a \in DOMAIN memory \cup read
            PROVE  \E i \in 0 .. (m + n) - 1 : a = 65536 + (512 * i)
        <4>1. CASE a \in DOMAIN memory
          <5>1. PICK i \in 0 .. m - 1 : a = 65536 + (512 * i)
            BY <2>2, <4>1
          <5> QED  BY <1>2, <1>3, <5>1
        <4>2. CASE a \in read
          <5>1. PICK i \in 0 .. n - 1 : a = to + (512 * i)
            BY <4>2
          <5> QED  BY <3>1, <5>1
        <4> QED  BY <4>1, <4>2
      <3>4. ASSUME NEW i \in 0 .. (m + n) - 1
            PROVE  65536 + (512 * i) \in DOMAIN memory \cup read
        <4>1. CASE i \in 0 .. m - 1
          BY <2>2, <4>1
        <4>2. CASE i \in m .. (m + n) - 1
          BY <3>2, <4>2
        <4> HIDE DEF read
        <4> QED  BY <1>2, <1>3, <4>1, <4>2
      <3> HIDE DEF read
      <3> QED  BY <3>3, <3>4
    <2>4. ASSUME NEW i \in 0 .. (m + n) - 1
          PROVE  memory'[65536 + (512 * i)] = i + 1
      <3>1. 65536 + (512 * i) \in DOMAIN memory \cup read
        BY <2>3
      <3>2. CASE i \in 0 .. m - 1
        <4>1. 65536 + (512 * i) \notin read
          BY <1>2, <1>3, <3>2
        <4> HIDE DEF read
        <4> QED  BY <2>1, <2>2, <3>1, <3>2, <4>1
      <3>3. CASE i \in m .. (m + n) - 1
        <4>1. 65536 + (512 * i) = to + (512 * (i - m)) /\ i - m \in 0 .. n - 1
          BY <1>2, <1>3, <3>3
        <4>2. 65536 + (512 * i) \in read
          BY <4>1
        <4>3. ((65536 + (512 * i)) - to) \div 512 = i - m
          BY <1>2, <3>3
        <4>4. (m + 1) + (i - m) = i + 1
          BY <1>2, <3>3
        <4> HIDE DEF read, to
        <4> QED  BY <2>1, <3>1, <4>2, <4>3, <4>4
      <3> QED  BY <1>2, <1>3, <3>2, <3>3
    <2>5. DOMAIN memory' = DOMAIN memory \cup read
      BY <2>1
    <2> HIDE DEF read, to
    <2> QED  BY <2>3, <2>4, <2>5 DEF Loaded
  <1>7. HeadAt(m + n)'
    <2> DEFINE c == (track * 2) + head
    <2>1. c \in Nat /\ (c * sectors) + sread = m + 1 /\ c * sectors \in Nat
      BY <1>1, <1>2 DEF HeadAt
    <2>2. next_track(n) /\ head \in {0, 1} /\ track \in Nat
      BY <1>0, <1>2 DEF ReadTrack, HeadAt
    <2>3. CASE sread + n # sectors
      <3>1. sread' = sread + n /\ head' = head /\ track' = track
        BY <2>2, <2>3 DEF next_track
      <3> QED  BY <1>1, <1>2, <1>3, <2>1, <2>2, <2>3, <3>1 DEF HeadAt
    <2>4. CASE sread + n = sectors
      <3>1. /\ sread' = 0 /\ head' = 1 - head
            /\ track' = IF head = 1 THEN track + 1 ELSE track
        BY <2>2, <2>4 DEF next_track
      <3>2. (track' * 2) + head' = c + 1 /\ head' \in {0, 1} /\ track' \in Nat
        BY <2>2, <3>1
      <3> HIDE DEF c
      <3>3. (c + 1) * sectors = (c * sectors) + sectors
        BY <1>1, <2>1
      <3>4. (c + 1) * sectors = (m + n) + 1
        BY <1>1, <1>2, <1>3, <2>1, <2>4, <3>3
      <3> QED  BY <1>1, <3>1, <3>2, <3>4 DEF HeadAt
    <2> QED  BY <2>3, <2>4
  <1>8. next_segment(n) /\ syssize' = syssize /\ shl9(n) = 512 * n
    BY <1>0, <1>1, <1>2, <1>3, Geometry DEF ReadTrack
  <1>9. CASE n + u < 128
    <2>1. es' = es /\ bx' = 512 * (u + n)
      BY <1>2, <1>3, <1>8, <1>9 DEF next_segment, Segment, SectorSize
    <2>2. m + n = (128 * j) + (u + n) /\ u + n \in 0 .. 127
      BY <1>3, <1>9 DEF m
    <2>3. ReadTo(j, u + n)'
      BY <1>2, <1>6, <1>7, <1>8, <2>1, <2>2 DEF ReadTo
    <2> QED  BY <2>2, <2>3 DEF InOrder
  <1>10. CASE n + u = 128
    <2>1. es' = 4096 * ((j + 1) + 1) /\ bx' = 512 * 0
      BY <1>2, <1>3, <1>8, <1>10 DEF next_segment, Segment, SectorSize, Paragraph
    <2>2. m + n = (128 * (j + 1)) + 0 /\ j + 1 \in 0 .. 8
      BY <1>3, <1>10 DEF m
    <2>3. ReadTo(j + 1, 0)'
      BY <1>6, <1>7, <2>1, <2>2 DEF ReadTo
    <2> QED  BY <2>2, <2>3 DEF InOrder
  <1> QED  BY <1>3, <1>9, <1>10

LEMMA LoaderStays ==
    ASSUME LoaderInv, UNCHANGED <<syssize, es, bx, sread, head, track, memory>>
    PROVE  LoaderInv'
  <1>1. PICK j \in 0 .. 8, u \in 0 .. 127 : ReadTo(j, u)
    BY DEF LoaderInv, InOrder
  <1>2. ReadTo(j, u)'
    BY <1>1 DEF ReadTo, Loaded, HeadAt
  <1> QED  BY <1>2 DEF LoaderInv, InOrder

\* A round past the last segment below the boot sector reads over it.
LEMMA ReadOver ==
    ASSUME ReadTo(8, 0), ReadTrack
    PROVE  overwritten'
  <1>0. PICK n : n = to_read
    OBVIOUS
  <1>1. /\ es = 36864 /\ bx = 0 /\ sread \in 0 .. sectors - 1
        /\ sectors \in Nat /\ sectors <= 63
    BY Geometry DEF ReadTo, HeadAt
  <1>2. n \in 1 .. 63
    <2>1. sectors - sread \in 1 .. 63 /\ shl9(sectors - sread) = 512 * (sectors - sread)
      BY <1>1, Geometry
    <2> QED  BY <1>0, <1>1, <2>1 DEF to_read, Segment
  <1>3. address(es, bx) = 589824 /\ address(INITSEG, 0) = 589824
    BY <1>1 DEF address, Paragraph, INITSEG
  <1> DEFINE read == {589824 + (512 * i) : i \in 0 .. n - 1}
  <1>4. DOMAIN memory' = DOMAIN memory \cup read
    BY <1>0, <1>3 DEF ReadTrack, read_track, int13, SectorSize
  <1>5. 589824 \in read
    <2>1. 0 \in 0 .. n - 1 /\ 589824 = 589824 + (512 * 0)
      BY <1>2
    <2> QED  BY <2>1
  <1>6. 589824 \in DOMAIN memory'
    BY <1>4, <1>5
  <1>7. 589824 < 589824 + SectorSize
    BY DEF SectorSize
  <1> QED  BY <1>3, <1>6, <1>7 DEF overwritten

LEMMA LoaderStep ==
    ASSUME LoaderInv, LoaderNext
    PROVE  /\ syssize' = syssize
           /\ overwritten' => syssize > 32767
           /\ ~overwritten' => LoaderInv' /\ (~loading' => ~more(es)')
  <1>1. CASE ReadTrack
    <2>1. PICK j \in 0 .. 8, u \in 0 .. 127 : ReadTo(j, u)
      BY DEF LoaderInv, InOrder
    <2>2. syssize \in Nat /\ syssize' = syssize /\ loading' = loading
          /\ loading /\ more(es)
      BY <1>1 DEF LoaderInv, ReadTrack
    <2>3. 4096 * j <= syssize
      BY <2>1, <2>2, More DEF ReadTo
    <2>4. CASE j = 8
      <3>1. overwritten'
        <4>1. u = 0
          BY <2>1, <2>4 DEF ReadTo
        <4> QED  BY <1>1, <2>1, <2>4, <4>1, ReadOver
      <3> QED  BY <2>2, <2>3, <2>4, <3>1
    <2>5. CASE j # 8
      <3>1. InOrder'
        <4>1. syssize \in Nat /\ j \in 0 .. 7
          BY <2>2, <2>5
        <4> QED  BY <1>1, <2>1, <2>3, <4>1, ReadStep
      <3>2. ~overwritten'
        BY <3>1, BelowBootSector, PTL
      <3> QED  BY <2>2, <3>1, <3>2 DEF LoaderInv
    <2> QED  BY <2>4, <2>5
  <1>2. CASE ReadDone
    <2>1. ~overwritten'
      BY <1>2, BelowBootSector DEF ReadDone, overwritten, LoaderInv
    <2> QED  BY <1>2, <2>1, LoaderStays DEF ReadDone, more
  <1> QED  BY <1>1, <1>2 DEF LoaderNext

BootInv ==
    /\ ImageInv
    /\ stage \in {"make", "load", "main", "user", "fault", "lost"}
    /\ stage = "make" => DOMAIN memory = {}
    /\ stage # "make" => status = 0 /\ syssize = patch[500]
    /\ stage \in {"load", "main", "user", "fault"} => LoaderInv
    /\ stage = "lost" => syssize > 32767
    /\ stage \in {"main", "user", "fault"} => ~more(es)
    /\ stage = "user" => user.from = 65536 + p_sys_size /\ user.length = p_usr_size

LEMMA BootStep == ASSUME BootInv, [BootNext]_boot_vars  PROVE BootInv'
  <1>1. CASE Make
    <2>1. ImageInv'
      BY <1>1, ImageStep DEF Make, BootInv
    <2> QED  BY <1>1, <2>1 DEF Make, BootInv, loader_vars
  <1>2. CASE PowerOn
    <2>1. /\ stage' = "load" /\ status' = 0 /\ UNCHANGED image_vars
          /\ syssize' = patch[500] /\ syssize' = patch'[500]
          /\ read_it /\ memory' = << >>
      BY <1>2 DEF PowerOn, image_vars
    <2>2. ImageInv' /\ syssize' \in Nat
      BY <1>2, <2>1, ImageStays, PatchedSizes DEF PowerOn, BootInv
    <2>3. LoaderInv'
      BY <2>1, <2>2, LoaderStarts
    <2> QED  BY <2>1, <2>2, <2>3 DEF BootInv
  <1>3. CASE Load
    <2>1. ImageInv' /\ status' = 0 /\ patch' = patch
      BY <1>3, ImageStays DEF Load, BootInv, image_vars
    <2>2. /\ syssize' = syssize /\ (overwritten' => syssize' > 32767)
          /\ ~overwritten' => LoaderInv' /\ (~loading' => ~more(es)')
      BY <1>3, LoaderStep DEF Load, BootInv
    <2>3. syssize' = patch'[500]
      BY <1>3, <2>1, <2>2 DEF Load, BootInv
    <2>4. \/ stage' = "lost" /\ overwritten'
          \/ stage' = "load" /\ ~overwritten'
          \/ stage' = "main" /\ ~overwritten' /\ ~loading'
      BY <1>3 DEF Load
    <2> QED  BY <2>1, <2>2, <2>3, <2>4 DEF BootInv
  <1>4. CASE Main
    <2>1. /\ ImageInv /\ stage = "main" /\ status = 0 /\ LoaderInv /\ ~more(es)
          /\ syssize = patch[500]
      BY <1>4 DEF Main, BootInv
    <2>2. /\ ImageInv' /\ LoaderInv' /\ status' = 0 /\ syssize' = patch'[500]
          /\ patch' = patch /\ ~more(es)'
      BY <1>4, <2>1, ImageStays, LoaderStays DEF Main, image_vars, loader_vars, more
    <2>3. \/ stage' = "fault"
          \/ stage' = "user" /\ user' = [from |-> 65536 + p_sys_size, length |-> p_usr_size]
      BY <1>4 DEF Main, copy_data, KERNEL_START
    <2>4. stage' = "user" => user'.from = 65536 + p_sys_size' /\ user'.length = p_usr_size'
      BY <2>2, <2>3 DEF p_sys_size, p_usr_size
    <2>5. stage' \in {"user", "fault"}
      BY <2>3
    <2> QED  BY <2>2, <2>4, <2>5 DEF BootInv
  <1>5. CASE UNCHANGED boot_vars
    <2>1. ImageInv'
      BY <1>5, ImageStays DEF BootInv, boot_vars
    <2>2. LoaderInv => LoaderInv'
      BY <1>5, LoaderStays DEF boot_vars, loader_vars
    <2> QED  BY <1>5, <2>1, <2>2
             DEF BootInv, boot_vars, image_vars, loader_vars, more, p_sys_size, p_usr_size
  <1> QED  BY <1>1, <1>2, <1>3, <1>4, <1>5 DEF BootNext

THEOREM BootInvariant == BootSpec => []BootInv
  <1>1. BootInit => BootInv
    BY ImageStarts DEF BootInit, BootInv
  <1> QED  BY <1>1, BootStep, PTL DEF BootSpec

\* The loop ends before it reads the segment of the boot sector only if the
\* word it counts against says so.
LEMMA EndsBelow ==
    ASSUME LoaderInv, ~more(es)
    PROVE  syssize <= 32767
  <1>1. PICK j \in 0 .. 8, u \in 0 .. 127 : ReadTo(j, u)
    BY DEF LoaderInv, InOrder
  <1>2. 4096 * j > syssize /\ syssize \in Nat
    BY <1>1, More DEF LoaderInv, ReadTo
  <1> QED  BY <1>2

\* Of the files of any size: the loader does not read a sector over the boot
\* sector it runs from when there is room below it, and when there is not,
\* short of a MB, it does not get as far as the kernel (read_it, build.c:169).
THEOREM BootKeepsLoader == BootSpec => []LoaderIntact
  <1>1. ASSUME BootInv  PROVE LoaderIntact
    <2>1. ASSUME image_size <= Room
          PROVE  /\ stage # "lost"
                 /\ \A a \in DOMAIN memory : a + SectorSize <= address(INITSEG, 0)
      <3>1. CASE stage = "make"
        BY <1>1, <3>1 DEF BootInv
      <3>2. CASE stage # "make"
        <4>1. patch[500] <= 32767 /\ patch[500] \in Nat /\ syssize = patch[500]
          BY <1>1, <2>1, <3>2, PatchedSizes DEF BootInv
        <4>2. stage # "lost"
          BY <1>1, <4>1 DEF BootInv
        <4>3. InOrder
          BY <1>1, <3>2, <4>2 DEF BootInv, LoaderInv
        <4> QED  BY <4>2, <4>3, BelowBootSector
      <3> QED  BY <3>1, <3>2
    <2>2. ASSUME stage \in {"main", "user", "fault"}, FitsWord
          PROVE  image_size <= Room
      <3>1. LoaderInv /\ ~more(es) /\ syssize = patch[500] /\ ImageInv /\ status = 0
        BY <1>1, <2>2 DEF BootInv
      <3>2. syssize <= 32767
        BY <3>1, EndsBelow
      <3> QED  BY <2>2, <3>1, <3>2, PatchedSizes
    <2>3. FitsWord <=> (image_size + 15) \div Paragraph < Segment
      BY DEF FitsWord, Paragraph, Segment
    <2> QED  BY <2>1, <2>2, <2>3 DEF LoaderIntact
  <1> QED  BY <1>1, BootInvariant, PTL

\* In user mode a byte of the machine's memory, from the kernel on, is the
\* byte of the image behind the boot sector.
LEMMA MemoryIsImage ==
    ASSUME BootInv, stage = "user", FitsWord,
           NEW b \in 0 .. (st_size.system + st_size.user) - 1
    PROVE  memory_byte(65536 + b) = image_byte(512 + b)
  <1>1. /\ st_size.system \in Nat /\ st_size.user \in Nat /\ b \in Nat
        /\ syssize \in Nat /\ 16 * syssize >= st_size.system + st_size.user
    BY Sizes512, PatchedSizes DEF BootInv, ImageInv
  <1>2. PICK j \in 0 .. 8, u \in 0 .. 127 : ReadTo(j, u)
    BY DEF BootInv, LoaderInv, InOrder
  <1>3. 4096 * j > syssize
    BY <1>1, <1>2, More DEF BootInv, ReadTo
  <1>4. u = 0
    BY <1>1, <1>2, <1>3 DEF ReadTo
  <1> DEFINE m == 128 * j
             q == b \div 512
             r == b % 512
  <1>5. 512 * m > b
    BY <1>1, <1>3
  <1>6. q \in Nat /\ r \in 0 .. 511 /\ b = (512 * q) + r
    BY <1>1
  <1>7. (65536 + b) % 512 = r
    BY <1>1
  <1>8. m \in Nat /\ Loaded(m)
    BY <1>2, <1>4 DEF ReadTo
  <1> HIDE DEF m, q, r
  <1>9. q \in 0 .. m - 1
    BY <1>5, <1>6, <1>8
  <1>10. (65536 + b) - r = 65536 + (512 * q)
    BY <1>1, <1>6
  <1>11. 65536 + (512 * q) \in DOMAIN memory /\ memory[65536 + (512 * q)] = q + 1
    <2>1. /\ DOMAIN memory = {65536 + (512 * i) : i \in 0 .. m - 1}
          /\ \A i \in 0 .. m - 1 : memory[65536 + (512 * i)] = i + 1
      BY <1>8 DEF Loaded
    <2> QED  BY <1>9, <2>1
  <1>12. ((q + 1) * 512) + r = 512 + b
    BY <1>6
  <1> QED  BY <1>7, <1>10, <1>11, <1>12 DEF memory_byte, SectorSize

\* Kernel and user program arrive whole where they run (build.c, bootsect.S
\* and copy_data), whatever their sizes as long as the word for it holds them.
THEOREM BootInPlace == BootSpec => []ProgramsInPlace
  <1>1. ASSUME BootInv  PROVE ProgramsInPlace
    <2> SUFFICES ASSUME stage = "user", FitsWord  PROVE ProgramsInPlace
      BY DEF ProgramsInPlace, FitsWord, Paragraph, Segment
    <2>1. /\ ImageInv /\ status = 0 /\ user.length = st_size.user
          /\ user.from = 65536 + st_size.system
          /\ st_size.system \in Nat /\ st_size.user \in Nat
      BY <1>1, Sizes512, PatchedSizes DEF BootInv, ImageInv
    <2>2. ASSUME NEW b \in 12 .. st_size.system - 1
          PROVE  memory_byte(KERNEL_START + b) = [file |-> "system", byte |-> b]
      <3>1. memory_byte(65536 + b) = image_byte(512 + b)
        BY <1>1, <2>1, <2>2, MemoryIsImage
      <3>2. b \in 0 .. st_size["system"] - 1 /\ b >= 12 /\ Base("system") = 512
        BY <2>1, <2>2 DEF Base
      <3>3. image_byte(Base("system") + b) = [file |-> "system", byte |-> b]
        BY <2>1, <3>2, ImageHolds
      <3> QED  BY <3>1, <3>2, <3>3 DEF KERNEL_START
    <2>3. ASSUME NEW b \in 0 .. st_size.user - 1
          PROVE  memory_byte(user.from + b) = [file |-> "user", byte |-> b]
      <3>1. /\ st_size.system + b \in 0 .. (st_size.system + st_size.user) - 1
            /\ user.from + b = 65536 + (st_size.system + b)
            /\ 512 + (st_size.system + b) = (512 + st_size.system) + b
        BY <2>1, <2>3
      <3>2. memory_byte(65536 + (st_size.system + b)) = image_byte(512 + (st_size.system + b))
        BY <1>1, <3>1, MemoryIsImage
      <3>3. b \in 0 .. st_size["user"] - 1 /\ Base("user") = 512 + st_size.system
        BY <2>3 DEF Base
      <3>4. image_byte(Base("user") + b) = [file |-> "user", byte |-> b]
        BY <2>1, <3>3, ImageHolds
      <3> QED  BY <3>1, <3>2, <3>3, <3>4
    <2>4. \A b \in probes(st_size.user, st_size.system) : b \in 0 .. st_size.user - 1
      BY DEF probes
    <2> QED  BY <2>1, <2>2, <2>3, <2>4 DEF ProgramsInPlace
  <1> QED  BY <1>1, BootInvariant, PTL

-----------------------------------------------------------------------------
(* FirstDelivery.                                                          *)

LEMMA FirstConstants ==
    /\ NR_TASKS \in Nat /\ NR_TASKS >= 4 /\ 0 \in Slots
    /\ NUM_PAG_KERNEL \in Nat /\ 0 < NUM_PAG_KERNEL /\ NUM_PAG_KERNEL <= USER_FIRST_PAGE
    /\ NUM_PAG_CODE > 0 /\ EndPage \in Nat /\ EndPage <= TOTAL_PAGES
    /\ USER_FIRST_PAGE + NUM_PAG_DATA \in UserPages
  BY FirstAssumption, PointerTypes DEF Slots, EndPage, UserPages

\* The calls of main, by place.
LEMMA FirstCalls ==
    /\ Len(main_E1) = 12 /\ DOMAIN main_E1 = 1 .. 12
    /\ main_E1[1] = "set_eflags" /\ main_E1[2] = "setGdt" /\ main_E1[3] = "setIdt"
    /\ main_E1[4] = "setTSS" /\ main_E1[5] = "init_mm"
    /\ main_E1[6] = "monoprocess_init_addr_space" /\ main_E1[7] = "init_sched"
    /\ main_E1[8] = "init_idle" /\ main_E1[9] = "init_task1"
    /\ main_E1[10] = "copy_data" /\ main_E1[11] = "enable_int"
    /\ main_E1[12] = "return_gate"
  BY DEF main_E1

LEMMA FirstCallAt ==
    ASSUME place \in 1 .. 13
    PROVE  /\ at_call("set_eflags") => place = 1
           /\ at_call("setGdt") => place = 2
           /\ at_call("setIdt") => place = 3
           /\ at_call("setTSS") => place = 4
           /\ at_call("init_mm") => place = 5
           /\ at_call("monoprocess_init_addr_space") => place = 6
           /\ at_call("init_sched") \/ at_call("init_idle") \/ at_call("init_task1")
                 => place \in 7 .. 9
           /\ at_call("copy_data") => place = 10
           /\ at_call("enable_int") => place = 11
           /\ at_call("return_gate") => place = 12
           /\ InProgram <=> place = 13
           /\ InKernel <=> place \in 1 .. 12
  BY FirstCalls DEF at_call, InKernel, InProgram

\* What the processor has been told, by place.
Told ==
    /\ stack0 \in [tss : Int, msr : Int]
    /\ place <= 2 => told = {}
    /\ place = 3 => told = {"gdt"}
    /\ place > 3 => "gdt" \in told /\ "idt" \in told /\ stack0.msr = KernelStack
    /\ place = 4 => told = {"gdt", "idt"}
    /\ place > 4 => told = {"gdt", "idt", "tss"} /\ stack0.tss = KernelStack

\* The pages of a table that maps the program.
Maps(tbl, used) ==
    /\ \A pag \in UserPages :
          /\ tbl[pag].present /\ tbl[pag].user /\ (tbl[pag].rw <=> pag \in DataPages)
          /\ tbl[pag].frame \in used \ KernelPages
    /\ \A p, q \in UserPages : tbl[p].frame = tbl[q].frame => p = q
    /\ \A pag \in Frames \ UserPages : ~tbl[pag].user

\* The address space, by place.
Space ==
    /\ place > 5 => dir_of_0 = 0 /\ cr3 = 0 /\ paging
    /\ place = 6 => phys_mem = KernelPages /\ pagusr_table = [s \in Slots |-> init_table_pages]
    /\ place > 6 => Maps(pagusr_table[0], phys_mem)
    /\ place > 10 => \A pag \in UserPages : program[pag] = pagusr_table[0][pag].frame

FInv ==
    /\ place \in 1 .. 13 /\ delivery = "E2"
    /\ interrupts => place > 11
    /\ Told /\ Space

\* The pages of the program are among those of the table; data comes first.
LEMMA ProgramPages ==
    ASSUME delivery = "E2"
    PROVE  /\ DataPages = USER_FIRST_PAGE .. USER_FIRST_PAGE + NUM_PAG_DATA - 1
           /\ UserPages \subseteq Frames
           /\ FirstData + NUM_PAG_DATA \in UserPages
  BY FirstConstants, PointerTypes
     DEF DataPages, FirstData, Shared, UserPages, Frames, EndPage

\* set_user_pages maps every user page to a frame of its own.
LEMMA SetUserPages ==
    ASSUME delivery = "E2", phys_mem = KernelPages, dir_of_0 = 0,
           pagusr_table = [s \in Slots |-> init_table_pages],
           NEW alloc \in [UserPages -> free], allocated(alloc)
    PROVE  Maps(set_user_pages(alloc), phys_mem \cup {alloc[pag] : pag \in UserPages})
  <1> DEFINE tbl == set_user_pages(alloc)
  <1>1. \A pag \in UserPages : /\ pag \in Frames /\ tbl[pag].frame = alloc[pag]
                              /\ tbl[pag].present /\ tbl[pag].user
                              /\ (tbl[pag].rw <=> pag \in DataPages)
    BY ProgramPages DEF set_user_pages
  <1>2. \A pag \in UserPages : alloc[pag] \in Frames \ KernelPages
    BY DEF free, AllocFrames
  <1>3. ASSUME NEW p \in UserPages, NEW q \in UserPages, alloc[p] = alloc[q]
        PROVE  p = q
    <2>1. p \in Int /\ q \in Int /\ alloc[p] \in Int
      BY <1>1, <1>2, <1>3 DEF Frames
    <2>2. ~before(p, q) /\ ~before(q, p)
      BY <1>3, <2>1 DEF allocated
    <2> QED  BY <2>1, <2>2 DEF before
  <1>4. ASSUME NEW pag \in Frames \ UserPages PROVE ~tbl[pag].user
    BY <1>4, FirstConstants DEF set_user_pages, init_table_pages, NoEntry
  <1> HIDE DEF tbl
  <1>5. \A p, q \in UserPages : tbl[p].frame = tbl[q].frame => p = q
    BY <1>1, <1>3
  <1> QED  BY <1>1, <1>2, <1>4, <1>5 DEF Maps, tbl

\* What only the memory side of a step needs: the layout does not change.
LEMMA SameLayout ==
    ASSUME delivery' = delivery
    PROVE  DataPages' = DataPages /\ CodePages' = CodePages /\ FirstData' = FirstData
  BY DEF DataPages, CodePages, FirstData, Shared

\* A step that leaves the address space alone keeps it right where the
\* place asks for no more of it than before.
LEMMA SpaceStays ==
    ASSUME FInv, delivery' = delivery,
           UNCHANGED <<phys_mem, pagusr_table, dir_of_0, cr3, paging, program>>,
           \/ place' = place
           \/ place' \in 1 .. 5
           \/ place' = place + 1 /\ place > 6 /\ place # 10
    PROVE  Space'
  <1>1. place \in 1 .. 13 /\ Space  BY DEF FInv
  <1>2. DataPages' = DataPages  BY SameLayout
  <1>3. Maps(pagusr_table[0], phys_mem) => Maps(pagusr_table[0], phys_mem)'
    BY <1>2 DEF Maps
  <1> QED  BY <1>1, <1>3 DEF Space

\* The calls that set up the tables of the processor.
LEMMA TablesStep ==
    ASSUME FInv, FirstSetEflags \/ FirstSetGdt \/ FirstSetIdt \/ FirstSetTSS
    PROVE  FInv'
  <1> USE FirstCallAt
  <1>1. place \in 1 .. 13 /\ Told /\ delivery = "E2" /\ (interrupts => place > 11)
    BY DEF FInv
  <1>2. CASE FirstSetEflags
    <2>1. place = 1 /\ place' = 2 /\ delivery' = delivery
      BY <1>1, <1>2 DEF FirstSetEflags, next_call, pointer_vars
    <2>2. Told'  BY <1>1, <1>2, <2>1 DEF FirstSetEflags, Told
    <2>3. Space'  BY <1>2, <2>1, SpaceStays DEF FirstSetEflags
    <2> QED  BY <1>1, <1>2, <2>1, <2>2, <2>3 DEF FInv, FirstSetEflags
  <1>3. CASE FirstSetGdt
    <2>1. place = 2 /\ place' = 3 /\ delivery' = delivery
      BY <1>1, <1>3 DEF FirstSetGdt, next_call, pointer_vars
    <2>2. Told'  BY <1>1, <1>3, <2>1 DEF FirstSetGdt, Told
    <2>3. Space'  BY <1>3, <2>1, SpaceStays DEF FirstSetGdt
    <2> QED  BY <1>1, <1>3, <2>1, <2>2, <2>3 DEF FInv, FirstSetGdt
  <1>4. CASE FirstSetIdt
    <2>1. place = 3 /\ place' = 4 /\ delivery' = delivery
      BY <1>1, <1>4 DEF FirstSetIdt, next_call, pointer_vars
    <2>2. Told'  BY <1>1, <1>4, <2>1 DEF FirstSetIdt, Told, KernelStack
    <2>3. Space'  BY <1>4, <2>1, SpaceStays DEF FirstSetIdt
    <2> QED  BY <1>1, <1>4, <2>1, <2>2, <2>3 DEF FInv, FirstSetIdt
  <1>5. CASE FirstSetTSS
    <2>1. place = 4 /\ told = {"gdt", "idt"} /\ stack0.msr = KernelStack
      BY <1>1, <1>5 DEF FirstSetTSS, Told
    <2>2. place' = 5 /\ delivery' = delivery
      BY <1>5, <2>1 DEF FirstSetTSS, next_call, pointer_vars
    <2>3. Told'  BY <1>1, <1>5, <2>1, <2>2 DEF FirstSetTSS, Told, KernelStack
    <2>4. Space'  BY <1>5, <2>1, <2>2, SpaceStays DEF FirstSetTSS
    <2> QED  BY <1>1, <1>5, <2>1, <2>2, <2>3, <2>4 DEF FInv, FirstSetTSS
  <1> QED  BY <1>2, <1>3, <1>4, <1>5

\* The calls that make the address space.
LEMMA MemoryStep ==
    ASSUME FInv, FirstInitMm \/ monoprocess_init_addr_space \/ CopyProgram
    PROVE  FInv'
  <1> USE FirstCallAt
  <1>1. /\ place \in 1 .. 13 /\ Told /\ delivery = "E2" /\ (interrupts => place > 11)
        /\ Space
    BY DEF FInv
  <1>2. CASE FirstInitMm
    <2>1. place = 5 /\ place' = 6 /\ delivery' = delivery
      BY <1>1, <1>2 DEF FirstInitMm, next_call, pointer_vars
    <2>2. Told'  BY <1>1, <1>2, <2>1 DEF FirstInitMm, Told
    <2>3. Space'  BY <1>2, <2>1 DEF FirstInitMm, Space, init_frames, allocate_DIR
    <2> QED  BY <1>1, <1>2, <2>1, <2>2, <2>3 DEF FInv, FirstInitMm
  <1>3. CASE monoprocess_init_addr_space
    <2>1. /\ place = 6 /\ dir_of_0 = 0 /\ cr3 = 0 /\ paging /\ phys_mem = KernelPages
          /\ pagusr_table = [s \in Slots |-> init_table_pages]
      BY <1>1, <1>3 DEF monoprocess_init_addr_space, Space
    <2>2. PICK alloc \in [UserPages -> free] :
             /\ allocated(alloc)
             /\ pagusr_table' = [pagusr_table EXCEPT ![dir_of_0] = set_user_pages(alloc)]
             /\ phys_mem' = phys_mem \cup {alloc[pag] : pag \in UserPages}
             /\ cr3' = dir_of_0 /\ next_call
             /\ UNCHANGED <<told, stack0, dir_of_0, paging, program, interrupts>>
      <3>1. ~(dir_of_0 = NoDir)  BY <2>1 DEF NoDir
      <3> QED  BY <1>3, <3>1, Zenon DEF monoprocess_init_addr_space
    <2>3. place' = 7 /\ delivery' = delivery
      BY <2>1, <2>2 DEF next_call, pointer_vars
    <2>4. Maps(set_user_pages(alloc), phys_mem \cup {alloc[pag] : pag \in UserPages})
      BY <1>1, <2>1, <2>2, SetUserPages
    <2>5. pagusr_table'[0] = set_user_pages(alloc)
      BY <2>1, <2>2, FirstConstants
    <2>6. Maps(pagusr_table[0], phys_mem)'
      BY <2>2, <2>3, <2>4, <2>5, SameLayout DEF Maps
    <2>7. Space'  BY <2>1, <2>2, <2>3, <2>6 DEF Space
    <2>8. Told'  BY <1>1, <2>1, <2>2, <2>3 DEF Told
    <2> QED  BY <1>1, <2>1, <2>2, <2>3, <2>7, <2>8 DEF FInv
  <1>4. CASE CopyProgram
    <2>1. /\ place = 10 /\ paging /\ cr3 = 0 /\ Maps(pagusr_table[0], phys_mem)
      BY <1>1, <1>4 DEF CopyProgram, Space
    <2>2. \A pag \in UserPages : entry(pag) = pagusr_table[0][pag] /\ entry(pag).present
      BY <1>1, <2>1, ProgramPages DEF entry, Maps
    <2>3. /\ place' = 11 /\ delivery' = delivery
          /\ program' = [pag \in UserPages |-> entry(pag).frame]
          /\ UNCHANGED <<told, stack0, phys_mem, pagusr_table, dir_of_0, cr3, paging, interrupts>>
      <3>1. ~(~paging \/ \E pag \in UserPages : ~entry(pag).present)
        BY <2>1, <2>2
      <3>2. /\ program' = [pag \in UserPages |-> entry(pag).frame] /\ next_call
            /\ UNCHANGED <<told, stack0, phys_mem, pagusr_table, dir_of_0, cr3, paging, interrupts>>
        BY <1>4, <3>1 DEF CopyProgram
      <3> QED  BY <2>1, <3>2 DEF next_call, pointer_vars
    <2>4. \A pag \in UserPages : program'[pag] = pagusr_table'[0][pag].frame
      BY <2>2, <2>3
    <2>5. Maps(pagusr_table[0], phys_mem)'
      BY <2>1, <2>3, SameLayout DEF Maps
    <2>6. Space'  BY <1>1, <2>1, <2>3, <2>4, <2>5 DEF Space
    <2>7. Told'  BY <1>1, <2>1, <2>3 DEF Told
    <2> QED  BY <1>1, <2>1, <2>3, <2>6, <2>7 DEF FInv
  <1> QED  BY <1>2, <1>3, <1>4

\* The empty calls, and the two that lead to user mode.
LEMMA LastCallsStep ==
    ASSUME FInv, EmptyCalls \/ FirstEnableInt \/ FirstReturnGate
    PROVE  FInv'
  <1> USE FirstCallAt
  <1>1. /\ place \in 1 .. 13 /\ Told /\ delivery = "E2" /\ (interrupts => place > 11)
        /\ Space
    BY DEF FInv
  <1>2. CASE EmptyCalls
    <2>1. place \in 7 .. 9 /\ place' = place + 1 /\ delivery' = delivery
      BY <1>1, <1>2 DEF EmptyCalls, next_call, pointer_vars
    <2>2. UNCHANGED kernel_vars  BY <1>2 DEF EmptyCalls
    <2>3. Told'  BY <1>1, <2>1, <2>2 DEF kernel_vars, Told
    <2>4. Space'  BY <2>1, <2>2, SpaceStays DEF kernel_vars
    <2> QED  BY <1>1, <2>1, <2>2, <2>3, <2>4 DEF FInv, kernel_vars
  <1>3. CASE FirstEnableInt
    <2>1. place = 11 /\ place' = 12 /\ delivery' = delivery
      BY <1>1, <1>3 DEF FirstEnableInt, next_call, pointer_vars
    <2>2. Told'  BY <1>1, <1>3, <2>1 DEF FirstEnableInt, Told
    <2>3. Space'  BY <1>3, <2>1, SpaceStays DEF FirstEnableInt
    <2> QED  BY <1>1, <1>3, <2>1, <2>2, <2>3 DEF FInv
  <1>4. CASE FirstReturnGate
    <2>1. place = 12 /\ paging /\ cr3 = 0 /\ Maps(pagusr_table[0], phys_mem)
      BY <1>1, <1>4 DEF FirstReturnGate, Space
    <2>2. entry(FirstData + NUM_PAG_DATA).user
      BY <1>1, <2>1, ProgramPages DEF entry, Maps
    <2>3. place' = 13 /\ delivery' = delivery /\ UNCHANGED kernel_vars
      BY <1>4, <2>1, <2>2 DEF FirstReturnGate, next_call, pointer_vars
    <2>4. Told'  BY <1>1, <2>1, <2>3 DEF kernel_vars, Told
    <2>5. Space'  BY <2>1, <2>3, SpaceStays DEF kernel_vars
    <2> QED  BY <1>1, <2>1, <2>3, <2>4, <2>5 DEF FInv, kernel_vars
  <1> QED  BY <1>2, <1>3, <1>4

\* Interrupts, calls and faults change nothing of the kernel's set-up.
LEMMA RunningStep ==
    ASSUME FInv,
           \/ ClockRoutine \/ sys_gettime \/ WriteReturns
           \/ Runs /\ \E addr \in 0 .. Words - 1, n \in Sizes : Write(addr, n)
           \/ Runs /\ \E eip \in 0 .. Words - 1, pag \in 0 .. page(Words - 1), wr \in BOOLEAN :
                 ProgramFault(eip, pag, wr)
           \/ UNCHANGED first_vars
    PROVE  FInv'
  <1>1. place \in 1 .. 13 /\ Told /\ delivery = "E2" /\ (interrupts => place > 11)
    BY DEF FInv
  <1>2. "idt" \in told \/ ~(InProgram \/ (InKernel /\ interrupts))
    BY <1>1, FirstCallAt DEF Told
  <1>3. place' = place /\ delivery' = delivery /\ UNCHANGED kernel_vars
    <2>1. CASE ClockRoutine
      BY <1>2, <2>1 DEF ClockRoutine, pointer_vars
    <2>2. CASE sys_gettime
      BY <2>2 DEF sys_gettime, pointer_vars
    <2>3. CASE WriteReturns
      BY <2>3 DEF WriteReturns, Answered
    <2>4. CASE Runs /\ \E addr \in 0 .. Words - 1, n \in Sizes : Write(addr, n)
      BY <2>4 DEF Write, SysWrite, pf_routine
    <2>5. CASE /\ Runs
               /\ \E eip \in 0 .. Words - 1, pag \in 0 .. page(Words - 1), wr \in BOOLEAN :
                     ProgramFault(eip, pag, wr)
      BY <2>5 DEF ProgramFault, pf_routine, pointer_vars
    <2>6. CASE UNCHANGED first_vars
      BY <2>6 DEF first_vars, first_kernel_vars, pointer_vars
    <2> QED  BY <2>1, <2>2, <2>3, <2>4, <2>5, <2>6
  <1>4. Told'  BY <1>1, <1>3 DEF Told, kernel_vars
  <1>5. Space'  BY <1>3, SpaceStays DEF kernel_vars
  <1> QED  BY <1>1, <1>3, <1>4, <1>5 DEF FInv, kernel_vars

LEMMA FirstInvariant == FirstSpec => []FInv
  <1>1. FirstInit => FInv
    BY DEF FirstInit, FirstKernelInit, FInv, Told, Space, NoDir
  <1>2. FInv /\ [FirstNext]_first_vars => FInv'
    BY TablesStep, MemoryStep, LastCallsStep, RunningStep DEF FirstNext
  <1> QED  BY <1>1, <1>2, PTL DEF FirstSpec

\* For every layout main of E1 reaches its program, and the program finds
\* its pages, the frames behind them and the ways into the kernel right.
THEOREM FirstSound == FirstSpec => []FirstStartsSound
  <1>1. ASSUME FInv PROVE FirstStartsSound
    <2>1. place \in 1 .. 13 /\ delivery = "E2" /\ Told /\ Space  BY <1>1 DEF FInv
    <2>2. place # Lost  BY <2>1 DEF Lost
    <2>3. ASSUME InProgram
          PROVE  /\ told = {"gdt", "idt", "tss"} /\ stack0.tss = stack0.msr /\ paging
                 /\ \A pag \in UserPages :
                       /\ allowed(pag, FALSE) /\ (allowed(pag, TRUE) <=> pag \in DataPages)
                       /\ entry(pag).frame \in phys_mem \ KernelPages
                       /\ program[pag] = entry(pag).frame
                 /\ \A p, q \in UserPages : entry(p).frame = entry(q).frame => p = q
                 /\ \A pag \in Frames \ UserPages : ~allowed(pag, FALSE)
      <3>1. place = 13  BY <2>1, <2>3, FirstCallAt
      <3>2. told = {"gdt", "idt", "tss"} /\ stack0.tss = stack0.msr
        BY <2>1, <3>1 DEF Told
      <3>3. /\ cr3 = 0 /\ paging /\ Maps(pagusr_table[0], phys_mem)
            /\ \A pag \in UserPages : program[pag] = pagusr_table[0][pag].frame
        BY <2>1, <3>1 DEF Space
      <3>4. \A pag \in Frames : entry(pag) = pagusr_table[0][pag]
        BY <3>3 DEF entry
      <3>5. UserPages \subseteq Frames  BY <2>1, ProgramPages
      <3> QED  BY <3>2, <3>3, <3>4, <3>5 DEF Maps, allowed
    <2> QED  BY <2>2, <2>3 DEF FirstStartsSound
  <1> QED  BY <1>1, FirstInvariant, PTL

\* Whatever stops E1, the program is to blame.
LEMMA FaultIsOfProgram == FirstSpec => [](report # <<>> => BlamesProgram)
  <1> DEFINE Blame == report # <<>> => BlamesProgram
             Guilty(pag, wr) == pag \in UserPages => wr /\ pag \in CodePages
  <1>1. FirstInit => Blame
    BY DEF FirstInit, FirstKernelInit
  <1>2. ASSUME FInv, Blame, [FirstNext]_first_vars PROVE Blame'
    <2>1. /\ place \in 1 .. 13 /\ delivery = "E2"
          /\ (InProgram => cr3 = 0 /\ Maps(pagusr_table[0], phys_mem))
      BY <1>2, FirstCallAt DEF FInv, Space
    <2>2. delivery' = delivery => CodePages' = CodePages
      BY SameLayout
    <2>3. CASE UNCHANGED <<report, fault, place, delivery>>
      BY <1>2, <2>2, <2>3 DEF BlamesProgram, InProgram
    <2>4. CASE UNCHANGED <<report, fault, delivery>> /\ report = <<>>
      BY <2>4
    <2>5. ASSUME NEW eip, NEW pag, NEW wr, InProgram,
                 delivery' = delivery, pf_routine(eip, pag, wr),
                 Guilty(pag, wr)
          PROVE  Blame'
      <3>1. place' = place /\ fault' = [eip |-> eip, page |-> pag, write |-> wr]
        BY <2>5 DEF pf_routine
      <3>2. InProgram' /\ CodePages' = CodePages
        BY <2>2, <2>5, <3>1 DEF InProgram
      <3> QED  BY <2>5, <3>1, <3>2 DEF BlamesProgram
    <2>6. \A pag \in UserPages :
             /\ InProgram => entry(pag) = pagusr_table[0][pag]
             /\ pag \in CodePages \/ pag \in DataPages
      BY <2>1, ProgramPages DEF entry, CodePages, UserPages
    <2>7. CASE Runs /\ \E addr \in 0 .. Words - 1, n \in Sizes : Write(addr, n)
      <3>1. PICK addr \in 0 .. Words - 1, n \in Sizes : Write(addr, n)
        BY <2>7
      <3>2. InProgram /\ delivery' = delivery
        BY <2>7, <3>1 DEF Write, Runs, SysWrite
      <3>3. CASE UNCHANGED <<place, kernel_vars, zeos_ticks, report, fault>>
        BY <2>3, <3>2, <3>3
      <3>4. CASE \E pag \in {p \in touched' : ~entry(p).present},
                    eip \in 0 .. NUM_PAG_KERNEL * PAGE_SIZE - 1 : pf_routine(eip, pag, FALSE)
        <4>1. PICK pag \in {p \in touched' : ~entry(p).present},
                   eip \in 0 .. NUM_PAG_KERNEL * PAGE_SIZE - 1 : pf_routine(eip, pag, FALSE)
          BY <3>4
        <4>2. pag \notin UserPages
          BY <2>1, <2>6, <3>2, <4>1 DEF Maps
        <4>3. Guilty(pag, FALSE)  BY <4>2
        <4>4. pf_routine(eip, pag, FALSE)  BY <4>1
        <4> HIDE DEF Blame, Guilty
        <4> QED  BY <2>5, <3>2, <4>3, <4>4, Zenon
      <3> QED  BY <3>1, <3>3, <3>4 DEF Write
    <2>8. CASE /\ Runs
               /\ \E eip \in 0 .. Words - 1, pag \in 0 .. page(Words - 1), wr \in BOOLEAN :
                     ProgramFault(eip, pag, wr)
      <3>1. PICK eip \in 0 .. Words - 1, pag \in 0 .. page(Words - 1), wr \in BOOLEAN :
                   ProgramFault(eip, pag, wr)
        BY <2>8
      <3>2. /\ InProgram /\ delivery' = delivery /\ ~allowed(pag, wr)
            /\ pf_routine(eip, pag, wr)
        BY <2>8, <3>1 DEF ProgramFault, Runs, pointer_vars
      <3>3. CASE pag \notin UserPages
        <4>1. Guilty(pag, wr)  BY <3>3
        <4> HIDE DEF Blame, Guilty
        <4> QED  BY <2>5, <3>2, <4>1, Zenon
      <3>4. CASE pag \in UserPages
        <4>1. /\ entry(pag).present /\ entry(pag).user
              /\ entry(pag).rw <=> pag \in DataPages
          BY <2>1, <2>6, <3>2, <3>4 DEF Maps
        <4>2. wr /\ ~entry(pag).rw
          BY <3>2, <4>1, Zenon DEF allowed
        <4>3. pag \in CodePages  BY <2>6, <3>4, <4>1, <4>2
        <4>4. Guilty(pag, wr)  BY <4>2, <4>3
        <4> HIDE DEF Blame, Guilty
        <4> QED  BY <2>5, <3>2, <4>4, Zenon
      <3> QED  BY <3>3, <3>4
    <2>9. ASSUME InKernel,
                 \/ FirstSetEflags \/ FirstSetGdt \/ FirstSetIdt \/ FirstSetTSS
                 \/ FirstInitMm \/ monoprocess_init_addr_space \/ EmptyCalls
                 \/ CopyProgram \/ FirstEnableInt \/ FirstReturnGate
          PROVE  Blame'
      <3>1. UNCHANGED <<report, fault, delivery>>
        BY <2>9 DEF FirstSetEflags, FirstSetGdt, FirstSetIdt, FirstSetTSS, FirstInitMm,
           monoprocess_init_addr_space, EmptyCalls, CopyProgram, FirstEnableInt,
           FirstReturnGate, next_call, lost, answers, pointer_vars
      <3>2. report = <<>>
        BY <1>2, <2>1, <2>9, FirstCallAt DEF BlamesProgram
      <3> QED  BY <2>4, <3>1, <3>2
    <2>10. CASE ClockRoutine
      <3>1. UNCHANGED <<report, fault, delivery>> /\ report = <<>>
        BY <2>10 DEF ClockRoutine, lost, answers, pointer_vars
      <3> QED  BY <2>4, <3>1
    <2>11. CASE sys_gettime \/ WriteReturns
      BY <2>3, <2>11 DEF sys_gettime, WriteReturns, Answered, answers, pointer_vars
    <2>12. CASE UNCHANGED first_vars
      BY <2>3, <2>12 DEF first_vars, first_kernel_vars, answers, pointer_vars
    <2> QED
      BY <1>2, <2>7, <2>8, <2>9, <2>10, <2>11, <2>12
      DEF FirstNext, FirstSetEflags, FirstSetGdt, FirstSetIdt, FirstSetTSS, FirstInitMm,
          monoprocess_init_addr_space, EmptyCalls, CopyProgram, FirstEnableInt,
          FirstReturnGate, at_call
  <1> QED  BY <1>1, <1>2, FirstInvariant, PTL DEF FirstSpec

-----------------------------------------------------------------------------
(* long_to_char of E1.  What a recursive function computes is an induction *)
(* over numbers, which here is the well-foundedness of <: a set that holds *)
(* 0, and n + 1 with every n, is all of Nat.                               *)

\* A set of numbers has a least one, by the well-foundedness of <.
LEMMA Least ==
    ASSUME NEW T \in SUBSET Nat, T # {}
    PROVE  \E x \in T : \A y \in T : x <= y
  <1> DEFINE R == OpToRel(<, Nat)
  <1>1. IsWellFoundedOn(R, Nat)  BY NatLessThanWellFounded
  <1>2. \A x, y \in Nat : x < y => <<x, y>> \in R  BY DEF OpToRel
  <1> HIDE DEF R
  <1>3. PICK x \in T : \A y \in T : ~ (<<y, x>> \in R)  BY <1>1, WFMin
  <1>4. \A y \in T : y \in Nat /\ x \in Nat /\ ~ (y < x)  BY <1>2, <1>3
  <1>5. \A y \in T : x <= y  BY <1>4
  <1> QED  BY <1>5

\* Induction, for a set of numbers.
LEMMA Induction ==
    ASSUME NEW T, 0 \in T, \A n \in Nat : n \in T => n + 1 \in T
    PROVE  Nat \subseteq T
  <1> SUFFICES ASSUME NEW m \in Nat \ T PROVE FALSE  OBVIOUS
  <1> DEFINE C == Nat \ T
  <1>1. PICK x \in C : \A y \in C : x <= y  BY Least
  <1>2. x # 0 /\ x - 1 \in Nat /\ x - 1 \notin C  BY <1>1
  <1> QED  BY <1>1, <1>2

LEMMA RadixIs == Radix \in Nat /\ Radix >= 2
  BY FirstAssumption

\* The three recursive functions of long_to_char and number: what satisfies
\* their equations, and that something does.
IsUpto(u, s) == u = [n \in 0 .. Len(s) |-> IF n = 0 THEN 0 ELSE Radix * u[n - 1] + s[n]]
IsStored(st, num) ==
    st = [n \in 0 .. num |-> IF n < Radix THEN <<n>> ELSE <<n % Radix>> \o st[n \div Radix]]
exchanged(f, k, l) == [f EXCEPT ![k] = f[l], ![l] = f[k]]
IsSwapped(sw, s, i, m) ==
    sw = [k \in 0 .. m |->
            IF k = 0 THEN s
            ELSE exchanged(sw[k - 1], k, i + 1 - k)]

LEMMA StoredExists == ASSUME NEW num \in Nat PROVE \E st : IsStored(st, num)
  <1> DEFINE T == {m \in Nat : \E st : IsStored(st, m)}
  <1>1. 0 \in T
    <2>1. IsStored([n \in 0 .. 0 |-> <<0>>], 0)  BY RadixIs DEF IsStored
    <2> QED  BY <2>1
  <1>2. ASSUME NEW m \in Nat, m \in T PROVE m + 1 \in T
    <2>1. PICK g : IsStored(g, m)  BY <1>2
    <2> DEFINE h == [n \in 0 .. m + 1 |->
                       IF n = m + 1 THEN IF n < Radix THEN <<n>> ELSE <<n % Radix>> \o g[n \div Radix]
                       ELSE g[n]]
    <2>2. \A n \in 0 .. m + 1 : n >= Radix => n \div Radix \in 0 .. m /\ n \div Radix # m + 1
      BY RadixIs
    <2>3. IsStored(h, m + 1)
      <3>1. ASSUME NEW n \in 0 .. m + 1
            PROVE  h[n] = IF n < Radix THEN <<n>> ELSE <<n % Radix>> \o h[n \div Radix]
        <4>1. n >= Radix => h[n \div Radix] = g[n \div Radix]  BY <2>2
        <4>2. CASE n = m + 1
          <5>1. h[n] = IF n < Radix THEN <<n>> ELSE <<n % Radix>> \o g[n \div Radix]
            BY <4>2
          <5>2. n < Radix \/ n >= Radix
            BY RadixIs
          <5> HIDE DEF h
          <5> QED  BY <4>1, <5>1, <5>2
        <4>3. CASE n # m + 1
          <5>1. n \in 0 .. m /\ h[n] = g[n]
            BY <4>3
          <5>2. g[n] = IF n < Radix THEN <<n>> ELSE <<n % Radix>> \o g[n \div Radix]
            BY <2>1, <5>1 DEF IsStored
          <5>3. n < Radix \/ n >= Radix
            BY RadixIs
          <5> HIDE DEF h
          <5> QED  BY <4>1, <5>1, <5>2, <5>3
        <4> QED  BY <4>2, <4>3
      <3> HIDE DEF h
      <3>2. h = [n \in 0 .. m + 1 |-> h[n]]  BY DEF h
      <3> QED  BY <3>1, <3>2 DEF IsStored
    <2> QED  BY <2>3
  <1> HIDE DEF T
  <1>3. num \in T  BY <1>1, <1>2, Induction
  <1> QED  BY <1>3 DEF T

LEMMA UptoExists == ASSUME NEW s \in Seq(Nat) PROVE \E u : IsUpto(u, s)
  <1> DEFINE G(u, m) == u = [n \in 0 .. m |-> IF n = 0 THEN 0 ELSE Radix * u[n - 1] + s[n]]
             T == {m \in Nat : \E u : G(u, m)}
  <1>1. 0 \in T
    <2>1. G([n \in 0 .. 0 |-> 0], 0)  OBVIOUS
    <2> QED  BY <2>1
  <1>2. ASSUME NEW m \in Nat, m \in T PROVE m + 1 \in T
    <2>1. PICK g : G(g, m)  BY <1>2
    <2> DEFINE h == [n \in 0 .. m + 1 |-> IF n = m + 1 THEN Radix * g[m] + s[m + 1] ELSE g[n]]
    <2>2. G(h, m + 1)
      <3>1. ASSUME NEW n \in 0 .. m + 1
            PROVE  h[n] = IF n = 0 THEN 0 ELSE Radix * h[n - 1] + s[n]
        <4>1. CASE n = m + 1  BY <4>1
        <4>2. CASE n # m + 1
          <5>1. h[n] = g[n] /\ (n # 0 => h[n - 1] = g[n - 1])  BY <4>2
          <5>2. g[n] = IF n = 0 THEN 0 ELSE Radix * g[n - 1] + s[n]  BY <2>1, <4>2
          <5> QED  BY <5>1, <5>2
        <4> QED  BY <4>1, <4>2
      <3> HIDE DEF h
      <3>2. h = [n \in 0 .. m + 1 |-> h[n]]  BY DEF h
      <3> QED  BY <3>1, <3>2
    <2>3. \E u : G(u, m + 1)  BY <2>2
    <2> HIDE DEF G
    <2> QED  BY <2>3
  <1>3. PICK u : G(u, Len(s))
    <2>1. Nat \subseteq T
      <3> HIDE DEF T
      <3> QED  BY <1>1, <1>2, Induction
    <2>2. Len(s) \in T  BY <2>1
    <2> HIDE DEF G
    <2> QED  BY <2>2
  <1> QED  BY <1>3 DEF IsUpto

LEMMA NumberIs ==
    ASSUME NEW s \in Seq(Nat), NEW u, IsUpto(u, s)
    PROVE  number(s) = u[Len(s)]
  <1>1. PICK v : IsUpto(v, s) /\ number(s) = v[Len(s)]
    <2>1. PICK w : IsUpto(w, s)  BY UptoExists
    <2> QED  BY <2>1 DEF IsUpto, number
  <1> DEFINE T == {m \in Nat : m <= Len(s) => u[m] = v[m]}
  <1>2. 0 \in T  BY <1>1 DEF IsUpto
  <1>3. ASSUME NEW m \in Nat, m \in T PROVE m + 1 \in T
    <2>1. CASE m + 1 <= Len(s)
      <3>1. m + 1 \in 0 .. Len(s) /\ u[m] = v[m]  BY <1>3, <2>1
      <3>2. u[m + 1] = Radix * u[m] + s[m + 1]  BY <3>1 DEF IsUpto
      <3>3. v[m + 1] = Radix * v[m] + s[m + 1]  BY <1>1, <3>1 DEF IsUpto
      <3> QED  BY <3>1, <3>2, <3>3
    <2> QED  BY <2>1
  <1>4. Nat \subseteq T
    <2> HIDE DEF T
    <2> QED  BY <1>2, <1>3, Induction
  <1>5. Len(s) \in T  BY <1>4
  <1> QED  BY <1>1, <1>5

LEMMA NumberAppend ==
    ASSUME NEW s \in Seq(Nat), NEW d \in Nat
    PROVE  number(Append(s, d)) = Radix * number(s) + d
  <1>1. PICK u : IsUpto(u, s)  BY UptoExists
  <1>2. PICK t : t = Append(s, d)  OBVIOUS
  <1>3. /\ t \in Seq(Nat) /\ Len(t) = Len(s) + 1 /\ t[Len(s) + 1] = d
        /\ \A n \in 1 .. Len(s) : t[n] = s[n]
    BY <1>2
  <1>4. PICK v : v = [n \in 0 .. Len(s) + 1 |-> IF n = Len(s) + 1 THEN Radix * u[Len(s)] + d ELSE u[n]]
    OBVIOUS
  <1>5. ASSUME NEW n \in 0 .. Len(t)
        PROVE  v[n] = IF n = 0 THEN 0 ELSE Radix * v[n - 1] + t[n]
    <2>1. CASE n = Len(s) + 1
      BY <1>3, <1>4, <2>1
    <2>2. CASE n # Len(s) + 1
      <3>1. n \in 0 .. Len(s) /\ v[n] = u[n] /\ (n # 0 => v[n - 1] = u[n - 1] /\ t[n] = s[n])
        BY <1>3, <1>4, <2>2
      <3>2. u[n] = IF n = 0 THEN 0 ELSE Radix * u[n - 1] + s[n]
        BY <1>1, <3>1 DEF IsUpto
      <3> QED  BY <3>1, <3>2
    <2> QED  BY <2>1, <2>2
  <1>6. v = [n \in 0 .. Len(t) |-> v[n]]
    BY <1>3, <1>4
  <1>7. IsUpto(v, t)
    BY <1>5, <1>6 DEF IsUpto
  <1>8. number(t) = v[Len(t)]  BY <1>3, <1>7, NumberIs
  <1>9. number(s) = u[Len(s)]  BY <1>1, NumberIs
  <1> QED  BY <1>2, <1>3, <1>4, <1>8, <1>9

LEMMA NumberOne == ASSUME NEW d \in Nat PROVE number(<<d>>) = d
  <1>1. <<>> \in Seq(Nat) /\ <<d>> = Append(<<>>, d)  OBVIOUS
  <1>2. IsUpto([n \in 0 .. 0 |-> 0], <<>>)  BY DEF IsUpto
  <1>3. number(<<>>) = 0  BY <1>1, <1>2, NumberIs
  <1>4. number(Append(<<>>, d)) = Radix * number(<<>>) + d  BY <1>1, NumberAppend
  <1> QED  BY <1>1, <1>3, <1>4, RadixIs

\* The digits of a number, the last one first.
reversed(s) == [j \in 1 .. Len(s) |-> s[Len(s) + 1 - j]]

LEMMA Reversing ==
    ASSUME NEW S, NEW t \in Seq(S)
    PROVE  reversed(t) \in Seq(S) /\ Len(reversed(t)) = Len(t)
  <1>1. PICK n \in Nat : n = Len(t)  OBVIOUS
  <1>2. \A j \in 1 .. n : n + 1 - j \in 1 .. n  OBVIOUS
  <1>3. \A j \in 1 .. n : t[j] \in S  BY <1>1
  <1>4. reversed(t) = [j \in 1 .. n |-> t[n + 1 - j]]  BY <1>1 DEF reversed
  <1>5. reversed(t) \in [1 .. n -> S]  BY <1>2, <1>3, <1>4
  <1> HIDE DEF reversed
  <1> QED  BY <1>1, <1>5

Digits(s, n) ==
    /\ s \in Seq(0 .. Radix - 1) /\ Len(s) >= 1
    /\ number(reversed(s)) = n
    /\ IF n = 0 THEN Len(s) = 1 ELSE s[Len(s)] # 0

LEMMA OneDigit == ASSUME NEW n \in 0 .. Radix - 1 PROVE Digits(<<n>>, n)
  <1>1. /\ <<n>> \in Seq(0 .. Radix - 1) /\ Len(<<n>>) = 1 /\ <<n>>[1] = n
        /\ reversed(<<n>>) = <<n>>
    BY DEF reversed
  <1>2. number(<<n>>) = n
    BY NumberOne, RadixIs
  <1> QED  BY <1>1, <1>2 DEF Digits

LEMMA MoreDigits ==
    ASSUME NEW q \in Nat \ {0}, NEW t, Digits(t, q), NEW r \in 0 .. Radix - 1
    PROVE  Digits(<<r>> \o t, Radix * q + r)
  <1>1. t \in Seq(0 .. Radix - 1) /\ Len(t) >= 1 /\ number(reversed(t)) = q /\ t[Len(t)] # 0
    BY DEF Digits
  <1>2. PICK s : s = <<r>> \o t  OBVIOUS
  <1>3. /\ s \in Seq(0 .. Radix - 1) /\ Len(s) = Len(t) + 1 /\ s[1] = r
        /\ \A j \in 1 .. Len(t) : s[j + 1] = t[j]
    BY <1>1, <1>2
  <1>4. reversed(s) = Append(reversed(t), r)
    <2>1. reversed(t) \in Seq(0 .. Radix - 1) /\ Len(reversed(t)) = Len(t)
      BY <1>1, Reversing
    <2>2. PICK a : a = Append(reversed(t), r)  OBVIOUS
    <2>3. /\ a \in Seq(0 .. Radix - 1) /\ Len(a) = Len(t) + 1 /\ a[Len(t) + 1] = r
          /\ \A j \in 1 .. Len(t) : a[j] = reversed(t)[j]
      <3>1. PICK b : b = reversed(t)  OBVIOUS
      <3>2. b \in Seq(0 .. Radix - 1) /\ Len(b) = Len(t) /\ a = Append(b, r)
        BY <2>1, <2>2, <3>1
      <3>3. Len(a) = Len(b) + 1 /\ a[Len(b) + 1] = r /\ \A j \in 1 .. Len(b) : a[j] = b[j]
        BY <3>2
      <3>4. a \in Seq(0 .. Radix - 1)
        BY <3>2
      <3> QED  BY <3>1, <3>2, <3>3, <3>4
    <2>4. ASSUME NEW j \in 1 .. Len(t) + 1 PROVE a[j] = s[Len(s) + 1 - j]
      <3>1. CASE j = Len(t) + 1
        BY <1>1, <1>3, <2>3, <3>1
      <3>2. CASE j # Len(t) + 1
        <4>1. j \in 1 .. Len(t) /\ Len(t) + 1 - j \in 1 .. Len(t)  BY <1>1, <3>2
        <4>2. a[j] = t[Len(t) + 1 - j]  BY <2>3, <4>1 DEF reversed
        <4>3. s[(Len(t) + 1 - j) + 1] = t[Len(t) + 1 - j]  BY <1>3, <4>1
        <4>4. (Len(t) + 1 - j) + 1 = Len(s) + 1 - j  BY <1>1, <1>3
        <4> QED  BY <4>2, <4>3, <4>4
      <3> QED  BY <3>1, <3>2
    <2>5. a = [j \in 1 .. Len(s) |-> a[j]]
      BY <1>1, <1>3, <2>3
    <2> QED  BY <1>3, <2>2, <2>4, <2>5 DEF reversed
  <1>5. reversed(t) \in Seq(Nat) /\ r \in Nat
    BY <1>1, RadixIs, Reversing
  <1>6. number(reversed(s)) = Radix * q + r
    BY <1>1, <1>4, <1>5, NumberAppend
  <1>7. Radix * q + r # 0
    BY RadixIs
  <1>8. s[Len(s)] = t[Len(t)]
    BY <1>1, <1>3
  <1> QED  BY <1>1, <1>2, <1>3, <1>6, <1>7, <1>8 DEF Digits

LEMMA StoredDigits ==
    ASSUME NEW num \in Nat, NEW st, IsStored(st, num)
    PROVE  Digits(st[num], num)
  <1> DEFINE T == {m \in Nat : \A n \in 0 .. num : n <= m => Digits(st[n], n)}
  <1>1. \A n \in 0 .. num : st[n] = IF n < Radix THEN <<n>> ELSE <<n % Radix>> \o st[n \div Radix]
    BY DEF IsStored
  <1>2. \A n \in 0 .. num : n < Radix => Digits(st[n], n)
    <2>1. ASSUME NEW n \in 0 .. num, n < Radix PROVE Digits(st[n], n)
      <3>1. st[n] = <<n>>  BY <1>1, <2>1
      <3>2. n \in 0 .. Radix - 1  BY <2>1, RadixIs
      <3> QED  BY <3>1, <3>2, OneDigit
    <2> QED  BY <2>1
  <1>3. 0 \in T
    BY <1>2, RadixIs
  <1>4. ASSUME NEW m \in Nat, m \in T PROVE m + 1 \in T
    <2>1. ASSUME NEW n \in 0 .. num, n <= m + 1, n >= Radix PROVE Digits(st[n], n)
      <3>1. PICK q, r : q = n \div Radix /\ r = n % Radix  OBVIOUS
      <3>2. q \in Int /\ r \in 0 .. Radix - 1 /\ n = Radix * q + r
        BY <3>1, RadixIs
      <3>3. q > 0
        <4>1. CASE q <= 0
          <5>1. Radix * q <= 0
            BY <3>2, <4>1, RadixIs
          <5> QED  BY <2>1, <3>2, <5>1, RadixIs
        <4> QED  BY <3>2, <4>1
      <3>4. q < n
        <4>1. Radix * q >= 2 * q
          BY <3>2, <3>3, RadixIs
        <4> QED  BY <3>2, <3>3, <4>1, RadixIs
      <3>5. q \in 0 .. num /\ q <= m /\ q \in Nat \ {0}
        BY <2>1, <3>2, <3>3, <3>4
      <3>6. Digits(st[q], q)
        BY <1>4, <3>5
      <3>7. Digits(<<r>> \o st[q], Radix * q + r)
        BY <3>2, <3>5, <3>6, MoreDigits
      <3>8. st[n] = <<r>> \o st[q]
        <4>1. st[n] = IF n < Radix THEN <<n>> ELSE <<n % Radix>> \o st[n \div Radix]
          BY <1>1
        <4>2. ~ (n < Radix)  BY <2>1, RadixIs
        <4> QED  BY <3>1, <4>1, <4>2, Zenon
      <3> QED  BY <3>2, <3>7, <3>8
    <2>2. \A n \in 0 .. num : n <= m + 1 => Digits(st[n], n)
      BY <1>2, <2>1, RadixIs
    <2> QED  BY <2>2
  <1>5. Nat \subseteq T
    <2> HIDE DEF T
    <2> QED  BY <1>3, <1>4, Induction
  <1>6. num \in T  BY <1>5
  <1> QED  BY <1>6

\* Half-way exchanged, k pairs from both ends.
halfway(s, i, k) == [j \in 1 .. i |-> IF j <= k \/ j >= i + 1 - k THEN s[i + 1 - j] ELSE s[j]]

LEMMA Exchange ==
    ASSUME NEW i \in Nat, NEW s, NEW k \in 1 .. i \div 2, NEW b, b = k - 1, NEW f, f = halfway(s, i, b),
           NEW l, l = i + 1 - k
    PROVE  exchanged(f, k, l) = halfway(s, i, k)
  <1>1. /\ k \in 1 .. i /\ i + 1 - k \in 1 .. i /\ k < i + 1 - k
    OBVIOUS
  <1>2. l = i + 1 - k  OBVIOUS
  <1>3. l \in 1 .. i /\ k < l /\ l \in Nat
    BY <1>1, <1>2
  <1>4. PICK g : g = [f EXCEPT ![k] = f[l], ![l] = f[k]]  OBVIOUS
  <1>5. f = [j \in 1 .. i |-> IF j <= k - 1 \/ j >= i + 1 - (k - 1) THEN s[i + 1 - j] ELSE s[j]]
    BY DEF halfway
  <1>6. f[l] = s[l] /\ f[k] = s[k]
    BY <1>1, <1>2, <1>3, <1>5
  <1>7. g = [j \in 1 .. i |-> IF j = l THEN f[k] ELSE IF j = k THEN f[l] ELSE f[j]]
    BY <1>1, <1>3, <1>4, <1>5
  <1>8. ASSUME NEW j \in 1 .. i
        PROVE  g[j] = IF j <= k \/ j >= i + 1 - k THEN s[i + 1 - j] ELSE s[j]
    <2>1. CASE j = l
      BY <1>2, <1>3, <1>6, <1>7, <2>1
    <2>2. CASE j = k
      BY <1>2, <1>3, <1>6, <1>7, <2>2
    <2>3. CASE j # l /\ j # k
      <3>1. g[j] = f[j]  BY <1>7, <2>3
      <3>2. (j <= k \/ j >= i + 1 - k) <=> (j <= k - 1 \/ j >= i + 1 - (k - 1))
        BY <1>2, <2>3
      <3> QED  BY <1>5, <3>1, <3>2
    <2> QED  BY <2>1, <2>2, <2>3
  <1>9. g = [j \in 1 .. i |-> g[j]]
    BY <1>7
  <1>10. g = halfway(s, i, k)
    BY <1>8, <1>9 DEF halfway
  <1> QED  BY <1>4, <1>10 DEF exchanged

backwards(s, i) == [j \in 1 .. i |-> s[i + 1 - j]]
LEMMA SwappedIs ==
    ASSUME NEW i \in Nat, NEW s, s = [j \in 1 .. i |-> s[j]],
           NEW m, m = i \div 2, NEW sw, IsSwapped(sw, s, i, m)
    PROVE  sw[m] = backwards(s, i)
  <1> DEFINE T == {n \in Nat : n <= m => sw[n] = halfway(s, i, n)}
  <1>m. m \in Nat /\ \A n \in 1 .. m : n \in 1 .. i \div 2
    OBVIOUS
  <1>1. 0 \in T
    <2>1. \A j \in 1 .. i : ~ (j <= 0 \/ j >= i + 1 - 0)
      OBVIOUS
    <2>2. halfway(s, i, 0) = [j \in 1 .. i |-> s[j]]
      BY <2>1 DEF halfway
    <2>3. sw[0] = s
      BY <1>m DEF IsSwapped
    <2> QED  BY <2>2, <2>3
  <1>2. ASSUME NEW n \in Nat, n \in T PROVE n + 1 \in T
    <2>1. CASE n + 1 <= m
      <3>1. PICK k : k = n + 1  OBVIOUS
      <3>2. k \in 1 .. m /\ k - 1 = n /\ k # 0 /\ k \in 0 .. m
        BY <1>m, <2>1, <3>1
      <3>3. sw[n] = halfway(s, i, n)
        BY <1>2, <2>1, <1>m
      <3>4. PICK f : f = sw[n]  OBVIOUS
      <3>l. PICK l : l = i + 1 - k  OBVIOUS
      <3>5. sw[k] = exchanged(f, k, l)
        BY <3>2, <3>4, <3>l DEF IsSwapped
      <3>6. f = halfway(s, i, n) /\ k \in 1 .. i \div 2 /\ n = k - 1
        BY <1>m, <3>1, <3>2, <3>3, <3>4
      <3>7. exchanged(f, k, l) = halfway(s, i, k)
        BY <3>l, <3>6, Exchange
      <3> QED  BY <3>1, <3>5, <3>7
    <2> QED  BY <2>1, <1>m
  <1>3. Nat \subseteq T
    <2> HIDE DEF T
    <2> QED  BY <1>1, <1>2, Induction
  <1>4. sw[m] = halfway(s, i, m)
    BY <1>m, <1>3
  <1>5. \A j \in 1 .. i : j <= m \/ j >= i + 1 - m \/ i + 1 - j = j
    OBVIOUS
  <1> QED  BY <1>4, <1>5 DEF halfway, backwards

LEMMA SwappedExists ==
    ASSUME NEW i \in Nat, NEW s, s = [j \in 1 .. i |-> s[j]], NEW m, m = i \div 2
    PROVE  \E sw : IsSwapped(sw, s, i, m)
  <1>1. PICK sw : sw = [k \in 0 .. m |-> halfway(s, i, k)]  OBVIOUS
  <1>2. m \in Nat /\ \A n \in 1 .. m : n \in 1 .. i \div 2
    OBVIOUS
  <1>3. ASSUME NEW k \in 0 .. m
        PROVE  sw[k] = IF k = 0 THEN s
                       ELSE exchanged(sw[k - 1], k, i + 1 - k)
    <2>1. CASE k = 0
      <3>1. \A j \in 1 .. i : ~ (j <= 0 \/ j >= i + 1 - 0)
        OBVIOUS
      <3>2. halfway(s, i, 0) = [j \in 1 .. i |-> s[j]]
        BY <3>1 DEF halfway
      <3> QED  BY <1>1, <2>1, <3>2
    <2>2. CASE k # 0
      <3>1. PICK f : f = sw[k - 1]  OBVIOUS
      <3>2. k \in 1 .. i \div 2 /\ k - 1 \in 0 .. m
        BY <1>2, <2>2
      <3>3. PICK b, l : b = k - 1 /\ l = i + 1 - k  OBVIOUS
      <3>4. f = halfway(s, i, b)
        BY <1>1, <3>1, <3>2, <3>3
      <3>5. exchanged(f, k, l) = halfway(s, i, k)
        BY <3>2, <3>3, <3>4, Exchange
      <3> QED  BY <1>1, <2>2, <3>1, <3>3, <3>5
    <2> QED  BY <2>1, <2>2
  <1>4. sw = [k \in 0 .. m |-> sw[k]]
    BY <1>1
  <1>5. IsSwapped(sw, s, i, m)
    BY <1>3, <1>4 DEF IsSwapped
  <1> QED  BY <1>5

\* The two loops of long_to_char.
LEMMA RemaindersAre ==
    ASSUME NEW num \in Nat
    PROVE  Digits(remainders(num), num)
  <1>1. PICK x : x = CHOOSE st : st = [n \in 0 .. num |->
             IF n < Radix THEN <<n>> ELSE <<n % Radix>> \o st[n \div Radix]]
    OBVIOUS
  <1>2. IsStored(x, num)
    BY <1>1, StoredExists DEF IsStored
  <1>3. remainders(num) = x[num]
    BY <1>1, Zenon DEF remainders
  <1>4. Digits(x[num], num)
    BY <1>2, StoredDigits
  <1> QED  BY <1>3, <1>4

LEMMA TurnedIs ==
    ASSUME NEW S, NEW s \in Seq(S)
    PROVE  turned(s) = reversed(s)
  <1>1. PICK i : i = Len(s)  OBVIOUS
  <1>2. PICK m : m = i \div 2  OBVIOUS
  <1>3. i \in Nat /\ s = [j \in 1 .. i |-> s[j]]
    BY <1>1
  <1>4. PICK y : y = CHOOSE sw : sw = [k \in 0 .. m |->
            IF k = 0 THEN s
            ELSE [sw[k - 1] EXCEPT ![k] = sw[k - 1][i + 1 - k], ![i + 1 - k] = sw[k - 1][k]]]
    OBVIOUS
  <1>5. IsSwapped(y, s, i, m)
    <2>1. PICK z : IsSwapped(z, s, i, m)
      BY <1>2, <1>3, SwappedExists
    <2>2. z = [k \in 0 .. m |->
            IF k = 0 THEN s
            ELSE [z[k - 1] EXCEPT ![k] = z[k - 1][i + 1 - k], ![i + 1 - k] = z[k - 1][k]]]
      BY <2>1 DEF IsSwapped, exchanged
    <2>3. y = [k \in 0 .. m |->
            IF k = 0 THEN s
            ELSE [y[k - 1] EXCEPT ![k] = y[k - 1][i + 1 - k], ![i + 1 - k] = y[k - 1][k]]]
      BY <1>4, <2>2, Zenon
    <2> QED  BY <2>3 DEF IsSwapped, exchanged
  <1>6. turned(s) = y[m]
    BY <1>1, <1>2, <1>4, Zenon DEF turned
  <1>7. y[m] = backwards(s, i)
    BY <1>2, <1>3, <1>5, SwappedIs
  <1> QED  BY <1>1, <1>6, <1>7 DEF reversed, backwards

\* pf_routine shows the number it is given, for every radix: no leading zero.
Shows(r, num) ==
    /\ number(r) = num
    /\ \A i \in DOMAIN r : r[i] \in 0 .. Radix - 1
    /\ r[1] = 0 => Len(r) = 1
LEMMA ShownIsNumber ==
    ASSUME NEW num \in Nat
    PROVE  Shows(long_to_char(num), num)
  <1>1. PICK s : s = remainders(num)  OBVIOUS
  <1>2. Digits(s, num)  BY <1>1, RemaindersAre
  <1>3. PICK r : r = reversed(s)  OBVIOUS
  <1>4. long_to_char(num) = r
    BY <1>1, <1>2, <1>3, TurnedIs DEF long_to_char, Digits
  <1>5. s \in Seq(0 .. Radix - 1) /\ Len(s) >= 1
    BY <1>2 DEF Digits
  <1>6. r \in Seq(0 .. Radix - 1) /\ Len(r) = Len(s)
    BY <1>3, <1>5, Reversing
  <1>7. r[1] = s[Len(s)]
    BY <1>3, <1>5 DEF reversed
  <1>8. number(r) = num /\ (s[Len(s)] = 0 => Len(s) = 1)
    BY <1>2, <1>3 DEF Digits
  <1>9. \A j \in DOMAIN r : r[j] \in 0 .. Radix - 1
    <2>1. PICK S : S = 0 .. Radix - 1  OBVIOUS
    <2>2. r \in Seq(S)  BY <1>6, <2>1
    <2>3. \A j \in DOMAIN r : r[j] \in S  BY <2>2
    <2> QED  BY <2>1, <2>3, Zenon
  <1>10. r[1] = 0 => Len(r) = 1
    BY <1>6, <1>7, <1>8
  <1>11. Shows(r, num)
    BY <1>8, <1>9, <1>10, Zenon DEF Shows
  <1> QED  BY <1>4, <1>11, Zenon

\* pf_routine shows the address of the instruction.
ShowsFault == report # <<>> => fault.eip \in Nat /\ report = long_to_char(fault.eip)
LEMMA FaultShown == FirstSpec => []ShowsFault
  <1>1. FirstInit => ShowsFault
    BY DEF FirstInit, FirstKernelInit, ShowsFault
  <1>2. ASSUME ShowsFault, [FirstNext]_first_vars PROVE ShowsFault'
    <2>1. CASE UNCHANGED <<report, fault>>
      BY <1>2, <2>1 DEF ShowsFault
    <2>2. ASSUME NEW eip \in Nat, NEW pag, NEW wr, pf_routine(eip, pag, wr)
          PROVE  ShowsFault'
      <3>1. fault'.eip = eip /\ report' = long_to_char(eip)
        BY <2>2 DEF pf_routine
      <3> QED  BY <2>2, <3>1 DEF ShowsFault
    <2>3. CASE Runs /\ \E addr \in 0 .. Words - 1, n \in Sizes : Write(addr, n)
      <3>1. PICK addr \in 0 .. Words - 1, n \in Sizes : Write(addr, n)
        BY <2>3
      <3>2. CASE UNCHANGED <<report, fault>>
        BY <2>1, <3>2
      <3>3. CASE \E pag \in {p \in touched' : ~entry(p).present},
                    eip \in 0 .. NUM_PAG_KERNEL * PAGE_SIZE - 1 : pf_routine(eip, pag, FALSE)
        <4>1. PICK pag \in {p \in touched' : ~entry(p).present},
                   eip \in 0 .. NUM_PAG_KERNEL * PAGE_SIZE - 1 : pf_routine(eip, pag, FALSE)
          BY <3>3
        <4>2. eip \in Nat  OBVIOUS
        <4> QED  BY <2>2, <4>1, <4>2
      <3> QED  BY <3>1, <3>2, <3>3 DEF Write
    <2>4. CASE /\ Runs
               /\ \E eip \in 0 .. Words - 1, pag \in 0 .. page(Words - 1), wr \in BOOLEAN :
                     ProgramFault(eip, pag, wr)
      <3>1. PICK eip \in 0 .. Words - 1, pag \in 0 .. page(Words - 1), wr \in BOOLEAN :
                   pf_routine(eip, pag, wr)
        BY <2>4 DEF ProgramFault
      <3>2. eip \in Nat  OBVIOUS
      <3> QED  BY <2>2, <3>1, <3>2
    <2>5. CASE \/ FirstSetEflags \/ FirstSetGdt \/ FirstSetIdt \/ FirstSetTSS
               \/ FirstInitMm \/ monoprocess_init_addr_space \/ EmptyCalls
               \/ CopyProgram \/ FirstEnableInt \/ FirstReturnGate
               \/ ClockRoutine \/ sys_gettime \/ WriteReturns
      <3>1. UNCHANGED <<report, fault>>
        BY <2>5 DEF FirstSetEflags, FirstSetGdt, FirstSetIdt, FirstSetTSS, FirstInitMm,
           monoprocess_init_addr_space, EmptyCalls, CopyProgram, FirstEnableInt,
           FirstReturnGate, ClockRoutine, sys_gettime, WriteReturns, next_call, lost, answers
      <3> QED  BY <2>1, <3>1
    <2>6. CASE UNCHANGED first_vars
      BY <2>1, <2>6 DEF first_vars, first_kernel_vars, answers
    <2> QED  BY <1>2, <2>3, <2>4, <2>5, <2>6 DEF FirstNext
  <1> QED  BY <1>1, <1>2, PTL DEF FirstSpec

\* Only a program that leaves its pages or writes to its code stops E1, for
\* every layout; and for every radix and address the number on the screen is
\* the address, with every digit below the radix and none too many.
THEOREM ProgramStops == FirstSpec => []OnlyProgramStops
  <1>1. ASSUME report # <<>> => BlamesProgram, ShowsFault PROVE OnlyProgramStops
    <2>1. ASSUME report # <<>> PROVE Shows(report, fault.eip)
      BY <1>1, <2>1, ShownIsNumber DEF ShowsFault
    <2> QED  BY <1>1, <2>1, Zenon DEF OnlyProgramStops, Shows
  <1> QED  BY <1>1, FaultIsOfProgram, FaultShown, PTL
-----------------------------------------------------------------------------
(* Console and ConsoleE2.                                                  *)

CONSTANTS NUM_COLUMNS, NUM_ROWS, NL, TAM_BUFFER, Texts, Fds, Coordinates, Colours, Full,
          Keys, KeyX, KeyY
VARIABLES scr, color_txt, console_call, screen, buff, console_result

C == INSTANCE Console WITH call <- console_call
E == INSTANCE ConsoleE2 WITH TAMBUFF <- TAM_BUFFER, scr <- screen, result <- console_result

Bounded == NUM_COLUMNS \in 1 .. 255 /\ NUM_ROWS \in 1 .. 255
\* printc, named for short.
printed(s, c, colour) == C!printc(s, c, colour)

Pos(s) == s.y * NUM_COLUMNS + s.x
OnScreen(s) == /\ s = [x |-> s.x, y |-> s.y, cells |-> s.cells]
               /\ s.x \in 0 .. NUM_COLUMNS - 1 /\ s.y \in 0 .. NUM_ROWS - 1

\* The position in the line of cells determines row and column, and the row
\* below the last one is the first.
LEMMA Rows ==
    ASSUME Bounded, NEW x \in 0 .. NUM_COLUMNS - 1, NEW y \in 0 .. NUM_ROWS - 1
    PROVE  LET p == y * NUM_COLUMNS + x
               Size == NUM_COLUMNS * NUM_ROWS
           IN  /\ p \in 0 .. Size - 1 /\ p \div NUM_COLUMNS = y
               /\ ((y + 1) % NUM_ROWS) * NUM_COLUMNS = ((y + 1) * NUM_COLUMNS) % Size
               /\ x + 1 < NUM_COLUMNS => (p + 1) % Size = p + 1
               /\ x + 1 = NUM_COLUMNS => p + 1 = (y + 1) * NUM_COLUMNS
               /\ (y + 1) % NUM_ROWS \in 0 .. NUM_ROWS - 1
  <1>1. NUM_COLUMNS \in Nat \ {0} /\ NUM_ROWS \in Nat \ {0}
    BY DEF Bounded
  <1> DEFINE p == y * NUM_COLUMNS + x
             Size == NUM_COLUMNS * NUM_ROWS
  <1>2. p = NUM_COLUMNS * y + x  BY <1>1
  <1>3. p \div NUM_COLUMNS = y  BY <1>1, <1>2, DivModUnique
  <1>4. PICK r \in Int : r = y * NUM_COLUMNS  BY <1>1
  <1>5. PICK z \in Int : z = NUM_COLUMNS * NUM_ROWS  BY <1>1
  <1>6. r >= 0 /\ r <= z - NUM_COLUMNS /\ z \in Nat \ {0}
    <2>1. r >= 0 /\ z > 0  BY <1>1, <1>4, <1>5
    <2>2. PICK d \in Nat : d = NUM_ROWS - 1 - y  BY <1>1
    <2>3. d * NUM_COLUMNS >= 0  BY <1>1
    <2>4. d * NUM_COLUMNS = z - NUM_COLUMNS - r  BY <1>1, <1>4, <1>5, <2>2
    <2> QED  BY <1>1, <2>1, <2>3, <2>4
  <1>7. p = r + x /\ p \in 0 .. z - 1  BY <1>1, <1>4, <1>6
  <1>8. (y + 1) * NUM_COLUMNS = r + NUM_COLUMNS  BY <1>1, <1>4
  <1>9. ASSUME NEW k \in 0 .. z - 1 PROVE k % z = k
    BY <1>6, <1>9, DivModUnique
  <1>10. ((y + 1) % NUM_ROWS) * NUM_COLUMNS = ((y + 1) * NUM_COLUMNS) % z
    <2>1. CASE y + 1 < NUM_ROWS
      <3>1. (y + 1) % NUM_ROWS = y + 1  BY <1>1, <2>1
      <3>2. r + NUM_COLUMNS \in 0 .. z - 1
        <4>1. PICK d \in Nat : d = NUM_ROWS - 2 - y  BY <1>1, <2>1
        <4>2. d * NUM_COLUMNS >= 0  BY <1>1
        <4>3. d * NUM_COLUMNS = z - 2 * NUM_COLUMNS - r  BY <1>1, <1>4, <1>5, <4>1
        <4> QED  BY <1>1, <1>6, <4>2, <4>3
      <3> QED  BY <1>8, <1>9, <3>1, <3>2
    <2>2. CASE y + 1 = NUM_ROWS
      <3>1. (y + 1) % NUM_ROWS = 0  BY <1>1, <2>2
      <3>2. r + NUM_COLUMNS = z  BY <1>1, <1>5, <1>8, <2>2
      <3>3. z % z = 0  BY <1>6
      <3> QED  BY <1>1, <1>8, <3>1, <3>2, <3>3
    <2> QED  BY <1>1, <2>1, <2>2
  <1>11. x + 1 < NUM_COLUMNS => (p + 1) % z = p + 1
    <2> SUFFICES ASSUME x + 1 < NUM_COLUMNS PROVE (p + 1) % z = p + 1  OBVIOUS
    <2>1. p + 1 \in 0 .. z - 1  BY <1>1, <1>6, <1>7
    <2> HIDE DEF p
    <2> QED  BY <1>9, <2>1
  <1>12. x + 1 = NUM_COLUMNS => p + 1 = (y + 1) * NUM_COLUMNS
    BY <1>1, <1>7, <1>8
  <1>13. (y + 1) % NUM_ROWS \in 0 .. NUM_ROWS - 1  BY <1>1
  <1> QED  BY <1>3, <1>5, <1>7, <1>10, <1>11, <1>12, <1>13

\* What printc does to the position and to the cells.
Effect(s, t, c, colour) ==
    /\ OnScreen(t)
    /\ c = NL =>
          /\ Pos(t) = ((Pos(s) \div NUM_COLUMNS + 1) * NUM_COLUMNS) % (NUM_COLUMNS * NUM_ROWS)
          /\ t.cells = s.cells
    /\ c # NL =>
          /\ Pos(t) = (Pos(s) + 1) % (NUM_COLUMNS * NUM_ROWS)
          /\ t.cells = [s.cells EXCEPT ![Pos(s)] = <<c, colour>>]
LEMMA PrintcIs ==
    ASSUME Bounded, NEW s, OnScreen(s), NEW c, NEW colour
    PROVE  Effect(s, printed(s, c, colour), c, colour)
  <1>1. /\ NUM_COLUMNS \in 1 .. 255 /\ NUM_ROWS \in 1 .. 255
        /\ s.x \in 0 .. NUM_COLUMNS - 1 /\ s.y \in 0 .. NUM_ROWS - 1
    BY DEF Bounded, OnScreen
  <1>0. PICK cells : cells = s.cells  OBVIOUS
  <1>2. PICK x \in 0 .. NUM_COLUMNS - 1, y \in 0 .. NUM_ROWS - 1 :
           s = [x |-> x, y |-> y, cells |-> cells]
    BY <1>0 DEF OnScreen
  <1>3. s.x = x /\ s.y = y /\ s.cells = cells  BY <1>2
  <1>4. PICK p : p = Pos(s)  OBVIOUS
  <1>5. PICK Size : Size = NUM_COLUMNS * NUM_ROWS  OBVIOUS
  <1>6. PICK row : row = (y + 1) % NUM_ROWS  OBVIOUS
  <1>7. /\ p = y * NUM_COLUMNS + x /\ p \div NUM_COLUMNS = y
        /\ row * NUM_COLUMNS = ((y + 1) * NUM_COLUMNS) % Size
        /\ x + 1 < NUM_COLUMNS => (p + 1) % Size = p + 1
        /\ x + 1 = NUM_COLUMNS => p + 1 = (y + 1) * NUM_COLUMNS
        /\ row \in 0 .. NUM_ROWS - 1
    BY <1>3, <1>4, <1>5, <1>6, Rows DEF Pos
  <1>8. ASSUME NEW a \in 0 .. NUM_COLUMNS - 1, NEW b \in 0 .. NUM_ROWS - 1, NEW d,
               NEW t, t = [x |-> a, y |-> b, cells |-> d]
        PROVE  OnScreen(t) /\ Pos(t) = b * NUM_COLUMNS + a /\ t.cells = d
    BY <1>8 DEF OnScreen, Pos
  <1>9. PICK t : t = printed(s, c, colour)  OBVIOUS
  <1>10. row * NUM_COLUMNS + 0 = row * NUM_COLUMNS /\ 0 \in 0 .. NUM_COLUMNS - 1
    BY <1>1, <1>7
  <1>11. CASE c = NL
    <2>1. t = [x |-> 0, y |-> row, cells |-> cells]
      BY <1>2, <1>6, <1>9, <1>11 DEF printed, C!printc, C!next_row
    <2>2. OnScreen(t) /\ Pos(t) = row * NUM_COLUMNS /\ t.cells = cells
      BY <1>7, <1>8, <1>10, <2>1
    <2> QED  BY <1>3, <1>4, <1>5, <1>7, <1>9, <1>11, <2>2 DEF Effect
  <1>12. CASE c # NL
    <2>1. PICK new : new = [cells EXCEPT ![p] = <<c, colour>>]  OBVIOUS
    <2>2. C!Byte(x + 1) = x + 1  BY <1>1 DEF C!Byte
    <2>3. PICK u : u = [x |-> x + 1, y |-> y, cells |-> new]  OBVIOUS
    <2>4. /\ u = [x |-> C!Byte(s.x + 1), y |-> s.y, cells |-> new]
          /\ new = [s.cells EXCEPT ![s.y * NUM_COLUMNS + s.x] = <<c, colour>>]
      BY <1>3, <1>7, <2>1, <2>2, <2>3
    <2>5. t = IF u.x >= NUM_COLUMNS THEN C!next_row(u) ELSE u
      BY <1>9, <1>12, <2>4 DEF printed, C!printc
    <2>6. CASE x + 1 < NUM_COLUMNS
      <3>1. t = [x |-> x + 1, y |-> y, cells |-> new]  BY <1>1, <2>3, <2>5, <2>6
      <3>2. OnScreen(t) /\ Pos(t) = y * NUM_COLUMNS + (x + 1) /\ t.cells = new
        BY <1>1, <1>8, <2>6, <3>1
      <3>3. Pos(t) = p + 1
        <4>1. PICK r \in Int : r = y * NUM_COLUMNS  BY <1>1
        <4> QED  BY <1>1, <1>7, <3>2, <4>1
      <3> QED  BY <1>3, <1>4, <1>5, <1>7, <1>9, <1>12, <2>1, <2>6, <3>2, <3>3 DEF Effect
    <2>7. CASE x + 1 = NUM_COLUMNS
      <3>1. t = C!next_row(u)  BY <1>1, <2>3, <2>5, <2>7
      <3>2. t = [x |-> 0, y |-> row, cells |-> new]
        BY <1>6, <2>3, <3>1 DEF C!next_row
      <3>3. OnScreen(t) /\ Pos(t) = row * NUM_COLUMNS /\ t.cells = new
        BY <1>7, <1>8, <1>10, <3>2
      <3> QED  BY <1>3, <1>4, <1>5, <1>7, <1>9, <1>12, <2>1, <2>7, <3>3 DEF Effect
    <2> QED  BY <1>1, <2>6, <2>7
  <1> QED  BY <1>11, <1>12

\* Characters str[1], ..., str[m] printed one after the other, from screen s:
\* the screens there are on the way.
IsRun(g, s, str, m, colour) ==
    g = [n \in 0 .. m |-> IF n = 0 THEN s ELSE printed(g[n - 1], str[n], colour)]

\* There is such a run, it starts from s and goes on by printc, and the
\* cursor stays on the screen.
LEMMA RunExists ==
    ASSUME NEW s, NEW str, NEW m \in Nat, NEW colour
    PROVE  \E g : IsRun(g, s, str, m, colour)
  <1> DEFINE T == {k \in Nat : \E g : IsRun(g, s, str, k, colour)}
  <1>1. 0 \in T
    <2>1. PICK g : g = [n \in 0 .. 0 |-> s]  OBVIOUS
    <2>2. g = [n \in 0 .. 0 |-> IF n = 0 THEN s ELSE printed(g[n - 1], str[n], colour)]
      BY <2>1
    <2>3. IsRun(g, s, str, 0, colour)  BY <2>2 DEF IsRun
    <2> QED  BY <2>3
  <1>2. ASSUME NEW k \in Nat, k \in T PROVE k + 1 \in T
    <2>1. PICK f : IsRun(f, s, str, k, colour)  BY <1>2
    <2>2. PICK l \in Nat : l = k + 1  OBVIOUS
    <2>3. PICK t : t = printed(f[k], str[l], colour)  OBVIOUS
    <2>4. PICK g : g = [n \in 0 .. l |-> IF n = l THEN t ELSE f[n]]  OBVIOUS
    <2>5. ASSUME NEW n \in 0 .. l
          PROVE  g[n] = IF n = 0 THEN s ELSE printed(g[n - 1], str[n], colour)
      <3>1. CASE n = l
        <4>1. n # 0 /\ n - 1 = k /\ k \in 0 .. l /\ k # l  BY <2>2, <3>1
        <4>2. g[n] = t /\ g[k] = f[k]  BY <2>4, <3>1, <4>1
        <4> QED  BY <2>3, <3>1, <4>1, <4>2
      <3>2. CASE n # l
        <4>1. n \in 0 .. k  BY <2>2, <3>2
        <4>2. g[n] = f[n]  BY <2>4, <3>2
        <4>3. f[n] = IF n = 0 THEN s ELSE printed(f[n - 1], str[n], colour)
          BY <2>1, <4>1 DEF IsRun
        <4>4. n # 0 => n - 1 \in 0 .. l /\ n - 1 # l  BY <2>2, <4>1
        <4>5. n # 0 => g[n - 1] = f[n - 1]  BY <2>4, <4>4
        <4> QED  BY <4>2, <4>3, <4>5
      <3> QED  BY <3>1, <3>2
    <2>6. g = [n \in 0 .. l |-> g[n]]  BY <2>4
    <2>7. IsRun(g, s, str, l, colour)  BY <2>5, <2>6 DEF IsRun
    <2> QED  BY <2>2, <2>7
  <1>3. Nat \subseteq T
    <2> HIDE DEF T
    <2> QED  BY <1>1, <1>2, Induction
  <1> QED  BY <1>3

StepsOf(g, s, str, m, colour) ==
    g[0] = s /\ \A n \in 1 .. m : g[n] = printed(g[n - 1], str[n], colour)
LEMMA RunSteps ==
    ASSUME NEW s, NEW str, NEW m \in Nat, NEW colour, NEW g, IsRun(g, s, str, m, colour)
    PROVE  StepsOf(g, s, str, m, colour)
  BY DEF IsRun, StepsOf

LEMMA RunOnScreen ==
    ASSUME Bounded, NEW s, NEW str, NEW m \in Nat, NEW colour, NEW g,
           OnScreen(s), IsRun(g, s, str, m, colour)
    PROVE  \A n \in 0 .. m : OnScreen(g[n])
  <1> DEFINE T == {n \in Nat : n <= m => OnScreen(g[n])}
  <1>1. g[0] = s /\ \A n \in 1 .. m : g[n] = printed(g[n - 1], str[n], colour)
    <2>1. StepsOf(g, s, str, m, colour)  BY RunSteps
    <2> QED  BY <2>1 DEF StepsOf
  <1>2. 0 \in T  BY <1>1
  <1>3. ASSUME NEW n \in Nat, n \in T PROVE n + 1 \in T
    <2>1. CASE n + 1 <= m
      <3>1. PICK l : l = n + 1  OBVIOUS
      <3>2. l \in 1 .. m /\ l - 1 = n  BY <2>1, <3>1
      <3>3. g[l] = printed(g[n], str[l], colour)  BY <1>1, <3>2
      <3>4. OnScreen(g[n])  BY <1>3, <2>1
      <3>5. PICK t, u : t = g[n] /\ u = g[l]  OBVIOUS
      <3>6. OnScreen(t) /\ u = printed(t, str[l], colour)  BY <3>3, <3>4, <3>5
      <3>7. Effect(t, u, str[l], colour)  BY <3>6, PrintcIs
      <3>8. OnScreen(u)  BY <3>7 DEF Effect
      <3> QED  BY <3>1, <3>5, <3>8
    <2>2. CASE ~(n + 1 <= m)  BY <2>2
    <2> QED  BY <2>1, <2>2
  <1>4. Nat \subseteq T
    <2> HIDE DEF T
    <2> QED  BY <1>2, <1>3, Induction
  <1> QED  BY <1>4

\* A piece of the characters, printed from the screen the ones before it
\* left, leaves the screen that all of them up to its end leave.
LEMMA PieceOfRun ==
    ASSUME NEW s, NEW str, NEW m \in Nat, NEW colour, NEW f, IsRun(f, s, str, m, colour),
           NEW i \in Nat, NEW k \in Nat, i + k <= m,
           NEW piece, \A j \in 1 .. k : piece[j] = str[i + j],
           NEW g, IsRun(g, f[i], piece, k, colour)
    PROVE  g[k] = f[i + k]
  <1> DEFINE T == {n \in Nat : n <= k => g[n] = f[i + n]}
  <1>1. PICK u : u = f[i]  OBVIOUS
  <1>2. /\ g[0] = u
        /\ \A n \in 1 .. k : g[n] = printed(g[n - 1], piece[n], colour)
    <2>1. IsRun(g, u, piece, k, colour)  BY <1>1
    <2>2. StepsOf(g, u, piece, k, colour)  BY <2>1, RunSteps
    <2> QED  BY <2>2 DEF StepsOf
  <1>3. \A n \in 1 .. m : f[n] = printed(f[n - 1], str[n], colour)
    <2>1. StepsOf(f, s, str, m, colour)  BY RunSteps
    <2> QED  BY <2>1 DEF StepsOf
  <1>4. 0 \in T
    <2>1. g[0] = f[i]  BY <1>1, <1>2
    <2> QED  BY <2>1
  <1>5. ASSUME NEW n \in Nat, n \in T PROVE n + 1 \in T
    <2>1. CASE n + 1 <= k
      <3>1. PICK l : l = n + 1  OBVIOUS
      <3>2. PICK q : q = i + l  OBVIOUS
      <3>3. l \in 1 .. k /\ l - 1 = n /\ q \in 1 .. m /\ q - 1 = i + n
        BY <2>1, <3>1, <3>2
      <3>4. g[l] = printed(g[n], piece[l], colour)  BY <1>2, <3>3
      <3>5. f[q] = printed(f[i + n], str[q], colour)  BY <1>3, <3>3
      <3>6. g[n] = f[i + n]  BY <1>5, <2>1
      <3>7. piece[l] = str[q]  BY <3>2, <3>3
      <3> QED  BY <3>1, <3>2, <3>4, <3>5, <3>6, <3>7
    <2>2. CASE ~(n + 1 <= k)  BY <2>2
    <2> QED  BY <2>1, <2>2
  <1>6. Nat \subseteq T
    <2> HIDE DEF T
    <2> QED  BY <1>4, <1>5, Induction
  <1> QED  BY <1>6

\* printk and the loop of sys_write_console are runs.
LEMMA PrintkIs ==
    ASSUME NEW s, NEW string, Len(string) \in Nat, NEW colour
    PROVE  \E g : /\ IsRun(g, s, string, Len(string), colour)
                  /\ C!printk(s, string, colour) = g[Len(string)]
  <1>1. PICK g : IsRun(g, s, string, Len(string), colour)  BY RunExists
  <1> QED  BY <1>1 DEF IsRun, printed, C!printk

LEMMA PrintcE2 ==
    ASSUME NEW s, NEW c
    PROVE  E!printc(s, c) = printed(s, c, E!colour)
  BY DEF printed, E!printc, E!Scr!printc, E!Scr!next_row, E!Scr!Byte, C!printc, C!next_row, C!Byte

LEMMA WriteConsoleIs ==
    ASSUME NEW b, NEW size \in Nat, NEW s
    PROVE  \E g : /\ IsRun(g, s, b, size, E!colour)
                  /\ E!sys_write_console(b, size, s) = g[size]
  <1> DEFINE Shown(g) == g = [n \in 0 .. size |-> IF n = 0 THEN s ELSE E!printc(g[n - 1], b[n])]
  <1>1. PICK g : IsRun(g, s, b, size, E!colour)  BY RunExists
  <1>2. Shown(g)  BY <1>1, PrintcE2 DEF IsRun
  <1>3. PICK h : Shown(h) /\ E!sys_write_console(b, size, s) = h[size]
    BY <1>2 DEF E!sys_write_console
  <1>4. IsRun(h, s, b, size, E!colour)  BY <1>3, PrintcE2 DEF IsRun
  <1> QED  BY <1>3, <1>4

\* The same characters on the terminal: position and cells instead of a
\* screen.
view(s) == <<Pos(s), s.cells>>
shown(pc, c, colour) ==
    IF c = NL THEN <<((pc[1] \div NUM_COLUMNS + 1) * NUM_COLUMNS) % (NUM_COLUMNS * NUM_ROWS), pc[2]>>
    ELSE <<(pc[1] + 1) % (NUM_COLUMNS * NUM_ROWS), [pc[2] EXCEPT ![pc[1]] = <<c, colour>>]>>
IsAfter(g, s, str, m, colour) ==
    g = [n \in 0 .. m |-> IF n = 0 THEN view(s) ELSE shown(g[n - 1], str[n], colour)]

\* The screen seen as a terminal does at each character what the terminal
\* does, so a run ends with the terminal that the text leaves.
LEMMA ShownIs ==
    ASSUME Bounded, NEW s, OnScreen(s), NEW c, NEW colour
    PROVE  view(printed(s, c, colour)) = shown(view(s), c, colour)
  <1>1. PICK t : t = printed(s, c, colour)  OBVIOUS
  <1>2. PICK p : p = Pos(s)  OBVIOUS
  <1>3. PICK cells : cells = s.cells  OBVIOUS
  <1>4. PICK pc : pc = view(s)  OBVIOUS
  <1>5. pc = <<p, cells>> /\ pc[1] = p /\ pc[2] = cells  BY <1>2, <1>3, <1>4 DEF view
  <1>6. PICK v : v = <<c, colour>>  OBVIOUS
  <1>7. Effect(s, t, c, colour)  BY <1>1, PrintcIs
  <1>8. CASE c = NL
    <2>1. /\ Pos(t) = ((p \div NUM_COLUMNS + 1) * NUM_COLUMNS) % (NUM_COLUMNS * NUM_ROWS)
          /\ t.cells = cells
      BY <1>2, <1>3, <1>8, <1>7 DEF Effect
    <2> QED  BY <1>1, <1>4, <1>5, <1>8, <2>1 DEF view, shown
  <1>9. CASE c # NL
    <2>1. /\ Pos(t) = (p + 1) % (NUM_COLUMNS * NUM_ROWS)
          /\ t.cells = [cells EXCEPT ![p] = v]
      BY <1>2, <1>3, <1>6, <1>9, <1>7 DEF Effect
    <2> QED  BY <1>1, <1>4, <1>5, <1>6, <1>9, <2>1 DEF view, shown
  <1> QED  BY <1>8, <1>9

LEMMA AfterIs ==
    ASSUME Bounded, NEW s, OnScreen(s), NEW str, NEW m \in Nat, NEW colour,
           NEW f, IsRun(f, s, str, m, colour)
    PROVE  /\ \E h : IsAfter(h, s, str, m, colour)
           /\ \A g : IsAfter(g, s, str, m, colour) => g[m] = view(f[m])
  <1>1. f[0] = s /\ \A n \in 1 .. m : f[n] = printed(f[n - 1], str[n], colour)
    <2>1. StepsOf(f, s, str, m, colour)  BY RunSteps
    <2> QED  BY <2>1 DEF StepsOf
  <1>2. \A n \in 0 .. m : OnScreen(f[n])  BY RunOnScreen
  <1>3. ASSUME NEW n \in 1 .. m
        PROVE  view(f[n]) = shown(view(f[n - 1]), str[n], colour)
    <2>1. PICK t : t = f[n - 1]  OBVIOUS
    <2>2. OnScreen(t) /\ f[n] = printed(t, str[n], colour)  BY <1>1, <1>2, <2>1
    <2>3. view(printed(t, str[n], colour)) = shown(view(t), str[n], colour)  BY <2>2, ShownIs
    <2> QED  BY <2>1, <2>2, <2>3
  <1>4. \E h : IsAfter(h, s, str, m, colour)
    <2>1. PICK h : h = [n \in 0 .. m |-> view(f[n])]  OBVIOUS
    <2>2. ASSUME NEW n \in 0 .. m
          PROVE  h[n] = IF n = 0 THEN view(s) ELSE shown(h[n - 1], str[n], colour)
      <3>1. CASE n = 0  BY <1>1, <2>1, <3>1
      <3>2. CASE n # 0
        <4>1. n \in 1 .. m /\ n - 1 \in 0 .. m  BY <3>2
        <4>2. h[n] = view(f[n]) /\ h[n - 1] = view(f[n - 1])  BY <2>1, <4>1
        <4> QED  BY <1>3, <3>2, <4>1, <4>2
      <3> QED  BY <3>1, <3>2
    <2>3. h = [n \in 0 .. m |-> h[n]]  BY <2>1
    <2>4. IsAfter(h, s, str, m, colour)  BY <2>2, <2>3 DEF IsAfter
    <2> QED  BY <2>4
  <1>5. ASSUME NEW g, IsAfter(g, s, str, m, colour) PROVE g[m] = view(f[m])
    <2> DEFINE T == {n \in Nat : n <= m => g[n] = view(f[n])}
    <2>1. g[0] = view(s) /\ \A n \in 1 .. m : g[n] = shown(g[n - 1], str[n], colour)
      BY <1>5 DEF IsAfter
    <2>2. 0 \in T  BY <1>1, <2>1
    <2>3. ASSUME NEW n \in Nat, n \in T PROVE n + 1 \in T
      <3>1. CASE n + 1 <= m
        <4>1. PICK l : l = n + 1  OBVIOUS
        <4>2. l \in 1 .. m /\ l - 1 = n  BY <3>1, <4>1
        <4>3. g[n] = view(f[n])  BY <2>3, <3>1
        <4>4. view(f[l]) = shown(view(f[n]), str[l], colour)  BY <1>3, <4>2
        <4>5. g[l] = shown(g[n], str[l], colour)  BY <2>1, <4>2
        <4> QED  BY <4>1, <4>3, <4>4, <4>5
      <3>2. CASE ~(n + 1 <= m)  BY <3>2
      <3> QED  BY <3>1, <3>2
    <2>4. Nat \subseteq T
      <3> HIDE DEF T
      <3> QED  BY <2>2, <2>3, Induction
    <2> QED  BY <2>4
  <1> QED  BY <1>4, <1>5

\* One turn of the loop of sys_write of PROJECTE, and what holds between
\* turns: the screen is that of the text up to where the loop has come.
turn(v, text) ==
    LET size == IF v.left > TAM_BUFFER THEN TAM_BUFFER ELSE v.left
    IN  [left |-> v.left - size, from |-> v.from + size,
         scr |-> C!printk(v.scr, SubSeq(text, v.from + 1, v.from + size), color_txt)]
IsLoop(w, text, m) ==
    w = [n \in 0 .. m |-> IF n = 0 THEN [left |-> Len(text), from |-> 0, scr |-> scr]
                          ELSE turn(w[n - 1], text)]
LoopAt(v, n, f, len) ==
    /\ v.left \in Nat /\ v.from \in Nat /\ v.left + v.from = len
    /\ v.left = 0 \/ v.from >= n
    /\ v.scr = f[v.from]

\* SubSeq takes out a piece.
LEMMA TextPiece ==
    ASSUME NEW X, NEW text \in Seq(X), NEW i \in Nat, NEW k \in Nat, i + k <= Len(text)
    PROVE  /\ Len(SubSeq(text, i + 1, i + k)) = k
           /\ \A j \in 1 .. k : SubSeq(text, i + 1, i + k)[j] = text[i + j]
  <1>1. CASE k = 0
    <2>1. SubSeq(text, i + 1, i + k) = <<>>  BY <1>1
    <2> QED  BY <1>1, <2>1
  <1>2. CASE k # 0
    <2>1. i + 1 \in 1 .. Len(text) + 1 /\ i + k \in i + 1 - 1 .. Len(text)  BY <1>2
    <2>2. PICK a, b : a = i + 1 /\ b = i + k  OBVIOUS
    <2>3. /\ Len(SubSeq(text, a, b)) = b - a + 1
          /\ \A j \in 1 .. b - a + 1 : SubSeq(text, a, b)[j] = text[a + j - 1]
      BY <2>1, <2>2, SubSeqProperties
    <2>4. b - a + 1 = k /\ \A j \in 1 .. k : a + j - 1 = i + j  BY <2>2
    <2>5. PICK p : p = SubSeq(text, a, b)  OBVIOUS
    <2>6. Len(p) = k /\ \A j \in 1 .. k : p[j] = text[i + j]
      BY <2>3, <2>4, <2>5
    <2>7. p = SubSeq(text, i + 1, i + k)  BY <2>2, <2>5
    <2> HIDE <2>2
    <2> QED  BY <2>6, <2>7
  <1> QED  BY <1>1, <1>2

\* A turn keeps what holds between turns.
LEMMA Turn ==
    ASSUME TAM_BUFFER \in Nat \ {0}, NEW X, NEW text \in Seq(X), NEW f,
           IsRun(f, scr, text, Len(text), color_txt),
           NEW v, NEW n \in Nat, LoopAt(v, n, f, Len(text))
    PROVE  LoopAt(turn(v, text), n + 1, f, Len(text))
  <1>1. PICK left \in Nat, from \in Nat : left = v.left /\ from = v.from
    BY DEF LoopAt
  <1>2. PICK k \in Nat : k = IF left > TAM_BUFFER THEN TAM_BUFFER ELSE left  OBVIOUS
  <1>3. PICK len \in Nat : len = Len(text)  OBVIOUS
  <1>4. /\ left + from = len /\ k <= left /\ from + k <= len
        /\ left = 0 \/ from >= n
        /\ left # 0 => k > 0
    BY <1>1, <1>2, <1>3 DEF LoopAt
  <1>5. PICK piece : piece = SubSeq(text, from + 1, from + k)  OBVIOUS
  <1>6. Len(piece) = k /\ \A j \in 1 .. k : piece[j] = text[from + j]
    BY <1>3, <1>4, <1>5, TextPiece
  <1>7. PICK s : s = v.scr  OBVIOUS
  <1>8. s = f[from]  BY <1>1, <1>7 DEF LoopAt
  <1>9. PICK g : IsRun(g, s, piece, Len(piece), color_txt)
                 /\ C!printk(s, piece, color_txt) = g[Len(piece)]
    BY <1>6, PrintkIs
  <1>10. IsRun(g, f[from], piece, k, color_txt) /\ C!printk(s, piece, color_txt) = g[k]
    BY <1>6, <1>8, <1>9
  <1>11. g[k] = f[from + k]
    <2>1. IsRun(f, scr, text, len, color_txt)  BY <1>3
    <2> QED  BY <1>4, <1>6, <1>10, <2>1, PieceOfRun
  <1>12. PICK t : t = f[from + k]  OBVIOUS
  <1>13. turn(v, text) = [left |-> left - k, from |-> from + k, scr |-> t]
    BY <1>1, <1>2, <1>5, <1>7, <1>10, <1>11, <1>12 DEF turn
  <1> QED  BY <1>3, <1>4, <1>12, <1>13 DEF LoopAt

\* The loop can be run, for any number of turns.
LEMMA LoopExists ==
    ASSUME NEW text, NEW m \in Nat
    PROVE  \E w : IsLoop(w, text, m)
  <1> DEFINE begun == [left |-> Len(text), from |-> 0, scr |-> scr]
             T == {k \in Nat : \E w : IsLoop(w, text, k)}
  <1>1. 0 \in T
    <2>1. PICK g : g = [n \in 0 .. 0 |-> begun]  OBVIOUS
    <2>2. g = [n \in 0 .. 0 |-> IF n = 0 THEN begun ELSE turn(g[n - 1], text)]  BY <2>1
    <2>3. IsLoop(g, text, 0)  BY <2>2 DEF IsLoop
    <2> QED  BY <2>3
  <1>2. ASSUME NEW k \in Nat, k \in T PROVE k + 1 \in T
    <2>1. PICK f : IsLoop(f, text, k)  BY <1>2
    <2>2. PICK l \in Nat : l = k + 1  OBVIOUS
    <2>3. PICK t : t = turn(f[k], text)  OBVIOUS
    <2>4. PICK g : g = [n \in 0 .. l |-> IF n = l THEN t ELSE f[n]]  OBVIOUS
    <2>5. ASSUME NEW n \in 0 .. l
          PROVE  g[n] = IF n = 0 THEN begun ELSE turn(g[n - 1], text)
      <3>1. CASE n = l
        <4>1. n # 0 /\ n - 1 = k /\ k \in 0 .. l /\ k # l  BY <2>2, <3>1
        <4>2. g[n] = t /\ g[k] = f[k]  BY <2>4, <3>1, <4>1
        <4> QED  BY <2>3, <3>1, <4>1, <4>2
      <3>2. CASE n # l
        <4>1. n \in 0 .. k  BY <2>2, <3>2
        <4>2. g[n] = f[n]  BY <2>4, <3>2
        <4>3. f[n] = IF n = 0 THEN begun ELSE turn(f[n - 1], text)
          BY <2>1, <4>1 DEF IsLoop
        <4>4. n # 0 => n - 1 \in 0 .. l /\ n - 1 # l  BY <2>2, <4>1
        <4>5. n # 0 => g[n - 1] = f[n - 1]  BY <2>4, <4>4
        <4> HIDE DEF begun
        <4> QED  BY <4>2, <4>3, <4>5
      <3> QED  BY <3>1, <3>2
    <2>6. g = [n \in 0 .. l |-> g[n]]  BY <2>4
    <2>7. IsLoop(g, text, l)  BY <2>5, <2>6 DEF IsLoop
    <2> QED  BY <2>2, <2>7
  <1>3. Nat \subseteq T
    <2> HIDE DEF T
    <2> QED  BY <1>1, <1>2, Induction
  <1> QED  BY <1>3

\* The loop ends with nothing left and the screen of the whole text.
LEMMA WriteLoop ==
    ASSUME TAM_BUFFER \in Nat \ {0}, NEW X, NEW text \in Seq(X), NEW f,
           IsRun(f, scr, text, Len(text), color_txt)
    PROVE  C!write_loop(text).scr = f[Len(text)]
  <1>1. PICK len \in Nat : len = Len(text)  OBVIOUS
  <1>2. PICK w : IsLoop(w, text, len) /\ C!write_loop(text) = w[len]
    <2>1. \E w : IsLoop(w, text, len)  BY LoopExists
    <2> QED  BY <1>1, <2>1 DEF IsLoop, turn, C!write_loop
  <1>3. /\ w[0] = [left |-> len, from |-> 0, scr |-> scr]
        /\ \A n \in 1 .. len : w[n] = turn(w[n - 1], text)
    BY <1>1, <1>2 DEF IsLoop
  <1> DEFINE T == {n \in Nat : n <= len => LoopAt(w[n], n, f, len)}
  <1>4. 0 \in T
    <2>1. f[0] = scr
      <3>1. StepsOf(f, scr, text, len, color_txt)  BY <1>1, RunSteps
      <3> QED  BY <3>1 DEF StepsOf
    <2>2. LoopAt(w[0], 0, f, len)  BY <1>3, <2>1 DEF LoopAt
    <2> QED  BY <2>2
  <1>5. ASSUME NEW n \in Nat, n \in T PROVE n + 1 \in T
    <2>1. CASE n + 1 <= len
      <3>1. PICK l : l = n + 1  OBVIOUS
      <3>2. l \in 1 .. len /\ l - 1 = n  BY <2>1, <3>1
      <3>3. PICK v : v = w[n]  OBVIOUS
      <3>4. LoopAt(v, n, f, Len(text))  BY <1>1, <1>5, <2>1, <3>3
      <3>5. LoopAt(turn(v, text), n + 1, f, Len(text))  BY <3>4, Turn
      <3>6. w[l] = turn(v, text)  BY <1>3, <3>2, <3>3
      <3>7. LoopAt(w[l], l, f, len)  BY <1>1, <3>1, <3>5, <3>6
      <3> QED  BY <3>1, <3>7
    <2>2. CASE ~(n + 1 <= len)  BY <2>2
    <2> QED  BY <2>1, <2>2
  <1>6. Nat \subseteq T
    <2> HIDE DEF T
    <2> QED  BY <1>4, <1>5, Induction
  <1>7. PICK v : v = w[len]  OBVIOUS
  <1>8. LoopAt(v, len, f, len)  BY <1>6, <1>7
  <1>9. v.from = len /\ v.scr = f[v.from]  BY <1>8 DEF LoopAt
  <1> QED  BY <1>1, <1>2, <1>7, <1>9

\* A text is displayed whole.
LEMMA ConsoleDisplays ==
    ASSUME Bounded, OnScreen(scr), NEW X, NEW text \in Seq(X),
           NEW f, IsRun(f, scr, text, Len(text), color_txt),
           scr' = f[Len(text)], color_txt' = color_txt
    PROVE  OnScreen(scr') /\ C!T!Display(text)
  <1>1. PICK len \in Nat : len = Len(text)  OBVIOUS
  <1>2. OnScreen(f[len])  BY <1>1, RunOnScreen
  <1>3. C!T!After(text) = view(f[len])
    <2>1. PICK h : IsAfter(h, scr, text, len, color_txt)  BY <1>1, AfterIs
    <2>2. PICK g : IsAfter(g, scr, text, len, color_txt) /\ C!T!After(text) = g[len]
      BY <1>1, <2>1 DEF IsAfter, shown, view, Pos, C!T!After, C!T!Size
    <2>3. g[len] = view(f[len])  BY <1>1, <2>2, AfterIs
    <2> QED  BY <2>2, <2>3
  <1>4. view(scr') = view(f[len])  BY <1>1
  <1> QED  BY <1>1, <1>2, <1>3, <1>4 DEF C!T!Display, view, Pos

\* The cursor starts on the screen, and every step keeps it there and is one
\* of the terminal or none.
LEMMA ConsoleStarts == ASSUME Bounded, C!Init PROVE OnScreen(scr)
  <1>1. (NUM_ROWS * 19) \div 25 \in 0 .. NUM_ROWS - 1
    <2>1. NUM_ROWS * 19 \in Nat /\ NUM_ROWS * 19 < 25 * NUM_ROWS /\ NUM_ROWS \in Nat
      BY DEF Bounded
    <2> QED  BY <2>1, DivBounds
  <1> QED  BY <1>1 DEF C!Init, C!FirstRow, OnScreen, Bounded

LEMMA ConsoleStep ==
    ASSUME C!ConsoleSizes, OnScreen(scr), [C!Next]_C!vars
    PROVE  /\ OnScreen(scr')
           /\ C!T!Next \/ UNCHANGED <<Pos(scr), scr.cells, color_txt>>
  <1>1. Bounded /\ TAM_BUFFER \in Nat \ {0}
    BY DEF C!ConsoleSizes, C!ScreenSizes, Bounded
  <1>2. ASSUME NEW text \in Texts \cup {Full}, NEW f, IsRun(f, scr, text, Len(text), color_txt),
               scr' = f[Len(text)], color_txt' = color_txt
        PROVE  OnScreen(scr') /\ C!T!Next
    <2>1. PICK X : text \in Seq(X)
      BY DEF C!ConsoleSizes
    <2>2. OnScreen(scr') /\ C!T!Display(text)
      BY <1>1, <1>2, <2>1, ConsoleDisplays
    <2> QED  BY <2>2 DEF C!T!Next
  <1>3. CASE UNCHANGED <<scr, color_txt>>
    BY <1>3 DEF OnScreen, Pos
  <1>4. ASSUME NEW fd \in Fds, NEW text \in Texts, NEW negative \in BOOLEAN,
               NEW readable \in BOOLEAN, C!SysWrite(fd, text, negative, readable),
               scr' # scr
        PROVE  OnScreen(scr') /\ C!T!Next
    <2>1. PICK X : text \in Seq(X)
      BY DEF C!ConsoleSizes
    <2>2. PICK f : IsRun(f, scr, text, Len(text), color_txt)
      <3>1. Len(text) \in Nat  BY <2>1
      <3> QED  BY <3>1, RunExists
    <2>3. scr' = C!write_loop(text).scr /\ color_txt' = color_txt
      BY <1>4 DEF C!SysWrite
    <2>4. C!write_loop(text).scr = f[Len(text)]
      BY <1>1, <2>1, <2>2, WriteLoop
    <2> QED  BY <1>2, <2>2, <2>3, <2>4
  <1>5. ASSUME NEW xn \in Coordinates, NEW yn \in Coordinates, C!SysGotoxy(xn, yn),
               scr' # scr
        PROVE  OnScreen(scr') /\ C!T!Next
    <2>1. xn \in Int /\ yn \in Int  BY DEF C!ConsoleSizes
    <2>2. PICK a \in 0 .. NUM_COLUMNS - 1, b \in 0 .. NUM_ROWS - 1 :
             a = xn % NUM_COLUMNS /\ b = yn % NUM_ROWS
      <3>1. NUM_COLUMNS \in Nat \ {0} /\ NUM_ROWS \in Nat \ {0}  BY <1>1 DEF Bounded
      <3>2. xn % NUM_COLUMNS \in 0 .. NUM_COLUMNS - 1  BY <2>1, <3>1, DivMod
      <3>3. yn % NUM_ROWS \in 0 .. NUM_ROWS - 1  BY <2>1, <3>1, DivMod
      <3> QED  BY <3>2, <3>3
    <2>3. scr' = [scr EXCEPT !.x = a, !.y = b] /\ color_txt' = color_txt
      BY <1>5, <2>2 DEF C!SysGotoxy
    <2>4. scr' = [x |-> a, y |-> b, cells |-> scr.cells]
      BY <2>3 DEF OnScreen
    <2>5. OnScreen(scr') /\ Pos(scr') = b * NUM_COLUMNS + a /\ scr'.cells = scr.cells
      BY <2>4 DEF OnScreen, Pos
    <2>6. Pos(scr') \in 0 .. NUM_COLUMNS * NUM_ROWS - 1  BY <1>1, <2>2, <2>5, Rows
    <2>7. C!T!Move  BY <2>3, <2>5, <2>6 DEF C!T!Move, C!T!Size, Pos
    <2> QED  BY <2>5, <2>7 DEF C!T!Next
  <1>6. ASSUME NEW fg \in Colours, NEW bg \in Colours, C!SysSetColor(fg, bg),
               color_txt' # color_txt
        PROVE  OnScreen(scr') /\ C!T!Next
    <2>1. scr' = scr  BY <1>6 DEF C!SysSetColor
    <2> QED  BY <1>6, <2>1 DEF OnScreen, C!T!Next, C!T!Colour
  <1>7. CASE C!KeyboardFull
    <2>1. Len(Full) \in Nat  BY DEF C!ConsoleSizes
    <2>2. PICK f : /\ IsRun(f, scr, Full, Len(Full), color_txt)
                   /\ C!printk(scr, Full, color_txt) = f[Len(Full)]
      BY <2>1, PrintkIs
    <2>3. scr' = f[Len(Full)] /\ color_txt' = color_txt  BY <1>7, <2>2 DEF C!KeyboardFull
    <2> QED  BY <1>2, <2>2, <2>3
  <1>8. CASE C!Next
    <2>1. CASE \E fd \in Fds, text \in Texts, negative, readable \in BOOLEAN :
                  C!SysWrite(fd, text, negative, readable)
      <3>1. color_txt' = color_txt  BY <2>1 DEF C!SysWrite
      <3> QED  BY <1>3, <1>4, <2>1, <3>1
    <2>2. CASE \E xn, yn \in Coordinates : C!SysGotoxy(xn, yn)
      <3>1. color_txt' = color_txt  BY <2>2 DEF C!SysGotoxy
      <3> QED  BY <1>3, <1>5, <2>2, <3>1
    <2>3. CASE \E fg, bg \in Colours : C!SysSetColor(fg, bg)
      <3>1. scr' = scr  BY <2>3 DEF C!SysSetColor
      <3> QED  BY <1>3, <1>6, <2>3, <3>1
    <2> QED  BY <1>2, <1>7, <1>8, <2>1, <2>2, <2>3 DEF C!Next
  <1>9. CASE UNCHANGED C!vars
    BY <1>3, <1>9 DEF C!vars
  <1> QED  BY <1>8, <1>9

\* The console of PROJECTE implements a terminal, for every size of the
\* screen and of the buffer and all texts: sys_write prints a text whole and
\* in order through its buffer, nothing else changes a cell, and the cursor
\* never leaves the screen.
THEOREM ConsoleIsTerminal ==
    ASSUME C!ConsoleSizes
    PROVE  C!Spec => C!IsTerminal
  <1>1. Bounded  BY DEF C!ConsoleSizes, C!ScreenSizes, Bounded
  <1>2. C!Init => OnScreen(scr)  BY <1>1, ConsoleStarts
  <1>3. OnScreen(scr) /\ [C!Next]_C!vars => OnScreen(scr)'
    BY ConsoleStep DEF OnScreen
  <1>4. OnScreen(scr) /\ [C!Next]_C!vars => [C!T!Next]_<<Pos(scr), scr.cells, color_txt>>
    BY ConsoleStep
  <1> QED  BY <1>2, <1>3, <1>4, PTL DEF C!Spec, C!IsTerminal, C!T!Spec, Pos

\* The same for E2, whose buffer keeps what an earlier piece left in it.
stretch(v, text) ==
    LET from == Len(text) - v.left
        size == IF v.left > TAM_BUFFER THEN TAM_BUFFER ELSE v.left
        b == E!copy_from_user(SubSeq(text, from + 1, from + size), v.buff)
    IN  [left |-> v.left - size, buff |-> b, scr |-> E!sys_write_console(b, size, v.scr)]
IsPieces(w, text, m) ==
    w = [n \in 0 .. m |-> IF n = 0 THEN [left |-> Len(text), buff |-> buff, scr |-> screen]
                          ELSE stretch(w[n - 1], text)]
PiecesAt(v, n, f, len) ==
    /\ v.left \in Nat /\ DOMAIN v.buff = 1 .. TAM_BUFFER
    /\ \E from \in Nat :
          v.left + from = len /\ (v.left = 0 \/ from >= n) /\ v.scr = f[from]

LEMMA Stretch ==
    ASSUME TAM_BUFFER \in Nat \ {0}, NEW X, NEW text \in Seq(X), NEW f,
           IsRun(f, screen, text, Len(text), E!colour),
           NEW v, NEW n \in Nat, PiecesAt(v, n, f, Len(text))
    PROVE  PiecesAt(stretch(v, text), n + 1, f, Len(text))
  <1>1. PICK len \in Nat : len = Len(text)  OBVIOUS
  <1>2. PICK left \in Nat : left = v.left  BY <1>1 DEF PiecesAt
  <1>3. PICK from \in Nat : left + from = len /\ (left = 0 \/ from >= n) /\ v.scr = f[from]
    BY <1>1, <1>2 DEF PiecesAt
  <1>4. PICK k \in Nat : k = IF left > TAM_BUFFER THEN TAM_BUFFER ELSE left  OBVIOUS
  <1>5. /\ k <= left /\ from + k <= len /\ k <= TAM_BUFFER
        /\ left = 0 \/ from >= n
        /\ left # 0 => k > 0
    BY <1>3, <1>4
  <1>6. PICK piece : piece = SubSeq(text, from + 1, from + k)  OBVIOUS
  <1>7. Len(piece) = k /\ \A j \in 1 .. k : piece[j] = text[from + j]
    BY <1>1, <1>5, <1>6, TextPiece
  <1>8. PICK old : old = v.buff  OBVIOUS
  <1>9. DOMAIN old = 1 .. TAM_BUFFER  BY <1>8 DEF PiecesAt
  <1>10. PICK b : b = E!copy_from_user(piece, old)  OBVIOUS
  <1>11. DOMAIN b = 1 .. TAM_BUFFER /\ \A j \in 1 .. k : b[j] = text[from + j]
    <2>1. b = [j \in 1 .. TAM_BUFFER |-> IF j <= k THEN piece[j] ELSE old[j]]
      BY <1>7, <1>9, <1>10 DEF E!copy_from_user
    <2> QED  BY <1>5, <1>7, <2>1
  <1>12. PICK s : s = v.scr  OBVIOUS
  <1>13. s = f[from]  BY <1>3, <1>12
  <1>14. PICK g : IsRun(g, s, b, k, E!colour) /\ E!sys_write_console(b, k, s) = g[k]
    BY WriteConsoleIs
  <1>15. PICK col : col = E!colour  OBVIOUS
  <1>16. IsRun(g, f[from], b, k, col)  BY <1>13, <1>14, <1>15
  <1>17. g[k] = f[from + k]
    <2>1. IsRun(f, screen, text, len, col)  BY <1>1, <1>15
    <2>2. PICK begun : begun = screen  OBVIOUS
    <2>3. IsRun(f, begun, text, len, col)  BY <2>1, <2>2
    <2>4. \A j \in 1 .. k : b[j] = text[from + j]  BY <1>11
    <2>5. from + k <= len  BY <1>5
    <2> QED  BY <1>16, <2>3, <2>4, <2>5, PieceOfRun
  <1>18. PICK t : t = f[from + k]  OBVIOUS
  <1>19. stretch(v, text) = [left |-> left - k, buff |-> b, scr |-> t]
    <2>1. Len(text) - v.left = from  BY <1>1, <1>2, <1>3
    <2> QED  BY <1>2, <1>4, <1>6, <1>8, <1>10, <1>12, <1>14, <1>17, <1>18, <2>1 DEF stretch
  <1>20. /\ left - k \in Nat /\ from + k \in Nat /\ (left - k) + (from + k) = len
         /\ left - k = 0 \/ from + k >= n + 1
    <2>1. left + from = len  BY <1>3
    <2> QED  BY <1>5, <2>1
  <1> QED  BY <1>1, <1>11, <1>18, <1>19, <1>20 DEF PiecesAt

LEMMA PiecesExist ==
    ASSUME NEW text, NEW m \in Nat
    PROVE  \E w : IsPieces(w, text, m)
  <1> DEFINE begun == [left |-> Len(text), buff |-> buff, scr |-> screen]
             T == {k \in Nat : \E w : IsPieces(w, text, k)}
  <1>1. 0 \in T
    <2>1. PICK g : g = [n \in 0 .. 0 |-> begun]  OBVIOUS
    <2>2. g = [n \in 0 .. 0 |-> IF n = 0 THEN begun ELSE stretch(g[n - 1], text)]  BY <2>1
    <2>3. IsPieces(g, text, 0)  BY <2>2 DEF IsPieces
    <2> QED  BY <2>3
  <1>2. ASSUME NEW k \in Nat, k \in T PROVE k + 1 \in T
    <2>1. PICK f : IsPieces(f, text, k)  BY <1>2
    <2>2. PICK l \in Nat : l = k + 1  OBVIOUS
    <2>3. PICK t : t = stretch(f[k], text)  OBVIOUS
    <2>4. PICK g : g = [n \in 0 .. l |-> IF n = l THEN t ELSE f[n]]  OBVIOUS
    <2>5. ASSUME NEW n \in 0 .. l
          PROVE  g[n] = IF n = 0 THEN begun ELSE stretch(g[n - 1], text)
      <3>1. CASE n = l
        <4>1. n # 0 /\ n - 1 = k /\ k \in 0 .. l /\ k # l  BY <2>2, <3>1
        <4>2. g[n] = t /\ g[k] = f[k]  BY <2>4, <3>1, <4>1
        <4> QED  BY <2>3, <3>1, <4>1, <4>2
      <3>2. CASE n # l
        <4>1. n \in 0 .. k  BY <2>2, <3>2
        <4>2. g[n] = f[n]  BY <2>4, <3>2
        <4>3. f[n] = IF n = 0 THEN begun ELSE stretch(f[n - 1], text)
          BY <2>1, <4>1 DEF IsPieces
        <4>4. n # 0 => n - 1 \in 0 .. l /\ n - 1 # l  BY <2>2, <4>1
        <4>5. n # 0 => g[n - 1] = f[n - 1]  BY <2>4, <4>4
        <4> HIDE DEF begun
        <4> QED  BY <4>2, <4>3, <4>5
      <3> QED  BY <3>1, <3>2
    <2>6. g = [n \in 0 .. l |-> g[n]]  BY <2>4
    <2>7. IsPieces(g, text, l)  BY <2>5, <2>6 DEF IsPieces
    <2> QED  BY <2>2, <2>7
  <1>3. Nat \subseteq T
    <2> HIDE DEF T
    <2> QED  BY <1>1, <1>2, Induction
  <1> QED  BY <1>3


LEMMA Pieces ==
    ASSUME TAM_BUFFER \in Nat \ {0}, NEW X, NEW text \in Seq(X), NEW f,
           IsRun(f, screen, text, Len(text), E!colour), DOMAIN buff = 1 .. TAM_BUFFER
    PROVE  /\ E!pieces(text).scr = f[Len(text)]
           /\ DOMAIN E!pieces(text).buff = 1 .. TAM_BUFFER
  <1>1. PICK len \in Nat : len = Len(text)  OBVIOUS
  <1>2. PICK w : IsPieces(w, text, len) /\ E!pieces(text) = w[len]
    <2>1. \E w : IsPieces(w, text, len)  BY PiecesExist
    <2> QED  BY <1>1, <2>1 DEF IsPieces, stretch, E!pieces
  <1>3. /\ w[0] = [left |-> len, buff |-> buff, scr |-> screen]
        /\ \A n \in 1 .. len : w[n] = stretch(w[n - 1], text)
    <2>1. PICK begun : begun = [left |-> len, buff |-> buff, scr |-> screen]  OBVIOUS
    <2>2. w = [n \in 0 .. len |-> IF n = 0 THEN begun ELSE stretch(w[n - 1], text)]
      BY <1>1, <1>2, <2>1 DEF IsPieces
    <2> QED  BY <2>1, <2>2
  <1> DEFINE T == {n \in Nat : n <= len => PiecesAt(w[n], n, f, len)}
  <1>4. 0 \in T
    <2>1. f[0] = screen
      <3>1. StepsOf(f, screen, text, len, E!colour)  BY <1>1, RunSteps
      <3> QED  BY <3>1 DEF StepsOf
    <2>2. PiecesAt(w[0], 0, f, len)  BY <1>3, <2>1 DEF PiecesAt
    <2> QED  BY <2>2
  <1>5. ASSUME NEW n \in Nat, n \in T PROVE n + 1 \in T
    <2>1. CASE n + 1 <= len
      <3>1. PICK l : l = n + 1  OBVIOUS
      <3>2. l \in 1 .. len /\ l - 1 = n  BY <2>1, <3>1
      <3>3. PICK v : v = w[n]  OBVIOUS
      <3>4. PiecesAt(v, n, f, Len(text))  BY <1>1, <1>5, <2>1, <3>3
      <3>5. PiecesAt(stretch(v, text), n + 1, f, Len(text))  BY <3>4, Stretch
      <3>6. w[l] = stretch(v, text)  BY <1>3, <3>2, <3>3
      <3>7. PiecesAt(w[l], l, f, len)  BY <1>1, <3>1, <3>5, <3>6
      <3> QED  BY <3>1, <3>7
    <2>2. CASE ~(n + 1 <= len)  BY <2>2
    <2> QED  BY <2>1, <2>2
  <1>6. Nat \subseteq T
    <2> HIDE DEF T
    <2> QED  BY <1>4, <1>5, Induction
  <1>7. PICK v : v = w[len]  OBVIOUS
  <1>8. PiecesAt(v, len, f, len)  BY <1>6, <1>7
  <1>9. v.left = 0 /\ v.scr = f[len] /\ DOMAIN v.buff = 1 .. TAM_BUFFER  BY <1>8 DEF PiecesAt
  <1> QED  BY <1>1, <1>2, <1>7, <1>9

\* A text is displayed whole in E2 too.
LEMMA ConsoleE2Displays ==
    ASSUME Bounded, OnScreen(screen), NEW X, NEW text \in Seq(X),
           NEW f, IsRun(f, screen, text, Len(text), E!colour),
           screen' = f[Len(text)]
    PROVE  OnScreen(screen') /\ E!T!Display(text)
  <1>1. PICK len \in Nat : len = Len(text)  OBVIOUS
  <1>2. OnScreen(f[len])  BY <1>1, RunOnScreen
  <1>3. E!T!After(text) = view(f[len])
    <2>1. PICK h : IsAfter(h, screen, text, len, E!colour)  BY <1>1, AfterIs
    <2>2. PICK g : IsAfter(g, screen, text, len, E!colour) /\ E!T!After(text) = g[len]
      BY <1>1, <2>1 DEF IsAfter, shown, view, Pos, E!T!After, E!T!Size
    <2>3. g[len] = view(f[len])  BY <1>1, <2>2, AfterIs
    <2> QED  BY <2>2, <2>3
  <1>4. view(screen') = view(f[len])  BY <1>1
  <1> QED  BY <1>1, <1>2, <1>3, <1>4 DEF E!T!Display, view, Pos, E!colour

OnScreenE2 == OnScreen(screen) /\ DOMAIN buff = 1 .. TAM_BUFFER

\* The invariant of the second console: its buffer has its size too.
LEMMA ConsoleE2Starts == ASSUME Bounded, E!Init PROVE OnScreenE2
  <1>1. (NUM_ROWS * 19) \div 25 \in 0 .. NUM_ROWS - 1
    <2>1. NUM_ROWS * 19 \in Nat /\ NUM_ROWS * 19 < 25 * NUM_ROWS /\ NUM_ROWS \in Nat
      BY DEF Bounded
    <2> QED  BY <2>1, DivBounds
  <1> QED  BY <1>1 DEF E!Init, OnScreenE2, OnScreen, Bounded

\* A key is shown aside, or nowhere when it is a new line.
LEMMA KeyAside ==
    ASSUME E!ConsoleSizes, OnScreenE2, NEW key \in Keys \cup {"C"}, E!KeyboardRoutine(key)
    PROVE  /\ OnScreenE2'
           /\ E!T!Aside \/ UNCHANGED <<Pos(screen), screen.cells, E!colour>>
  <1>1. Bounded /\ KeyX \in 0 .. NUM_COLUMNS - 1 /\ KeyY \in 0 .. NUM_ROWS - 1
    BY DEF E!ConsoleSizes, E!Scr!ScreenSizes, Bounded
  <1>0. PICK cells : cells = screen.cells  OBVIOUS
  <1>2. PICK x \in 0 .. NUM_COLUMNS - 1, y \in 0 .. NUM_ROWS - 1 :
           screen = [x |-> x, y |-> y, cells |-> cells]
    BY <1>0 DEF OnScreenE2, OnScreen
  <1>3. screen.x = x /\ screen.y = y /\ screen.cells = cells  BY <1>2
  <1>4. PICK s : s = [x |-> KeyX, y |-> KeyY, cells |-> cells]  OBVIOUS
  <1>5. OnScreen(s) /\ Pos(s) = KeyY * NUM_COLUMNS + KeyX /\ s.cells = cells
    BY <1>1, <1>4 DEF OnScreen, Pos
  <1>6. PICK t : t = printed(s, key, E!colour)  OBVIOUS
  <1>7. Effect(s, t, key, E!colour)  BY <1>1, <1>5, <1>6, PrintcIs
  <1>8. [screen EXCEPT !.x = KeyX, !.y = KeyY] = s
    <2>1. PICK r : r = [screen EXCEPT !.x = KeyX, !.y = KeyY]  OBVIOUS
    <2>2. r = [x |-> KeyX, y |-> KeyY, cells |-> screen.cells]
      BY <2>1 DEF OnScreenE2, OnScreen
    <2> QED  BY <1>3, <1>4, <2>1, <2>2
  <1>9. t = E!printc(s, key)  BY <1>6, PrintcE2
  <1>10. screen' = [t EXCEPT !.x = x, !.y = y] /\ buff' = buff
    BY <1>3, <1>8, <1>9 DEF E!KeyboardRoutine, E!printc_xy, E!Scr!printc_xy, E!printc
  <1>11. PICK new : new = t.cells  OBVIOUS
  <1>12. screen' = [x |-> x, y |-> y, cells |-> new]
    BY <1>7, <1>10, <1>11 DEF Effect, OnScreen
  <1>13. screen'.x = x /\ screen'.y = y /\ screen'.cells = new  BY <1>12
  <1>14. OnScreen(screen') /\ Pos(screen') = Pos(screen)
    BY <1>3, <1>12, <1>13 DEF OnScreen, Pos
  <1>15. OnScreenE2'  BY <1>10, <1>14 DEF OnScreenE2
  <1>16. CASE key = NL
    <2>1. new = cells  BY <1>5, <1>7, <1>11, <1>16 DEF Effect
    <2> QED  BY <1>3, <1>13, <1>14, <1>15, <2>1 DEF E!colour
  <1>17. CASE key # NL
    <2>1. PICK p \in 0 .. NUM_COLUMNS * NUM_ROWS - 1 : p = KeyY * NUM_COLUMNS + KeyX
      BY <1>1, Rows
    <2>2. screen'.cells = [screen.cells EXCEPT ![p] = <<key, E!colour>>]
      BY <1>3, <1>5, <1>7, <1>11, <1>13, <1>17, <2>1 DEF Effect
    <2>3. E!T!Aside
      BY <1>14, <2>2 DEF E!T!Aside, E!T!Size, Pos, E!colour
    <2> QED  BY <1>15, <2>3
  <1> QED  BY <1>16, <1>17

\* Every step is one of the terminal or none.
LEMMA ConsoleE2Step ==
    ASSUME E!ConsoleSizes, OnScreenE2, [E!Next]_E!vars
    PROVE  /\ OnScreenE2'
           /\ E!T!Next \/ UNCHANGED <<Pos(screen), screen.cells, E!colour>>
  <1>1. Bounded /\ TAM_BUFFER \in Nat \ {0}
    BY DEF E!ConsoleSizes, E!Scr!ScreenSizes, Bounded
  <1>2. CASE UNCHANGED <<screen, buff>>
    BY <1>2 DEF OnScreenE2, OnScreen, Pos, E!colour
  <1>3. ASSUME NEW text \in Texts, E!SysWrite(text)
        PROVE  OnScreenE2' /\ E!T!Next
    <2>1. PICK X : text \in Seq(X)
      BY DEF E!ConsoleSizes
    <2>2. PICK f : IsRun(f, screen, text, Len(text), E!colour)
      <3>1. Len(text) \in Nat  BY <2>1
      <3> QED  BY <3>1, RunExists
    <2>3. screen' = E!pieces(text).scr /\ buff' = E!pieces(text).buff
      BY <1>3 DEF E!SysWrite
    <2>4. screen' = f[Len(text)] /\ DOMAIN buff' = 1 .. TAM_BUFFER
      BY <1>1, <2>1, <2>2, <2>3, Pieces DEF OnScreenE2
    <2>5. OnScreen(screen') /\ E!T!Display(text)
      BY <1>1, <2>1, <2>2, <2>4, ConsoleE2Displays DEF OnScreenE2
    <2> QED  BY <2>4, <2>5 DEF OnScreenE2, E!T!Next
  <1>4. CASE E!Next
    <2>1. CASE \E fd \in {0, 1}, negative, ok \in BOOLEAN :
                  E!SysWriteRefused(fd, negative, ok)
      BY <1>2, <2>1 DEF E!SysWriteRefused
    <2>2. CASE \E text \in Texts : E!SysWrite(text)
      BY <1>3, <2>2
    <2>3. CASE \E key \in Keys \cup {"C"} : E!KeyboardRoutine(key)
      <3>1. PICK key \in Keys \cup {"C"} : E!KeyboardRoutine(key)  BY <2>3
      <3> QED  BY <3>1, KeyAside DEF E!T!Next
    <2> QED  BY <1>4, <2>1, <2>2, <2>3 DEF E!Next
  <1>5. CASE UNCHANGED E!vars
    BY <1>2, <1>5 DEF E!vars
  <1> QED  BY <1>4, <1>5

\* The console of E2 implements a terminal, for every size and all texts:
\* what an earlier text left in the one buffer never shows, and a key the
\* keyboard routine shows moves no program's cursor.
THEOREM ConsoleE2IsTerminal ==
    ASSUME E!ConsoleSizes
    PROVE  E!Spec => E!IsTerminal
  <1>1. Bounded  BY DEF E!ConsoleSizes, E!Scr!ScreenSizes, Bounded
  <1>2. E!Init => OnScreenE2  BY <1>1, ConsoleE2Starts
  <1>3. OnScreenE2 /\ [E!Next]_E!vars => OnScreenE2'
    BY ConsoleE2Step
  <1>4. OnScreenE2 /\ [E!Next]_E!vars => [E!T!Next]_<<Pos(screen), screen.cells, E!colour>>
    BY ConsoleE2Step
  <1> QED  BY <1>2, <1>3, <1>4, PTL DEF E!Spec, E!IsTerminal, E!T!Spec, Pos
=============================================================================
