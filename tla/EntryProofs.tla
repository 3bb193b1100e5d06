----------------------------- MODULE EntryProofs ----------------------------
(***************************************************************************)
(* Theorems about Entry.  Whatever the programs do, a process runs as if   *)
(* it were alone, provided that what restores registers mirrors what saves *)
(* them; the three deliveries do.  Alone, a process that calls the         *)
(* wrappers of PROJECTE follows an outline of them, place by place, from   *)
(* which their arguments, registers and results are read off.              *)
(***************************************************************************)
EXTENDS EntryProps, FiniteSetTheorems, TLAPS

\* RESTORE_ALL pops what SAVE_ALL pushed in the opposite order, and the
\* processor restores the two registers that are not among them; a switch
\* does the same with those of C.
Reversed(pushes, pops) ==
    /\ pushes \in Seq(Regs) /\ pops \in Seq(Regs) /\ Len(pops) = Len(pushes)
    /\ \A i \in 1 .. Len(pops) : pops[i] = pushes[Len(pushes) + 1 - i]
Mirrors(saves, restores, switch_saves, switch_restores) ==
    /\ Reversed(saves, restores) /\ Reversed(switch_saves, switch_restores)
    /\ Len(restores) >= 7 /\ restores[7] = "eax"
    /\ \A i, j \in 1 .. Len(restores) : restores[i] = restores[j] => i = j
    /\ \A r \in Regs \ {"esp", "eip"} : \E i \in 1 .. Len(restores) : restores[i] = r
    /\ \A r \in CKept : \E i \in 1 .. Len(switch_restores) : switch_restores[i] = r
SystemsMirror ==
    \A name \in DOMAIN Systems :
        Mirrors(Systems[name].saves, Systems[name].restores,
                Systems[name].switch_saves, Systems[name].switch_restores)

\* What this says of the registers.
RegistersMirror ==
    /\ Reversed(Saves, Restores) /\ Len(Restores) >= 7 /\ Restores[7] = "eax"
    /\ \A i, j \in 1 .. Len(Restores) : Restores[i] = Restores[j] => i = j
    /\ \A r \in Regs \ {"esp", "eip"} : \E i \in 1 .. Len(Restores) : Restores[i] = r

\* A register file.
IsRegs(R) == R = [r \in Regs |-> R[r]]

\* The frame an interrupt leaves of the registers R.
FrameOf(R) ==
    <<<<"ss", 0>>, R.esp, <<"flags", 0>>, <<"cs", 0>>, R.eip>>
        \o [i \in DOMAIN Saves |-> R[Saves[i]]]

\* What is on the kernel stack of a process that waits is what it left there:
\* the frame of its way in, and above it, unless it never ran, that of the
\* switch.
SwitchOnTop(q) ==
    \A i \in 1 .. Len(SwitchSaves) :
        slot(kstack[q], Len(SwitchSaves) - i) = kernel_reg(q, SwitchSaves[i])
Waits(q) ==
    /\ how[q] \in {"interrupt", "syscall", "fork"}
    /\ how[q] # "fork" => SwitchOnTop(q)
    /\ how[q] = "interrupt" => IsRegs(left[q]) /\ frame_of(q) = FrameOf(left[q])

EInv ==
    /\ system \in DOMAIN Systems
    /\ cur \in alive /\ alive \subseteq Procs
    /\ IsRegs(regs)
    /\ DOMAIN kstack = Procs /\ DOMAIN how = Procs /\ DOMAIN left = Procs
    /\ DOMAIN stack = Procs /\ DOMAIN errno = Procs /\ DOMAIN called = Procs
    /\ \A q \in alive \ {cur} : Waits(q)

\* A switch to a process that was switched from finds the registers of the C
\* code that called it: the processor only goes astray through the table.
SwitchesBack == \A q \in alive \ {cur} : how[q] # "fork" => switched_back(q)

-----------------------------------------------------------------------------
\* Frames

\* What two sequences, one after the other, have at the top and at the bottom.
LEMMA TopAndBottom ==
    ASSUME NEW S, NEW f \in Seq(S), NEW g \in Seq(S)
    PROVE  /\ \A k \in 0 .. Len(g) - 1 : slot(f \o g, k) = g[Len(g) - k]
           /\ SubSeq(f \o g, 1, Len(f \o g) - Len(g)) = f
  <1>1. f \o g \in Seq(S) /\ Len(f \o g) = Len(f) + Len(g)
    OBVIOUS
  <1>2. ASSUME NEW k \in 0 .. Len(g) - 1
        PROVE  slot(f \o g, k) = g[Len(g) - k]
    BY <1>1, <1>2 DEF slot
  <1>3. SubSeq(f \o g, 1, Len(f \o g) - Len(g)) = f
    BY <1>1
  <1> QED  BY <1>2, <1>3

\* The frame of the registers R, for a way in that found the stack pointer a
\* and the address b, and what is where in it.
IsFrame(f, R, a, b) ==
    f = <<<<"ss", 0>>, a, <<"flags", 0>>, <<"cs", 0>>, b>> \o [i \in DOMAIN Saves |-> R[Saves[i]]]

LEMMA FrameSlots ==
    ASSUME Reversed(Saves, Restores), NEW R, NEW a, NEW b,
           NEW f, IsFrame(f, R, a, b)
    PROVE  LET n == Len(Restores)
           IN  /\ n \in Nat /\ DOMAIN Restores = 1 .. n
               /\ Len(f) = n + 5 /\ f[2] = a /\ f[5] = b
               /\ \A i \in 1 .. n : slot(f, i - 1) = R[Restores[i]]
               /\ \E S : f \in Seq(S)
  <1> DEFINE n == Len(Saves)
             saved == [i \in DOMAIN Saves |-> R[Saves[i]]]
             low == <<<<"ss", 0>>, a, <<"flags", 0>>, <<"cs", 0>>, b>>
             S == {<<"ss", 0>>, <<"flags", 0>>, <<"cs", 0>>, a, b} \cup {R[r] : r \in Regs}
  <1>0. f = low \o saved
    BY DEF IsFrame
  <1>1. n \in Nat /\ DOMAIN Saves = 1 .. n /\ \A i \in 1 .. n : Saves[i] \in Regs
    BY DEF Reversed
  <1>2. DOMAIN Restores = 1 .. n /\ Len(Restores) = n
        /\ \A i \in 1 .. n : Restores[i] = Saves[n + 1 - i]
    BY DEF Reversed
  <1>3. saved \in Seq(S) /\ Len(saved) = n
    BY <1>1
  <1>4. low \in Seq(S) /\ Len(low) = 5
    OBVIOUS
  <1>5. Len(f) = n + 5 /\ f[2] = a /\ f[5] = b
    BY <1>0, <1>3, <1>4
  <1>6. f \in Seq(S)
    <2> HIDE DEF low, saved, S
    <2> QED  BY <1>0, <1>3, <1>4
  <1>7. ASSUME NEW i \in 1 .. n
        PROVE  slot(f, i - 1) = R[Restores[i]]
    <2>0. low \in Seq(S) /\ saved \in Seq(S)
      BY <1>3, <1>4
    <2> HIDE DEF n, saved, low, S
    <2>3. \A x, y \in Seq(S) :
             \A k \in 0 .. Len(y) - 1 : slot(x \o y, k) = y[Len(y) - k]
      BY TopAndBottom
    <2>1. \A k \in 0 .. Len(saved) - 1 : slot(low \o saved, k) = saved[Len(saved) - k]
      BY <2>0, <2>3
    <2>2. i - 1 \in 0 .. n - 1 /\ n - (i - 1) \in 1 .. n /\ n - (i - 1) = n + 1 - i
      BY <1>1, <1>7
    <2>4. slot(f, i - 1) = saved[n + 1 - i]
      BY <1>0, <1>3, <2>1, <2>2
    <2> USE DEF saved
    <2> QED  BY <1>1, <1>2, <2>2, <2>4
  <1> HIDE DEF saved, low, S
  <1>8. /\ n \in Nat /\ DOMAIN Restores = 1 .. n /\ Len(Restores) = n
        /\ Len(f) = n + 5 /\ f[2] = a /\ f[5] = b
        /\ \A i \in 1 .. n : slot(f, i - 1) = R[Restores[i]]
        /\ f \in Seq(S)
    BY <1>1, <1>2, <1>5, <1>6, <1>7
  <1> HIDE DEF n
  <1> QED  BY <1>8

\* What RESTORE_ALL pops from the top n words of f.
LEMMA Popped ==
    ASSUME NEW f, NEW n, DOMAIN Restores = 1 .. n,
           \A r \in Regs \ {"esp", "eip"} : \E i \in 1 .. n : Restores[i] = r,
           \A i, j \in 1 .. n : Restores[i] = Restores[j] => i = j,
           NEW i \in 1 .. n, Restores[i] \in Regs
    PROVE  restored(f)[Restores[i]] = slot(f, i - 1)
  <1> DEFINE r == Restores[i]
             j == CHOOSE k \in DOMAIN Restores : Restores[k] = r
  <1>1. j \in 1 .. n /\ Restores[j] = r
    OBVIOUS
  <1>2. j = i
    BY <1>1
  <1>3. restored(f)[r] = slot(f, j - 1)
    BY <1>1 DEF restored
  <1> QED  BY <1>2, <1>3

\* SAVE_ALL, and then the processor: popping the frame of R with RESTORE_ALL
\* and iret gives R.
LEMMA FrameRestores ==
    ASSUME RegistersMirror, NEW R, IsRegs(R)
    PROVE  iret(FrameOf(R)) = R
  <1> DEFINE n == Len(Restores)
             f == FrameOf(R)
  <1>1. /\ n \in Nat /\ DOMAIN Restores = 1 .. n
        /\ Len(f) = n + 5 /\ f[2] = R.esp /\ f[5] = R.eip
        /\ \A i \in 1 .. n : slot(f, i - 1) = R[Restores[i]]
    <2>1. IsFrame(f, R, R.esp, R.eip)
      BY DEF IsFrame, FrameOf
    <2>2. PICK a, b : a = R.esp /\ b = R.eip
      OBVIOUS
    <2> HIDE DEF n, f
    <2>3. \A x, y : IsFrame(f, R, x, y) =>
             /\ Len(Restores) \in Nat /\ DOMAIN Restores = 1 .. Len(Restores)
             /\ Len(f) = Len(Restores) + 5 /\ f[2] = x /\ f[5] = y
             /\ \A i \in 1 .. Len(Restores) : slot(f, i - 1) = R[Restores[i]]
      BY FrameSlots DEF RegistersMirror
    <2> QED  BY <2>1, <2>2, <2>3 DEF n
  <1> HIDE DEF f
  <1>2. ASSUME NEW r \in Regs \ {"esp", "eip"}
        PROVE  restored(f)[r] = R[r]
    <2>0. /\ \A i, j \in 1 .. n : Restores[i] = Restores[j] => i = j
          /\ \A q \in Regs \ {"esp", "eip"} : \E i \in 1 .. n : Restores[i] = q
      BY DEF RegistersMirror
    <2>1. PICK i \in 1 .. n : Restores[i] = r
      BY <2>0
    <2>2. restored(f)[Restores[i]] = slot(f, i - 1)
      BY <1>1, <2>0, <2>1, Popped
    <2> QED  BY <1>1, <2>1, <2>2
  <1>3. DOMAIN restored(f) = Regs
    BY DEF restored
  <1>4. DOMAIN iret(f) = Regs /\ \A r \in Regs : iret(f)[r] = R[r]
    BY <1>1, <1>2, <1>3 DEF iret
  <1>5. iret(f) = [r \in Regs |-> iret(f)[r]]
    BY <1>3, <1>4 DEF iret
  <1> QED  BY <1>4, <1>5 DEF IsRegs, f

\* What a handler does to the frame: the arguments K and then EAX.
LEMMA Overwritten ==
    ASSUME NEW S, NEW f \in Seq(S), Len(f) > 6, NEW K, NEW n
    PROVE  LET g == with_result(overwritten(f, K), n)
           IN  /\ Len(g) = Len(f)
               /\ \A i \in 1 .. Len(f) : g[i] = IF i = Len(f) - 6 THEN Num(n)
                                              ELSE IF Len(f) + 1 - i \in K THEN Junk ELSE f[i]
  <1> DEFINE m == Len(f)
             o == overwritten(f, K)
             g == with_result(o, n)
             T == S \cup {Junk, Num(n)}
  <1>1. m \in Nat /\ DOMAIN f = 1 .. m /\ \A i \in 1 .. m : f[i] \in S
    OBVIOUS
  <1>2. o \in Seq(T) /\ Len(o) = m
        /\ \A i \in 1 .. m : o[i] = IF m + 1 - i \in K THEN Junk ELSE f[i]
    BY <1>1 DEF overwritten
  <1>3. g = [o EXCEPT ![m - 6] = Num(n)]
    BY <1>2 DEF with_result
  <1> HIDE DEF o, g, m, T
  <1>4. g \in Seq(T) /\ Len(g) = m
        /\ \A i \in 1 .. m : g[i] = IF i = m - 6 THEN Num(n) ELSE o[i]
    <2>1. Num(n) \in T /\ m \in Nat
      BY <1>1 DEF T
    <2>2. DOMAIN o = 1 .. m /\ \A i \in 1 .. m : o[i] \in T
      BY <1>2
    <2> HIDE DEF m
    <2>3. g = [i \in 1 .. m |-> IF i = m - 6 THEN Num(n) ELSE o[i]]
      BY <1>3, <2>2
    <2>4. g \in [1 .. m -> T]
      BY <2>1, <2>2, <2>3
    <2> QED  BY <2>1, <2>3, <2>4
  <1>5. \A i \in 1 .. m : g[i] = IF i = m - 6 THEN Num(n)
                                 ELSE IF m + 1 - i \in K THEN Junk ELSE f[i]
    BY <1>2, <1>4
  <1> QED  BY <1>4, <1>5 DEF m, g, o

LEMMA NothingOverwritten ==
    ASSUME NEW S, NEW f \in Seq(S)
    PROVE  overwritten(f, {}) = f
  BY DEF overwritten

\* What the way out gives the program of a system call with the frame f.
LEMMA KernelAnswers ==
    ASSUME RegistersMirror,
           NEW R, NEW a, a = R.ebp, NEW b, NEW f, IsFrame(f, R, a, b),
           NEW K \in SUBSET (1 .. 3), NEW n
    PROVE  /\ sysexit(with_result(overwritten(f, K), n)) = given_back(R, b, n, K)
           /\ arguments(f) = passed(R)
  <1> DEFINE n_r == Len(Restores)
             g == with_result(overwritten(f, K), n)
             back == given_back(R, b, n, K)
  <1>1. /\ n_r \in Nat /\ n_r >= 7 /\ DOMAIN Restores = 1 .. n_r
        /\ Len(f) = n_r + 5 /\ f[2] = a /\ f[5] = b
        /\ \A i \in 1 .. n_r : slot(f, i - 1) = R[Restores[i]]
        /\ \E S : f \in Seq(S)
    <2>1. Reversed(Saves, Restores) /\ n_r >= 7
      BY DEF RegistersMirror
    <2> QED  BY <2>1, FrameSlots
  <1>2. /\ Len(g) = Len(f)
        /\ \A i \in 1 .. Len(f) : g[i] = IF i = Len(f) - 6 THEN Num(n)
                                       ELSE IF Len(f) + 1 - i \in K THEN Junk ELSE f[i]
    <2>1. PICK S : f \in Seq(S)
      BY <1>1
    <2>2. Len(f) > 6
      BY <1>1
    <2> QED  BY <2>1, <2>2, Overwritten
  <1>11. /\ Restores[7] = "eax"
         /\ \A i, j \in 1 .. n_r : Restores[i] = Restores[j] => i = j
         /\ \A r \in Regs \ {"esp", "eip"} : \E i \in 1 .. n_r : Restores[i] = r
    BY DEF RegistersMirror
  <1> HIDE DEF g, n_r
  <1>3. g[2] = a /\ g[5] = b
    <2>1. /\ 2 \in 1 .. Len(f) /\ 2 # Len(f) - 6 /\ Len(f) + 1 - 2 \notin 1 .. 3
          /\ 5 \in 1 .. Len(f) /\ 5 # Len(f) - 6 /\ Len(f) + 1 - 5 \notin 1 .. 3
      BY <1>1
    <2>2. Len(f) + 1 - 2 \notin K /\ Len(f) + 1 - 5 \notin K
      BY <2>1
    <2> QED  BY <1>1, <1>2, <2>1, <2>2
  <1>4. ASSUME NEW i \in 1 .. n_r
        PROVE  slot(g, i - 1) = IF i = 7 THEN Num(n) ELSE IF i \in K THEN Junk ELSE R[Restores[i]]
    <2> DEFINE j == n_r + 6 - i
    <2>1. /\ j \in 1 .. Len(f) /\ (j = Len(f) - 6 <=> i = 7) /\ Len(f) + 1 - j = i
          /\ Len(f) - (i - 1) = j
      BY <1>1, <1>4
    <2> HIDE DEF j
    <2>2. slot(g, i - 1) = g[j] /\ slot(f, i - 1) = f[j]
      BY <1>2, <2>1 DEF slot
    <2>3. g[j] = IF j = Len(f) - 6 THEN Num(n)
                 ELSE IF Len(f) + 1 - j \in K THEN Junk ELSE f[j]
      BY <1>2, <2>1
    <2>4. slot(f, i - 1) = R[Restores[i]]
      BY <1>1, <1>4
    <2>5. g[j] = IF i = 7 THEN Num(n) ELSE IF i \in K THEN Junk ELSE f[j]
      BY <2>1, <2>3
    <2> QED  BY <2>2, <2>4, <2>5
  <1>5. ASSUME NEW r \in Regs \ {"esp", "eip", "ecx", "edx"}
        PROVE  restored(g)[r] = back[r]
    <2>1. PICK i \in 1 .. n_r : Restores[i] = r
      BY <1>11
    <2>2. restored(g)[r] = slot(g, i - 1)
      <3>1. DOMAIN Restores = 1 .. n_r /\ Restores[i] \in Regs
        BY <1>1, <2>1
      <3>2. restored(g)[Restores[i]] = slot(g, i - 1)
        BY <1>11, <3>1, Popped
      <3> QED  BY <2>1, <3>2
    <2>3. r = "eax" <=> i = 7
      BY <1>1, <1>11, <2>1
    <2>4. (\E j \in K : Restores[j] = r) <=> i \in K
      BY <1>1, <1>11, <2>1
    <2>5. back[r] = IF i = 7 THEN Num(n) ELSE IF i \in K THEN Junk ELSE R[r]
      BY <1>5, <2>3, <2>4 DEF given_back
    <2> QED  BY <1>4, <2>1, <2>2, <2>5
  <1>6. DOMAIN restored(g) = Regs
    BY DEF restored
  <1>7. DOMAIN sysexit(g) = Regs /\ DOMAIN back = Regs
        /\ \A r \in Regs : sysexit(g)[r] = back[r]
    <2>1. \A r \in {"esp", "ecx"} : back[r] = a
      BY DEF given_back, Regs
    <2>2. \A r \in {"eip", "edx"} : back[r] = b
      BY DEF given_back, Regs
    <2>3. DOMAIN back = Regs
      BY DEF given_back
    <2> HIDE DEF back
    <2> QED  BY <1>3, <1>5, <1>6, <2>1, <2>2, <2>3 DEF sysexit
  <1>8. sysexit(g) = back
    <2>1. sysexit(g) = [r \in Regs |-> sysexit(g)[r]]
      BY <1>6, <1>7 DEF sysexit
    <2>2. back = [r \in Regs |-> back[r]]
      BY DEF given_back
    <2> HIDE DEF back
    <2> QED  BY <1>7, <2>1, <2>2
  <1>9. arguments(f) = passed(R)
    <2>1. slot(f, 0) = R[Restores[1]] /\ slot(f, 1) = R[Restores[2]] /\ slot(f, 2) = R[Restores[3]]
      <3>1. 1 \in 1 .. n_r /\ 2 \in 1 .. n_r /\ 3 \in 1 .. n_r
        BY <1>1
      <3>2. slot(f, 1 - 1) = R[Restores[1]] /\ slot(f, 2 - 1) = R[Restores[2]]
            /\ slot(f, 3 - 1) = R[Restores[3]]
        BY <1>1, <3>1
      <3> QED  BY <3>2
    <2> QED  BY <2>1 DEF arguments, passed
  <1> QED  BY <1>8, <1>9 DEF g

\* What a switch leaves is on top, and the frame is below it.
LEMMA LeftBehind ==
    ASSUME Reversed(SwitchSaves, SwitchRestores),
           NEW p, NEW S, NEW f \in Seq(S)
    PROVE  /\ \A i \in 1 .. Len(SwitchSaves) :
                 slot(f \o switch_frame(p), Len(SwitchSaves) - i)
                     = kernel_reg(p, SwitchSaves[i])
           /\ SubSeq(f \o switch_frame(p), 1,
                     Len(f \o switch_frame(p)) - Len(SwitchRestores)) = f
  <1> DEFINE m == Len(SwitchSaves)
             g == switch_frame(p)
             T == S \cup {kernel_reg(p, r) : r \in Regs}
  <1>1. m \in Nat /\ DOMAIN SwitchSaves = 1 .. m
        /\ \A i \in 1 .. m : SwitchSaves[i] \in Regs
    BY DEF Reversed
  <1>2. g \in Seq(T) /\ Len(g) = m /\ \A i \in 1 .. m : g[i] = kernel_reg(p, SwitchSaves[i])
    BY <1>1 DEF switch_frame
  <1>3. f \in Seq(T)
    OBVIOUS
  <1>4. Len(SwitchRestores) = m
    BY DEF Reversed
  <1> HIDE DEF g, T
  <1>5. ASSUME NEW i \in 1 .. m
        PROVE  slot(f \o g, m - i) = kernel_reg(p, SwitchSaves[i])
    <2>1. m - i \in 0 .. m - 1 /\ m - (m - i) = i
      BY <1>1, <1>5
    <2>2. \A k \in 0 .. Len(g) - 1 : slot(f \o g, k) = g[Len(g) - k]
      BY <1>2, <1>3, TopAndBottom
    <2>3. slot(f \o g, m - i) = g[m - (m - i)]
      BY <1>2, <2>1, <2>2
    <2> QED  BY <1>2, <1>5, <2>1, <2>3
  <1>6. SubSeq(f \o g, 1, Len(f \o g) - m) = f
    BY <1>2, <1>3, TopAndBottom
  <1> QED  BY <1>4, <1>5, <1>6 DEF g

\* Who finds the frame of the switch on top gets the registers of C back.
LEMMA SwitchRestoresC ==
    ASSUME Reversed(SwitchSaves, SwitchRestores),
           \A r \in CKept : \E i \in 1 .. Len(SwitchRestores) : SwitchRestores[i] = r,
           NEW q, SwitchOnTop(q)
    PROVE  switched_back(q)
  <1> DEFINE m == Len(SwitchSaves)
  <1>1. m \in Nat /\ DOMAIN SwitchRestores = 1 .. m /\ Len(SwitchRestores) = m
        /\ \A i \in 1 .. m : SwitchRestores[i] = SwitchSaves[m + 1 - i]
    BY DEF Reversed
  <1>2. \A i \in 1 .. m : slot(kstack[q], m - i) = kernel_reg(q, SwitchSaves[i])
    BY DEF SwitchOnTop
  <1> HIDE DEF m
  <1>3. ASSUME NEW j \in 1 .. m
        PROVE  slot(kstack[q], j - 1) = kernel_reg(q, SwitchRestores[j])
    <2>1. m + 1 - j \in 1 .. m /\ m - (m + 1 - j) = j - 1
      BY <1>1, <1>3
    <2> QED  BY <1>1, <1>2, <1>3, <2>1
  <1>4. ASSUME NEW r \in CKept
        PROVE  LET j == CHOOSE i \in DOMAIN SwitchRestores : SwitchRestores[i] = r
               IN  /\ \E i \in DOMAIN SwitchRestores : SwitchRestores[i] = r
                   /\ slot(kstack[q], j - 1) = kernel_reg(q, r)
    <2> DEFINE j == CHOOSE i \in DOMAIN SwitchRestores : SwitchRestores[i] = r
    <2>1. \E i \in DOMAIN SwitchRestores : SwitchRestores[i] = r
      BY <1>1, <1>4
    <2>2. j \in 1 .. m /\ SwitchRestores[j] = r
      BY <1>1, <2>1
    <2>3. slot(kstack[q], j - 1) = kernel_reg(q, r)
      BY <1>3, <2>2
    <2> QED  BY <2>1, <2>3
  <1> QED  BY <1>4 DEF switched_back

-----------------------------------------------------------------------------
\* Steps

\* An instruction, whatever it is, leaves the register file one.
Context(c) ==
    /\ c = [regs |-> c.regs, stack |-> c.stack, errno |-> c.errno,
            call |-> c.call, state |-> c.state]
    /\ IsRegs(c.regs)

LEMMA ContextParts ==
    ASSUME NEW c, Context(c), NEW a
    PROVE  /\ Context(goto(c, a)) /\ Context(pushed(c, a)) /\ Context(popped(c))
           /\ \A r : Context([c EXCEPT !.regs[r] = a])
           /\ Context([c EXCEPT !.errno = a]) /\ Context([c EXCEPT !.state = a])
  <1>1. \A R, r, v : IsRegs(R) => IsRegs([R EXCEPT ![r] = v])
    BY DEF IsRegs
  <1>2. ASSUME NEW d, Context(d), NEW r, NEW v
        PROVE  Context([d EXCEPT !.regs[r] = v])
    <2> DEFINE R == [d.regs EXCEPT ![r] = v]
    <2>1. [d EXCEPT !.regs[r] = v] = [d EXCEPT !.regs = R]
      OBVIOUS
    <2>2. IsRegs(R)
      BY <1>1, <1>2 DEF Context
    <2> HIDE DEF R
    <2> QED  BY <1>2, <2>1, <2>2 DEF Context
  <1>3. Context(goto(c, a))
    BY <1>2 DEF goto
  <1>4. Context(popped(c))
    BY <1>2 DEF popped
  <1>5. ASSUME NEW v PROVE Context([c EXCEPT !.errno = v])
    BY DEF Context
  <1>6. ASSUME NEW v PROVE Context([c EXCEPT !.state = v])
    BY DEF Context
  <1>7. Context(pushed(c, a))
    <2> DEFINE d == [c EXCEPT !.stack[top(c) + 1] = a]
    <2>1. pushed(c, a) = [d EXCEPT !.regs.esp = Sp(top(c) + 1)]
      BY DEF pushed
    <2>2. Context(d)
      BY DEF Context
    <2> HIDE DEF d
    <2> QED  BY <1>2, <2>1, <2>2
  <1> QED  BY <1>2, <1>3, <1>4, <1>5, <1>6, <1>7

LEMMA RegistersStay ==
    ASSUME NEW c, Context(c), NEW i
    PROVE  Context(executed(c, i))
  <1> DEFINE ahead(d) == goto(d, next(c, 1))
  <1>1. ASSUME NEW d, Context(d) PROVE Context(ahead(d))
    BY <1>1, ContextParts
  <1> HIDE DEF ahead
  <1>2. CASE i[1] = "push"
    <2>1. Context(pushed(c, c.regs[i[2]]))
      BY ContextParts
    <2> QED  BY <1>1, <1>2, <2>1 DEF executed, ahead
  <1>3. CASE i[1] = "push_next"
    <2>1. Context(pushed(c, next(c, i[2])))
      BY ContextParts
    <2> QED  BY <1>1, <1>3, <2>1 DEF executed, ahead
  <1>4. CASE i[1] = "pop"
    <2>0. Context(popped(c))  BY ContextParts
    <2>1. Context([popped(c) EXCEPT !.regs[i[2]] = c.stack[top(c)]])
      BY <2>0, ContextParts
    <2> QED  BY <1>1, <1>4, <2>1 DEF executed, ahead
  <1>5. CASE i[1] = "drop"
    <2>1. Context(popped(c))
      BY ContextParts
    <2> QED  BY <1>1, <1>5, <2>1 DEF executed, ahead
  <1>6. CASE i[1] = "mov"
    <2>1. Context([c EXCEPT !.regs[i[3]] = c.regs[i[2]]])
      BY ContextParts
    <2> QED  BY <1>1, <1>6, <2>1 DEF executed, ahead
  <1>7. CASE i[1] = "set"
    <2>1. Context([c EXCEPT !.regs[i[3]] = Num(i[2])])
      BY ContextParts
    <2> QED  BY <1>1, <1>7, <2>1 DEF executed, ahead
  <1>8. CASE i[1] = "arg"
    <2>1. Context([c EXCEPT !.regs[i[3]] = c.stack[c.regs.ebp[2] - i[2] - 1]])
      BY ContextParts
    <2> QED  BY <1>1, <1>8, <2>1 DEF executed, ahead
  <1>9. CASE i[1] = "call"
    <2>1. Context(pushed(c, next(c, 1)))
      BY ContextParts
    <2> QED  BY <1>9, <2>1, ContextParts DEF executed
  <1>10. CASE i[1] = "ret"
    <2>1. Context(popped(c))
      BY ContextParts
    <2> QED  BY <1>10, <2>1, ContextParts DEF executed
  <1>11. CASE i[1] = "jge"
    BY <1>11, ContextParts DEF executed
  <1>12. CASE i[1] = "js"
    BY <1>1, <1>12, ContextParts DEF executed, ahead
  <1>13. CASE i[1] = "neg_eax"
    <2>1. Context([c EXCEPT !.regs.eax = Num(- c.regs.eax[2])])
      BY ContextParts
    <2> QED  BY <1>1, <1>13, <2>1 DEF executed, ahead
  <1>14. CASE i[1] = "set_errno"
    <2>1. Context([c EXCEPT !.errno = c.regs.eax])
      BY ContextParts
    <2> QED  BY <1>1, <1>14, <2>1 DEF executed, ahead
  <1>15. CASE i[1] \notin {"push", "push_next", "pop", "drop", "mov", "set", "arg", "call",
                           "ret", "jge", "js", "neg_eax", "set_errno"}
    BY <1>15, ContextParts DEF executed
  <1> QED  BY <1>2, <1>3, <1>4, <1>5, <1>6, <1>7, <1>8, <1>9, <1>10, <1>11, <1>12, <1>13, <1>14, <1>15

\* What the system of a behaviour is made of.
LEMMA OfTheSystem ==
    ASSUME SystemsMirror, EInv
    PROVE  /\ RegistersMirror
           /\ Reversed(Saves, Restores) /\ Reversed(SwitchSaves, SwitchRestores)
           /\ \A r \in CKept : \E i \in 1 .. Len(SwitchRestores) : SwitchRestores[i] = r
           /\ FirstProc \in Procs
  BY EntryAssumption DEF RegistersMirror, SystemsMirror, Mirrors, EInv, Saves, Restores, SwitchSaves,
                         SwitchRestores, Procs

\* The kernel leaves a register file.
LEMMA KernelLeaves ==
    ASSUME NEW f
    PROVE  IsRegs(iret(f)) /\ IsRegs(sysexit(f))
  BY DEF IsRegs, iret, sysexit, restored

LEMMA EntryInit == ASSUME Init PROVE EInv
  BY EntryAssumption DEF Init, EInv, IsRegs, caller_regs, Procs

\* Steps that change neither the process that runs nor one that waits.
LEMMA NobodyMoves ==
    ASSUME EInv, UNCHANGED <<system, cur, kstack, how, alive, left>>, IsRegs(regs'),
           DOMAIN stack' = Procs, DOMAIN errno' = Procs, DOMAIN called' = Procs
    PROVE  EInv'
  <1>1. ASSUME NEW p, Waits(p)
        PROVE  Waits(p)'
    BY <1>1 DEF Waits, SwitchOnTop, frame_of, FrameOf, slot, kernel_reg, SwitchSaves,
                SwitchRestores, Saves
  <1> QED  BY <1>1 DEF EInv, Procs

LEMMA Becoming ==
    ASSUME EInv, NEW c, IsRegs(c.regs), Becomes(c)
    PROVE  EInv'
  <1>1. /\ DOMAIN stack' = Procs /\ DOMAIN errno' = Procs /\ DOMAIN called' = Procs
        /\ regs' = c.regs
    BY DEF EInv, Becomes
  <1> QED  BY <1>1, NobodyMoves DEF Becomes

\* A process that waits goes on waiting while others switch.
LEMMA WaitsOn ==
    ASSUME NEW p, Waits(p), system' = system, kstack'[p] = kstack[p],
           how'[p] = how[p], left'[p] = left[p]
    PROVE  Waits(p)'
  BY DEF Waits, SwitchOnTop, frame_of, FrameOf, slot, kernel_reg, SwitchSaves,
         SwitchRestores, Saves

\* A step in which the process that runs leaves with the frame f for q.
LEMMA LeavesFor ==
    ASSUME SystemsMirror, EInv, NEW q \in alive \ {cur},
           NEW f, \E S : f \in Seq(S), NEW by \in {"interrupt", "syscall"},
           Leave(cur, f, by, q), Resume(q),
           alive' \subseteq alive, q \in alive', system' = system,
           DOMAIN left' = Procs, \A p \in alive \ {cur, q} : left'[p] = left[p],
           stack' = stack, errno' = errno, DOMAIN called' = Procs,
           by = "interrupt" => f = FrameOf(regs) /\ left'[cur] = regs
    PROVE  EInv'
  <1>1. /\ cur \in Procs /\ q \in Procs /\ q # cur /\ cur' = q
        /\ DOMAIN kstack = Procs /\ DOMAIN how = Procs /\ Procs' = Procs
    BY DEF EInv, Resume, Procs
  <1>2. /\ DOMAIN kstack' = Procs /\ DOMAIN how' = Procs
        /\ kstack'[cur] = f \o switch_frame(cur) /\ how'[cur] = by
        /\ \A p \in Procs \ {cur, q} : kstack'[p] = kstack[p] /\ how'[p] = how[p]
    BY <1>1 DEF Leave
  <1>3. IsRegs(regs')
    <2>1. how[q] \in {"interrupt", "syscall", "fork"}
      BY DEF EInv, Waits
    <2>2. \/ regs' = iret(frame_of(q))
          \/ regs' = sysexit(with_result(frame_of(q), called[q].result))
          \/ regs' = sysexit(with_result(frame_of(q), 0))
      BY <2>1 DEF Resume, resumed
    <2> QED  BY <2>2, KernelLeaves
  <1>4. ASSUME NEW p, p \in alive', p # cur'
        PROVE  Waits(p)'
    <2>1. CASE p # cur
      <3>1. p \in alive \ {cur, q} /\ p \in Procs
        BY <1>1, <1>4, <2>1 DEF EInv
      <3>2. Waits(p)
        BY <3>1 DEF EInv
      <3> QED  BY <1>2, <3>1, <3>2, WaitsOn
    <2>2. CASE p = cur
      <3>1. PICK S : f \in Seq(S)
        OBVIOUS
      <3>2. /\ \A i \in 1 .. Len(SwitchSaves) :
                  slot(f \o switch_frame(p), Len(SwitchSaves) - i)
                      = kernel_reg(p, SwitchSaves[i])
            /\ SubSeq(f \o switch_frame(p), 1,
                      Len(f \o switch_frame(p)) - Len(SwitchRestores)) = f
        <4>1. Reversed(SwitchSaves, SwitchRestores)
          BY OfTheSystem
        <4> QED  BY <3>1, <4>1, LeftBehind
      <3>3. SwitchSaves' = SwitchSaves /\ SwitchRestores' = SwitchRestores /\ Saves' = Saves
        BY DEF SwitchSaves, SwitchRestores, Saves
      <3>4. kstack'[p] = f \o switch_frame(p) /\ how'[p] = by
        BY <1>2, <2>2
      <3>5. SwitchOnTop(p)'
        BY <3>2, <3>3, <3>4 DEF SwitchOnTop, kernel_reg
      <3>6. frame_of(p)' = f
        BY <3>2, <3>3, <3>4 DEF frame_of
      <3>7. by = "interrupt" => IsRegs(left'[p]) /\ f = FrameOf(left[p])'
        BY <2>2, <3>3 DEF EInv, FrameOf
      <3> QED  BY <3>4, <3>5, <3>6, <3>7 DEF Waits
    <2> QED  BY <2>1, <2>2
  <1> QED  BY <1>1, <1>2, <1>3, <1>4 DEF EInv

\* The frames of the two ways in.
LEMMA SysenterFrame ==
    ASSUME SystemsMirror, EInv, NEW p
    PROVE  /\ IsFrame(sysenter_frame_of(p), regs, regs.ebp, stack[p][regs.ebp[2] - 1])
           /\ \E S : sysenter_frame_of(p) \in Seq(S)
  <1>1. PICK a, b, f : a = regs.ebp /\ b = stack[p][regs.ebp[2] - 1] /\ f = sysenter_frame_of(p)
    OBVIOUS
  <1>2. IsFrame(f, regs, a, b)
    BY <1>1 DEF IsFrame, sysenter_frame_of, SAVED
  <1> QED  BY <1>1, <1>2, OfTheSystem, FrameSlots

LEMMA InterruptFrame ==
    ASSUME SystemsMirror, EInv
    PROVE  interrupt_frame = FrameOf(regs) /\ \E S : interrupt_frame \in Seq(S)
  <1>1. PICK a, b, f : a = regs.esp /\ b = regs.eip /\ f = interrupt_frame
    OBVIOUS
  <1>2. IsFrame(f, regs, a, b)
    BY <1>1 DEF IsFrame, interrupt_frame, SAVED
  <1>3. interrupt_frame = FrameOf(regs)
    BY DEF interrupt_frame, SAVED, FrameOf
  <1> QED  BY <1>1, <1>2, <1>3, OfTheSystem, FrameSlots

LEMMA EntryStep == ASSUME SystemsMirror, EInv, [Next]_vars PROVE EInv'
  <1>1. CASE UNCHANGED vars
    BY <1>1, NobodyMoves DEF EInv, vars
  <1>2. ASSUME NEW w \in Callable, CallWrapper(w) PROVE EInv'
    <2>1. IsRegs(at_wrapper(cur, w).regs)
      BY DEF at_wrapper, caller_regs, IsRegs
    <2> QED  BY <1>2, <2>1, Becoming DEF CallWrapper
  <1>3. ASSUME NEW n \in RawNumbers, CallRaw(n) PROVE EInv'
    <2>1. IsRegs(at_raw(cur, n).regs)
      BY DEF at_raw, caller_regs, IsRegs
    <2> QED  BY <1>3, <2>1, Becoming DEF CallRaw
  <1>4. CASE UserInstruction
    <2>1. PICK c : c = executed(context(cur), instr) /\ Becomes(c)
      BY <1>4 DEF UserInstruction
    <2>2. Context(context(cur))
      BY DEF Context, context, EInv
    <2>3. IsRegs(c.regs)
      BY <2>1, <2>2, RegistersStay DEF Context
    <2> QED  BY <2>1, <2>3, Becoming
  <1>5. CASE ClockReturns
    <2>1. IsRegs(regs')
      BY <1>5, KernelLeaves DEF ClockReturns
    <2> QED  BY <1>5, <2>1, NobodyMoves DEF ClockReturns, EInv
  <1>6. ASSUME NEW q \in Procs, ClockSwitches(q) PROVE EInv'
    <2>1. /\ q \in alive \ {cur} /\ system' = system /\ alive' = alive
          /\ Leave(cur, interrupt_frame, "interrupt", q) /\ Resume(q)
          /\ left' = [left EXCEPT ![cur] = regs, ![q] = caller_regs(q)]
          /\ stack' = stack /\ errno' = errno /\ called' = called
      BY <1>6 DEF ClockSwitches
    <2>2. DOMAIN left' = Procs /\ left'[cur] = regs /\ DOMAIN called' = Procs
          /\ \A p \in alive \ {cur, q} : left'[p] = left[p]
      BY <2>1 DEF EInv
    <2>3. PICK f : f = interrupt_frame
      OBVIOUS
    <2>4. f = FrameOf(regs) /\ \E S : f \in Seq(S)
      BY <2>3, InterruptFrame
    <2> QED  BY <2>1, <2>2, <2>3, <2>4, LeavesFor
  <1>7. ASSUME NEW q \in Procs, SyscallSwitches(q) PROVE EInv'
    <2>1. /\ q \in alive \ {cur} /\ system' = system
          /\ alive' = alive \/ alive' = alive \ {cur}
          /\ Leave(cur, sysenter_frame_of(cur), "syscall", q) /\ Resume(q)
          /\ left' = [left EXCEPT ![q] = caller_regs(q)]
          /\ stack' = stack /\ errno' = errno /\ DOMAIN called' = DOMAIN called
      BY <1>7 DEF SyscallSwitches, recorded
    <2>2. DOMAIN left' = Procs /\ DOMAIN called' = Procs
          /\ \A p \in alive \ {cur, q} : left'[p] = left[p]
      BY <2>1 DEF EInv
    <2>3. PICK f : f = sysenter_frame_of(cur)
      OBVIOUS
    <2>4. \E S : f \in Seq(S)
      BY <2>3, SysenterFrame
    <2>5. alive' \subseteq alive /\ q \in alive'
      BY <2>1
    <2> QED  BY <2>1, <2>2, <2>3, <2>4, <2>5, LeavesFor
  <1>8. ASSUME NEW q \in Procs, SyscallForks(q) PROVE EInv'
    <2>1. /\ q \in Procs \ alive /\ system' = system /\ cur' = cur /\ left' = left
          /\ how' = [how EXCEPT ![q] = "fork"] /\ alive' = alive \cup {q}
          /\ \E f : /\ kstack' = [kstack EXCEPT ![q] = f]
                    /\ regs' = sysexit(with_result(f, Success))
          /\ stack' = [stack EXCEPT ![q] = stack[cur]]
          /\ errno' = [errno EXCEPT ![q] = errno[cur]] /\ DOMAIN called' = DOMAIN called
      BY <1>8 DEF SyscallForks, recorded
    <2>2. /\ DOMAIN kstack' = Procs /\ DOMAIN how' = Procs /\ how'[q] = "fork"
          /\ \A p \in alive : kstack'[p] = kstack[p] /\ how'[p] = how[p]
          /\ DOMAIN stack' = Procs /\ DOMAIN errno' = Procs /\ DOMAIN called' = Procs
          /\ Procs' = Procs
      BY <2>1 DEF EInv, Procs
    <2>3. IsRegs(regs')
      BY <2>1, KernelLeaves
    <2>4. ASSUME NEW p, p \in alive', p # cur'
          PROVE  Waits(p)'
      <3>1. CASE p = q
        BY <2>2, <3>1 DEF Waits
      <3>2. CASE p # q
        <4>1. p \in alive \ {cur}
          BY <2>1, <2>4, <3>2
        <4>2. Waits(p)
          BY <4>1 DEF EInv
        <4> QED  BY <2>1, <2>2, <4>1, <4>2, WaitsOn
      <3> QED  BY <3>1, <3>2
    <2> QED  BY <2>1, <2>2, <2>3, <2>4 DEF EInv
  <1>9. CASE SyscallReturns
    <2>1. IsRegs(regs')
      BY <1>9, KernelLeaves DEF SyscallReturns
    <2>2. DOMAIN called' = Procs
      BY <1>9 DEF SyscallReturns, recorded, EInv
    <2> QED  BY <1>9, <2>1, <2>2, NobodyMoves DEF SyscallReturns, EInv
  <1>10. CASE SyscallPastTable
    BY <1>10, NobodyMoves DEF SyscallPastTable, EInv
  <1> QED
    BY <1>1, <1>2, <1>3, <1>4, <1>5, <1>6, <1>7, <1>8, <1>9, <1>10 DEF Next

THEOREM EntryInvariant == ASSUME SystemsMirror PROVE Spec => []EInv
  <1> QED  BY EntryInit, EntryStep, PTL DEF Spec

-----------------------------------------------------------------------------
\* An interrupt changes no register of the program it interrupts, whoever
\* runs before it does again, in every system whose RESTORE_ALL mirrors its
\* SAVE_ALL and whose switch pops what it pushed (entry.S, kernel-utils.S).
LEMMA InterruptStep ==
    ASSUME SystemsMirror, EInv, [Next]_vars
    PROVE  \/ UNCHANGED vars
           \/ /\ ClockReturns => regs' = regs
              /\ cur' # cur /\ how[cur'] = "interrupt" => regs' = left[cur']
  <1>1. ASSUME ClockReturns PROVE regs' = regs
    BY <1>1, InterruptFrame, FrameRestores, OfTheSystem DEF ClockReturns, EInv
  <1>2. ASSUME NEW q \in alive \ {cur}, Resume(q), how[q] = "interrupt"
        PROVE  regs' = left[cur']
    <2>1. IsRegs(left[q]) /\ frame_of(q) = FrameOf(left[q])
      BY <1>2 DEF EInv, Waits
    <2>2. regs' = iret(frame_of(q)) /\ cur' = q
      BY <1>2 DEF Resume, resumed
    <2> QED  BY <2>1, <2>2, FrameRestores, OfTheSystem
  <1>3. ASSUME cur' # cur, ~UNCHANGED vars
        PROVE  cur' \in alive \ {cur} /\ Resume(cur')
    <2>1. PICK q \in Procs : ClockSwitches(q) \/ SyscallSwitches(q)
      BY <1>3 DEF Next, CallWrapper, CallRaw, UserInstruction, Becomes, ClockReturns,
         SyscallReturns, SyscallPastTable, SyscallForks
    <2>2. q \in alive \ {cur} /\ Resume(q) /\ cur' = q
      BY <2>1 DEF ClockSwitches, SyscallSwitches, Resume
    <2> QED  BY <2>2
  <1> QED  BY <1>1, <1>2, <1>3

THEOREM InterruptsInvisible ==
    ASSUME SystemsMirror PROVE Spec => InterruptTransparent
  <1> QED  BY EntryInvariant, InterruptStep, PTL DEF Spec, InterruptTransparent

\* A switch gives the C code that called it its registers back: none of the
\* processes that wait would go astray if it ran.
THEOREM SwitchesComeBack == ASSUME SystemsMirror PROVE Spec => []SwitchesBack
  <1>1. ASSUME EInv PROVE SwitchesBack
    BY <1>1, SwitchRestoresC, OfTheSystem DEF EInv, SwitchesBack, Waits
  <1> QED  BY <1>1, EntryInvariant, PTL

-----------------------------------------------------------------------------
\* Each process runs as if it were alone.

\* What a process that neither runs nor ran sees does not change if what is
\* its own does not.
LEMMA ViewKept ==
    ASSUME NEW p, p # cur, p # cur', system' = system,
           kstack'[p] = kstack[p], how'[p] = how[p], called'[p] = called[p],
           stack'[p] = stack[p], errno'[p] = errno[p]
    PROVE  View(p)' = View(p)
  <1>1. resumed(p)' = resumed(p)
    BY DEF resumed, frame_of, iret, sysexit, with_result, restored, slot, Restores,
           SwitchRestores
  <1>2. PICK r : r = resumed(p)
    OBVIOUS
  <1>3. View(p) = [regs |-> r, stack |-> stack[p], errno |-> errno[p],
                   call |-> called[p], state |-> "ok"]
    BY <1>2 DEF View, context
  <1>4. View(p)' = [regs |-> r, stack |-> stack'[p], errno |-> errno'[p],
                    call |-> called'[p], state |-> "ok"]
    BY <1>1, <1>2 DEF View, context
  <1> QED  BY <1>3, <1>4

\* A process that becomes the one that runs sees what it went on with.
LEMMA ViewResumed ==
    ASSUME SystemsMirror, EInv, NEW q \in alive \ {cur}, Resume(q),
           called'[q] = called[q], stack'[q] = stack[q], errno'[q] = errno[q]
    PROVE  View(q)' = View(q)
  <1>1. how[q] = "fork" \/ switched_back(q)
    BY OfTheSystem, SwitchRestoresC DEF EInv, Waits
  <1>2. cur' = q /\ regs' = resumed(q) /\ status' = "ok"
    BY <1>1 DEF Resume
  <1> QED  BY <1>2 DEF View, context

\* What a program sees of the system call it makes.
LEMMA CallAnswered ==
    ASSUME SystemsMirror, EInv, AtSysenter, NEW K \in SUBSET (1 .. 3), NEW n
    PROVE  answered(View(cur), n, K) =
               [regs |-> sysexit(with_result(overwritten(sysenter_frame_of(cur), K), n)),
                stack |-> stack[cur], errno |-> errno[cur],
                call |-> recorded(sysenter_frame_of(cur), dispatched(number), n)[cur],
                state |-> "ok"]
  <1> DEFINE f == sysenter_frame_of(cur)
             b == stack[cur][regs.ebp[2] - 1]
             c == View(cur)
  <1>1. IsFrame(f, regs, regs.ebp, b)
    BY SysenterFrame
  <1>2. PICK x, y, g, R, S, e, v : /\ x = regs.ebp /\ y = b /\ g = f /\ R = regs
                                   /\ S = stack[cur] /\ e = errno[cur] /\ v = called[cur]
    OBVIOUS
  <1>3. /\ sysexit(with_result(overwritten(g, K), n)) = given_back(R, y, n, K)
        /\ arguments(g) = passed(R)
    <2> HIDE DEF f, b
    <2>1. IsFrame(g, R, x, y) /\ x = R.ebp
      BY <1>1, <1>2
    <2>2. RegistersMirror
      BY OfTheSystem
    <2>3. ASSUME NEW z, z = R.ebp, IsFrame(g, R, z, y)
          PROVE  /\ sysexit(with_result(overwritten(g, K), n)) = given_back(R, y, n, K)
                 /\ arguments(g) = passed(R)
      BY <2>2, <2>3, KernelAnswers
    <2> QED  BY <2>1, <2>3
  <1>4. c = [regs |-> R, stack |-> S, errno |-> e, call |-> v, state |-> "ok"]
    BY <1>2 DEF View, context, AtSysenter, InWrapper
  <1>5. recorded(g, dispatched(number), n)[cur]
           = [v EXCEPT !.handler = dispatched(number), !.got = arguments(g), !.result = n]
    BY <1>2 DEF recorded, EInv
  <1>6. number = R.eax[2] /\ y = S[R.ebp[2] - 1]
    BY <1>2 DEF number
  <1> HIDE DEF f, b, c
  <1>7. answered(c, n, K)
           = [regs |-> given_back(R, S[R.ebp[2] - 1], n, K), stack |-> S, errno |-> e,
              call |-> [v EXCEPT !.handler = dispatched(R.eax[2]), !.got = passed(R),
                                 !.result = n],
              state |-> "ok"]
    <2>1. PICK X, Y : /\ X = given_back(R, S[R.ebp[2] - 1], n, K)
                      /\ Y = [v EXCEPT !.handler = dispatched(R.eax[2]), !.got = passed(R),
                                       !.result = n]
      OBVIOUS
    <2>2. c.regs = R /\ c.stack = S /\ c.call = v
      BY <1>4
    <2>3. answered(c, n, K) = [c EXCEPT !.regs = X, !.call = Y]
      BY <2>1, <2>2 DEF answered
    <2>4. PICK d : d = [c EXCEPT !.regs = X]
      OBVIOUS
    <2>5. d = [regs |-> X, stack |-> S, errno |-> e, call |-> v, state |-> "ok"]
      BY <1>4, <2>4
    <2>6. [d EXCEPT !.call = Y]
             = [regs |-> X, stack |-> S, errno |-> e, call |-> Y, state |-> "ok"]
      BY <2>5
    <2> QED  BY <2>1, <2>3, <2>4, <2>6
  <1> QED  BY <1>2, <1>3, <1>5, <1>6, <1>7 DEF f, b, c

\* Steps in which only the process that runs changes what it sees.
LEMMA OneActs ==
    ASSUME EInv, cur' = cur, alive' = alive, system' = system,
           \A p \in alive \ {cur} :
               /\ kstack'[p] = kstack[p] /\ how'[p] = how[p] /\ called'[p] = called[p]
               /\ stack'[p] = stack[p] /\ errno'[p] = errno[p],
           View(cur)' = View(cur) \/ Alone(cur, View(cur), View(cur)')
    PROVE  EachAlone
  <1>1. ASSUME NEW p \in alive \cap alive', p # cur
        PROVE  View(p)' = View(p)
    BY <1>1, ViewKept
  <1> QED  BY <1>1 DEF EachAlone

LEMMA BecomesAlone ==
    ASSUME EInv, NEW c, Context(c), Becomes(c), Alone(cur, View(cur), c)
    PROVE  EachAlone
  <1>1. cur' = cur /\ alive' = alive /\ system' = system
    BY DEF Becomes
  <1>2. \A p \in alive \ {cur} :
            /\ kstack'[p] = kstack[p] /\ how'[p] = how[p] /\ called'[p] = called[p]
            /\ stack'[p] = stack[p] /\ errno'[p] = errno[p]
    BY DEF Becomes, EInv
  <1>3. View(cur)' = c
    <2>1. View(cur)' = [regs |-> c.regs, stack |-> c.stack, errno |-> c.errno,
                        call |-> c.call, state |-> c.state]
      BY DEF View, context, Becomes, EInv
    <2> QED  BY <2>1 DEF Context
  <1> QED  BY <1>1, <1>2, <1>3, OneActs

\* A process that leaves with the frame f keeps it for when it comes back.
LEMMA LeavesView ==
    ASSUME SystemsMirror, EInv, NEW p, p = cur, NEW q \in alive \ {cur},
           NEW f, \E S : f \in Seq(S), NEW by, by # "fork",
           Leave(cur, f, by, q), Resume(q), system' = system,
           stack' = stack, errno' = errno
    PROVE  View(p)' = [regs |-> CASE by = "interrupt" -> iret(f)
                                    [] by = "syscall" ->
                                           sysexit(with_result(f, called'[p].result))
                                    [] by = "fork" -> sysexit(with_result(f, 0)),
                         stack |-> stack[p], errno |-> errno[p],
                         call |-> called'[p], state |-> "ok"]
  <1>1. cur \in Procs /\ q \in Procs /\ q # cur /\ cur' = q
    BY DEF EInv, Resume
  <1>2. kstack'[cur] = f \o switch_frame(cur) /\ how'[cur] = by
    BY <1>1 DEF Leave, EInv
  <1>3. SubSeq(f \o switch_frame(cur), 1,
               Len(f \o switch_frame(cur)) - Len(SwitchRestores)) = f
    <2>1. PICK S : f \in Seq(S)
      OBVIOUS
    <2>2. Reversed(SwitchSaves, SwitchRestores)
      BY OfTheSystem
    <2> QED  BY <2>1, <2>2, LeftBehind
  <1>5. /\ SwitchRestores' = SwitchRestores /\ Restores' = Restores
        /\ kstack'[p] = f \o switch_frame(p) /\ how'[p] = by /\ p # cur'
    BY <1>1, <1>2 DEF SwitchRestores, Restores
  <1>6. frame_of(p)' = f
    BY <1>3, <1>5 DEF frame_of
  <1>7. resumed(p)' = CASE by = "interrupt" -> iret(f)
                        [] by = "syscall" -> sysexit(with_result(f, called'[p].result))
                        [] by = "fork" -> sysexit(with_result(f, 0))
    BY <1>5, <1>6 DEF resumed, iret, sysexit, restored, slot, with_result
  <1>8. View(p)' = [regs |-> resumed(p)', stack |-> stack'[p], errno |-> errno'[p],
                    call |-> called'[p], state |-> "ok"]
    BY <1>5 DEF View, context
  <1> QED  BY <1>7, <1>8

\* A step in which the process that runs leaves with the frame f for q.
LEMMA SwitchAlone ==
    ASSUME SystemsMirror, EInv, NEW q \in alive \ {cur}, NEW f, NEW by,
           Leave(cur, f, by, q), Resume(q), alive' \subseteq alive, system' = system,
           stack' = stack, errno' = errno, \A p \in alive \ {cur} : called'[p] = called[p],
           \A p : p = cur => View(p)' = View(p) \/ Alone(p, View(p), View(p)')
    PROVE  EachAlone
  <1>1. cur' = q
    BY DEF Resume
  <1>2. View(q)' = View(q)
    BY ViewResumed
  <1>3. ASSUME NEW p \in alive \cap alive', p # cur, p # q
        PROVE  View(p)' = View(p)
    <2>1. kstack'[p] = kstack[p] /\ how'[p] = how[p]
      BY <1>3 DEF Leave, EInv
    <2> QED  BY <1>1, <1>3, <2>1, ViewKept
  <1>4. alive' \ alive = {}
    OBVIOUS
  <1> QED  BY <1>2, <1>3, <1>4 DEF EachAlone

\* A system call that returns n, to who sees what the kernel gives back.
LEMMA SyscallAlone ==
    ASSUME SystemsMirror, EInv, AtSysenter, dispatched(number) # "past_the_table",
           NEW n \in outcomes(dispatched(number)),
           NEW K \in SUBSET (1 .. arity_of(dispatched(number))),
           NEW d, d = [regs |-> sysexit(with_result(overwritten(sysenter_frame_of(cur), K), n)),
                       stack |-> stack[cur], errno |-> errno[cur],
                       call |-> recorded(sysenter_frame_of(cur), dispatched(number), n)[cur],
                       state |-> "ok"]
    PROVE  Alone(cur, View(cur), d)
  <1>1. K \in SUBSET (1 .. 3)
    <2>1. arity_of(dispatched(number)) \in 0 .. 3
      BY EntryAssumption DEF arity_of, Arity, EInv
    <2> QED  BY <2>1
  <1>2. d = answered(View(cur), n, K)
    BY <1>1, CallAnswered
  <1>3. /\ AtCall(View(cur), dispatched(number))
        /\ dispatched(View(cur).regs.eax[2]) = dispatched(number)
    BY DEF AtSysenter, InWrapper, prog, instr, number, AtCall, AtInstruction,
           instruction_of, View, context
  <1> QED  BY <1>2, <1>3 DEF Alone, AtCall

\* A handler that switches, or fork, returns Success if it returns.
LEMMA SwitchingSucceeds ==
    ASSUME EInv, dispatched(number) \in Switching \/ dispatched(number) = "fork"
    PROVE  /\ dispatched(number) # "past_the_table"
           /\ Success \in outcomes(dispatched(number))
  <1>1. dispatched(number) \notin {"none", "ni_syscall", "past_the_table"}
    BY EntryAssumption DEF EInv, Switching
  <1> QED  BY <1>1 DEF outcomes

LEMMA EachAloneStep ==
    ASSUME SystemsMirror, EInv, [Next]_vars
    PROVE  UNCHANGED vars \/ EachAlone
  <1>1. ASSUME NEW w \in Callable, CallWrapper(w) PROVE EachAlone
    <2>1. Context(at_wrapper(cur, w))
      BY DEF Context, at_wrapper, caller_regs, IsRegs
    <2>2. AtProgram(View(cur))
      BY <1>1 DEF CallWrapper, InCaller, AtProgram, View, context
    <2>3. Alone(cur, View(cur), at_wrapper(cur, w))
      BY <2>2 DEF Alone
    <2> QED  BY <1>1, <2>1, <2>3, BecomesAlone DEF CallWrapper
  <1>2. ASSUME NEW n \in RawNumbers, CallRaw(n) PROVE EachAlone
    <2>1. Context(at_raw(cur, n))
      BY DEF Context, at_raw, caller_regs, IsRegs
    <2>2. AtProgram(View(cur))
      BY <1>2 DEF CallRaw, InCaller, AtProgram, View, context
    <2>3. Alone(cur, View(cur), at_raw(cur, n))
      BY <2>2 DEF Alone
    <2> QED  BY <1>2, <2>1, <2>3, BecomesAlone DEF CallRaw
  <1>3. CASE UserInstruction
    <2>1. PICK c : c = executed(context(cur), instr) /\ Becomes(c)
      BY <1>3 DEF UserInstruction
    <2>2. Context(context(cur)) /\ View(cur) = context(cur)
      BY DEF Context, context, EInv, View
    <2>3. Context(c)
      BY <2>1, <2>2, RegistersStay
    <2>4. /\ AtInstruction(context(cur)) /\ instruction_of(context(cur)) = instr
          /\ instr[1] # "sysenter"
      BY <1>3 DEF UserInstruction, InWrapper, AtSysenter, prog, instr, AtInstruction,
                  instruction_of, context
    <2>5. Alone(cur, View(cur), c)
      BY <2>1, <2>2, <2>4 DEF Alone
    <2> QED  BY <2>1, <2>3, <2>5, BecomesAlone
  <1>4. CASE ClockReturns
    <2>1. regs' = regs /\ status' = status
      BY <1>4, InterruptFrame, FrameRestores, OfTheSystem DEF ClockReturns, EInv
    <2>2. View(cur)' = View(cur)
      BY <1>4, <2>1 DEF ClockReturns, View, context
    <2> QED  BY <1>4, <2>2, OneActs DEF ClockReturns
  <1>5. ASSUME NEW q \in Procs, ClockSwitches(q) PROVE EachAlone
    <2>1. /\ q \in alive \ {cur} /\ system' = system /\ alive' = alive /\ status = "ok"
          /\ Leave(cur, interrupt_frame, "interrupt", q) /\ Resume(q)
          /\ stack' = stack /\ errno' = errno /\ called' = called
      BY <1>5 DEF ClockSwitches
    <2>2. PICK f, R : f = interrupt_frame /\ R = regs
      OBVIOUS
    <2>3. iret(f) = R /\ \E S : f \in Seq(S)
      BY <2>2, InterruptFrame, FrameRestores, OfTheSystem DEF EInv
    <2>4. ASSUME NEW p, p = cur PROVE View(p)' = View(p)
      <3>1. View(p)' = [regs |-> iret(f), stack |-> stack[p], errno |-> errno[p],
                        call |-> called'[p], state |-> "ok"]
        BY <2>1, <2>2, <2>3, <2>4, LeavesView
      <3> QED  BY <2>1, <2>2, <2>3, <2>4, <3>1 DEF View, context
    <2> QED  BY <2>1, <2>4, SwitchAlone
  <1>6. ASSUME NEW q \in Procs, SyscallSwitches(q) PROVE EachAlone
    <2> DEFINE h == dispatched(number)
    <2>1. /\ q \in alive \ {cur} /\ system' = system /\ alive' \subseteq alive
          /\ AtSysenter /\ h \in Switching
          /\ Leave(cur, sysenter_frame_of(cur), "syscall", q) /\ Resume(q)
          /\ stack' = stack /\ errno' = errno
          /\ called' = recorded(sysenter_frame_of(cur), h, Success)
      BY <1>6 DEF SyscallSwitches
    <2>2. PICK f : f = sysenter_frame_of(cur)
      OBVIOUS
    <2>3. PICK S : f \in Seq(S)
      BY <2>2, SysenterFrame
    <2>4. /\ \A p \in alive \ {cur} : called'[p] = called[p]
          /\ called'[cur].result = Success
      BY <2>1 DEF recorded, EInv
    <2>5. ASSUME NEW p, p = cur PROVE Alone(p, View(p), View(p)')
      <3>1. View(p)' = [regs |-> sysexit(with_result(f, called'[p].result)),
                        stack |-> stack[p], errno |-> errno[p],
                        call |-> called'[p], state |-> "ok"]
        BY <2>1, <2>2, <2>3, <2>5, LeavesView
      <3>2. overwritten(f, {}) = f
        BY <2>3, NothingOverwritten
      <3>3. PICK d : d = View(p)'
        OBVIOUS
      <3>4. d = [regs |-> sysexit(with_result(overwritten(sysenter_frame_of(cur), {}), Success)),
                 stack |-> stack[cur], errno |-> errno[cur],
                 call |-> recorded(sysenter_frame_of(cur), h, Success)[cur], state |-> "ok"]
        BY <2>1, <2>2, <2>4, <2>5, <3>1, <3>2, <3>3
      <3>5. h # "past_the_table" /\ Success \in outcomes(h) /\ {} \in SUBSET (1 .. arity_of(h))
        BY <2>1, SwitchingSucceeds
      <3>6. Alone(cur, View(cur), d)
        BY <2>1, <3>4, <3>5, SyscallAlone
      <3> QED  BY <2>5, <3>3, <3>6
    <2> QED  BY <2>1, <2>4, <2>5, SwitchAlone
  <1>7. ASSUME NEW q \in Procs, SyscallForks(q) PROVE EachAlone
    <2>1. PICK f : f = sysenter_frame_of(cur)
      OBVIOUS
    <2>2. /\ AtSysenter /\ q \in Procs \ alive /\ dispatched(number) = "fork"
          /\ system' = system /\ cur' = cur /\ status' = status /\ alive' = alive \cup {q}
          /\ kstack' = [kstack EXCEPT ![q] = f] /\ how' = [how EXCEPT ![q] = "fork"]
          /\ regs' = sysexit(with_result(f, Success))
          /\ called' = [recorded(f, "fork", Success) EXCEPT ![q] = recorded(f, "fork", 0)[cur]]
          /\ stack' = [stack EXCEPT ![q] = stack[cur]]
          /\ errno' = [errno EXCEPT ![q] = errno[cur]]
      BY <1>7, <2>1 DEF SyscallForks
    <2>3. PICK S : f \in Seq(S)
      BY <2>1, SysenterFrame
    <2>4. overwritten(f, {}) = f
      BY <2>3, NothingOverwritten
    <2>5. q # cur /\ status = "ok"
      BY <2>2 DEF EInv, AtSysenter, InWrapper
    <2>6. Alone(cur, View(cur), View(cur)')
      <3>1. PICK d : d = View(cur)'
        OBVIOUS
      <3>2. called'[cur] = recorded(f, "fork", Success)[cur] /\ stack'[cur] = stack[cur]
            /\ errno'[cur] = errno[cur]
        BY <2>2, <2>5 DEF recorded, EInv
      <3>3. d = [regs |-> sysexit(with_result(overwritten(sysenter_frame_of(cur), {}), Success)),
                 stack |-> stack[cur], errno |-> errno[cur],
                 call |-> recorded(sysenter_frame_of(cur), dispatched(number), Success)[cur],
                 state |-> "ok"]
        BY <2>1, <2>2, <2>4, <2>5, <3>1, <3>2 DEF View, context
      <3>4. /\ dispatched(number) # "past_the_table" /\ Success \in outcomes(dispatched(number))
            /\ {} \in SUBSET (1 .. arity_of(dispatched(number)))
        BY <2>2, SwitchingSucceeds
      <3> QED  BY <2>2, <3>1, <3>3, <3>4, SyscallAlone
    <2>7. View(q)' = answered(View(cur), 0, {})
      <3>1. resumed(q)' = sysexit(with_result(f, 0))
        <4>1. kstack'[q] = f /\ how'[q] = "fork" /\ Restores' = Restores
          BY <2>2 DEF EInv, Restores
        <4> QED  BY <4>1 DEF resumed, frame_of, sysexit, restored, slot, with_result
      <3>2. called'[q] = recorded(f, "fork", 0)[cur] /\ stack'[q] = stack[cur]
            /\ errno'[q] = errno[cur]
        BY <2>2 DEF recorded, EInv
      <3>3. View(q)' = [regs |-> resumed(q)', stack |-> stack'[q], errno |-> errno'[q],
                        call |-> called'[q], state |-> "ok"]
        BY <2>2, <2>5 DEF View, context
      <3>4. {} \in SUBSET (1 .. 3)
        OBVIOUS
      <3>5. answered(View(cur), 0, {}) =
               [regs |-> sysexit(with_result(overwritten(sysenter_frame_of(cur), {}), 0)),
                stack |-> stack[cur], errno |-> errno[cur],
                call |-> recorded(sysenter_frame_of(cur), dispatched(number), 0)[cur],
                state |-> "ok"]
        BY <2>2, <3>4, CallAnswered
      <3> QED  BY <2>1, <2>2, <2>4, <3>1, <3>2, <3>3, <3>5
    <2>8. ASSUME NEW p \in alive \cap alive', p # cur
          PROVE  View(p)' = View(p)
      <3>1. /\ p # q /\ p # cur' /\ kstack'[p] = kstack[p] /\ how'[p] = how[p]
            /\ called'[p] = called[p] /\ stack'[p] = stack[p] /\ errno'[p] = errno[p]
        BY <2>2, <2>8 DEF recorded, EInv
      <3> QED  BY <2>2, <2>8, <3>1, ViewKept
    <2>9. AtCall(View(cur), "fork")
      BY <2>2 DEF AtSysenter, InWrapper, prog, instr, number, AtCall, AtInstruction,
                  instruction_of, View, context
    <2> QED  BY <2>2, <2>6, <2>7, <2>8, <2>9 DEF EachAlone
  <1>8. CASE SyscallReturns
    <2> DEFINE h == dispatched(number)
               f == sysenter_frame_of(cur)
    <2>1. PICK n \in outcomes(h), K \in SUBSET (1 .. arity_of(h)) :
              /\ regs' = sysexit(with_result(overwritten(f, K), n))
              /\ called' = recorded(f, h, n)
      BY <1>8 DEF SyscallReturns
    <2>2. /\ AtSysenter /\ h # "past_the_table"
          /\ UNCHANGED <<system, cur, stack, errno, kstack, how, alive, status>>
      BY <1>8 DEF SyscallReturns
    <2>3. PICK d : d = View(cur)'
      OBVIOUS
    <2>4. d = [regs |-> sysexit(with_result(overwritten(f, K), n)), stack |-> stack[cur],
               errno |-> errno[cur], call |-> recorded(f, h, n)[cur], state |-> "ok"]
      <3>1. status = "ok"
        BY <2>2 DEF AtSysenter, InWrapper
      <3> QED  BY <2>1, <2>2, <2>3, <3>1 DEF View, context
    <2>5. Alone(cur, View(cur), View(cur)')
      BY <2>2, <2>3, <2>4, SyscallAlone
    <2>6. \A p \in alive \ {cur} : called'[p] = called[p]
      BY <2>1 DEF recorded, EInv
    <2> QED  BY <2>2, <2>5, <2>6, OneActs
  <1>9. CASE SyscallPastTable
    <2>1. AtCall(View(cur), "past_the_table")
      BY <1>9 DEF SyscallPastTable, AtSysenter, InWrapper, prog, instr, number, AtCall,
                  AtInstruction, instruction_of, View, context
    <2>2. View(cur)' = [View(cur) EXCEPT !.state = "wild"]
      BY <1>9 DEF SyscallPastTable, View, context
    <2>3. Alone(cur, View(cur), View(cur)')
      BY <2>1, <2>2 DEF Alone
    <2> QED  BY <1>9, <2>3, OneActs DEF SyscallPastTable
  <1> QED
    BY <1>1, <1>2, <1>3, <1>4, <1>5, <1>6, <1>7, <1>8, <1>9 DEF Next

\* In a system whose way out mirrors its way in, with any programs, handlers
\* and number of processes, each process runs as if it were alone on a
\* processor without interrupts, and a forked one as its parent would from a
\* fork that returned 0 (entry.S, kernel-utils.S, sys_fork).
THEOREM ProcessesRunAlone == ASSUME SystemsMirror PROVE Spec => RunsAlone
  <1> QED  BY EntryInvariant, EachAloneStep, PTL DEF Spec, RunsAlone

-----------------------------------------------------------------------------
\* The three deliveries are such systems.  E1 never switches; as in the
\* instances, it has the switch of E2.
P  == INSTANCE WrappersP
E2 == INSTANCE WrappersE2
E1 == INSTANCE WrappersE1

\* PROJECTE.
LEMMA ProjectMirrors ==
    Mirrors(P!SAVE_ALL, P!RESTORE_ALL, P!switch_saves, P!switch_restores)
  <1>1. /\ P!SAVE_ALL \in Seq(Regs) /\ P!RESTORE_ALL \in Seq(Regs)
        /\ Len(P!SAVE_ALL) = 11 /\ Len(P!RESTORE_ALL) = 11
    BY DEF P!SAVE_ALL, P!RESTORE_ALL, Regs
  <1>2. ASSUME NEW i \in 1 .. 11
        PROVE  P!RESTORE_ALL[i] = P!SAVE_ALL[12 - i]
    <2>1. \/ i = 1 \/ i = 2 \/ i = 3 \/ i = 4 \/ i = 5 \/ i = 6
          \/ i = 7 \/ i = 8 \/ i = 9 \/ i = 10 \/ i = 11
      BY <1>2
    <2> QED  BY <2>1 DEF P!SAVE_ALL, P!RESTORE_ALL
  <1>3. \A r \in Regs \ {"esp", "eip"} : \E i \in 1 .. 11 : P!RESTORE_ALL[i] = r
    BY DEF P!RESTORE_ALL, Regs
  <1>4. /\ P!switch_saves \in Seq(Regs) /\ P!switch_restores \in Seq(Regs)
        /\ Len(P!switch_saves) = 4 /\ Len(P!switch_restores) = 4
    BY DEF P!switch_saves, P!switch_restores, Regs
  <1>5. ASSUME NEW i \in 1 .. 4
        PROVE  P!switch_restores[i] = P!switch_saves[5 - i]
    <2>1. i = 1 \/ i = 2 \/ i = 3 \/ i = 4
      BY <1>5
    <2> QED  BY <2>1 DEF P!switch_saves, P!switch_restores
  <1>6. \A r \in CKept : \E i \in 1 .. 4 : P!switch_restores[i] = r
    BY DEF P!switch_restores, CKept
  <1>7. Reversed(P!SAVE_ALL, P!RESTORE_ALL)
    BY <1>1, <1>2 DEF Reversed
  <1>8. Reversed(P!switch_saves, P!switch_restores)
    BY <1>4, <1>5 DEF Reversed
  <1>9. P!RESTORE_ALL[7] = "eax"
    BY DEF P!RESTORE_ALL
  <1>10. ASSUME NEW i \in 1 .. 11, NEW j \in 1 .. 11, P!RESTORE_ALL[i] = P!RESTORE_ALL[j]
         PROVE  i = j
    <2>1. PICK R : R = P!RESTORE_ALL
      OBVIOUS
    <2>2. /\ R[1] = "ebx" /\ R[2] = "ecx" /\ R[3] = "edx" /\ R[4] = "esi"
          /\ R[5] = "edi" /\ R[6] = "ebp" /\ R[7] = "eax" /\ R[8] = "ds"
          /\ R[9] = "es" /\ R[10] = "fs" /\ R[11] = "gs"
      BY <2>1 DEF P!RESTORE_ALL
    <2>3. i = 1 \/ i = 2 \/ i = 3 \/ i = 4 \/ i = 5 \/ i = 6 \/ i = 7 \/ i = 8 \/ i = 9
          \/ i = 10 \/ i = 11
      BY <1>10
    <2>4. j = 1 \/ j = 2 \/ j = 3 \/ j = 4 \/ j = 5 \/ j = 6 \/ j = 7 \/ j = 8 \/ j = 9
          \/ j = 10 \/ j = 11
      BY <1>10
    <2> QED  BY <1>10, <2>1, <2>2, <2>3, <2>4
  <1> QED  BY <1>1, <1>3, <1>4, <1>6, <1>7, <1>8, <1>9, <1>10 DEF Mirrors

\* E2.
LEMMA SecondMirrors ==
    Mirrors(E2!SAVE_ALL, E2!RESTORE_ALL, E2!switch_saves, E2!switch_restores)
  <1>1. /\ E2!SAVE_ALL \in Seq(Regs) /\ E2!RESTORE_ALL \in Seq(Regs)
        /\ Len(E2!SAVE_ALL) = 11 /\ Len(E2!RESTORE_ALL) = 11
    BY DEF E2!SAVE_ALL, E2!RESTORE_ALL, Regs
  <1>2. ASSUME NEW i \in 1 .. 11
        PROVE  E2!RESTORE_ALL[i] = E2!SAVE_ALL[12 - i]
    <2>1. \/ i = 1 \/ i = 2 \/ i = 3 \/ i = 4 \/ i = 5 \/ i = 6
          \/ i = 7 \/ i = 8 \/ i = 9 \/ i = 10 \/ i = 11
      BY <1>2
    <2> QED  BY <2>1 DEF E2!SAVE_ALL, E2!RESTORE_ALL
  <1>3. \A r \in Regs \ {"esp", "eip"} : \E i \in 1 .. 11 : E2!RESTORE_ALL[i] = r
    BY DEF E2!RESTORE_ALL, Regs
  <1>4. /\ E2!switch_saves \in Seq(Regs) /\ E2!switch_restores \in Seq(Regs)
        /\ Len(E2!switch_saves) = 4 /\ Len(E2!switch_restores) = 4
    BY DEF E2!switch_saves, E2!switch_restores, Regs
  <1>5. ASSUME NEW i \in 1 .. 4
        PROVE  E2!switch_restores[i] = E2!switch_saves[5 - i]
    <2>1. i = 1 \/ i = 2 \/ i = 3 \/ i = 4
      BY <1>5
    <2> QED  BY <2>1 DEF E2!switch_saves, E2!switch_restores
  <1>6. \A r \in CKept : \E i \in 1 .. 4 : E2!switch_restores[i] = r
    BY DEF E2!switch_restores, CKept
  <1>7. Reversed(E2!SAVE_ALL, E2!RESTORE_ALL)
    BY <1>1, <1>2 DEF Reversed
  <1>8. Reversed(E2!switch_saves, E2!switch_restores)
    BY <1>4, <1>5 DEF Reversed
  <1>9. E2!RESTORE_ALL[7] = "eax"
    BY DEF E2!RESTORE_ALL
  <1>10. ASSUME NEW i \in 1 .. 11, NEW j \in 1 .. 11, E2!RESTORE_ALL[i] = E2!RESTORE_ALL[j]
         PROVE  i = j
    <2>1. PICK R : R = E2!RESTORE_ALL
      OBVIOUS
    <2>2. /\ R[1] = "edx" /\ R[2] = "ecx" /\ R[3] = "ebx" /\ R[4] = "esi"
          /\ R[5] = "edi" /\ R[6] = "ebp" /\ R[7] = "eax" /\ R[8] = "ds"
          /\ R[9] = "es" /\ R[10] = "fs" /\ R[11] = "gs"
      BY <2>1 DEF E2!RESTORE_ALL
    <2>3. i = 1 \/ i = 2 \/ i = 3 \/ i = 4 \/ i = 5 \/ i = 6 \/ i = 7 \/ i = 8 \/ i = 9
          \/ i = 10 \/ i = 11
      BY <1>10
    <2>4. j = 1 \/ j = 2 \/ j = 3 \/ j = 4 \/ j = 5 \/ j = 6 \/ j = 7 \/ j = 8 \/ j = 9
          \/ j = 10 \/ j = 11
      BY <1>10
    <2> QED  BY <1>10, <2>1, <2>2, <2>3, <2>4
  <1> QED  BY <1>1, <1>3, <1>4, <1>6, <1>7, <1>8, <1>9, <1>10 DEF Mirrors

\* E1.
LEMMA FirstMirrors ==
    Mirrors(E1!SAVE_ALL, E1!RESTORE_ALL, E2!switch_saves, E2!switch_restores)
  <1>1. /\ E1!SAVE_ALL \in Seq(Regs) /\ E1!RESTORE_ALL \in Seq(Regs)
        /\ Len(E1!SAVE_ALL) = 11 /\ Len(E1!RESTORE_ALL) = 11
    BY DEF E1!SAVE_ALL, E1!RESTORE_ALL, Regs
  <1>2. ASSUME NEW i \in 1 .. 11
        PROVE  E1!RESTORE_ALL[i] = E1!SAVE_ALL[12 - i]
    <2>1. \/ i = 1 \/ i = 2 \/ i = 3 \/ i = 4 \/ i = 5 \/ i = 6
          \/ i = 7 \/ i = 8 \/ i = 9 \/ i = 10 \/ i = 11
      BY <1>2
    <2> QED  BY <2>1 DEF E1!SAVE_ALL, E1!RESTORE_ALL
  <1>3. \A r \in Regs \ {"esp", "eip"} : \E i \in 1 .. 11 : E1!RESTORE_ALL[i] = r
    BY DEF E1!RESTORE_ALL, Regs
  <1>4. /\ E2!switch_saves \in Seq(Regs) /\ E2!switch_restores \in Seq(Regs)
        /\ Len(E2!switch_saves) = 4 /\ Len(E2!switch_restores) = 4
    BY DEF E2!switch_saves, E2!switch_restores, Regs
  <1>5. ASSUME NEW i \in 1 .. 4
        PROVE  E2!switch_restores[i] = E2!switch_saves[5 - i]
    <2>1. i = 1 \/ i = 2 \/ i = 3 \/ i = 4
      BY <1>5
    <2> QED  BY <2>1 DEF E2!switch_saves, E2!switch_restores
  <1>6. \A r \in CKept : \E i \in 1 .. 4 : E2!switch_restores[i] = r
    BY DEF E2!switch_restores, CKept
  <1>7. Reversed(E1!SAVE_ALL, E1!RESTORE_ALL)
    BY <1>1, <1>2 DEF Reversed
  <1>8. Reversed(E2!switch_saves, E2!switch_restores)
    BY <1>4, <1>5 DEF Reversed
  <1>9. E1!RESTORE_ALL[7] = "eax"
    BY DEF E1!RESTORE_ALL
  <1>10. ASSUME NEW i \in 1 .. 11, NEW j \in 1 .. 11, E1!RESTORE_ALL[i] = E1!RESTORE_ALL[j]
         PROVE  i = j
    <2>1. PICK R : R = E1!RESTORE_ALL
      OBVIOUS
    <2>2. /\ R[1] = "edx" /\ R[2] = "ecx" /\ R[3] = "ebx" /\ R[4] = "esi"
          /\ R[5] = "edi" /\ R[6] = "ebp" /\ R[7] = "eax" /\ R[8] = "ds"
          /\ R[9] = "es" /\ R[10] = "fs" /\ R[11] = "gs"
      BY <2>1 DEF E1!RESTORE_ALL
    <2>3. i = 1 \/ i = 2 \/ i = 3 \/ i = 4 \/ i = 5 \/ i = 6 \/ i = 7 \/ i = 8 \/ i = 9
          \/ i = 10 \/ i = 11
      BY <1>10
    <2>4. j = 1 \/ j = 2 \/ j = 3 \/ j = 4 \/ j = 5 \/ j = 6 \/ j = 7 \/ j = 8 \/ j = 9
          \/ j = 10 \/ j = 11
      BY <1>10
    <2> QED  BY <1>10, <2>1, <2>2, <2>3, <2>4
  <1> QED  BY <1>1, <1>3, <1>4, <1>6, <1>7, <1>8, <1>9, <1>10 DEF Mirrors

Delivered(s) ==
    \/ /\ s.saves = P!SAVE_ALL /\ s.restores = P!RESTORE_ALL
       /\ s.switch_saves = P!switch_saves /\ s.switch_restores = P!switch_restores
    \/ /\ s.saves = E2!SAVE_ALL /\ s.restores = E2!RESTORE_ALL
       /\ s.switch_saves = E2!switch_saves /\ s.switch_restores = E2!switch_restores
    \/ /\ s.saves = E1!SAVE_ALL /\ s.restores = E1!RESTORE_ALL
       /\ s.switch_saves = E2!switch_saves /\ s.switch_restores = E2!switch_restores

LEMMA DeliveriesMirror ==
    ASSUME \A name \in DOMAIN Systems : Delivered(Systems[name])
    PROVE  SystemsMirror
  BY ProjectMirrors, SecondMirrors, FirstMirrors DEF Delivered, SystemsMirror

\* In the three deliveries, with any wrappers, handlers and number of
\* processes, each process runs as if it were alone, interrupts are invisible
\* and switches come back.
THEOREM DeliveriesTransparent ==
    ASSUME \A name \in DOMAIN Systems : Delivered(Systems[name])
    PROVE  Spec => RunsAlone /\ InterruptTransparent /\ []SwitchesBack
  <1>1. SystemsMirror
    BY DeliveriesMirror
  <1> QED  BY <1>1, ProcessesRunAlone, InterruptsInvisible, SwitchesComeBack

-----------------------------------------------------------------------------
\* What an instruction does to a context, one lemma each.

\* A context at an instruction of a program, with t words on the stack.
Stands(c, w, i, t) ==
    /\ Context(c) /\ c.stack = [k \in 1 .. Depth |-> c.stack[k]]
    /\ c.regs.eip = At(w, i) /\ c.regs.esp = Sp(t) /\ t \in Nat

\* d has the registers of c but for those of R, its stack but for word k, its
\* call and its state.
Like(d, c, R, k) ==
    /\ \A r \in Regs \ (R \cup {"eip", "esp"}) : d.regs[r] = c.regs[r]
    /\ \A j \in 1 .. Depth : j # k => d.stack[j] = c.stack[j]
    /\ d.call = c.call /\ d.state = c.state

with_reg(c, r, v) == [c EXCEPT !.regs[r] = v]

\* A register, and only it, is set.
LEMMA Setting ==
    ASSUME NEW c, Context(c), NEW r \in Regs, NEW v, NEW d, d = with_reg(c, r, v)
    PROVE  /\ Context(d) /\ d.regs[r] = v /\ \A q \in Regs \ {r} : d.regs[q] = c.regs[q]
           /\ d.stack = c.stack /\ d.errno = c.errno /\ d.call = c.call /\ d.state = c.state
  <1>1. PICK R : R = [c.regs EXCEPT ![r] = v]
    OBVIOUS
  <1>2. d = [c EXCEPT !.regs = R]
    BY <1>1 DEF with_reg
  <1>3. /\ IsRegs(R) /\ R[r] = v /\ \A q \in Regs \ {r} : R[q] = c.regs[q]
    BY <1>1 DEF Context, IsRegs
  <1>4. d = [regs |-> R, stack |-> c.stack, errno |-> c.errno,
             call |-> c.call, state |-> c.state]
    BY <1>2 DEF Context
  <1>5. /\ d.regs = R /\ d.stack = c.stack /\ d.errno = c.errno /\ d.call = c.call
        /\ d.state = c.state /\ Context(d)
    BY <1>3, <1>4 DEF Context
  <1> QED  BY <1>3, <1>5

\* The instruction pointer, and only it, moves.
LEMMA Going ==
    ASSUME NEW c, NEW w, NEW i, NEW t, Stands(c, w, i, t), NEW u, NEW j,
           NEW d, d = goto(c, At(u, j))
    PROVE  Stands(d, u, j, t) /\ Like(d, c, {}, 0) /\ d.errno = c.errno
  <1>0. {"eip", "esp"} \subseteq Regs
    BY DEF Regs
  <1>1. d = with_reg(c, "eip", At(u, j))
    BY DEF goto, with_reg
  <1>2. /\ Context(d) /\ d.regs["eip"] = At(u, j)
        /\ \A q \in Regs \ {"eip"} : d.regs[q] = c.regs[q]
        /\ d.stack = c.stack /\ d.errno = c.errno /\ d.call = c.call /\ d.state = c.state
    BY <1>0, <1>1, Setting DEF Stands
  <1> QED  BY <1>0, <1>2 DEF Stands, Like

\* A word more on the stack.
LEMMA Pushing ==
    ASSUME NEW c, NEW w, NEW i, NEW t, Stands(c, w, i, t), t < Depth, NEW v,
           NEW d, d = pushed(c, v)
    PROVE  /\ Stands(d, w, i, t + 1) /\ Like(d, c, {}, t + 1) /\ d.errno = c.errno
           /\ d.stack[t + 1] = v
  <1>0. "esp" \in Regs /\ "eip" \in Regs /\ t + 1 \in 1 .. Depth /\ top(c) = t
    BY EntryAssumption DEF Regs, Stands, top, Sp
  <1>1. PICK S : S = [c.stack EXCEPT ![t + 1] = v]
    OBVIOUS
  <1>2. PICK b : b = [c EXCEPT !.stack = S]
    OBVIOUS
  <1>3. b = [regs |-> c.regs, stack |-> S, errno |-> c.errno,
             call |-> c.call, state |-> c.state]
    BY <1>2 DEF Context, Stands
  <1>4. /\ Context(b) /\ b.regs = c.regs /\ b.errno = c.errno /\ b.call = c.call
        /\ b.state = c.state /\ b.stack = S
    BY <1>3 DEF Context, Stands
  <1>5. d = with_reg(b, "esp", Sp(t + 1))
    BY <1>0, <1>1, <1>2 DEF pushed, with_reg
  <1>6. /\ Context(d) /\ d.regs["esp"] = Sp(t + 1)
        /\ \A q \in Regs \ {"esp"} : d.regs[q] = b.regs[q]
        /\ d.stack = b.stack /\ d.errno = b.errno /\ d.call = b.call /\ d.state = b.state
    BY <1>0, <1>4, <1>5, Setting
  <1>7. S = [k \in 1 .. Depth |-> S[k]] /\ S[t + 1] = v
        /\ \A k \in 1 .. Depth : k # t + 1 => S[k] = c.stack[k]
    BY <1>0, <1>1 DEF Stands
  <1> QED  BY <1>0, <1>4, <1>6, <1>7 DEF Stands, Like

\* A word less.
LEMMA Popping ==
    ASSUME NEW c, NEW w, NEW i, NEW t, Stands(c, w, i, t), t > 0,
           NEW d, d = popped(c)
    PROVE  Stands(d, w, i, t - 1) /\ Like(d, c, {}, 0) /\ d.errno = c.errno
  <1>0. "esp" \in Regs /\ "eip" \in Regs /\ top(c) = t
    BY DEF Regs, Stands, top, Sp
  <1>1. d = with_reg(c, "esp", Sp(t - 1))
    BY <1>0 DEF popped, with_reg
  <1>2. /\ Context(d) /\ d.regs["esp"] = Sp(t - 1)
        /\ \A q \in Regs \ {"esp"} : d.regs[q] = c.regs[q]
        /\ d.stack = c.stack /\ d.errno = c.errno /\ d.call = c.call /\ d.state = c.state
    BY <1>0, <1>1, Setting DEF Stands
  <1> QED  BY <1>0, <1>2 DEF Stands, Like

\* The address k instructions further on.
LEMMA Ahead ==
    ASSUME NEW c, NEW w, NEW i, NEW t, Stands(c, w, i, t), NEW k
    PROVE  next(c, k) = At(w, i + k)
  BY DEF Stands, next, At

\* What comes after b, a context like c, when the instruction pointer moves on.
LEMMA MovesOn ==
    ASSUME NEW c, NEW w, NEW i, NEW t, Stands(c, w, i, t),
           NEW b, NEW u, Stands(b, w, i, u), NEW R, NEW k, Like(b, c, R, k),
           NEW j, NEW d, d = goto(b, next(c, j))
    PROVE  /\ Stands(d, w, i + j, u) /\ Like(d, c, R, k) /\ d.errno = b.errno
           /\ \A r \in Regs \ {"eip", "esp"} : d.regs[r] = b.regs[r]
           /\ d.stack = b.stack
  <1>1. d = goto(b, At(w, i + j))
    BY Ahead
  <1>2. Stands(d, w, i + j, u) /\ Like(d, b, {}, 0) /\ d.errno = b.errno
    BY <1>1, Going
  <1>3. \A r \in Regs \ {"eip", "esp"} : d.regs[r] = b.regs[r]
    BY <1>2 DEF Like
  <1>4. \A m \in 1 .. Depth : d.stack[m] = b.stack[m]
    BY <1>2, EntryAssumption DEF Like
  <1>5. d.stack = b.stack
    BY <1>2, <1>4 DEF Stands
  <1>6. Like(d, c, R, k)
    BY <1>2, <1>3, <1>4 DEF Like
  <1> QED  BY <1>2, <1>3, <1>5, <1>6

\* What each instruction does, with room for it on the stack: where it goes,
\* and the register or the word that it changes.
LEMMA DoesPush ==
    ASSUME NEW c, NEW w, NEW i, NEW t, Stands(c, w, i, t), t < Depth,
           NEW r, NEW d, d = executed(c, Push(r))
    PROVE  /\ Stands(d, w, i + 1, t + 1) /\ Like(d, c, {}, t + 1) /\ d.errno = c.errno
           /\ d.stack[t + 1] = c.regs[r]
  <1>1. PICK b : b = pushed(c, c.regs[r])
    OBVIOUS
  <1>2. d = goto(b, next(c, 1))
    BY <1>1 DEF executed, Push
  <1>3. Stands(b, w, i, t + 1) /\ Like(b, c, {}, t + 1) /\ b.errno = c.errno
        /\ b.stack[t + 1] = c.regs[r]
    BY <1>1, Pushing
  <1> QED  BY <1>2, <1>3, MovesOn

LEMMA DoesPushNext ==
    ASSUME NEW c, NEW w, NEW i, NEW t, Stands(c, w, i, t), t < Depth,
           NEW k, NEW d, d = executed(c, PushNext(k))
    PROVE  /\ Stands(d, w, i + 1, t + 1) /\ Like(d, c, {}, t + 1) /\ d.errno = c.errno
           /\ d.stack[t + 1] = At(w, i + k)
  <1>1. PICK b : b = pushed(c, At(w, i + k))
    OBVIOUS
  <1>2. d = goto(b, next(c, 1))
    BY <1>1, Ahead DEF executed, PushNext
  <1>3. Stands(b, w, i, t + 1) /\ Like(b, c, {}, t + 1) /\ b.errno = c.errno
        /\ b.stack[t + 1] = At(w, i + k)
    BY <1>1, Pushing
  <1> QED  BY <1>2, <1>3, MovesOn

\* b is c but for register r.
LEMMA Changes ==
    ASSUME NEW c, NEW w, NEW i, NEW t, Stands(c, w, i, t), NEW r \in Regs \ {"eip", "esp"},
           NEW v, NEW b, b = with_reg(c, r, v)
    PROVE  Stands(b, w, i, t) /\ Like(b, c, {r}, 0) /\ b.errno = c.errno /\ b.regs[r] = v
  <1>1. /\ Context(b) /\ b.regs[r] = v /\ \A q \in Regs \ {r} : b.regs[q] = c.regs[q]
        /\ b.stack = c.stack /\ b.errno = c.errno /\ b.call = c.call /\ b.state = c.state
    BY Setting DEF Stands
  <1>2. "eip" \in Regs /\ "esp" \in Regs
    BY DEF Regs
  <1> QED  BY <1>1, <1>2 DEF Stands, Like

LEMMA DoesPop ==
    ASSUME NEW c, NEW w, NEW i, NEW t, Stands(c, w, i, t), t > 0,
           NEW r \in Regs \ {"eip", "esp"}, NEW d, d = executed(c, Pop(r))
    PROVE  /\ Stands(d, w, i + 1, t - 1) /\ Like(d, c, {r}, 0) /\ d.errno = c.errno
           /\ d.regs[r] = c.stack[t]
  <1>0. top(c) = t
    BY DEF Stands, top, Sp
  <1>1. PICK a, b : a = popped(c) /\ b = with_reg(a, r, c.stack[t])
    OBVIOUS
  <1>2. d = goto(b, next(c, 1))
    BY <1>0, <1>1 DEF executed, Pop, with_reg
  <1>3. Stands(a, w, i, t - 1) /\ Like(a, c, {}, 0) /\ a.errno = c.errno
    BY <1>1, Popping
  <1>4. Stands(b, w, i, t - 1) /\ Like(b, a, {r}, 0) /\ b.errno = a.errno
        /\ b.regs[r] = c.stack[t]
    BY <1>1, <1>3, Changes
  <1>5. Like(b, c, {r}, 0)
    BY <1>3, <1>4 DEF Like
  <1> QED  BY <1>2, <1>3, <1>4, <1>5, MovesOn

LEMMA DoesDrop ==
    ASSUME NEW c, NEW w, NEW i, NEW t, Stands(c, w, i, t), t > 0,
           NEW d, d = executed(c, Drop)
    PROVE  Stands(d, w, i + 1, t - 1) /\ Like(d, c, {}, 0) /\ d.errno = c.errno
  <1>1. PICK b : b = popped(c)
    OBVIOUS
  <1>2. d = goto(b, next(c, 1))
    BY <1>1 DEF executed, Drop
  <1>3. Stands(b, w, i, t - 1) /\ Like(b, c, {}, 0) /\ b.errno = c.errno
    BY <1>1, Popping
  <1> QED  BY <1>2, <1>3, MovesOn

\* Instructions that load a register: b is c with it.
LEMMA DoesLoad ==
    ASSUME NEW c, NEW w, NEW i, NEW t, Stands(c, w, i, t), NEW r \in Regs \ {"eip", "esp"},
           NEW v, NEW d, d = goto(with_reg(c, r, v), next(c, 1))
    PROVE  /\ Stands(d, w, i + 1, t) /\ Like(d, c, {r}, 0) /\ d.errno = c.errno
           /\ d.regs[r] = v
  <1>1. PICK b : b = with_reg(c, r, v)
    OBVIOUS
  <1>2. Stands(b, w, i, t) /\ Like(b, c, {r}, 0) /\ b.errno = c.errno /\ b.regs[r] = v
    BY <1>1, Changes
  <1> QED  BY <1>1, <1>2, MovesOn

LEMMA DoesMov ==
    ASSUME NEW c, NEW w, NEW i, NEW t, Stands(c, w, i, t), NEW r \in Regs \ {"eip", "esp"},
           NEW q, NEW d, d = executed(c, Mov(q, r))
    PROVE  /\ Stands(d, w, i + 1, t) /\ Like(d, c, {r}, 0) /\ d.errno = c.errno
           /\ d.regs[r] = c.regs[q]
  <1>1. d = goto(with_reg(c, r, c.regs[q]), next(c, 1))
    BY DEF executed, Mov, with_reg
  <1> QED  BY <1>1, DoesLoad

LEMMA DoesSet ==
    ASSUME NEW c, NEW w, NEW i, NEW t, Stands(c, w, i, t), NEW r \in Regs \ {"eip", "esp"},
           NEW num, NEW d, d = executed(c, Set(num, r))
    PROVE  /\ Stands(d, w, i + 1, t) /\ Like(d, c, {r}, 0) /\ d.errno = c.errno
           /\ d.regs[r] = Num(num)
  <1>1. d = goto(with_reg(c, r, Num(num)), next(c, 1))
    BY DEF executed, Set, with_reg
  <1> QED  BY <1>1, DoesLoad

\* The word that holds argument k of a program with m words below EBP.
arg_word(m, k) == m - k - 1

LEMMA DoesArg ==
    ASSUME NEW c, NEW w, NEW i, NEW t, Stands(c, w, i, t), NEW r \in Regs \ {"eip", "esp"},
           NEW nth, NEW base, c.regs.ebp = Sp(base), NEW d, d = executed(c, Arg(nth, r))
    PROVE  /\ Stands(d, w, i + 1, t) /\ Like(d, c, {r}, 0) /\ d.errno = c.errno
           /\ d.regs[r] = c.stack[arg_word(base, nth)]
  <1>1. c.regs.ebp[2] = base
    BY DEF Sp
  <1>2. d = goto(with_reg(c, r, c.stack[base - nth - 1]), next(c, 1))
    BY <1>1 DEF executed, Arg, with_reg
  <1> QED  BY <1>2, DoesLoad DEF arg_word

minus(n) == - n

LEMMA DoesNegEax ==
    ASSUME NEW c, NEW w, NEW i, NEW t, Stands(c, w, i, t), NEW d, d = executed(c, NegEax)
    PROVE  /\ Stands(d, w, i + 1, t) /\ Like(d, c, {"eax"}, 0) /\ d.errno = c.errno
           /\ d.regs.eax = Num(minus(c.regs.eax[2]))
  <1>1. "eax" \in Regs \ {"eip", "esp"}
    BY DEF Regs
  <1>2. d = goto(with_reg(c, "eax", Num(- c.regs.eax[2])), next(c, 1))
    BY DEF executed, NegEax, with_reg
  <1>3. /\ Stands(d, w, i + 1, t) /\ Like(d, c, {"eax"}, 0) /\ d.errno = c.errno
        /\ d.regs["eax"] = Num(- c.regs.eax[2])
    BY <1>1, <1>2, DoesLoad
  <1> QED  BY <1>3 DEF minus

LEMMA DoesSetErrno ==
    ASSUME NEW c, NEW w, NEW i, NEW t, Stands(c, w, i, t), NEW d, d = executed(c, SetErrno)
    PROVE  Stands(d, w, i + 1, t) /\ Like(d, c, {}, 0) /\ d.errno = c.regs.eax
  <1>1. PICK b : b = [c EXCEPT !.errno = c.regs.eax]
    OBVIOUS
  <1>2. d = goto(b, next(c, 1))
    BY <1>1 DEF executed, SetErrno
  <1>3. Stands(b, w, i, t) /\ Like(b, c, {}, 0) /\ b.errno = c.regs.eax
    <2>1. b = [regs |-> c.regs, stack |-> c.stack, errno |-> c.regs.eax,
               call |-> c.call, state |-> c.state]
      BY <1>1 DEF Stands, Context
    <2> QED  BY <2>1 DEF Stands, Context, Like
  <1> QED  BY <1>2, <1>3, MovesOn

LEMMA DoesCall ==
    ASSUME NEW c, NEW w, NEW i, NEW t, Stands(c, w, i, t), t < Depth,
           NEW u, NEW d, d = executed(c, Call(u))
    PROVE  /\ Stands(d, u, 1, t + 1) /\ Like(d, c, {}, t + 1) /\ d.errno = c.errno
           /\ d.stack[t + 1] = At(w, i + 1)
  <1>1. PICK b : b = pushed(c, At(w, i + 1))
    OBVIOUS
  <1>2. d = goto(b, At(u, 1))
    BY <1>1, Ahead DEF executed, Call
  <1>3. Stands(b, w, i, t + 1) /\ Like(b, c, {}, t + 1) /\ b.errno = c.errno
        /\ b.stack[t + 1] = At(w, i + 1)
    BY <1>1, Pushing
  <1>4. Stands(d, u, 1, t + 1) /\ Like(d, b, {}, 0) /\ d.errno = b.errno
    BY <1>2, <1>3, Going
  <1>5. t + 1 \in 1 .. Depth
    BY EntryAssumption DEF Stands
  <1> QED  BY <1>3, <1>4, <1>5 DEF Like

LEMMA DoesRet ==
    ASSUME NEW c, NEW w, NEW i, NEW t, Stands(c, w, i, t), t > 0,
           NEW u, NEW j, c.stack[t] = At(u, j), NEW d, d = executed(c, Ret)
    PROVE  Stands(d, u, j, t - 1) /\ Like(d, c, {}, 0) /\ d.errno = c.errno
  <1>0. top(c) = t
    BY DEF Stands, top, Sp
  <1>1. PICK b : b = popped(c)
    OBVIOUS
  <1>2. d = goto(b, At(u, j))
    BY <1>0, <1>1 DEF executed, Ret
  <1>3. Stands(b, w, i, t - 1) /\ Like(b, c, {}, 0) /\ b.errno = c.errno
    BY <1>1, Popping
  <1>4. Stands(d, u, j, t - 1) /\ Like(d, b, {}, 0) /\ d.errno = b.errno
    BY <1>2, <1>3, Going
  <1> QED  BY <1>3, <1>4 DEF Like

\* The jumps, on a number n.
LEMMA DoesJge ==
    ASSUME NEW c, NEW w, NEW i, NEW t, Stands(c, w, i, t), NEW num, c.regs.eax = Num(num),
           NEW k, NEW d, d = executed(c, Jge(k))
    PROVE  Stands(d, w, i + (IF num < 0 THEN 1 ELSE k + 1), t) /\ Like(d, c, {}, 0)
           /\ d.errno = c.errno
  <1>1. d = goto(c, next(c, IF num < 0 THEN 1 ELSE k + 1))
    BY DEF executed, Jge, negative, Num
  <1>2. PICK j : j = IF num < 0 THEN 1 ELSE k + 1
    OBVIOUS
  <1>3. d = goto(c, At(w, i + j))
    BY <1>1, <1>2, Ahead
  <1> QED  BY <1>2, <1>3, Going

LEMMA DoesJs ==
    ASSUME NEW c, NEW w, NEW i, NEW t, Stands(c, w, i, t), NEW num, c.regs.eax = Num(num),
           NEW u, NEW d, d = executed(c, Js(u))
    PROVE  /\ IF num < 0 THEN Stands(d, u, 1, t) ELSE Stands(d, w, i + 1, t)
           /\ Like(d, c, {}, 0) /\ d.errno = c.errno
  <1>1. d = IF num < 0 THEN goto(c, At(u, 1)) ELSE goto(c, At(w, i + 1))
    BY Ahead DEF executed, Js, negative, Num
  <1> QED  BY <1>1, Going

-----------------------------------------------------------------------------
\* The texts of syscall_sysenter, of the wrappers and of nok, by place.
LEMMA SysenterText ==
    LET s == P!syscall_sysenter
    IN  /\ s[1] = Push("ecx") /\ s[2] = Push("edx") /\ s[3] = PushNext(4) /\ s[4] = Push("ebp")
        /\ s[5] = Mov("esp", "ebp") /\ s[6] = Sysenter /\ s[7] = Pop("ebp")
        /\ s[8] = Pop("edx") /\ s[9] = Pop("edx") /\ s[10] = Pop("ecx") /\ s[11] = Ret
  BY DEF P!syscall_sysenter, P!SYSENTER_RETURN, Push, PushNext, Mov, Sysenter, Pop, Ret,
   P!Push, P!PushNext, P!Mov, P!Sysenter, P!Pop, P!Ret

LEMMA WrapperText ==
    ASSUME NEW nr, NEW n \in 1 .. 3
    PROVE  LET s == P!wrapper(nr, n)
    IN  /\ s[1] = Push("ebp") /\ s[2] = Mov("esp", "ebp") /\ s[3] = Push("ebx")
        /\ s[4] = Set(nr, "eax")
        /\ \A k \in 1 .. n : s[4 + k] = Arg(k, <<"ebx", "ecx", "edx">>[k])
        /\ s[5 + n] = Call("syscall_sysenter") /\ s[6 + n] = Pop("ebx") /\ s[7 + n] = Js("nok")
        /\ s[8 + n] = Pop("ebp") /\ s[9 + n] = Ret
  <1>1. CASE n = 1
    BY <1>1 DEF P!wrapper, P!entered, P!loads, P!tested, Push, Mov, Set, Arg, Call, Pop, Js, Ret,
   P!Push, P!Mov, P!Set, P!Arg, P!Call, P!Pop, P!Js, P!Ret
  <1>2. CASE n = 2
    BY <1>2 DEF P!wrapper, P!entered, P!loads, P!tested, Push, Mov, Set, Arg, Call, Pop, Js, Ret,
   P!Push, P!Mov, P!Set, P!Arg, P!Call, P!Pop, P!Js, P!Ret
  <1>3. CASE n = 3
    BY <1>3 DEF P!wrapper, P!entered, P!loads, P!tested, Push, Mov, Set, Arg, Call, Pop, Js, Ret,
   P!Push, P!Mov, P!Set, P!Arg, P!Call, P!Pop, P!Js, P!Ret
  <1> QED  BY <1>1, <1>2, <1>3

-----------------------------------------------------------------------------
\* A system that runs PROJECTE: with any number of processes, that call any of
\* its wrappers or pass any number themselves, and any handlers that fail or
\* switch, but for those of the wrappers that do not look at the result.
P_called == DOMAIN P!P_Programs \ {"syscall_sysenter", "nok"}
Untested == {"gettime", "getpid", "exit", "yield"}
RunsProject(s) ==
    /\ s.programs = P!P_Programs /\ s.table = P!sys_call_table /\ s.arity = P!P_Arity
    /\ s.saves = P!SAVE_ALL /\ s.restores = P!RESTORE_ALL
    /\ s.switch_saves = P!switch_saves /\ s.switch_restores = P!switch_restores
    /\ s.callable \subseteq P_called /\ s.raw \subseteq Int
    /\ s.may_fail \cap Untested = {} /\ s.errno_negated = FALSE

\* What the context c of a process has in common wherever it is: the registers
\* nobody touches, and a record of its last call.
Common(c) ==
    /\ c.call = [name |-> c.call.name, handler |-> c.call.handler, got |-> c.call.got,
                 tag |-> c.call.tag, result |-> c.call.result]
    /\ \A r \in {"esi", "edi", "ds", "es", "fs", "gs"} : c.regs[r] = Orig(c.call.tag, r)

\* The register r is the caller's.
Has(c, r) == c.regs[r] = Orig(c.call.tag, r)

\* What a caller that passes n arguments left on the stack.
Passed(c, n) == /\ \A k \in 1 .. n : c.stack[n + 2 - k] = <<"arg", k>>
                /\ c.stack[n + 2] = Caller

\* The handler has not been called; it has, as it should.
Asks(c) == c.call.handler = "none"
Loaded(c, k) == \A j \in 1 .. k : c.regs[Restores[j]] = <<"arg", j>>
Answered(c, n) ==
    /\ c.call.handler = c.call.name
    /\ \A k \in 1 .. n : c.call.got[k] = <<"arg", k>>
    /\ c.call.result \in Int
    /\ c.call.name \in Untested => c.call.result >= 0

\* The outline of the wrappers of PROJECTE: what holds of the context of a
\* process before instruction i.  First those with n > 0 parameters, which
\* save EBX.
nr == [write |-> 4, gettime |-> 10, getpid |-> 20, fork |-> 2, exit |-> 1, yield |-> 13,
       get_stats |-> 35, gotoxy |-> 7, set_color |-> 8, read |-> 5, shmat |-> 15,
       shmdt |-> 16, shmrm |-> 17]

InWrapperP(c, w, n, i) ==
    /\ i \in 1 .. 9 + n
    /\ Stands(c, w, i, n + (IF i \in {1, 9 + n} THEN 2
                            ELSE IF i \in {2, 3, 7 + n, 8 + n} THEN 3 ELSE 4))
    /\ Passed(c, n)
    /\ IF i \in {1, 2, 9 + n} THEN Has(c, "ebp") ELSE c.regs.ebp = Sp(n + 3)
    /\ i \notin {1, 9 + n} => c.stack[n + 3] = Orig(c.call.tag, "ebp")
    /\ IF i \in 4 .. 6 + n THEN c.stack[n + 4] = Orig(c.call.tag, "ebx") ELSE Has(c, "ebx")
    /\ i \in 5 .. 5 + n => c.regs.eax = Num(nr[w]) /\ Loaded(c, i - 5)
    /\ IF i <= 5 + n THEN Asks(c) ELSE Answered(c, n) /\ c.regs.eax = Num(c.call.result)
    /\ i \in {8 + n, 9 + n} => c.call.result >= 0

\* Those without, of which only fork looks at the result.
last(w) == IF w = "fork" THEN 7 ELSE 6
InPlainP(c, w, i) ==
    /\ i \in 1 .. last(w)
    /\ Stands(c, w, i, IF i \in {1, last(w)} THEN 2 ELSE 3)
    /\ Passed(c, 0) /\ Has(c, "ebx")
    /\ IF i \in {1, 2, last(w)} THEN Has(c, "ebp") ELSE c.regs.ebp = Sp(3)
    /\ i \notin {1, last(w)} => c.stack[3] = Orig(c.call.tag, "ebp")
    /\ i = 4 => c.regs.eax = Num(nr[w])
    /\ IF i <= 4 THEN Asks(c) ELSE Answered(c, 0) /\ c.regs.eax = Num(c.call.result)
    /\ w = "fork" /\ i >= 6 => c.call.result >= 0

\* syscall_sysenter, called with b words on the stack and fp in EBP.
InSysenter(c, i, b, fp) ==
    /\ i \in 1 .. 11
    /\ Stands(c, "syscall_sysenter", i,
              b + (IF i \in 5 .. 7 THEN 4 ELSE IF i <= 4 THEN i - 1 ELSE 11 - i))
    /\ c.regs.ebp = (IF i \in {6, 7} THEN Sp(b + 4) ELSE fp)
    /\ i \in 4 .. 7 => c.stack[b + 3] = At("syscall_sysenter", 7)
    /\ i \in 5 .. 7 => c.stack[b + 4] = fp

\* How a wrapper with n parameters calls it, and a program.
words(n) == IF n = 0 THEN 4 ELSE n + 5
after(n) == IF n = 0 THEN 5 ELSE n + 6
InCallP(c, w, n, i) ==
    /\ InSysenter(c, i, words(n), Sp(n + 3))
    /\ Passed(c, n) /\ c.stack[n + 3] = Orig(c.call.tag, "ebp")
    /\ IF n = 0 THEN Has(c, "ebx") ELSE c.stack[n + 4] = Orig(c.call.tag, "ebx")
    /\ c.stack[words(n)] = At(w, after(n))
    /\ IF i <= 6 THEN Asks(c) /\ c.regs.eax = Num(nr[w]) /\ Loaded(c, n)
       ELSE Answered(c, n) /\ c.regs.eax = Num(c.call.result)
InRawCall(c, i) ==
    /\ c.call.name = "raw"
    /\ InSysenter(c, i, 2, Orig(c.call.tag, "ebp")) /\ c.stack[2] = Caller

\* nok, where a wrapper that has restored EBX jumps if the call failed.
InNok(c, n, i) ==
    /\ i \in 1 .. 5
    /\ Stands(c, "nok", i, n + (IF i = 5 THEN 2 ELSE 3))
    /\ Passed(c, n) /\ Has(c, "ebx")
    /\ IF i = 5 THEN Has(c, "ebp")
       ELSE c.regs.ebp = Sp(n + 3) /\ c.stack[n + 3] = Orig(c.call.tag, "ebp")
    /\ Answered(c, n) /\ c.call.result < 0
    /\ c.regs.eax = Num(CASE i = 1 -> c.call.result [] i \in {2, 3} -> - c.call.result
                          [] i \in {4, 5} -> -1)
    /\ i >= 3 => c.errno = Num(- c.call.result)

\* Back in the program.
InProgram(c, n, sign) ==
    /\ Has(c, "ebx") /\ Has(c, "ebp") /\ Answered(c, n)
    /\ IF c.call.result < 0
       THEN c.regs.eax = Num(-1) /\ c.errno = Num(sign * c.call.result)
       ELSE c.regs.eax = Num(c.call.result)
AtProgramP(c) ==
    \/ \E t \in 1 .. 4 : Stands(c, "caller", 0, t) /\ c.call.name = "none" /\ Asks(c)
    \/ \E t \in 1 .. 4 : Stands(c, "caller", 0, t) /\ c.call.name = "raw"
    \/ \E n \in 0 .. 3 :
          /\ c.call.name \in Callable /\ n = Arity[c.call.name]
          /\ Stands(c, "caller", 0, n + 1) /\ InProgram(c, n, -1)

ProperP(c) ==
    /\ Common(c)
    /\ \/ c.state = "ok" /\ AtProgramP(c)
       \/ c.state = "ok" /\ \E w \in Callable :
             /\ c.call.name = w
             /\ \/ \E n \in 1 .. 3, i \in 1 .. 12 : n = Arity[w] /\ InWrapperP(c, w, n, i)
                \/ \E i \in 1 .. 7 : Arity[w] = 0 /\ InPlainP(c, w, i)
                \/ \E n \in 0 .. 3, i \in 1 .. 11 : n = Arity[w] /\ InCallP(c, w, n, i)
                \/ \E n \in 0 .. 3, i \in 1 .. 5 : n = Arity[w] /\ InNok(c, n, i)
       \/ c.state = "ok" /\ \E i \in 1 .. 11 : InRawCall(c, i)
       \/ c.state = "wild" /\ c.call.name = "raw"

OnProject == RunsProject(Systems[system]) /\ Depth >= 12

\* The number a wrapper loads is that of its handler in sys_call_table.
LEMMA Numbers ==
    \A w \in P_called : /\ nr[w] \in 0 .. 35 /\ P!sys_call_table[nr[w]] = w
                        /\ P!P_Arity[w] \in 0 .. 3 /\ w # "caller"
  BY DEF P_called, nr, P!sys_call_table, P!P_Arity, P!P_Programs

\* What the text of a wrapper is depends on its parameters.
LEMMA Texts ==
    ASSUME NEW w \in P_called
    PROVE  P!P_Programs[w] =
              IF P!P_Arity[w] > 0 THEN P!wrapper(nr[w], P!P_Arity[w])
              ELSE P!plain(nr[w]) \o (IF w = "fork" THEN P!tested ELSE <<P!Pop("ebp"), P!Ret>>)
  <1>1. w \in {"write", "get_stats", "gotoxy", "set_color", "read", "shmat", "shmdt", "shmrm"}
        \/ w \in {"gettime", "getpid", "fork", "exit", "yield"}
    BY DEF P_called, P!P_Programs
  <1>2. CASE w \in {"write", "get_stats", "gotoxy", "set_color", "read", "shmat", "shmdt", "shmrm"}
    <2>1. P!P_Programs[w] = P!wrapper(nr[w], P!P_Arity[w])
      BY <1>2 DEF nr, P!P_Arity, P!P_Programs, P!write, P!get_stats, P!gotoxy, P!set_color,
                  P!read, P!shmat, P!shmdt, P!shmrm
    <2>2. P!P_Arity[w] > 0
      BY <1>2 DEF P!P_Arity, P!P_Programs
    <2> QED  BY <2>1, <2>2
  <1>3. CASE w \in {"gettime", "getpid", "fork", "exit", "yield"}
    <2>1. w = "fork" => P!P_Programs[w] = P!plain(nr[w]) \o P!tested
      BY DEF nr, P!P_Programs, P!fork
    <2>3. w # "fork" => P!P_Programs[w] = P!plain(nr[w]) \o <<P!Pop("ebp"), P!Ret>>
      <3>1. w = "gettime" => P!P_Programs[w] = P!plain(nr[w]) \o <<P!Pop("ebp"), P!Ret>>
        BY DEF nr, P!P_Programs, P!gettime
      <3>2. w = "getpid" => P!P_Programs[w] = P!plain(nr[w]) \o <<P!Pop("ebp"), P!Ret>>
        BY DEF nr, P!P_Programs, P!getpid
      <3>3. w = "exit" => P!P_Programs[w] = P!plain(nr[w]) \o <<P!Pop("ebp"), P!Ret>>
        BY DEF nr, P!P_Programs, P!exit
      <3>4. w = "yield" => P!P_Programs[w] = P!plain(nr[w]) \o <<P!Pop("ebp"), P!Ret>>
        BY DEF nr, P!P_Programs, P!yield
      <3> QED  BY <1>3, <3>1, <3>2, <3>3, <3>4
    <2>2. ~ (P!P_Arity[w] > 0)
      BY <1>3 DEF P!P_Arity, P!P_Programs
    <2>4. CASE w = "fork"
      BY <2>1, <2>2, <2>4, Zenon
    <2>5. CASE w # "fork"
      BY <2>3, <2>2, <2>5, Zenon
    <2> QED  BY <2>4, <2>5
  <1> QED  BY <1>1, <1>2, <1>3

LEMMA PlainText ==
    ASSUME NEW n
    PROVE  \A b \in BOOLEAN :
           LET s == P!plain(n) \o (IF b THEN P!tested ELSE <<P!Pop("ebp"), P!Ret>>)
           IN  /\ s[1] = Push("ebp") /\ s[2] = Mov("esp", "ebp") /\ s[3] = Set(n, "eax")
               /\ s[4] = Call("syscall_sysenter")
               /\ b => s[5] = Js("nok") /\ s[6] = Pop("ebp") /\ s[7] = Ret
               /\ ~ b => s[5] = Pop("ebp") /\ s[6] = Ret
  BY DEF P!plain, P!entered, P!tested, Push, Mov, Set, Call, Pop, Js, Ret,
         P!Push, P!Mov, P!Set, P!Call, P!Pop, P!Js, P!Ret

LEMMA NokText ==
    LET s == P!nok
    IN  /\ s[1] = NegEax /\ s[2] = SetErrno /\ s[3] = Set(-1, "eax") /\ s[4] = Pop("ebp")
        /\ s[5] = Ret
  BY DEF P!nok, NegEax, SetErrno, Set, Pop, Ret, P!NegEax, P!SetErrno, P!Set, P!Pop, P!Ret

\* What running PROJECTE means.
LEMMA OnIt ==
    ASSUME OnProject
    PROVE  /\ Programs = P!P_Programs /\ Table = P!sys_call_table /\ Arity = P!P_Arity
           /\ Restores = P!RESTORE_ALL /\ Callable \subseteq P_called /\ Depth >= 12
           /\ Restores[1] = "ebx" /\ Restores[2] = "ecx" /\ Restores[3] = "edx"
           /\ MayFail \cap Untested = {} /\ ErrnoNegated = FALSE
  BY DEF OnProject, RunsProject, Programs, Table, Arity, Restores, Callable, P!RESTORE_ALL,
         MayFail, ErrnoNegated

\* The number of a wrapper selects the handler of its name.
LEMMA Dispatched ==
    ASSUME OnProject
    PROVE  /\ \A w \in P_called : dispatched(nr[w]) = w
           /\ \A n : dispatched(n) \in DOMAIN Arity => arity_of(dispatched(n)) \in 0 .. 3
  <1>1. MAX_SYSCALL = 36
    <2>1. PICK k \in Nat : k = 35
      OBVIOUS
    <2>2. DOMAIN Table = 0 .. k
      BY <2>1, OnIt DEF P!sys_call_table
    <2>3. MAX_SYSCALL = Cardinality(0 .. k)
      BY <2>2, Zenon DEF MAX_SYSCALL
    <2>4. \A m \in Nat : Cardinality(0 .. m) = m + 1
      BY FS_Interval
    <2>5. Cardinality(0 .. k) = k + 1
      BY <2>4, Zenon
    <2> QED  BY <2>1, <2>3, <2>5
  <1>2. ASSUME NEW w \in P_called PROVE dispatched(nr[w]) = w
    BY <1>1, Numbers, OnIt DEF dispatched
  <1>3. \A h \in DOMAIN Arity : arity_of(h) \in 0 .. 3
    BY OnIt DEF arity_of, P!P_Arity
  <1> QED  BY <1>2, <1>3

\* Alone, a process at an instruction that is not sysenter executes it.
LEMMA Executes ==
    ASSUME NEW c, c.state = "ok", NEW w, w # "caller", NEW i, NEW t, Stands(c, w, i, t),
           NEW I, I = Programs[w][i], I[1] # "sysenter", NEW p, NEW d, Alone(p, c, d)
    PROVE  d = executed(c, I)
  <1>1. c.regs.eip[2][1] = w /\ c.regs.eip[2][2] = i /\ c.regs.eip # Caller
    BY DEF Stands, At, Caller
  <1>2. instruction_of(c) = I
    BY <1>1 DEF instruction_of
  <1> QED  BY <1>1, <1>2 DEF Alone, AtProgram, AtCall

\* What an instruction of the wrappers, which only changes these registers,
\* leaves as it was.
LEMMA StaysCommon ==
    ASSUME NEW c, Common(c), NEW R \in SUBSET {"eax", "ebx", "ecx", "edx", "ebp"}, NEW k, NEW d,
           Like(d, c, R, k)
    PROVE  Common(d) /\ d.call = c.call /\ d.state = c.state
  BY DEF Common, Like, Regs

\* An instruction that writes, if at all, above the arguments leaves them.
LEMMA StaysPassed ==
    ASSUME NEW c, NEW n \in 0 .. 3, Passed(c, n), NEW R, NEW k, k = 0 \/ k > n + 2, NEW d,
           Like(d, c, R, k), Depth >= 12
    PROVE  Passed(d, n)
  BY EntryAssumption DEF Passed, Like

\* The instructions of a wrapper with parameters lead from place to place of
\* the outline.
LEMMA WrapperSteps ==
    ASSUME OnProject, NEW c, Common(c), NEW w, NEW n \in 1 .. 3, NEW i, InWrapperP(c, w, n, i),
           NEW d, d = executed(c, P!wrapper(nr[w], n)[i])
    PROVE  /\ Common(d) /\ d.call = c.call /\ d.state = c.state
           /\ \/ InWrapperP(d, w, n, i + 1)
              \/ InCallP(d, w, n, 1)
              \/ InNok(d, n, 1)
              \/ Stands(d, "caller", 0, n + 1) /\ InProgram(d, n, -1)
  <1>0. Depth >= 12 /\ Depth \in Nat /\ i \in 1 .. 9 + n /\ i \in Nat
    BY OnIt, EntryAssumption DEF InWrapperP
  <1>r. {"eax", "ebx", "ecx", "edx", "ebp"} \subseteq Regs \ {"eip", "esp"}
    BY DEF Regs
  <1>1. CASE i = 1
    <2>1. Stands(c, w, 1, n + 2) /\ Passed(c, n) /\ Has(c, "ebp") /\ Has(c, "ebx") /\ Asks(c)
      BY <1>1 DEF InWrapperP
    <2>2. d = executed(c, Push("ebp"))
      BY <1>1, WrapperText
    <2>3. Stands(d, w, 1 + 1, n + 2 + 1) /\ Like(d, c, {}, n + 2 + 1) /\ d.stack[n + 2 + 1] = c.regs["ebp"]
      BY <1>0, <2>1, <2>2, DoesPush
    <2>4. Common(d) /\ d.call = c.call /\ d.state = c.state
      BY <2>3, StaysCommon
    <2>5. Passed(d, n)
      BY <1>0, <2>1, <2>3, StaysPassed
    <2>6. Has(d, "ebp") /\ Has(d, "ebx")
      BY <1>r, <2>1, <2>3, <2>4 DEF Has, Like
    <2>7. InWrapperP(d, w, n, 2)
      BY <2>1, <2>3, <2>4, <2>5, <2>6 DEF InWrapperP, Has, Asks
    <2> QED  BY <1>1, <2>4, <2>7
  <1>2. CASE i = 2
    <2>1. /\ Stands(c, w, 2, n + 3) /\ Passed(c, n) /\ Has(c, "ebp") /\ Has(c, "ebx") /\ Asks(c)
          /\ c.stack[n + 3] = Orig(c.call.tag, "ebp")
      BY <1>2 DEF InWrapperP
    <2>2. d = executed(c, Mov("esp", "ebp"))
      BY <1>2, WrapperText
    <2>3. Stands(d, w, 2 + 1, n + 3) /\ Like(d, c, {"ebp"}, 0) /\ d.regs["ebp"] = c.regs["esp"]
      <3>1. "ebp" \in Regs \ {"eip", "esp"}
        BY <1>r
      <3> QED  BY <2>1, <2>2, <3>1, DoesMov
    <2>4. Common(d) /\ d.call = c.call /\ d.state = c.state
      BY <2>3, StaysCommon
    <2>5. Passed(d, n)
      BY <1>0, <2>1, <2>3, StaysPassed
    <2>6. Has(d, "ebx") /\ d.regs.ebp = Sp(n + 3) /\ d.stack[n + 3] = c.stack[n + 3]
      BY <1>0, <1>r, <2>1, <2>3, <2>4 DEF Has, Like, Stands
    <2>7. InWrapperP(d, w, n, 3)
      BY <2>1, <2>3, <2>4, <2>5, <2>6 DEF InWrapperP, Has, Asks
    <2> QED  BY <1>2, <2>4, <2>7
  <1>3. CASE i = 3
    <2>1. /\ Stands(c, w, 3, n + 3) /\ Passed(c, n) /\ c.regs.ebp = Sp(n + 3) /\ Has(c, "ebx")
          /\ Asks(c) /\ c.stack[n + 3] = Orig(c.call.tag, "ebp")
      BY <1>3 DEF InWrapperP
    <2>2. d = executed(c, Push("ebx"))
      BY <1>3, WrapperText
    <2>3. Stands(d, w, 3 + 1, n + 3 + 1) /\ Like(d, c, {}, n + 3 + 1) /\ d.stack[n + 3 + 1] = c.regs["ebx"]
      BY <1>0, <2>1, <2>2, DoesPush
    <2>4. Common(d) /\ d.call = c.call /\ d.state = c.state
      BY <2>3, StaysCommon
    <2>5. Passed(d, n)
      BY <1>0, <2>1, <2>3, StaysPassed
    <2>6. d.regs.ebp = Sp(n + 3) /\ d.stack[n + 3] = c.stack[n + 3] /\ d.stack[n + 4] = Orig(c.call.tag, "ebx")
      BY <1>0, <1>r, <2>1, <2>3, <2>4 DEF Has, Like
    <2>7. InWrapperP(d, w, n, 4)
      BY <2>1, <2>3, <2>4, <2>5, <2>6 DEF InWrapperP, Has, Asks
    <2> QED  BY <1>3, <2>4, <2>7
  <1>4. CASE i = 4
    <2>1. /\ Stands(c, w, 4, n + 4) /\ Passed(c, n) /\ c.regs.ebp = Sp(n + 3)
          /\ c.stack[n + 4] = Orig(c.call.tag, "ebx")
          /\ Asks(c) /\ c.stack[n + 3] = Orig(c.call.tag, "ebp")
      BY <1>4 DEF InWrapperP
    <2>2. d = executed(c, Set(nr[w], "eax"))
      BY <1>4, WrapperText
    <2>3. Stands(d, w, 4 + 1, n + 4) /\ Like(d, c, {"eax"}, 0) /\ d.regs["eax"] = Num(nr[w])
      BY <1>r, <1>0, <2>1, <2>2, DoesSet
    <2>4. Common(d) /\ d.call = c.call /\ d.state = c.state
      BY <2>3, StaysCommon
    <2>5. Passed(d, n)
      BY <1>0, <2>1, <2>3, StaysPassed
    <2>6. d.regs.ebp = Sp(n + 3) /\ d.stack[n + 3] = c.stack[n + 3] /\ d.stack[n + 4] = c.stack[n + 4]
      BY <1>0, <1>r, <2>1, <2>3, <2>4 DEF Like
    <2>7. InWrapperP(d, w, n, 5)
      BY <2>1, <2>3, <2>4, <2>5, <2>6 DEF InWrapperP, Has, Asks, Loaded
    <2> QED  BY <1>4, <2>4, <2>7
  <1>5. CASE i \in 5 .. 4 + n
    <2>0. PICK k \in 1 .. n : i = 4 + k
      BY <1>5
    <2>1. /\ Stands(c, w, i, n + 4) /\ Passed(c, n) /\ c.regs.ebp = Sp(n + 3)
          /\ c.stack[n + 4] = Orig(c.call.tag, "ebx") /\ c.regs.eax = Num(nr[w])
          /\ Loaded(c, k - 1) /\ Asks(c) /\ c.stack[n + 3] = Orig(c.call.tag, "ebp")
      BY <1>5, <2>0 DEF InWrapperP
    <2>r. /\ Restores[k] = <<"ebx", "ecx", "edx">>[k] /\ Restores[k] \in {"ebx", "ecx", "edx"}
          /\ \A j \in 1 .. k - 1 : Restores[j] # Restores[k] /\ Restores[j] \in {"ebx", "ecx", "edx"}
      BY <2>0, OnIt
    <2>2. d = executed(c, Arg(k, Restores[k]))
      BY <2>0, <2>r, WrapperText
    <2>3. /\ Stands(d, w, i + 1, n + 4) /\ Like(d, c, {Restores[k]}, 0)
          /\ d.regs[Restores[k]] = c.stack[n + 3 - k - 1]
      <3>1. Restores[k] \in Regs \ {"eip", "esp"}
        BY <1>r, <2>r, <2>0
      <3>2. Stands(c, w, i, n + 4)
        BY <2>1
      <3>3. c.regs.ebp = Sp(n + 3)
        BY <2>1
      <3>4. /\ Stands(d, w, i + 1, n + 4) /\ Like(d, c, {Restores[k]}, 0)
            /\ d.regs[Restores[k]] = c.stack[arg_word(n + 3, k)]
        BY <2>2, <3>1, <3>2, <3>3, DoesArg
      <3> QED  BY <3>4 DEF arg_word
    <2>4. Common(d) /\ d.call = c.call /\ d.state = c.state
      BY <2>3, <2>r, StaysCommon
    <2>5. Passed(d, n)
      BY <1>0, <2>1, <2>3, StaysPassed
    <2>6. /\ d.regs.ebp = Sp(n + 3) /\ d.stack[n + 3] = c.stack[n + 3]
          /\ d.stack[n + 4] = c.stack[n + 4] /\ d.regs.eax = c.regs.eax
      BY <1>0, <1>r, <2>r, <2>1, <2>3, <2>4 DEF Like
    <2>7. \A j \in 1 .. k - 1 : d.regs[Restores[j]] = <<"arg", j>>
      BY <1>r, <2>0, <2>r, <2>1, <2>3 DEF Loaded, Like
    <2>8. d.regs[Restores[k]] = <<"arg", k>>
      <3>1. c.stack[n + 2 - k] = <<"arg", k>> /\ n + 3 - k - 1 = n + 2 - k
        BY <2>0, <2>1 DEF Passed
      <3> QED  BY <2>3, <3>1
    <2>9. Loaded(d, k)
      BY <2>0, <2>7, <2>8 DEF Loaded
    <2>10. InWrapperP(d, w, n, i + 1)
      <3>1. i + 1 - 5 = k
        BY <2>0
      <3> QED  BY <1>5, <1>0, <2>0, <2>1, <2>3, <2>4, <2>5, <2>6, <2>9, <3>1 DEF InWrapperP, Has, Asks
    <2> QED  BY <2>4, <2>10
  <1>6. CASE i = 5 + n
    <2>1. /\ Stands(c, w, i, n + 4) /\ Passed(c, n) /\ c.regs.ebp = Sp(n + 3)
          /\ c.stack[n + 4] = Orig(c.call.tag, "ebx") /\ c.regs.eax = Num(nr[w])
          /\ Loaded(c, n) /\ Asks(c) /\ c.stack[n + 3] = Orig(c.call.tag, "ebp")
      BY <1>6 DEF InWrapperP
    <2>2. d = executed(c, Call("syscall_sysenter"))
      BY <1>6, WrapperText
    <2>3. /\ Stands(d, "syscall_sysenter", 1, n + 4 + 1) /\ Like(d, c, {}, n + 4 + 1)
          /\ d.stack[n + 4 + 1] = At(w, i + 1)
      BY <1>0, <2>1, <2>2, DoesCall
    <2>4. Common(d) /\ d.call = c.call /\ d.state = c.state
      BY <2>3, StaysCommon
    <2>5. Passed(d, n)
      BY <1>0, <2>1, <2>3, StaysPassed
    <2>6. /\ d.regs.ebp = Sp(n + 3) /\ d.stack[n + 3] = c.stack[n + 3]
          /\ d.stack[n + 4] = c.stack[n + 4] /\ d.regs.eax = c.regs.eax
      BY <1>0, <1>r, <2>1, <2>3, <2>4 DEF Like
    <2>7. Loaded(d, n)
      <3>1. \A j \in 1 .. n : Restores[j] \in {"ebx", "ecx", "edx"}
        BY OnIt
      <3> QED  BY <1>r, <2>1, <2>3, <3>1 DEF Loaded, Like
    <2>8. InCallP(d, w, n, 1)
      <3>1. words(n) = n + 5 /\ after(n) = i + 1
        BY <1>6 DEF words, after
      <3>2. InSysenter(d, 1, words(n), Sp(n + 3))
        BY <2>3, <2>6, <3>1 DEF InSysenter
      <3> QED  BY <2>1, <2>3, <2>4, <2>5, <2>6, <2>7, <3>1, <3>2 DEF InCallP, Asks
    <2> QED  BY <2>4, <2>8
  <1>7. CASE i = 6 + n
    <2>1. /\ Stands(c, w, i, n + 4) /\ Passed(c, n) /\ c.regs.ebp = Sp(n + 3)
          /\ c.stack[n + 4] = Orig(c.call.tag, "ebx") /\ c.regs.eax = Num(c.call.result)
          /\ Answered(c, n) /\ c.stack[n + 3] = Orig(c.call.tag, "ebp")
      BY <1>7 DEF InWrapperP
    <2>2. d = executed(c, Pop("ebx"))
      BY <1>7, WrapperText
    <2>3. /\ Stands(d, w, i + 1, n + 4 - 1) /\ Like(d, c, {"ebx"}, 0)
          /\ d.regs["ebx"] = c.stack[n + 4]
      <3>1. "ebx" \in Regs \ {"eip", "esp"} /\ n + 4 > 0
        BY <1>r
      <3> QED  BY <2>1, <2>2, <3>1, DoesPop
    <2>4. Common(d) /\ d.call = c.call /\ d.state = c.state
      BY <2>3, StaysCommon
    <2>5. Passed(d, n)
      BY <1>0, <2>1, <2>3, StaysPassed
    <2>6. /\ d.regs.ebp = Sp(n + 3) /\ d.stack[n + 3] = c.stack[n + 3]
          /\ Has(d, "ebx") /\ d.regs.eax = c.regs.eax
      BY <1>0, <1>r, <2>1, <2>3, <2>4 DEF Like, Has
    <2>7. InWrapperP(d, w, n, i + 1)
      <3>1. n + (IF i + 1 \in {1, 9 + n} THEN 2
                 ELSE IF i + 1 \in {2, 3, 7 + n, 8 + n} THEN 3 ELSE 4) = n + (3)
        BY <1>7
      <3>2. Stands(d, w, i + 1, n + (IF i + 1 \in {1, 9 + n} THEN 2
                                     ELSE IF i + 1 \in {2, 3, 7 + n, 8 + n} THEN 3 ELSE 4))
        BY <2>3, <3>1
      <3>3. /\ IF i + 1 \in {1, 2, 9 + n} THEN Has(d, "ebp") ELSE d.regs.ebp = Sp(n + 3)
            /\ i + 1 \notin {1, 9 + n} => d.stack[n + 3] = Orig(d.call.tag, "ebp")
            /\ IF i + 1 \in 4 .. 6 + n THEN d.stack[n + 4] = Orig(d.call.tag, "ebx") ELSE Has(d, "ebx")
        BY <1>7, <2>1, <2>4, <2>6
      <3>4. /\ i + 1 \in 1 .. 9 + n /\ ~ (i + 1 \in 5 .. 5 + n) /\ ~ (i + 1 <= 5 + n)
            /\ Answered(d, n) /\ d.regs.eax = Num(d.call.result)
            /\ i + 1 \in {8 + n, 9 + n} => d.call.result >= 0
        BY <1>7, <2>1, <2>4, <2>6 DEF Answered
      <3> QED  BY <2>5, <3>2, <3>3, <3>4 DEF InWrapperP
    <2> QED  BY <2>4, <2>7
  <1>8. CASE i = 7 + n
    <2>1. /\ Stands(c, w, i, n + 3) /\ Passed(c, n) /\ c.regs.ebp = Sp(n + 3)
          /\ Has(c, "ebx") /\ c.regs.eax = Num(c.call.result)
          /\ Answered(c, n) /\ c.stack[n + 3] = Orig(c.call.tag, "ebp")
      BY <1>8 DEF InWrapperP
    <2>2. d = executed(c, Js("nok"))
      BY <1>8, WrapperText
    <2>3. /\ IF c.call.result < 0 THEN Stands(d, "nok", 1, n + 3) ELSE Stands(d, w, i + 1, n + 3)
          /\ Like(d, c, {}, 0)
      BY <1>0, <1>r, <2>1, <2>2, DoesJs
    <2>4. Common(d) /\ d.call = c.call /\ d.state = c.state
      BY <2>3, StaysCommon
    <2>5. Passed(d, n)
      BY <1>0, <2>1, <2>3, StaysPassed
    <2>6. /\ d.regs.ebp = Sp(n + 3) /\ d.stack[n + 3] = c.stack[n + 3]
          /\ Has(d, "ebx") /\ d.regs.eax = c.regs.eax
      BY <1>0, <1>r, <2>1, <2>3, <2>4 DEF Like, Has
    <2>7. CASE c.call.result < 0
      <3>1. InNok(d, n, 1)
        BY <2>1, <2>3, <2>4, <2>5, <2>6, <2>7 DEF InNok, Has, Answered
      <3> QED  BY <2>4, <3>1
    <2>8. CASE ~ (c.call.result < 0)
      <3>1. c.call.result >= 0
        BY <2>1, <2>8 DEF Answered
      <3>2. InWrapperP(d, w, n, i + 1)
        BY <1>8, <2>1, <2>3, <2>4, <2>5, <2>6, <2>8, <3>1 DEF InWrapperP, Has, Answered
      <3> QED  BY <2>4, <3>2
    <2> QED  BY <2>7, <2>8
  <1>9. CASE i = 8 + n
    <2>1. /\ Stands(c, w, i, n + 3) /\ Passed(c, n) /\ c.regs.ebp = Sp(n + 3)
          /\ Has(c, "ebx") /\ c.regs.eax = Num(c.call.result) /\ c.call.result >= 0
          /\ Answered(c, n) /\ c.stack[n + 3] = Orig(c.call.tag, "ebp")
      BY <1>9 DEF InWrapperP
    <2>2. d = executed(c, Pop("ebp"))
      BY <1>9, WrapperText
    <2>3. /\ Stands(d, w, i + 1, n + 3 - 1) /\ Like(d, c, {"ebp"}, 0)
          /\ d.regs["ebp"] = c.stack[n + 3]
      <3>1. "ebp" \in Regs \ {"eip", "esp"} /\ n + 3 > 0
        BY <1>r
      <3> QED  BY <2>1, <2>2, <3>1, DoesPop
    <2>4. Common(d) /\ d.call = c.call /\ d.state = c.state
      BY <2>3, StaysCommon
    <2>5. Passed(d, n)
      BY <1>0, <2>1, <2>3, StaysPassed
    <2>6. Has(d, "ebp") /\ Has(d, "ebx") /\ d.regs.eax = c.regs.eax
      BY <1>0, <1>r, <2>1, <2>3, <2>4 DEF Like, Has
    <2>7. InWrapperP(d, w, n, i + 1)
      <3>1. n + (IF i + 1 \in {1, 9 + n} THEN 2
                 ELSE IF i + 1 \in {2, 3, 7 + n, 8 + n} THEN 3 ELSE 4) = n + (2)
        BY <1>9
      <3>2. Stands(d, w, i + 1, n + (IF i + 1 \in {1, 9 + n} THEN 2
                                     ELSE IF i + 1 \in {2, 3, 7 + n, 8 + n} THEN 3 ELSE 4))
        BY <2>3, <3>1
      <3>3. /\ IF i + 1 \in {1, 2, 9 + n} THEN Has(d, "ebp") ELSE d.regs.ebp = Sp(n + 3)
            /\ i + 1 \notin {1, 9 + n} => d.stack[n + 3] = Orig(d.call.tag, "ebp")
            /\ IF i + 1 \in 4 .. 6 + n THEN d.stack[n + 4] = Orig(d.call.tag, "ebx") ELSE Has(d, "ebx")
        BY <1>9, <2>1, <2>4, <2>6
      <3>4. /\ i + 1 \in 1 .. 9 + n /\ ~ (i + 1 \in 5 .. 5 + n) /\ ~ (i + 1 <= 5 + n)
            /\ Answered(d, n) /\ d.regs.eax = Num(d.call.result)
            /\ i + 1 \in {8 + n, 9 + n} => d.call.result >= 0
        BY <1>9, <2>1, <2>4, <2>6 DEF Answered
      <3> QED  BY <2>5, <3>2, <3>3, <3>4 DEF InWrapperP
    <2> QED  BY <2>4, <2>7
  <1>10. CASE i = 9 + n
    <2>1. /\ Stands(c, w, i, n + 2) /\ Passed(c, n) /\ Has(c, "ebp")
          /\ Has(c, "ebx") /\ c.regs.eax = Num(c.call.result) /\ c.call.result >= 0
          /\ Answered(c, n)
      BY <1>10 DEF InWrapperP
    <2>2. d = executed(c, Ret)
      BY <1>10, WrapperText
    <2>3. Stands(d, "caller", 0, n + 2 - 1) /\ Like(d, c, {}, 0)
      <3>1. c.stack[n + 2] = At("caller", 0)
        BY <2>1 DEF Passed, Caller
      <3> QED  BY <2>1, <2>2, <3>1, DoesRet
    <2>4. Common(d) /\ d.call = c.call /\ d.state = c.state
      BY <2>3, StaysCommon
    <2>6. Has(d, "ebp") /\ Has(d, "ebx") /\ d.regs.eax = c.regs.eax
      BY <1>0, <1>r, <2>1, <2>3, <2>4 DEF Like, Has
    <2>7. InProgram(d, n, -1)
      BY <2>1, <2>4, <2>6 DEF InProgram, Answered
    <2> QED  BY <2>3, <2>4, <2>7
  <1> QED  BY <1>0, <1>1, <1>2, <1>3, <1>4, <1>5, <1>6, <1>7, <1>8, <1>9, <1>10

plain_text(w) == P!plain(nr[w]) \o (IF w = "fork" THEN P!tested ELSE <<P!Pop("ebp"), P!Ret>>)

\* So do those of one without,
LEMMA PlainSteps ==
    ASSUME OnProject, NEW c, Common(c), NEW w, NEW i, InPlainP(c, w, i),
           NEW d, d = executed(c, plain_text(w)[i]),
           c.call.name = w, w \in P_called, w = "fork" \/ w \in Untested
    PROVE  /\ Common(d) /\ d.call = c.call /\ d.state = c.state
           /\ \/ InPlainP(d, w, i + 1)
              \/ InCallP(d, w, 0, 1)
              \/ InNok(d, 0, 1)
              \/ Stands(d, "caller", 0, 1) /\ InProgram(d, 0, -1)
  <1>0. Depth >= 12 /\ Depth \in Nat /\ i \in 1 .. 7 /\ i <= last(w) /\ "fork" \notin Untested
    BY OnIt, EntryAssumption DEF InPlainP, last, Untested
  <1>r. {"eax", "ebx", "ecx", "edx", "ebp"} \subseteq Regs \ {"eip", "esp"}
    BY DEF Regs
  <1>x. PICK s : s = plain_text(w)
    OBVIOUS
  <1>t. /\ s[1] = Push("ebp") /\ s[2] = Mov("esp", "ebp") /\ s[3] = Set(nr[w], "eax")
        /\ s[4] = Call("syscall_sysenter")
        /\ w = "fork" => s[5] = Js("nok") /\ s[6] = Pop("ebp") /\ s[7] = Ret
        /\ w # "fork" => s[5] = Pop("ebp") /\ s[6] = Ret
    BY <1>x, PlainText DEF plain_text
  <1>d. d = executed(c, s[i])
    BY <1>x
  <1>l. last(w) \in {6, 7} /\ (w = "fork" <=> last(w) = 7)
    BY DEF last
  <1>1. CASE i = 1
    <2>1. Stands(c, w, 1, 2) /\ Passed(c, 0) /\ Has(c, "ebp") /\ Has(c, "ebx") /\ Asks(c)
      BY <1>1 DEF InPlainP
    <2>2. d = executed(c, Push("ebp"))
      BY <1>1, <1>t, <1>d
    <2>3. Stands(d, w, 1 + 1, 2 + 1) /\ Like(d, c, {}, 2 + 1) /\ d.stack[2 + 1] = c.regs["ebp"]
      BY <1>0, <2>1, <2>2, DoesPush
    <2>4. Common(d) /\ d.call = c.call /\ d.state = c.state
      BY <2>3, StaysCommon
    <2>5. Passed(d, 0)
      BY <1>0, <2>1, <2>3, StaysPassed
    <2>6. Has(d, "ebp") /\ Has(d, "ebx")
      BY <1>r, <2>1, <2>3, <2>4 DEF Has, Like
    <2>7. InPlainP(d, w, 2)
      BY <1>l, <2>1, <2>3, <2>4, <2>5, <2>6 DEF InPlainP, Has, Asks
    <2>8. i + 1 = 2
      BY <1>1
    <2> QED  BY <2>4, <2>7, <2>8
  <1>2. CASE i = 2
    <2>1. /\ Stands(c, w, 2, 3) /\ Passed(c, 0) /\ Has(c, "ebp") /\ Has(c, "ebx") /\ Asks(c)
          /\ c.stack[3] = Orig(c.call.tag, "ebp")
      BY <1>2, <1>l DEF InPlainP
    <2>2. d = executed(c, Mov("esp", "ebp"))
      BY <1>2, <1>t, <1>d
    <2>3. Stands(d, w, 2 + 1, 3) /\ Like(d, c, {"ebp"}, 0) /\ d.regs["ebp"] = c.regs["esp"]
      <3>1. "ebp" \in Regs \ {"eip", "esp"}
        BY <1>r
      <3> QED  BY <2>1, <2>2, <3>1, DoesMov
    <2>4. Common(d) /\ d.call = c.call /\ d.state = c.state
      BY <2>3, StaysCommon
    <2>5. Passed(d, 0)
      BY <1>0, <2>1, <2>3, StaysPassed
    <2>6. Has(d, "ebx") /\ d.regs.ebp = Sp(3) /\ d.stack[3] = c.stack[3]
      BY <1>0, <1>r, <2>1, <2>3, <2>4 DEF Has, Like, Stands
    <2>7. InPlainP(d, w, 3)
      BY <1>l, <2>1, <2>3, <2>4, <2>5, <2>6 DEF InPlainP, Has, Asks
    <2>8. i + 1 = 3
      BY <1>2
    <2> QED  BY <2>4, <2>7, <2>8
  <1>3. CASE i = 3
    <2>1. /\ Stands(c, w, 3, 3) /\ Passed(c, 0) /\ c.regs.ebp = Sp(3)
          /\ Has(c, "ebx") /\ Asks(c) /\ c.stack[3] = Orig(c.call.tag, "ebp")
      BY <1>3, <1>l DEF InPlainP
    <2>2. d = executed(c, Set(nr[w], "eax"))
      BY <1>3, <1>t, <1>d
    <2>3. Stands(d, w, 3 + 1, 3) /\ Like(d, c, {"eax"}, 0) /\ d.regs["eax"] = Num(nr[w])
      BY <1>r, <1>0, <2>1, <2>2, DoesSet
    <2>4. Common(d) /\ d.call = c.call /\ d.state = c.state
      BY <2>3, StaysCommon
    <2>5. Passed(d, 0)
      BY <1>0, <2>1, <2>3, StaysPassed
    <2>6. d.regs.ebp = Sp(3) /\ d.stack[3] = c.stack[3] /\ Has(d, "ebx")
      BY <1>0, <1>r, <2>1, <2>3, <2>4 DEF Like, Has
    <2>7. InPlainP(d, w, 4)
      BY <1>l, <2>1, <2>3, <2>4, <2>5, <2>6 DEF InPlainP, Has, Asks
    <2>8. i + 1 = 4
      BY <1>3
    <2> QED  BY <2>4, <2>7, <2>8
  <1>4. CASE i = 4
    <2>1. /\ Stands(c, w, 4, 3) /\ Passed(c, 0) /\ c.regs.ebp = Sp(3)
          /\ Has(c, "ebx") /\ Asks(c) /\ c.stack[3] = Orig(c.call.tag, "ebp")
          /\ c.regs.eax = Num(nr[w])
      BY <1>4, <1>l DEF InPlainP
    <2>2. d = executed(c, Call("syscall_sysenter"))
      BY <1>4, <1>t, <1>d
    <2>3. /\ Stands(d, "syscall_sysenter", 1, 3 + 1) /\ Like(d, c, {}, 3 + 1)
          /\ d.stack[3 + 1] = At(w, 4 + 1)
      BY <1>0, <2>1, <2>2, DoesCall
    <2>4. Common(d) /\ d.call = c.call /\ d.state = c.state
      BY <2>3, StaysCommon
    <2>5. Passed(d, 0)
      BY <1>0, <2>1, <2>3, StaysPassed
    <2>6. d.regs.ebp = Sp(3) /\ d.stack[3] = c.stack[3] /\ Has(d, "ebx") /\ d.regs.eax = c.regs.eax
      BY <1>0, <1>r, <2>1, <2>3, <2>4 DEF Like, Has
    <2>7. Loaded(d, 0)
      BY DEF Loaded
    <2>8. InCallP(d, w, 0, 1)
      <3>1. words(0) = 4 /\ after(0) = 5
        BY DEF words, after
      <3>2. InSysenter(d, 1, words(0), Sp(0 + 3))
        BY <2>3, <2>6, <3>1 DEF InSysenter
      <3> QED  BY <2>1, <2>3, <2>4, <2>5, <2>6, <2>7, <3>1, <3>2 DEF InCallP, Asks
    <2> QED  BY <2>4, <2>8
  <1>5. CASE i = 5 /\ w = "fork"
    <2>1. /\ Stands(c, w, 5, 3) /\ Passed(c, 0) /\ c.regs.ebp = Sp(3)
          /\ Has(c, "ebx") /\ c.regs.eax = Num(c.call.result)
          /\ Answered(c, 0) /\ c.stack[3] = Orig(c.call.tag, "ebp")
      BY <1>5, <1>l DEF InPlainP
    <2>2. d = executed(c, Js("nok"))
      BY <1>5, <1>t, <1>d
    <2>3. /\ IF c.call.result < 0 THEN Stands(d, "nok", 1, 3) ELSE Stands(d, w, 5 + 1, 3)
          /\ Like(d, c, {}, 0)
      BY <1>0, <1>r, <2>1, <2>2, DoesJs
    <2>4. Common(d) /\ d.call = c.call /\ d.state = c.state
      BY <2>3, StaysCommon
    <2>5. Passed(d, 0)
      BY <1>0, <2>1, <2>3, StaysPassed
    <2>6. d.regs.ebp = Sp(3) /\ d.stack[3] = c.stack[3] /\ Has(d, "ebx") /\ d.regs.eax = c.regs.eax
      BY <1>0, <1>r, <2>1, <2>3, <2>4 DEF Like, Has
    <2>7. CASE c.call.result < 0
      <3>1. InNok(d, 0, 1)
        BY <2>1, <2>3, <2>4, <2>5, <2>6, <2>7 DEF InNok, Has, Answered
      <3> QED  BY <2>4, <3>1
    <2>8. CASE ~ (c.call.result < 0)
      <3>1. c.call.result >= 0
        BY <2>1, <2>8 DEF Answered
      <3>2. InPlainP(d, w, 6)
        BY <1>l, <1>5, <2>1, <2>3, <2>4, <2>5, <2>6, <2>8, <3>1 DEF InPlainP, Has, Answered
      <3> QED  BY <1>5, <2>4, <3>2
    <2> QED  BY <2>7, <2>8
  <1>6. CASE i = last(w) - 1 /\ ~ (i = 5 /\ w = "fork")
    <2>0. i \in {5, 6} /\ (i = 6 => w = "fork") /\ (i = 5 => w # "fork") /\ i # 1
      BY <1>6, <1>l
    <2>1. /\ Stands(c, w, i, 3) /\ Passed(c, 0) /\ c.regs.ebp = Sp(3)
          /\ Has(c, "ebx") /\ c.regs.eax = Num(c.call.result)
          /\ Answered(c, 0) /\ c.stack[3] = Orig(c.call.tag, "ebp")
          /\ w = "fork" => c.call.result >= 0
      BY <1>6, <1>l, <2>0 DEF InPlainP
    <2>2. d = executed(c, Pop("ebp"))
      BY <2>0, <1>t, <1>d
    <2>3. /\ Stands(d, w, i + 1, 3 - 1) /\ Like(d, c, {"ebp"}, 0)
          /\ d.regs["ebp"] = c.stack[3]
      <3>1. "ebp" \in Regs \ {"eip", "esp"} /\ 3 > 0
        BY <1>r
      <3> QED  BY <2>1, <2>2, <3>1, DoesPop
    <2>4. Common(d) /\ d.call = c.call /\ d.state = c.state
      BY <2>3, StaysCommon
    <2>5. Passed(d, 0)
      BY <1>0, <2>1, <2>3, StaysPassed
    <2>6. Has(d, "ebp") /\ Has(d, "ebx") /\ d.regs.eax = c.regs.eax
      BY <1>0, <1>r, <2>1, <2>3, <2>4 DEF Like, Has
    <2>7. InPlainP(d, w, i + 1)
      <3>1. i + 1 = last(w)
        BY <1>6, <1>l
      <3> QED  BY <1>l, <2>0, <2>1, <2>3, <2>4, <2>5, <2>6, <3>1 DEF InPlainP, Has, Answered
    <2> QED  BY <2>4, <2>7
  <1>7. CASE i = last(w)
    <2>0. i \in {6, 7} /\ (i = 7 <=> w = "fork")
      BY <1>7, <1>l
    <2>1. /\ Stands(c, w, i, 2) /\ Passed(c, 0) /\ Has(c, "ebp")
          /\ Has(c, "ebx") /\ c.regs.eax = Num(c.call.result)
          /\ Answered(c, 0)
          /\ w = "fork" => c.call.result >= 0
      BY <1>7, <2>0 DEF InPlainP
    <2>2. d = executed(c, Ret)
      BY <2>0, <1>t, <1>d
    <2>3. Stands(d, "caller", 0, 2 - 1) /\ Like(d, c, {}, 0)
      <3>1. c.stack[2] = At("caller", 0)
        BY <2>1 DEF Passed, Caller
      <3> QED  BY <2>1, <2>2, <3>1, DoesRet
    <2>4. Common(d) /\ d.call = c.call /\ d.state = c.state
      BY <2>3, StaysCommon
    <2>6. Has(d, "ebp") /\ Has(d, "ebx") /\ d.regs.eax = c.regs.eax
      BY <1>0, <1>r, <2>1, <2>3, <2>4 DEF Like, Has
    <2>7. InProgram(d, 0, -1)
      <3>1. c.call.result >= 0
        BY <2>1, <1>0 DEF Answered
      <3> QED  BY <2>1, <2>4, <2>6, <3>1 DEF InProgram, Answered
    <2> QED  BY <2>3, <2>4, <2>7
  <1>8. \/ i = 1 \/ i = 2 \/ i = 3 \/ i = 4 \/ (i = 5 /\ w = "fork")
        \/ (i = last(w) - 1 /\ ~ (i = 5 /\ w = "fork")) \/ i = last(w)
    BY <1>0, <1>l
  <1> QED  BY <1>1, <1>2, <1>3, <1>4, <1>5, <1>6, <1>7, <1>8

\* those of nok,
LEMMA NokSteps ==
    ASSUME OnProject, NEW c, Common(c), NEW n \in 0 .. 3, NEW i, InNok(c, n, i),
           NEW d, d = executed(c, P!nok[i])
    PROVE  /\ Common(d) /\ d.call = c.call /\ d.state = c.state
           /\ \/ InNok(d, n, i + 1)
              \/ Stands(d, "caller", 0, n + 1) /\ InProgram(d, n, -1)
  <1>0. Depth >= 12 /\ Depth \in Nat /\ i \in 1 .. 5 /\ c.call.result \in Int
    BY OnIt, EntryAssumption DEF InNok, Answered
  <1>r. {"eax", "ebx", "ecx", "edx", "ebp"} \subseteq Regs \ {"eip", "esp"}
    BY DEF Regs
  <1>1. CASE i = 1
    <2>1. /\ Stands(c, "nok", 1, n + 3) /\ Passed(c, n) /\ c.regs.ebp = Sp(n + 3)
          /\ Has(c, "ebx") /\ c.regs.eax = Num(c.call.result) /\ c.call.result < 0
          /\ Answered(c, n) /\ c.stack[n + 3] = Orig(c.call.tag, "ebp")
      BY <1>1 DEF InNok
    <2>2. d = executed(c, NegEax)
      BY <1>1, NokText
    <2>3. /\ Stands(d, "nok", 1 + 1, n + 3) /\ Like(d, c, {"eax"}, 0)
          /\ d.regs.eax = Num(- c.call.result)
      <3>1. /\ Stands(d, "nok", 1 + 1, n + 3) /\ Like(d, c, {"eax"}, 0)
            /\ d.regs.eax = Num(minus(c.regs.eax[2]))
        BY <2>1, <2>2, DoesNegEax
      <3>2. c.regs.eax[2] = c.call.result
        BY <2>1 DEF Num
      <3> QED  BY <3>1, <3>2 DEF minus
    <2>4. Common(d) /\ d.call = c.call /\ d.state = c.state
      BY <2>3, StaysCommon
    <2>5. Passed(d, n)
      BY <1>0, <2>1, <2>3, StaysPassed
    <2>6. d.regs.ebp = Sp(n + 3) /\ d.stack[n + 3] = c.stack[n + 3] /\ Has(d, "ebx")
      BY <1>0, <1>r, <2>1, <2>3, <2>4 DEF Like, Has
    <2>7. InNok(d, n, 2)
      BY <2>1, <2>3, <2>4, <2>5, <2>6 DEF InNok, Has, Answered
    <2>8. i + 1 = 2
      BY <1>1
    <2> QED  BY <2>4, <2>7, <2>8
  <1>2. CASE i = 2
    <2>1. /\ Stands(c, "nok", 2, n + 3) /\ Passed(c, n) /\ c.regs.ebp = Sp(n + 3)
          /\ Has(c, "ebx") /\ c.regs.eax = Num(- c.call.result) /\ c.call.result < 0
          /\ Answered(c, n) /\ c.stack[n + 3] = Orig(c.call.tag, "ebp")
      BY <1>2 DEF InNok
    <2>2. d = executed(c, SetErrno)
      BY <1>2, NokText
    <2>3. /\ Stands(d, "nok", 2 + 1, n + 3) /\ Like(d, c, {}, 0)
          /\ d.errno = Num(- c.call.result)
      BY <2>1, <2>2, DoesSetErrno
    <2>4. Common(d) /\ d.call = c.call /\ d.state = c.state
      BY <2>3, StaysCommon
    <2>5. Passed(d, n)
      BY <1>0, <2>1, <2>3, StaysPassed
    <2>6. d.regs.ebp = Sp(n + 3) /\ d.stack[n + 3] = c.stack[n + 3] /\ Has(d, "ebx") /\ d.regs.eax = c.regs.eax
      BY <1>0, <1>r, <2>1, <2>3, <2>4 DEF Like, Has
    <2>7. InNok(d, n, 3)
      BY <2>1, <2>3, <2>4, <2>5, <2>6 DEF InNok, Has, Answered
    <2>8. i + 1 = 3
      BY <1>2
    <2> QED  BY <2>4, <2>7, <2>8
  <1>3. CASE i = 3
    <2>1. /\ Stands(c, "nok", 3, n + 3) /\ Passed(c, n) /\ c.regs.ebp = Sp(n + 3)
          /\ Has(c, "ebx") /\ c.call.result < 0 /\ c.errno = Num(- c.call.result)
          /\ Answered(c, n) /\ c.stack[n + 3] = Orig(c.call.tag, "ebp")
      BY <1>3 DEF InNok
    <2>2. d = executed(c, Set(-1, "eax"))
      BY <1>3, NokText
    <2>3. /\ Stands(d, "nok", 3 + 1, n + 3) /\ Like(d, c, {"eax"}, 0)
          /\ d.regs.eax = Num(-1) /\ d.errno = c.errno
      BY <1>r, <2>1, <2>2, DoesSet
    <2>4. Common(d) /\ d.call = c.call /\ d.state = c.state
      BY <2>3, StaysCommon
    <2>5. Passed(d, n)
      BY <1>0, <2>1, <2>3, StaysPassed
    <2>6. d.regs.ebp = Sp(n + 3) /\ d.stack[n + 3] = c.stack[n + 3] /\ Has(d, "ebx")
      BY <1>0, <1>r, <2>1, <2>3, <2>4 DEF Like, Has
    <2>7. InNok(d, n, 4)
      BY <2>1, <2>3, <2>4, <2>5, <2>6 DEF InNok, Has, Answered
    <2>8. i + 1 = 4
      BY <1>3
    <2> QED  BY <2>4, <2>7, <2>8
  <1>4. CASE i = 4
    <2>1. /\ Stands(c, "nok", 4, n + 3) /\ Passed(c, n) /\ c.regs.ebp = Sp(n + 3)
          /\ Has(c, "ebx") /\ c.call.result < 0 /\ c.errno = Num(- c.call.result)
          /\ c.regs.eax = Num(-1)
          /\ Answered(c, n) /\ c.stack[n + 3] = Orig(c.call.tag, "ebp")
      BY <1>4 DEF InNok
    <2>2. d = executed(c, Pop("ebp"))
      BY <1>4, NokText
    <2>3. /\ Stands(d, "nok", 4 + 1, n + 3 - 1) /\ Like(d, c, {"ebp"}, 0)
          /\ d.regs["ebp"] = c.stack[n + 3] /\ d.errno = c.errno
      <3>1. "ebp" \in Regs \ {"eip", "esp"} /\ n + 3 > 0
        BY <1>r
      <3> QED  BY <2>1, <2>2, <3>1, DoesPop
    <2>4. Common(d) /\ d.call = c.call /\ d.state = c.state
      BY <2>3, StaysCommon
    <2>5. Passed(d, n)
      BY <1>0, <2>1, <2>3, StaysPassed
    <2>6. Has(d, "ebp") /\ Has(d, "ebx") /\ d.regs.eax = c.regs.eax
      BY <1>0, <1>r, <2>1, <2>3, <2>4 DEF Like, Has
    <2>7. InNok(d, n, 5)
      BY <2>1, <2>3, <2>4, <2>5, <2>6 DEF InNok, Has, Answered
    <2>8. i + 1 = 5
      BY <1>4
    <2> QED  BY <2>4, <2>7, <2>8
  <1>5. CASE i = 5
    <2>1. /\ Stands(c, "nok", 5, n + 2) /\ Passed(c, n) /\ Has(c, "ebp")
          /\ Has(c, "ebx") /\ c.call.result < 0 /\ c.errno = Num(- c.call.result)
          /\ c.regs.eax = Num(-1) /\ Answered(c, n)
      BY <1>5 DEF InNok
    <2>2. d = executed(c, Ret)
      BY <1>5, NokText
    <2>3. Stands(d, "caller", 0, n + 2 - 1) /\ Like(d, c, {}, 0) /\ d.errno = c.errno
      <3>1. c.stack[n + 2] = At("caller", 0)
        BY <2>1 DEF Passed, Caller
      <3> QED  BY <2>1, <2>2, <3>1, DoesRet
    <2>4. Common(d) /\ d.call = c.call /\ d.state = c.state
      BY <2>3, StaysCommon
    <2>6. Has(d, "ebp") /\ Has(d, "ebx") /\ d.regs.eax = c.regs.eax
      BY <1>0, <1>r, <2>1, <2>3, <2>4 DEF Like, Has
    <2>7. InProgram(d, n, -1)
      <3>1. - c.call.result = -1 * c.call.result
        BY <1>0
      <3> QED  BY <2>1, <2>3, <2>4, <2>6, <3>1 DEF InProgram, Answered
    <2> QED  BY <2>3, <2>4, <2>7
  <1> QED  BY <1>0, <1>1, <1>2, <1>3, <1>4, <1>5

\* What an instruction of syscall_sysenter does: it writes above the b words
\* its caller left, and to few registers; the last one returns.
SysenterDoes(c, i, b, fp, u, j, d) ==
    /\ d.errno = c.errno
    /\ i <= 5 => /\ InSysenter(d, i + 1, b, fp)
                 /\ \E k : (k = 0 \/ k > b) /\ Like(d, c, {"ebp"}, k)
    /\ i \in 7 .. 10 => InSysenter(d, i + 1, b, fp) /\ Like(d, c, {"ecx", "edx", "ebp"}, 0)
    /\ i = 11 => Stands(d, u, j, b - 1) /\ Like(d, c, {}, 0) /\ c.regs.ebp = fp

\* and those of syscall_sysenter, on behalf of whoever called it.
LEMMA SysenterSteps ==
    ASSUME OnProject, NEW c, NEW i, NEW b \in 2 .. 8, NEW fp, InSysenter(c, i, b, fp), i # 6,
           NEW d, d = executed(c, P!syscall_sysenter[i]), NEW u, NEW j, c.stack[b] = At(u, j)
    PROVE  SysenterDoes(c, i, b, fp, u, j, d)
  <1>0. Depth >= 12 /\ Depth \in Nat /\ i \in 1 .. 11
    BY OnIt, EntryAssumption DEF InSysenter
  <1>r. "ebp" \in Regs \ {"eip", "esp"} /\ "ecx" \in Regs \ {"eip", "esp"} /\ "edx" \in Regs \ {"eip", "esp"}
    BY DEF Regs
  <1>1. CASE i = 1
    <2>1. Stands(c, "syscall_sysenter", 1, b) /\ c.regs.ebp = fp
      BY <1>1 DEF InSysenter
    <2>2. d = executed(c, Push("ecx")) /\ b < Depth
      BY <1>0, <1>1, SysenterText
    <2>3. Stands(d, "syscall_sysenter", 1 + 1, b + 1) /\ Like(d, c, {}, b + 1) /\ d.errno = c.errno
      BY <2>1, <2>2, DoesPush
    <2>4. d.regs.ebp = fp
      BY <1>r, <2>1, <2>3 DEF Like
    <2>5. InSysenter(d, 2, b, fp)
      BY <2>3, <2>4 DEF InSysenter
    <2>6. b + 1 > b /\ Like(d, c, {"ebp"}, b + 1)
      BY <2>3 DEF Like
    <2> QED  BY <1>1, <2>3, <2>5, <2>6 DEF SysenterDoes
  <1>2. CASE i = 2
    <2>1. Stands(c, "syscall_sysenter", 2, b + 1) /\ c.regs.ebp = fp
      BY <1>2 DEF InSysenter
    <2>2. d = executed(c, Push("edx")) /\ b + 1 < Depth
      BY <1>0, <1>2, SysenterText
    <2>3. Stands(d, "syscall_sysenter", 2 + 1, b + 1 + 1) /\ Like(d, c, {}, b + 1 + 1) /\ d.errno = c.errno
      BY <2>1, <2>2, DoesPush
    <2>4. d.regs.ebp = fp
      BY <1>r, <2>1, <2>3 DEF Like
    <2>5. InSysenter(d, 3, b, fp)
      BY <2>3, <2>4 DEF InSysenter
    <2>6. b + 1 + 1 > b /\ Like(d, c, {"ebp"}, b + 1 + 1)
      BY <2>3 DEF Like
    <2> QED  BY <1>2, <2>3, <2>5, <2>6 DEF SysenterDoes
  <1>3. CASE i = 3
    <2>1. Stands(c, "syscall_sysenter", 3, b + 2) /\ c.regs.ebp = fp
      BY <1>3 DEF InSysenter
    <2>2. d = executed(c, PushNext(4)) /\ b + 2 < Depth
      BY <1>0, <1>3, SysenterText
    <2>3. /\ Stands(d, "syscall_sysenter", 3 + 1, b + 2 + 1) /\ Like(d, c, {}, b + 2 + 1) /\ d.errno = c.errno
          /\ d.stack[b + 2 + 1] = At("syscall_sysenter", 3 + 4)
      BY <2>1, <2>2, DoesPushNext
    <2>4. d.regs.ebp = fp
      BY <1>r, <2>1, <2>3 DEF Like
    <2>5. InSysenter(d, 4, b, fp)
      BY <2>3, <2>4 DEF InSysenter
    <2>6. b + 2 + 1 > b /\ Like(d, c, {"ebp"}, b + 2 + 1)
      BY <2>3 DEF Like
    <2> QED  BY <1>3, <2>3, <2>5, <2>6 DEF SysenterDoes
  <1>4. CASE i = 4
    <2>1. /\ Stands(c, "syscall_sysenter", 4, b + 3) /\ c.regs.ebp = fp
          /\ c.stack[b + 3] = At("syscall_sysenter", 7)
      BY <1>4 DEF InSysenter
    <2>2. d = executed(c, Push("ebp")) /\ b + 3 < Depth
      BY <1>0, <1>4, SysenterText
    <2>3. /\ Stands(d, "syscall_sysenter", 4 + 1, b + 3 + 1) /\ Like(d, c, {}, b + 3 + 1) /\ d.errno = c.errno
          /\ d.stack[b + 3 + 1] = c.regs["ebp"]
      BY <2>1, <2>2, DoesPush
    <2>4. d.regs.ebp = fp /\ d.stack[b + 3] = At("syscall_sysenter", 7)
      BY <1>0, <1>r, <2>1, <2>3 DEF Like
    <2>5. InSysenter(d, 5, b, fp)
      BY <2>1, <2>3, <2>4 DEF InSysenter
    <2>6. b + 3 + 1 > b /\ Like(d, c, {"ebp"}, b + 3 + 1)
      BY <2>3 DEF Like
    <2> QED  BY <1>4, <2>3, <2>5, <2>6 DEF SysenterDoes
  <1>5. CASE i = 5
    <2>1. /\ Stands(c, "syscall_sysenter", 5, b + 4) /\ c.stack[b + 4] = fp
          /\ c.stack[b + 3] = At("syscall_sysenter", 7)
      BY <1>5 DEF InSysenter
    <2>2. d = executed(c, Mov("esp", "ebp"))
      BY <1>5, SysenterText
    <2>3. /\ Stands(d, "syscall_sysenter", 5 + 1, b + 4) /\ Like(d, c, {"ebp"}, 0) /\ d.errno = c.errno
          /\ d.regs["ebp"] = c.regs["esp"]
      BY <1>r, <2>1, <2>2, DoesMov
    <2>4. d.regs.ebp = Sp(b + 4) /\ d.stack[b + 3] = c.stack[b + 3] /\ d.stack[b + 4] = c.stack[b + 4]
      BY <1>0, <1>r, <2>1, <2>3 DEF Like, Stands
    <2>5. InSysenter(d, 6, b, fp)
      BY <2>1, <2>3, <2>4 DEF InSysenter
    <2> QED  BY <1>5, <2>3, <2>5 DEF SysenterDoes
  <1>7. CASE i = 7
    <2>1. Stands(c, "syscall_sysenter", 7, b + 4) /\ c.stack[b + 4] = fp
      BY <1>7 DEF InSysenter
    <2>2. d = executed(c, Pop("ebp")) /\ b + 4 > 0
      BY <1>7, SysenterText
    <2>3. /\ Stands(d, "syscall_sysenter", 7 + 1, b + 4 - 1) /\ Like(d, c, {"ebp"}, 0) /\ d.errno = c.errno
          /\ d.regs["ebp"] = c.stack[b + 4]
      BY <1>r, <2>1, <2>2, DoesPop
    <2>5. InSysenter(d, 8, b, fp)
      BY <2>1, <2>3 DEF InSysenter
    <2>6. Like(d, c, {"ecx", "edx", "ebp"}, 0)
      BY <2>3 DEF Like
    <2> QED  BY <1>7, <2>3, <2>5, <2>6 DEF SysenterDoes
  <1>8. CASE i \in {8, 9, 10}
    <2>0. PICK t : t = b + 11 - i /\ t > 0 /\ t \in Nat /\ t - 1 = b + 11 - (i + 1)
      BY <1>8
    <2>1. Stands(c, "syscall_sysenter", i, t) /\ c.regs.ebp = fp
      BY <1>8, <2>0 DEF InSysenter
    <2>2. d = executed(c, Pop("edx")) \/ d = executed(c, Pop("ecx"))
      BY <1>8, SysenterText
    <2>3. /\ Stands(d, "syscall_sysenter", i + 1, t - 1) /\ d.errno = c.errno
          /\ Like(d, c, {"edx"}, 0) \/ Like(d, c, {"ecx"}, 0)
      <3>1. CASE d = executed(c, Pop("edx"))
        BY <1>r, <2>0, <2>1, <3>1, DoesPop
      <3>2. CASE d = executed(c, Pop("ecx"))
        BY <1>r, <2>0, <2>1, <3>2, DoesPop
      <3> QED  BY <2>2, <3>1, <3>2
    <2>4. d.regs.ebp = fp
      BY <1>r, <2>1, <2>3 DEF Like
    <2>5. InSysenter(d, i + 1, b, fp)
      BY <1>8, <2>0, <2>1, <2>3, <2>4 DEF InSysenter
    <2>6. Like(d, c, {"ecx", "edx", "ebp"}, 0)
      BY <2>3 DEF Like
    <2> QED  BY <1>8, <2>3, <2>5, <2>6 DEF SysenterDoes
  <1>11. CASE i = 11
    <2>1. Stands(c, "syscall_sysenter", 11, b) /\ c.regs.ebp = fp
      BY <1>11 DEF InSysenter
    <2>2. d = executed(c, Ret) /\ b > 0
      BY <1>11, SysenterText
    <2>3. Stands(d, u, j, b - 1) /\ Like(d, c, {}, 0) /\ d.errno = c.errno
      BY <2>1, <2>2, DoesRet
    <2> QED  BY <1>11, <2>1, <2>3 DEF SysenterDoes
  <1> QED  BY <1>0, <1>1, <1>2, <1>3, <1>4, <1>5, <1>7, <1>8, <1>11

\* sysenter and the call it makes.
LEMMA SysenterAnswered ==
    ASSUME OnProject, NEW c, Common(c), NEW b \in 2 .. 8, NEW fp, InSysenter(c, 6, b, fp),
           NEW res, NEW K \in SUBSET (1 .. 3), NEW d, d = answered(c, res, K)
    PROVE  /\ InSysenter(d, 7, b, fp) /\ Common(d) /\ d.state = c.state
           /\ d.stack = c.stack /\ d.errno = c.errno /\ d.regs.eax = Num(res)
           /\ 1 \notin K => d.regs.ebx = c.regs.ebx
           /\ d.call.name = c.call.name /\ d.call.tag = c.call.tag /\ d.call.result = res
           /\ d.call.handler = dispatched(c.regs.eax[2])
           /\ \A m \in 1 .. 3 : d.call.got[m] = c.regs[Restores[m]]
  <1>0. /\ Stands(c, "syscall_sysenter", 6, b + 4) /\ c.regs.ebp = Sp(b + 4)
        /\ c.stack[b + 3] = At("syscall_sysenter", 7) /\ c.stack[b + 4] = fp
    BY DEF InSysenter
  <1>1. PICK R : R = given_back(c.regs, c.stack[b + 3], res, K)
    OBVIOUS
  <1>2. PICK C : C = [name |-> c.call.name, handler |-> dispatched(c.regs.eax[2]),
                      got |-> passed(c.regs), tag |-> c.call.tag, result |-> res]
    OBVIOUS
  <1>3. d = [regs |-> R, stack |-> c.stack, errno |-> c.errno, call |-> C, state |-> c.state]
    <2>1. c.regs.ebp[2] - 1 = b + 3
      BY <1>0 DEF Sp
    <2>2. C = [c.call EXCEPT !.handler = dispatched(c.regs.eax[2]),
                             !.got = passed(c.regs), !.result = res]
      <3>1. PICK N, H, G, T, S : c.call = [name |-> N, handler |-> H, got |-> G, tag |-> T, result |-> S]
        BY DEF Common
      <3>2. PICK C1 : C1 = [c.call EXCEPT !.handler = dispatched(c.regs.eax[2])]
        OBVIOUS
      <3>3. PICK C2 : C2 = [C1 EXCEPT !.got = passed(c.regs)]
        OBVIOUS
      <3>4. C1 = [name |-> N, handler |-> dispatched(c.regs.eax[2]), got |-> G, tag |-> T, result |-> S]
        BY <3>1, <3>2
      <3>5. C2 = [name |-> N, handler |-> dispatched(c.regs.eax[2]), got |-> passed(c.regs), tag |-> T,
                  result |-> S]
        BY <3>3, <3>4
      <3>6. C = [C2 EXCEPT !.result = res]
        BY <1>2, <3>1, <3>5
      <3> QED  BY <3>2, <3>3, <3>6
    <2>3. d = [c EXCEPT !.regs = R, !.call = C]
      BY <1>1, <2>1, <2>2 DEF answered
    <2> QED  BY <1>0, <2>3 DEF Stands, Context
  <1>4. /\ IsRegs(R) /\ R["eax"] = Num(res) /\ R["esp"] = c.regs.ebp /\ R["eip"] = c.stack[b + 3]
        /\ \A r \in Regs \ {"eax", "esp", "ecx", "eip", "edx"} :
              R[r] = IF \E m \in K : Restores[m] = r THEN Junk ELSE c.regs[r]
    BY <1>1 DEF given_back, IsRegs, Regs
  <1>5. \A m \in K : Restores[m] \in {"ebx", "ecx", "edx"} /\ (Restores[m] = "ebx" => m = 1)
    BY OnIt
  <1>6. /\ \A r \in {"esi", "edi", "ds", "es", "fs", "gs", "ebp"} : R[r] = c.regs[r]
        /\ 1 \notin K => R["ebx"] = c.regs["ebx"]
    BY <1>4, <1>5 DEF Regs
  <1>7. Stands(d, "syscall_sysenter", 7, b + 4)
    BY <1>0, <1>3, <1>4 DEF Stands, Context
  <1>8. InSysenter(d, 7, b, fp)
    BY <1>0, <1>3, <1>6, <1>7 DEF InSysenter
  <1>9. Common(d)
    BY <1>2, <1>3, <1>6 DEF Common
  <1> QED  BY <1>2, <1>3, <1>4, <1>6, <1>8, <1>9 DEF passed

\* The wrappers that can be called, and what they take.
LEMMA ArityOnIt ==
    ASSUME OnProject
    PROVE  /\ \A w \in Callable : /\ w \in P_called /\ Arity[w] \in 0 .. 3 /\ arity_of(w) = Arity[w]
                                  /\ w \notin {"caller", "none", "ni_syscall", "past_the_table", "raw"}
                                  /\ (Arity[w] = 0 => w = "fork" \/ w \in Untested)
           /\ \A h : arity_of(h) \in 0 .. 3
  <1>1. \A h \in DOMAIN Arity : Arity[h] \in 0 .. 3
    BY OnIt DEF P!P_Arity
  <1>2. P_called \subseteq DOMAIN Arity
    BY OnIt DEF P_called, P!P_Arity
  <1>3. \A w \in P_called : /\ w \notin {"caller", "none", "ni_syscall", "past_the_table", "raw"}
                            /\ (P!P_Arity[w] = 0 => w = "fork" \/ w \in Untested)
    BY DEF P_called, P!P_Arity, P!P_Programs, Untested
  <1>4. \A h : arity_of(h) \in 0 .. 3 /\ (h \in DOMAIN Arity => arity_of(h) = Arity[h])
    BY <1>1 DEF arity_of
  <1> QED  BY <1>1, <1>2, <1>3, <1>4, OnIt

IsStack(S) == S = [k \in 1 .. Depth |-> S[k]]

OfProgram(d, p) == \A r \in Regs \ {"eip", "esp"} : d.regs[r] = Orig(p, r)

\* A program that has just called something.
LEMMA Started ==
    ASSUME NEW p, NEW e, NEW t, NEW u, NEW i, NEW S, NEW C, IsStack(S), t \in Nat,
           NEW R, R = [caller_regs(p) EXCEPT !.esp = Sp(t), !.eip = At(u, i)],
           NEW d, d = [regs |-> R, stack |-> S, errno |-> e, call |-> C, state |-> "ok"]
    PROVE  Stands(d, u, i, t) /\ OfProgram(d, p)
  <1>1. IsRegs(R) /\ R["eip"] = At(u, i) /\ R["esp"] = Sp(t)
    BY DEF IsRegs, caller_regs, Regs
  <1>2. \A r \in Regs \ {"eip", "esp"} : R[r] = Orig(p, r)
    BY DEF caller_regs
  <1> QED  BY <1>1, <1>2 DEF Stands, Context, IsStack, OfProgram

\* Its record of the call.
LEMMA Calls ==
    ASSUME NEW w, NEW p
    PROVE  [no_call EXCEPT !.name = w, !.tag = p] =
              [name |-> w, handler |-> "none", got |-> <<>>, tag |-> p, result |-> 0]
  <1>1. PICK C : C = [no_call EXCEPT !.name = w]
    OBVIOUS
  <1>2. PICK G : G = <<>>
    OBVIOUS
  <1>3. no_call = [name |-> "none", handler |-> "none", got |-> G, tag |-> FirstProc, result |-> 0]
    BY <1>2 DEF no_call
  <1>4. C = [name |-> w, handler |-> "none", got |-> G, tag |-> FirstProc, result |-> 0]
    BY <1>1, <1>3
  <1>5. [C EXCEPT !.tag = p] = [name |-> w, handler |-> "none", got |-> G, tag |-> p, result |-> 0]
    BY <1>4
  <1> QED  BY <1>1, <1>2, <1>5

\* A call of a wrapper, or of syscall_sysenter with a number, starts the outline.
LEMMA StartsWrapper ==
    ASSUME OnProject, NEW p, NEW w \in Callable, NEW d, d = at_wrapper(p, w)
    PROVE  ProperP(d)
  <1>1. PICK n \in 0 .. 3 : n = Arity[w]
    BY ArityOnIt
  <1>2. PICK S : S = [i \in 1 .. Depth |-> IF i \in 2 .. n + 1 THEN <<"arg", n + 2 - i>>
                                         ELSE IF i = n + 2 THEN Caller ELSE Junk]
    OBVIOUS
  <1>3. PICK C : C = [name |-> w, handler |-> "none", got |-> <<>>, tag |-> p, result |-> 0]
    OBVIOUS
  <1>4. C = [no_call EXCEPT !.name = w, !.tag = p]
    BY <1>3, Calls
  <1>5. d = [regs |-> [caller_regs(p) EXCEPT !.esp = Sp(n + 2), !.eip = At(w, 1)],
             stack |-> S, errno |-> Num(0), call |-> C, state |-> "ok"]
    BY <1>1, <1>2, <1>4 DEF at_wrapper
  <1>6. Depth >= 12 /\ Depth \in Nat
    BY OnIt, EntryAssumption
  <1>7. S = [k \in 1 .. Depth |-> S[k]] /\ n + 2 \in Nat
    BY <1>2
  <1>8. /\ Stands(d, w, 1, n + 2)
        /\ \A r \in Regs \ {"eip", "esp"} : d.regs[r] = Orig(p, r)
    <2>1. PICK t, e : t = n + 2 /\ e = Num(0)
      OBVIOUS
    <2>R. PICK R : R = [caller_regs(p) EXCEPT !.esp = Sp(t), !.eip = At(w, 1)]
      OBVIOUS
    <2>2. /\ d = [regs |-> R, stack |-> S, errno |-> e, call |-> C, state |-> "ok"]
          /\ IsStack(S) /\ t \in Nat
      BY <1>5, <1>7, <2>1, <2>R DEF IsStack
    <2>3. Stands(d, w, 1, t) /\ OfProgram(d, p)
      BY <2>2, <2>R, Started
    <2> QED  BY <2>1, <2>3 DEF OfProgram
  <1>9. d.stack = S /\ d.call = C /\ d.state = "ok" /\ d.call.tag = p /\ d.call.name = w
    BY <1>3, <1>5
  <1>10. Passed(d, n)
    <2>1. S[n + 2] = Caller
      BY <1>2, <1>6
    <2>2. ASSUME NEW k \in 1 .. n PROVE S[n + 2 - k] = <<"arg", k>>
      <3>1. n + 2 - k \in 1 .. Depth /\ n + 2 - k \in 2 .. n + 1 /\ n + 2 - (n + 2 - k) = k
        BY <1>6
      <3> QED  BY <1>2, <3>1
    <2> QED  BY <1>9, <2>1, <2>2 DEF Passed
  <1>11. Common(d) /\ Has(d, "ebp") /\ Has(d, "ebx") /\ Asks(d)
    BY <1>3, <1>8, <1>9 DEF Common, Has, Asks, Regs
  <1>12. CASE n = 0
    <2>1. InPlainP(d, w, 1)
      <3>1. last(w) \in {6, 7}
        BY DEF last
      <3> QED  BY <1>8, <1>10, <1>11, <1>12, <3>1 DEF InPlainP
    <2>2. Arity[w] = 0 /\ InPlainP(d, w, 1) /\ 1 \in 1 .. 7
      BY <1>1, <1>12, <2>1
    <2> QED  BY <1>9, <1>11, <2>2 DEF ProperP
  <1>13. CASE n \in 1 .. 3
    <2>1. InWrapperP(d, w, n, 1)
      BY <1>8, <1>10, <1>11, <1>13 DEF InWrapperP
    <2> QED  BY <1>1, <1>9, <1>11, <1>13, <2>1 DEF ProperP
  <1> QED  BY <1>12, <1>13

LEMMA StartsRaw ==
    ASSUME OnProject, NEW p, NEW m, NEW d, d = at_raw(p, m)
    PROVE  ProperP(d)
  <1>2. PICK S : S = [i \in 1 .. Depth |-> IF i = 2 THEN Caller ELSE Junk]
    OBVIOUS
  <1>3. PICK C : C = [name |-> "raw", handler |-> "none", got |-> <<>>, tag |-> p, result |-> 0]
    OBVIOUS
  <1>4. C = [no_call EXCEPT !.name = "raw", !.tag = p]
    BY <1>3, Calls
  <1>5. PICK R : R = [caller_regs(p) EXCEPT !.esp = Sp(2), !.eip = At("syscall_sysenter", 1), !.eax = Num(m)]
    OBVIOUS
  <1>6. d = [regs |-> R, stack |-> S, errno |-> Num(0), call |-> C, state |-> "ok"]
    BY <1>2, <1>4, <1>5 DEF at_raw
  <1>7. Depth >= 12 /\ Depth \in Nat
    BY OnIt, EntryAssumption
  <1>8. /\ IsRegs(R) /\ R["eip"] = At("syscall_sysenter", 1) /\ R["esp"] = Sp(2)
        /\ \A r \in Regs \ {"eip", "esp", "eax"} : R[r] = Orig(p, r)
    BY <1>5 DEF IsRegs, caller_regs, Regs
  <1>9. Stands(d, "syscall_sysenter", 1, 2)
    BY <1>2, <1>6, <1>8 DEF Stands, Context
  <1>10. d.stack[2] = Caller
    BY <1>2, <1>6, <1>7
  <1>11. /\ d.state = "ok" /\ Common(d) /\ d.call.name = "raw"
         /\ d.regs.ebp = Orig(d.call.tag, "ebp")
    BY <1>3, <1>6, <1>8 DEF Common, Regs
  <1>12. InRawCall(d, 1)
    BY <1>9, <1>10, <1>11 DEF InRawCall, InSysenter
  <1> QED  BY <1>11, <1>12 DEF ProperP

\* A wrapper that has called syscall_sysenter.
LEMMA CallSteps ==
    ASSUME OnProject, NEW c, Common(c), NEW w \in Callable, c.call.name = w,
           NEW n \in 0 .. 3, n = Arity[w], NEW i, InCallP(c, w, n, i), i # 6,
           NEW d, d = executed(c, P!syscall_sysenter[i])
    PROVE  /\ Common(d) /\ d.call = c.call /\ d.state = c.state
           /\ \/ InCallP(d, w, n, i + 1)
              \/ n = 0 /\ InPlainP(d, w, 5)
              \/ n \in 1 .. 3 /\ InWrapperP(d, w, n, 6 + n)
  <1>0. /\ Depth >= 12 /\ Depth \in Nat /\ i \in 1 .. 11
        /\ words(n) \in n + 4 .. 8 /\ words(n) \in 2 .. 8 /\ (n > 0 => words(n) = n + 5)
        /\ (n = 0 => words(n) = 4)
    BY OnIt, EntryAssumption DEF InCallP, InSysenter, words
  <1>r. {"eax", "ebx", "ecx", "edx", "ebp"} \subseteq Regs \ {"eip", "esp"}
    BY DEF Regs
  <1>1. /\ InSysenter(c, i, words(n), Sp(n + 3))
        /\ Passed(c, n) /\ c.stack[n + 3] = Orig(c.call.tag, "ebp")
        /\ IF n = 0 THEN Has(c, "ebx") ELSE c.stack[n + 4] = Orig(c.call.tag, "ebx")
        /\ c.stack[words(n)] = At(w, after(n))
        /\ IF i <= 6 THEN Asks(c) /\ c.regs.eax = Num(nr[w]) /\ Loaded(c, n)
           ELSE Answered(c, n) /\ c.regs.eax = Num(c.call.result)
    BY DEF InCallP
  <1>2. /\ i <= 5 => InSysenter(d, i + 1, words(n), Sp(n + 3))
                     /\ \E k : (k = 0 \/ k > words(n)) /\ Like(d, c, {"ebp"}, k)
        /\ i \in 7 .. 10 => /\ InSysenter(d, i + 1, words(n), Sp(n + 3))
                            /\ Like(d, c, {"ecx", "edx", "ebp"}, 0)
        /\ i = 11 => /\ Stands(d, w, after(n), words(n) - 1) /\ Like(d, c, {}, 0)
                     /\ c.regs.ebp = Sp(n + 3)
    <2>1. PICK b, fp, j : b \in 2 .. 8 /\ b = words(n) /\ fp = Sp(n + 3) /\ j = after(n)
      BY <1>0
    <2>2. InSysenter(c, i, b, fp) /\ c.stack[b] = At(w, j)
      BY <1>1, <2>1
    <2>3. SysenterDoes(c, i, b, fp, w, j, d)
      BY <2>1, <2>2, SysenterSteps
    <2> QED  BY <2>1, <2>3 DEF SysenterDoes
  <1>3. CASE i <= 5
    <2>1. PICK k : (k = 0 \/ k > words(n)) /\ Like(d, c, {"ebp"}, k)
      BY <1>2, <1>3
    <2>2. Common(d) /\ d.call = c.call /\ d.state = c.state
      BY <2>1, StaysCommon
    <2>3. \A m \in 1 .. words(n) : d.stack[m] = c.stack[m]
      BY <1>0, <2>1 DEF Like
    <2>4. Passed(d, n)
      BY <1>0, <1>1, <2>3 DEF Passed
    <2>5. /\ d.stack[n + 3] = c.stack[n + 3] /\ d.stack[n + 4] = c.stack[n + 4]
          /\ d.stack[words(n)] = c.stack[words(n)]
      BY <1>0, <2>3
    <2>6. d.regs.eax = c.regs.eax /\ d.regs.ebx = c.regs.ebx
      BY <1>r, <2>1 DEF Like
    <2>7. Loaded(d, n)
      <3>1. \A j \in 1 .. n : Restores[j] \in {"ebx", "ecx", "edx"}
        BY OnIt
      <3> QED  BY <1>0, <1>3, <1>r, <1>1, <2>1, <3>1 DEF Loaded, Like
    <2>8. InCallP(d, w, n, i + 1)
      BY <1>0, <1>1, <1>2, <1>3, <2>2, <2>4, <2>5, <2>6, <2>7 DEF InCallP, Has, Asks
    <2> QED  BY <2>2, <2>8
  <1>4. CASE i \in 7 .. 10
    <2>1. Like(d, c, {"ecx", "edx", "ebp"}, 0)
      BY <1>2, <1>4
    <2>2. Common(d) /\ d.call = c.call /\ d.state = c.state
      BY <2>1, StaysCommon
    <2>3. \A m \in 1 .. words(n) : d.stack[m] = c.stack[m]
      BY <1>0, <2>1 DEF Like
    <2>4. Passed(d, n)
      BY <1>0, <1>1, <2>3 DEF Passed
    <2>5. /\ d.stack[n + 3] = c.stack[n + 3] /\ d.stack[n + 4] = c.stack[n + 4]
          /\ d.stack[words(n)] = c.stack[words(n)]
      BY <1>0, <2>3
    <2>6. d.regs.eax = c.regs.eax /\ d.regs.ebx = c.regs.ebx
      BY <1>r, <2>1 DEF Like
    <2>7. Answered(d, n)
      BY <1>1, <1>4, <2>2 DEF Answered
    <2>8. InCallP(d, w, n, i + 1)
      BY <1>0, <1>1, <1>2, <1>4, <2>2, <2>4, <2>5, <2>6, <2>7 DEF InCallP, Has
    <2> QED  BY <2>2, <2>8
  <1>5. CASE i = 11
    <2>1. /\ Stands(d, w, after(n), words(n) - 1) /\ Like(d, c, {}, 0)
          /\ c.regs.ebp = Sp(n + 3)
      BY <1>2, <1>5
    <2>2. Common(d) /\ d.call = c.call /\ d.state = c.state
      BY <2>1, StaysCommon
    <2>3. \A m \in 1 .. words(n) : d.stack[m] = c.stack[m]
      BY <1>0, <2>1 DEF Like
    <2>4. Passed(d, n)
      BY <1>0, <1>1, <2>3 DEF Passed
    <2>5. d.stack[n + 3] = c.stack[n + 3] /\ d.stack[n + 4] = c.stack[n + 4]
      BY <1>0, <2>3
    <2>6. d.regs.eax = c.regs.eax /\ d.regs.ebx = c.regs.ebx /\ d.regs.ebp = Sp(n + 3)
      BY <1>r, <2>1 DEF Like
    <2>7. Answered(d, n) /\ d.regs.eax = Num(d.call.result)
      BY <1>1, <1>5, <2>2, <2>6 DEF Answered
    <2>8. CASE n = 0
      <3>1. InPlainP(d, w, 5)
        <4>1. last(w) \in {6, 7} /\ after(n) = 5 /\ words(n) - 1 = 3
          BY <1>0, <2>8 DEF last, after
        <4> QED  BY <1>1, <2>1, <2>2, <2>4, <2>5, <2>6, <2>7, <2>8, <4>1 DEF InPlainP, Has
      <3> QED  BY <2>2, <2>8, <3>1
    <2>9. CASE n \in 1 .. 3
      <3>1. InWrapperP(d, w, n, 6 + n)
        <4>1. after(n) = 6 + n /\ words(n) - 1 = n + 4
          BY <1>0, <2>9 DEF after
        <4>2. Stands(d, w, 6 + n, n + (IF 6 + n \in {1, 9 + n} THEN 2
                                       ELSE IF 6 + n \in {2, 3, 7 + n, 8 + n} THEN 3 ELSE 4))
          BY <2>1, <2>9, <4>1
        <4> QED  BY <1>1, <2>2, <2>4, <2>5, <2>6, <2>7, <2>9, <4>2 DEF InWrapperP, Has
      <3> QED  BY <2>2, <2>9, <3>1
    <2> QED  BY <2>8, <2>9
  <1> QED  BY <1>0, <1>3, <1>4, <1>5

\* The kernel answers a wrapper, with any result its handler can return.
LEMMA WrapperAnswered ==
    ASSUME OnProject, NEW c, Common(c), NEW w \in Callable, c.call.name = w,
           NEW n \in 0 .. 3, n = Arity[w], InCallP(c, w, n, 6),
           NEW res \in Int, w \in Untested => res >= 0,
           NEW K \in SUBSET (1 .. n), NEW d, d = answered(c, res, K)
    PROVE  Common(d) /\ d.call.name = w /\ d.state = c.state /\ InCallP(d, w, n, 7)
  <1>0. words(n) \in 2 .. 8 /\ K \in SUBSET (1 .. 3)
    BY DEF words
  <1>1. /\ InSysenter(c, 6, words(n), Sp(n + 3))
        /\ Passed(c, n) /\ c.stack[n + 3] = Orig(c.call.tag, "ebp")
        /\ IF n = 0 THEN Has(c, "ebx") ELSE c.stack[n + 4] = Orig(c.call.tag, "ebx")
        /\ c.stack[words(n)] = At(w, after(n))
        /\ Asks(c) /\ c.regs.eax = Num(nr[w]) /\ Loaded(c, n)
    BY DEF InCallP
  <1>2. /\ InSysenter(d, 7, words(n), Sp(n + 3)) /\ Common(d) /\ d.state = c.state
        /\ d.stack = c.stack /\ d.errno = c.errno /\ d.regs.eax = Num(res)
        /\ 1 \notin K => d.regs.ebx = c.regs.ebx
        /\ d.call.name = c.call.name /\ d.call.tag = c.call.tag /\ d.call.result = res
        /\ d.call.handler = dispatched(c.regs.eax[2])
        /\ \A m \in 1 .. 3 : d.call.got[m] = c.regs[Restores[m]]
    BY <1>0, <1>1, SysenterAnswered
  <1>3. c.regs.eax[2] = nr[w]
    BY <1>1 DEF Num
  <1>4. d.call.handler = w
    BY <1>2, <1>3, Dispatched, ArityOnIt
  <1>5. \A k \in 1 .. n : d.call.got[k] = <<"arg", k>>
    BY <1>1, <1>2 DEF Loaded
  <1>7. Answered(d, n)
    BY <1>2, <1>4, <1>5 DEF Answered
  <1>8. Passed(d, n) /\ (n = 0 => Has(d, "ebx"))
    BY <1>1, <1>2 DEF Passed, Has
  <1>9. InCallP(d, w, n, 7)
    BY <1>1, <1>2, <1>7, <1>8 DEF InCallP
  <1> QED  BY <1>2, <1>9

\* A program that passes a number itself.
LEMMA RawSteps ==
    ASSUME OnProject, NEW c, Common(c), NEW i, InRawCall(c, i), i # 6, c.state = "ok",
           NEW d, d = executed(c, P!syscall_sysenter[i])
    PROVE  ProperP(d)
  <1>0. i \in 1 .. 11 /\ 2 \in 2 .. 8 /\ Depth >= 12 /\ Depth \in Nat
    BY OnIt, EntryAssumption DEF InRawCall, InSysenter
  <1>1. /\ c.call.name = "raw" /\ InSysenter(c, i, 2, Orig(c.call.tag, "ebp"))
        /\ c.stack[2] = At("caller", 0)
    BY DEF InRawCall, Caller
  <1>2. /\ i <= 5 => InSysenter(d, i + 1, 2, Orig(c.call.tag, "ebp"))
                     /\ \E k : (k = 0 \/ k > 2) /\ Like(d, c, {"ebp"}, k)
        /\ i \in 7 .. 10 => /\ InSysenter(d, i + 1, 2, Orig(c.call.tag, "ebp"))
                            /\ Like(d, c, {"ecx", "edx", "ebp"}, 0)
        /\ i = 11 => Stands(d, "caller", 0, 2 - 1) /\ Like(d, c, {}, 0)
    <2>1. SysenterDoes(c, i, 2, Orig(c.call.tag, "ebp"), "caller", 0, d)
      BY <1>0, <1>1, SysenterSteps
    <2> QED  BY <2>1 DEF SysenterDoes
  <1>3. CASE i = 11
    <2>1. Common(d) /\ d.call = c.call /\ d.state = c.state
      BY <1>2, <1>3, StaysCommon
    <2>2. AtProgramP(d)
      BY <1>1, <1>2, <1>3, <2>1 DEF AtProgramP
    <2> QED  BY <2>1, <2>2 DEF ProperP
  <1>4. CASE i # 11
    <2>1. PICK R, k :
             R \in SUBSET {"eax", "ebx", "ecx", "edx", "ebp"} /\ (k = 0 \/ k > 2) /\ Like(d, c, R, k)
      <3>1. CASE i <= 5
        <4>1. {"ebp"} \in SUBSET {"eax", "ebx", "ecx", "edx", "ebp"}
          OBVIOUS
        <4> QED  BY <1>2, <3>1, <4>1
      <3>2. CASE i \in 7 .. 10
        <4>1. {"ecx", "edx", "ebp"} \in SUBSET {"eax", "ebx", "ecx", "edx", "ebp"}
          OBVIOUS
        <4> QED  BY <1>2, <3>2, <4>1
      <3> QED  BY <1>0, <1>4, <3>1, <3>2
    <2>2. Common(d) /\ d.call = c.call /\ d.state = c.state
      BY <2>1, StaysCommon
    <2>3. d.stack[2] = Caller
      BY <1>0, <1>1, <2>1 DEF Like, Caller
    <2>4. i + 1 \in 1 .. 11 /\ (i <= 5 \/ i \in 7 .. 10)
      BY <1>0, <1>4
    <2>5. InSysenter(d, i + 1, 2, Orig(d.call.tag, "ebp"))
      BY <1>2, <2>2, <2>4
    <2>6. InRawCall(d, i + 1)
      BY <1>1, <2>2, <2>3, <2>5 DEF InRawCall
    <2> QED  BY <2>2, <2>4, <2>6 DEF ProperP
  <1> QED  BY <1>3, <1>4

LEMMA RawAnswered ==
    ASSUME OnProject, NEW c, Common(c), InRawCall(c, 6), c.state = "ok",
           NEW res, NEW h, NEW K \in SUBSET (1 .. arity_of(h)), NEW d, d = answered(c, res, K)
    PROVE  ProperP(d)
  <1>0. K \in SUBSET (1 .. 3) /\ 2 \in 2 .. 8
    BY ArityOnIt
  <1>1. InSysenter(c, 6, 2, Orig(c.call.tag, "ebp")) /\ c.stack[2] = Caller /\ c.call.name = "raw"
    BY DEF InRawCall
  <1>2. /\ InSysenter(d, 7, 2, Orig(c.call.tag, "ebp")) /\ Common(d) /\ d.state = c.state
        /\ d.stack = c.stack /\ d.call.name = c.call.name /\ d.call.tag = c.call.tag
    BY <1>0, <1>1, SysenterAnswered
  <1>3. InRawCall(d, 7)
    BY <1>1, <1>2 DEF InRawCall
  <1> QED  BY <1>2, <1>3 DEF ProperP

\* The text at each place of the outline; only the sixth instruction of
\* syscall_sysenter is sysenter.
LEMMA NoSysenter ==
    ASSUME OnProject
    PROVE  /\ \A w \in Callable, n \in 1 .. 3, i \in Nat : n = Arity[w] /\ i \in 1 .. 9 + n =>
                 Programs[w][i] = P!wrapper(nr[w], n)[i] /\ Programs[w][i][1] # "sysenter"
           /\ \A w \in Callable, i \in Nat : Arity[w] = 0 /\ i \in 1 .. last(w) =>
                 Programs[w][i] = plain_text(w)[i] /\ Programs[w][i][1] # "sysenter"
           /\ \A i \in 1 .. 5 : /\ Programs["nok"][i] = P!nok[i]
                                /\ Programs["nok"][i][1] # "sysenter"
           /\ \A i \in 1 .. 11 : /\ Programs["syscall_sysenter"][i] = P!syscall_sysenter[i]
                                 /\ i # 6 => Programs["syscall_sysenter"][i][1] # "sysenter"
           /\ Programs["syscall_sysenter"][6][1] = "sysenter"
  <1>1. ASSUME NEW w \in Callable, NEW n \in 1 .. 3, NEW i \in Nat, n = Arity[w], i \in 1 .. 9 + n
        PROVE  Programs[w][i] = P!wrapper(nr[w], n)[i] /\ Programs[w][i][1] # "sysenter"
    <2>1. w \in P_called /\ P!P_Arity[w] = n /\ n > 0
      BY <1>1, OnIt, ArityOnIt
    <2>2. Programs[w] = P!wrapper(nr[w], n)
      BY <2>1, Texts, OnIt
    <2>3. PICK s : s = P!wrapper(nr[w], n)
      OBVIOUS
    <2>4. /\ s[1] = Push("ebp") /\ s[2] = Mov("esp", "ebp") /\ s[3] = Push("ebx")
          /\ s[4] = Set(nr[w], "eax")
          /\ \A k \in 1 .. n : s[4 + k] = Arg(k, <<"ebx", "ecx", "edx">>[k])
          /\ s[5 + n] = Call("syscall_sysenter") /\ s[6 + n] = Pop("ebx") /\ s[7 + n] = Js("nok")
          /\ s[8 + n] = Pop("ebp") /\ s[9 + n] = Ret
      BY <2>3, WrapperText
    <2>5. /\ \A r, q : Push(r)[1] # "sysenter" /\ Mov(r, q)[1] # "sysenter" /\ Set(r, q)[1] # "sysenter"
                       /\ Arg(r, q)[1] # "sysenter" /\ Call(r)[1] # "sysenter" /\ Pop(r)[1] # "sysenter"
                       /\ Js(r)[1] # "sysenter"
          /\ Ret[1] # "sysenter"
      BY DEF Push, Mov, Set, Arg, Call, Pop, Js, Ret
    <2>6. \/ i = 1 \/ i = 2 \/ i = 3 \/ i = 4 \/ i = 5 + n \/ i = 6 + n \/ i = 7 + n \/ i = 8 + n
          \/ i = 9 + n \/ (\E k \in 1 .. n : i = 4 + k)
      <3>1. CASE i \in 5 .. 4 + n
        <4>1. i - 4 \in 1 .. n /\ i = 4 + (i - 4)
          BY <3>1
        <4> QED  BY <4>1
      <3>2. CASE i \notin 5 .. 4 + n
        BY <1>1, <3>2
      <3> QED  BY <3>1, <3>2
    <2>7. s[i][1] # "sysenter"
      <3>1. ASSUME NEW k \in 1 .. n, i = 4 + k PROVE s[i][1] # "sysenter"
        <4>1. PICK r : s[i] = Arg(k, r)
          BY <2>4, <3>1
        <4> QED  BY <4>1 DEF Arg
      <3>2. ASSUME ~ \E k \in 1 .. n : i = 4 + k PROVE s[i][1] # "sysenter"
        <4>1. /\ s[1][1] # "sysenter" /\ s[2][1] # "sysenter" /\ s[3][1] # "sysenter"
              /\ s[4][1] # "sysenter" /\ s[5 + n][1] # "sysenter" /\ s[6 + n][1] # "sysenter"
              /\ s[7 + n][1] # "sysenter" /\ s[8 + n][1] # "sysenter" /\ s[9 + n][1] # "sysenter"
          BY <2>4 DEF Push, Mov, Set, Call, Pop, Js, Ret
        <4> QED  BY <2>6, <3>2, <4>1
      <3> QED  BY <3>1, <3>2
    <2> QED  BY <2>2, <2>3, <2>7
  <1>2. ASSUME NEW w \in Callable, NEW i \in Nat, Arity[w] = 0, i \in 1 .. last(w)
        PROVE  Programs[w][i] = plain_text(w)[i] /\ Programs[w][i][1] # "sysenter"
    <2>1. w \in P_called /\ P!P_Arity[w] = 0
      BY <1>2, OnIt, ArityOnIt
    <2>2. Programs[w] = plain_text(w)
      <3>1. ~ (P!P_Arity[w] > 0)
        BY <2>1
      <3> QED  BY <2>1, <3>1, Texts, OnIt DEF plain_text
    <2>3. PICK s : s = plain_text(w)
      OBVIOUS
    <2>4. /\ s[1] = Push("ebp") /\ s[2] = Mov("esp", "ebp") /\ s[3] = Set(nr[w], "eax")
          /\ s[4] = Call("syscall_sysenter")
          /\ w = "fork" => s[5] = Js("nok") /\ s[6] = Pop("ebp") /\ s[7] = Ret
          /\ w # "fork" => s[5] = Pop("ebp") /\ s[6] = Ret
      BY <2>3, PlainText DEF plain_text
    <2>5. /\ \A r, q : Push(r)[1] # "sysenter" /\ Mov(r, q)[1] # "sysenter" /\ Set(r, q)[1] # "sysenter"
                       /\ Call(r)[1] # "sysenter" /\ Pop(r)[1] # "sysenter" /\ Js(r)[1] # "sysenter"
          /\ Ret[1] # "sysenter"
      BY DEF Push, Mov, Set, Call, Pop, Js, Ret
    <2>6. i \in 1 .. 7 /\ (i = 7 => w = "fork")
      BY <1>2 DEF last
    <2>7. s[i][1] # "sysenter"
      BY <2>4, <2>5, <2>6
    <2> QED  BY <2>2, <2>3, <2>7
  <1>3. Programs["nok"] = P!nok /\ Programs["syscall_sysenter"] = P!syscall_sysenter
    BY OnIt DEF P!P_Programs
  <1>4. \A i \in 1 .. 5 : P!nok[i][1] # "sysenter"
    BY NokText DEF NegEax, SetErrno, Set, Pop, Ret
  <1>5. /\ \A i \in 1 .. 11 : i # 6 => P!syscall_sysenter[i][1] # "sysenter"
        /\ P!syscall_sysenter[6][1] = "sysenter"
    BY SysenterText DEF Push, PushNext, Mov, Sysenter, Pop, Ret
  <1> QED  BY <1>1, <1>2, <1>3, <1>4, <1>5

\* What follows the steps of a wrapper.
LEMMA ProperAfter ==
    ASSUME NEW w \in Callable, NEW n \in 0 .. 3, n = Arity[w],
           NEW d, Common(d), d.state = "ok", d.call.name = w,
           \/ n \in 1 .. 3 /\ \E i : InWrapperP(d, w, n, i)
           \/ n = 0 /\ \E i : InPlainP(d, w, i)
           \/ \E i : InCallP(d, w, n, i)
           \/ \E i : InNok(d, n, i)
           \/ Stands(d, "caller", 0, n + 1) /\ InProgram(d, n, -1)
    PROVE  ProperP(d)
  <1>1. ASSUME n \in 1 .. 3, NEW i, InWrapperP(d, w, n, i) PROVE ProperP(d)
    <2>1. i \in 1 .. 12
      BY <1>1 DEF InWrapperP
    <2> QED  BY <1>1, <2>1 DEF ProperP
  <1>2. ASSUME n = 0, NEW i, InPlainP(d, w, i) PROVE ProperP(d)
    <2>1. i \in 1 .. 7
      BY <1>2 DEF InPlainP, last
    <2>2. Arity[w] = 0
      BY <1>2
    <2> QED  BY <1>2, <2>1, <2>2 DEF ProperP
  <1>3. ASSUME NEW i, InCallP(d, w, n, i) PROVE ProperP(d)
    <2>1. i \in 1 .. 11
      BY <1>3 DEF InCallP, InSysenter
    <2> QED  BY <1>3, <2>1 DEF ProperP
  <1>4. ASSUME NEW i, InNok(d, n, i) PROVE ProperP(d)
    <2>1. i \in 1 .. 5
      BY <1>4 DEF InNok
    <2> QED  BY <1>4, <2>1 DEF ProperP
  <1>5. CASE Stands(d, "caller", 0, n + 1) /\ InProgram(d, n, -1)
    BY <1>5 DEF ProperP, AtProgramP
  <1> QED  BY <1>1, <1>2, <1>3, <1>4, <1>5

\* What a process alone at sysenter does.
LEMMA AtSysenterP ==
    ASSUME OnProject, NEW c, NEW b, NEW fp, InSysenter(c, 6, b, fp), NEW p, NEW d, Alone(p, c, d)
    PROVE  \E h \in {dispatched(c.regs.eax[2])} :
              \/ h # "past_the_table" /\ \E n \in outcomes(h), K \in SUBSET (1 .. arity_of(h)) :
                                            d = answered(c, n, K)
              \/ h = "past_the_table" /\ d = [c EXCEPT !.state = "wild"]
  <1>1. c.regs.eip = At("syscall_sysenter", 6)
    BY DEF InSysenter, Stands
  <1>2. /\ c.regs.eip # Caller
        /\ c.regs.eip[2][1] = "syscall_sysenter" /\ c.regs.eip[2][2] = 6
    BY <1>1 DEF At, Caller
  <1>3. instruction_of(c)[1] = "sysenter"
    BY <1>2, NoSysenter DEF instruction_of
  <1> QED  BY <1>2, <1>3 DEF Alone, AtProgram, AtCall

THEOREM ProperSteps ==
    ASSUME OnProject, NEW c, ProperP(c), NEW p, NEW d, Alone(p, c, d)
    PROVE  ProperP(d)
  <1>c. Common(c)
    BY DEF ProperP
  <1>1. CASE c.state = "ok" /\ AtProgramP(c)
    <2>1. c.regs.eip = Caller
      BY <1>1 DEF AtProgramP, Stands, Caller
    <2>2. c.regs.eip[2][1] = "caller"
      BY <2>1 DEF Caller, At
    <2>3. \/ \E w \in Callable : d = at_wrapper(p, w)
          \/ \E n \in RawNumbers : d = at_raw(p, n)
      BY <2>2 DEF Alone, AtInstruction, AtCall
    <2> QED  BY <2>3, StartsWrapper, StartsRaw
  <1>2. ASSUME c.state = "ok", NEW w \in Callable, c.call.name = w,
               NEW n \in 1 .. 3, NEW i \in 1 .. 12, n = Arity[w], InWrapperP(c, w, n, i)
        PROVE  ProperP(d)
    <2>1. i \in 1 .. 9 + n /\ i \in Nat /\ \E t : Stands(c, w, i, t)
      BY <1>2 DEF InWrapperP
    <2>2. Programs[w][i] = P!wrapper(nr[w], n)[i] /\ Programs[w][i][1] # "sysenter" /\ w # "caller"
      BY <1>2, <2>1, NoSysenter, ArityOnIt
    <2>3. d = executed(c, P!wrapper(nr[w], n)[i])
      BY <1>2, <2>1, <2>2, Executes
    <2>4. /\ Common(d) /\ d.call = c.call /\ d.state = c.state
          /\ \/ InWrapperP(d, w, n, i + 1)
             \/ InCallP(d, w, n, 1)
             \/ InNok(d, n, 1)
             \/ Stands(d, "caller", 0, n + 1) /\ InProgram(d, n, -1)
      BY <1>c, <1>2, <2>3, WrapperSteps
    <2> QED  BY <1>2, <2>4, ProperAfter
  <1>3. ASSUME c.state = "ok", NEW w \in Callable, c.call.name = w, NEW i \in 1 .. 7,
               Arity[w] = 0, InPlainP(c, w, i)
        PROVE  ProperP(d)
    <2>1. i \in 1 .. last(w) /\ i \in Nat /\ \E t : Stands(c, w, i, t)
      BY <1>3 DEF InPlainP
    <2>2. /\ Programs[w][i] = plain_text(w)[i] /\ Programs[w][i][1] # "sysenter"
          /\ w # "caller" /\ w \in P_called /\ (w = "fork" \/ w \in Untested)
      BY <1>3, <2>1, NoSysenter, ArityOnIt
    <2>3. d = executed(c, plain_text(w)[i])
      BY <1>3, <2>1, <2>2, Executes
    <2>4. /\ Common(d) /\ d.call = c.call /\ d.state = c.state
          /\ \/ InPlainP(d, w, i + 1)
             \/ InCallP(d, w, 0, 1)
             \/ InNok(d, 0, 1)
             \/ Stands(d, "caller", 0, 1) /\ InProgram(d, 0, -1)
      BY <1>c, <1>3, <2>2, <2>3, PlainSteps
    <2>5. Stands(d, "caller", 0, 1) => Stands(d, "caller", 0, 0 + 1)
      OBVIOUS
    <2> QED  BY <1>3, <2>4, <2>5, ProperAfter
  <1>4. ASSUME c.state = "ok", NEW w \in Callable, c.call.name = w,
               NEW n \in 0 .. 3, NEW i \in 1 .. 11, n = Arity[w], InCallP(c, w, n, i)
        PROVE  ProperP(d)
    <2>1. CASE i # 6
      <3>1. \E t : Stands(c, "syscall_sysenter", i, t)
        BY <1>4 DEF InCallP, InSysenter
      <3>2. d = executed(c, P!syscall_sysenter[i])
        BY <1>4, <2>1, <3>1, NoSysenter, Executes
      <3>3. /\ Common(d) /\ d.call = c.call /\ d.state = c.state
            /\ \/ InCallP(d, w, n, i + 1)
               \/ n = 0 /\ InPlainP(d, w, 5)
               \/ n \in 1 .. 3 /\ InWrapperP(d, w, n, 6 + n)
        BY <1>c, <1>4, <2>1, <3>2, CallSteps
      <3> QED  BY <1>4, <3>3, ProperAfter
    <2>2. CASE i = 6
      <3>1. InSysenter(c, 6, words(n), Sp(n + 3)) /\ c.regs.eax = Num(nr[w])
        BY <1>4, <2>2 DEF InCallP
      <3>2. dispatched(c.regs.eax[2]) = w /\ arity_of(w) = n /\ w # "past_the_table"
        BY <1>4, <3>1, ArityOnIt, Dispatched DEF Num
      <3>3. PICK res \in outcomes(w), K \in SUBSET (1 .. n) : d = answered(c, res, K)
        BY <3>1, <3>2, AtSysenterP
      <3>4. res \in Int /\ (w \in Untested => res >= 0)
        BY <1>4, OnIt, ArityOnIt DEF outcomes, Success, Failure, ENOSYS
      <3>5. Common(d) /\ d.call.name = w /\ d.state = c.state /\ InCallP(d, w, n, 7)
        BY <1>c, <1>4, <2>2, <3>3, <3>4, WrapperAnswered
      <3> QED  BY <1>4, <3>5, ProperAfter
    <2> QED  BY <2>1, <2>2
  <1>5. ASSUME c.state = "ok", NEW w \in Callable, c.call.name = w,
               NEW n \in 0 .. 3, NEW i \in 1 .. 5, n = Arity[w], InNok(c, n, i)
        PROVE  ProperP(d)
    <2>1. \E t : Stands(c, "nok", i, t)
      BY <1>5 DEF InNok
    <2>2. d = executed(c, P!nok[i])
      BY <1>5, <2>1, NoSysenter, Executes
    <2>3. /\ Common(d) /\ d.call = c.call /\ d.state = c.state
          /\ \/ InNok(d, n, i + 1)
             \/ Stands(d, "caller", 0, n + 1) /\ InProgram(d, n, -1)
      BY <1>c, <1>5, <2>2, NokSteps
    <2> QED  BY <1>5, <2>3, ProperAfter
  <1>6. ASSUME c.state = "ok", NEW i \in 1 .. 11, InRawCall(c, i)
        PROVE  ProperP(d)
    <2>1. CASE i # 6
      <3>1. \E t : Stands(c, "syscall_sysenter", i, t)
        BY <1>6 DEF InRawCall, InSysenter
      <3>2. d = executed(c, P!syscall_sysenter[i])
        BY <1>6, <2>1, <3>1, NoSysenter, Executes
      <3> QED  BY <1>c, <1>6, <2>1, <3>2, RawSteps
    <2>2. CASE i = 6
      <3>1. InSysenter(c, 6, 2, Orig(c.call.tag, "ebp")) /\ InRawCall(c, 6)
        BY <1>6, <2>2 DEF InRawCall
      <3>2. PICK h : \/ \E n \in outcomes(h), K \in SUBSET (1 .. arity_of(h)) : d = answered(c, n, K)
                     \/ d = [c EXCEPT !.state = "wild"]
        BY <3>1, AtSysenterP
      <3>3. ASSUME NEW n \in outcomes(h), NEW K \in SUBSET (1 .. arity_of(h)), d = answered(c, n, K)
            PROVE  ProperP(d)
        BY <1>c, <1>6, <3>1, <3>3, RawAnswered
      <3>4. CASE d = [c EXCEPT !.state = "wild"]
        <4>1. c = [regs |-> c.regs, stack |-> c.stack, errno |-> c.errno,
                   call |-> c.call, state |-> c.state]
          BY <3>1 DEF InSysenter, Stands, Context
        <4>2. d.regs = c.regs /\ d.call = c.call /\ d.state = "wild"
          BY <3>4, <4>1
        <4>3. Common(d) /\ d.call.name = "raw"
          BY <1>c, <3>1, <4>2 DEF Common, InRawCall
        <4> QED  BY <4>2, <4>3 DEF ProperP
      <3> QED  BY <3>2, <3>3, <3>4
    <2> QED  BY <2>1, <2>2
  <1>7. ASSUME c.state = "wild" PROVE FALSE
    BY <1>7 DEF Alone, AtProgram, AtInstruction, AtCall
  <1> QED  BY <1>1, <1>2, <1>3, <1>4, <1>5, <1>6, <1>7 DEF ProperP

\* The outline is that of a system, which never changes.
LEMMA ProperStays ==
    ASSUME NEW CONSTANT c, system' = system
    PROVE  ProperP(c)' <=> ProperP(c)
  <1>1. Callable' = Callable /\ Arity' = Arity /\ Restores' = Restores
    BY DEF Callable, Arity, Restores
  <1>2. \A k : Loaded(c, k)' <=> Loaded(c, k)
    BY <1>1 DEF Loaded
  <1>3. \A w, n, i : InWrapperP(c, w, n, i)' <=> InWrapperP(c, w, n, i)
    BY <1>2 DEF InWrapperP, Stands, Passed, Has, Asks, Answered, Context
  <1>4. \A w, n, i : InCallP(c, w, n, i)' <=> InCallP(c, w, n, i)
    BY <1>2 DEF InCallP
  <1>5. AtProgramP(c)' <=> AtProgramP(c)
    BY <1>1 DEF AtProgramP
  <1>6. /\ Common(c)' <=> Common(c)
        /\ \A w, i : InPlainP(c, w, i)' <=> InPlainP(c, w, i)
        /\ \A n, i : InNok(c, n, i)' <=> InNok(c, n, i)
        /\ \A i : InRawCall(c, i)' <=> InRawCall(c, i)
    OBVIOUS
  <1> QED  BY <1>1, <1>3, <1>4, <1>5, <1>6 DEF ProperP

\* Where a process can be at a system call: in syscall_sysenter.
LEMMA CallsFrom ==
    ASSUME OnProject, NEW c, ProperP(c), NEW h, AtCall(c, h)
    PROVE  /\ c.state = "ok"
           /\ \/ \E w \in Callable, n \in 0 .. 3 :
                    c.call.name = w /\ n = Arity[w] /\ InCallP(c, w, n, 6)
              \/ InRawCall(c, 6)
  <1>0. /\ c.state = "ok" /\ c.regs.eip[2][1] # "caller"
        /\ Programs[c.regs.eip[2][1]][c.regs.eip[2][2]][1] = "sysenter"
    BY DEF AtCall, AtInstruction, instruction_of
  <1>1. ASSUME NEW w, NEW i, NEW t, Stands(c, w, i, t)
        PROVE  w # "caller" /\ Programs[w][i][1] = "sysenter"
    BY <1>0, <1>1 DEF Stands, At
  <1>2. ~ AtProgramP(c)
    BY <1>1 DEF AtProgramP
  <1>3. ASSUME NEW w \in Callable, NEW n \in 1 .. 3, NEW i \in 1 .. 12, n = Arity[w],
               InWrapperP(c, w, n, i)
        PROVE  FALSE
    <2>1. i \in Nat /\ i \in 1 .. 9 + n /\ \E t : Stands(c, w, i, t)
      BY <1>3 DEF InWrapperP
    <2> QED  BY <1>1, <1>3, <2>1, NoSysenter
  <1>4. ASSUME NEW w \in Callable, NEW i \in 1 .. 7, Arity[w] = 0, InPlainP(c, w, i)
        PROVE  FALSE
    <2>1. i \in Nat /\ i \in 1 .. last(w) /\ \E t : Stands(c, w, i, t)
      BY <1>4 DEF InPlainP
    <2> QED  BY <1>1, <1>4, <2>1, NoSysenter
  <1>5. ASSUME NEW n, NEW i \in 1 .. 5, InNok(c, n, i)
        PROVE  FALSE
    <2>1. \E t : Stands(c, "nok", i, t)
      BY <1>5 DEF InNok
    <2> QED  BY <1>1, <1>5, <2>1, NoSysenter
  <1>6. ASSUME NEW i \in 1 .. 11, NEW b, NEW fp, InSysenter(c, i, b, fp)
        PROVE  i = 6
    <2>1. \E t : Stands(c, "syscall_sysenter", i, t)
      BY <1>6 DEF InSysenter
    <2> QED  BY <1>1, <1>6, <2>1, NoSysenter
  <1>7. ASSUME NEW w, NEW n, NEW i \in 1 .. 11, InCallP(c, w, n, i) PROVE i = 6
    BY <1>6, <1>7 DEF InCallP
  <1>8. ASSUME NEW i \in 1 .. 11, InRawCall(c, i) PROVE i = 6
    BY <1>6, <1>8 DEF InRawCall
  <1> QED  BY <1>0, <1>2, <1>3, <1>4, <1>5, <1>7, <1>8 DEF ProperP

\* A forked process starts where its parent is, with a result that no wrapper
\* takes for a failure.
LEMMA ProperForks ==
    ASSUME OnProject, NEW c, ProperP(c), AtCall(c, "fork")
    PROVE  ProperP(answered(c, 0, {}))
  <1>c. Common(c)
    BY DEF ProperP
  <1>1. PICK d : d = answered(c, 0, {})
    OBVIOUS
  <1>2. c.state = "ok"
    BY CallsFrom
  <1>3. ASSUME NEW w \in Callable, NEW n \in 0 .. 3, c.call.name = w, n = Arity[w],
               InCallP(c, w, n, 6)
        PROVE  ProperP(d)
    <2>1. {} \in SUBSET (1 .. n) /\ 0 \in Int
      OBVIOUS
    <2>2. Common(d) /\ d.call.name = w /\ d.state = c.state /\ InCallP(d, w, n, 7)
      BY <1>c, <1>1, <1>3, <2>1, WrapperAnswered
    <2> QED  BY <1>2, <1>3, <2>2, ProperAfter
  <1>4. CASE InRawCall(c, 6)
    <2>1. {} \in SUBSET (1 .. arity_of("fork"))
      OBVIOUS
    <2> QED  BY <1>c, <1>1, <1>2, <1>4, <2>1, RawAnswered
  <1> QED  BY <1>1, <1>3, <1>4, CallsFrom

\* The first process starts in its program.
LEMMA ProperInit ==
    ASSUME Init, OnProject
    PROVE  ProperP(View(FirstProc))
  <1>1. PICK d : d = [regs |-> caller_regs(FirstProc),
                      stack |-> [i \in 1 .. Depth |-> Junk], errno |-> Num(0), call |-> no_call, state |-> "ok"]
    OBVIOUS
  <1>2. View(FirstProc) = d
    <2>1. FirstProc \in Procs
      BY EntryAssumption DEF Init, Procs
    <2>2. /\ cur = FirstProc /\ regs = caller_regs(FirstProc) /\ status = "ok"
          /\ stack[FirstProc] = [i \in 1 .. Depth |-> Junk] /\ errno[FirstProc] = Num(0)
          /\ called[FirstProc] = no_call
      BY <2>1 DEF Init
    <2> QED  BY <1>1, <2>2 DEF View, context
  <1>3. caller_regs(FirstProc) = [caller_regs(FirstProc) EXCEPT !.esp = Sp(1), !.eip = At("caller", 0)]
    BY DEF caller_regs, Regs, Caller
  <1>4. IsStack([i \in 1 .. Depth |-> Junk])
    BY DEF IsStack
  <1>5. Stands(d, "caller", 0, 1) /\ OfProgram(d, FirstProc)
    <2>1. PICK R, S, e, C, k : /\ R = caller_regs(FirstProc) /\ S = [i \in 1 .. Depth |-> Junk]
                               /\ e = Num(0) /\ C = no_call /\ k = 1
      OBVIOUS
    <2>2. R = [caller_regs(FirstProc) EXCEPT !.esp = Sp(k), !.eip = At("caller", 0)]
      BY <1>3, <2>1
    <2>3. IsStack(S) /\ k \in Nat /\ d = [regs |-> R, stack |-> S, errno |-> e, call |-> C, state |-> "ok"]
      BY <1>1, <1>4, <2>1
    <2>4. Stands(d, "caller", 0, k) /\ OfProgram(d, FirstProc)
      BY <2>2, <2>3, Started
    <2> QED  BY <2>1, <2>4
  <1>6. Common(d)
    BY <1>1, <1>5 DEF Common, OfProgram, no_call, Regs
  <1>7. AtProgramP(d)
    BY <1>1, <1>5 DEF AtProgramP, Asks, no_call
  <1> QED  BY <1>1, <1>2, <1>6, <1>7 DEF ProperP

-----------------------------------------------------------------------------
\* Each process runs as if it were alone, so each is somewhere in the outline.
OutlineP == \A p \in alive : \A c : c = View(p) => ProperP(c)

LEMMA OutlineStep ==
    ASSUME OnProject, OutlineP, EInv, system' = system, EachAlone
    PROVE  OutlineP'
  <1>1. ASSUME NEW p \in alive \cap alive', NEW d, d = View(p)'
        PROVE  ProperP(d)
    <2>1. PICK c : c = View(p)
      OBVIOUS
    <2>2. ProperP(c)
      BY <2>1 DEF OutlineP
    <2>3. d = c \/ Alone(p, c, d)
      BY <1>1, <2>1 DEF EachAlone
    <2> QED  BY <2>2, <2>3, ProperSteps
  <1>2. ASSUME NEW q \in alive' \ alive, NEW d, d = View(q)'
        PROVE  ProperP(d)
    <2>1. PICK c : c = View(cur)
      OBVIOUS
    <2>2. cur \in alive
      BY DEF EInv
    <2>3. ProperP(c)
      BY <2>1, <2>2 DEF OutlineP
    <2>4. AtCall(c, "fork") /\ d = answered(c, 0, {})
      BY <1>2, <2>1 DEF EachAlone
    <2> QED  BY <2>3, <2>4, ProperForks
  <1>3. ASSUME NEW p \in alive', NEW CONSTANT d, d = View(p)'
        PROVE  ProperP(d)'
    <2>1. ProperP(d)
      BY <1>1, <1>2, <1>3
    <2> QED  BY <2>1, ProperStays
  <1> QED  BY <1>3 DEF OutlineP

\* What the outline says of a call whose handler was called, and of a wrapper
\* that has returned.
LEMMA ProperCalls ==
    ASSUME NEW c, ProperP(c), c.call.handler # "none", c.call.name # "raw"
    PROVE  Answered(c, Arity[c.call.name])
  <1>1. CASE AtProgramP(c)
    BY <1>1 DEF AtProgramP, Asks, InProgram
  <1>2. ASSUME NEW w, c.call.name = w, NEW n, n = Arity[w],
               \/ \E i : InWrapperP(c, w, n, i)
               \/ \E i : InCallP(c, w, n, i)
               \/ \E i : InNok(c, n, i)
        PROVE  Answered(c, Arity[w])
    <2>1. ASSUME NEW i, InWrapperP(c, w, n, i) PROVE Answered(c, n)
      BY <2>1 DEF InWrapperP, Asks
    <2>2. ASSUME NEW i, InCallP(c, w, n, i) PROVE Answered(c, n)
      BY <2>2 DEF InCallP, Asks
    <2>3. ASSUME NEW i, InNok(c, n, i) PROVE Answered(c, n)
      BY <2>3 DEF InNok
    <2> QED  BY <1>2, <2>1, <2>2, <2>3
  <1>3. ASSUME NEW w, c.call.name = w, Arity[w] = 0, NEW i, InPlainP(c, w, i)
        PROVE  Answered(c, Arity[w])
    <2>1. Answered(c, 0)
      BY <1>3 DEF InPlainP, Asks
    <2> QED  BY <1>3, <2>1
  <1>4. ~ \E i \in 1 .. 11 : InRawCall(c, i)
    BY DEF InRawCall
  <1> QED  BY <1>1, <1>2, <1>3, <1>4 DEF ProperP

LEMMA ProperReturns ==
    ASSUME OnProject, NEW c, ProperP(c), c.state = "ok", c.regs.eip = Caller,
           c.call.name \notin {"none", "raw"}
    PROVE  \E n \in 0 .. 3 : /\ n = Arity[c.call.name] /\ Common(c)
                             /\ Stands(c, "caller", 0, n + 1) /\ InProgram(c, n, -1)
  <1>1. ASSUME NEW w, NEW i, NEW t, Stands(c, w, i, t) PROVE w = "caller"
    <2>1. At(w, i)[2] = <<w, i>> /\ Caller[2] = <<"caller", 0>>
      BY DEF At, Caller
    <2>2. At(w, i) = Caller
      BY <1>1 DEF Stands
    <2> QED  BY <2>1, <2>2
  <1>2. ASSUME NEW w \in Callable, NEW n, NEW i, InWrapperP(c, w, n, i) \/ InPlainP(c, w, i)
        PROVE  FALSE
    <2>1. \E t : Stands(c, w, i, t)
      BY <1>2 DEF InWrapperP, InPlainP
    <2> QED  BY <1>1, <2>1, ArityOnIt
  <1>3. ASSUME NEW n, NEW i, InNok(c, n, i) PROVE FALSE
    <2>1. \E t : Stands(c, "nok", i, t)
      BY <1>3 DEF InNok
    <2> QED  BY <1>1, <2>1
  <1>4. ASSUME NEW i, NEW b, NEW fp, InSysenter(c, i, b, fp) PROVE FALSE
    <2>1. \E t : Stands(c, "syscall_sysenter", i, t)
      BY <1>4 DEF InSysenter
    <2> QED  BY <1>1, <2>1
  <1>5. AtProgramP(c)
    BY <1>2, <1>3, <1>4 DEF ProperP, InCallP, InRawCall
  <1>6. Common(c)
    BY DEF ProperP
  <1> QED  BY <1>5, <1>6 DEF AtProgramP

\* What the three invariants say of a process, and of the processor.
LEMMA OutlineArguments ==
    ASSUME OnProject, OutlineP
    PROVE  ArgumentsReachHandler
  <1>1. ASSUME NEW p \in alive, called[p].handler # "none", called[p].name # "raw"
        PROVE  /\ called[p].handler = called[p].name
               /\ \A i \in 1 .. Arity[called[p].name] : called[p].got[i] = <<"arg", i>>
    <2>1. PICK c : c = View(p)
      OBVIOUS
    <2>2. c.call = called[p]
      BY <2>1 DEF View, context
    <2>3. ProperP(c)
      BY <2>1 DEF OutlineP
    <2>4. Answered(c, Arity[c.call.name])
      BY <1>1, <2>2, <2>3, ProperCalls
    <2> QED  BY <2>2, <2>4 DEF Answered
  <1> QED  BY <1>1 DEF ArgumentsReachHandler

LEMMA OutlineReturns ==
    ASSUME OnProject, OutlineP, EInv
    PROVE  CalleeSaved /\ ResultReturned
  <1>1. PICK c : c = context(cur)
    OBVIOUS
  <1>2. /\ c.regs = regs /\ c.errno = errno[cur] /\ c.call = called[cur] /\ c.state = status
    BY <1>1 DEF context
  <1>3. ProperP(c)
    BY <1>1 DEF OutlineP, EInv, View
  <1>4. (status = "wild" => called[cur].name = "raw") /\ status # "fault"
    BY <1>2, <1>3 DEF ProperP
  <1>5. ASSUME NEW p \in alive, Returned(p)
        PROVE  /\ regs.esp = Sp(Arity[called[p].name] + 1)
               /\ \A r \in CKept \cup {"ds", "es", "fs", "gs"} : regs[r] = Orig(called[p].tag, r)
               /\ LET n == called[p].result IN
                  IF n < 0 THEN regs.eax = Num(-1) /\ errno[p] = Num(- n)
                  ELSE regs.eax = Num(n)
    <2>1. p = cur /\ c.state = "ok" /\ c.regs.eip = Caller /\ c.call.name \notin {"none", "raw"}
      BY <1>2, <1>5 DEF Returned, InCaller
    <2>2. PICK n \in 0 .. 3 : /\ n = Arity[c.call.name] /\ Common(c)
                              /\ Stands(c, "caller", 0, n + 1) /\ InProgram(c, n, -1)
      BY <1>3, <2>1, ProperReturns
    <2>3. regs.esp = Sp(Arity[called[p].name] + 1)
      BY <1>2, <2>1, <2>2 DEF Stands
    <2>4. \A r \in {"ebx", "ebp", "esi", "edi", "ds", "es", "fs", "gs"} :
             c.regs[r] = Orig(c.call.tag, r)
      BY <2>2 DEF Common, InProgram, Has
    <2>5. /\ c.call.result \in Int
          /\ IF c.call.result < 0
             THEN c.regs.eax = Num(-1) /\ c.errno = Num(-1 * c.call.result)
             ELSE c.regs.eax = Num(c.call.result)
      BY <2>2 DEF InProgram, Answered
    <2>6. -1 * c.call.result = - c.call.result
      BY <2>5
    <2> QED  BY <1>2, <2>1, <2>3, <2>4, <2>5, <2>6 DEF CKept
  <1>6. ErrnoNegated = FALSE
    BY OnIt
  <1> QED  BY <1>4, <1>5, <1>6 DEF CalleeSaved, ResultReturned

\* Systems that run PROJECTE, with room for the calls on their user stacks.
ProjectSystems == Depth >= 12 /\ \A name \in DOMAIN Systems : RunsProject(Systems[name])

LEMMA ProjectSystemsMirror == ASSUME ProjectSystems PROVE SystemsMirror
  BY ProjectMirrors DEF ProjectSystems, RunsProject, SystemsMirror

LEMMA OnOneOfThem == ASSUME ProjectSystems, EInv PROVE OnProject
  BY DEF ProjectSystems, OnProject, EInv

LEMMA OutlineInit == ASSUME ProjectSystems, Init PROVE OutlineP
  <1>1. OnProject
    BY EntryInit, OnOneOfThem
  <1>2. alive = {FirstProc}
    BY DEF Init
  <1> QED  BY <1>1, <1>2, ProperInit DEF OutlineP

LEMMA OutlineKept ==
    ASSUME ProjectSystems, OutlineP, EInv, [Next]_vars
    PROVE  OutlineP'
  <1>1. OnProject
    BY OnOneOfThem
  <1>2. CASE UNCHANGED vars
    <2>1. alive' = alive /\ system' = system /\ \A p \in alive : View(p)' = View(p)
      BY <1>2 DEF vars, View, context, resumed, frame_of, iret, sysexit, restored, slot,
                  with_result, Restores, SwitchRestores
    <2>2. EachAlone
      BY <2>1 DEF EachAlone
    <2> QED  BY <1>1, <2>1, <2>2, OutlineStep
  <1>3. CASE Next
    <2>1. system' = system
      BY <1>3 DEF Next, CallWrapper, CallRaw, UserInstruction, Becomes, ClockReturns,
                  ClockSwitches, SyscallSwitches, SyscallForks, SyscallReturns, SyscallPastTable
    <2>2. UNCHANGED vars \/ EachAlone
      BY ProjectSystemsMirror, EachAloneStep
    <2> QED  BY <1>1, <1>2, <2>1, <2>2, OutlineStep
  <1> QED  BY <1>2, <1>3

LEMMA OutlineHolds == ASSUME ProjectSystems PROVE Spec => [](EInv /\ OutlineP)
  <1>1. SystemsMirror
    BY ProjectSystemsMirror
  <1>2. Spec => []EInv
    BY <1>1, EntryInvariant
  <1>3. Init => OutlineP
    BY OutlineInit
  <1>4. OutlineP /\ EInv /\ [Next]_vars => OutlineP'
    BY OutlineKept
  <1> QED  BY <1>2, <1>3, <1>4, PTL DEF Spec

\* With any number of processes that call the wrappers of PROJECTE or pass any
\* number to syscall_sysenter, whatever interrupts them and whoever runs in
\* between, a wrapper calls its handler with its arguments (PROJECTE wrappers,
\* sys_call_table and SAVE_ALL).
THEOREM ArgumentsArrive == ASSUME ProjectSystems PROVE Spec => []ArgumentsReachHandler
  <1>1. EInv /\ OutlineP => ArgumentsReachHandler
    BY OnOneOfThem, OutlineArguments
  <1> QED  BY <1>1, OutlineHolds, PTL

\* It gives its caller the stack pointer and the registers of C back.
THEOREM CallersKeepRegisters == ASSUME ProjectSystems PROVE Spec => []CalleeSaved
  <1>1. EInv /\ OutlineP => CalleeSaved
    BY OnOneOfThem, OutlineReturns
  <1> QED  BY <1>1, OutlineHolds, PTL

\* It returns the result of its handler, or -1 with the error in errno, and in
\* the child a fork returns 0.
THEOREM ResultsReturn == ASSUME ProjectSystems PROVE Spec => []ResultReturned
  <1>1. EInv /\ OutlineP => ResultReturned
    BY OnOneOfThem, OutlineReturns
  <1> QED  BY <1>1, OutlineHolds, PTL
=============================================================================
