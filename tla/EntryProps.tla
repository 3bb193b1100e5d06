----------------------------- MODULE EntryProps -----------------------------
(***************************************************************************)
(* What must hold of the way into the kernel and back, in every system.    *)
(***************************************************************************)
EXTENDS Entry

\* A wrapper has just returned to the program.
Returned(p) == p = cur /\ InCaller /\ called[p].name \notin {"none", "raw"}

\* Registers a wrapper is known to lose, and whether errno is left negative.
Lost == Systems[system].lost
ErrnoNegated == Systems[system].errno_negated

\* The number a wrapper loads selects the handler of its name, and the order
\* in which SAVE_ALL pushes the registers makes the values it loaded the
\* arguments of that handler, in order.
ArgumentsReachHandler ==
    \A p \in alive : called[p].handler # "none" /\ called[p].name # "raw" =>
        /\ called[p].handler = called[p].name
        /\ \A i \in 1 .. Arity[called[p].name] : called[p].got[i] = <<"arg", i>>

\* A wrapper gives its caller back the stack pointer and the registers that
\* a C function must preserve, whatever the handler did to its arguments and
\* whoever ran in between; so does task_switch to the C code that called it.
CalleeSaved ==
    /\ \A p \in alive : Returned(p) =>
          /\ regs.esp = Sp(Arity[called[p].name] + 1)
          /\ \A r \in CKept \cup {"ds", "es", "fs", "gs"} :
                regs[r] # Orig(called[p].tag, r) => <<called[p].name, r>> \in Lost
    /\ status = "wild" => called[cur].name = "raw"

\* A wrapper returns what the handler returned, or -1 and the error number
\* in errno, with the sign the delivery uses; a child returns 0 from the fork
\* that created it.
ResultReturned ==
    /\ \A p \in alive : Returned(p) =>
          LET n == called[p].result IN
          IF n < 0
          THEN regs.eax = Num(-1) /\ errno[p] = Num(IF ErrnoNegated THEN n ELSE - n)
          ELSE regs.eax = Num(n)
    /\ status # "fault"

\* An interrupt changes no register of the process it interrupts, even if
\* others run before it does again.
InterruptTransparent ==
    [][/\ ClockReturns => regs' = regs
       /\ cur' # cur /\ how[cur'] = "interrupt" => regs' = left[cur']]_vars

-----------------------------------------------------------------------------
\* What a process would see if it were the only one: the registers it runs
\* with, or those it will go on with.
View(p) == IF p = cur THEN context(p)
           ELSE [context(p) EXCEPT !.regs = resumed(p), !.state = "ok"]

\* A system call as the program that makes it sees it: a result in EAX, what
\* sysexit needs in ECX and EDX, and the arguments K lost.
given_back(R, back, n, K) ==
    [r \in Regs |-> IF r = "eax" THEN Num(n)
                    ELSE IF r \in {"esp", "ecx"} THEN R.ebp
                    ELSE IF r \in {"eip", "edx"} THEN back
                    ELSE IF \E i \in K : Restores[i] = r THEN Junk
                    ELSE R[r]]
passed(R) == [i \in 1 .. 3 |-> R[Restores[i]]]
answered(c, n, K) ==
    [c EXCEPT !.regs = given_back(c.regs, c.stack[c.regs.ebp[2] - 1], n, K),
              !.call = [@ EXCEPT !.handler = dispatched(c.regs.eax[2]),
                                 !.got = passed(c.regs), !.result = n]]

\* One step of p from c to d, alone on a processor without interrupts.
AtProgram(c) == c.state = "ok" /\ c.regs.eip = Caller
AtInstruction(c) == c.state = "ok" /\ c.regs.eip[2][1] # "caller"
instruction_of(c) == Programs[c.regs.eip[2][1]][c.regs.eip[2][2]]
AtCall(c, h) == /\ AtInstruction(c) /\ instruction_of(c)[1] = "sysenter"
                /\ h = dispatched(c.regs.eax[2])
Alone(p, c, d) ==
    \/ AtProgram(c) /\ \E w \in Callable : d = at_wrapper(p, w)
    \/ AtProgram(c) /\ \E n \in RawNumbers : d = at_raw(p, n)
    \/ /\ AtInstruction(c) /\ instruction_of(c)[1] # "sysenter"
       /\ d = executed(c, instruction_of(c))
    \/ /\ AtInstruction(c) /\ instruction_of(c)[1] = "sysenter"
       /\ \E h \in {dispatched(c.regs.eax[2])} :
             /\ h # "past_the_table"
             /\ \E n \in outcomes(h), K \in SUBSET (1 .. arity_of(h)) : d = answered(c, n, K)
    \/ AtCall(c, "past_the_table") /\ d = [c EXCEPT !.state = "wild"]

\* What a step of the system does to a process, running or not, is nothing or a
\* step of its own; a new one starts as its parent would from a fork that
\* returned 0.
EachAlone ==
    /\ \A p \in alive \cap alive' : View(p)' = View(p) \/ Alone(p, View(p), View(p)')
    /\ \A q \in alive' \ alive : /\ AtCall(View(cur), "fork")
                                /\ View(q)' = answered(View(cur), 0, {})

\* Whatever the interrupts, the switches and the other processes do, each runs
\* as if it were alone on a processor without them (entry.S, task_switch,
\* ret_from_fork).
RunsAlone == [][EachAlone]_vars
=============================================================================
