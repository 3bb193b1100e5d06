------------------------------- MODULE Entry --------------------------------
(***************************************************************************)
(* The way into the kernel and back (entry.S, and the files Wrappers*      *)
(* stand for): a user program calls a wrapper, which loads the registers   *)
(* and executes sysenter; the entry point saves the registers, calls the   *)
(* handler in the table with the saved ones as its arguments, restores     *)
(* them and leaves with sysexit.  Between any two user instructions the    *)
(* clock may interrupt; a handler or the clock may switch processes.       *)
(*                                                                         *)
(* User instructions are steps.  The kernel runs with interrupts masked:   *)
(* from entry to exit, with the switch if there is one, is one step.  What *)
(* a handler computes is left out: it returns a number, and as a C         *)
(* function owns its argument slots it may have overwritten them.          *)
(***************************************************************************)
EXTENDS Instructions, FiniteSets

CONSTANTS
    FirstProc,
    Systems,   \* the systems to run, by name: records with the fields below
    Depth      \* bound: words of a user stack

VARIABLES
    system,    \* the one that runs; it never changes
    cur,       \* process that runs, always in user mode between two steps
    regs, stack, errno,
    kstack,    \* kernel stack of a process that waits, top last
    how,       \* how it entered: "interrupt", "syscall" or "fork"
    alive,
    called,    \* history: the last call of each process and its result
    left,      \* history: the registers where it was interrupted
    status     \* "ok", "fault" or "wild"

vars == <<system, cur, regs, stack, errno, kstack, how, alive, called, left, status>>

Procs == Systems[system].procs
Programs == Systems[system].programs     \* the wrappers and what they call
Callable == Systems[system].callable     \* the wrappers the program calls
RawNumbers == Systems[system].raw        \* it passes them to syscall_sysenter
Table == Systems[system].table           \* sys_call_table
Arity == Systems[system].arity           \* of the wrappers
MayFail == Systems[system].may_fail      \* handlers with an error path
Switching == Systems[system].switching   \* handlers that may switch
Saves == Systems[system].saves           \* SAVE_ALL
Restores == Systems[system].restores     \* RESTORE_ALL
SwitchSaves == Systems[system].switch_saves         \* pushed by task_switch
SwitchRestores == Systems[system].switch_restores   \* and popped

Regs == {"eax", "ebx", "ecx", "edx", "esi", "edi", "ebp", "esp", "eip",
         "ds", "es", "fs", "gs"}
CKept == {"ebx", "esi", "edi", "ebp"}      \* preserved by every C function
ENOSYS == 38
Success == 7
Failure == -14
Caller == At("caller", 0)

ASSUME EntryAssumption ==
    /\ Depth \in Nat \ {0}
    /\ \A name \in DOMAIN Systems :
          /\ FirstProc \in Systems[name].procs
          /\ Systems[name].callable \subseteq
                DOMAIN Systems[name].programs \cap DOMAIN Systems[name].arity
          /\ Systems[name].switching \subseteq DOMAIN Systems[name].arity
          /\ {"none", "ni_syscall", "past_the_table"} \cap DOMAIN Systems[name].arity = {}
          /\ \A h \in DOMAIN Systems[name].arity : Systems[name].arity[h] \in 0 .. 3

Orig(p, r) == <<"orig", <<p, r>>>>
no_call == [name |-> "none", handler |-> "none", got |-> <<>>, tag |-> FirstProc,
            result |-> 0]

\* Registers of a caller of p, which has one word of its own on the stack.
caller_regs(p) == [r \in Regs |-> CASE r = "eip" -> Caller
                                    [] r = "esp" -> Sp(1)
                                    [] OTHER -> Orig(p, r)]

Init ==
    /\ system \in DOMAIN Systems
    /\ cur = FirstProc
    /\ regs = caller_regs(FirstProc)
    /\ stack = [p \in Procs |-> [i \in 1 .. Depth |-> Junk]]
    /\ errno = [p \in Procs |-> Num(0)]
    /\ kstack = [p \in Procs |-> <<>>]
    /\ how = [p \in Procs |-> "user"]
    /\ alive = {FirstProc}
    /\ called = [p \in Procs |-> no_call]
    /\ left = [p \in Procs |-> caller_regs(p)]
    /\ status = "ok"

-----------------------------------------------------------------------------
\* User mode.

prog == regs.eip[2][1]
instr == Programs[prog][regs.eip[2][2]]
InCaller == status = "ok" /\ regs.eip = Caller
InWrapper == status = "ok" /\ prog # "caller"
AtSysenter == InWrapper /\ instr[1] = "sysenter"

\* What the user side of a process consists of, and that of cur afterwards.
context(p) == [regs |-> regs, stack |-> stack[p], errno |-> errno[p],
               call |-> called[p], state |-> status]
Becomes(c) ==
    /\ regs' = c.regs
    /\ stack' = [stack EXCEPT ![cur] = c.stack]
    /\ errno' = [errno EXCEPT ![cur] = c.errno]
    /\ called' = [called EXCEPT ![cur] = c.call]
    /\ status' = c.state
    /\ UNCHANGED <<system, cur, kstack, how, alive, left>>

\* The caller pushes the arguments, last one first, and calls.
at_wrapper(p, w) ==
    LET n == Arity[w]
    IN  [regs  |-> [caller_regs(p) EXCEPT !.esp = Sp(n + 2), !.eip = At(w, 1)],
         stack |-> [i \in 1 .. Depth |-> IF i \in 2 .. n + 1 THEN <<"arg", n + 2 - i>>
                                         ELSE IF i = n + 2 THEN Caller ELSE Junk],
         errno |-> Num(0),
         call  |-> [no_call EXCEPT !.name = w, !.tag = p],
         state |-> "ok"]
at_raw(p, n) ==
    [regs  |-> [caller_regs(p) EXCEPT !.esp = Sp(2), !.eip = At("syscall_sysenter", 1),
                                      !.eax = Num(n)],
     stack |-> [i \in 1 .. Depth |-> IF i = 2 THEN Caller ELSE Junk],
     errno |-> Num(0),
     call  |-> [no_call EXCEPT !.name = "raw", !.tag = p],
     state |-> "ok"]

CallWrapper(w) == InCaller /\ Becomes(at_wrapper(cur, w))
CallRaw(n) == InCaller /\ Becomes(at_raw(cur, n))
UserInstruction ==
    InWrapper /\ ~AtSysenter /\ \E c \in {executed(context(cur), instr)} : Becomes(c)

-----------------------------------------------------------------------------
\* Kernel stacks.  Five words of return context, then SAVE_ALL.

SAVED == [i \in DOMAIN Saves |-> regs[Saves[i]]]
interrupt_frame == <<<<"ss", 0>>, regs.esp, <<"flags", 0>>, <<"cs", 0>>, regs.eip>> \o SAVED
sysenter_frame_of(p) ==
    <<<<"ss", 0>>, regs.ebp, <<"flags", 0>>, <<"cs", 0>>, stack[p][regs.ebp[2] - 1]>> \o SAVED

slot(f, k) == f[Len(f) - k]                  \* k words above the top
arguments(f) == <<slot(f, 0), slot(f, 1), slot(f, 2)>>

\* movl %eax, 0x18(%esp)
with_result(f, n) == [f EXCEPT ![Len(f) - 6] = Num(n)]
overwritten(f, K) == [i \in DOMAIN f |-> IF Len(f) + 1 - i \in K THEN Junk ELSE f[i]]

restored(f) == [r \in Regs |-> IF \E i \in DOMAIN Restores : Restores[i] = r
                               THEN slot(f, (CHOOSE i \in DOMAIN Restores : Restores[i] = r) - 1)
                               ELSE Junk]
iret(f) == [restored(f) EXCEPT !.esp = f[2], !.eip = f[5]]
sysexit(f) == [restored(f) EXCEPT !.esp = f[2], !.eip = f[5], !.ecx = f[2], !.edx = f[5]]

\* What task_switch leaves above the frame of p, and what its registers are
\* when it pops that again: those its caller had, if all goes well.
kernel_reg(p, r) == <<"kernel", <<p, r>>>>
switch_frame(p) == [i \in DOMAIN SwitchSaves |-> kernel_reg(p, SwitchSaves[i])]
switched_back(p) ==
    LET k == kstack[p]
        popped_at(r) == CHOOSE i \in DOMAIN SwitchRestores : SwitchRestores[i] = r
    IN  \A r \in CKept : /\ \E i \in DOMAIN SwitchRestores : SwitchRestores[i] = r
                         /\ slot(k, popped_at(r) - 1) = kernel_reg(p, r)
frame_of(p) == IF how[p] = "fork" THEN kstack[p]
               ELSE SubSeq(kstack[p], 1, Len(kstack[p]) - Len(SwitchRestores))

\* The registers a process that waits goes on with.  A forked one returns 0
\* from ret_from_fork.
resumed(q) ==
    LET f == frame_of(q)
    IN  CASE how[q] = "interrupt" -> iret(f)
          [] how[q] = "syscall" -> sysexit(with_result(f, called[q].result))
          [] how[q] = "fork" -> sysexit(with_result(f, 0))

\* The processor goes from cur, which leaves frame f and entered as by, to q.
Resume(q) ==
    /\ cur' = q
    /\ regs' = resumed(q)
    /\ status' = IF how[q] = "fork" \/ switched_back(q) THEN "ok" ELSE "wild"

Leave(p, f, by, q) ==
    /\ kstack' = [kstack EXCEPT ![p] = f \o switch_frame(p), ![q] = <<>>]
    /\ how' = [how EXCEPT ![p] = by, ![q] = "user"]

-----------------------------------------------------------------------------
\* The clock interrupt, with and without a switch.

ClockReturns ==
    /\ status = "ok"
    /\ regs' = iret(interrupt_frame)
    /\ UNCHANGED <<system, cur, stack, errno, kstack, how, alive, called, left, status>>

ClockSwitches(q) ==
    /\ status = "ok" /\ q \in alive \ {cur}
    /\ Leave(cur, interrupt_frame, "interrupt", q)
    /\ left' = [left EXCEPT ![cur] = regs, ![q] = caller_regs(q)]
    /\ Resume(q)
    /\ UNCHANGED <<system, stack, errno, alive, called>>

-----------------------------------------------------------------------------
\* The system call entry point.

number == regs.eax[2]
MAX_SYSCALL == Cardinality(DOMAIN Table)
dispatched(n) == IF n < 0 \/ n > MAX_SYSCALL THEN "none"
                 ELSE IF n = MAX_SYSCALL THEN "past_the_table" ELSE Table[n]

outcomes(h) == IF h \in {"none", "ni_syscall"} THEN {-ENOSYS}
               ELSE IF h \in MayFail THEN {Success, Failure} ELSE {Success}

\* What the history records: the handler called and what it got.
recorded(f, h, n) ==
    [called EXCEPT ![cur].handler = h, ![cur].got = arguments(f), ![cur].result = n]

arity_of(h) == IF h \in DOMAIN Arity THEN Arity[h] ELSE 0

SyscallReturns ==
    /\ AtSysenter
    /\ LET f == sysenter_frame_of(cur)
           h == dispatched(number)
       IN  /\ h \notin {"past_the_table", "exit"}
           /\ \E n \in outcomes(h), K \in SUBSET (1 .. arity_of(h)) :
                /\ regs' = sysexit(with_result(overwritten(f, K), n))
                /\ called' = recorded(f, h, n)
    /\ UNCHANGED <<system, cur, stack, errno, kstack, how, alive, left, status>>

\* Index MAX_SYSCALL passes the test (jg) and calls what follows the table.
SyscallPastTable ==
    /\ AtSysenter
    /\ dispatched(number) = "past_the_table"
    /\ status' = "wild"
    /\ UNCHANGED <<system, cur, regs, stack, errno, kstack, how, alive, called, left>>

SyscallSwitches(q) ==
    /\ AtSysenter /\ q \in alive \ {cur}
    /\ LET f == sysenter_frame_of(cur)
           h == dispatched(number)
       IN  /\ h \in Switching
           /\ Leave(cur, f, "syscall", q)
           /\ called' = recorded(f, h, Success)
           /\ alive' = IF h = "exit" THEN alive \ {cur} ELSE alive
    /\ left' = [left EXCEPT ![q] = caller_regs(q)]
    /\ Resume(q)
    /\ UNCHANGED <<system, stack, errno>>

\* fork: the child gets the memory and the kernel stack of the parent.
SyscallForks(q) ==
    /\ AtSysenter /\ q \in Procs \ alive
    /\ dispatched(number) = "fork"
    /\ LET f == sysenter_frame_of(cur)
       IN  /\ kstack' = [kstack EXCEPT ![q] = f]
           /\ regs' = sysexit(with_result(f, Success))
           /\ called' = [recorded(f, "fork", Success) EXCEPT ![q] = recorded(f, "fork", 0)[cur]]
    /\ how' = [how EXCEPT ![q] = "fork"]
    /\ stack' = [stack EXCEPT ![q] = stack[cur]]
    /\ errno' = [errno EXCEPT ![q] = errno[cur]]
    /\ alive' = alive \cup {q}
    /\ UNCHANGED <<system, cur, left, status>>

-----------------------------------------------------------------------------
Next ==
    \/ \E w \in Callable : CallWrapper(w)
    \/ \E n \in RawNumbers : CallRaw(n)
    \/ UserInstruction
    \/ ClockReturns
    \/ \E q \in Procs : ClockSwitches(q) \/ SyscallSwitches(q) \/ SyscallForks(q)
    \/ SyscallReturns
    \/ SyscallPastTable

Spec == Init /\ [][Next]_vars
=============================================================================
