---------------------------- MODULE Instructions ----------------------------
(***************************************************************************)
(* The instructions the assembler files of ZeOS are written with, as far   *)
(* as the system call path uses them, and what each does to a context: the *)
(* registers and the stack of a process, its errno and its state.          *)
(*                                                                         *)
(* Values are pairs <<kind, what>>: numbers, the original contents of a    *)
(* register, the n-th argument of a call, a place in the stack ("sp"), an  *)
(* address in a program ("at", with the program and the index in it), and  *)
(* junk.  The stack is an array; a "sp" value is the index of its top.     *)
(***************************************************************************)
EXTENDS Integers, Sequences

Num(n) == <<"num", n>>
Sp(i) == <<"sp", i>>
At(prog, i) == <<"at", <<prog, i>>>>
Junk == <<"junk", 0>>

Push(r)      == <<"push", r>>
PushNext(k)  == <<"push_next", k>>    \* the address k instructions ahead
Pop(r)       == <<"pop", r>>
Drop         == <<"drop">>            \* add $4, %esp
Mov(from, to) == <<"mov", from, to>>
Set(n, r)    == <<"set", n, r>>
Arg(k, r)    == <<"arg", k, r>>       \* 4*(k+1)(%ebp)
Call(prog)   == <<"call", prog>>
Ret          == <<"ret">>
Sysenter     == <<"sysenter">>
Jge(k)       == <<"jge", k>>          \* skips k instructions if eax >= 0
Js(prog)     == <<"js", prog>>
NegEax       == <<"neg_eax">>
SetErrno     == <<"set_errno">>       \* mov %eax, errno
LoadMinus1   == <<"load_minus_1">>    \* movl -1, %eax: reads address -1

-----------------------------------------------------------------------------
\* A context: regs (eip among them), stack, errno, state.

top(c) == c.regs.esp[2]
pushed(c, v) == [c EXCEPT !.stack[top(c) + 1] = v, !.regs.esp = Sp(top(c) + 1)]
popped(c) == [c EXCEPT !.regs.esp = Sp(top(c) - 1)]
next(c, k) == At(c.regs.eip[2][1], c.regs.eip[2][2] + k)
goto(c, a) == [c EXCEPT !.regs.eip = a]
negative(v) == v[1] = "num" /\ v[2] < 0

\* The last case: LoadMinus1, or what is no instruction.
executed(c, i) ==
    LET ahead(d) == goto(d, next(c, 1)) IN
    CASE i[1] = "push"      -> ahead(pushed(c, c.regs[i[2]]))
      [] i[1] = "push_next" -> ahead(pushed(c, next(c, i[2])))
      [] i[1] = "pop"       -> ahead([popped(c) EXCEPT !.regs[i[2]] = c.stack[top(c)]])
      [] i[1] = "drop"      -> ahead(popped(c))
      [] i[1] = "mov"       -> ahead([c EXCEPT !.regs[i[3]] = c.regs[i[2]]])
      [] i[1] = "set"       -> ahead([c EXCEPT !.regs[i[3]] = Num(i[2])])
      [] i[1] = "arg"       -> ahead([c EXCEPT
                                   !.regs[i[3]] = c.stack[c.regs.ebp[2] - i[2] - 1]])
      [] i[1] = "call"      -> goto(pushed(c, next(c, 1)), At(i[2], 1))
      [] i[1] = "ret"       -> goto(popped(c), c.stack[top(c)])
      [] i[1] = "jge"       -> goto(c, next(c, IF negative(c.regs.eax) THEN 1
                                               ELSE i[2] + 1))
      [] i[1] = "js"        -> IF negative(c.regs.eax) THEN goto(c, At(i[2], 1))
                               ELSE ahead(c)
      [] i[1] = "neg_eax"   -> ahead([c EXCEPT !.regs.eax = Num(- @[2])])
      [] i[1] = "set_errno" -> ahead([c EXCEPT !.errno = c.regs.eax])
      [] OTHER              -> [c EXCEPT !.state = "fault"]
=============================================================================
