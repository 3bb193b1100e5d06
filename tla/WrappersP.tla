----------------------------- MODULE WrappersP ------------------------------
(***************************************************************************)
(* The system call path of PROJECTE/zeos, as data for Entry: the wrappers  *)
(* of user-utils.S, the order in which entry.S saves and restores the      *)
(* registers, the table of sys_call_table.S and the switch of              *)
(* kernel-utils.S.  Every wrapper has the same shape.                      *)
(***************************************************************************)
EXTENDS Instructions

SYSENTER_RETURN == <<Pop("ebp"), Pop("edx"), Pop("edx"), Pop("ecx"), Ret>>
syscall_sysenter ==
    <<Push("ecx"), Push("edx"), PushNext(4), Push("ebp"), Mov("esp", "ebp"), Sysenter>>
        \o SYSENTER_RETURN

Mut_nok == <<SetErrno, Set(-1, "eax"), Pop("ebp"), Ret>>
nok == <<NegEax, SetErrno, Set(-1, "eax"), Pop("ebp"), Ret>>

entered == <<Push("ebp"), Mov("esp", "ebp")>>
loads(n) == SubSeq(<<Arg(1, "ebx"), Arg(2, "ecx"), Arg(3, "edx")>>, 1, n)
tested == <<Js("nok"), Pop("ebp"), Ret>>

\* Calls without parameters, then calls with n of them, which save EBX.
plain(nr) == entered \o <<Set(nr, "eax"), Call("syscall_sysenter")>>
Mut_wrapper(nr, n) == entered \o <<Set(nr, "eax")>> \o loads(n)
                      \o <<Call("syscall_sysenter")>> \o tested
wrapper(nr, n) == entered \o <<Push("ebx"), Set(nr, "eax")>> \o loads(n)
                  \o <<Call("syscall_sysenter"), Pop("ebx")>> \o tested

write     == wrapper(4, 3)
gettime   == plain(10) \o <<Pop("ebp"), Ret>>
getpid    == plain(20) \o <<Pop("ebp"), Ret>>
fork      == plain(2) \o tested
exit      == plain(1) \o <<Pop("ebp"), Ret>>
yield     == plain(13) \o <<Pop("ebp"), Ret>>
get_stats == wrapper(35, 2)
gotoxy    == wrapper(7, 2)
set_color == wrapper(8, 2)
read      == wrapper(5, 2)
shmat     == wrapper(15, 2)
shmdt     == wrapper(16, 1)
shmrm     == wrapper(17, 1)

P_Programs ==
    [syscall_sysenter |-> syscall_sysenter, nok |-> nok, write |-> write,
     gettime |-> gettime, getpid |-> getpid, fork |-> fork, exit |-> exit,
     yield |-> yield, get_stats |-> get_stats, gotoxy |-> gotoxy,
     set_color |-> set_color, read |-> read, shmat |-> shmat,
     shmdt |-> shmdt, shmrm |-> shmrm]

\* sys_call_table, MAX_SYSCALL entries from 0.
sys_call_table ==
    [nr \in 0 .. 35 |->
        CASE nr = 1 -> "exit" [] nr = 2 -> "fork" [] nr = 4 -> "write"
          [] nr = 5 -> "read" [] nr = 7 -> "gotoxy" [] nr = 8 -> "set_color"
          [] nr = 10 -> "gettime" [] nr = 13 -> "yield" [] nr = 15 -> "shmat"
          [] nr = 16 -> "shmdt" [] nr = 17 -> "shmrm" [] nr = 20 -> "getpid"
          [] nr = 35 -> "get_stats" [] OTHER -> "ni_syscall"]

P_Arity == [h \in DOMAIN P_Programs |->
              CASE h = "write" -> 3
                [] h \in {"get_stats", "gotoxy", "set_color", "read", "shmat"} -> 2
                [] h \in {"shmdt", "shmrm"} -> 1
                [] OTHER -> 0]

SAVE_ALL == <<"gs", "fs", "es", "ds", "eax", "ebp", "edi", "esi", "edx", "ecx", "ebx">>
RESTORE_ALL == <<"ebx", "ecx", "edx", "esi", "edi", "ebp", "eax", "ds", "es", "fs", "gs">>

\* What task_switch pushes before the switch and pops after it.
switch_saves    == <<"ebp", "esi", "edi", "ebx">>
switch_restores == <<"ebx", "edi", "esi", "ebp">>
=============================================================================
