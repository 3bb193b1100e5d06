----------------------------- MODULE WrappersE2 -----------------------------
(***************************************************************************)
(* The system call path of E2/zeos, as data for Entry: wrappers.S,         *)
(* entry.S, sys_call_table.S and context_switch.S.                         *)
(***************************************************************************)
EXTENDS Instructions

\* The fake dynamic link, and what follows the call in (almost) every wrapper.
entered == <<Push("ebp"), Mov("esp", "ebp")>>
sysenter_frame == <<PushNext(4), Push("ebp"), Mov("esp", "ebp"), Sysenter,
                    Pop("ebp"), Drop>>
error == <<Jge(2), SetErrno, LoadMinus1>>

write ==
    entered \o <<Push("edx"), Push("ecx"), Push("ebx"),
                 Arg(1, "edx"), Arg(2, "ecx"), Arg(3, "ebx"), Set(4, "eax"),
                 Push("edx"), Push("ecx")>>
    \o sysenter_frame \o <<Pop("ecx"), Pop("edx")>> \o error
    \o <<Pop("ebx"), Pop("ecx"), Pop("edx"), Pop("ebp"), Ret>>

gettime ==
    entered \o <<Push("edx"), Push("ecx"), Set(10, "eax")>> \o sysenter_frame
    \o <<Pop("edx"), Pop("ecx")>> \o error \o <<Pop("ebp"), Ret>>

getpid ==
    entered \o <<Push("edx"), Push("ecx"), Set(20, "eax")>> \o sysenter_frame
    \o <<Pop("ecx"), Pop("edx")>> \o error \o <<Pop("ebp"), Ret>>

fork ==
    entered \o <<Push("edx"), Push("ecx"), Set(2, "eax")>> \o sysenter_frame
    \o <<Pop("ecx"), Pop("edx"), Jge(2), SetErrno, Set(-1, "eax"), Pop("ebp"), Ret>>

exit ==
    entered \o <<Set(1, "eax"), Push("edx"), Push("ecx")>> \o sysenter_frame
    \o <<Pop("edx"), Pop("ecx"), Pop("ebp"), Ret>>

block ==
    entered \o <<Set(5, "eax"), Push("edx"), Push("ecx")>> \o sysenter_frame
    \o <<Pop("ecx"), Pop("edx"), Pop("ebp"), Ret>>

Mut_unblock ==
    entered \o <<Arg(1, "ebx"), Set(6, "eax"), Push("edx"), Push("ecx")>>
    \o sysenter_frame \o <<Pop("ecx"), Pop("edx")>> \o error \o <<Pop("ebp"), Ret>>
unblock ==
    entered \o <<Push("edx"), Arg(1, "edx"), Set(6, "eax"), Push("edx"), Push("ecx")>>
    \o sysenter_frame \o <<Pop("ecx"), Pop("edx")>> \o error
    \o <<Pop("edx"), Pop("ebp"), Ret>>

E2_Programs == [write |-> write, gettime |-> gettime, getpid |-> getpid, fork |-> fork,
                exit |-> exit, block |-> block, unblock |-> unblock]

sys_call_table ==
    [nr \in 0 .. 20 |->
        CASE nr = 1 -> "exit" [] nr = 2 -> "fork" [] nr = 4 -> "write"
          [] nr = 5 -> "block" [] nr = 6 -> "unblock" [] nr = 10 -> "gettime"
          [] nr = 20 -> "getpid" [] OTHER -> "ni_syscall"]

E2_Arity == [h \in DOMAIN E2_Programs |-> CASE h = "write" -> 3 [] h = "unblock" -> 1
                                            [] OTHER -> 0]

SAVE_ALL == <<"gs", "fs", "es", "ds", "eax", "ebp", "edi", "esi", "ebx", "ecx", "edx">>
Mut_RESTORE_ALL == <<"edx", "ecx", "ebx", "edi", "esi", "ebp", "eax", "ds", "es", "fs", "gs">>
RESTORE_ALL == <<"edx", "ecx", "ebx", "esi", "edi", "ebp", "eax", "ds", "es", "fs", "gs">>

\* task_switch of context_switch.S.  inner_task_switch_ass overwrites EBX,
\* which task_switch has saved.
switch_saves    == <<"ebp", "esi", "ebx", "edi">>
switch_restores == <<"edi", "ebx", "esi", "ebp">>
=============================================================================
