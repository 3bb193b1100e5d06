----------------------------- MODULE WrappersE1 -----------------------------
(***************************************************************************)
(* The system call path of E1/zeos, as data for Entry: wrappers.S, entry.S *)
(* and sys_call_table.S.  There is one process, so nothing is switched.    *)
(***************************************************************************)
EXTENDS Instructions

error == <<Jge(2), SetErrno, LoadMinus1>>
sysenter_frame == <<PushNext(4), Push("ebp"), Mov("esp", "ebp"), Sysenter,
                    Pop("ebp"), Drop>>

write ==
    <<Push("ebp"), Mov("esp", "ebp"), Push("edx"), Push("ecx"),
      Arg(1, "edx"), Arg(2, "ecx"), Arg(3, "ebx"), Set(4, "eax")>>
    \o sysenter_frame \o <<Pop("ecx"), Pop("edx")>> \o error \o <<Pop("ebp"), Ret>>

gettime ==
    <<Push("ebp"), Mov("esp", "ebp"), Push("edx"), Push("ecx"), Set(10, "eax")>>
    \o sysenter_frame \o <<Pop("ecx"), Pop("edx")>> \o error \o <<Pop("ebp"), Ret>>

E1_Programs == [write |-> write, gettime |-> gettime]

sys_call_table ==
    [nr \in 0 .. 10 |-> CASE nr = 4 -> "write" [] nr = 10 -> "gettime"
                          [] OTHER -> "ni_syscall"]

E1_Arity == [h \in DOMAIN E1_Programs |-> IF h = "write" THEN 3 ELSE 0]

SAVE_ALL == <<"gs", "fs", "es", "ds", "eax", "ebp", "edi", "esi", "ebx", "ecx", "edx">>
RESTORE_ALL == <<"edx", "ecx", "ebx", "esi", "edi", "ebp", "eax", "ds", "es", "fs", "gs">>
=============================================================================
