------------------------------ MODULE MCEntry -------------------------------
EXTENDS EntryProofs

\* PROJECTE with two processes and some calls, and with one and all of them.
\* 36 is the number the entry point lets past the end of the table.
two_of_P ==
    [procs |-> {1, 2}, programs |-> P!P_Programs, table |-> P!sys_call_table,
     arity |-> P!P_Arity, callable |-> {"write", "fork", "yield", "exit"}, raw |-> {},
     may_fail |-> {"write", "fork"}, switching |-> {"yield", "exit"},
     saves |-> P!SAVE_ALL, restores |-> P!RESTORE_ALL,
     switch_saves |-> P!switch_saves, switch_restores |-> P!switch_restores,
     errno_negated |-> FALSE, lost |-> {}]

one_of_P ==
    [two_of_P EXCEPT !.procs = {1}, !.callable = P_called, !.switching = {},
        !.raw = {-1, 0, 3, 36, 37},
        !.may_fail = P_called \ Untested]

\* Of E2 only fork returns its errors; the others fault in the wrapper.
two_of_E2 ==
    [procs |-> {1, 2}, programs |-> E2!E2_Programs, table |-> E2!sys_call_table,
     arity |-> E2!E2_Arity, callable |-> DOMAIN E2!E2_Programs, raw |-> {},
     may_fail |-> {"fork"}, switching |-> {"block", "exit"},
     saves |-> E2!SAVE_ALL, restores |-> E2!RESTORE_ALL,
     switch_saves |-> E2!switch_saves, switch_restores |-> E2!switch_restores,
     errno_negated |-> TRUE, lost |-> {}]

\* E1 has one process; its write loses EBX.
one_of_E1 ==
    [two_of_E2 EXCEPT !.procs = {1}, !.programs = E1!E1_Programs,
        !.table = E1!sys_call_table, !.arity = E1!E1_Arity,
        !.callable = DOMAIN E1!E1_Programs, !.may_fail = {}, !.switching = {},
        !.saves = E1!SAVE_ALL, !.restores = E1!RESTORE_ALL,
        !.lost = {<<"write", "ebx">>}]

MCSystems == [two_of_P |-> two_of_P, one_of_P |-> one_of_P,
              two_of_E2 |-> two_of_E2, one_of_E1 |-> one_of_E1]

\* What the theorems of EntryProofs assume.
ASSUME SystemsDelivered == \A name \in DOMAIN Systems : Delivered(Systems[name])
ASSUME ProjectDelivered ==
    Depth >= 12 /\ RunsProject(Systems.two_of_P) /\ RunsProject(Systems.one_of_P)
=============================================================================
