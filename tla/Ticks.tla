------------------------------- MODULE Ticks --------------------------------
(***************************************************************************)
(* The clock of the process statistics (utils.c): get_ticks divides the    *)
(* time stamp counter, a double word, by CYCLESPERTICK with two divisions  *)
(* of a double word by a word, and returns the low word of the quotient.   *)
(* A charge adds the difference of two readings to a counter.              *)
(***************************************************************************)
EXTENDS Integers

CONSTANTS
    W,                 \* values of a word (2^32)
    CYCLESPERTICK,
    Steps              \* bound: cycles between two steps

ASSUME TicksAssumption ==
    /\ W \in Nat \ {0} /\ CYCLESPERTICK \in 1 .. W - 1
    /\ Steps \subseteq Nat

\* divl: the quotient must fit in a word, or the processor raises an
\* exception.
divl(upper, low, base) ==
    [quotient |-> (upper * W + low) \div base, rest |-> (upper * W + low) % base]

do_div(high, low, base) ==
    LET upper == IF high # 0 THEN high % base ELSE high
        d == divl(upper, low, base)
    IN  [high |-> IF high # 0 THEN high \div base ELSE high,
         low |-> d.quotient, rest |-> d.rest]

get_ticks(tsc) == do_div(tsc \div W, tsc % W, CYCLESPERTICK).low

-----------------------------------------------------------------------------
VARIABLES
    tsc,                    \* rdtsc
    elapsed_total_ticks,    \* the reading the next charge counts from
    charged,                \* an unsigned long of struct stats
    start                   \* history: the counter at init_stats
vars == <<tsc, elapsed_total_ticks, charged, start>>

Init ==
    /\ tsc \in 0 .. W * W - 1 /\ start = tsc
    /\ elapsed_total_ticks = get_ticks(tsc)
    /\ charged = 0

Cycles(n) ==
    /\ tsc + n < W * W
    /\ tsc' = tsc + n
    /\ UNCHANGED <<elapsed_total_ticks, charged, start>>

Mut_Charge ==
    /\ charged' = (charged + get_ticks(tsc) - elapsed_total_ticks) % W
    /\ UNCHANGED <<tsc, elapsed_total_ticks, start>>
Charge ==
    /\ charged' = (charged + get_ticks(tsc) - elapsed_total_ticks) % W
    /\ elapsed_total_ticks' = get_ticks(tsc)
    /\ UNCHANGED <<tsc, start>>

Next == Charge \/ \E n \in Steps : Cycles(n)
Spec == Init /\ [][Next]_vars

-----------------------------------------------------------------------------
ticks(cycles) == cycles \div CYCLESPERTICK

\* The two divisions make up the division of the whole counter, and the
\* second never raises the exception.
Exact ==
    LET d == do_div(tsc \div W, tsc % W, CYCLESPERTICK)
    IN  /\ d.low \in 0 .. W - 1
        /\ d.high * W + d.low = ticks(tsc) /\ d.rest = tsc % CYCLESPERTICK

\* Although a reading keeps only a word, which wraps, the charges add up to
\* the time that went by, in a word.
ChargesAddUp ==
    /\ elapsed_total_ticks \in 0 .. W - 1
    /\ \E t \in start .. tsc : /\ elapsed_total_ticks = ticks(t) % W
                               /\ charged = (ticks(t) - ticks(start)) % W
=============================================================================
