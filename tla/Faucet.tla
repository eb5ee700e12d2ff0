------------------------------- MODULE Faucet -------------------------------
(***************************************************************************)
(* What eosio.tedp promises to the reserves it draws from, without saying  *)
(* how: each payee has a rate, at most max_amount[p] whole tokens for      *)
(* every interval[p] seconds.  An enrolled payee has a clock; a release    *)
(* pays some payees, each at most its rate for the whole intervals that    *)
(* its clock is behind, and brings their clocks to the present.            *)
(***************************************************************************)
EXTENDS Integers

CONSTANTS
    Payees,      \* the payees
    max_amount,  \* the most a payee may be given for one interval
    interval,    \* the length of a payee's interval, in seconds
    Unit,        \* the token's indivisible units in one whole token
    MaxTime      \* bound: the last second that is looked at

VARIABLES
    now,    \* the current time
    clock,  \* the payees that are enrolled, each with its clock
    drawn   \* what has left the account for each payee, from the beginning

vars == <<now, clock, drawn>>

Intervals(p) == (now - clock[p]) \div interval[p]
Claim(p) == Intervals(p) * max_amount[p] * Unit

Tick ==
    /\ now < MaxTime
    /\ now' = now + 1
    /\ UNCHANGED <<clock, drawn>>

Enroll(p) ==
    /\ p \notin DOMAIN clock
    /\ clock' = [q \in DOMAIN clock \cup {p} |-> IF q = p THEN now ELSE clock[q]]
    /\ UNCHANGED <<now, drawn>>

Remove(p) ==
    /\ p \in DOMAIN clock
    /\ clock' = [q \in DOMAIN clock \ {p} |-> clock[q]]
    /\ UNCHANGED <<now, drawn>>

Release(S) ==
    \E paid \in [S -> UNION {0..Claim(p) : p \in S}] :
        /\ \A p \in S : paid[p] <= Claim(p)
        /\ clock' = [p \in DOMAIN clock |-> IF p \in S THEN now ELSE clock[p]]
        /\ drawn' = [p \in Payees |-> IF p \in S THEN drawn[p] + paid[p] ELSE drawn[p]]
        /\ UNCHANGED now

Init ==
    /\ now = 0
    /\ clock = [p \in {} |-> 0]
    /\ drawn = [p \in Payees |-> 0]

Next ==
    \/ Tick
    \/ \E p \in Payees : Enroll(p) \/ Remove(p)
    \/ \E S \in SUBSET DOMAIN clock : Release(S)

Spec == Init /\ [][Next]_vars

-----------------------------------------------------------------------------

\* A payee never draws more than its rate for the time that has passed,
\* however it is enrolled, removed, enrolled again and paid.
RateNeverExceeded ==
    \A p \in Payees : drawn[p] * interval[p] <= max_amount[p] * Unit * now
=============================================================================
