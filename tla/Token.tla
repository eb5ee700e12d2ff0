------------------------------- MODULE Token --------------------------------
(***************************************************************************)
(* eosio.token for one symbol: the row of the stat table (supply, maximum  *)
(* supply, issuer) and the balance rows, and one action per action of the  *)
(* contract.  A transaction is atomic: a failed check leaves no trace, so  *)
(* every check is a guard.  require_auth is modelled by letting the named  *)
(* account itself take the step.                                           *)
(***************************************************************************)
EXTENDS Ledger

CONSTANTS
    Accounts,    \* the accounts that exist on the chain
    Quantities,  \* the amounts an action is called with, integers of either sign
    MaxAmount,   \* asset::max_amount, a natural number: 2^62 - 1 in the code
    NoStat       \* the stat table has no row for the symbol

StatRow == [supply : Int, max_supply : Int, issuer : Accounts]

VARIABLES
    stat,     \* the stat row, or NoStat
    accounts  \* the balance rows

vars == <<stat, accounts>>

is_valid(quantity) == quantity \in -MaxAmount..MaxAmount

create(issuer, maximum_supply) ==
    /\ is_valid(maximum_supply)
    /\ maximum_supply > 0
    /\ stat = NoStat
    /\ stat' = [supply |-> 0, max_supply |-> maximum_supply, issuer |-> issuer]
    /\ UNCHANGED accounts

issue(quantity) ==
    /\ stat # NoStat
    /\ is_valid(quantity)
    /\ quantity > 0
    /\ quantity <= stat.max_supply - stat.supply
    /\ stat' = [stat EXCEPT !.supply = @ + quantity]
    /\ accounts' = Add(accounts, stat.issuer, quantity)

retire(quantity) ==
    /\ stat # NoStat
    /\ is_valid(quantity)
    /\ quantity > 0
    /\ CanSub(accounts, stat.issuer, quantity)
    /\ stat' = [stat EXCEPT !.supply = @ - quantity]
    /\ accounts' = Sub(accounts, stat.issuer, quantity)

transfer(from, to, quantity) ==
    /\ stat # NoStat
    /\ is_valid(quantity)
    /\ CanTransfer(accounts, from, to, quantity)
    /\ accounts' = Transferred(accounts, from, to, quantity)
    /\ UNCHANGED stat

open(owner) ==
    /\ stat # NoStat
    /\ accounts' = Add(accounts, owner, 0)
    /\ UNCHANGED stat

close_WithoutZeroCheck(owner) ==
    /\ owner \in DOMAIN accounts
    /\ accounts' = [a \in DOMAIN accounts \ {owner} |-> accounts[a]]
    /\ UNCHANGED stat

close(owner) ==
    /\ owner \in DOMAIN accounts
    /\ accounts[owner] = 0
    /\ accounts' = [a \in DOMAIN accounts \ {owner} |-> accounts[a]]
    /\ UNCHANGED stat

Init ==
    /\ stat = NoStat
    /\ accounts = [a \in {} |-> 0]

Next ==
    \/ \E a \in Accounts, q \in Quantities : create(a, q)
    \/ \E q \in Quantities : issue(q)
    \/ \E q \in Quantities : retire(q)
    \/ \E a, b \in Accounts, q \in Quantities : transfer(a, b, q)
    \/ \E a \in Accounts : open(a)
    \/ \E a \in Accounts : close(a)

Spec == Init /\ [][Next]_vars

-----------------------------------------------------------------------------
(* Properties                                                              *)

\* The stat row is absent or well formed, with a supply under its maximum, and
\* the balance rows belong to accounts and hold amounts that an asset carries.
TypeOK ==
    /\ stat \in StatRow \cup {NoStat}
    /\ stat # NoStat => stat.supply \in 0..stat.max_supply
    /\ \E S \in SUBSET Accounts : accounts \in [S -> 0..MaxAmount]

\* The balance rows always add up to the supply, whatever sequence of
\* issues, retirements, transfers, opened and closed rows led here: no row
\* is dropped while it holds tokens and no action forgets one of its sides.
SupplyBacked == Held(accounts) = IF stat = NoStat THEN 0 ELSE stat.supply
=============================================================================
