------------------------------- MODULE Ledger -------------------------------
(***************************************************************************)
(* The balance rows that eosio.token keeps for one symbol, as a function   *)
(* from the accounts that have a row to the amount in it, and what the     *)
(* token contract's helpers do to them.  Token owns such a ledger; the     *)
(* contracts that pay with inline transfers apply the same operators.      *)
(***************************************************************************)
EXTENDS Integers, FiniteSetsExt

\* The sum of the values of f over a finite set, and over its whole domain.
SumOver(f, S) == MapThenSumSet(LAMBDA x : f[x], S)
SumOf(f) == SumOver(f, DOMAIN f)

\* A row put into a table, where it may take the place of another, or taken out.
Put(table, key, row) ==
    [k \in DOMAIN table \cup {key} |-> IF k = key THEN row ELSE table[k]]
Erase(table, key) == [k \in DOMAIN table \ {key} |-> table[k]]

\* What an account has, 0 without a row.
BalanceOf(ledger, a) == IF a \in DOMAIN ledger THEN ledger[a] ELSE 0

\* sub_balance: the row exists and holds at least v.
CanSub(ledger, owner, v) == owner \in DOMAIN ledger /\ ledger[owner] >= v
Sub(ledger, owner, v) == [ledger EXCEPT ![owner] = @ - v]

\* add_balance: creates the row of an owner that has none.
Add(ledger, owner, v) ==
    IF owner \in DOMAIN ledger
    THEN [ledger EXCEPT ![owner] = @ + v] ELSE Put(ledger, owner, v)

\* transfer(from, to, v), for a `to' that is an account.
CanTransfer(ledger, from, to, v) == from # to /\ v > 0 /\ CanSub(ledger, from, v)
Transferred(ledger, from, to, v) == Add(Sub(ledger, from, v), to, v)

(***************************************************************************)
(* The inline transfers that one action sends from one account, a set of   *)
(* records with the fields to and quantity.  They run in one transaction:  *)
(* if one of them is refused none of them happens.  Every one is taken out *)
(* of the same balance, so in any order the last is accepted exactly when  *)
(* the balance covers the total.                                           *)
(***************************************************************************)
Total(transfers) == SumOf([t \in transfers |-> t.quantity])

CanTransferAll(ledger, from, transfers) ==
    /\ \A t \in transfers : from # t.to /\ t.quantity > 0
    /\ CanSub(ledger, from, Total(transfers))

TransferredAll(ledger, from, transfers) ==
    FoldSet(LAMBDA t, l : Transferred(l, from, t.to, t.quantity), ledger, transfers)

\* The amount held in all rows of a ledger.
Held(ledger) == SumOf(ledger)
=============================================================================
