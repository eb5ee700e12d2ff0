------------------------------ MODULE Consent -------------------------------
(***************************************************************************)
(* What eosio.msig promises, without its tables and times: a proposal has  *)
(* a transaction and the levels that stand behind it; levels join and      *)
(* leave; and the transaction is sent only while those who stand behind it *)
(* have the authority for it, after which the proposal is no more.         *)
(***************************************************************************)
CONSTANTS
    Names,             \* the proposals, each by its proposer and name
    Levels,            \* the permission levels
    Trxs,              \* the transactions
    NoTrx,
    Authorized(_, _)   \* a transaction has the authority of a set of levels

VARIABLES
    open,      \* the transaction of each proposal, or NoTrx
    standing,  \* the levels that stand behind each proposal
    sent       \* the transaction that each proposal has sent, until it is run

vars == <<open, standing, sent>>

Init ==
    /\ open \in [Names -> Trxs \cup {NoTrx}]
    /\ standing \in [Names -> SUBSET Levels]
    /\ sent = [p \in Names |-> NoTrx]

Propose(p, trx) ==
    /\ open[p] = NoTrx
    /\ open' = [open EXCEPT ![p] = trx]
    /\ standing' = [standing EXCEPT ![p] = {}]
    /\ UNCHANGED sent

Join(p, level) ==
    /\ open[p] # NoTrx
    /\ standing' = [standing EXCEPT ![p] = @ \cup {level}]
    /\ UNCHANGED <<open, sent>>

\* Levels leave one proposal, or many at once.
Leave(gone) ==
    /\ standing' = [p \in Names |-> standing[p] \ gone[p]]
    /\ UNCHANGED <<open, sent>>

Drop(p) ==
    /\ open' = [open EXCEPT ![p] = NoTrx]
    /\ standing' = [standing EXCEPT ![p] = {}]
    /\ UNCHANGED sent

Send(p) ==
    /\ open[p] # NoTrx /\ sent[p] = NoTrx
    /\ Authorized(open[p], standing[p])
    /\ sent' = [sent EXCEPT ![p] = open[p]]
    /\ open' = [open EXCEPT ![p] = NoTrx]
    /\ standing' = [standing EXCEPT ![p] = {}]

Run(p) ==
    /\ sent' = [sent EXCEPT ![p] = NoTrx]
    /\ UNCHANGED <<open, standing>>

Next ==
    \/ \E p \in Names : \/ \E trx \in Trxs : Propose(p, trx)
                        \/ \E level \in Levels : Join(p, level)
                        \/ Drop(p)
                        \/ Send(p)
                        \/ Run(p)
    \/ \E gone \in [Names -> SUBSET Levels] : Leave(gone)

Spec == Init /\ [][Next]_vars
=============================================================================
