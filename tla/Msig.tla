-------------------------------- MODULE Msig --------------------------------
(***************************************************************************)
(* eosio.msig: proposals, the approvals they wait for and have, the        *)
(* invalidations of accounts, and the deferred transactions that exec      *)
(* sends.  Approvals are kept in one of two tables: a proposal older than  *)
(* the contract has a row in the old one, which does not say when a level  *)
(* approved.  Time is counted in blocks of half a second.                  *)
(***************************************************************************)
EXTENDS Integers

CONSTANTS
    Names,             \* the proposals, each by its proposer and name
    Accounts,
    Proposer,          \* the proposer of each name
    Levels,            \* the permission levels
    Actor,             \* the account of each level
    Trxs,              \* the transactions
    Expiration,        \* of each transaction, in seconds
    Delay,             \* of each transaction, in blocks
    Authorized(_, _),  \* check_transaction_authorization, for a set of levels
    NoTrx,             \* the name has no proposal, or the call has no hash
    NoTime,            \* the account has no row among the invalidations
    MaxTime            \* the last block

ASSUME MsigAssumption ==
    /\ Proposer \in [Names -> Accounts]
    /\ Actor \in [Levels -> Accounts]
    /\ Expiration \in [Trxs -> Nat]
    /\ Delay \in [Trxs -> Nat]
    /\ NoTrx \notin Trxs
    /\ NoTime \notin Nat
    /\ MaxTime \in Nat

VARIABLES
    now,
    proposals,      \* the transaction of each proposal, or NoTrx
    approvals,      \* the row of each proposal in the table that is_old says
    invalidations,  \* last_invalidation_time of each account, or NoTime
    deferred,       \* what the contract has sent under each name, until it is run
    consent         \* history: the levels that have approved and not withdrawn
                    \* since, with the transaction they gave the hash of, if any

vars == <<now, proposals, approvals, invalidations, deferred, consent>>

\* The conversion of a time_point to a time_point_sec.
Seconds(time) == time \div 2

NoRow == [is_old |-> FALSE, requested |-> {}, provided |-> {}]

NoSend == [trx |-> NoTrx, delay_until |-> 0]

Init ==
    /\ now = 0
    /\ proposals \in [Names -> Trxs \cup {NoTrx}]
    /\ approvals = [p \in Names |->
                      IF proposals[p] = NoTrx THEN NoRow
                      ELSE [NoRow EXCEPT !.is_old = TRUE, !.requested = Levels]]
    /\ invalidations = [a \in Accounts |-> NoTime]
    /\ deferred = [p \in Names |-> NoSend]
    /\ consent = [p \in Names |-> {}]

-----------------------------------------------------------------------------
(* The actions of the contract                                             *)

propose(p, requested, trx) ==
    /\ Expiration[trx] >= Seconds(now)
    /\ proposals[p] = NoTrx
    /\ Authorized(trx, requested)
    /\ proposals' = [proposals EXCEPT ![p] = trx]
    /\ approvals' = [approvals EXCEPT ![p] = [NoRow EXCEPT !.requested = requested]]
    /\ consent' = [consent EXCEPT ![p] = {}]
    /\ UNCHANGED <<now, invalidations, deferred>>

\* The level moves from one list of the row to the other, with the time.
approve(p, level, hash) ==
    /\ hash # NoTrx => hash = proposals[p]
    /\ level \in approvals[p].requested
    /\ LET time == IF approvals[p].is_old THEN 0 ELSE now
       IN  approvals' = [approvals EXCEPT
                           ![p].requested = @ \ {level},
                           ![p].provided = @ \cup {[level |-> level, time |-> time]}]
    /\ consent' = [consent EXCEPT ![p] = @ \cup {[level |-> level, hash |-> hash]}]
    /\ UNCHANGED <<now, proposals, invalidations, deferred>>

\* The levels of a set of approvals, and those approvals without a level's.
LevelsOf(given) == {a.level : a \in given}
Without(given, level) == {a \in given : a.level # level}

unapprove(p, level) ==
    /\ level \in LevelsOf(approvals[p].provided)
    /\ approvals' = [approvals EXCEPT ![p].requested = @ \cup {level},
                                      ![p].provided = Without(@, level)]
    /\ consent' = [consent EXCEPT ![p] = Without(@, level)]
    /\ UNCHANGED <<now, proposals, invalidations, deferred>>

cancel_KeepsApprovals(p, canceler) ==
    /\ proposals[p] # NoTrx
    /\ canceler # Proposer[p] => Expiration[proposals[p]] < Seconds(now)
    /\ proposals' = [proposals EXCEPT ![p] = NoTrx]
    /\ consent' = [consent EXCEPT ![p] = {}]
    /\ UNCHANGED <<now, approvals, invalidations, deferred>>

cancel(p, canceler) ==
    /\ proposals[p] # NoTrx
    /\ canceler # Proposer[p] => Expiration[proposals[p]] < Seconds(now)
    /\ proposals' = [proposals EXCEPT ![p] = NoTrx]
    /\ approvals' = [approvals EXCEPT ![p] = NoRow]
    /\ consent' = [consent EXCEPT ![p] = {}]
    /\ UNCHANGED <<now, invalidations, deferred>>

Counts_OnTheSameBlock(p, a) ==
    \/ invalidations[Actor[a.level]] = NoTime
    \/ ~approvals[p].is_old /\ invalidations[Actor[a.level]] <= a.time

\* An approval counts if its account has not invalidated it since; an old one
\* has no time, so that any invalidation is one of it.
Counts(p, a) ==
    \/ invalidations[Actor[a.level]] = NoTime
    \/ ~approvals[p].is_old /\ invalidations[Actor[a.level]] < a.time

Counted(p) == LevelsOf({a \in approvals[p].provided : Counts(p, a)})

exec_EvenIfInvalidated(p) ==
    /\ proposals[p] # NoTrx
    /\ Expiration[proposals[p]] >= Seconds(now)
    /\ Authorized(proposals[p], LevelsOf(approvals[p].provided))
    /\ deferred[p] = NoSend
    /\ deferred' = [deferred EXCEPT ![p] = [trx |-> proposals[p],
                                            delay_until |-> now + Delay[proposals[p]]]]
    /\ proposals' = [proposals EXCEPT ![p] = NoTrx]
    /\ approvals' = [approvals EXCEPT ![p] = NoRow]
    /\ consent' = [consent EXCEPT ![p] = {}]
    /\ UNCHANGED <<now, invalidations>>

\* A deferred transaction is refused while one with the same id is waiting.
exec(p) ==
    /\ proposals[p] # NoTrx
    /\ Expiration[proposals[p]] >= Seconds(now)
    /\ Authorized(proposals[p], Counted(p))
    /\ deferred[p] = NoSend
    /\ deferred' = [deferred EXCEPT ![p] = [trx |-> proposals[p],
                                            delay_until |-> now + Delay[proposals[p]]]]
    /\ proposals' = [proposals EXCEPT ![p] = NoTrx]
    /\ approvals' = [approvals EXCEPT ![p] = NoRow]
    /\ consent' = [consent EXCEPT ![p] = {}]
    /\ UNCHANGED <<now, invalidations>>

invalidate(account) ==
    /\ invalidations' = [invalidations EXCEPT ![account] = now]
    /\ consent' = [p \in Names |->
                     {a \in consent[p] : Actor[a.level] # account}]
    /\ UNCHANGED <<now, proposals, approvals, deferred>>

-----------------------------------------------------------------------------
(* The chain                                                               *)

\* What was sent is run once its delay is over, or dropped if it fails.
Run(p) ==
    /\ deferred[p] # NoSend /\ deferred[p].delay_until <= now
    /\ deferred' = [deferred EXCEPT ![p] = NoSend]
    /\ UNCHANGED <<now, proposals, approvals, invalidations, consent>>

Tick ==
    /\ now < MaxTime
    /\ now' = now + 1
    /\ UNCHANGED <<proposals, approvals, invalidations, deferred, consent>>

Next ==
    \/ \E p \in Names :
         \/ \E requested \in SUBSET Levels, trx \in Trxs : propose(p, requested, trx)
         \/ \E level \in Levels :
              \/ \E hash \in Trxs \cup {NoTrx} : approve(p, level, hash)
              \/ unapprove(p, level)
         \/ \E canceler \in Accounts : cancel(p, canceler)
         \/ exec(p)
         \/ Run(p)
    \/ \E account \in Accounts : invalidate(account)
    \/ Tick

Spec == Init /\ [][Next]_vars

-----------------------------------------------------------------------------
(* Properties                                                              *)

Rows == [is_old : BOOLEAN, requested : SUBSET Levels,
         provided : SUBSET [level : Levels, time : Nat]]

\* The tables are well formed, and the rows of a proposal come and go with it.
TypeOK ==
    /\ now \in Nat
    /\ proposals \in [Names -> Trxs \cup {NoTrx}]
    /\ approvals \in [Names -> Rows]
    /\ invalidations \in [Accounts -> Nat \cup {NoTime}]
    /\ deferred \in [Names -> [trx : Trxs \cup {NoTrx}, delay_until : Nat]]
    /\ consent \in [Names -> SUBSET [level : Levels, hash : Trxs \cup {NoTrx}]]
    /\ \A p \in Names : proposals[p] = NoTrx => approvals[p] = NoRow
    /\ \A p \in Names : deferred[p].trx = NoTrx <=> deferred[p] = NoSend

\* An approval never counts once it was withdrawn, one by one or by an
\* invalidation, in whatever order and blocks these calls come, nor, if it
\* came with a hash, for another transaction, though the proposal was canceled
\* and made anew under its name before the call arrived.  One that stands
\* counts, but in the block of an invalidation and for an old proposal after
\* any: exec compares times that are the same for a whole block.
CountedIsConsent ==
    \A p \in Names :
      /\ Counted(p) \subseteq LevelsOf({a \in consent[p] : a.hash \in {NoTrx, proposals[p]}})
      /\ LevelsOf(consent[p]) \subseteq LevelsOf(approvals[p].provided)
      /\ \A a \in approvals[p].provided :
           a.level \in LevelsOf(consent[p]) =>
             \/ Counts(p, a)
             \/ approvals[p].is_old
             \/ invalidations[Actor[a.level]] = a.time

\* A transaction is sent at most once for each proposal, by those who stand
\* behind it when it is sent, and then nobody approves or withdraws any more.
Promise == INSTANCE Consent WITH
    open <- proposals,
    standing <- [p \in Names |-> Counted(p)],
    sent <- [p \in Names |-> deferred[p].trx]

ImplementsConsent == Promise!Spec
=============================================================================
