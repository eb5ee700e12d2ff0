---------------------------- MODULE NameAuctions ----------------------------
(***************************************************************************)
(* The auctions of account names (name_bidding.cpp), the daily close of    *)
(* one of them in onblock (producer_pay.cpp), and the creation of accounts *)
(* (native::newaccount), over the balances of eosio.token, whose own       *)
(* actions the same accounts call.  The refund of a bidder is sent as a    *)
(* deferred transaction, which the chain may run, late or early, or drop.  *)
(* Names are numbers.  A block here is one that updates the schedule.      *)
(***************************************************************************)
EXTENDS Ledger, Sequences

CONSTANTS
    Accounts, Quantities, MaxAmount, NoStat,  \* of eosio.token
    Bidders,        \* accounts that bid and create accounts
    names_account, rex_account, eosio,
    Premium,        \* the names that are auctioned: short ones without a dot
    Others,         \* names that no auction is about: long, or with a suffix
    Suffix,         \* of each of the others, 0 for a name that has no dot
    Bids,           \* the amounts that are bid
    Funds,          \* what each bidder has to begin with
    day,            \* blocks_per_day
    activation,     \* the time from which on names are sold
    MaxTime,        \* the last block
    Budgets         \* how many calls there may be: [token, auction]

ASSUME NamesAssumption ==
    /\ Bidders \cup {names_account, rex_account} \subseteq Accounts
    /\ {eosio, names_account, rex_account} \cap Bidders = {}
    /\ names_account # rex_account
    /\ Premium \cup Others \subseteq Nat \ {0} /\ Premium \cap Others = {}
    /\ Suffix \in [Others -> Premium \cup {0}]
    /\ Quantities \subseteq Int /\ MaxAmount \in Nat
    /\ Bids \subseteq Int /\ Funds \in Nat
    /\ {day, activation, MaxTime} \subseteq Nat
    /\ Budgets \subseteq [token : Nat, auction : Nat]

\* The system begins with finitely many tokens, of finitely many bidders.
ASSUME FundsAssumption ==
    /\ IsFiniteSet(Bidders)
    /\ Funds * Cardinality(Bidders) <= MaxAmount

VARIABLES
    stat, accounts,   \* the tables of eosio.token
    bids,             \* namebids, for the names that have a row
    refunds,          \* bidrefunds: the amount, for each bidder and name with a row
    deferred,         \* the bidders and names whose refund is on its way
    dropped,          \* history: those whose refund the chain has dropped
    owners,           \* the names of accounts that exist, and who created each
    rex,              \* whether REX is available, and its namebid_proceeds
    last_name_close, now,
    budget

auction == <<bids, refunds, deferred, dropped, owners, rex, last_name_close, now>>
vars == <<stat, accounts, auction, budget>>

T == INSTANCE Token

ASSUME NoStatAssumption == NoStat \notin T!StatRow

NoRows == [x \in {} |-> 0]

Init ==
    /\ bids = NoRows /\ refunds = NoRows /\ owners = NoRows
    /\ deferred = {} /\ dropped = {}
    /\ rex \in [available : BOOLEAN, namebid_proceeds : {0}]
    /\ last_name_close = 0 /\ now = 0
    /\ budget \in Budgets
    /\ IF budget.auction = 0 THEN T!Init
       ELSE /\ \E issuer \in Bidders :
                 stat = [supply |-> Funds * Cardinality(Bidders), max_supply |-> MaxAmount,
                         issuer |-> issuer]
            /\ accounts = [b \in Bidders |-> Funds]

-----------------------------------------------------------------------------
(* Bids and their refunds                                                  *)

Called == budget.auction > 0 /\ budget' = [budget EXCEPT !.auction = @ - 1]

Row(bidder, bid) == [high_bidder |-> bidder, high_bid |-> bid, last_bid_time |-> now]

Owed_LastOnly(outbid, amount) == Put(refunds, outbid, amount)
Resent_IfNew(outbid) == IF outbid \in DOMAIN refunds THEN deferred \ {outbid} ELSE deferred \cup {outbid}

\* What the bidder who is outbid is owed adds to what it is owed already, and
\* the deferred transaction for it takes the place of one that waits.
Owed(outbid, amount) == Add(refunds, outbid, amount)
Resent(outbid) == deferred \cup {outbid}

bidname(bidder, newname, bid) ==
    LET current == bids[newname]
        outbid == <<current.high_bidder, newname>>
    IN  /\ Called
        /\ newname \notin DOMAIN owners
        /\ bid > 0 /\ CanTransfer(accounts, bidder, names_account, bid)
        /\ accounts' = Transferred(accounts, bidder, names_account, bid)
        /\ IF newname \notin DOMAIN bids THEN UNCHANGED <<refunds, deferred, dropped>>
           ELSE /\ current.high_bid > 0
                /\ bid - current.high_bid > current.high_bid \div 10
                /\ current.high_bidder # bidder
                /\ refunds' = Owed(outbid, current.high_bid)
                /\ deferred' = Resent(outbid)
                /\ dropped' = dropped \ {outbid}
        /\ bids' = Put(bids, newname, Row(bidder, bid))
        /\ UNCHANGED <<stat, owners, rex, last_name_close, now>>

Refunded_KeepsRow(r) ==
    /\ r \in DOMAIN refunds
    /\ CanTransfer(accounts, names_account, r[1], refunds[r])
    /\ accounts' = Transferred(accounts, names_account, r[1], refunds[r])
    /\ dropped' = dropped \ {r}
    /\ UNCHANGED refunds

\* A bidder and a name: the refund is paid and its row erased.
Refunded(r) ==
    /\ r \in DOMAIN refunds
    /\ CanTransfer(accounts, names_account, r[1], refunds[r])
    /\ accounts' = Transferred(accounts, names_account, r[1], refunds[r])
    /\ refunds' = [s \in DOMAIN refunds \ {r} |-> refunds[s]]
    /\ dropped' = dropped \ {r}

\* Anyone may ask for the refund of a bidder.
bidrefund(bidder, newname) ==
    /\ Called
    /\ Refunded(<<bidder, newname>>)
    /\ UNCHANGED <<stat, bids, deferred, owners, rex, last_name_close, now>>

\* The chain runs a deferred refund, which fails if there is no row, or drops it.
RunDeferred(r) ==
    /\ r \in deferred
    /\ deferred' = deferred \ {r}
    /\ \/ Refunded(r)
       \/ dropped' = dropped \cup ({r} \cap DOMAIN refunds) /\ UNCHANGED <<accounts, refunds>>
    /\ UNCHANGED <<stat, bids, owners, rex, last_name_close, now, budget>>

-----------------------------------------------------------------------------
(* The close of an auction, and the creation of accounts                   *)

by_high_bid_Unsigned(n) == bids[n].high_bid
by_high_bid(n) == -bids[n].high_bid

\* The first of the open auctions in the index highbid, if there is one.
Highest ==
    {n \in DOMAIN bids :
       /\ bids[n].high_bid > 0
       /\ \A m \in DOMAIN bids :
            bids[m].high_bid > 0 =>
              \/ by_high_bid(n) < by_high_bid(m)
              \/ by_high_bid(n) = by_high_bid(m) /\ n <= m}

channel_namebid_to_rex(highest_bid) ==
    rex' = IF rex.available THEN [rex EXCEPT !.namebid_proceeds = @ + highest_bid] ELSE rex

\* A block closes the highest auction, if it had no bid for a day and none was
\* closed for a day.
Block ==
    /\ now < MaxTime
    /\ now' = now + 1
    /\ IF now' > activation /\ now' - last_name_close > day
       THEN \/ \E n \in Highest :
                 /\ now' - bids[n].last_bid_time > day
                 /\ last_name_close' = now'
                 /\ channel_namebid_to_rex(bids[n].high_bid)
                 /\ bids' = [bids EXCEPT ![n].high_bid = -@]
            \/ /\ \A n \in Highest : now' - bids[n].last_bid_time <= day
               /\ UNCHANGED <<last_name_close, rex, bids>>
       ELSE UNCHANGED <<last_name_close, rex, bids>>
    /\ UNCHANGED <<stat, accounts, refunds, deferred, dropped, owners, budget>>

Claimed_KeepsRow(newact) == bids
Claimed(newact) == [n \in DOMAIN bids \ {newact} |-> bids[n]]

\* An account that may create others under its name was created before them.
newaccount(creator, newact) ==
    /\ Called
    /\ newact \notin DOMAIN owners
    /\ IF creator # eosio /\ newact \in Premium
       THEN /\ newact \in DOMAIN bids
            /\ bids[newact].high_bidder = creator /\ bids[newact].high_bid < 0
            /\ bids' = Claimed(newact)
       ELSE UNCHANGED bids
    /\ creator # eosio /\ newact \in Others /\ Suffix[newact] # 0 => creator = Suffix[newact]
    /\ owners' = Put(owners, newact, creator)
    /\ UNCHANGED <<stat, accounts, refunds, deferred, dropped, rex, last_name_close, now>>

\* runrex moves the proceeds to REX, which comes and goes with its owners.
runrex ==
    /\ rex.available /\ rex.namebid_proceeds > 0
    /\ CanTransfer(accounts, names_account, rex_account, rex.namebid_proceeds)
    /\ accounts' = Transferred(accounts, names_account, rex_account, rex.namebid_proceeds)
    /\ rex' = [rex EXCEPT !.namebid_proceeds = 0]
    /\ UNCHANGED <<stat, bids, refunds, deferred, dropped, owners, last_name_close, now, budget>>

RexChanges ==
    /\ Called
    /\ rex' = [rex EXCEPT !.available = ~@]
    /\ UNCHANGED <<stat, accounts, bids, refunds, deferred, dropped, owners,
                   last_name_close, now>>

-----------------------------------------------------------------------------
(* The actions of eosio.token, of accounts other than the system's          *)

TokenCalled ==
    /\ budget.token > 0 /\ budget' = [budget EXCEPT !.token = @ - 1]
    /\ UNCHANGED auction

Next ==
    \/ \E b \in Bidders, n \in Premium :
         \/ \E bid \in Bids : bidname(b, n, bid)
         \/ bidrefund(b, n)
         \/ RunDeferred(<<b, n>>)
    \/ \E creator \in Bidders \cup {eosio} \cup DOMAIN owners, n \in Premium \cup Others :
         newaccount(creator, n)
    \/ Block
    \/ runrex
    \/ RexChanges
    \/ \E b \in Bidders, q \in Quantities : T!create(b, q) /\ TokenCalled
    \/ \E q \in Quantities : T!issue(q) /\ TokenCalled
    \/ \E q \in Quantities : T!retire(q) /\ TokenCalled
    \/ \E a, b \in Bidders, q \in Quantities : T!transfer(a, b, q) /\ TokenCalled
    \/ \E b \in Bidders : T!open(b) /\ TokenCalled
    \/ \E b \in Bidders : T!close(b) /\ TokenCalled

Spec == Init /\ [][Next]_vars

-----------------------------------------------------------------------------
(* Properties                                                              *)

Pairs == Bidders \X Premium

\* The rows are well formed, only a closed auction has a negative bid, and
\* a name that a bidder has claimed has no auction any more.
TypeOK ==
    /\ T!TypeOK
    /\ DOMAIN bids \subseteq Premium
    /\ \A n \in DOMAIN bids :
         /\ bids[n].high_bidder \in Bidders /\ bids[n].last_bid_time \in 0..now
         /\ bids[n].high_bid \in Int \ {0}
         /\ n \in DOMAIN owners => owners[n] = eosio
    /\ DOMAIN refunds \subseteq Pairs /\ \A r \in DOMAIN refunds : refunds[r] > 0
    /\ deferred \subseteq Pairs /\ dropped \subseteq Pairs
    /\ DOMAIN owners \subseteq Premium \cup Others
    /\ rex.available \in BOOLEAN /\ rex.namebid_proceeds \in Nat

\* The balance rows always add up to the supply, whatever sequence of
\* issues, retirements, transfers, bids, refunds, opened and closed rows led
\* here: no row is dropped while it holds tokens and no action forgets one
\* of its sides.
SupplyBacked == T!SupplyBacked

Balance(a) == BalanceOf(accounts, a)
OpenBids == {n \in DOMAIN bids : bids[n].high_bid > 0}
HighBids == [n \in OpenBids |-> bids[n].high_bid]

\* eosio.names can pay every refund, the high bid of every open auction,
\* should it be outbid, and the proceeds that REX will take, all at once.
NamesBacked ==
    Balance(names_account) >= SumOf(refunds) + SumOf(HighBids) + rex.namebid_proceeds

\* Every refund row has a deferred transaction on its way that pays it, but
\* for those that the chain has dropped: the later outbid of a bidder who
\* has a refund to get never takes away the one that was under way.
RefundScheduled == DOMAIN refunds \subseteq deferred \cup dropped

Prices ==
    [n \in DOMAIN bids |-> IF bids[n].high_bid > 0 THEN bids[n].high_bid ELSE -bids[n].high_bid]
Won(b) == {n \in DOMAIN bids : bids[n].high_bidder = b}
RefundsOf(b) == {r \in DOMAIN refunds : r[1] = b}
Wealth(b) == Balance(b) + SumOver(refunds, RefundsOf(b)) + SumOver(Prices, Won(b))

\* A bidder's tokens, its refunds and its high bids add up to the same as
\* before in every step but the transfers of tokens: a bid that is outbid is
\* paid back once, however the manual and the deferred refund come.  It pays
\* only for a name that it creates.
BiddersWhole ==
    [][ budget'.token = budget.token =>
          \A b \in Bidders :
            Wealth(b)' = Wealth(b) - SumOver(Prices, {n \in Won(b) \ DOMAIN bids' : owners'[n] = b})
      ]_vars

\* An auction closes only when it had no bid for a day and its bid is the
\* greatest of the open ones, as the terms that a bidder signs say.
ClosedAsPromised ==
    [][ \A n \in OpenBids :
          n \notin OpenBids' =>
            /\ now' - bids[n].last_bid_time > day
            /\ \A m \in OpenBids : bids[m].high_bid <= bids[n].high_bid
      ]_vars
=============================================================================
