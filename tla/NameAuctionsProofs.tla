------------------------- MODULE NameAuctionsProofs -------------------------
(***************************************************************************)
(* Proofs about NameAuctions, for every set of bidders, names and bids,    *)
(* every length of a day and every number of calls.                        *)
(***************************************************************************)
EXTENDS NameAuctions, LedgerProofs

BidRow == [high_bidder : Bidders, high_bid : Int, last_bid_time : Nat]

\* The rows of auctions, by themselves.
BidsOK ==
    /\ now \in Nat
    /\ bids = [n \in DOMAIN bids |-> bids[n]]
    /\ \A n \in DOMAIN bids : bids[n] \in BidRow

\* All that happens to the rows in a step but a bid, a close and a creation.
KeepsBids == UNCHANGED <<bids, now>>

-----------------------------------------------------------------------------
(* Every step, by what it does to the tables of auctions                   *)

LEMMA NextKinds ==
    ASSUME [Next]_vars
    PROVE  \/ \E b \in Bidders, n \in Premium, bid \in Bids : bidname(b, n, bid)
           \/ \E b \in Bidders, n \in Premium : bidrefund(b, n) \/ RunDeferred(<<b, n>>)
           \/ \E creator, n : newaccount(creator, n)
           \/ Block
           \/ UNCHANGED <<bids, refunds, deferred, dropped, now>>
<1>1. CASE runrex \/ RexChanges
  BY <1>1 DEF runrex, RexChanges
<1>2. ASSUME TokenCalled PROVE UNCHANGED <<bids, refunds, deferred, dropped, now>>
  BY <1>2 DEF TokenCalled, auction
<1>3. CASE UNCHANGED vars
  BY <1>3 DEF vars, auction
<1> QED
  BY <1>1, <1>2, <1>3 DEF Next

-----------------------------------------------------------------------------
(* Refunds are under way                                                   *)

LEMMA RefundScheduledInv == RefundScheduled /\ [Next]_vars => RefundScheduled'
<1> SUFFICES ASSUME RefundScheduled, [Next]_vars PROVE RefundScheduled'
  OBVIOUS
<1> USE DEF RefundScheduled
<1>1. CASE \E b \in Bidders, n \in Premium, bid \in Bids : bidname(b, n, bid)
  <2>1. PICK b \in Bidders, n \in Premium, bid \in Bids : bidname(b, n, bid)
    BY <1>1
  <2> DEFINE outbid == <<bids[n].high_bidder, n>>
  <2>2. CASE n \in DOMAIN bids
    <3>1. /\ refunds' = Add(refunds, outbid, bids[n].high_bid)
          /\ deferred' = deferred \cup {outbid}
          /\ dropped' = dropped \ {outbid}
      BY <2>1, <2>2 DEF bidname, Owed, Resent
    <3> HIDE DEF outbid
    <3>2. DOMAIN refunds' \subseteq DOMAIN refunds \cup {outbid}
      BY <3>1 DEF Add, Put
    <3> QED
      BY <3>1, <3>2
  <2>3. CASE n \notin DOMAIN bids
    BY <2>1, <2>3 DEF bidname
  <2> QED
    BY <2>2, <2>3
<1>2. CASE \E b \in Bidders, n \in Premium : bidrefund(b, n)
  BY <1>2 DEF bidrefund, Refunded
<1>3. CASE \E b \in Bidders, n \in Premium : RunDeferred(<<b, n>>)
  BY <1>3 DEF RunDeferred, Refunded
<1>4. CASE \E creator, n : newaccount(creator, n)
  BY <1>4 DEF newaccount
<1>5. CASE Block
  BY <1>5 DEF Block
<1>6. CASE UNCHANGED <<bids, refunds, deferred, dropped, now>>
  BY <1>6
<1> QED
  BY <1>1, <1>2, <1>3, <1>4, <1>5, <1>6, NextKinds

\* Whoever has a refund to get has a deferred transaction under way for it,
\* unless the chain has dropped it, in every order of bids, refunds and blocks.
THEOREM RefundsUnderWay == Spec => []RefundScheduled
<1>1. Init => RefundScheduled
  BY DEF Init, RefundScheduled, NoRows
<1> QED
  BY <1>1, RefundScheduledInv, PTL DEF Spec

-----------------------------------------------------------------------------
(* Auctions are closed as promised                                         *)

LEMMA BidsInv == BidsOK /\ [Next]_vars => BidsOK'
<1> SUFFICES ASSUME BidsOK, [Next]_vars PROVE BidsOK'
  OBVIOUS
<1>1. CASE \E b \in Bidders, n \in Premium, bid \in Bids : bidname(b, n, bid)
  <2>1. PICK b \in Bidders, n \in Premium, bid \in Bids : bidname(b, n, bid)
    BY <1>1
  <2>2. Row(b, bid) \in BidRow
    BY NamesAssumption DEF Row, BidRow, BidsOK
  <2>3. bids' = Put(bids, n, Row(b, bid)) /\ now' = now
    BY <2>1 DEF bidname
  <2> QED
    BY <2>2, <2>3 DEF BidsOK, Put
<1>2. CASE \E creator, n : newaccount(creator, n)
  BY <1>2 DEF newaccount, Claimed, BidsOK
<1>3. CASE Block
  <2>1. now' \in Nat
    BY <1>3 DEF Block, BidsOK
  <2>2. CASE UNCHANGED bids
    BY <2>1, <2>2 DEF BidsOK
  <2>3. CASE \E n \in Highest : bids' = [bids EXCEPT ![n].high_bid = -@]
    <3>1. PICK n \in Highest : bids' = [bids EXCEPT ![n].high_bid = -@]
      BY <2>3
    <3>2. [bids[n] EXCEPT !.high_bid = -@] \in BidRow
      BY DEF Highest, BidsOK, BidRow
    <3> QED
      BY <2>1, <3>1, <3>2 DEF BidsOK
  <2> QED
    BY <1>3, <2>2, <2>3 DEF Block
<1>4. CASE UNCHANGED <<bids, now>>
  BY <1>4 DEF BidsOK
<1>5. CASE \E b \in Bidders, n \in Premium : bidrefund(b, n) \/ RunDeferred(<<b, n>>)
  BY <1>4, <1>5 DEF bidrefund, RunDeferred
<1> QED
  BY <1>1, <1>2, <1>3, <1>4, <1>5, NextKinds

\* An open auction ends only when a block closes it.
LEMMA OnlyBlocksClose ==
    ASSUME BidsOK, [Next]_vars, NEW n \in OpenBids, n \notin OpenBids'
    PROVE  Block /\ n \in Highest /\ now' - bids[n].last_bid_time > day
<1>1. ~ UNCHANGED bids
  BY DEF OpenBids
<1>2. CASE \E b \in Bidders, m \in Premium, bid \in Bids : bidname(b, m, bid)
  <2>1. PICK b \in Bidders, m \in Premium, bid \in Bids : bidname(b, m, bid)
    BY <1>2
  <2>2. bids' = Put(bids, m, Row(b, bid)) /\ bid > 0
    BY <2>1 DEF bidname
  <2>3. n \in DOMAIN bids' /\ bids'[n].high_bid > 0
    BY <2>2 DEF OpenBids, Row, Put
  <2> QED
    BY <2>3 DEF OpenBids
<1>3. CASE \E creator, m : newaccount(creator, m)
  <2>1. PICK creator, m : newaccount(creator, m)
    BY <1>3
  <2>2. bids[m].high_bid < 0 /\ bids' = [k \in DOMAIN bids \ {m} |-> bids[k]]
    BY <1>1, <2>1 DEF newaccount, Claimed
  <2>3. n # m
    BY <2>2 DEF OpenBids, BidsOK, BidRow
  <2> QED
    BY <2>2, <2>3 DEF OpenBids
<1>4. CASE Block
  <2>1. PICK m \in Highest : /\ now' - bids[m].last_bid_time > day
                             /\ bids' = [bids EXCEPT ![m].high_bid = -@]
    BY <1>1, <1>4 DEF Block
  <2>2. n = m
    BY <2>1 DEF OpenBids
  <2> QED
    BY <1>4, <2>1, <2>2
<1>5. CASE \E b \in Bidders, m \in Premium : bidrefund(b, m) \/ RunDeferred(<<b, m>>)
  BY <1>1, <1>5 DEF bidrefund, RunDeferred
<1> QED
  BY <1>1, <1>2, <1>3, <1>4, <1>5, NextKinds

LEMMA ClosedStep ==
    ASSUME BidsOK, [Next]_vars, NEW n \in OpenBids, n \notin OpenBids'
    PROVE  /\ now' - bids[n].last_bid_time > day
           /\ \A m \in OpenBids : bids[m].high_bid <= bids[n].high_bid
<1>1. n \in Highest /\ now' - bids[n].last_bid_time > day
  BY OnlyBlocksClose
<1>2. ASSUME NEW m \in OpenBids PROVE bids[m].high_bid <= bids[n].high_bid
  <2>1. bids[m].high_bid \in Int /\ bids[n].high_bid \in Int
    BY DEF OpenBids, BidsOK, BidRow
  <2>2. by_high_bid(n) <= by_high_bid(m)
    BY <1>1, <2>1 DEF Highest, OpenBids, by_high_bid
  <2> QED
    BY <2>1, <2>2 DEF by_high_bid
<1> QED
  BY <1>1, <1>2

\* Whatever is bid and whenever blocks come, an auction is closed only after a
\* day without a bid, and only if no open one has a greater bid.
THEOREM ClosesAsPromised == Spec => ClosedAsPromised
<1>1. Init => BidsOK
  BY DEF Init, BidsOK, NoRows
<1>2. BidsOK /\ [Next]_vars =>
        [\A n \in OpenBids :
           n \notin OpenBids' =>
             /\ now' - bids[n].last_bid_time > day
             /\ \A m \in OpenBids : bids[m].high_bid <= bids[n].high_bid]_vars
  BY ClosedStep
<1> QED
  BY <1>1, <1>2, BidsInv, PTL DEF Spec, ClosedAsPromised

-----------------------------------------------------------------------------
(* The operators of a ledger as Token has them                             *)

LEMMA TokenLedger ==
    /\ \A l, o, v : T!Add(l, o, v) = Add(l, o, v)
    /\ \A l, o, v : T!Sub(l, o, v) = Sub(l, o, v)
    /\ \A l, o, v : T!CanSub(l, o, v) <=> CanSub(l, o, v)
    /\ \A l, a, b, v : T!CanTransfer(l, a, b, v) <=> CanTransfer(l, a, b, v)
    /\ \A l, a, b, v : T!Transferred(l, a, b, v) = Transferred(l, a, b, v)
    /\ \A l : T!Held(l) = SumOf(l)
<1>1. \A l, o, v : T!Add(l, o, v) = Add(l, o, v)
  BY DEF T!Add, Add, T!Put, Put
<1>2. \A l, o, v : T!Sub(l, o, v) = Sub(l, o, v)
  BY DEF T!Sub, Sub
<1>3. \A l, o, v : T!CanSub(l, o, v) <=> CanSub(l, o, v)
  BY DEF T!CanSub, CanSub
<1>4. \A l, a, b, v : T!CanTransfer(l, a, b, v) <=> CanTransfer(l, a, b, v)
  BY <1>3 DEF T!CanTransfer, CanTransfer
<1>5. \A l, a, b, v : T!Transferred(l, a, b, v) = Transferred(l, a, b, v)
  BY <1>1, <1>2 DEF T!Transferred, Transferred
<1>6. \A l : T!Held(l) = SumOf(l)
  BY DEF T!Held, T!SumOf, SumOf, T!SumOver, SumOver,
         T!MapThenSumSet, MapThenSumSet, T!MapThenFoldSet, MapThenFoldSet
<1> QED
  BY <1>1, <1>2, <1>3, <1>4, <1>5, <1>6

-----------------------------------------------------------------------------
(* The tables of eosio.token                                               *)

Supply == IF stat = NoStat THEN 0 ELSE stat.supply

StatOK ==
    stat # NoStat =>
      /\ stat \in T!StatRow
      /\ 0 <= stat.supply /\ stat.supply <= stat.max_supply /\ stat.max_supply <= MaxAmount
      /\ stat.issuer \in Bidders

RowsOK ==
    /\ IsTable(accounts) /\ NoDebts(accounts)
    /\ DOMAIN accounts \subseteq Accounts
    /\ SumOf(accounts) = Supply

\* What is said of the token is what Token says.
LEMMA TokenTyped == StatOK /\ RowsOK => T!TypeOK /\ SupplyBacked
<1> SUFFICES ASSUME StatOK, RowsOK PROVE T!TypeOK /\ SupplyBacked
  OBVIOUS
<1>1. SupplyBacked
  BY TokenLedger DEF SupplyBacked, T!SupplyBacked, RowsOK, Supply
<1>2. Supply <= MaxAmount /\ Supply \in Int
  BY NamesAssumption DEF StatOK, Supply, T!StatRow
<1>3. ASSUME NEW a \in DOMAIN accounts PROVE accounts[a] \in 0..MaxAmount
  <2>1. accounts[a] <= SumOf(accounts) /\ 0 <= accounts[a] /\ accounts[a] \in Int
    BY RowAtMostSum DEF RowsOK, IsTable, NoDebts
  <2> QED
    BY <1>2, <2>1, NamesAssumption DEF RowsOK
<1>4. accounts \in [DOMAIN accounts -> 0..MaxAmount] /\ DOMAIN accounts \in SUBSET Accounts
  BY <1>3 DEF RowsOK, IsTable
<1>5. stat \in T!StatRow \cup {NoStat} /\ (stat # NoStat => stat.supply \in 0..stat.max_supply)
  BY DEF StatOK, T!StatRow
<1> QED
  BY <1>1, <1>4, <1>5 DEF T!TypeOK

LEMMA CreditedElsewhere ==
    ASSUME NEW l, NEW m, NEW a, NEW v, Credited(l, m, a, v)
    PROVE  \A b : b # a => BalanceOf(m, b) = BalanceOf(l, b)
BY DEF Credited, BalanceOf

\* A transfer between accounts, in a step that leaves the supply alone.
LEMMA PaidOK ==
    ASSUME RowsOK, NEW from, NEW to \in Accounts, NEW v \in Int,
           CanTransfer(accounts, from, to, v),
           accounts' = Transferred(accounts, from, to, v), UNCHANGED stat
    PROVE  RowsOK' /\ Moved(accounts, accounts', from, to, v)
<1>1. Moved(accounts, accounts', from, to, v)
  BY TransferHeld DEF RowsOK
<1>2. NoDebts(accounts')
  BY TransferNoDebts DEF RowsOK
<1>3. Supply' = Supply
  BY DEF Supply
<1> QED
  BY <1>1, <1>2, <1>3 DEF RowsOK, Moved

LEMMA IssueOK ==
    ASSUME StatOK, RowsOK, NEW q \in Quantities, T!issue(q)
    PROVE  StatOK' /\ RowsOK' /\ Credited(accounts, accounts', stat.issuer, q)
<1>1. /\ stat \in T!StatRow /\ stat.issuer \in Bidders
      /\ q \in Nat /\ q <= stat.max_supply - stat.supply
      /\ stat' = [stat EXCEPT !.supply = @ + q]
      /\ accounts' = Add(accounts, stat.issuer, q)
  BY NamesAssumption, TokenLedger DEF T!issue, StatOK
<1>2. /\ stat' \in T!StatRow /\ stat'.supply = stat.supply + q
      /\ stat'.max_supply = stat.max_supply /\ stat'.issuer = stat.issuer
  BY <1>1 DEF T!StatRow
<1>3. StatOK' /\ stat' # NoStat
  BY <1>1, <1>2, NoStatAssumption DEF StatOK, T!StatRow
<1>4. Credited(accounts, accounts', stat.issuer, q) /\ NoDebts(accounts')
  BY <1>1, AddHeld, AddNoDebts DEF RowsOK
<1>5. Supply' = Supply + q
  BY <1>1, <1>2, <1>3, NoStatAssumption DEF Supply
<1>6. stat.issuer \in Accounts
  BY <1>1, NamesAssumption
<1>7. RowsOK'
  BY <1>4, <1>5, <1>6 DEF RowsOK, Credited
<1> QED
  BY <1>3, <1>4, <1>7

LEMMA RetireOK ==
    ASSUME StatOK, RowsOK, NEW q \in Quantities, T!retire(q)
    PROVE  StatOK' /\ RowsOK' /\ Credited(accounts, accounts', stat.issuer, -q)
<1>1. /\ stat # NoStat /\ stat \in T!StatRow /\ stat.issuer \in Bidders
      /\ q \in Int /\ q > 0 /\ CanSub(accounts, stat.issuer, q)
      /\ stat' = [stat EXCEPT !.supply = @ - q]
      /\ accounts' = Sub(accounts, stat.issuer, q)
  BY NamesAssumption, TokenLedger DEF T!retire, StatOK
<1>2. /\ stat' \in T!StatRow /\ stat'.supply = stat.supply - q
      /\ stat'.max_supply = stat.max_supply /\ stat'.issuer = stat.issuer
  BY <1>1 DEF T!StatRow
<1>3. q <= stat.supply
  <2>1. stat.issuer \in DOMAIN accounts /\ q <= accounts[stat.issuer]
    BY <1>1 DEF CanSub
  <2>2. accounts[stat.issuer] <= SumOf(accounts) /\ accounts[stat.issuer] \in Int
    BY <2>1, RowAtMostSum DEF RowsOK, IsTable, NoDebts
  <2>3. SumOf(accounts) = stat.supply /\ stat.supply \in Int
    BY <1>1 DEF RowsOK, Supply, T!StatRow
  <2> QED
    BY <1>1, <2>1, <2>2, <2>3
<1>4. StatOK' /\ stat' # NoStat
  BY <1>1, <1>2, <1>3, NoStatAssumption DEF StatOK, T!StatRow
<1>5. Credited(accounts, accounts', stat.issuer, -q) /\ NoDebts(accounts')
  BY <1>1, SubHeld, SubNoDebts DEF RowsOK, CanSub
<1>6. Supply' = Supply + -q
  BY <1>1, <1>2, <1>4 DEF Supply, T!StatRow
<1>7. stat.issuer \in Accounts
  BY <1>1, NamesAssumption
<1>8. RowsOK'
  BY <1>5, <1>6, <1>7 DEF RowsOK, Credited
<1> QED
  BY <1>4, <1>5, <1>8

\* The actions of eosio.token keep its tables, and leave alone the balances
\* of all but the bidders.
LEMMA TokenStepOK ==
    ASSUME StatOK, RowsOK,
           \/ \E b \in Bidders, q \in Quantities : T!create(b, q)
           \/ \E q \in Quantities : T!issue(q) \/ T!retire(q)
           \/ \E a, b \in Bidders, q \in Quantities : T!transfer(a, b, q)
           \/ \E b \in Bidders : T!open(b) \/ T!close(b)
    PROVE  /\ StatOK' /\ RowsOK'
           /\ \A a : a \notin Bidders => Balance(a)' = Balance(a)
<1> USE DEF Balance
<1>1. ASSUME NEW b \in Bidders, NEW q \in Quantities, T!create(b, q)
      PROVE  StatOK' /\ RowsOK' /\ UNCHANGED accounts
  <2>1. /\ stat' = [supply |-> 0, max_supply |-> q, issuer |-> b]
        /\ q \in Int /\ q > 0 /\ q <= MaxAmount /\ stat = NoStat /\ accounts' = accounts
    BY <1>1, NamesAssumption DEF T!create, T!is_valid
  <2>2. b \in Accounts
    BY NamesAssumption
  <2>3. stat' \in T!StatRow
    BY <2>1, <2>2 DEF T!StatRow
  <2>4. StatOK' /\ Supply' = 0 /\ Supply = 0
    BY <2>1, <2>3, NoStatAssumption DEF StatOK, Supply
  <2> QED
    BY <2>1, <2>4 DEF RowsOK
<1>2. ASSUME NEW q \in Quantities, T!issue(q) \/ T!retire(q)
      PROVE  StatOK' /\ RowsOK' /\ \A a : a \notin Bidders => Balance(a)' = Balance(a)
  <2>1. stat.issuer \in Bidders
    BY <1>2 DEF T!issue, T!retire, StatOK
  <2>2. CASE T!issue(q)
    BY <2>1, <2>2, IssueOK, CreditedElsewhere
  <2>3. CASE T!retire(q)
    BY <2>1, <2>3, RetireOK, CreditedElsewhere
  <2> QED
    BY <1>2, <2>2, <2>3
<1>3. ASSUME NEW a \in Bidders, NEW b \in Bidders, NEW q \in Quantities, T!transfer(a, b, q)
      PROVE  StatOK' /\ RowsOK' /\ \A c : c \notin Bidders => Balance(c)' = Balance(c)
  <2>1. /\ CanTransfer(accounts, a, b, q) /\ accounts' = Transferred(accounts, a, b, q)
        /\ q \in Int /\ b \in Accounts /\ UNCHANGED stat
    BY <1>3, NamesAssumption, TokenLedger DEF T!transfer
  <2>2. RowsOK' /\ Moved(accounts, accounts', a, b, q)
    BY <2>1, PaidOK
  <2> QED
    BY <2>1, <2>2 DEF Moved, StatOK
<1>4. ASSUME NEW b \in Bidders, T!open(b)
      PROVE  StatOK' /\ RowsOK' /\ \A c : c \notin Bidders => Balance(c)' = Balance(c)
  <2>1. accounts' = Add(accounts, b, 0) /\ UNCHANGED stat /\ b \in Accounts
    BY <1>4, NamesAssumption, TokenLedger DEF T!open
  <2>2. Credited(accounts, accounts', b, 0) /\ NoDebts(accounts')
    BY <2>1, AddHeld, AddNoDebts DEF RowsOK
  <2>3. StatOK' /\ Supply' = Supply /\ SumOf(accounts) \in Int
    BY <2>1, BalanceInt DEF StatOK, Supply, RowsOK
  <2>4. /\ IsTable(accounts') /\ DOMAIN accounts' = DOMAIN accounts \cup {b}
        /\ SumOf(accounts') = SumOf(accounts)
    BY <2>2, <2>3 DEF Credited
  <2>5. RowsOK'
    BY <2>1, <2>2, <2>3, <2>4 DEF RowsOK
  <2>6. \A c : c # b => BalanceOf(accounts', c) = BalanceOf(accounts, c)
    BY <2>2, CreditedElsewhere
  <2> QED
    BY <2>3, <2>5, <2>6
<1>5. ASSUME NEW b \in Bidders, T!close(b)
      PROVE  StatOK' /\ RowsOK' /\ \A c : c \notin Bidders => Balance(c)' = Balance(c)
  <2>1. /\ accounts' = [a \in DOMAIN accounts \ {b} |-> accounts[a]]
        /\ BalanceOf(accounts, b) = 0 /\ UNCHANGED stat
    BY <1>5 DEF T!close, BalanceOf
  <2>2. /\ IsTable(accounts') /\ SumOf(accounts') = SumOf(accounts) - 0
        /\ \A c : c # b => BalanceOf(accounts', c) = BalanceOf(accounts, c)
    BY <2>1, EraseHeld DEF RowsOK, Erase
  <2>3. NoDebts(accounts') /\ DOMAIN accounts' \subseteq Accounts
    BY <2>1 DEF RowsOK, NoDebts
  <2>4. StatOK' /\ Supply' = Supply /\ SumOf(accounts) \in Int
    BY <2>1, BalanceInt DEF StatOK, Supply, RowsOK
  <2> QED
    BY <2>2, <2>3, <2>4 DEF RowsOK
<1> QED
  BY <1>1, <1>2, <1>3, <1>4, <1>5
-----------------------------------------------------------------------------
(* The inductive invariant                                                 *)

AuctionsOK ==
    /\ BidsOK
    /\ IsFiniteSet(DOMAIN bids) /\ DOMAIN bids \subseteq Premium
    /\ \A n \in DOMAIN bids :
         /\ bids[n].high_bid # 0 /\ bids[n].last_bid_time <= now
         /\ n \in DOMAIN owners => owners[n] = eosio
    /\ DOMAIN owners \subseteq Premium \cup Others

RefundsOK ==
    /\ IsTable(refunds)
    /\ DOMAIN refunds \subseteq Pairs /\ \A r \in DOMAIN refunds : refunds[r] > 0
    /\ deferred \subseteq Pairs /\ dropped \subseteq Pairs

RexOK == rex \in [available : BOOLEAN, namebid_proceeds : Nat]

CallsOK == budget \in [token : Nat, auction : Nat]

IInv ==
    /\ AuctionsOK /\ RefundsOK /\ RexOK /\ CallsOK
    /\ StatOK /\ RowsOK
    /\ NamesBacked

\* The rows of one bidder: its refunds, and the prices of its auctions.
RefundsTo(b) == [r \in RefundsOf(b) |-> refunds[r]]
PricesOf(b) == [n \in Won(b) |-> Prices[n]]

LEMMA OpenTable == AuctionsOK => IsTable(HighBids) /\ DOMAIN HighBids = OpenBids
<1> SUFFICES ASSUME AuctionsOK PROVE IsTable(HighBids) /\ DOMAIN HighBids = OpenBids
  OBVIOUS
<1>1. OpenBids \subseteq DOMAIN bids /\ IsFiniteSet(OpenBids)
  BY FS_Subset DEF OpenBids, AuctionsOK
<1>2. \A n \in OpenBids : bids[n].high_bid \in Int
  BY <1>1 DEF AuctionsOK, BidsOK, BidRow
<1> QED
  BY <1>1, <1>2 DEF IsTable, HighBids

PricesTables == \A b : IsTable(PricesOf(b)) /\ DOMAIN PricesOf(b) = Won(b)

LEMMA PricesTable == AuctionsOK => PricesTables
<1> USE DEF PricesTables
<1> SUFFICES ASSUME AuctionsOK, NEW b
             PROVE  IsTable(PricesOf(b)) /\ DOMAIN PricesOf(b) = Won(b)
  OBVIOUS
<1>1. Won(b) \subseteq DOMAIN bids /\ IsFiniteSet(Won(b))
  BY FS_Subset DEF Won, AuctionsOK
<1>2. \A n \in Won(b) : Prices[n] \in Int
  BY <1>1 DEF AuctionsOK, BidsOK, BidRow, Prices
<1> QED
  BY <1>1, <1>2 DEF IsTable, PricesOf

RefundsTables == \A b : IsTable(RefundsTo(b)) /\ DOMAIN RefundsTo(b) = RefundsOf(b)

LEMMA RefundsTable == RefundsOK => RefundsTables
<1> USE DEF RefundsTables
<1> SUFFICES ASSUME RefundsOK, NEW b
             PROVE  IsTable(RefundsTo(b)) /\ DOMAIN RefundsTo(b) = RefundsOf(b)
  OBVIOUS
<1>1. RefundsOf(b) \subseteq DOMAIN refunds /\ IsFiniteSet(RefundsOf(b))
  BY FS_Subset DEF RefundsOf, RefundsOK, IsTable
<1>2. \A r \in RefundsOf(b) : refunds[r] \in Int
  BY <1>1 DEF RefundsOK, IsTable
<1> QED
  BY <1>1, <1>2 DEF IsTable, RefundsTo

\* What a bidder owns, with the tables of its rows.
WealthAdds == \A b : Wealth(b) = Balance(b) + SumOf(RefundsTo(b)) + SumOf(PricesOf(b))

LEMMA WealthIs == AuctionsOK /\ RefundsOK => WealthAdds
<1> SUFFICES ASSUME AuctionsOK, RefundsOK, NEW b
             PROVE  Wealth(b) = Balance(b) + SumOf(RefundsTo(b)) + SumOf(PricesOf(b))
  BY DEF WealthAdds
<1>1. SumOver(refunds, RefundsOf(b)) = SumOf(RefundsTo(b))
  <2>1. IsTable(RefundsTo(b)) /\ DOMAIN RefundsTo(b) = RefundsOf(b)
    BY RefundsTable DEF RefundsTables
  <2>2. \A r \in RefundsOf(b) : refunds[r] = RefundsTo(b)[r]
    BY DEF RefundsTo
  <2> QED
    BY <2>1, <2>2, SumAgrees DEF SumOf, IsTable
<1>2. SumOver(Prices, Won(b)) = SumOf(PricesOf(b))
  <2>1. IsTable(PricesOf(b)) /\ DOMAIN PricesOf(b) = Won(b)
    BY PricesTable DEF PricesTables
  <2>2. \A n \in Won(b) : Prices[n] = PricesOf(b)[n]
    BY DEF PricesOf
  <2> QED
    BY <2>1, <2>2, SumAgrees DEF SumOf, IsTable
<1> QED
  BY <1>1, <1>2 DEF Wealth

-----------------------------------------------------------------------------
(* What the change of a single row does to the sums                        *)

\* The rows t of the auctions: what n adds to the open bids, and what it
\* adds to the prices of b.  The rows t of the refunds: what r adds to those
\* of b.
OpenBid(t, n) == IF n \in DOMAIN t /\ t[n].high_bid > 0 THEN t[n].high_bid ELSE 0
PriceFor(b, t, n) ==
    IF n \in DOMAIN t /\ t[n].high_bidder = b
    THEN IF t[n].high_bid > 0 THEN t[n].high_bid ELSE -t[n].high_bid
    ELSE 0
RefundFor(b, t, r) == IF r \in DOMAIN t /\ r[1] = b THEN t[r] ELSE 0

\* The rows s and t are the same but for that of a.
SameBut(s, t, a) ==
    /\ DOMAIN t \ {a} = DOMAIN s \ {a}
    /\ \A x \in DOMAIN s \ {a} : t[x] = s[x]

LEMMA HighBidsChange ==
    ASSUME AuctionsOK, AuctionsOK', NEW n, SameBut(bids, bids', n)
    PROVE  SumOf(HighBids)' = SumOf(HighBids) + OpenBid(bids', n) - OpenBid(bids, n)
<1>1. IsTable(HighBids) /\ DOMAIN HighBids = OpenBids
  BY OpenTable
<1>2. IsTable(HighBids') /\ DOMAIN HighBids' = OpenBids'
  <2>1. (AuctionsOK => IsTable(HighBids) /\ DOMAIN HighBids = OpenBids)'
    BY OpenTable, PTL
  <2> QED
    BY <2>1
<1>3. OpenBids' \ {n} = OpenBids \ {n}
  BY DEF OpenBids, SameBut
<1>4. \A m \in OpenBids \ {n} : HighBids'[m] = HighBids[m]
  BY <1>3 DEF HighBids, OpenBids, SameBut
<1>5. BalanceOf(HighBids, n) = OpenBid(bids, n) /\ BalanceOf(HighBids', n) = OpenBid(bids', n)
  BY <1>1, <1>2 DEF BalanceOf, HighBids, OpenBids, OpenBid
<1>6. n \in DOMAIN HighBids' => HighBids'[n] \in Int
  BY <1>2 DEF IsTable
<1>7. SumOf(HighBids') = SumOf(HighBids) + BalanceOf(HighBids', n) - BalanceOf(HighBids, n)
  BY <1>1, <1>2, <1>3, <1>4, <1>6, SumMoves
<1> QED
  BY <1>5, <1>7

LEMMA PricesChange ==
    ASSUME AuctionsOK, AuctionsOK', NEW n, SameBut(bids, bids', n), NEW b
    PROVE  SumOf(PricesOf(b))' = SumOf(PricesOf(b)) + PriceFor(b, bids', n) - PriceFor(b, bids, n)
<1>1. IsTable(PricesOf(b)) /\ DOMAIN PricesOf(b) = Won(b)
  BY PricesTable DEF PricesTables
<1>2. IsTable(PricesOf(b)') /\ DOMAIN PricesOf(b)' = Won(b)'
  <2>1. PricesTables'
    BY PricesTable, PTL
  <2> QED
    BY <2>1 DEF PricesTables
<1>3. Won(b)' \ {n} = Won(b) \ {n}
  BY DEF Won, SameBut
<1>4. \A m \in Won(b) \ {n} : PricesOf(b)'[m] = PricesOf(b)[m]
  BY <1>3 DEF PricesOf, Prices, Won, SameBut
<1>5. /\ BalanceOf(PricesOf(b), n) = PriceFor(b, bids, n)
      /\ BalanceOf(PricesOf(b)', n) = PriceFor(b, bids', n)
  BY <1>1, <1>2 DEF BalanceOf, PricesOf, Prices, Won, PriceFor
<1>6. n \in DOMAIN PricesOf(b)' => PricesOf(b)'[n] \in Int
  BY <1>2 DEF IsTable
<1>7. SumOf(PricesOf(b)') = SumOf(PricesOf(b)) + BalanceOf(PricesOf(b)', n)
                              - BalanceOf(PricesOf(b), n)
  BY <1>1, <1>2, <1>3, <1>4, <1>6, SumMoves
<1> QED
  BY <1>5, <1>7

LEMMA RefundsChange ==
    ASSUME RefundsOK, RefundsOK', NEW r, SameBut(refunds, refunds', r), NEW b
    PROVE  SumOf(RefundsTo(b))' =
             SumOf(RefundsTo(b)) + RefundFor(b, refunds', r) - RefundFor(b, refunds, r)
<1>1. IsTable(RefundsTo(b)) /\ DOMAIN RefundsTo(b) = RefundsOf(b)
  BY RefundsTable DEF RefundsTables
<1>2. IsTable(RefundsTo(b)') /\ DOMAIN RefundsTo(b)' = RefundsOf(b)'
  <2>1. RefundsTables'
    BY RefundsTable, PTL
  <2> QED
    BY <2>1 DEF RefundsTables
<1>3. RefundsOf(b)' \ {r} = RefundsOf(b) \ {r}
  BY DEF RefundsOf, SameBut
<1>4. \A q \in RefundsOf(b) \ {r} : RefundsTo(b)'[q] = RefundsTo(b)[q]
  BY <1>3 DEF RefundsTo, RefundsOf, SameBut
<1>5. /\ BalanceOf(RefundsTo(b), r) = RefundFor(b, refunds, r)
      /\ BalanceOf(RefundsTo(b)', r) = RefundFor(b, refunds', r)
  BY <1>1, <1>2 DEF BalanceOf, RefundsTo, RefundsOf, RefundFor
<1>6. r \in DOMAIN RefundsTo(b)' => RefundsTo(b)'[r] \in Int
  BY <1>2 DEF IsTable
<1>7. SumOf(RefundsTo(b)') = SumOf(RefundsTo(b)) + BalanceOf(RefundsTo(b)', r)
                               - BalanceOf(RefundsTo(b), r)
  BY <1>1, <1>2, <1>3, <1>4, <1>6, SumMoves
<1> QED
  BY <1>5, <1>7

-----------------------------------------------------------------------------
(* A bid                                                                   *)

LEMMA BidAuctions ==
    ASSUME AuctionsOK, NEW c \in Bidders, NEW n \in Premium, NEW bid \in Bids,
           bidname(c, n, bid)
    PROVE  /\ AuctionsOK' /\ SameBut(bids, bids', n)
           /\ OpenBid(bids', n) = bid
           /\ \A b : PriceFor(b, bids', n) = IF b = c THEN bid ELSE 0
           /\ DOMAIN bids' = DOMAIN bids \cup {n}
<1>1. /\ bid \in Int /\ bid > 0 /\ n \notin DOMAIN owners
      /\ bids' = Put(bids, n, Row(c, bid)) /\ UNCHANGED <<owners, now>>
  BY NamesAssumption DEF bidname
<1>2. DOMAIN bids' = DOMAIN bids \cup {n} /\ bids'[n] = Row(c, bid)
  BY <1>1 DEF Put
<1>3. \A m \in DOMAIN bids \ {n} : bids'[m] = bids[m]
  BY <1>1 DEF Put
<1>4. BidsOK'
  BY BidsInv DEF AuctionsOK, Next
<1>5. IsFiniteSet(DOMAIN bids') /\ DOMAIN bids' \subseteq Premium
  BY <1>2, FS_AddElement DEF AuctionsOK
<1>6. ASSUME NEW m \in DOMAIN bids'
      PROVE  /\ bids'[m].high_bid # 0 /\ bids'[m].last_bid_time <= now'
             /\ m \in DOMAIN owners' => owners'[m] = eosio
  <2>1. CASE m = n
    BY <1>1, <1>2, <2>1 DEF Row, AuctionsOK, BidsOK
  <2>2. CASE m # n
    BY <1>1, <1>2, <1>3, <2>2 DEF AuctionsOK
  <2> QED
    BY <2>1, <2>2
<1>7. AuctionsOK'
  BY <1>1, <1>4, <1>5, <1>6 DEF AuctionsOK
<1>8. OpenBid(bids', n) = bid /\ \A b : PriceFor(b, bids', n) = IF b = c THEN bid ELSE 0
  BY <1>1, <1>2 DEF OpenBid, PriceFor, Row
<1> QED
  BY <1>2, <1>3, <1>7, <1>8 DEF SameBut

\* The refund of the bidder who is outbid, if there is one.
LEMMA BidRefunds ==
    ASSUME AuctionsOK, RefundsOK, NEW c \in Bidders, NEW n \in Premium, NEW bid \in Bids,
           bidname(c, n, bid),
           NEW r, r = <<bids[n].high_bidder, n>>
    PROVE  /\ RefundsOK' /\ SameBut(refunds, refunds', r)
           /\ SumOf(refunds') = SumOf(refunds) + OpenBid(bids, n)
           /\ \A b : RefundFor(b, refunds', r) = RefundFor(b, refunds, r) + PriceFor(b, bids, n)
           /\ OpenBid(bids, n) \in Nat
           /\ PriceFor(c, bids, n) = 0
<1>1. CASE n \notin DOMAIN bids
  <2>1. UNCHANGED <<refunds, deferred, dropped>>
    BY <1>1 DEF bidname
  <2>2. OpenBid(bids, n) = 0 /\ \A b : PriceFor(b, bids, n) = 0
    BY <1>1 DEF OpenBid, PriceFor
  <2>3. SumOf(refunds) \in Int /\ \A b : RefundFor(b, refunds, r) \in Int
    BY BalanceInt DEF RefundsOK, RefundFor, IsTable
  <2>4. RefundsOK'
    BY <2>1 DEF RefundsOK
  <2> QED
    BY <2>1, <2>2, <2>3, <2>4 DEF SameBut
<1>2. CASE n \in DOMAIN bids
  <2> DEFINE hb == bids[n].high_bid
  <2>1. /\ refunds' = Add(refunds, r, hb) /\ hb > 0 /\ hb \in Int
        /\ deferred' = deferred \cup {r} /\ dropped' = dropped \ {r}
        /\ bids[n].high_bidder # c /\ bids[n].high_bidder \in Bidders
    BY <1>2 DEF bidname, Owed, Resent, AuctionsOK, BidsOK, BidRow
  <2>2. OpenBid(bids, n) = hb /\ \A b : PriceFor(b, bids, n) = IF b = r[1] THEN hb ELSE 0
    BY <1>2, <2>1 DEF OpenBid, PriceFor
  <2> HIDE DEF hb
  <2>3. r \in Pairs /\ r[1] = bids[n].high_bidder
    BY <2>1 DEF Pairs
  <2>4. Credited(refunds, refunds', r, hb)
    BY <2>1, AddHeld DEF RefundsOK
  <2>5. \A x \in DOMAIN refunds' : refunds'[x] > 0
    BY <2>1 DEF Add, Put, RefundsOK, IsTable
  <2>6. RefundsOK'
    BY <2>1, <2>3, <2>4, <2>5 DEF RefundsOK, Credited
  <2>7. SameBut(refunds, refunds', r)
    BY <2>4 DEF Credited, SameBut
  <2>8. refunds'[r] = BalanceOf(refunds, r) + hb /\ r \in DOMAIN refunds'
    BY <2>4 DEF Credited, BalanceOf
  <2>9. ASSUME NEW b
        PROVE  RefundFor(b, refunds', r) = RefundFor(b, refunds, r) + PriceFor(b, bids, n)
    BY <2>2, <2>8 DEF RefundFor, BalanceOf
  <2>10. PriceFor(c, bids, n) = 0
    BY <2>1, <2>2, <2>3
  <2> QED
    BY <2>1, <2>2, <2>4, <2>6, <2>7, <2>9, <2>10 DEF Credited
<1> QED
  BY <1>1, <1>2

\* In a step that keeps the typing, what a bidder's wealth changes by is what
\* its balance and one row of each table change by.
LEMMA WealthChange ==
    ASSUME AuctionsOK, RefundsOK, RowsOK, AuctionsOK', RefundsOK', RowsOK',
           NEW n, SameBut(bids, bids', n), NEW r, SameBut(refunds, refunds', r), NEW b
    PROVE  /\ Wealth(b)' = Wealth(b) + (Balance(b)' - Balance(b))
               + (RefundFor(b, refunds', r) - RefundFor(b, refunds, r))
               + (PriceFor(b, bids', n) - PriceFor(b, bids, n))
           /\ Wealth(b) \in Int /\ Balance(b) \in Int
           /\ RefundFor(b, refunds, r) \in Int /\ PriceFor(b, bids, n) \in Int
<1>1. Wealth(b) = Balance(b) + SumOf(RefundsTo(b)) + SumOf(PricesOf(b))
  BY WealthIs DEF WealthAdds
<1>2. Wealth(b)' = Balance(b)' + SumOf(RefundsTo(b))' + SumOf(PricesOf(b))'
  <2>1. WealthAdds'
    BY WealthIs, PTL
  <2> QED
    BY <2>1 DEF WealthAdds
<1>3. SumOf(RefundsTo(b))' =
        SumOf(RefundsTo(b)) + RefundFor(b, refunds', r) - RefundFor(b, refunds, r)
  BY RefundsChange
<1>4. SumOf(PricesOf(b))' = SumOf(PricesOf(b)) + PriceFor(b, bids', n) - PriceFor(b, bids, n)
  BY PricesChange
<1>5. Balance(b) \in Int /\ Balance(b)' \in Int
  BY BalanceInt DEF Balance, RowsOK
<1>6. SumOf(RefundsTo(b)) \in Int /\ SumOf(PricesOf(b)) \in Int
  BY BalanceInt, RefundsTable, PricesTable DEF RefundsTables, PricesTables
<1>7. RefundFor(b, refunds, r) \in Int /\ RefundFor(b, refunds', r) \in Int
  BY DEF RefundFor, RefundsOK, IsTable
<1>8. PriceFor(b, bids, n) \in Int
  BY DEF PriceFor, AuctionsOK, BidsOK, BidRow
<1>9. PriceFor(b, bids', n) \in Int
  BY DEF PriceFor, AuctionsOK, BidsOK, BidRow
<1> QED
  BY <1>1, <1>2, <1>3, <1>4, <1>5, <1>6, <1>7, <1>8, <1>9

\* What a bidder has paid for the names that it creates in a step.
Spent(b) == SumOver(Prices, {n \in Won(b) \ DOMAIN bids' : owners'[n] = b})

LEMMA NothingSpent ==
    ASSUME DOMAIN bids \subseteq DOMAIN bids', NEW b
    PROVE  Spent(b) = 0
<1>1. {n \in Won(b) \ DOMAIN bids' : owners'[n] = b} = {}
  BY DEF Won
<1> QED
  BY <1>1, SumEmpty DEF Spent

LEMMA BidStep ==
    ASSUME IInv, NEW c \in Bidders, NEW n \in Premium, NEW bid \in Bids, bidname(c, n, bid)
    PROVE  IInv' /\ \A b \in Bidders : Wealth(b)' = Wealth(b) - Spent(b)
<1> DEFINE r == <<bids[n].high_bidder, n>>
<1> USE DEF IInv
<1>1. /\ AuctionsOK' /\ SameBut(bids, bids', n) /\ OpenBid(bids', n) = bid
      /\ \A b : PriceFor(b, bids', n) = IF b = c THEN bid ELSE 0
      /\ DOMAIN bids' = DOMAIN bids \cup {n}
  BY BidAuctions
<1>2. /\ RefundsOK' /\ SameBut(refunds, refunds', r)
      /\ SumOf(refunds') = SumOf(refunds) + OpenBid(bids, n)
      /\ \A b : RefundFor(b, refunds', r) = RefundFor(b, refunds, r) + PriceFor(b, bids, n)
      /\ OpenBid(bids, n) \in Nat /\ PriceFor(c, bids, n) = 0
  BY BidRefunds
<1> HIDE DEF r
<1>3. /\ bid \in Int /\ CanTransfer(accounts, c, names_account, bid)
      /\ accounts' = Transferred(accounts, c, names_account, bid) /\ UNCHANGED <<stat, rex>>
  BY NamesAssumption DEF bidname
<1>4. names_account \in Accounts /\ names_account \notin Bidders
  BY NamesAssumption
<1>5. RowsOK' /\ Moved(accounts, accounts', c, names_account, bid)
  BY <1>3, <1>4, PaidOK
<1>6. /\ Balance(names_account)' = Balance(names_account) + bid
      /\ \A b \in Bidders : Balance(b)' = IF b = c THEN Balance(b) - bid ELSE Balance(b)
  BY <1>4, <1>5 DEF Moved, Balance
<1>7. NamesBacked'
  <2>1. SumOf(HighBids)' = SumOf(HighBids) + bid - OpenBid(bids, n)
    BY <1>1, HighBidsChange
  <2>2. SumOf(HighBids) \in Int /\ SumOf(refunds) \in Int /\ Balance(names_account) \in Int
        /\ rex.namebid_proceeds \in Int
    BY OpenTable, BalanceInt DEF RefundsOK, RowsOK, Balance, RexOK
  <2> QED
    BY <1>2, <1>3, <1>6, <2>1, <2>2 DEF NamesBacked
<1>8. RexOK' /\ CallsOK' /\ StatOK'
  BY <1>3 DEF bidname, Called, RexOK, CallsOK, StatOK
<1>9. ASSUME NEW b \in Bidders PROVE Wealth(b)' = Wealth(b) - Spent(b)
  <2>1. /\ Wealth(b)' = Wealth(b) + (Balance(b)' - Balance(b))
              + (RefundFor(b, refunds', r) - RefundFor(b, refunds, r))
              + (PriceFor(b, bids', n) - PriceFor(b, bids, n))
        /\ Wealth(b) \in Int /\ Balance(b) \in Int
        /\ RefundFor(b, refunds, r) \in Int /\ PriceFor(b, bids, n) \in Int
    BY <1>1, <1>2, <1>5, WealthChange
  <2>2. Spent(b) = 0
    BY <1>1, NothingSpent
  <2>3. CASE b = c
    BY <1>1, <1>2, <1>3, <1>6, <2>1, <2>2, <2>3
  <2>4. CASE b # c
    BY <1>1, <1>2, <1>6, <2>1, <2>2, <2>4
  <2> QED
    BY <2>3, <2>4
<1> QED
  BY <1>1, <1>2, <1>5, <1>7, <1>8, <1>9

-----------------------------------------------------------------------------
(* A refund, asked for or run by the chain                                 *)

LEMMA RefundedStep ==
    ASSUME IInv, NEW r \in Pairs, Refunded(r), UNCHANGED <<stat, bids, owners, rex, now>>,
           deferred' \subseteq deferred, CallsOK'
    PROVE  IInv' /\ \A b \in Bidders : Wealth(b)' = Wealth(b) - Spent(b)
<1> USE DEF IInv
<1>1. /\ r \in DOMAIN refunds /\ refunds' = [s \in DOMAIN refunds \ {r} |-> refunds[s]]
      /\ dropped' = dropped \ {r}
      /\ CanTransfer(accounts, names_account, r[1], refunds[r])
      /\ accounts' = Transferred(accounts, names_account, r[1], refunds[r])
  BY DEF Refunded
<1>2. r[1] \in Bidders /\ r[1] \in Accounts /\ refunds[r] \in Int /\ names_account \notin Bidders
  BY <1>1, NamesAssumption DEF Pairs, RefundsOK, IsTable
<1>3. RowsOK' /\ Moved(accounts, accounts', names_account, r[1], refunds[r])
  BY <1>1, <1>2, PaidOK
<1>4. /\ Balance(names_account)' = Balance(names_account) - refunds[r]
      /\ \A b \in Bidders : Balance(b)' = IF b = r[1] THEN Balance(b) + refunds[r] ELSE Balance(b)
  BY <1>2, <1>3 DEF Moved, Balance
<1>5. IsTable(refunds') /\ SumOf(refunds') = SumOf(refunds) - refunds[r]
  BY <1>1, EraseHeld DEF Erase, RefundsOK, BalanceOf
<1>6. RefundsOK' /\ SameBut(refunds, refunds', r)
  BY <1>1, <1>5 DEF RefundsOK, SameBut
<1>7. \A b : RefundFor(b, refunds', r) = 0
             /\ RefundFor(b, refunds, r) = IF b = r[1] THEN refunds[r] ELSE 0
  BY <1>1 DEF RefundFor
<1>8. AuctionsOK' /\ RexOK' /\ StatOK' /\ SameBut(bids, bids', 0)
  BY DEF AuctionsOK, BidsOK, RexOK, StatOK, SameBut
<1>9. NamesBacked'
  <2>1. SumOf(HighBids)' = SumOf(HighBids)
    BY DEF HighBids, OpenBids
  <2>2. SumOf(HighBids) \in Int /\ SumOf(refunds) \in Int /\ Balance(names_account) \in Int
        /\ rex.namebid_proceeds \in Int
    BY OpenTable, BalanceInt DEF RefundsOK, RowsOK, Balance, RexOK
  <2> QED
    BY <1>2, <1>4, <1>5, <2>1, <2>2 DEF NamesBacked
<1>10. ASSUME NEW b \in Bidders PROVE Wealth(b)' = Wealth(b) - Spent(b)
  <2>1. /\ Wealth(b)' = Wealth(b) + (Balance(b)' - Balance(b))
              + (RefundFor(b, refunds', r) - RefundFor(b, refunds, r))
              + (PriceFor(b, bids', 0) - PriceFor(b, bids, 0))
        /\ Wealth(b) \in Int /\ Balance(b) \in Int
        /\ RefundFor(b, refunds, r) \in Int /\ PriceFor(b, bids, 0) \in Int
    BY <1>3, <1>6, <1>8, WealthChange
  <2>2. Spent(b) = 0 /\ PriceFor(b, bids', 0) = PriceFor(b, bids, 0)
    BY NothingSpent
  <2>3. CASE b = r[1]
    BY <1>2, <1>4, <1>7, <2>1, <2>2, <2>3
  <2>4. CASE b # r[1]
    BY <1>4, <1>7, <2>1, <2>2, <2>4
  <2> QED
    BY <2>3, <2>4
<1> QED
  BY <1>3, <1>6, <1>8, <1>9, <1>10

-----------------------------------------------------------------------------
(* Blocks, accounts and what moves no tokens                               *)

\* A step that leaves the tables with amounts alone.
LEMMA StillStep ==
    ASSUME IInv, UNCHANGED <<stat, accounts, bids, refunds, owners>>,
           now' \in Nat, now <= now',
           deferred' \subseteq Pairs, dropped' \subseteq Pairs,
           RexOK', rex'.namebid_proceeds = rex.namebid_proceeds, CallsOK'
    PROVE  IInv' /\ \A b \in Bidders : Wealth(b)' = Wealth(b) - Spent(b)
<1> USE DEF IInv
<1>1. RowsOK' /\ StatOK'
  BY DEF RowsOK, StatOK, Supply
<1>2. RefundsOK' /\ SameBut(refunds, refunds', 0) /\ SameBut(bids, bids', 0)
  BY DEF RefundsOK, SameBut
<1>3. AuctionsOK'
  <2>1. BidsOK'
    BY DEF AuctionsOK, BidsOK
  <2>2. \A n \in DOMAIN bids : bids[n].last_bid_time <= now'
    BY DEF AuctionsOK, BidsOK, BidRow
  <2> QED
    BY <2>1, <2>2 DEF AuctionsOK
<1>4. NamesBacked'
  BY DEF NamesBacked, Balance, HighBids, OpenBids
<1>5. ASSUME NEW b \in Bidders PROVE Wealth(b)' = Wealth(b) - Spent(b)
  <2>1. Wealth(b)' = Wealth(b)
    BY DEF Wealth, Balance, RefundsOf, Prices, Won
  <2>2. Spent(b) = 0 /\ Wealth(b) \in Int
    BY <1>1, <1>2, <1>3, NothingSpent, WealthChange
  <2> QED
    BY <2>1, <2>2
<1> QED
  BY <1>1, <1>2, <1>3, <1>4, <1>5

\* The close of an auction: its bid turns negative, and what would have been
\* the refund becomes part of the proceeds, if there is REX.
LEMMA CloseStep ==
    ASSUME IInv, Block, NEW n \in Highest,
           bids' = [bids EXCEPT ![n].high_bid = -@],
           channel_namebid_to_rex(bids[n].high_bid)
    PROVE  IInv' /\ \A b \in Bidders : Wealth(b)' = Wealth(b) - Spent(b)
<1> USE DEF IInv
<1> DEFINE hb == bids[n].high_bid
<1>1. /\ n \in DOMAIN bids /\ hb > 0 /\ hb \in Int /\ bids[n] \in BidRow
      /\ now \in Nat /\ now' = now + 1
      /\ UNCHANGED <<stat, accounts, refunds, deferred, dropped, owners, budget>>
  BY DEF Highest, AuctionsOK, BidsOK, BidRow, Block
<1>2. /\ DOMAIN bids' = DOMAIN bids /\ \A m \in DOMAIN bids \ {n} : bids'[m] = bids[m]
      /\ bids'[n].high_bid = -hb /\ bids'[n].high_bidder = bids[n].high_bidder
      /\ bids'[n].last_bid_time = bids[n].last_bid_time
  BY <1>1 DEF BidRow, AuctionsOK, BidsOK
<1>3. BidsOK'
  BY BidsInv DEF AuctionsOK, Next
<1>4. AuctionsOK'
  <2>1. ASSUME NEW m \in DOMAIN bids
        PROVE  bids'[m].high_bid # 0 /\ bids'[m].last_bid_time <= now'
    BY <1>1, <1>2 DEF AuctionsOK, BidsOK, BidRow
  <2> QED
    BY <1>1, <1>2, <1>3, <2>1 DEF AuctionsOK
<1>5. SameBut(bids, bids', n) /\ SameBut(refunds, refunds', n)
  BY <1>1, <1>2 DEF SameBut
<1>6. OpenBid(bids, n) = hb /\ OpenBid(bids', n) = 0
  BY <1>1, <1>2 DEF OpenBid
<1>7. \A b : PriceFor(b, bids', n) = PriceFor(b, bids, n)
  BY <1>1, <1>2 DEF PriceFor
<1> HIDE DEF hb
<1>8. RowsOK' /\ StatOK' /\ RefundsOK' /\ CallsOK'
  BY <1>1 DEF RowsOK, StatOK, RefundsOK, CallsOK, Supply
<1>9. RexOK' /\ rex'.namebid_proceeds <= rex.namebid_proceeds + hb
      /\ rex'.namebid_proceeds \in Nat /\ rex.namebid_proceeds \in Nat
  BY <1>1 DEF RexOK, channel_namebid_to_rex, hb
<1>10. NamesBacked'
  <2>1. SumOf(HighBids)' = SumOf(HighBids) + 0 - hb
    BY <1>4, <1>5, <1>6, HighBidsChange
  <2>2. SumOf(HighBids) \in Int /\ SumOf(refunds) \in Int /\ Balance(names_account) \in Int
    BY OpenTable, BalanceInt DEF RefundsOK, RowsOK, Balance
  <2>3. Balance(names_account)' = Balance(names_account) /\ SumOf(refunds') = SumOf(refunds)
    BY <1>1 DEF Balance
  <2> QED
    BY <1>1, <1>9, <2>1, <2>2, <2>3 DEF NamesBacked
<1>11. ASSUME NEW b \in Bidders PROVE Wealth(b)' = Wealth(b) - Spent(b)
  <2>1. /\ Wealth(b)' = Wealth(b) + (Balance(b)' - Balance(b))
              + (RefundFor(b, refunds', n) - RefundFor(b, refunds, n))
              + (PriceFor(b, bids', n) - PriceFor(b, bids, n))
        /\ Wealth(b) \in Int /\ Balance(b) \in Int
        /\ RefundFor(b, refunds, n) \in Int /\ PriceFor(b, bids, n) \in Int
    BY <1>4, <1>5, <1>8, WealthChange
  <2>2. Spent(b) = 0
    BY <1>2, NothingSpent
  <2>3. Balance(b)' = Balance(b) /\ RefundFor(b, refunds', n) = RefundFor(b, refunds, n)
    BY <1>1 DEF Balance
  <2>4. PriceFor(b, bids', n) = PriceFor(b, bids, n)
    BY <1>7
  <2>5. Wealth(b)' = Wealth(b) + 0 + 0 + 0
    BY <2>1, <2>3, <2>4
  <2> QED
    BY <2>1, <2>2, <2>5
<1> QED
  BY <1>4, <1>8, <1>9, <1>10, <1>11

LEMMA BlockStep ==
    ASSUME IInv, Block
    PROVE  IInv' /\ \A b \in Bidders : Wealth(b)' = Wealth(b) - Spent(b)
<1>1. CASE UNCHANGED <<rex, bids>>
  <2>1. /\ now \in Nat /\ now' = now + 1
        /\ UNCHANGED <<stat, accounts, refunds, deferred, dropped, owners, budget>>
    BY DEF Block, IInv, AuctionsOK, BidsOK
  <2> QED
    BY <1>1, <2>1, StillStep DEF IInv, RefundsOK, RexOK, CallsOK
<1>2. CASE \E n \in Highest : /\ bids' = [bids EXCEPT ![n].high_bid = -@]
                              /\ channel_namebid_to_rex(bids[n].high_bid)
  BY <1>2, CloseStep
<1> QED
  BY <1>1, <1>2 DEF Block

\* An account is created; for a name that is auctioned, by who won it.
LEMMA AccountStep ==
    ASSUME IInv, NEW creator, NEW n \in Premium \cup Others, newaccount(creator, n)
    PROVE  IInv' /\ \A b \in Bidders : Wealth(b)' = Wealth(b) - Spent(b)
<1> USE DEF IInv
<1>1. /\ n \notin DOMAIN owners /\ owners' = Put(owners, n, creator)
      /\ UNCHANGED <<stat, accounts, refunds, deferred, dropped, rex, now>>
      /\ CallsOK'
  BY DEF newaccount, Called, CallsOK
<1>2. /\ DOMAIN owners' = DOMAIN owners \cup {n} /\ owners'[n] = creator
      /\ \A m \in DOMAIN owners : owners'[m] = owners[m]
  BY <1>1 DEF Put
<1>3. RowsOK' /\ StatOK' /\ RefundsOK' /\ RexOK'
  BY <1>1 DEF RowsOK, StatOK, RefundsOK, RexOK, Supply
<1>4. BidsOK'
  BY BidsInv DEF AuctionsOK, newaccount, Claimed, BidsOK
<1>5. CASE creator # eosio /\ n \in Premium
  <2>1. /\ n \in DOMAIN bids /\ bids[n].high_bidder = creator /\ bids[n].high_bid < 0
        /\ bids' = [m \in DOMAIN bids \ {n} |-> bids[m]]
    BY <1>5 DEF newaccount, Claimed
  <2>2. DOMAIN bids' = DOMAIN bids \ {n} /\ \A m \in DOMAIN bids' : bids'[m] = bids[m]
    BY <2>1
  <2>3. IsFiniteSet(DOMAIN bids') /\ DOMAIN bids' \subseteq Premium
    BY <2>2, FS_Subset DEF AuctionsOK
  <2>4. AuctionsOK'
    BY <1>1, <1>2, <1>4, <2>2, <2>3 DEF AuctionsOK
  <2>5. SameBut(bids, bids', n) /\ SameBut(refunds, refunds', n)
    BY <1>1, <2>2 DEF SameBut
  <2>6. OpenBid(bids', n) = 0 /\ OpenBid(bids, n) = 0 /\ bids[n].high_bid \in Int
    BY <2>1, <2>2 DEF OpenBid, AuctionsOK, BidsOK, BidRow
  <2>7. NamesBacked'
    <3>1. SumOf(HighBids)' = SumOf(HighBids) + 0 - 0
      BY <2>4, <2>5, <2>6, HighBidsChange
    <3>2. SumOf(HighBids) \in Int
      BY OpenTable, BalanceInt
    <3>3. Balance(names_account)' = Balance(names_account)
      BY <1>1 DEF Balance
    <3> QED
      BY <1>1, <3>1, <3>2, <3>3 DEF NamesBacked
  <2>8. ASSUME NEW b \in Bidders PROVE Wealth(b)' = Wealth(b) - Spent(b)
    <3>1. /\ Wealth(b)' = Wealth(b) + (Balance(b)' - Balance(b))
                + (RefundFor(b, refunds', n) - RefundFor(b, refunds, n))
                + (PriceFor(b, bids', n) - PriceFor(b, bids, n))
          /\ Wealth(b) \in Int /\ Balance(b) \in Int
          /\ RefundFor(b, refunds, n) \in Int /\ PriceFor(b, bids, n) \in Int
      BY <1>3, <2>4, <2>5, WealthChange
    <3>2. Balance(b)' = Balance(b) /\ RefundFor(b, refunds', n) = RefundFor(b, refunds, n)
      BY <1>1 DEF Balance
    <3>3. PriceFor(b, bids', n) = 0
      BY <2>2 DEF PriceFor
    <3>4. Spent(b) = PriceFor(b, bids, n)
      <4>1. CASE b = creator
        <5>1. {m \in Won(b) \ DOMAIN bids' : owners'[m] = b} = {n}
          BY <1>2, <2>1, <2>2, <4>1 DEF Won
        <5>2. Prices[n] = PriceFor(b, bids, n)
          BY <2>1, <4>1 DEF Prices, PriceFor
        <5> QED
          BY <3>1, <5>1, <5>2, SumSingle DEF Spent
      <4>2. CASE b # creator
        <5>1. {m \in Won(b) \ DOMAIN bids' : owners'[m] = b} = {}
          BY <2>1, <2>2, <4>2 DEF Won
        <5>2. PriceFor(b, bids, n) = 0
          BY <2>1, <4>2 DEF PriceFor
        <5> QED
          BY <5>1, <5>2, SumEmpty DEF Spent
      <4> QED
        BY <4>1, <4>2
    <3> QED
      BY <3>1, <3>2, <3>3, <3>4
  <2> QED
    BY <1>1, <1>3, <2>4, <2>7, <2>8
<1>6. CASE ~(creator # eosio /\ n \in Premium)
  <2>1. UNCHANGED bids
    BY <1>6 DEF newaccount
  <2>2. \A m \in DOMAIN bids : m \in DOMAIN owners' => owners'[m] = eosio
    BY <1>2, <1>6, NamesAssumption DEF AuctionsOK
  <2>3. AuctionsOK'
    BY <1>1, <1>2, <1>4, <2>1, <2>2 DEF AuctionsOK
  <2>4. NamesBacked'
    BY <1>1, <2>1 DEF NamesBacked, Balance, HighBids, OpenBids
  <2>5. ASSUME NEW b \in Bidders PROVE Wealth(b)' = Wealth(b) - Spent(b)
    <3>1. Wealth(b)' = Wealth(b)
      BY <1>1, <2>1 DEF Wealth, Balance, RefundsOf, Prices, Won
    <3>2. SameBut(bids, bids', 0) /\ SameBut(refunds, refunds', 0)
      BY <1>1, <2>1 DEF SameBut
    <3>3. Spent(b) = 0 /\ Wealth(b) \in Int
      BY <1>3, <2>1, <2>3, <3>2, NothingSpent, WealthChange
    <3> QED
      BY <3>1, <3>3
  <2> QED
    BY <1>1, <1>3, <2>3, <2>4, <2>5
<1> QED
  BY <1>5, <1>6

\* The proceeds go to REX.
LEMMA RunrexStep ==
    ASSUME IInv, runrex
    PROVE  IInv' /\ \A b \in Bidders : Wealth(b)' = Wealth(b) - Spent(b)
<1> USE DEF IInv
<1> DEFINE v == rex.namebid_proceeds
<1>1. /\ v \in Nat /\ CanTransfer(accounts, names_account, rex_account, v)
      /\ accounts' = Transferred(accounts, names_account, rex_account, v)
      /\ UNCHANGED <<stat, bids, refunds, deferred, dropped, owners, now, budget>>
      /\ rex' = [rex EXCEPT !.namebid_proceeds = 0]
  BY DEF runrex, RexOK
<1>2. /\ RexOK' /\ rex'.namebid_proceeds = 0
  BY <1>1 DEF RexOK
<1> HIDE DEF v
<1>3. /\ rex_account \in Accounts /\ names_account # rex_account
      /\ names_account \notin Bidders /\ rex_account \notin Bidders
  BY NamesAssumption
<1>4. RowsOK' /\ Moved(accounts, accounts', names_account, rex_account, v)
  BY <1>1, <1>3, PaidOK
<1>5. /\ Balance(names_account)' = Balance(names_account) - v
      /\ \A b \in Bidders : Balance(b)' = Balance(b)
  BY <1>3, <1>4 DEF Moved, Balance
<1>6. AuctionsOK' /\ RefundsOK' /\ CallsOK' /\ StatOK'
  BY <1>1 DEF AuctionsOK, BidsOK, RefundsOK, CallsOK, StatOK
<1>7. NamesBacked'
  <2>1. SumOf(HighBids)' = SumOf(HighBids) /\ SumOf(refunds)' = SumOf(refunds)
    BY <1>1 DEF HighBids, OpenBids
  <2>2. SumOf(HighBids) \in Int /\ SumOf(refunds) \in Int /\ Balance(names_account) \in Int
    BY OpenTable, BalanceInt DEF RefundsOK, RowsOK, Balance
  <2>3. Balance(names_account) >= SumOf(refunds) + SumOf(HighBids) + v
    BY DEF NamesBacked, v
  <2> QED
    BY <1>1, <1>2, <1>5, <2>1, <2>2, <2>3 DEF NamesBacked
<1>8. SameBut(bids, bids', 0) /\ SameBut(refunds, refunds', 0)
  BY <1>1 DEF SameBut
<1>9. ASSUME NEW b \in Bidders PROVE Wealth(b)' = Wealth(b) - Spent(b)
  <2>1. Wealth(b)' = Wealth(b)
    BY <1>1, <1>5 DEF Wealth, RefundsOf, Prices, Won
  <2>2. Spent(b) = 0 /\ Wealth(b) \in Int
    BY <1>1, <1>4, <1>6, <1>8, NothingSpent, WealthChange
  <2> QED
    BY <2>1, <2>2
<1> QED
  BY <1>2, <1>4, <1>6, <1>7, <1>9

\* A refund that is asked for, and one that the chain runs or drops.
LEMMA RefundStep ==
    ASSUME IInv, NEW c \in Bidders, NEW n \in Premium,
           bidrefund(c, n) \/ RunDeferred(<<c, n>>)
    PROVE  IInv' /\ \A b \in Bidders : Wealth(b)' = Wealth(b) - Spent(b)
<1> DEFINE r == <<c, n>>
<1>1. r \in Pairs
  BY DEF Pairs
<1>2. /\ UNCHANGED <<stat, bids, owners, rex, now>>
      /\ deferred' \subseteq deferred /\ CallsOK'
  BY DEF bidrefund, RunDeferred, Called, IInv, CallsOK
<1>3. CASE Refunded(r)
  BY <1>1, <1>2, <1>3, RefundedStep
<1>4. CASE /\ dropped' = dropped \cup ({r} \cap DOMAIN refunds)
           /\ UNCHANGED <<accounts, refunds>>
  <2>1. now' \in Nat /\ now <= now'
    BY <1>2 DEF IInv, AuctionsOK, BidsOK
  <2>2. RexOK' /\ rex'.namebid_proceeds = rex.namebid_proceeds
    BY <1>2 DEF IInv, RexOK
  <2>3. deferred' \subseteq Pairs /\ dropped' \subseteq Pairs
    BY <1>1, <1>2, <1>4 DEF IInv, RefundsOK
  <2> QED
    BY <1>2, <1>4, <2>1, <2>2, <2>3, StillStep
<1> QED
  BY <1>3, <1>4 DEF bidrefund, RunDeferred

LEMMA IdleStep ==
    ASSUME IInv, RexChanges \/ UNCHANGED vars
    PROVE  IInv' /\ \A b \in Bidders : Wealth(b)' = Wealth(b) - Spent(b)
<1>1. UNCHANGED <<stat, accounts, bids, refunds, deferred, dropped, owners, now>>
  BY DEF RexChanges, vars, auction
<1>2. RexOK' /\ rex'.namebid_proceeds = rex.namebid_proceeds /\ CallsOK'
  <2>1. rex' = rex \/ rex' = [rex EXCEPT !.available = ~@]
    BY DEF RexChanges, vars, auction
  <2>2. \/ budget' = budget
        \/ budget.auction > 0 /\ budget' = [budget EXCEPT !.auction = @ - 1]
    <3>1. CASE RexChanges
      BY <3>1 DEF RexChanges, Called
    <3>2. CASE UNCHANGED vars
      BY <3>2 DEF vars
    <3> QED
      BY <3>1, <3>2
  <2>3. RexOK' /\ rex'.namebid_proceeds = rex.namebid_proceeds
    BY <2>1 DEF IInv, RexOK
  <2>4. CallsOK'
    BY <2>2 DEF IInv, CallsOK
  <2> QED
    BY <2>3, <2>4
<1>3. /\ now' \in Nat /\ now <= now'
      /\ deferred' \subseteq Pairs /\ dropped' \subseteq Pairs
  BY <1>1 DEF IInv, AuctionsOK, BidsOK, RefundsOK
<1> QED
  BY <1>1, <1>2, <1>3, StillStep

TokenStep ==
    /\ TokenCalled
    /\ \/ \E b \in Bidders, q \in Quantities : T!create(b, q)
       \/ \E q \in Quantities : T!issue(q) \/ T!retire(q)
       \/ \E a, b \in Bidders, q \in Quantities : T!transfer(a, b, q)
       \/ \E b \in Bidders : T!open(b) \/ T!close(b)

\* Calls of the token contract are counted, and touch no account of the system.
LEMMA TokenIInv ==
    ASSUME IInv, TokenStep
    PROVE  IInv' /\ budget'.token # budget.token
<1> USE DEF IInv, TokenStep
<1>1. UNCHANGED auction /\ CallsOK' /\ budget'.token # budget.token
  BY DEF TokenCalled, CallsOK
<1>2. /\ StatOK' /\ RowsOK'
      /\ \A a : a \notin Bidders => Balance(a)' = Balance(a)
  BY TokenStepOK
<1>3. AuctionsOK' /\ RefundsOK' /\ RexOK'
  BY <1>1 DEF auction, AuctionsOK, BidsOK, RefundsOK, RexOK
<1>4. Balance(names_account)' = Balance(names_account)
  BY <1>2, NamesAssumption
<1>5. NamesBacked'
  BY <1>1, <1>4 DEF NamesBacked, auction, HighBids, OpenBids
<1> QED
  BY <1>1, <1>2, <1>3, <1>5

LEMMA TokenCalls ==
    ASSUME \/ \E b \in Bidders, q \in Quantities : T!create(b, q) /\ TokenCalled
           \/ \E q \in Quantities : T!issue(q) /\ TokenCalled
           \/ \E q \in Quantities : T!retire(q) /\ TokenCalled
           \/ \E a, b \in Bidders, q \in Quantities : T!transfer(a, b, q) /\ TokenCalled
           \/ \E b \in Bidders : T!open(b) /\ TokenCalled
           \/ \E b \in Bidders : T!close(b) /\ TokenCalled
    PROVE  TokenStep
BY Zenon DEF TokenStep

\* Wealth is kept unless the call is one of the token's.
Whole == budget'.token = budget.token => \A b \in Bidders : Wealth(b)' = Wealth(b) - Spent(b)

LEMMA NextStep ==
    ASSUME IInv, [Next]_vars
    PROVE  IInv' /\ Whole
<1>1. CASE \E b \in Bidders, n \in Premium :
             \/ \E bid \in Bids : bidname(b, n, bid)
             \/ bidrefund(b, n)
             \/ RunDeferred(<<b, n>>)
  BY <1>1, BidStep, RefundStep DEF Whole
<1>2. CASE \E creator \in Bidders \cup {eosio} \cup DOMAIN owners, n \in Premium \cup Others :
             newaccount(creator, n)
  BY <1>2, AccountStep DEF Whole
<1>3. CASE Block
  BY <1>3, BlockStep DEF Whole
<1>4. CASE runrex
  BY <1>4, RunrexStep DEF Whole
<1>5. CASE RexChanges \/ UNCHANGED vars
  BY <1>5, IdleStep DEF Whole
<1>6. CASE TokenStep
  BY <1>6, TokenIInv DEF Whole
<1> HIDE DEF TokenStep, Whole, IInv
<1> QED
  BY <1>1, <1>2, <1>3, <1>4, <1>5, <1>6, TokenCalls, Zenon DEF Next

LEMMA InitIInv == Init => IInv
<1> SUFFICES ASSUME Init PROVE IInv
  OBVIOUS
<1> USE DEF Init
<1>1. IsTable(NoRows) /\ SumOf(NoRows) = 0 /\ DOMAIN NoRows = {}
  BY EmptyTable DEF NoRows
<1>2. AuctionsOK
  BY <1>1, FS_EmptySet DEF AuctionsOK, BidsOK, NoRows
<1>3. RefundsOK
  BY <1>1 DEF RefundsOK
<1>4. RexOK /\ rex.namebid_proceeds = 0 /\ CallsOK
  BY NamesAssumption DEF RexOK, CallsOK
<1>5. ASSUME budget.auction = 0 PROVE StatOK /\ RowsOK /\ Balance(names_account) = 0
  <2>1. stat = NoStat /\ accounts = [a \in {} |-> 0]
    BY <1>5 DEF T!Init
  <2>2. StatOK /\ RowsOK
    BY <2>1, EmptyTable DEF StatOK, RowsOK, NoDebts, Supply
  <2>3. Balance(names_account) = 0
    BY <2>1 DEF Balance, BalanceOf
  <2> QED
    BY <2>2, <2>3
<1>6. ASSUME budget.auction # 0 PROVE StatOK /\ RowsOK /\ Balance(names_account) = 0
  <2>1. PICK issuer \in Bidders :
          stat = [supply |-> Funds * Cardinality(Bidders), max_supply |-> MaxAmount,
                  issuer |-> issuer]
    BY <1>6
  <2>2. accounts = [b \in Bidders |-> Funds]
    BY <1>6
  <2>3. /\ IsFiniteSet(Bidders) /\ Funds \in Nat /\ MaxAmount \in Nat
        /\ Funds * Cardinality(Bidders) <= MaxAmount
    BY NamesAssumption, FundsAssumption
  <2>4. Cardinality(Bidders) \in Nat /\ Funds * Cardinality(Bidders) \in Nat
    BY <2>3, FS_CardinalityType
  <2>5. stat \in T!StatRow /\ StatOK /\ Supply = Funds * Cardinality(Bidders)
    BY <2>1, <2>3, <2>4, NamesAssumption, NoStatAssumption DEF T!StatRow, StatOK, Supply
  <2>6. SumOf(accounts) = Funds * Cardinality(Bidders)
    BY <2>2, <2>3, SumConstant DEF SumOf, IsEven
  <2>7. RowsOK
    BY <2>2, <2>3, <2>5, <2>6, NamesAssumption DEF RowsOK, IsTable, NoDebts
  <2>8. Balance(names_account) = 0
    BY <2>2, NamesAssumption DEF Balance, BalanceOf
  <2> QED
    BY <2>5, <2>7, <2>8
<1>7. SumOf(HighBids) = 0
  <2>1. HighBids = [n \in {} |-> 0]
    BY <1>1 DEF HighBids, OpenBids
  <2> QED
    BY <2>1, EmptyTable
<1>8. NamesBacked
  BY <1>1, <1>4, <1>5, <1>6, <1>7 DEF NamesBacked
<1> QED
  BY <1>2, <1>3, <1>4, <1>5, <1>6, <1>8 DEF IInv

\* The auctions, the refunds, the balances of the token and the funds of
\* eosio.names fit together in every state.
THEOREM SpecIInv == Spec => []IInv
<1>1. IInv /\ [Next]_vars => IInv'
  BY NextStep
<1> QED
  BY <1>1, InitIInv, PTL DEF Spec

-----------------------------------------------------------------------------
(* The theorems                                                            *)

\* The tables of the auctions, of the refunds and of the token keep their
\* types; a name that a bidder has claimed has no auction any more.
THEOREM Types == Spec => []TypeOK
<1>1. IInv => TypeOK
  <2> SUFFICES ASSUME IInv PROVE TypeOK
    OBVIOUS
  <2>1. T!TypeOK
    BY TokenTyped DEF IInv
  <2>2. ASSUME NEW n \in DOMAIN bids
        PROVE  /\ bids[n].high_bidder \in Bidders /\ bids[n].last_bid_time \in 0..now
               /\ bids[n].high_bid \in Int \ {0}
               /\ n \in DOMAIN owners => owners[n] = eosio
    BY DEF IInv, AuctionsOK, BidsOK, BidRow
  <2>3. rex.available \in BOOLEAN /\ rex.namebid_proceeds \in Nat
    BY DEF IInv, RexOK
  <2> QED
    BY <2>1, <2>2, <2>3 DEF TypeOK, IInv, AuctionsOK, RefundsOK
<1> QED
  BY <1>1, SpecIInv, PTL

\* The supply is always what the balance rows add up to.
THEOREM SupplyIsBacked == Spec => []SupplyBacked
<1>1. IInv => SupplyBacked
  BY TokenTyped DEF IInv
<1> QED
  BY <1>1, SpecIInv, PTL

\* The account of the auctions can pay every refund, return every high bid
\* and hand over the proceeds, all at once.
THEOREM NamesAreBacked == Spec => []NamesBacked
<1>1. IInv => NamesBacked
  BY DEF IInv
<1> QED
  BY <1>1, SpecIInv, PTL

\* Whatever a bidder puts into auctions it still has, as tokens, refunds or
\* high bids, but for the price of the names that it creates.
THEOREM BiddersStayWhole == Spec => BiddersWhole
<1>1. IInv /\ [Next]_vars =>
        [ budget'.token = budget.token =>
            \A b \in Bidders :
              Wealth(b)' = Wealth(b) - SumOver(Prices, {n \in Won(b) \ DOMAIN bids' : owners'[n] = b})
        ]_vars
  BY NextStep DEF Whole, Spent
<1> QED
  BY <1>1, SpecIInv, PTL DEF Spec, BiddersWhole
=============================================================================
