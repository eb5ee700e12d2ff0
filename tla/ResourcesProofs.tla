--------------------------- MODULE ResourcesProofs ---------------------------
(***************************************************************************)
(* Proofs about Resources, for every set of users and producers, every     *)
(* amount, weight of votes and delay, and every number of calls.  For each *)
(* helper there is what it leaves alone (Frame) and what it does to the    *)
(* tables it changes; the parts of the invariant are about few tables      *)
(* each:                                                                   *)
(*   - StakesOK: stakes, what waits to be refunded, and eosio.stake,       *)
(*   - RefundsOK: when a refund is due, and its deferred transaction,      *)
(*   - RamOK: the market of RAM, what is owned, and eosio.ram, and         *)
(*   - LimitsOK: limits and what they follow from.                         *)
(* Votes come last.  A row of a voter is a ballot that has been counted:   *)
(* the stake, the weight, and the proxy or the producers that it went to.  *)
(* Tables have counted the ballots c, Tallied, if every proxy has the sum  *)
(* of what c gives it and every producer of what c casts for it, and the   *)
(* total is right but for the rounding that has drifted.  An action takes  *)
(* old ballots back and casts new ones, and in the middle of it c differs  *)
(* from the rows (Open); between actions c is what the rows say, every row *)
(* follows its owner's stake, and what a proxy casts follows what it has   *)
(* been given (AllCounted).                                                *)
(***************************************************************************)
EXTENDS Resources, LedgerProofs

TableFields == {"ok", "now", "ledger", "delband", "userres", "refunds", "deferred", "limits",
                "voters", "prods", "total_producer_vote_weight", "market", "ram"}
IsTables(t) == t = [x \in TableFields |-> t[x]] /\ t.ok \in BOOLEAN

\* From t to h no field has changed but those in F, and a check that had
\* failed is still known.
Frame(t, h, F) ==
    /\ IsTables(h)
    /\ h.ok => t.ok
    /\ \A x \in TableFields \ (F \cup {"ok"}) : h[x] = t[x]

-----------------------------------------------------------------------------
(* Tables and their fields                                                 *)

\* One field is written: delband.
LEMMA DelbandSet ==
    ASSUME NEW t, IsTables(t), NEW v
    PROVE  LET h == [t EXCEPT !.delband = v] IN Frame(t, h, {"delband"}) /\ h.delband = v /\ h.ok = t.ok
BY SMT DEF IsTables, TableFields, Frame

\* The same for userres,
LEMMA UserresSet ==
    ASSUME NEW t, IsTables(t), NEW v
    PROVE  LET h == [t EXCEPT !.userres = v] IN Frame(t, h, {"userres"}) /\ h.userres = v /\ h.ok = t.ok
BY SMT DEF IsTables, TableFields, Frame

\* The same for limits,
LEMMA LimitsSet ==
    ASSUME NEW t, IsTables(t), NEW v
    PROVE  LET h == [t EXCEPT !.limits = v] IN Frame(t, h, {"limits"}) /\ h.limits = v /\ h.ok = t.ok
BY SMT DEF IsTables, TableFields, Frame

\* The same for refunds,
LEMMA RefundsSet ==
    ASSUME NEW t, IsTables(t), NEW v
    PROVE  LET h == [t EXCEPT !.refunds = v] IN Frame(t, h, {"refunds"}) /\ h.refunds = v /\ h.ok = t.ok
BY SMT DEF IsTables, TableFields, Frame

\* The same for deferred,
LEMMA DeferredSet ==
    ASSUME NEW t, IsTables(t), NEW v
    PROVE  LET h == [t EXCEPT !.deferred = v] IN Frame(t, h, {"deferred"}) /\ h.deferred = v /\ h.ok = t.ok
BY SMT DEF IsTables, TableFields, Frame

\* The same for voters,
LEMMA VotersSet ==
    ASSUME NEW t, IsTables(t), NEW v
    PROVE  LET h == [t EXCEPT !.voters = v] IN Frame(t, h, {"voters"}) /\ h.voters = v /\ h.ok = t.ok
BY SMT DEF IsTables, TableFields, Frame

\* The same for prods,
LEMMA ProdsSet ==
    ASSUME NEW t, IsTables(t), NEW v
    PROVE  LET h == [t EXCEPT !.prods = v] IN Frame(t, h, {"prods"}) /\ h.prods = v /\ h.ok = t.ok
BY SMT DEF IsTables, TableFields, Frame

\* and for the total weight of votes.
LEMMA TotalSet ==
    ASSUME NEW t, IsTables(t), NEW v
    PROVE  LET h == [t EXCEPT !.total_producer_vote_weight = v]
           IN  /\ Frame(t, h, {"total_producer_vote_weight"})
               /\ h.total_producer_vote_weight = v /\ h.ok = t.ok
BY SMT DEF IsTables, TableFields, Frame

\* A check changes nothing but whether the transaction can succeed.
LEMMA CheckFrame ==
    ASSUME NEW t, IsTables(t), NEW p \in BOOLEAN
    PROVE  /\ Frame(t, Check(t, p), {})
           /\ Check(t, p).ok => p
           /\ Check(t, p).ok <=> t.ok /\ p
BY SMT DEF IsTables, TableFields, Check, Frame

\* Frames add up.
LEMMA FrameChain ==
    ASSUME NEW t, NEW h, NEW k, NEW F, NEW G, Frame(t, h, F), Frame(h, k, G)
    PROVE  Frame(t, k, F \cup G)
BY DEF Frame

\* A frame may be widened.
LEMMA FrameWider ==
    ASSUME NEW t, NEW h, NEW F, NEW G, Frame(t, h, F), F \subseteq G
    PROVE  Frame(t, h, G)
BY DEF Frame

\* An inline transfer changes the ledger alone.
LEMMA TransferFrame ==
    ASSUME NEW t, IsTables(t), NEW from, NEW to, NEW v
    PROVE  LET h == transfer(t, from, to, v)
           IN  /\ Frame(t, h, {"ledger"})
               /\ h.ok => /\ CanTransfer(t.ledger, from, to, v)
                          /\ h.ledger = Transferred(t.ledger, from, to, v)
<1>1. CASE CanTransfer(t.ledger, from, to, v)
  <2>1. PICK l : l = Transferred(t.ledger, from, to, v)
    OBVIOUS
  <2>2. transfer(t, from, to, v) = [t EXCEPT !.ledger = l]
    BY <1>1, <2>1 DEF transfer
  <2>3. Frame(t, [t EXCEPT !.ledger = l], {"ledger"}) /\ [t EXCEPT !.ledger = l].ledger = l
    BY SMT DEF IsTables, TableFields, Frame
  <2> QED
    BY <1>1, <2>1, <2>2, <2>3
<1>2. CASE ~CanTransfer(t.ledger, from, to, v)
  <2>1. Frame(t, Check(t, FALSE), {}) /\ ~Check(t, FALSE).ok
    BY CheckFrame
  <2>2. transfer(t, from, to, v) = Check(t, FALSE)
    BY <1>2 DEF transfer
  <2> QED
    BY <2>1, <2>2 DEF Frame, TableFields
<1> QED
  BY <1>1, <1>2

-----------------------------------------------------------------------------
(* Stakes                                                                  *)

Changes == [net : Int, cpu : Int]

\* The columns that are summed: of what is delegated, in all and by receiver
\* and source, and of what waits to be refunded.
AmountsOf(rows) == [k \in DOMAIN rows |-> Sum2(rows[k])]
ReceivedBy(rows, a) == [k \in {j \in DOMAIN rows : j[2] = a} |-> Sum2(rows[k])]
GivenBy(rows, a) == [k \in {j \in DOMAIN rows : j[1] = a} |-> Sum2(rows[k])]
AwaitedOf(rows) == [a \in DOMAIN rows |-> Sum2(rows[a].weights)]

StakeRows(rows) ==
    /\ DOMAIN rows \subseteq Users \X Users
    /\ rows = [k \in DOMAIN rows |-> rows[k]]
    /\ \A k \in DOMAIN rows : rows[k] \in WeightRows \ {NoWeights}

\* What a row says, no row being nothing.
RowOf(rows, key) == IF key \in DOMAIN rows THEN rows[key] ELSE NoWeights

\* Weights add up by kind.
LEMMA WeightsAdd ==
    ASSUME NEW w \in Changes, NEW d \in Changes
    PROVE  /\ Plus(w, d) \in Changes /\ Minus(w, d) \in Changes
           /\ Plus(w, d).net = w.net + d.net /\ Plus(w, d).cpu = w.cpu + d.cpu
           /\ Minus(w, d).net = w.net - d.net /\ Minus(w, d).cpu = w.cpu - d.cpu
           /\ Sum2(Plus(w, d)) = Sum2(w) + Sum2(d) /\ Sum2(Minus(w, d)) = Sum2(w) - Sum2(d)
           /\ Sum2(w) \in Int /\ Sum2(d) \in Int
BY DEF Changes, Plus, Minus, Weights, Sum2

\* No weights, and which changes are weights.
LEMMA NoWeightsZero ==
    /\ NoWeights \in WeightRows /\ NoWeights \in Changes
    /\ NoWeights.net = 0 /\ NoWeights.cpu = 0 /\ Sum2(NoWeights) = 0
    /\ \A w \in Changes : w.net = 0 /\ w.cpu = 0 => w = NoWeights
    /\ WeightRows \subseteq Changes
    /\ \A w \in Changes : NonNegative(w) => w \in WeightRows
    /\ \A w \in WeightRows : NonNegative(w) /\ Sum2(w) \in Nat
    /\ \A w \in WeightRows : Sum2(w) = 0 => w = NoWeights
BY DEF NoWeights, Weights, WeightRows, Changes, Sum2, NonNegative

\* The columns can be summed.
LEMMA StakeColumns ==
    ASSUME NEW d, StakeRows(d)
    PROVE  /\ IsTable(AmountsOf(d)) /\ \A a : IsTable(ReceivedBy(d, a)) /\ IsTable(GivenBy(d, a))
           /\ \A key : /\ BalanceOf(AmountsOf(d), key) = Sum2(RowOf(d, key))
                       /\ \A a : BalanceOf(ReceivedBy(d, a), key) =
                            IF key[2] = a THEN Sum2(RowOf(d, key)) ELSE 0
                       /\ \A a : BalanceOf(GivenBy(d, a), key) =
                            IF key[1] = a THEN Sum2(RowOf(d, key)) ELSE 0
                       /\ RowOf(d, key) \in WeightRows /\ Sum2(RowOf(d, key)) \in Nat
           /\ \A a : SumOf(ReceivedBy(d, a)) \in Nat /\ SumOf(GivenBy(d, a)) \in Nat
           /\ SumOf(AmountsOf(d)) \in Nat
<1>1. IsFiniteSet(Users \X Users)
  BY ResourcesAssumption, FS_Product
<1>2. IsFiniteSet(DOMAIN d)
  BY <1>1, FS_Subset DEF StakeRows
<1>3. \A k \in DOMAIN d : Sum2(d[k]) \in Nat
  BY NoWeightsZero DEF StakeRows
<1>4. IsTable(AmountsOf(d)) /\ SumOf(AmountsOf(d)) \in Nat
  BY <1>2, <1>3, SumNat DEF AmountsOf, IsTable, SumOf
<1>5. ASSUME NEW a PROVE IsTable(ReceivedBy(d, a)) /\ SumOf(ReceivedBy(d, a)) \in Nat
  <2>1. IsFiniteSet({j \in DOMAIN d : j[2] = a})
    BY <1>2, FS_Subset
  <2> QED
    BY <1>3, <2>1, SumNat DEF ReceivedBy, IsTable, SumOf
<1>6. ASSUME NEW a PROVE IsTable(GivenBy(d, a)) /\ SumOf(GivenBy(d, a)) \in Nat
  <2>1. IsFiniteSet({j \in DOMAIN d : j[1] = a})
    BY <1>2, FS_Subset
  <2> QED
    BY <1>3, <2>1, SumNat DEF GivenBy, IsTable, SumOf
<1>7. \A key : RowOf(d, key) \in WeightRows /\ Sum2(RowOf(d, key)) \in Nat
  BY <1>3, NoWeightsZero DEF StakeRows, RowOf
<1>8. \A key : /\ BalanceOf(AmountsOf(d), key) = Sum2(RowOf(d, key))
               /\ \A a : BalanceOf(ReceivedBy(d, a), key) =
                    IF key[2] = a THEN Sum2(RowOf(d, key)) ELSE 0
               /\ \A a : BalanceOf(GivenBy(d, a), key) =
                    IF key[1] = a THEN Sum2(RowOf(d, key)) ELSE 0
  BY NoWeightsZero DEF AmountsOf, ReceivedBy, GivenBy, BalanceOf, RowOf
<1> QED
  BY <1>4, <1>5, <1>6, <1>7, <1>8

\* A stake that is given by one to another changes by an amount.
Restaked(d, e, from, receiver, v) ==
    /\ StakeRows(e)
    /\ SumOf(AmountsOf(e)) = SumOf(AmountsOf(d)) + v
    /\ \A a : SumOf(ReceivedBy(e, a)) = SumOf(ReceivedBy(d, a)) + IF a = receiver THEN v ELSE 0
    /\ \A a : SumOf(GivenBy(e, a)) = SumOf(GivenBy(d, a)) + IF a = from THEN v ELSE 0

\* A row is put in, or taken out when it is empty.
Rewritten(d, key, w) == IF w = NoWeights THEN Erase(d, key) ELSE Put(d, key, w)

\* A column from which a row is taken out, or one where it is put.
LEMMA RewrittenColumn ==
    ASSUME NEW f, IsTable(f), NEW key, NEW v \in Int, NEW g,
           \/ g = Put(f, key, v)
           \/ g = Erase(f, key) /\ v = 0
    PROVE  SumOf(g) = SumOf(f) - BalanceOf(f, key) + v /\ SumOf(f) \in Int /\ BalanceOf(f, key) \in Int
<1>1. CASE g = Put(f, key, v)
  BY <1>1, PutHeld
<1>2. CASE g = Erase(f, key) /\ v = 0
  <2>1. SumOf(f) \in Int /\ BalanceOf(f, key) \in Int
    BY BalanceInt
  <2> QED
    BY <1>2, <2>1, EraseHeld
<1> QED
  BY <1>1, <1>2

\* A change of what one account has delegated to another, which erases an empty
\* row, changes the sums by as much: changebw writes delband so.
LEMMA RestakedRow ==
    ASSUME NEW d, StakeRows(d), NEW from \in Users, NEW receiver \in Users,
           NEW delta \in Changes, NEW w, w = Plus(RowOf(d, <<from, receiver>>), delta), NonNegative(w)
    PROVE  Restaked(d, Rewritten(d, <<from, receiver>>, w), from, receiver, Sum2(delta))
<1> DEFINE e == Rewritten(d, <<from, receiver>>, w)
<1>0. PICK key : key = <<from, receiver>>
  OBVIOUS
<1>1. key \in Users \X Users /\ key[1] = from /\ key[2] = receiver
  BY <1>0
<1>2. /\ w \in WeightRows
      /\ Sum2(w) = Sum2(RowOf(d, key)) + Sum2(delta)
      /\ Sum2(w) \in Int /\ Sum2(RowOf(d, key)) \in Int /\ Sum2(delta) \in Int
  BY <1>0, StakeColumns, NoWeightsZero, WeightsAdd
<1>3. StakeRows(e)
  <2>1. CASE w = NoWeights
    BY <1>0, <2>1 DEF StakeRows, Rewritten, Erase
  <2>2. CASE w # NoWeights
    <3>1. e = Put(d, key, w)
      BY <1>0, <2>2 DEF Rewritten
    <3> HIDE DEF e
    <3>2. /\ DOMAIN e = DOMAIN d \cup {key} /\ e = [k \in DOMAIN e |-> e[k]]
          /\ e[key] = w /\ \A k \in DOMAIN d \ {key} : e[k] = d[k]
      BY <3>1 DEF Put
    <3> QED
      BY <1>1, <1>2, <2>2, <3>2 DEF StakeRows
  <2> QED
    BY <2>1, <2>2
<1>4. SumOf(AmountsOf(e)) = SumOf(AmountsOf(d)) + Sum2(delta)
  <2>1. \/ AmountsOf(e) = Put(AmountsOf(d), key, Sum2(w))
        \/ AmountsOf(e) = Erase(AmountsOf(d), key) /\ Sum2(w) = 0
    BY <1>0, NoWeightsZero DEF AmountsOf, Rewritten, Put, Erase
  <2>2. IsTable(AmountsOf(d)) /\ BalanceOf(AmountsOf(d), key) = Sum2(RowOf(d, key))
    BY StakeColumns
  <2>3. SumOf(AmountsOf(e)) = SumOf(AmountsOf(d)) - BalanceOf(AmountsOf(d), key) + Sum2(w)
        /\ SumOf(AmountsOf(d)) \in Int
    BY <1>2, <2>1, <2>2, RewrittenColumn
  <2> QED
    BY <1>2, <2>2, <2>3
<1>5. ASSUME NEW a
      PROVE  SumOf(ReceivedBy(e, a)) = SumOf(ReceivedBy(d, a)) + IF a = receiver THEN Sum2(delta) ELSE 0
  <2> DEFINE f == ReceivedBy(d, a)
             g == ReceivedBy(e, a)
  <2>1. IsTable(f) /\ BalanceOf(f, key) = IF key[2] = a THEN Sum2(RowOf(d, key)) ELSE 0
    BY StakeColumns
  <2>2. CASE a = receiver
    <3>1. g = Put(f, key, Sum2(w)) \/ (g = Erase(f, key) /\ Sum2(w) = 0)
      BY <1>0, <1>1, <2>2, NoWeightsZero DEF ReceivedBy, Rewritten, Put, Erase
    <3> HIDE DEF f, g
    <3>2. SumOf(g) = SumOf(f) - BalanceOf(f, key) + Sum2(w) /\ SumOf(f) \in Int
      BY <1>2, <2>1, <3>1, RewrittenColumn
    <3>3. SumOf(g) = SumOf(f) + Sum2(delta)
      BY <1>1, <1>2, <2>1, <2>2, <3>2
    <3> QED
      BY <2>2, <3>3 DEF f, g
  <2>3. CASE a # receiver
    <3>1. g = Erase(f, key)
      BY <1>0, <1>1, <2>3 DEF ReceivedBy, Rewritten, Put, Erase
    <3> HIDE DEF f, g
    <3>2. SumOf(g) = SumOf(f) - BalanceOf(f, key) + 0 /\ SumOf(f) \in Int
      BY <2>1, <3>1, RewrittenColumn
    <3>3. SumOf(g) = SumOf(f) + 0
      BY <1>1, <2>1, <2>3, <3>2
    <3> QED
      BY <2>3, <3>3 DEF f, g
  <2> QED
    BY <2>2, <2>3
<1>6. ASSUME NEW a
      PROVE  SumOf(GivenBy(e, a)) = SumOf(GivenBy(d, a)) + IF a = from THEN Sum2(delta) ELSE 0
  <2> DEFINE f == GivenBy(d, a)
             g == GivenBy(e, a)
  <2>1. IsTable(f) /\ BalanceOf(f, key) = IF key[1] = a THEN Sum2(RowOf(d, key)) ELSE 0
    BY StakeColumns
  <2>2. CASE a = from
    <3>1. g = Put(f, key, Sum2(w)) \/ (g = Erase(f, key) /\ Sum2(w) = 0)
      BY <1>0, <1>1, <2>2, NoWeightsZero DEF GivenBy, Rewritten, Put, Erase
    <3> HIDE DEF f, g
    <3>2. SumOf(g) = SumOf(f) - BalanceOf(f, key) + Sum2(w) /\ SumOf(f) \in Int
      BY <1>2, <2>1, <3>1, RewrittenColumn
    <3>3. SumOf(g) = SumOf(f) + Sum2(delta)
      BY <1>1, <1>2, <2>1, <2>2, <3>2
    <3> QED
      BY <2>2, <3>3 DEF f, g
  <2>3. CASE a # from
    <3>1. g = Erase(f, key)
      BY <1>0, <1>1, <2>3 DEF GivenBy, Rewritten, Put, Erase
    <3> HIDE DEF f, g
    <3>2. SumOf(g) = SumOf(f) - BalanceOf(f, key) + 0 /\ SumOf(f) \in Int
      BY <2>1, <3>1, RewrittenColumn
    <3>3. SumOf(g) = SumOf(f) + 0
      BY <1>1, <2>1, <2>3, <3>2
    <3> QED
      BY <2>3, <3>3 DEF f, g
  <2> QED
    BY <2>2, <2>3
<1> QED
  BY <1>3, <1>4, <1>5, <1>6 DEF Restaked

\* The table delband changes by what is staked or unstaked.
LEMMA delegatedEffect ==
    ASSUME NEW t, IsTables(t), StakeRows(t.delband), NEW from \in Users, NEW receiver \in Users,
           NEW delta \in Changes
    PROVE  LET h == delegated(t, from, receiver, delta)
           IN  /\ Frame(t, h, {"delband"})
               /\ h.ok => Restaked(t.delband, h.delband, from, receiver, Sum2(delta))
<1> DEFINE w == Plus(RowOf(t.delband, <<from, receiver>>), delta)
           e == Rewritten(t.delband, <<from, receiver>>, w)
           k == [t EXCEPT !.delband = e]
           p == NonNegative(w)
<1>1. delegated(t, from, receiver, delta) = Check(k, p)
  BY DEF delegated, Rewritten, RowOf
<1>2. p \in BOOLEAN
  BY DEF NonNegative
<1>3. p => Restaked(t.delband, e, from, receiver, Sum2(delta))
  BY RestakedRow
<1> HIDE DEF w, e, p
<1>4. Frame(t, k, {"delband"}) /\ k.delband = e
  BY DelbandSet
<1> HIDE DEF k
<1>5. Frame(k, Check(k, p), {}) /\ (Check(k, p).ok => p)
  BY <1>2, <1>4, CheckFrame DEF Frame
<1> QED
  BY <1>1, <1>3, <1>4, <1>5 DEF Frame, TableFields

-----------------------------------------------------------------------------
(* What an account owns                                                    *)

OwnRow == [weights : WeightRows, ram : Nat]

\* What the row of an account says, or nothing.
OwnedBy(rows, a) == IF a \in DOMAIN rows THEN rows[a] ELSE NewResources
RamOf(rows) == [a \in DOMAIN rows |-> rows[a].ram]

OwnRows(rows) ==
    /\ DOMAIN rows \subseteq Users
    /\ rows = [a \in DOMAIN rows |-> rows[a]]
    /\ \A a \in DOMAIN rows : rows[a] \in OwnRow

\* What the model and the proofs call the resources of an account is the same.
LEMMA ResourcesOwned == \A t, a : Resources(t, a) = OwnedBy(t.userres, a)
BY DEF Resources, OwnedBy, NewResources

\* The row that newaccount writes says nothing.
LEMMA NewResourcesRow == NewResources \in OwnRow /\ NewResources.weights = NoWeights /\ NewResources.ram = 0
BY NoWeightsZero DEF NewResources, OwnRow

\* The column of RAM can be summed, and no account has more than all.
LEMMA RamColumn ==
    ASSUME NEW u, OwnRows(u)
    PROVE  /\ IsTable(RamOf(u)) /\ SumOf(RamOf(u)) \in Nat
           /\ \A a : /\ OwnedBy(u, a) \in OwnRow
                     /\ BalanceOf(RamOf(u), a) = OwnedBy(u, a).ram
                     /\ OwnedBy(u, a).ram <= SumOf(RamOf(u))
<1>1. IsFiniteSet(DOMAIN u)
  BY ResourcesAssumption, FS_Subset DEF OwnRows
<1>2. \A a \in DOMAIN u : u[a].ram \in Nat
  BY DEF OwnRows, OwnRow
<1>3. DOMAIN RamOf(u) = DOMAIN u /\ \A a \in DOMAIN u : RamOf(u)[a] = u[a].ram
  BY DEF RamOf
<1>4. IsTable(RamOf(u)) /\ SumOf(RamOf(u)) \in Nat
  <2>1. RamOf(u) = [a \in DOMAIN RamOf(u) |-> RamOf(u)[a]]
    BY DEF RamOf
  <2> QED
    BY <1>1, <1>2, <1>3, <2>1, SumNat DEF IsTable, SumOf
<1>5. \A a \in DOMAIN u : u[a].ram <= SumOf(RamOf(u))
  BY <1>2, <1>3, <1>4, RowAtMostSum
<1>6. \A a : OwnedBy(u, a) \in OwnRow
  BY NewResourcesRow DEF OwnRows, OwnedBy
<1>7. \A a : BalanceOf(RamOf(u), a) = OwnedBy(u, a).ram
  BY <1>3, NewResourcesRow DEF BalanceOf, OwnedBy
<1>8. \A a : OwnedBy(u, a).ram <= SumOf(RamOf(u))
  BY <1>4, <1>5, NewResourcesRow DEF OwnedBy
<1> QED
  BY <1>4, <1>6, <1>7, <1>8

\* From u to w the row of a has become another one.
Regranted(u, w, a, row) ==
    /\ OwnRows(w)
    /\ OwnedBy(w, a) = row
    /\ \A b : b # a => OwnedBy(w, b) = OwnedBy(u, b)
    /\ SumOf(RamOf(w)) = SumOf(RamOf(u)) - OwnedBy(u, a).ram + row.ram

\* A row of resources is written: the column of RAM changes by as much,
LEMMA RegrantedPut ==
    ASSUME NEW u, OwnRows(u), NEW a \in Users, NEW row \in OwnRow
    PROVE  Regranted(u, Put(u, a, row), a, row)
<1> DEFINE w == Put(u, a, row)
<1>1. /\ DOMAIN w = DOMAIN u \cup {a} /\ w = [b \in DOMAIN w |-> w[b]]
      /\ w[a] = row /\ \A b \in DOMAIN u \ {a} : w[b] = u[b]
  BY DEF Put
<1>2. RamOf(w) = Put(RamOf(u), a, row.ram)
  BY DEF Put, RamOf
<1> HIDE DEF w
<1>3. row.ram \in Int
  BY DEF OwnRow
<1>4. SumOf(RamOf(w)) = SumOf(RamOf(u)) - OwnedBy(u, a).ram + row.ram
  BY <1>2, <1>3, RamColumn, PutHeld
<1>5. OwnRows(w)
  BY <1>1 DEF OwnRows
<1>6. OwnedBy(w, a) = row /\ \A b : b # a => OwnedBy(w, b) = OwnedBy(u, b)
  BY <1>1 DEF OwnedBy
<1> QED
  BY <1>4, <1>5, <1>6 DEF w, Regranted

\* and so it does when an empty row is erased.
LEMMA RegrantedErase ==
    ASSUME NEW u, OwnRows(u), NEW a \in Users, NEW row, row = NewResources
    PROVE  Regranted(u, Erase(u, a), a, row)
<1> DEFINE w == Erase(u, a)
<1>1. /\ DOMAIN w = DOMAIN u \ {a} /\ w = [b \in DOMAIN w |-> w[b]]
      /\ \A b \in DOMAIN u \ {a} : w[b] = u[b]
  BY DEF Erase
<1>2. RamOf(w) = Erase(RamOf(u), a)
  BY DEF Erase, RamOf
<1> HIDE DEF w
<1>3. row.ram = 0
  BY NewResourcesRow
<1>4. SumOf(RamOf(w)) = SumOf(RamOf(u)) - OwnedBy(u, a).ram + row.ram
  <2>1. SumOf(RamOf(w)) = SumOf(RamOf(u)) - BalanceOf(RamOf(u), a)
        /\ SumOf(RamOf(u)) \in Int /\ BalanceOf(RamOf(u), a) \in Int
    BY <1>2, RamColumn, EraseHeld, BalanceInt
  <2> QED
    BY <1>3, <2>1, RamColumn
<1>5. OwnRows(w)
  BY <1>1 DEF OwnRows
<1>6. OwnedBy(w, a) = row /\ \A b : b # a => OwnedBy(w, b) = OwnedBy(u, b)
  BY <1>1 DEF OwnedBy
<1> QED
  BY <1>4, <1>5, <1>6 DEF w, Regranted

\* A stake that is received, in a row and in what it limits.
Received(row, delta) == [row EXCEPT !.weights = Plus(@, delta)]

\* update_user_resources: the row of the receiver and its limits change.
LEMMA updated_totalsEffect ==
    ASSUME NEW t, IsTables(t), OwnRows(t.userres), NEW receiver \in Users, NEW delta \in Changes
    PROVE  LET h == updated_totals(t, receiver, delta)
               row == Received(OwnedBy(t.userres, receiver), delta)
           IN  /\ Frame(t, h, {"limits", "userres"})
               /\ h.limits = [t.limits EXCEPT ![receiver] = Limits(t, receiver, row)]
               /\ h.ok => row \in OwnRow /\ Regranted(t.userres, h.userres, receiver, row)
<1> DEFINE row == Received(OwnedBy(t.userres, receiver), delta)
           u == IF row.weights = NoWeights /\ row.ram = 0
                THEN Erase(t.userres, receiver) ELSE Put(t.userres, receiver, row)
           l == [t.limits EXCEPT ![receiver] = Limits(t, receiver, row)]
           j == [t EXCEPT !.limits = l]
           k == [j EXCEPT !.userres = u]
           p == NonNegative(row.weights)
<1>1. updated_totals(t, receiver, delta) = Check(k, p)
  <2>1. PICK f : f = row
    OBVIOUS
  <2>2. PICK v : v = u
    OBVIOUS
  <2>3. PICK m : m = Limits(t, receiver, f)
    OBVIOUS
  <2>4. updated_totals(t, receiver, delta) =
          Check([t EXCEPT !.limits[receiver] = m, !.userres = v], NonNegative(f.weights))
    BY <2>1, <2>2, <2>3, ResourcesOwned DEF updated_totals, Received
  <2>5. [t EXCEPT !.limits[receiver] = m, !.userres = v]
          = [[t EXCEPT !.limits = [t.limits EXCEPT ![receiver] = m]] EXCEPT !.userres = v]
    OBVIOUS
  <2> QED
    BY <2>1, <2>2, <2>3, <2>4, <2>5
<1>2. p \in BOOLEAN
  BY DEF NonNegative
<1>3. p => row \in OwnRow /\ Regranted(t.userres, u, receiver, row)
  <2>1. OwnedBy(t.userres, receiver) \in OwnRow
    BY RamColumn
  <2>2. /\ row = [weights |-> row.weights, ram |-> row.ram] /\ row.ram \in Nat
        /\ row.weights = Plus(OwnedBy(t.userres, receiver).weights, delta)
    BY <2>1 DEF Received, OwnRow
  <2>3. row.weights \in Changes
    BY <2>1, <2>2, WeightsAdd, NoWeightsZero DEF OwnRow
  <2> HIDE DEF row
  <2>4. p => row \in OwnRow
    BY <2>2, <2>3, NoWeightsZero DEF OwnRow
  <2>5. row.weights = NoWeights /\ row.ram = 0 => row = NewResources
    BY <2>2 DEF NewResources
  <2> QED
    BY <2>4, <2>5, RegrantedPut, RegrantedErase
<1> HIDE DEF row, u, l, p
<1>4. Frame(t, j, {"limits"}) /\ j.limits = l
  BY LimitsSet
<1> HIDE DEF j
<1>5. Frame(j, k, {"userres"}) /\ k.userres = u
  <2>1. IsTables(j)
    BY <1>4 DEF Frame
  <2>2. Frame(j, [j EXCEPT !.userres = u], {"userres"}) /\ [j EXCEPT !.userres = u].userres = u
    BY <2>1, UserresSet
  <2> QED
    BY <2>2
<1> HIDE DEF k
<1>6. Frame(k, Check(k, p), {}) /\ (Check(k, p).ok => p)
  BY <1>2, <1>5, CheckFrame DEF Frame
<1>7. Frame(t, Check(k, p), {"limits", "userres"})
  BY <1>4, <1>5, <1>6 DEF Frame, TableFields
<1>8. Check(k, p).limits = l /\ Check(k, p).userres = u
  BY <1>4, <1>5, <1>6 DEF Frame, TableFields
<1> QED
  BY <1>1, <1>3, <1>6, <1>7, <1>8 DEF row, l

-----------------------------------------------------------------------------
(* Refunds, and the tokens of eosio.stake                                  *)

\* The greater of two.
LEMMA MaxOfTwo ==
    ASSUME NEW a \in Int, NEW b \in Int
    PROVE  Max({a, b}) = IF a >= b THEN a ELSE b
BY DEF Max

\* What a refund covers of a stake, and what it lacks for it.
LEMMA RefundSplit ==
    ASSUME NEW w \in WeightRows, NEW d \in Changes
    PROVE  /\ Remaining(w, d) \in WeightRows /\ Shortfall(w, d) \in WeightRows
           /\ Sum2(w) - Sum2(Remaining(w, d)) + Sum2(Shortfall(w, d)) = Sum2(d)
           /\ NonNegative(d) /\ w = NoWeights => Remaining(w, d) = NoWeights
<1>1. w.net \in Nat /\ w.cpu \in Nat /\ d.net \in Int /\ d.cpu \in Int
  BY DEF WeightRows, Changes
<1>2. /\ w.net - d.net \in Int /\ w.cpu - d.cpu \in Int
      /\ d.net - w.net \in Int /\ d.cpu - w.cpu \in Int /\ 0 \in Int
  BY <1>1
<1>3. /\ Max({w.net - d.net, 0}) = IF w.net - d.net >= 0 THEN w.net - d.net ELSE 0
      /\ Max({w.cpu - d.cpu, 0}) = IF w.cpu - d.cpu >= 0 THEN w.cpu - d.cpu ELSE 0
      /\ Max({d.net - w.net, 0}) = IF d.net - w.net >= 0 THEN d.net - w.net ELSE 0
      /\ Max({d.cpu - w.cpu, 0}) = IF d.cpu - w.cpu >= 0 THEN d.cpu - w.cpu ELSE 0
  BY <1>2, MaxOfTwo
<1>4. /\ Remaining(w, d) = [net |-> IF w.net - d.net >= 0 THEN w.net - d.net ELSE 0,
                            cpu |-> IF w.cpu - d.cpu >= 0 THEN w.cpu - d.cpu ELSE 0]
      /\ Shortfall(w, d) = [net |-> IF d.net - w.net >= 0 THEN d.net - w.net ELSE 0,
                            cpu |-> IF d.cpu - w.cpu >= 0 THEN d.cpu - w.cpu ELSE 0]
  BY <1>3 DEF Remaining, Shortfall, Positive, Minus, Weights
<1>5. Remaining(w, d) \in WeightRows /\ Shortfall(w, d) \in WeightRows
  BY <1>1, <1>4, SMT DEF WeightRows
<1>6. Sum2(w) - Sum2(Remaining(w, d)) + Sum2(Shortfall(w, d)) = Sum2(d)
  BY <1>1, <1>4, SMT DEF Sum2
<1>7. NonNegative(d) /\ w = NoWeights => Remaining(w, d) = NoWeights
  <2>1. SUFFICES ASSUME d.net >= 0, d.cpu >= 0, w.net = 0, w.cpu = 0 PROVE Remaining(w, d) = NoWeights
    BY DEF NonNegative, NoWeights, Weights
  <2>2. (IF w.net - d.net >= 0 THEN w.net - d.net ELSE 0) = 0
        /\ (IF w.cpu - d.cpu >= 0 THEN w.cpu - d.cpu ELSE 0) = 0
    BY <1>1, <2>1
  <2> QED
    BY <1>4, <2>2 DEF NoWeights, Weights
<1> QED
  BY <1>5, <1>6, <1>7

RefundRow == [request_time : Nat, weights : WeightRows]
NoRefund == [request_time |-> 0, weights |-> NoWeights]

RefundRows(rows) ==
    /\ DOMAIN rows \subseteq Users
    /\ rows = [a \in DOMAIN rows |-> rows[a]]
    /\ \A a \in DOMAIN rows : rows[a] \in RefundRow /\ rows[a].weights # NoWeights

RefundOf(rows, a) == IF a \in DOMAIN rows THEN rows[a] ELSE NoRefund

\* The column of what waits to be refunded can be summed.
LEMMA RefundColumn ==
    ASSUME NEW r, RefundRows(r)
    PROVE  /\ IsTable(AwaitedOf(r)) /\ SumOf(AwaitedOf(r)) \in Nat
           /\ \A a : /\ RefundOf(r, a) \in RefundRow
                     /\ BalanceOf(AwaitedOf(r), a) = Sum2(RefundOf(r, a).weights)
                     /\ Sum2(RefundOf(r, a).weights) \in Nat
<1>1. IsFiniteSet(DOMAIN r)
  BY ResourcesAssumption, FS_Subset DEF RefundRows
<1>2. \A a : RefundOf(r, a) \in RefundRow
  BY NoWeightsZero DEF RefundRows, RefundOf, RefundRow, NoRefund
<1>3. \A a : Sum2(RefundOf(r, a).weights) \in Nat
  BY <1>2, NoWeightsZero DEF RefundRow
<1>4. /\ DOMAIN AwaitedOf(r) = DOMAIN r
      /\ \A a \in DOMAIN r : AwaitedOf(r)[a] = Sum2(r[a].weights) /\ Sum2(r[a].weights) \in Nat
  BY <1>3 DEF AwaitedOf, RefundOf
<1>5. IsTable(AwaitedOf(r)) /\ SumOf(AwaitedOf(r)) \in Nat
  <2>1. AwaitedOf(r) = [a \in DOMAIN AwaitedOf(r) |-> AwaitedOf(r)[a]]
    BY DEF AwaitedOf
  <2> QED
    BY <1>1, <1>4, <2>1, SumNat DEF IsTable, SumOf
<1>6. \A a : BalanceOf(AwaitedOf(r), a) = Sum2(RefundOf(r, a).weights)
  BY <1>4, NoWeightsZero DEF BalanceOf, RefundOf, NoRefund
<1> QED
  BY <1>2, <1>3, <1>5, <1>6

\* A refund of a becomes another one, or is gone when nothing is left.
Reawaited(r, s, a, row) ==
    /\ RefundRows(s)
    /\ a \in DOMAIN s <=> row.weights # NoWeights
    /\ a \in DOMAIN s => s[a] = row
    /\ DOMAIN s \ {a} = DOMAIN r \ {a}
    /\ \A b \in DOMAIN r \ {a} : s[b] = r[b]
    /\ SumOf(AwaitedOf(s)) = SumOf(AwaitedOf(r)) - Sum2(RefundOf(r, a).weights) + Sum2(row.weights)

\* The refund of an account is written, or erased when nothing is left of it.
LEMMA ReawaitedRow ==
    ASSUME NEW r, RefundRows(r), NEW a \in Users, NEW row \in RefundRow,
           NEW s, s = IF row.weights = NoWeights THEN Erase(r, a) ELSE Put(r, a, row)
    PROVE  Reawaited(r, s, a, row)
<1>1. row.weights \in WeightRows /\ Sum2(row.weights) \in Int
  BY NoWeightsZero DEF RefundRow
<1>2. SumOf(AwaitedOf(s)) = SumOf(AwaitedOf(r)) - Sum2(RefundOf(r, a).weights) + Sum2(row.weights)
  <2>1. \/ AwaitedOf(s) = Put(AwaitedOf(r), a, Sum2(row.weights))
        \/ AwaitedOf(s) = Erase(AwaitedOf(r), a) /\ Sum2(row.weights) = 0
    <3>1. CASE row.weights = NoWeights
      <4>1. s = Erase(r, a)
        BY <3>1
      <4> QED
        BY <3>1, <4>1, NoWeightsZero DEF AwaitedOf, Erase
    <3>2. CASE row.weights # NoWeights
      <4>1. s = Put(r, a, row)
        BY <3>2
      <4>2. \A b : Sum2(Put(r, a, row)[b].weights) = IF b = a THEN Sum2(row.weights)
                                                   ELSE Sum2(Put(r, a, row)[b].weights)
        BY DEF Put
      <4> QED
        BY <4>1 DEF AwaitedOf, Put
    <3> QED
      BY <3>1, <3>2
  <2> QED
    BY <1>1, <2>1, RefundColumn, RewrittenColumn
<1>3. CASE row.weights = NoWeights
  <2>1. s = Erase(r, a)
    BY <1>3
  <2>2. /\ DOMAIN s = DOMAIN r \ {a} /\ s = [b \in DOMAIN s |-> s[b]]
        /\ \A b \in DOMAIN r \ {a} : s[b] = r[b]
    BY <2>1 DEF Erase
  <2>3. RefundRows(s)
    BY <2>2 DEF RefundRows
  <2> QED
    BY <1>2, <1>3, <2>2, <2>3 DEF Reawaited
<1>4. CASE row.weights # NoWeights
  <2>1. s = Put(r, a, row)
    BY <1>4
  <2>2. /\ DOMAIN s = DOMAIN r \cup {a} /\ s = [b \in DOMAIN s |-> s[b]]
        /\ s[a] = row /\ \A b \in DOMAIN r \ {a} : s[b] = r[b]
    BY <2>1 DEF Put
  <2>3. RefundRows(s)
    BY <1>4, <2>2 DEF RefundRows
  <2> QED
    BY <1>2, <1>4, <2>2, <2>3 DEF Reawaited
<1> QED
  BY <1>3, <1>4

\* The tokens of the accounts: no row is negative, and eosio.stake has one.
Funded(l) == IsTable(l) /\ NoDebts(l) /\ stake_account \in DOMAIN l

\* A transfer leaves no row negative and moves what it says.
LEMMA TransferFunded ==
    ASSUME NEW l, Funded(l), NEW from, NEW to, NEW v \in Int, CanTransfer(l, from, to, v)
    PROVE  Funded(Transferred(l, from, to, v)) /\ Moved(l, Transferred(l, from, to, v), from, to, v)
<1>1. Moved(l, Transferred(l, from, to, v), from, to, v)
  BY TransferHeld DEF Funded
<1>2. NoDebts(Transferred(l, from, to, v))
  BY TransferNoDebts DEF Funded
<1> QED
  BY <1>1, <1>2 DEF Funded, Moved

\* Who pays: only the balances of users, and of eosio.stake by an amount.
PaidIn(l, m, v) ==
    /\ Funded(m)
    /\ BalanceOf(m, stake_account) = BalanceOf(l, stake_account) + v
    /\ BalanceOf(m, ram_account) = BalanceOf(l, ram_account)

\* A refund row as updated_refund leaves it, and what the source pays.
Left(t, from, delta, touched) ==
    LET r == RefundOf(t.refunds, from)
    IN  [request_time |-> IF touched THEN request_time(t, r, delta) ELSE r.request_time,
         weights |-> IF touched THEN Remaining(r.weights, delta) ELSE r.weights]
Owing(t, from, delta, touched) ==
    IF touched THEN Shortfall(RefundOf(t.refunds, from).weights, delta) ELSE delta
Resent(t, from, delta, touched) ==
    IF touched /\ Left(t, from, delta, touched).weights # NoWeights
    THEN Put(t.deferred, from, t.now + refund_delay) ELSE Erase(t.deferred, from)

\* What is left of a refund and what is owed for a stake add up with the change.
LEMMA RefundLeft ==
    ASSUME NEW t, RefundRows(t.refunds), t.now \in Nat, NEW from, NEW delta \in Changes,
           NEW touched \in BOOLEAN
    PROVE  /\ Left(t, from, delta, touched) \in RefundRow
           /\ Owing(t, from, delta, touched) \in Changes
           /\ Sum2(RefundOf(t.refunds, from).weights) - Sum2(Left(t, from, delta, touched).weights)
                + Sum2(Owing(t, from, delta, touched)) = Sum2(delta)
           /\ touched => Sum2(Owing(t, from, delta, touched)) >= 0
<1> DEFINE r == RefundOf(t.refunds, from)
<1>1. r \in RefundRow
  BY RefundColumn
<1> HIDE DEF r
<1>2. r.weights \in WeightRows /\ r.request_time \in Nat
  BY <1>1 DEF RefundRow
<1>3. CASE touched
  <2>1. Left(t, from, delta, touched) = [request_time |-> request_time(t, r, delta),
                                         weights |-> Remaining(r.weights, delta)]
    BY <1>3 DEF Left, r
  <2>2. Owing(t, from, delta, touched) = Shortfall(r.weights, delta)
    BY <1>3 DEF Owing, r
  <2>3. request_time(t, r, delta) \in Nat
    BY <1>2 DEF request_time, Seconds
  <2>4. /\ Remaining(r.weights, delta) \in WeightRows /\ Shortfall(r.weights, delta) \in WeightRows
        /\ Sum2(r.weights) - Sum2(Remaining(r.weights, delta)) + Sum2(Shortfall(r.weights, delta)) = Sum2(delta)
    BY <1>2, RefundSplit
  <2>5. Shortfall(r.weights, delta) \in Changes /\ Sum2(Shortfall(r.weights, delta)) \in Nat
    BY <2>4, NoWeightsZero
  <2>6. Left(t, from, delta, touched).weights = Remaining(r.weights, delta)
    BY <2>1
  <2>7. Left(t, from, delta, touched) \in RefundRow
    BY <2>1, <2>3, <2>4 DEF RefundRow
  <2>8. Sum2(Owing(t, from, delta, touched)) >= 0
    BY <2>2, <2>5
  <2> QED
    BY <2>2, <2>4, <2>5, <2>6, <2>7, <2>8 DEF r
<1>4. CASE ~touched
  <2>1. Left(t, from, delta, touched) = [request_time |-> r.request_time, weights |-> r.weights]
    BY <1>4 DEF Left, r
  <2>2. Owing(t, from, delta, touched) = delta
    BY <1>4 DEF Owing
  <2>3. Sum2(r.weights) \in Int /\ Sum2(delta) \in Int
    BY <1>2, NoWeightsZero, WeightsAdd
  <2> QED
    BY <1>2, <1>4, <2>1, <2>2, <2>3 DEF r, RefundRow
<1> QED
  BY <1>3, <1>4

\* What updated_refund does to refunds, deferred transactions and balances.
LEMMA updated_refundEffect ==
    ASSUME NEW t, IsTables(t), RefundRows(t.refunds), t.now \in Nat, Funded(t.ledger),
           NEW source \in Users, NEW from \in Users, NEW delta \in Changes, NEW touched \in BOOLEAN,
           touched \/ Sum2(delta) >= 0
    PROVE  LET h == updated_refund(t, source, from, delta, touched)
           IN  /\ Frame(t, h, {"ledger", "refunds", "deferred"})
               /\ h.deferred = Resent(t, from, delta, touched)
               /\ Reawaited(t.refunds, h.refunds, from, Left(t, from, delta, touched))
               /\ h.ok => PaidIn(t.ledger, h.ledger, Sum2(Owing(t, from, delta, touched)))
<1> DEFINE row == Left(t, from, delta, touched)
           owing == Owing(t, from, delta, touched)
           s == IF row.weights = NoWeights THEN Erase(t.refunds, from) ELSE Put(t.refunds, from, row)
           d == Resent(t, from, delta, touched)
<1>1. PICK j : j = [t EXCEPT !.refunds = s]
  OBVIOUS
<1>2. PICK k : k = [j EXCEPT !.deferred = d]
  OBVIOUS
<1>3. updated_refund(t, source, from, delta, touched)
        = IF Sum2(owing) > 0 THEN transfer(k, source, stake_account, Sum2(owing)) ELSE k
  <2>1. PICK r : r = RefundOf(t.refunds, from)
    OBVIOUS
  <2>2. PICK rest : rest = IF touched THEN Remaining(r.weights, delta) ELSE r.weights
    OBVIOUS
  <2>3. row = [request_time |-> IF touched THEN request_time(t, r, delta) ELSE r.request_time,
               weights |-> rest]
    BY <2>1, <2>2 DEF Left
  <2>4. row.weights = rest
    BY <2>3
  <2>5. d = IF touched /\ rest # NoWeights THEN Rescheduled(t, from) ELSE Erase(t.deferred, from)
    BY <2>4 DEF Resent, Rescheduled
  <2>6. s = IF rest = NoWeights THEN Erase(t.refunds, from) ELSE Put(t.refunds, from, row)
    BY <2>4
  <2>7. owing = IF touched THEN Shortfall(r.weights, delta) ELSE delta
    BY <2>1 DEF Owing
  <2>8. r = IF from \in DOMAIN t.refunds THEN t.refunds[from]
            ELSE [request_time |-> 0, weights |-> NoWeights]
    BY <2>1 DEF RefundOf, NoRefund
  <2>9. k = [t EXCEPT !.refunds = s, !.deferred = d]
    BY <1>1, <1>2
  <2> HIDE DEF row, owing, s, d
  <2> QED
    BY <2>2, <2>3, <2>5, <2>6, <2>7, <2>8, <2>9 DEF updated_refund
<1>4. row \in RefundRow /\ owing \in Changes /\ (touched => Sum2(owing) >= 0)
  BY RefundLeft
<1>5. Reawaited(t.refunds, s, from, row)
  BY <1>4, ReawaitedRow
<1>6. ~touched => Sum2(owing) >= 0
  BY DEF Owing
<1>7. Sum2(owing) \in Int
  BY <1>4, WeightsAdd
<1> HIDE DEF row, owing, s, d
<1>8. Frame(t, j, {"refunds"}) /\ j.refunds = s
  BY <1>1, RefundsSet
<1>9. IsTables(j)
  BY <1>8 DEF Frame
<1>10. Frame(j, k, {"deferred"}) /\ k.deferred = d
  BY <1>2, <1>9, DeferredSet
<1>11. Frame(t, k, {"refunds", "deferred"}) /\ k.refunds = s /\ k.deferred = d /\ k.ledger = t.ledger
  BY <1>8, <1>10 DEF Frame, TableFields
<1>12. CASE Sum2(owing) > 0
  <2>1. PICK h : h = transfer(k, source, stake_account, Sum2(owing))
    OBVIOUS
  <2>2. IsTables(k)
    BY <1>11 DEF Frame
  <2>3. /\ Frame(k, h, {"ledger"})
        /\ h.ok => /\ CanTransfer(k.ledger, source, stake_account, Sum2(owing))
                   /\ h.ledger = Transferred(k.ledger, source, stake_account, Sum2(owing))
    BY <2>1, <2>2, TransferFrame
  <2>4. h.ok => PaidIn(t.ledger, h.ledger, Sum2(owing))
    <3>1. SUFFICES ASSUME h.ok PROVE PaidIn(t.ledger, h.ledger, Sum2(owing))
      OBVIOUS
    <3>2. Funded(h.ledger) /\ Moved(t.ledger, h.ledger, source, stake_account, Sum2(owing))
      BY <1>7, <1>11, <2>3, <3>1, TransferFunded
    <3>3. ram_account # source /\ ram_account # stake_account
      BY ResourcesAssumption, StakingAssumption
    <3> QED
      BY <3>2, <3>3 DEF Moved, PaidIn
  <2>5. Frame(t, h, {"ledger", "refunds", "deferred"}) /\ h.refunds = s /\ h.deferred = d
    BY <1>11, <2>3 DEF Frame, TableFields
  <2> QED
    BY <1>3, <1>5, <1>12, <2>1, <2>4, <2>5 DEF row, owing, d
<1>13. CASE ~(Sum2(owing) > 0)
  <2>1. Sum2(owing) = 0
    BY <1>4, <1>6, <1>7, <1>13
  <2>2. BalanceOf(t.ledger, stake_account) \in Int
    BY BalanceInt DEF Funded
  <2>3. PaidIn(t.ledger, k.ledger, Sum2(owing))
    BY <1>11, <2>1, <2>2 DEF PaidIn
  <2>4. Frame(t, k, {"ledger", "refunds", "deferred"})
    BY <1>11 DEF Frame
  <2> QED
    BY <1>3, <1>5, <1>11, <1>13, <2>3, <2>4 DEF row, owing, d
<1> QED
  BY <1>12, <1>13

-----------------------------------------------------------------------------
(* What voting leaves alone                                                *)

VoterFields == {"proxy", "producers", "staked", "last_stake", "last_vote_weight",
                "proxied_vote_weight", "is_proxy", "managed"}
IsVoter(v) == v = [x \in VoterFields |-> v[x]]

VoterTable(u) ==
    /\ DOMAIN u \subseteq Users
    /\ u = [a \in DOMAIN u |-> u[a]]
    /\ \A a \in DOMAIN u : IsVoter(u[a])

\* The voters are the same, with the same stakes and managed limits.
SameStakes(u, w) ==
    /\ VoterTable(w)
    /\ DOMAIN w = DOMAIN u
    /\ \A a \in DOMAIN u : w[a].staked = u[a].staked /\ w[a].managed = u[a].managed

Polled == {"voters", "prods", "total_producer_vote_weight"}
Polling(t, h) == Frame(t, h, Polled) /\ SameStakes(t.voters, h.voters)

\* A vote is recorded in other fields of the row.
LEMMA VoterFieldSet ==
    ASSUME NEW u, VoterTable(u), NEW a, NEW x \in VoterFields \ {"staked", "managed"}, NEW v
    PROVE  SameStakes(u, [u EXCEPT ![a] = [u[a] EXCEPT ![x] = v]])
<1> DEFINE w == [u EXCEPT ![a] = [u[a] EXCEPT ![x] = v]]
<1>1. ASSUME NEW b \in DOMAIN u
      PROVE  IsVoter(w[b]) /\ w[b].staked = u[b].staked /\ w[b].managed = u[b].managed
  <2>1. IsVoter(u[b])
    BY DEF VoterTable
  <2>2. CASE b = a
    <3>1. w[b] = [u[b] EXCEPT ![x] = v]
      BY <2>2
    <3> HIDE DEF w
    <3>2. PICK r : r = u[b]
      OBVIOUS
    <3>3. PICK q : q = [r EXCEPT ![x] = v]
      OBVIOUS
    <3>4. IsVoter(q) /\ q.staked = r.staked /\ q.managed = r.managed
      BY <2>1, <3>2, <3>3 DEF IsVoter, VoterFields
    <3> QED
      BY <3>1, <3>2, <3>3, <3>4
  <2>3. CASE b # a
    BY <2>1, <2>3
  <2> QED
    BY <2>2, <2>3
<1>2. DOMAIN w = DOMAIN u /\ w = [b \in DOMAIN w |-> w[b]]
  OBVIOUS
<1> HIDE DEF w
<1>3. VoterTable(w)
  BY <1>1, <1>2 DEF VoterTable
<1>4. SameStakes(u, w)
  BY <1>1, <1>2, <1>3 DEF SameStakes
<1> QED
  BY <1>4 DEF w

\* Votes follow votes.
LEMMA PollingChain ==
    ASSUME NEW t, NEW h, NEW k, Polling(t, h), Polling(h, k)
    PROVE  Polling(t, k)
<1>1. Frame(t, k, Polled)
  BY DEF Frame, Polling
<1>2. SameStakes(t.voters, k.voters)
  BY DEF SameStakes, Polling
<1> QED
  BY <1>1, <1>2 DEF Polling

\* A helper that leaves the rows of voters alone.
LEMMA PollingFrame ==
    ASSUME NEW t, VoterTable(t.voters), NEW h, NEW F, Frame(t, h, F),
           F \subseteq {"prods", "total_producer_vote_weight"}
    PROVE  Polling(t, h)
<1>1. h.voters = t.voters
  BY DEF Frame, TableFields
<1>2. SameStakes(t.voters, h.voters)
  BY <1>1 DEF SameStakes
<1>3. Frame(t, h, Polled)
  BY DEF Frame, Polled
<1> QED
  BY <1>2, <1>3 DEF Polling

\* One field of a voter that is not its stake is written.
LEMMA PollingSet ==
    ASSUME NEW t, IsTables(t), VoterTable(t.voters), NEW a,
           NEW x \in VoterFields \ {"staked", "managed"}, NEW v
    PROVE  Polling(t, [t EXCEPT !.voters[a][x] = v])
<1>1. PICK w : w = [t.voters EXCEPT ![a] = [t.voters[a] EXCEPT ![x] = v]]
  OBVIOUS
<1>2. SameStakes(t.voters, w)
  BY <1>1, VoterFieldSet
<1>3. PICK h : h = [t EXCEPT !.voters = w]
  OBVIOUS
<1>4. Frame(t, h, {"voters"}) /\ h.voters = w
  <2>2. Frame(t, [t EXCEPT !.voters = w], {"voters"}) /\ [t EXCEPT !.voters = w].voters = w
    BY VotersSet
  <2> QED
    BY <1>3, <2>2
<1>5. Polling(t, h)
  BY <1>2, <1>4 DEF Polling, Frame, Polled
<1> QED
  BY <1>1, <1>3, <1>5

\* A check is made.
LEMMA PollingCheck ==
    ASSUME NEW t, IsTables(t), VoterTable(t.voters), NEW p \in BOOLEAN
    PROVE  Polling(t, Check(t, p)) /\ (Check(t, p).ok => p)
<1>1. Frame(t, Check(t, p), {}) /\ (Check(t, p).ok => p)
  BY CheckFrame
<1> QED
  BY <1>1, PollingFrame

\* Polling ends with tables that can be polled on.
LEMMA PollingTables ==
    ASSUME NEW t, NEW h, Polling(t, h)
    PROVE  IsTables(h) /\ VoterTable(h.voters)
BY DEF Polling, Frame, SameStakes

\* Votes are added to producers: no stake changes,
LEMMA AddVotesPolling ==
    ASSUME NEW t, IsTables(t), VoterTable(t.voters), NEW ps, NEW delta
    PROVE  Polling(t, AddVotes(t, ps, delta))
<1> DEFINE p == [q \in DOMAIN t.prods |-> IF q \in ps
                   THEN WithVotes(t.prods[q], t.prods[q].total_votes + delta) ELSE t.prods[q]]
           w == t.total_producer_vote_weight + delta * Cardinality(ps)
<1>1. AddVotes(t, ps, delta) = [t EXCEPT !.prods = p, !.total_producer_vote_weight = w]
  BY DEF AddVotes
<1> HIDE DEF p, w
<1>3. PICK j : j = [t EXCEPT !.prods = p]
  OBVIOUS
<1>4. AddVotes(t, ps, delta) = [j EXCEPT !.total_producer_vote_weight = w]
  <2>2. [t EXCEPT !.prods = p, !.total_producer_vote_weight = w] = [j EXCEPT !.total_producer_vote_weight = w]
    BY <1>3
  <2> QED
    BY <1>1, <2>2
<1>5. Frame(t, j, {"prods"})
  BY <1>3, ProdsSet
<1>6. IsTables(j)
  BY <1>5 DEF Frame
<1>7. Frame(j, [j EXCEPT !.total_producer_vote_weight = w], {"total_producer_vote_weight"})
  BY <1>6, TotalSet
<1>8. Polling(t, j)
  BY <1>5, PollingFrame
<1>9. Polling(j, [j EXCEPT !.total_producer_vote_weight = w])
  BY <1>7, <1>8, PollingFrame, PollingTables
<1> QED
  BY <1>4, <1>8, <1>9, PollingChain

\* nor when they are moved,
LEMMA ChangeVotesPolling ==
    ASSUME NEW t, IsTables(t), VoterTable(t.voters), NEW old, NEW ow, NEW new, NEW nw, NEW voting
    PROVE  Polling(t, ChangeVotes(t, old, ow, new, nw, voting))
<1> DEFINE h == AddVotes(t, old, -ow)
           j == AddVotes(h, new, nw)
           Clamped(p, r) == IF p \in old \cup new /\ r.total_votes < 0 THEN WithVotes(r, 0) ELSE r
           ps == [p \in DOMAIN j.prods |-> Clamped(p, j.prods[p])]
           b == \A p \in new : p \in DOMAIN t.prods /\ (voting => t.prods[p].is_active)
<1>1. PICK k : k = [j EXCEPT !.prods = ps]
  OBVIOUS
<1>2. ChangeVotes(t, old, ow, new, nw, voting) = Check(k, b)
  BY <1>1 DEF ChangeVotes
<1>3. b \in BOOLEAN
  OBVIOUS
<1>4. Polling(t, h)
  BY AddVotesPolling
<1> HIDE DEF h
<1>5. Polling(h, j)
  BY <1>4, AddVotesPolling, PollingTables
<1> HIDE DEF j, ps
<1>6. IsTables(j) /\ VoterTable(j.voters)
  BY <1>5, PollingTables
<1>7. Frame(j, k, {"prods"})
  BY <1>1, <1>6, ProdsSet
<1>8. Polling(j, k)
  BY <1>6, <1>7, PollingFrame
<1> HIDE DEF b
<1>9. Polling(k, Check(k, b))
  BY <1>3, <1>8, PollingTables, PollingCheck
<1> QED
  BY <1>2, <1>4, <1>5, <1>8, <1>9, PollingChain

\* One turn of propagate_weight_change.
LEMMA PassOnPolling ==
    ASSUME NEW s, IsTables(s.t), VoterTable(s.t.voters)
    PROVE  Polling(s.t, PassOn(s).t)
<1> DEFINE v == s.t.voters[s.at]
           total == TotalStaked(v)
           weight == inverse_vote_weight(total, v.producers)
           passes == v.proxy # 0 /\ total # v.last_stake
           voted == IF v.proxy = 0 THEN AddVotes(s.t, v.producers, weight - v.last_vote_weight)
                    ELSE Check(s.t, ~v.is_proxy)
           x == voted.voters[v.proxy].proxied_vote_weight + total - v.last_stake
           passed == [voted EXCEPT !.voters[v.proxy].proxied_vote_weight = x]
           g == IF passes THEN passed ELSE voted
           h == [g EXCEPT !.voters[s.at].last_vote_weight = weight]
           k == [h EXCEPT !.voters[s.at].last_stake = total]
<1>1. CASE s.at = 0
  <2>1. PassOn(s).t = s.t
    BY <1>1 DEF PassOn
  <2>2. Frame(s.t, s.t, {})
    BY DEF Frame, IsTables
  <2> QED
    BY <2>1, <2>2, PollingFrame
<1>2. CASE s.at # 0
  <2>1. PassOn(s).t = k
    BY <1>2 DEF PassOn
  <2>2. Polling(s.t, voted)
    <3>1. (~v.is_proxy) \in BOOLEAN
      OBVIOUS
    <3>2. Polling(s.t, Check(s.t, ~v.is_proxy))
      BY <3>1, PollingCheck
    <3>3. Polling(s.t, AddVotes(s.t, v.producers, weight - v.last_vote_weight))
      BY AddVotesPolling
    <3> QED
      BY <3>2, <3>3
  <2> HIDE DEF v, total, weight, voted, x
  <2>3. Polling(voted, passed)
    <3>1. "proxied_vote_weight" \in VoterFields \ {"staked", "managed"}
      BY DEF VoterFields
    <3> QED
      BY <2>2, <3>1, PollingTables, PollingSet
  <2>4. Polling(s.t, g)
    BY <2>2, <2>3, PollingChain
  <2> HIDE DEF g, passes, passed
  <2>5. Polling(g, h)
    <3>1. "last_vote_weight" \in VoterFields \ {"staked", "managed"}
      BY DEF VoterFields
    <3> QED
      BY <2>4, <3>1, PollingTables, PollingSet
  <2> HIDE DEF h
  <2>6. Polling(h, k)
    <3>1. "last_stake" \in VoterFields \ {"staked", "managed"}
      BY DEF VoterFields
    <3> QED
      BY <2>5, <3>1, PollingTables, PollingSet
  <2> HIDE DEF k
  <2> QED
    BY <2>1, <2>4, <2>5, <2>6, PollingChain
<1> QED
  BY <1>1, <1>2

\* The turns of propagate_weight_change, as a function of how many.
IsTurns(f, t, a, n) ==
    f = [i \in 0..n |-> IF i = 0 THEN [t |-> t, at |-> a] ELSE PassOn(f[i - 1])]
Turns(t, a, n) == CHOOSE f : IsTurns(f, t, a, n)

\* They are defined for every number of voters.
LEMMA TurnsExist ==
    ASSUME NEW t, NEW a, NEW n \in Nat
    PROVE  IsTurns(Turns(t, a, n), t, a, n)
<1> DEFINE Bad == {m \in Nat : ~ \E f : IsTurns(f, t, a, m)}
<1>1. SUFFICES ASSUME Bad # {} PROVE FALSE
  <2>1. \E f : IsTurns(f, t, a, n)
    BY <1>1
  <2> QED
    BY <2>1 DEF Turns
<1>2. PICK m \in Bad : \A k \in Bad : m <= k
  BY <1>1, LeastNumber
<1>3. m \in Nat /\ ~ \E f : IsTurns(f, t, a, m)
  BY <1>2
<1>4. CASE m = 0
  <2> DEFINE f == [i \in 0..m |-> [t |-> t, at |-> a]]
  <2>1. \A i \in 0..m : i = 0
    BY <1>4
  <2>2. IsTurns(f, t, a, m)
    BY <2>1 DEF IsTurns
  <2> QED
    BY <1>3, <2>2
<1>5. CASE m # 0
  <2>1. m - 1 \in Nat /\ m - 1 \notin Bad
    BY <1>2, <1>3, <1>5
  <2>2. PICK k \in Nat : k = m - 1
    BY <2>1
  <2>3. PICK f : IsTurns(f, t, a, k)
    BY <2>1, <2>2
  <2> DEFINE g == [i \in 0..m |-> IF i = 0 THEN [t |-> t, at |-> a] ELSE PassOn(f[i - 1])]
  <2>4. ASSUME NEW i \in 0..k PROVE g[i] = f[i]
    <3>1. i \in 0..m
      BY <1>3, <2>2
    <3> QED
      BY <2>3, <3>1 DEF IsTurns
  <2>5. ASSUME NEW i \in 0..m, i # 0 PROVE g[i - 1] = f[i - 1]
    <3>1. i - 1 \in 0..k
      BY <1>3, <2>2, <2>5
    <3> QED
      BY <2>4, <3>1
  <2>6. IsTurns(g, t, a, m)
    <3>1. g = [i \in 0..m |-> IF i = 0 THEN [t |-> t, at |-> a] ELSE PassOn(g[i - 1])]
      BY <2>5
    <3> HIDE DEF g
    <3> QED
      BY <3>1 DEF IsTurns
  <2> QED
    BY <1>3, <2>6
<1> QED
  BY <1>4, <1>5

\* How many voters there are.
LEMMA VotersCounted ==
    ASSUME NEW u, VoterTable(u)
    PROVE  IsFiniteSet(DOMAIN u) /\ Cardinality(DOMAIN u) \in Nat
BY ResourcesAssumption, FS_Subset, FS_CardinalityType DEF VoterTable

\* Turn by turn, and the outcome.
LEMMA TurnsTaken ==
    ASSUME NEW t, NEW a, VoterTable(t.voters), NEW n, n = Cardinality(DOMAIN t.voters),
           NEW f, f = Turns(t, a, n)
    PROVE  /\ n \in Nat
           /\ f[0] = [t |-> t, at |-> a]
           /\ \A i \in Nat : i # 0 /\ i <= n => f[i] = PassOn(f[i - 1])
           /\ propagate_weight_change(t, a) = Check(f[n].t, f[n].at = 0)
<1>1. n \in Nat
  BY VotersCounted
<1>2. propagate_weight_change(t, a) = Check(f[n].t, f[n].at = 0)
  BY Zenon DEF propagate_weight_change, Turns, IsTurns
<1>3. IsTurns(f, t, a, n)
  BY <1>1, TurnsExist
<1>4. 0 \in 0..n /\ \A i \in Nat : i <= n => i \in 0..n
  BY <1>1
<1>5. f[0] = [t |-> t, at |-> a]
  BY <1>3, <1>4, Zenon DEF IsTurns
<1>6. ASSUME NEW i \in Nat, i # 0, i <= n PROVE f[i] = PassOn(f[i - 1])
  <2>1. i \in 0..n
    BY <1>4, <1>6
  <2> QED
    BY <1>3, <1>6, <2>1, Zenon DEF IsTurns
<1> QED
  BY <1>1, <1>2, <1>5, <1>6

\* All of propagate_weight_change.
LEMMA PropagatePolling ==
    ASSUME NEW t, IsTables(t), VoterTable(t.voters), NEW a
    PROVE  Polling(t, propagate_weight_change(t, a))
<1>1. PICK n : n = Cardinality(DOMAIN t.voters)
  OBVIOUS
<1>0. PICK f : f = Turns(t, a, n)
  OBVIOUS
<1>2. /\ n \in Nat
      /\ f[0] = [t |-> t, at |-> a]
      /\ \A i \in Nat : i # 0 /\ i <= n => f[i] = PassOn(f[i - 1])
      /\ propagate_weight_change(t, a) = Check(f[n].t, f[n].at = 0)
  BY <1>0, <1>1, TurnsTaken
<1> DEFINE Bad == {i \in Nat : i <= n /\ ~Polling(t, f[i].t)}
<1>3. Bad = {}
  <2>1. SUFFICES ASSUME Bad # {} PROVE FALSE
    OBVIOUS
  <2>2. PICK i \in Bad : \A k \in Bad : i <= k
    BY <2>1, LeastNumber
  <2>3. i \in Nat /\ i <= n /\ ~Polling(t, f[i].t)
    BY <2>2
  <2>4. CASE i = 0
    <3>1. f[i].t = t
      BY <1>2, <2>4
    <3>2. Frame(t, t, {})
      BY DEF Frame, IsTables
    <3>3. Polling(t, t)
      BY <3>2, PollingFrame
    <3> QED
      BY <2>3, <3>1, <3>3
  <2>5. CASE i # 0
    <3>1. i - 1 \in Nat /\ i - 1 <= n /\ i - 1 \notin Bad
      BY <1>2, <2>2, <2>3, <2>5
    <3>2. Polling(t, f[i - 1].t)
      BY <3>1
    <3>3. IsTables(f[i - 1].t) /\ VoterTable(f[i - 1].t.voters)
      BY <3>2, PollingTables
    <3>4. Polling(f[i - 1].t, PassOn(f[i - 1]).t)
      BY <3>3, PassOnPolling
    <3>5. f[i] = PassOn(f[i - 1])
      BY <1>2, <2>3, <2>5
    <3> QED
      BY <2>3, <3>2, <3>4, <3>5, PollingChain
  <2> QED
    BY <2>4, <2>5
<1>4. Polling(t, f[n].t)
  BY <1>2, <1>3
<1>5. (f[n].at = 0) \in BOOLEAN
  OBVIOUS
<1>6. Polling(f[n].t, Check(f[n].t, f[n].at = 0))
  BY <1>4, <1>5, PollingTables, PollingCheck
<1> QED
  BY <1>2, <1>4, <1>6, PollingChain

\* nor when a voter leaves its proxy
LEMMA LeaveProxyPolling ==
    ASSUME NEW t, IsTables(t), VoterTable(t.voters), NEW v, NEW proxy
    PROVE  Polling(t, LeaveProxy(t, v, proxy))
<1> DEFINE x == t.voters[v.proxy].proxied_vote_weight - v.last_stake
           left == [t EXCEPT !.voters[v.proxy].proxied_vote_weight = x]
<1>1. LeaveProxy(t, v, proxy) = IF proxy # v.proxy THEN propagate_weight_change(left, v.proxy) ELSE left
  BY DEF LeaveProxy
<1> HIDE DEF x
<1>2. Polling(t, left)
  <2>1. "proxied_vote_weight" \in VoterFields \ {"staked", "managed"}
    BY DEF VoterFields
  <2> QED
    BY <2>1, PollingSet
<1> HIDE DEF left
<1>3. Polling(left, propagate_weight_change(left, v.proxy))
  BY <1>2, PollingTables, PropagatePolling
<1> QED
  BY <1>1, <1>2, <1>3, PollingChain

\* or joins one,
LEMMA JoinProxyPolling ==
    ASSUME NEW t, IsTables(t), VoterTable(t.voters), NEW v, NEW proxy, NEW voting \in BOOLEAN
    PROVE  Polling(t, JoinProxy(t, v, proxy, voting))
<1> DEFINE x == t.voters[proxy].proxied_vote_weight + v.staked
           joined == [t EXCEPT !.voters[proxy].proxied_vote_weight = x]
           k == IF t.voters[proxy].last_vote_weight > 0
                THEN propagate_weight_change(joined, proxy) ELSE joined
           c == ~voting \/ t.voters[proxy].is_proxy
           b == ~voting \/ t.voters[proxy].is_proxy = TRUE
<1>1. JoinProxy(t, v, proxy, voting) = IF proxy \notin DOMAIN t.voters THEN Check(t, FALSE) ELSE Check(k, c)
  BY DEF JoinProxy, Joined
<1> HIDE DEF x
<1>2. Polling(t, joined)
  <2>1. "proxied_vote_weight" \in VoterFields \ {"staked", "managed"}
    BY DEF VoterFields
  <2> QED
    BY <2>1, PollingSet
<1> HIDE DEF joined
<1>3. Polling(joined, propagate_weight_change(joined, proxy))
  BY <1>2, PollingTables, PropagatePolling
<1>4. Polling(t, k)
  BY <1>2, <1>3, PollingChain
<1> HIDE DEF k
<1>5. Polling(t, Check(t, FALSE))
  BY PollingCheck
<1>6. c \in BOOLEAN
  BY Zenon
<1> HIDE DEF c
<1>7. Polling(k, Check(k, c))
  BY <1>4, <1>6, PollingTables, PollingCheck
<1>8. Polling(t, Check(k, c))
  BY <1>4, <1>7, PollingChain
<1> QED
  BY <1>1, <1>5, <1>8

\* nor by a vote as a whole.
LEMMA update_votesPolling ==
    ASSUME NEW t, IsTables(t), VoterTable(t.voters), NEW voter, NEW proxy, NEW producers,
           NEW voting \in BOOLEAN
    PROVE  Polling(t, update_votes(t, voter, proxy, producers, voting))
<1> DEFINE v == t.voters[voter]
           total == IF voting /\ proxy = 0 /\ producers = {} THEN 0 ELSE TotalStaked(v)
           weight == inverse_vote_weight(total, producers)
           voted == v.last_stake > 0
           old == IF voted /\ v.proxy = 0 THEN v.producers ELSE {}
           left == IF voted /\ v.proxy # 0 THEN LeaveProxy(t, v, proxy) ELSE t
           joined == IF proxy # 0 THEN JoinProxy(left, v, proxy, voting) ELSE left
           changed == ChangeVotes(joined, old, v.last_vote_weight, producers, weight, voting)
           h == [changed EXCEPT !.voters[voter].last_vote_weight = weight]
           i == [h EXCEPT !.voters[voter].last_stake = total]
           j == [i EXCEPT !.voters[voter].producers = producers]
           k == [j EXCEPT !.voters[voter].proxy = proxy]
<1>1. update_votes(t, voter, proxy, producers, voting)
        = IF ~ValidVote(t, voter, proxy, producers) THEN Check(t, FALSE) ELSE k
  BY DEF update_votes
<1>2. Polling(t, Check(t, FALSE))
  BY PollingCheck
<1>3. Polling(t, t)
  <2>1. Frame(t, t, {})
    BY DEF Frame, IsTables
  <2> QED
    BY <2>1, PollingFrame
<1> HIDE DEF v, total, weight, old, voted
<1>4. Polling(t, left)
  BY <1>3, LeaveProxyPolling
<1> HIDE DEF left
<1>5. Polling(t, joined)
  <2>1. Polling(left, JoinProxy(left, v, proxy, voting))
    BY <1>4, PollingTables, JoinProxyPolling
  <2> QED
    BY <1>4, <2>1, PollingChain
<1> HIDE DEF joined
<1>6. Polling(joined, changed)
  BY <1>5, PollingTables, ChangeVotesPolling
<1> HIDE DEF changed
<1>7. {"last_vote_weight", "last_stake", "producers", "proxy"} \subseteq VoterFields \ {"staked", "managed"}
  BY DEF VoterFields
<1>8. Polling(changed, h)
  BY <1>6, <1>7, PollingTables, PollingSet
<1> HIDE DEF h
<1>9. Polling(h, i)
  BY <1>7, <1>8, PollingTables, PollingSet
<1> HIDE DEF i
<1>10. Polling(i, j)
  BY <1>7, <1>9, PollingTables, PollingSet
<1> HIDE DEF j
<1>11. Polling(j, k)
  BY <1>7, <1>10, PollingTables, PollingSet
<1> HIDE DEF k
<1>12. Polling(t, h)
  BY <1>5, <1>6, <1>8, PollingChain
<1>13. Polling(t, k)
  BY <1>9, <1>10, <1>11, <1>12, PollingChain
<1> QED
  BY <1>1, <1>2, <1>13

\* What an account has staked, by its row, and which of its limits are managed.
StakedBy(u, a) == IF a \in DOMAIN u THEN u[a].staked ELSE 0
ManagedBy(u, a) == IF a \in DOMAIN u THEN u[a].managed ELSE {}

\* Voters whose rows have the same stakes and managed limits.
LEMMA SameStakesBy ==
    ASSUME NEW u, NEW w, SameStakes(u, w)
    PROVE  \A a : StakedBy(w, a) = StakedBy(u, a) /\ ManagedBy(w, a) = ManagedBy(u, a)
BY DEF SameStakes, StakedBy, ManagedBy

\* The row of a new voter has no stake.
LEMMA NewVoterRow == IsVoter(NewVoter) /\ NewVoter.staked = 0 /\ NewVoter.managed = {}
BY DEF NewVoter, IsVoter, VoterFields

\* The row of a voter, which may be new, is written.
LEMMA VoterPut ==
    ASSUME NEW t, IsTables(t), VoterTable(t.voters), NEW a \in Users, NEW row, IsVoter(row),
           NEW w, w = Put(t.voters, a, row), NEW h, h = [t EXCEPT !.voters = w]
    PROVE  /\ Frame(t, h, {"voters"})
           /\ h.ok = t.ok
           /\ h.voters = Put(t.voters, a, row)
           /\ VoterTable(h.voters)
           /\ DOMAIN h.voters = DOMAIN t.voters \cup {a}
           /\ h.voters[a] = row
           /\ \A b \in DOMAIN t.voters \ {a} : h.voters[b] = t.voters[b]
<1>1. PICK u : u = t.voters
  OBVIOUS
<1>2. w = Put(u, a, row)
  BY <1>1
<1>3. /\ DOMAIN w = DOMAIN u \cup {a} /\ w = [b \in DOMAIN w |-> w[b]]
      /\ w[a] = row /\ \A b \in DOMAIN u \ {a} : w[b] = u[b]
  BY <1>2 DEF Put
<1>4. VoterTable(w)
  BY <1>1, <1>3 DEF VoterTable
<1>6. Frame(t, h, {"voters"}) /\ h.voters = w /\ h.ok = t.ok
  <2>2. Frame(t, [t EXCEPT !.voters = w], {"voters"}) /\ [t EXCEPT !.voters = w].voters = w
        /\ [t EXCEPT !.voters = w].ok = t.ok
    BY VotersSet
  <2> QED
    BY <2>2
<1> QED
  BY <1>1, <1>2, <1>3, <1>4, <1>6

\* A stake becomes a vote, and no other stake changes.
LEMMA update_voting_powerEffect ==
    ASSUME NEW t, IsTables(t), VoterTable(t.voters), NEW voter \in Users, NEW delta
    PROVE  LET h == update_voting_power(t, voter, delta)
           IN  /\ Frame(t, h, Polled)
               /\ VoterTable(h.voters)
               /\ StakedBy(h.voters, voter) = StakedBy(t.voters, voter) + delta
               /\ \A b : b # voter => StakedBy(h.voters, b) = StakedBy(t.voters, b)
               /\ \A b : ManagedBy(h.voters, b) = ManagedBy(t.voters, b)
<1>1. PICK row : row = IF voter \in DOMAIN t.voters THEN t.voters[voter] ELSE NewVoter
  OBVIOUS
<1>2. PICK staked : staked = [row EXCEPT !.staked = @ + delta]
  OBVIOUS
<1>0. PICK w : w = Put(t.voters, voter, staked)
  OBVIOUS
<1>3. PICK j : j = [t EXCEPT !.voters = w]
  OBVIOUS
<1> DEFINE p == staked.staked >= 0
<1>4. p \in BOOLEAN
  OBVIOUS
<1>5. PICK k : k = Check(j, p)
  OBVIOUS
<1> HIDE DEF p
<1>6. PICK h : h = update_votes(k, voter, row.proxy, row.producers, FALSE)
  OBVIOUS
<1>7. update_voting_power(t, voter, delta)
        = IF row.producers # {} \/ row.proxy # 0 THEN h ELSE k
  <2> DEFINE put == Check([t EXCEPT !.voters = Put(t.voters, voter, staked)], staked.staked >= 0)
  <2>1. update_voting_power(t, voter, delta)
          = IF row.producers # {} \/ row.proxy # 0
            THEN update_votes(put, voter, row.proxy, row.producers, FALSE) ELSE put
    BY <1>1, <1>2 DEF update_voting_power
  <2>2. put = k
    BY <1>0, <1>3, <1>5 DEF p
  <2> HIDE DEF put
  <2> QED
    BY <1>6, <2>1, <2>2
<1>8. IsVoter(row) /\ row.staked = StakedBy(t.voters, voter) /\ row.managed = ManagedBy(t.voters, voter)
  BY <1>1, NewVoterRow DEF VoterTable, StakedBy, ManagedBy
<1>9. IsVoter(staked) /\ staked.staked = row.staked + delta /\ staked.managed = row.managed
  BY <1>2, <1>8 DEF IsVoter, VoterFields
<1>10. /\ Frame(t, j, {"voters"}) /\ VoterTable(j.voters)
       /\ DOMAIN j.voters = DOMAIN t.voters \cup {voter} /\ j.voters[voter] = staked
       /\ \A b \in DOMAIN t.voters \ {voter} : j.voters[b] = t.voters[b]
  <2>1. IsVoter(staked)
    BY <1>9
  <2> QED
    BY <1>0, <1>3, <2>1, VoterPut
<1>11. /\ StakedBy(j.voters, voter) = StakedBy(t.voters, voter) + delta
       /\ \A b : b # voter => StakedBy(j.voters, b) = StakedBy(t.voters, b)
       /\ \A b : ManagedBy(j.voters, b) = ManagedBy(t.voters, b)
  BY <1>8, <1>9, <1>10 DEF StakedBy, ManagedBy
<1>12. IsTables(j)
  BY <1>10 DEF Frame
<1>13. Polling(j, k)
  BY <1>4, <1>5, <1>10, <1>12, PollingCheck
<1>14. Polling(k, h)
  BY <1>6, <1>13, PollingTables, update_votesPolling
<1>15. PICK m : m = IF row.producers # {} \/ row.proxy # 0 THEN h ELSE k
  OBVIOUS
<1>16. Polling(j, m)
  BY <1>13, <1>14, <1>15, PollingChain
<1>17. Frame(t, m, Polled)
  BY <1>10, <1>16 DEF Polling, Frame, Polled
<1>18. \A b : StakedBy(m.voters, b) = StakedBy(j.voters, b) /\ ManagedBy(m.voters, b) = ManagedBy(j.voters, b)
  BY <1>16, SameStakesBy DEF Polling
<1>19. VoterTable(m.voters)
  BY <1>16, PollingTables
<1> QED
  BY <1>7, <1>11, <1>15, <1>17, <1>18, <1>19

\* Tables in which the stakes and managed limits of all are the same.
Voted(t, h) ==
    /\ Frame(t, h, Polled)
    /\ VoterTable(h.voters)
    /\ \A b : StakedBy(h.voters, b) = StakedBy(t.voters, b)
              /\ ManagedBy(h.voters, b) = ManagedBy(t.voters, b)

\* To vote is to leave stakes, and the rows there are, alone.
LEMMA PollingVoted ==
    ASSUME NEW t, NEW h, Polling(t, h)
    PROVE  Voted(t, h)
BY SameStakesBy, PollingTables DEF Polling, Voted

\* A proxy resigns, and an account that has no row gets one.
LEMMA regproxyVoted ==
    ASSUME NEW t, IsTables(t), VoterTable(t.voters), NEW a \in Users, NEW isproxy \in BOOLEAN
    PROVE  Voted(t, regproxy(t, a, isproxy))
<1>1. CASE a \notin DOMAIN t.voters
  <2>1. PICK w : w = Put(t.voters, a, NewVoter)
    OBVIOUS
  <2>2. PICK j : j = [t EXCEPT !.voters = w]
    OBVIOUS
  <2>3. regproxy(t, a, isproxy) = Check(j, ~isproxy)
    <3>1. regproxy(t, a, isproxy) = Check([t EXCEPT !.voters = Put(t.voters, a, NewVoter)], ~isproxy)
      BY <1>1 DEF regproxy
    <3>2. [t EXCEPT !.voters = Put(t.voters, a, NewVoter)] = j
      BY <2>1, <2>2
    <3> QED
      BY <3>1, <3>2
  <2>4. /\ Frame(t, j, {"voters"}) /\ VoterTable(j.voters)
        /\ DOMAIN j.voters = DOMAIN t.voters \cup {a} /\ j.voters[a] = NewVoter
        /\ \A b \in DOMAIN t.voters \ {a} : j.voters[b] = t.voters[b]
    BY <2>1, <2>2, NewVoterRow, VoterPut
  <2>5. \A b : StakedBy(j.voters, b) = StakedBy(t.voters, b) /\ ManagedBy(j.voters, b) = ManagedBy(t.voters, b)
    BY <1>1, <2>4, NewVoterRow DEF StakedBy, ManagedBy
  <2>6. IsTables(j)
    BY <2>4 DEF Frame
  <2>7. Polling(j, Check(j, ~isproxy))
    BY <2>4, <2>6, PollingCheck
  <2>8. Voted(j, Check(j, ~isproxy))
    BY <2>7, PollingVoted
  <2> QED
    BY <2>3, <2>4, <2>5, <2>8 DEF Voted, Frame, Polled
<1>2. CASE a \in DOMAIN t.voters
  <2> DEFINE v == t.voters[a]
             b == ~isproxy /\ v.is_proxy
  <2>1. PICK j : j = [t EXCEPT !.voters[a].is_proxy = isproxy]
    OBVIOUS
  <2>2. PICK h : h = update_votes(j, a, v.proxy, v.producers, TRUE)
    OBVIOUS
  <2>3. regproxy(t, a, isproxy) = Check(h, b)
    BY <1>2, <2>1, <2>2 DEF regproxy
  <2>4. b \in BOOLEAN
    OBVIOUS
  <2> HIDE DEF b
  <2>5. Polling(t, j)
    <3>1. "is_proxy" \in VoterFields \ {"staked", "managed"}
      BY DEF VoterFields
    <3>2. Polling(t, [t EXCEPT !.voters[a]["is_proxy"] = isproxy])
      BY <3>1, PollingSet
    <3> QED
      BY <2>1, <3>2
  <2>6. Polling(j, h)
    BY <2>2, <2>5, PollingTables, update_votesPolling
  <2>7. Polling(h, Check(h, b))
    BY <2>4, <2>6, PollingTables, PollingCheck
  <2>8. Polling(t, Check(h, b))
    BY <2>5, <2>6, <2>7, PollingChain
  <2> QED
    BY <2>3, <2>8, PollingVoted
<1> QED
  BY <1>1, <1>2

\* A voter whose weights are forgotten keeps its stake,
LEMMA ForgottenPolling ==
    ASSUME NEW t, IsTables(t), VoterTable(t.voters), NEW a
    PROVE  Polling(t, Forgotten(t, a))
<1>1. PICK h : h = [t EXCEPT !.voters[a].last_vote_weight = 0]
  OBVIOUS
<1>2. PICK j : j = [h EXCEPT !.voters[a].last_stake = 0]
  OBVIOUS
<1>3. PICK k : k = [j EXCEPT !.voters[a].proxied_vote_weight = 0]
  OBVIOUS
<1>4. Forgotten(t, a) = k
  BY <1>1, <1>2, <1>3 DEF Forgotten
<1>5. {"last_vote_weight", "last_stake", "proxied_vote_weight"} \subseteq VoterFields \ {"staked", "managed"}
  BY DEF VoterFields
<1>6. Polling(t, h)
  <2>1. Polling(t, [t EXCEPT !.voters[a]["last_vote_weight"] = 0])
    BY <1>5, PollingSet
  <2> QED
    BY <1>1, <2>1
<1>7. Polling(h, j)
  <2>1. Polling(h, [h EXCEPT !.voters[a]["last_stake"] = 0])
    BY <1>5, <1>6, PollingTables, PollingSet
  <2> QED
    BY <1>2, <2>1
<1>8. Polling(j, k)
  <2>1. Polling(j, [j EXCEPT !.voters[a]["proxied_vote_weight"] = 0])
    BY <1>5, <1>7, PollingTables, PollingSet
  <2> QED
    BY <1>3, <2>1
<1> QED
  BY <1>4, <1>6, <1>7, <1>8, PollingChain

\* One turn of the recount.
LEMMA RecastPolling ==
    ASSUME NEW s, IsTables(s.t), VoterTable(s.t.voters), s = [t |-> s.t, done |-> s.done, left |-> s.left]
    PROVE  LET r == RecastNext(s)
           IN  Polling(s.t, r.t) /\ r = [t |-> r.t, done |-> r.done, left |-> r.left]
<1>1. CASE s.left = {}
  <2>1. RecastNext(s) = s
    BY <1>1 DEF RecastNext
  <2>2. Frame(s.t, s.t, {})
    BY DEF Frame, IsTables
  <2> QED
    BY <2>1, <2>2, PollingFrame
<1>2. CASE s.left # {}
  <2>1. PICK a : RecastNext(s) = Recast(s, a)
    BY <1>2 DEF RecastNext
  <2> DEFINE proxy == s.t.voters[a].proxy
             b == proxy # 0 /\ proxy \notin s.done
             f == IF b THEN Forgotten(s.t, proxy) ELSE s.t
             fdone == IF b THEN s.done \cup {proxy} ELSE s.done
  <2>2. PICK first : first = [t |-> f, done |-> fdone, left |-> s.left]
    OBVIOUS
  <2> DEFINE c == ~s.t.voters[a].is_proxy \/ a \notin first.done
             o == IF c THEN Forgotten(f, a) ELSE f
             odone == IF c THEN fdone \cup {a} ELSE fdone
  <2>3. PICK own : own = [t |-> o, done |-> odone, left |-> s.left]
    OBVIOUS
  <2>4. Recast(s, a) = [t |-> update_votes(o, a, proxy, o.voters[a].producers, TRUE),
                        done |-> odone, left |-> s.left \ {a}]
    <3>1. first = IF b THEN [s EXCEPT !.t = Forgotten(@, proxy), !.done = @ \cup {proxy}] ELSE s
      BY <2>2
    <3>2. own = IF c THEN [first EXCEPT !.t = Forgotten(@, a), !.done = @ \cup {a}] ELSE first
      BY <2>2, <2>3
    <3> HIDE DEF b, c, f, fdone, o, odone
    <3>3. Recast(s, a) = [own EXCEPT !.t = update_votes(@, a, proxy, own.t.voters[a].producers, TRUE),
                                     !.left = @ \ {a}]
      BY <3>1, <3>2 DEF Recast, b, c
    <3> QED
      BY <2>3, <3>3
  <2> HIDE DEF b, c
  <2>5. Polling(s.t, f)
    <3>1. Frame(s.t, s.t, {})
      BY DEF Frame, IsTables
    <3> QED
      BY <3>1, PollingFrame, ForgottenPolling
  <2> HIDE DEF f
  <2>6. Polling(s.t, o)
    BY <2>5, PollingTables, ForgottenPolling, PollingChain
  <2> HIDE DEF o
  <2>7. Polling(o, update_votes(o, a, proxy, o.voters[a].producers, TRUE))
    BY <2>6, PollingTables, update_votesPolling
  <2>8. Polling(s.t, update_votes(o, a, proxy, o.voters[a].producers, TRUE))
    BY <2>6, <2>7, PollingChain
  <2> HIDE DEF odone
  <2>9. PICK r : r = RecastNext(s)
    OBVIOUS
  <2>10. r = [t |-> update_votes(o, a, proxy, o.voters[a].producers, TRUE), done |-> odone, left |-> s.left \ {a}]
    BY <2>1, <2>4, <2>9
  <2>11. Polling(s.t, r.t) /\ r = [t |-> r.t, done |-> r.done, left |-> r.left]
    BY <2>8, <2>10
  <2> QED
    BY <2>9, <2>11
<1> QED
  BY <1>1, <1>2

\* The turns of recalculate_votes, as a function of how many.
IsRecasts(f, t, n) ==
    f = [i \in 0..n |-> IF i = 0 THEN [t |-> t, done |-> {}, left |-> DOMAIN t.voters]
                        ELSE RecastNext(f[i - 1])]
Recasts(t, n) == CHOOSE f : IsRecasts(f, t, n)

\* They are defined for every number of voters.
LEMMA RecastsExist ==
    ASSUME NEW t, NEW n \in Nat
    PROVE  IsRecasts(Recasts(t, n), t, n)
<1> DEFINE Bad == {m \in Nat : ~ \E f : IsRecasts(f, t, m)}
           start == [t |-> t, done |-> {}, left |-> DOMAIN t.voters]
<1>1. SUFFICES ASSUME Bad # {} PROVE FALSE
  <2>1. \E f : IsRecasts(f, t, n)
    BY <1>1
  <2> QED
    BY <2>1 DEF Recasts
<1>2. PICK m \in Bad : \A k \in Bad : m <= k
  BY <1>1, LeastNumber
<1>3. m \in Nat /\ ~ \E f : IsRecasts(f, t, m)
  BY <1>2
<1>4. CASE m = 0
  <2> DEFINE f == [i \in 0..m |-> start]
  <2>1. \A i \in 0..m : i = 0
    BY <1>4
  <2>2. IsRecasts(f, t, m)
    BY <2>1 DEF IsRecasts
  <2> QED
    BY <1>3, <2>2
<1>5. CASE m # 0
  <2>1. m - 1 \in Nat /\ m - 1 \notin Bad
    BY <1>2, <1>3, <1>5
  <2>2. PICK k \in Nat : k = m - 1
    BY <2>1
  <2>3. PICK f : IsRecasts(f, t, k)
    BY <2>1, <2>2
  <2> DEFINE g == [i \in 0..m |-> IF i = 0 THEN start ELSE RecastNext(f[i - 1])]
  <2>4. ASSUME NEW i \in 0..k PROVE g[i] = f[i]
    <3>1. i \in 0..m
      BY <1>3, <2>2
    <3> QED
      BY <2>3, <3>1 DEF IsRecasts
  <2>5. ASSUME NEW i \in 0..m, i # 0 PROVE g[i - 1] = f[i - 1]
    <3>1. i - 1 \in 0..k
      BY <1>3, <2>2, <2>5
    <3> QED
      BY <2>4, <3>1
  <2>6. IsRecasts(g, t, m)
    <3>1. g = [i \in 0..m |-> IF i = 0 THEN start ELSE RecastNext(g[i - 1])]
      BY <2>5
    <3> HIDE DEF g
    <3> QED
      BY <3>1 DEF IsRecasts
  <2> QED
    BY <1>3, <2>6
<1> QED
  BY <1>4, <1>5

\* Turn by turn, and the outcome.
LEMMA RecastsTaken ==
    ASSUME NEW t, VoterTable(t.voters), NEW n, n = Cardinality(DOMAIN t.voters), NEW f, f = Recasts(t, n)
    PROVE  /\ n \in Nat
           /\ f[0] = [t |-> t, done |-> {}, left |-> DOMAIN t.voters]
           /\ \A i \in Nat : i # 0 /\ i <= n => f[i] = RecastNext(f[i - 1])
           /\ RecastAll(t) = f[n].t
<1>1. n \in Nat
  BY VotersCounted
<1>2. RecastAll(t) = f[n].t
  BY Zenon DEF RecastAll, Recasts, IsRecasts
<1>3. IsRecasts(f, t, n)
  BY <1>1, RecastsExist
<1>4. 0 \in 0..n /\ \A i \in Nat : i <= n => i \in 0..n
  BY <1>1
<1>5. f[0] = [t |-> t, done |-> {}, left |-> DOMAIN t.voters]
  BY <1>3, <1>4, Zenon DEF IsRecasts
<1>6. ASSUME NEW i \in Nat, i # 0, i <= n PROVE f[i] = RecastNext(f[i - 1])
  <2>1. i \in 0..n
    BY <1>4, <1>6
  <2> QED
    BY <1>3, <1>6, <2>1, Zenon DEF IsRecasts
<1> QED
  BY <1>1, <1>2, <1>5, <1>6

\* and so do all in a recount
LEMMA RecastAllPolling ==
    ASSUME NEW t, IsTables(t), VoterTable(t.voters)
    PROVE  Polling(t, RecastAll(t))
<1>1. PICK n : n = Cardinality(DOMAIN t.voters)
  OBVIOUS
<1>0. PICK f : f = Recasts(t, n)
  OBVIOUS
<1>2. /\ n \in Nat
      /\ f[0] = [t |-> t, done |-> {}, left |-> DOMAIN t.voters]
      /\ \A i \in Nat : i # 0 /\ i <= n => f[i] = RecastNext(f[i - 1])
      /\ RecastAll(t) = f[n].t
  <2>1. f[0] = [t |-> t, done |-> {}, left |-> DOMAIN t.voters]
    BY <1>0, <1>1, RecastsTaken
  <2>2. n \in Nat
    BY <1>1, VotersCounted
  <2>3. ASSUME NEW i \in Nat, i # 0, i <= n PROVE f[i] = RecastNext(f[i - 1])
    <3>1. IsRecasts(f, t, n)
      BY <1>0, <2>2, RecastsExist
    <3>2. i \in 0..n
      BY <2>2, <2>3
    <3> QED
      BY <2>3, <3>1, <3>2, Zenon DEF IsRecasts
  <2>4. RecastAll(t) = f[n].t
    BY <1>0, <1>1, RecastsTaken, ZenonT(30)
  <2> QED
    BY <2>1, <2>2, <2>3, <2>4
<1> DEFINE Fine(i) == /\ Polling(t, f[i].t)
                      /\ f[i] = [t |-> f[i].t, done |-> f[i].done, left |-> f[i].left]
           Bad == {i \in Nat : i <= n /\ ~Fine(i)}
<1>3. Bad = {}
  <2>1. SUFFICES ASSUME Bad # {} PROVE FALSE
    OBVIOUS
  <2>2. PICK i \in Bad : \A k \in Bad : i <= k
    BY <2>1, LeastNumber
  <2>3. i \in Nat /\ i <= n /\ ~Fine(i)
    BY <2>2
  <2>4. CASE i = 0
    <3>1. f[i].t = t /\ f[i] = [t |-> f[i].t, done |-> f[i].done, left |-> f[i].left]
      BY <1>2, <2>4
    <3>2. Frame(t, t, {})
      BY DEF Frame, IsTables
    <3>3. Polling(t, t)
      BY <3>2, PollingFrame
    <3> QED
      BY <2>3, <3>1, <3>3
  <2>5. CASE i # 0
    <3>1. i - 1 \in Nat /\ i - 1 <= n /\ i - 1 \notin Bad
      BY <1>2, <2>2, <2>3, <2>5
    <3>2. PICK s : s = f[i - 1]
      OBVIOUS
    <3>3. Polling(t, s.t) /\ s = [t |-> s.t, done |-> s.done, left |-> s.left]
      BY <3>1, <3>2
    <3>4. PICK r : r = RecastNext(s)
      OBVIOUS
    <3>5. IsTables(s.t) /\ VoterTable(s.t.voters)
      BY <3>3, PollingTables
    <3>6. Polling(s.t, r.t) /\ r = [t |-> r.t, done |-> r.done, left |-> r.left]
      BY <3>3, <3>4, <3>5, RecastPolling
    <3>7. f[i] = r
      BY <1>2, <2>3, <2>5, <3>2, <3>4
    <3>8. Polling(t, r.t)
      BY <3>3, <3>6, PollingChain
    <3> QED
      BY <2>3, <3>6, <3>7, <3>8
  <2> QED
    BY <2>4, <2>5
<1>4. n \notin Bad
  BY <1>3
<1>5. Polling(t, f[n].t)
  BY <1>2, <1>4
<1> QED
  BY <1>2, <1>5

\* and in recalculate_votes, whether it recounts or not.
LEMMA recalculate_votesVoted ==
    ASSUME NEW t, IsTables(t), VoterTable(t.voters)
    PROVE  Voted(t, recalculate_votes(t))
<1>1. CASE t.total_producer_vote_weight < 0
  <2>1. PICK j : j = [t EXCEPT !.total_producer_vote_weight = 0]
    OBVIOUS
  <2> DEFINE ps == [p \in DOMAIN t.prods |-> WithVotes(t.prods[p], 0)]
  <2>2. PICK k : k = [j EXCEPT !.prods = ps]
    OBVIOUS
  <2>3. recalculate_votes(t) = RecastAll(k)
    BY <1>1, <2>1, <2>2 DEF recalculate_votes
  <2> HIDE DEF ps
  <2>4. Frame(t, j, {"total_producer_vote_weight"})
    BY <2>1, TotalSet
  <2>5. Polling(t, j)
    BY <2>4, PollingFrame
  <2>6. IsTables(j) /\ VoterTable(j.voters)
    BY <2>5, PollingTables
  <2>7. Frame(j, k, {"prods"})
    BY <2>2, <2>6, ProdsSet
  <2>8. Polling(j, k)
    BY <2>6, <2>7, PollingFrame
  <2>9. Polling(k, RecastAll(k))
    BY <2>8, PollingTables, RecastAllPolling
  <2>10. Polling(t, RecastAll(k))
    BY <2>5, <2>8, <2>9, PollingChain
  <2> QED
    BY <2>3, <2>10, PollingVoted
<1>2. CASE ~(t.total_producer_vote_weight < 0)
  <2>1. recalculate_votes(t) = t
    BY <1>2 DEF recalculate_votes
  <2> QED
    BY <2>1 DEF Voted, Frame, IsTables
<1> QED
  BY <1>1, <1>2

-----------------------------------------------------------------------------
(* Stakes, through a change of them                                        *)

\* Whose refund a stake is for, and whether it is changed at all.
Touched(from, receiver, delta, give) == (~give /\ from = receiver) \/ Sum2(delta) < 0

StakeFields == {"delband", "limits", "userres", "ledger", "refunds", "deferred"}

\* All that is known of the stakes before a change of them.
StakeTables(t) ==
    /\ IsTables(t) /\ t.now \in Nat
    /\ Funded(t.ledger) /\ StakeRows(t.delband) /\ OwnRows(t.userres) /\ RefundRows(t.refunds)
    /\ VoterTable(t.voters)

\* What a change of a stake does, but for what is voted with it.
Restakes(t, p, source, from, receiver, delta, touched, row) ==
    /\ Frame(t, p, StakeFields)
    /\ p.ok => /\ Restaked(t.delband, p.delband, from, receiver, Sum2(delta))
               /\ row \in OwnRow /\ Regranted(t.userres, p.userres, receiver, row)
               /\ p.limits = [t.limits EXCEPT ![receiver] = Limits(t, receiver, row)]
               /\ Reawaited(t.refunds, p.refunds, from, Left(t, from, delta, touched))
               /\ p.deferred = Resent(t, from, delta, touched)
               /\ PaidIn(t.ledger, p.ledger, Sum2(Owing(t, from, delta, touched)))

\* A change of a stake first writes the tables of stakes, then votes.
LEMMA changebwSteps ==
    ASSUME NEW t, StakeTables(t), NEW source \in Users, NEW receiver \in Users,
           NEW delta \in Changes, NEW give \in BOOLEAN,
           NEW from, from = (IF give THEN receiver ELSE source),
           NEW touched, touched = Touched(from, receiver, delta, give),
           NEW row, row = Received(OwnedBy(t.userres, receiver), delta)
    PROVE  \E p : /\ changebw(t, source, receiver, delta, give) = update_voting_power(p, from, Sum2(delta))
                  /\ Restakes(t, p, source, from, receiver, delta, touched, row)
<1>0. from \in Users /\ source # stake_account /\ touched \in BOOLEAN /\ Sum2(delta) \in Int
  BY ResourcesAssumption, WeightsAdd DEF Touched
<1>1. touched \/ Sum2(delta) >= 0
  <2>1. touched \/ ~(Sum2(delta) < 0)
    BY Zenon DEF Touched
  <2>2. ~(Sum2(delta) < 0) => Sum2(delta) >= 0
    BY <1>0
  <2> QED
    BY <2>1, <2>2
<1>2. PICK d : d = delegated(t, from, receiver, delta)
  OBVIOUS
<1>3. PICK u : u = updated_totals(d, receiver, delta)
  OBVIOUS
<1>4. PICK p : p = updated_refund(u, source, from, delta, touched)
  OBVIOUS
<1>5. changebw(t, source, receiver, delta, give) = update_voting_power(p, from, Sum2(delta))
  BY <1>0, <1>2, <1>3, <1>4 DEF changebw, Touched
<1>6. /\ IsTables(t) /\ t.now \in Nat /\ Funded(t.ledger) /\ StakeRows(t.delband)
      /\ OwnRows(t.userres) /\ RefundRows(t.refunds)
  BY DEF StakeTables
<1>7. /\ Frame(t, d, {"delband"})
      /\ d.ok => Restaked(t.delband, d.delband, from, receiver, Sum2(delta))
  BY <1>0, <1>2, <1>6, delegatedEffect
<1>8. IsTables(d) /\ d.userres = t.userres /\ d.limits = t.limits /\ d.voters = t.voters
  BY <1>7 DEF Frame, TableFields
<1>9. Limits(d, receiver, row) = Limits(t, receiver, row)
  BY <1>8 DEF Limits, Managed
<1>10. /\ Frame(d, u, {"limits", "userres"})
       /\ u.limits = [t.limits EXCEPT ![receiver] = Limits(t, receiver, row)]
       /\ u.ok => row \in OwnRow /\ Regranted(t.userres, u.userres, receiver, row)
  <2>1. Received(OwnedBy(d.userres, receiver), delta) = row
    BY <1>8
  <2>2. OwnRows(d.userres)
    BY <1>6, <1>8
  <2>3. /\ Frame(d, u, {"limits", "userres"})
        /\ u.limits = [d.limits EXCEPT ![receiver] = Limits(d, receiver, Received(OwnedBy(d.userres, receiver), delta))]
        /\ u.ok => /\ Received(OwnedBy(d.userres, receiver), delta) \in OwnRow
                   /\ Regranted(d.userres, u.userres, receiver, Received(OwnedBy(d.userres, receiver), delta))
    BY <1>3, <1>8, <2>2, updated_totalsEffect
  <2> QED
    BY <1>8, <1>9, <2>1, <2>3
<1>11. IsTables(u) /\ u.now = t.now /\ u.ledger = t.ledger /\ u.refunds = t.refunds /\ u.deferred = t.deferred
       /\ u.delband = d.delband
  BY <1>7, <1>10 DEF Frame, TableFields
<1>12. /\ Left(u, from, delta, touched) = Left(t, from, delta, touched)
       /\ Owing(u, from, delta, touched) = Owing(t, from, delta, touched)
       /\ Resent(u, from, delta, touched) = Resent(t, from, delta, touched)
  <2>1. Left(u, from, delta, touched) = Left(t, from, delta, touched)
    BY <1>11 DEF Left, request_time
  <2>2. Owing(u, from, delta, touched) = Owing(t, from, delta, touched)
    BY <1>11 DEF Owing
  <2> QED
    BY <1>11, <2>1, <2>2 DEF Resent
<1>13. /\ Frame(u, p, {"ledger", "refunds", "deferred"})
       /\ p.deferred = Resent(t, from, delta, touched)
       /\ Reawaited(t.refunds, p.refunds, from, Left(t, from, delta, touched))
       /\ p.ok => PaidIn(t.ledger, p.ledger, Sum2(Owing(t, from, delta, touched)))
  <2>1. RefundRows(u.refunds) /\ u.now \in Nat /\ Funded(u.ledger) /\ IsTables(u)
    BY <1>6, <1>11
  <2>2. /\ Frame(u, p, {"ledger", "refunds", "deferred"})
        /\ p.deferred = Resent(u, from, delta, touched)
        /\ Reawaited(u.refunds, p.refunds, from, Left(u, from, delta, touched))
        /\ p.ok => PaidIn(u.ledger, p.ledger, Sum2(Owing(u, from, delta, touched)))
    BY <1>0, <1>1, <1>4, <2>1, updated_refundEffect
  <2> QED
    BY <1>11, <1>12, <2>2
<1>14. Frame(t, p, StakeFields)
  BY <1>7, <1>10, <1>13 DEF Frame, StakeFields, TableFields
<1>15. p.ok => /\ u.ok /\ d.ok /\ p.delband = d.delband /\ p.userres = u.userres /\ p.limits = u.limits
  BY <1>10, <1>11, <1>13 DEF Frame, TableFields
<1>16. Restakes(t, p, source, from, receiver, delta, touched, row)
  BY <1>7, <1>10, <1>13, <1>14, <1>15 DEF Restakes
<1> QED
  BY <1>5, <1>16

\* Stakes are accounted for.
StakesOK(t) ==
    /\ StakeTables(t)
    /\ BalanceOf(t.ledger, stake_account) = SumOf(AmountsOf(t.delband)) + SumOf(AwaitedOf(t.refunds))
    /\ \A a \in Users : /\ Sum2(OwnedBy(t.userres, a).weights) = SumOf(ReceivedBy(t.delband, a))
                        /\ StakedBy(t.voters, a) = SumOf(GivenBy(t.delband, a))

\* They are after a change of a stake.
LEMMA RestakesOK ==
    ASSUME NEW t, StakesOK(t), NEW source \in Users, NEW from \in Users, NEW receiver \in Users,
           NEW delta \in Changes, NEW touched \in BOOLEAN,
           NEW row, row = Received(OwnedBy(t.userres, receiver), delta),
           NEW p, Restakes(t, p, source, from, receiver, delta, touched, row),
           NEW h, h = update_voting_power(p, from, Sum2(delta)), h.ok
    PROVE  /\ StakesOK(h) /\ p.ok
           /\ Frame(p, h, Polled)
           /\ \A b : ManagedBy(h.voters, b) = ManagedBy(t.voters, b)
<1>1. /\ StakeTables(t) /\ IsTables(t) /\ t.now \in Nat
      /\ Funded(t.ledger) /\ StakeRows(t.delband) /\ OwnRows(t.userres)
      /\ RefundRows(t.refunds) /\ VoterTable(t.voters)
  BY DEF StakesOK, StakeTables
<1>2. Frame(t, p, StakeFields)
  BY DEF Restakes
<1>3. IsTables(p) /\ p.voters = t.voters /\ p.now = t.now
  BY <1>2 DEF Frame, TableFields, StakeFields
<1>4. /\ Frame(p, h, Polled) /\ VoterTable(h.voters)
      /\ StakedBy(h.voters, from) = StakedBy(t.voters, from) + Sum2(delta)
      /\ \A b : b # from => StakedBy(h.voters, b) = StakedBy(t.voters, b)
      /\ \A b : ManagedBy(h.voters, b) = ManagedBy(t.voters, b)
  <2>1. VoterTable(p.voters)
    BY <1>1, <1>3
  <2> QED
    BY <1>3, <2>1, update_voting_powerEffect
<1>5. /\ p.ok /\ IsTables(h) /\ h.now = t.now
      /\ h.delband = p.delband /\ h.userres = p.userres /\ h.ledger = p.ledger /\ h.refunds = p.refunds
  BY <1>3, <1>4 DEF Frame, TableFields, Polled
<1>6. /\ Restaked(t.delband, h.delband, from, receiver, Sum2(delta))
      /\ row \in OwnRow /\ Regranted(t.userres, h.userres, receiver, row)
      /\ Reawaited(t.refunds, h.refunds, from, Left(t, from, delta, touched))
      /\ PaidIn(t.ledger, h.ledger, Sum2(Owing(t, from, delta, touched)))
  BY <1>5 DEF Restakes
<1>7. StakeTables(h)
  BY <1>1, <1>4, <1>5, <1>6 DEF StakeTables, Restaked, Regranted, Reawaited, PaidIn
<1>8. BalanceOf(h.ledger, stake_account) = SumOf(AmountsOf(h.delband)) + SumOf(AwaitedOf(h.refunds))
  <2>1. PICK x, y, z, r, l, o, b : /\ x = Sum2(delta) /\ y = SumOf(AmountsOf(t.delband))
                                   /\ z = SumOf(AwaitedOf(t.refunds))
                                   /\ r = Sum2(RefundOf(t.refunds, from).weights)
                                   /\ l = Sum2(Left(t, from, delta, touched).weights)
                                   /\ o = Sum2(Owing(t, from, delta, touched))
                                   /\ b = BalanceOf(t.ledger, stake_account)
    OBVIOUS
  <2>2. x \in Int /\ y \in Int /\ z \in Int /\ r \in Int /\ l \in Int /\ o \in Int
    <3>1. x \in Int
      BY <2>1, WeightsAdd
    <3>2. y \in Int
      BY <1>1, <2>1, StakeColumns
    <3>3. z \in Int /\ r \in Int
      BY <1>1, <2>1, RefundColumn
    <3>4. Left(t, from, delta, touched) \in RefundRow /\ Owing(t, from, delta, touched) \in Changes
      BY <1>1, RefundLeft
    <3>5. Left(t, from, delta, touched).weights \in WeightRows
      BY <3>4 DEF RefundRow
    <3>6. l \in Int /\ o \in Int
      BY <2>1, <3>4, <3>5, NoWeightsZero, WeightsAdd
    <3> QED
      BY <3>1, <3>2, <3>3, <3>6
  <2>3. r - l + o = x
    BY <1>1, <2>1, RefundLeft
  <2>4. b = y + z
    BY <2>1 DEF StakesOK
  <2>5. SumOf(AmountsOf(h.delband)) = y + x /\ SumOf(AwaitedOf(h.refunds)) = z - r + l
        /\ BalanceOf(h.ledger, stake_account) = b + o
    BY <1>6, <2>1 DEF Restaked, Reawaited, PaidIn
  <2> QED
    BY <2>2, <2>3, <2>4, <2>5
<1>9. ASSUME NEW a \in Users
      PROVE  /\ Sum2(OwnedBy(h.userres, a).weights) = SumOf(ReceivedBy(h.delband, a))
             /\ StakedBy(h.voters, a) = SumOf(GivenBy(h.delband, a))
  <2>1. /\ SumOf(ReceivedBy(h.delband, a)) = SumOf(ReceivedBy(t.delband, a)) + IF a = receiver THEN Sum2(delta) ELSE 0
        /\ SumOf(GivenBy(h.delband, a)) = SumOf(GivenBy(t.delband, a)) + IF a = from THEN Sum2(delta) ELSE 0
    BY <1>6 DEF Restaked
  <2>2. /\ Sum2(OwnedBy(t.userres, a).weights) = SumOf(ReceivedBy(t.delband, a))
        /\ StakedBy(t.voters, a) = SumOf(GivenBy(t.delband, a))
    BY DEF StakesOK
  <2>3. SumOf(ReceivedBy(t.delband, a)) \in Nat /\ SumOf(GivenBy(t.delband, a)) \in Nat
    BY <1>1, StakeColumns
  <2>4. Sum2(OwnedBy(h.userres, a).weights)
          = Sum2(OwnedBy(t.userres, a).weights) + IF a = receiver THEN Sum2(delta) ELSE 0
    <3>1. CASE a = receiver
      <4>1. OwnedBy(h.userres, a) = row
        BY <1>6, <3>1 DEF Regranted
      <4>2. PICK q : q = OwnedBy(t.userres, a)
        OBVIOUS
      <4>3. q \in OwnRow
        BY <1>1, <4>2, RamColumn
      <4>4. row.weights = Plus(q.weights, delta) /\ q.weights \in Changes
        BY <3>1, <4>2, <4>3, NoWeightsZero DEF Received, OwnRow
      <4>6. PICK x : x = q.weights
        OBVIOUS
      <4>7. x \in Changes /\ delta \in Changes /\ row.weights = Plus(x, delta)
        BY <4>4, <4>6
      <4>8. PICK d : d = delta
        OBVIOUS
      <4>9. x \in Changes /\ d \in Changes
        BY <4>7, <4>8
      <4>10. Sum2(Plus(x, d)) = Sum2(x) + Sum2(d)
        BY <4>9, WeightsAdd
      <4>5. Sum2(row.weights) = Sum2(q.weights) + Sum2(delta)
        BY <4>6, <4>7, <4>8, <4>10
      <4> QED
        BY <3>1, <4>1, <4>2, <4>5
    <3>2. CASE a # receiver
      <4>1. OwnedBy(h.userres, a) = OwnedBy(t.userres, a)
        BY <1>6, <3>2 DEF Regranted
      <4> QED
        BY <2>2, <2>3, <3>2, <4>1
    <3> QED
      BY <3>1, <3>2
  <2>5. StakedBy(h.voters, a) = StakedBy(t.voters, a) + IF a = from THEN Sum2(delta) ELSE 0
    <3>1. CASE a = from
      BY <1>4, <3>1
    <3>2. CASE a # from
      BY <1>4, <2>2, <2>3, <3>2
    <3> QED
      BY <3>1, <3>2
  <2> QED
    BY <2>1, <2>2, <2>4, <2>5
<1>10. StakesOK(h)
  BY <1>7, <1>8, <1>9 DEF StakesOK
<1> QED
  BY <1>4, <1>5, <1>10

\* From t to h nothing that stakes are accounted by has changed.
StakesKept(t, h) ==
    /\ IsTables(h) /\ h.now \in Nat
    /\ PaidIn(t.ledger, h.ledger, 0)
    /\ h.delband = t.delband /\ h.refunds = t.refunds
    /\ OwnRows(h.userres) /\ \A a : OwnedBy(h.userres, a).weights = OwnedBy(t.userres, a).weights
    /\ VoterTable(h.voters) /\ \A a : StakedBy(h.voters, a) = StakedBy(t.voters, a)

\* Stakes are accounted for after what leaves them and eosio.stake alone,
LEMMA StakesKeptOK ==
    ASSUME NEW t, StakesOK(t), NEW h, StakesKept(t, h)
    PROVE  StakesOK(h)
<1>1. BalanceOf(t.ledger, stake_account) \in Int
  BY BalanceInt DEF StakesOK, StakeTables, Funded
<1>2. BalanceOf(h.ledger, stake_account) = BalanceOf(t.ledger, stake_account)
  BY <1>1 DEF StakesKept, PaidIn
<1>3. StakeTables(h)
  BY DEF StakesOK, StakeTables, StakesKept, PaidIn
<1> QED
  BY <1>2, <1>3 DEF StakesOK, StakesKept

\* Nothing is paid at all.
LEMMA NothingPaid ==
    ASSUME NEW l, Funded(l)
    PROVE  PaidIn(l, l, 0)
BY BalanceInt DEF Funded, PaidIn

\* They are kept by what writes none of their tables, and by votes.
LEMMA StakesFrame ==
    ASSUME NEW t, StakesOK(t), NEW h, NEW F, Frame(t, h, F),
           F \subseteq {"deferred", "limits", "prods", "total_producer_vote_weight", "market", "ram"}
    PROVE  StakesOK(h)
<1>1. /\ IsTables(h) /\ h.now = t.now /\ h.ledger = t.ledger /\ h.delband = t.delband
      /\ h.refunds = t.refunds /\ h.userres = t.userres /\ h.voters = t.voters
  BY DEF Frame, TableFields
<1>2. StakesKept(t, h)
  BY <1>1, NothingPaid DEF StakesKept, StakesOK, StakeTables
<1> QED
  BY <1>2, StakesKeptOK

\* after a vote,
LEMMA StakesVoted ==
    ASSUME NEW t, StakesOK(t), NEW h, Voted(t, h)
    PROVE  StakesOK(h)
<1>1. /\ IsTables(h) /\ h.now = t.now /\ h.ledger = t.ledger /\ h.delband = t.delband
      /\ h.refunds = t.refunds /\ h.userres = t.userres
  BY DEF Voted, Frame, TableFields, Polled
<1>2. StakesKept(t, h)
  BY <1>1, NothingPaid DEF StakesKept, StakesOK, StakeTables, Voted
<1> QED
  BY <1>2, StakesKeptOK

\* and after a check.
LEMMA StakesCheck ==
    ASSUME NEW t, IsTables(t), NEW p \in BOOLEAN, StakesOK(t)
    PROVE  StakesOK(Check(t, p))
<1>1. Frame(t, Check(t, p), {})
  BY CheckFrame
<1> QED
  BY <1>1, StakesFrame

-----------------------------------------------------------------------------
(* A refund that is paid                                                   *)

\* refund: the row is erased, not before it is due, and its amount is paid.
LEMMA refundEffect ==
    ASSUME NEW t, StakeTables(t), NEW owner \in Users
    PROVE  LET h == refund(t, owner)
           IN  /\ Frame(t, h, {"ledger", "refunds"})
               /\ h.ok => /\ owner \in DOMAIN t.refunds
                          /\ t.refunds[owner].request_time + refund_delay <= t.now
                          /\ Reawaited(t.refunds, h.refunds, owner, NoRefund)
                          /\ PaidIn(t.ledger, h.ledger, -Sum2(t.refunds[owner].weights))
<1>1. IsTables(t) /\ Funded(t.ledger) /\ RefundRows(t.refunds)
  BY DEF StakeTables
<1>2. CASE owner \notin DOMAIN t.refunds
  <2>1. refund(t, owner) = Check(t, FALSE)
    BY <1>2 DEF refund
  <2>2. Frame(t, Check(t, FALSE), {}) /\ ~Check(t, FALSE).ok
    BY <1>1, CheckFrame
  <2> QED
    BY <2>1, <2>2 DEF Frame
<1>3. CASE owner \in DOMAIN t.refunds
  <2>1. PICK r : r = t.refunds[owner]
    OBVIOUS
  <2>2. PICK v : v = Sum2(r.weights)
    OBVIOUS
  <2>3. PICK j : j = transfer(t, stake_account, owner, v)
    OBVIOUS
  <2>4. PICK s : s = Erase(j.refunds, owner)
    OBVIOUS
  <2>5. PICK k : k = [j EXCEPT !.refunds = s]
    OBVIOUS
  <2> DEFINE p == r.request_time + refund_delay <= t.now
  <2>6. refund(t, owner) = Check(k, p)
    <3>1. refund(t, owner) = Check([j EXCEPT !.refunds = Erase(j.refunds, owner)], r.request_time + refund_delay <= t.now)
      BY <1>3, <2>1, <2>2, <2>3 DEF refund
    <3>2. [j EXCEPT !.refunds = Erase(j.refunds, owner)] = k
      BY <2>4, <2>5
    <3> QED
      BY <3>1, <3>2
  <2>7. p \in BOOLEAN
    OBVIOUS
  <2> HIDE DEF p
  <2>8. /\ Frame(t, j, {"ledger"})
        /\ j.ok => /\ CanTransfer(t.ledger, stake_account, owner, v)
                   /\ j.ledger = Transferred(t.ledger, stake_account, owner, v)
    BY <1>1, <2>3, TransferFrame
  <2>9. IsTables(j) /\ j.refunds = t.refunds
    BY <2>8 DEF Frame, TableFields
  <2>10. Frame(j, k, {"refunds"}) /\ k.refunds = s
    <3>2. Frame(j, [j EXCEPT !.refunds = s], {"refunds"}) /\ [j EXCEPT !.refunds = s].refunds = s
      BY <2>9, RefundsSet
    <3> QED
      BY <2>5, <3>2
  <2>11. IsTables(k) /\ k.ledger = j.ledger
    BY <2>10 DEF Frame, TableFields
  <2>12. Frame(k, Check(k, p), {}) /\ (Check(k, p).ok => p)
    BY <2>7, <2>11, CheckFrame
  <2>13. PICK h : h = Check(k, p)
    OBVIOUS
  <2>14. Frame(t, h, {"ledger", "refunds"}) /\ (h.ok => p /\ j.ok) /\ h.refunds = s /\ h.ledger = j.ledger
    BY <2>8, <2>10, <2>11, <2>12, <2>13 DEF Frame, TableFields
  <2>15. Reawaited(t.refunds, s, owner, NoRefund)
    <3>1. NoRefund \in RefundRow /\ NoRefund.weights = NoWeights
      BY NoWeightsZero DEF NoRefund, RefundRow
    <3>2. s = Erase(t.refunds, owner)
      BY <2>4, <2>9
    <3> QED
      BY <1>1, <3>1, <3>2, ReawaitedRow
  <2>16. j.ok => PaidIn(t.ledger, j.ledger, -v)
    <3>1. SUFFICES ASSUME j.ok PROVE PaidIn(t.ledger, j.ledger, -v)
      OBVIOUS
    <3>2. r = RefundOf(t.refunds, owner)
      BY <1>3, <2>1 DEF RefundOf
    <3>3. v \in Int
      BY <1>1, <2>2, <3>2, RefundColumn
    <3>4. Funded(j.ledger) /\ Moved(t.ledger, j.ledger, stake_account, owner, v)
      BY <1>1, <2>8, <3>1, <3>3, TransferFunded
    <3>5. ram_account # owner /\ ram_account # stake_account
      BY ResourcesAssumption, StakingAssumption
    <3>6. BalanceOf(t.ledger, stake_account) \in Int
      BY <1>1, BalanceInt DEF Funded
    <3>7. BalanceOf(j.ledger, stake_account) = BalanceOf(t.ledger, stake_account) - v
          /\ BalanceOf(j.ledger, ram_account) = BalanceOf(t.ledger, ram_account)
      BY <3>4, <3>5 DEF Moved
    <3> QED
      BY <3>3, <3>4, <3>6, <3>7 DEF PaidIn
  <2>17. h.ok => r.request_time + refund_delay <= t.now
    BY <2>14 DEF p
  <2>18. h = refund(t, owner)
    BY <2>6, <2>13
  <2> QED
    BY <1>3, <2>1, <2>2, <2>14, <2>15, <2>16, <2>17, <2>18
<1> QED
  BY <1>2, <1>3

\* Stakes are accounted for after a refund.
LEMMA refundStakes ==
    ASSUME NEW t, StakesOK(t), NEW owner \in Users, NEW h, h = refund(t, owner), h.ok
    PROVE  StakesOK(h)
<1>1. StakeTables(t) /\ IsTables(t) /\ t.now \in Nat /\ Funded(t.ledger) /\ RefundRows(t.refunds) /\ StakeRows(t.delband)
  BY DEF StakesOK, StakeTables
<1>2. /\ Frame(t, h, {"ledger", "refunds"})
      /\ owner \in DOMAIN t.refunds
      /\ Reawaited(t.refunds, h.refunds, owner, NoRefund)
      /\ PaidIn(t.ledger, h.ledger, -Sum2(t.refunds[owner].weights))
  BY <1>1, refundEffect
<1>3. /\ IsTables(h) /\ h.now = t.now /\ h.delband = t.delband /\ h.userres = t.userres /\ h.voters = t.voters
  BY <1>2 DEF Frame, TableFields
<1>4. StakeTables(h)
  BY <1>1, <1>2, <1>3 DEF StakeTables, StakesOK, Reawaited, PaidIn
<1>5. PICK v : v = Sum2(t.refunds[owner].weights)
  OBVIOUS
<1>6. v \in Int /\ SumOf(AwaitedOf(t.refunds)) \in Int /\ SumOf(AmountsOf(t.delband)) \in Int
      /\ v = Sum2(RefundOf(t.refunds, owner).weights)
  <2>1. t.refunds[owner] = RefundOf(t.refunds, owner)
    BY <1>2 DEF RefundOf
  <2> QED
    BY <1>1, <1>5, <2>1, RefundColumn, StakeColumns
<1>7. NoRefund.weights = NoWeights /\ Sum2(NoWeights) = 0
  BY NoWeightsZero DEF NoRefund
<1>8. SumOf(AwaitedOf(h.refunds)) = SumOf(AwaitedOf(t.refunds)) - v
  <2>1. SumOf(AwaitedOf(h.refunds)) = SumOf(AwaitedOf(t.refunds)) - v + Sum2(NoRefund.weights)
    BY <1>2, <1>6 DEF Reawaited
  <2> QED
    BY <1>6, <1>7, <2>1
<1>9. BalanceOf(h.ledger, stake_account) = BalanceOf(t.ledger, stake_account) + (-v)
  BY <1>2, <1>5 DEF PaidIn
<1>10. BalanceOf(h.ledger, stake_account) = SumOf(AmountsOf(h.delband)) + SumOf(AwaitedOf(h.refunds))
  BY <1>3, <1>6, <1>8, <1>9 DEF StakesOK
<1> QED
  BY <1>3, <1>4, <1>10 DEF StakesOK

-----------------------------------------------------------------------------
(* The market of RAM                                                       *)

\* A quotient, rounded down.
LEMMA Quotient ==
    ASSUME NEW n \in Nat, NEW d \in Nat \ {0}
    PROVE  n \div d \in Nat /\ (n \div d) * d <= n
BY SMT

\* A factor that is positive cancels.
LEMMA CancelFactor ==
    ASSUME NEW k \in Nat \ {0}, NEW x \in Int, NEW y \in Int, k * x <= k * y
    PROVE  x <= y
BY SMT

Market == [base : Nat, quote : Nat]
RamRow == [max_ram_size : Nat, reserved : Nat, stake : Nat, last_ram_increase : Nat, new_ram_per_block : Nat]

\* The tokens that the market is set up with, and what it must hold beside them.
InitialQuote == NewMarket(MaxRam, Supply).quote
MarketOK(m, r) ==
    /\ m \in Market /\ r \in RamRow
    /\ m.base + r.reserved = r.max_ram_size
    /\ m.quote = InitialQuote + r.stake
    /\ m.base * m.quote >= r.max_ram_size * InitialQuote

\* A thousandth of the supply, rounded down.
LEMMA InitialQuoteNat == InitialQuote \in Nat
<1>1. Supply \in Nat /\ 1000 \in Nat \ {0}
  BY ResourcesAssumption
<1>2. Supply \div 1000 \in Nat
  BY <1>1, Quotient
<1> QED
  BY <1>2 DEF InitialQuote, NewMarket

\* The supply grows.
LEMMA MarketGrows ==
    ASSUME NEW m, NEW r, MarketOK(m, r), NEW new \in Nat, NEW l, NEW s,
           l \in Market, l.base = m.base + new, l.quote = m.quote,
           s \in RamRow, s.max_ram_size = r.max_ram_size + new, s.reserved = r.reserved, s.stake = r.stake
    PROVE  MarketOK(l, s)
<1>1. PICK b, q, x, i : b = m.base /\ q = m.quote /\ x = r.max_ram_size /\ i = InitialQuote
  OBVIOUS
<1>2. b \in Nat /\ q \in Nat /\ x \in Nat /\ i \in Nat /\ r.stake \in Nat /\ r.reserved \in Nat
  BY <1>1, InitialQuoteNat DEF MarketOK, Market, RamRow
<1>3. b * q >= x * i /\ q = i + r.stake
  BY <1>1 DEF MarketOK
<1>4. (b + new) * q = b * q + new * q /\ (x + new) * i = x * i + new * i
  BY <1>2, SMT
<1>5. new * i <= new * q
  <2>1. new * q = new * i + new * r.stake /\ new * r.stake \in Nat
    BY <1>2, <1>3, SMT
  <2> QED
    BY <1>2, <2>1, SMT
<1>6. b * q \in Int /\ x * i \in Int /\ new * i \in Int /\ new * q \in Int
  BY <1>2, SMT
<1>7. (b + new) * q >= (x + new) * i
  BY <1>3, <1>4, <1>5, <1>6
<1>8. l.base * l.quote >= s.max_ram_size * InitialQuote
  BY <1>1, <1>7
<1>9. m.base + r.reserved = r.max_ram_size /\ m.quote = InitialQuote + r.stake
  BY DEF MarketOK
<1>10. l.base + s.reserved = s.max_ram_size
  BY <1>1, <1>2, <1>9
<1> QED
  BY <1>8, <1>9, <1>10 DEF MarketOK

\* RAM is bought and sold at a price that leaves at least as much in the market.
LEMMA MarketTrade ==
    ASSUME NEW b \in Nat, NEW q \in Nat, NEW inp \in Nat \ {0}
    PROVE  /\ (inp * q) \div (b + inp) \in Nat
           /\ (inp * q) \div (b + inp) <= q
           /\ (b + inp) * (q - (inp * q) \div (b + inp)) >= b * q
<1>1. inp * q \in Nat /\ b + inp \in Nat \ {0} /\ b * q \in Nat
  BY SMT
<1>2. PICK z : z = (inp * q) \div (b + inp)
  OBVIOUS
<1>3. z \in Nat /\ z * (b + inp) <= inp * q
  BY <1>1, <1>2, Quotient
<1>4. (b + inp) * q = b * q + inp * q
  BY SMT
<1>5. (b + inp) * (q - z) = (b + inp) * q - z * (b + inp)
  BY <1>3, SMT
<1>6. (b + inp) * q \in Int /\ z * (b + inp) \in Int
  BY <1>3, SMT
<1>7. (b + inp) * (q - z) >= b * q
  BY <1>1, <1>3, <1>4, <1>5, <1>6
<1>8. (b + inp) * z <= (b + inp) * q
  BY <1>1, <1>3, <1>4, <1>6, SMT
<1>9. z <= q
  BY <1>1, <1>3, <1>8, CancelFactor
<1> QED
  BY <1>2, <1>3, <1>7, <1>9

\* All that is reserved can be bought back, in one go or in part.
LEMMA BuyBack ==
    ASSUME NEW m, NEW r, MarketOK(m, r), NEW bytes \in 1..r.reserved
    PROVE  TokensFor(m, bytes) <= r.stake
<1>1. PICK b, q, x, i, z, s : /\ b = m.base /\ q = m.quote /\ x = r.max_ram_size /\ i = InitialQuote
                              /\ z = TokensFor(m, bytes) /\ s = r.reserved
  OBVIOUS
<1>2. b \in Nat /\ q \in Nat /\ x \in Nat /\ i \in Nat /\ r.stake \in Nat /\ s \in Nat
      /\ bytes \in Nat \ {0} /\ bytes <= s
  BY <1>1, InitialQuoteNat DEF MarketOK, Market, RamRow
<1>3. b * q >= x * i /\ q = i + r.stake /\ b + s = x
  BY <1>1 DEF MarketOK
<1>4. z = (bytes * q) \div (b + bytes)
  BY <1>1 DEF TokensFor, get_bancor_output
<1>5. z \in Nat /\ z <= q /\ (b + bytes) * (q - z) >= b * q
  BY <1>2, <1>4, MarketTrade
<1>6. q - z \in Nat /\ x \in Nat \ {0}
  BY <1>2, <1>3, <1>5
<1>7. (b + bytes) * (q - z) <= x * (q - z)
  <2>1. PICK d \in Nat : d = q - z
    BY <1>6
  <2>2. PICK e \in Nat : x = b + bytes + e
    <3>1. s - bytes \in Nat /\ x = b + bytes + (s - bytes)
      BY <1>2, <1>3
    <3> QED
      BY <3>1
  <2>3. x * d = (b + bytes) * d + e * d /\ e * d \in Nat
    BY <1>2, <2>1, <2>2, SMT
  <2>4. (b + bytes) * d \in Int
    BY <1>2, <2>1, SMT
  <2> QED
    BY <2>1, <2>3, <2>4
<1>8. x * i <= x * (q - z)
  <2>1. x * i \in Int /\ b * q \in Int /\ (b + bytes) * (q - z) \in Int /\ x * (q - z) \in Int
    BY <1>2, <1>6, SMT
  <2> QED
    BY <1>3, <1>5, <1>7, <2>1
<1>9. i <= q - z
  BY <1>2, <1>6, <1>8, CancelFactor
<1> QED
  BY <1>1, <1>2, <1>3, <1>5, <1>9

\* A purchase.
LEMMA MarketBuy ==
    ASSUME NEW m, NEW r, MarketOK(m, r), NEW tokens \in Nat \ {0}, NEW l, NEW s,
           l = BytesBought(m, tokens),
           s \in RamRow, s.max_ram_size = r.max_ram_size,
           s.reserved = r.reserved + BytesFor(m, tokens), s.stake = r.stake + tokens
    PROVE  MarketOK(l, s)
<1>1. PICK b, q, x, i, z : /\ b = m.base /\ q = m.quote /\ x = r.max_ram_size /\ i = InitialQuote
                           /\ z = BytesFor(m, tokens)
  OBVIOUS
<1>2. b \in Nat /\ q \in Nat /\ x \in Nat /\ i \in Nat /\ r.stake \in Nat /\ r.reserved \in Nat
  BY <1>1, InitialQuoteNat DEF MarketOK, Market, RamRow
<1>3. b * q >= x * i /\ q = i + r.stake /\ b + r.reserved = x
  BY <1>1 DEF MarketOK
<1>4. z = (tokens * b) \div (q + tokens)
  BY <1>1 DEF BytesFor, get_bancor_output
<1>5. z \in Nat /\ z <= b /\ (q + tokens) * (b - z) >= q * b
  BY <1>2, <1>4, MarketTrade
<1>6. l.base = b - z /\ l.quote = q + tokens /\ l \in Market
  BY <1>1, <1>2, <1>5 DEF BytesBought, Market
<1>7. (b - z) * (q + tokens) >= x * i
  <2>1. (b - z) * (q + tokens) = (q + tokens) * (b - z) /\ q * b = b * q
    BY <1>2, <1>5, SMT
  <2>2. x * i \in Int /\ b * q \in Int /\ (q + tokens) * (b - z) \in Int
    BY <1>2, <1>5, SMT
  <2> QED
    BY <1>3, <1>5, <2>1, <2>2
<1>8. l.base * l.quote >= s.max_ram_size * InitialQuote
  BY <1>1, <1>6, <1>7
<1>9. l.base + s.reserved = s.max_ram_size /\ l.quote = InitialQuote + s.stake
  BY <1>1, <1>2, <1>3, <1>5, <1>6
<1> QED
  BY <1>6, <1>8, <1>9 DEF MarketOK

\* A sale.
LEMMA MarketSell ==
    ASSUME NEW m, NEW r, MarketOK(m, r), NEW bytes \in 1..r.reserved, NEW l, NEW s,
           l = BytesSold(m, bytes),
           s \in RamRow, s.max_ram_size = r.max_ram_size,
           s.reserved = r.reserved - bytes, s.stake = r.stake - TokensFor(m, bytes)
    PROVE  MarketOK(l, s)
<1>1. PICK b, q, x, i, z : /\ b = m.base /\ q = m.quote /\ x = r.max_ram_size /\ i = InitialQuote
                           /\ z = TokensFor(m, bytes)
  OBVIOUS
<1>2. b \in Nat /\ q \in Nat /\ x \in Nat /\ i \in Nat /\ r.stake \in Nat /\ r.reserved \in Nat
      /\ bytes \in Nat \ {0}
  BY <1>1, InitialQuoteNat DEF MarketOK, Market, RamRow
<1>3. b * q >= x * i /\ q = i + r.stake /\ b + r.reserved = x
  BY <1>1 DEF MarketOK
<1>4. z = (bytes * q) \div (b + bytes)
  BY <1>1 DEF TokensFor, get_bancor_output
<1>5. z \in Nat /\ z <= q /\ (b + bytes) * (q - z) >= b * q
  BY <1>2, <1>4, MarketTrade
<1>6. l.base = b + bytes /\ l.quote = q - z /\ l \in Market
  BY <1>1, <1>2, <1>5 DEF BytesSold, Market
<1>7. (b + bytes) * (q - z) >= x * i
  <2>1. x * i \in Int /\ b * q \in Int /\ (b + bytes) * (q - z) \in Int
    BY <1>2, <1>5, SMT
  <2> QED
    BY <1>3, <1>5, <2>1
<1>8. l.base * l.quote >= s.max_ram_size * InitialQuote
  BY <1>1, <1>6, <1>7
<1>9. l.base + s.reserved = s.max_ram_size /\ l.quote = InitialQuote + s.stake
  BY <1>1, <1>2, <1>3, <1>5, <1>6
<1> QED
  BY <1>6, <1>8, <1>9 DEF MarketOK

\* The rows of RAM are written.
LEMMA RamWritten ==
    ASSUME NEW t, IsTables(t), NEW r, NEW h, h = [t EXCEPT !.ram = r]
    PROVE  Frame(t, h, {"ram"}) /\ h.ram = r /\ h.ok = t.ok
BY SMT DEF IsTables, TableFields, Frame

\* The market is written.
LEMMA MarketWritten ==
    ASSUME NEW t, IsTables(t), NEW r, NEW h, h = [t EXCEPT !.market = r]
    PROVE  Frame(t, h, {"market"}) /\ h.market = r /\ h.ok = t.ok
BY SMT DEF IsTables, TableFields, Frame

\* The supply of RAM grows by some bytes.
LEMMA MoreRamEffect ==
    ASSUME NEW t, IsTables(t), MarketOK(t.market, t.ram), NEW bytes \in Nat,
           NEW h, h = MoreRam(t, bytes)
    PROVE  /\ Frame(t, h, {"market", "ram"})
           /\ MarketOK(h.market, h.ram)
           /\ h.ram.reserved = t.ram.reserved /\ h.ram.stake = t.ram.stake
           /\ h.ram.last_ram_increase = t.ram.last_ram_increase
<1>1. PICK r : r = [t.ram EXCEPT !.max_ram_size = t.ram.max_ram_size + bytes]
  OBVIOUS
<1>2. PICK m : m = [t.market EXCEPT !.base = t.market.base + bytes]
  OBVIOUS
<1>3. PICK j : j = [t EXCEPT !.ram = r]
  OBVIOUS
<1>4. h = [j EXCEPT !.market = m]
  BY <1>1, <1>2, <1>3 DEF MoreRam
<1>5. Frame(t, j, {"ram"}) /\ j.ram = r
  BY <1>3, RamWritten
<1>6. Frame(j, h, {"market"}) /\ h.market = m
  <2>1. IsTables(j)
    BY <1>5 DEF Frame
  <2> QED
    BY <1>4, <2>1, MarketWritten
<1>7. Frame(t, h, {"market", "ram"}) /\ h.market = m /\ h.ram = r
  BY <1>5, <1>6 DEF Frame, TableFields
<1>8. t.market \in Market /\ t.ram \in RamRow
  BY DEF MarketOK
<1>9. m \in Market /\ m.base = t.market.base + bytes /\ m.quote = t.market.quote
  BY <1>2, <1>8 DEF Market
<1>10. /\ r \in RamRow /\ r.max_ram_size = t.ram.max_ram_size + bytes
       /\ r.reserved = t.ram.reserved /\ r.stake = t.ram.stake
       /\ r.last_ram_increase = t.ram.last_ram_increase
  BY <1>1, <1>8 DEF RamRow
<1>11. MarketOK(m, r)
  BY <1>9, <1>10, MarketGrows
<1> QED
  BY <1>7, <1>10, <1>11

\* The supply of RAM is brought up to date.
LEMMA update_ram_supplyEffect ==
    ASSUME NEW t, IsTables(t), MarketOK(t.market, t.ram), t.now \in Nat,
           t.ram.last_ram_increase <= t.now, NEW h, h = update_ram_supply(t)
    PROVE  /\ Frame(t, h, {"market", "ram"})
           /\ MarketOK(h.market, h.ram)
           /\ h.ram.reserved = t.ram.reserved /\ h.ram.stake = t.ram.stake
           /\ h.ram.last_ram_increase <= t.now
<1>1. t.ram \in RamRow /\ t.ram.last_ram_increase \in Nat /\ t.ram.new_ram_per_block \in Nat
  BY DEF MarketOK, RamRow
<1>2. CASE t.now <= t.ram.last_ram_increase
  <2>1. h = t
    BY <1>2 DEF update_ram_supply
  <2> QED
    BY <2>1 DEF Frame, IsTables
<1>3. CASE ~(t.now <= t.ram.last_ram_increase)
  <2>1. PICK new : new = (t.now - t.ram.last_ram_increase) * t.ram.new_ram_per_block
    OBVIOUS
  <2>2. new \in Nat
    <3>1. t.now - t.ram.last_ram_increase \in Nat
      BY <1>1, <1>3
    <3> QED
      BY <1>1, <2>1, <3>1, SMT
  <2>3. PICK j : j = MoreRam(t, new)
    OBVIOUS
  <2>4. PICK r : r = [j.ram EXCEPT !.last_ram_increase = t.now]
    OBVIOUS
  <2>5. h = [j EXCEPT !.ram = r]
    <3>1. h = [MoreRam(t, new) EXCEPT !.ram.last_ram_increase = t.now]
      BY <1>3, <2>1 DEF update_ram_supply
    <3> QED
      BY <2>3, <2>4, <3>1
  <2>6. /\ Frame(t, j, {"market", "ram"}) /\ MarketOK(j.market, j.ram)
        /\ j.ram.reserved = t.ram.reserved /\ j.ram.stake = t.ram.stake
    BY <2>2, <2>3, MoreRamEffect
  <2>7. Frame(j, h, {"ram"}) /\ h.ram = r
    <3>1. IsTables(j)
      BY <2>6 DEF Frame
    <3> QED
      BY <2>5, <3>1, RamWritten
  <2>8. Frame(t, h, {"market", "ram"}) /\ h.market = j.market
    BY <2>6, <2>7 DEF Frame, TableFields
  <2>9. j.ram \in RamRow /\ j.market \in Market
    BY <2>6 DEF MarketOK
  <2>10. /\ r \in RamRow /\ r.max_ram_size = j.ram.max_ram_size
         /\ r.reserved = j.ram.reserved /\ r.stake = j.ram.stake /\ r.last_ram_increase = t.now
    BY <2>4, <2>9 DEF RamRow
  <2>11. MarketOK(h.market, r)
    BY <2>6, <2>8, <2>10 DEF MarketOK
  <2> QED
    BY <2>6, <2>7, <2>8, <2>10, <2>11
<1> QED
  BY <1>2, <1>3

\* Who pays: only the balances of users and of those who take fees, and eosio.ram by an amount.
RamPaid(l, m, v) ==
    /\ Funded(m)
    /\ BalanceOf(m, stake_account) = BalanceOf(l, stake_account)
    /\ BalanceOf(m, ram_account) = BalanceOf(l, ram_account) + v

\* Two payments in a row.
LEMMA RamPaidChain ==
    ASSUME NEW l, NEW m, NEW n, Funded(l), NEW v \in Int, NEW w \in Int, RamPaid(l, m, v), RamPaid(m, n, w)
    PROVE  RamPaid(l, n, v + w)
<1>1. BalanceOf(l, ram_account) \in Int
  BY BalanceInt DEF Funded
<1> QED
  BY <1>1 DEF RamPaid

\* A transfer between accounts that are not eosio.stake.
LEMMA TransferRam ==
    ASSUME NEW t, IsTables(t), Funded(t.ledger), NEW from, NEW to, NEW v \in Int,
           from # stake_account, to # stake_account,
           NEW h, h = transfer(t, from, to, v), h.ok
    PROVE  RamPaid(t.ledger, h.ledger, IF to = ram_account THEN v ELSE IF from = ram_account THEN -v ELSE 0)
<1>1. CanTransfer(t.ledger, from, to, v) /\ h.ledger = Transferred(t.ledger, from, to, v)
  BY TransferFrame
<1>2. Funded(h.ledger) /\ Moved(t.ledger, h.ledger, from, to, v)
  BY <1>1, TransferFunded
<1>3. from # to
  BY <1>1 DEF CanTransfer
<1>4. BalanceOf(t.ledger, ram_account) \in Int
  BY BalanceInt DEF Funded
<1> QED
  BY <1>2, <1>3, <1>4 DEF Moved, RamPaid

\* The fee goes to eosio.ramfee, and on to REX: eosio.ram and eosio.stake keep
\* what they have.
LEMMA PayRamFeeEffect ==
    ASSUME NEW t, IsTables(t), Funded(t.ledger), NEW payer \in Users, NEW fee \in Int,
           NEW h, h = PayRamFee(t, payer, fee)
    PROVE  Frame(t, h, {"ledger"}) /\ (h.ok => RamPaid(t.ledger, h.ledger, 0))
<1>1. payer \notin {stake_account, ram_account, ramfee_account, rex_account}
  BY ResourcesAssumption
<1>2. stake_account \notin {ramfee_account, rex_account} /\ ram_account \notin {ramfee_account, rex_account}
  BY StakingAssumption
<1>3. PICK j : j = transfer(t, payer, ramfee_account, fee)
  OBVIOUS
<1>4. Frame(t, j, {"ledger"}) /\ IsTables(j)
  BY <1>3, TransferFrame DEF Frame
<1>5. j.ok => RamPaid(t.ledger, j.ledger, 0)
  <2>1. SUFFICES ASSUME j.ok PROVE RamPaid(t.ledger, j.ledger, 0)
    OBVIOUS
  <2>2. RamPaid(t.ledger, j.ledger, IF ramfee_account = ram_account THEN fee
                                    ELSE IF payer = ram_account THEN -fee ELSE 0)
    BY <1>1, <1>2, <1>3, <2>1, TransferRam
  <2> QED
    BY <1>1, <1>2, <2>2
<1>6. CASE ~rex_available
  <2>1. h = j
    BY <1>3, <1>6 DEF PayRamFee, channel_to_rex
  <2> QED
    BY <1>4, <1>5, <2>1
<1>7. CASE rex_available
  <2>1. h = transfer(j, ramfee_account, rex_account, fee)
    BY <1>3, <1>7 DEF PayRamFee, channel_to_rex
  <2>2. Frame(j, h, {"ledger"})
    BY <1>4, <2>1, TransferFrame
  <2>3. h.ok => RamPaid(t.ledger, h.ledger, 0)
    <3>1. SUFFICES ASSUME h.ok PROVE RamPaid(t.ledger, h.ledger, 0)
      OBVIOUS
    <3>2. j.ok
      BY <2>2, <3>1 DEF Frame
    <3>3. RamPaid(t.ledger, j.ledger, 0) /\ Funded(j.ledger)
      BY <1>5, <3>2 DEF RamPaid
    <3>4. RamPaid(j.ledger, h.ledger, IF rex_account = ram_account THEN fee
                                      ELSE IF ramfee_account = ram_account THEN -fee ELSE 0)
      BY <1>2, <1>4, <2>1, <3>1, <3>3, TransferRam
    <3>5. RamPaid(j.ledger, h.ledger, 0)
      BY <1>2, <3>4
    <3>6. RamPaid(t.ledger, h.ledger, 0 + 0)
      BY <3>3, <3>5, RamPaidChain
    <3> QED
      BY <3>6
  <2> QED
    BY <1>4, <2>2, <2>3 DEF Frame
<1> QED
  BY <1>6, <1>7

\* What an account owns, with some more bytes of RAM.
MoreOwned(row, bytes) == [row EXCEPT !.ram = @ + bytes]
RamLimited(t, a, ram_owned) ==
    IF "ram" \in Managed(t, a) THEN t.limits ELSE [t.limits EXCEPT ![a].ram = ram_owned + ram_gift_bytes]

\* An account gets bytes of RAM, and its limit follows.
LEMMA OwnRamEffect ==
    ASSUME NEW t, IsTables(t), OwnRows(t.userres), NEW a \in Users, NEW bytes \in Int,
           NEW row, row = MoreOwned(OwnedBy(t.userres, a), bytes), row.ram >= 0,
           NEW h, h = set_ram_limit(OwnRam(t, a, bytes), a)
    PROVE  /\ Frame(t, h, {"userres", "limits"}) /\ h.ok = t.ok
           /\ row \in OwnRow /\ row.weights = OwnedBy(t.userres, a).weights
           /\ row.ram = OwnedBy(t.userres, a).ram + bytes
           /\ Regranted(t.userres, h.userres, a, row)
           /\ h.limits = RamLimited(t, a, row.ram)
<1>1. PICK q : q = OwnedBy(t.userres, a)
  OBVIOUS
<1>2. q \in OwnRow
  BY <1>1, RamColumn
<1>3. row = [q EXCEPT !.ram = q.ram + bytes]
  BY <1>1 DEF MoreOwned
<1>4. row \in OwnRow /\ row.weights = q.weights /\ row.ram = q.ram + bytes
  <2>1. row = [weights |-> q.weights, ram |-> q.ram + bytes]
    BY <1>2, <1>3 DEF OwnRow
  <2>2. q.weights \in WeightRows /\ q.ram + bytes \in Nat
    BY <1>2, <2>1 DEF OwnRow
  <2> QED
    BY <2>1, <2>2 DEF OwnRow
<1>5. PICK u : u = Put(t.userres, a, row)
  OBVIOUS
<1>6. PICK j : j = [t EXCEPT !.userres = u]
  OBVIOUS
<1>7. OwnRam(t, a, bytes) = j
  <2>1. Resources(t, a) = q
    BY <1>1, ResourcesOwned
  <2>2. OwnRam(t, a, bytes) = [t EXCEPT !.userres = Put(t.userres, a, row)]
    BY <1>3, <2>1 DEF OwnRam
  <2> QED
    BY <1>5, <1>6, <2>2
<1>8. Frame(t, j, {"userres"}) /\ j.userres = u /\ j.ok = t.ok
  <2>2. Frame(t, [t EXCEPT !.userres = u], {"userres"}) /\ [t EXCEPT !.userres = u].userres = u
        /\ [t EXCEPT !.userres = u].ok = t.ok
    BY UserresSet
  <2> QED
    BY <1>6, <2>2
<1>9. Regranted(t.userres, u, a, row)
  BY <1>4, <1>5, RegrantedPut
<1>10. IsTables(j) /\ j.limits = t.limits /\ Managed(j, a) = Managed(t, a) /\ Resources(j, a) = row
  <2>1. IsTables(j) /\ j.limits = t.limits /\ j.voters = t.voters
    BY <1>8 DEF Frame, TableFields
  <2>2. OwnedBy(u, a) = row
    BY <1>9 DEF Regranted
  <2> QED
    BY <1>8, <2>1, <2>2, ResourcesOwned DEF Managed
<1>11. CASE "ram" \in Managed(t, a)
  <2>1. h = j
    BY <1>7, <1>10, <1>11 DEF set_ram_limit
  <2>2. h.limits = RamLimited(t, a, row.ram)
    BY <1>10, <1>11, <2>1 DEF RamLimited
  <2> QED
    BY <1>1, <1>4, <1>8, <1>9, <2>1, <2>2 DEF Frame
<1>12. CASE "ram" \notin Managed(t, a)
  <2>1. PICK l : l = [t.limits EXCEPT ![a].ram = row.ram + ram_gift_bytes]
    OBVIOUS
  <2>2. h = [j EXCEPT !.limits = l]
    BY <1>7, <1>10, <1>12, <2>1 DEF set_ram_limit
  <2>3. Frame(j, h, {"limits"}) /\ h.limits = l /\ h.ok = j.ok
    <3>1. IsTables(j)
      BY <1>10 DEF Frame
    <3>2. Frame(j, [j EXCEPT !.limits = l], {"limits"}) /\ [j EXCEPT !.limits = l].limits = l
          /\ [j EXCEPT !.limits = l].ok = j.ok
      BY <3>1, LimitsSet
    <3> QED
      BY <2>2, <3>2
  <2>4. Frame(t, h, {"userres", "limits"}) /\ h.userres = u
    BY <1>8, <2>3 DEF Frame, TableFields
  <2>5. h.limits = RamLimited(t, a, row.ram)
    BY <1>12, <2>1, <2>3 DEF RamLimited
  <2> QED
    BY <1>1, <1>4, <1>8, <1>9, <2>3, <2>4, <2>5
<1> QED
  BY <1>11, <1>12

RamFields == {"market", "ram", "ledger", "userres", "limits"}

\* Tokens are paid, and eosio.stake has the same.
PaidBeside(l, m) == Funded(m) /\ BalanceOf(m, stake_account) = BalanceOf(l, stake_account)

\* The market of RAM, what is owned, and eosio.ram agree.
RamOK(t) ==
    /\ MarketOK(t.market, t.ram)
    /\ t.ram.reserved = SumOf(RamOf(t.userres))
    /\ t.ram.stake = BalanceOf(t.ledger, ram_account)
    /\ t.ram.last_ram_increase <= t.now

\* An account has bought or sold RAM.
RamMoved(t, h, a, row) ==
    /\ Frame(t, h, RamFields)
    /\ row \in OwnRow /\ row.weights = OwnedBy(t.userres, a).weights
    /\ Regranted(t.userres, h.userres, a, row)
    /\ h.limits = RamLimited(t, a, row.ram)
    /\ PaidBeside(t.ledger, h.ledger)
    /\ RamOK(h)

\* The rows of RAM after a purchase, or a sale of a negative amount.
Reserved(r, bytes, tokens) == [r EXCEPT !.reserved = r.reserved + bytes, !.stake = r.stake + tokens]

\* The global row after a purchase or a sale.
LEMMA ReservedRow ==
    ASSUME NEW r \in RamRow, NEW bytes \in Int, NEW tokens \in Int,
           r.reserved + bytes >= 0, r.stake + tokens >= 0, NEW s, s = Reserved(r, bytes, tokens)
    PROVE  /\ s \in RamRow /\ s.max_ram_size = r.max_ram_size /\ s.reserved = r.reserved + bytes
           /\ s.stake = r.stake + tokens /\ s.last_ram_increase = r.last_ram_increase
<1>1. s = [max_ram_size |-> r.max_ram_size, reserved |-> r.reserved + bytes, stake |-> r.stake + tokens,
           last_ram_increase |-> r.last_ram_increase, new_ram_per_block |-> r.new_ram_per_block]
  BY DEF Reserved, RamRow
<1>2. r.reserved + bytes \in Nat /\ r.stake + tokens \in Nat
      /\ r.max_ram_size \in Nat /\ r.last_ram_increase \in Nat /\ r.new_ram_per_block \in Nat
  BY DEF RamRow
<1>3. s \in RamRow
  BY <1>1, <1>2 DEF RamRow
<1> QED
  BY <1>1, <1>3

\* Both rows of RAM are written.
WithMarket(t, m) == [t EXCEPT !.market = m]
WithRam(t, r) == [t EXCEPT !.ram = r]
RamRows(t, m, r) == WithRam(WithMarket(t, m), r)

\* The market and the global row are written.
LEMMA RamRowsWritten ==
    ASSUME NEW t, IsTables(t), NEW m, NEW r, NEW h, h = RamRows(t, m, r)
    PROVE  Frame(t, h, {"market", "ram"}) /\ h.market = m /\ h.ram = r /\ h.ok = t.ok
<1>1. PICK j : j = WithMarket(t, m)
  OBVIOUS
<1>2. Frame(t, j, {"market"}) /\ j.market = m /\ j.ok = t.ok
  BY <1>1, MarketWritten DEF WithMarket
<1>3. IsTables(j)
  BY <1>2 DEF Frame
<1>4. h = WithRam(j, r)
  BY <1>1 DEF RamRows
<1>5. Frame(j, h, {"ram"}) /\ h.ram = r /\ h.ok = j.ok
  BY <1>3, <1>4, RamWritten DEF WithRam
<1>6. h.market = j.market
  BY <1>5 DEF Frame, TableFields
<1>7. Frame(t, h, {"market"} \cup {"ram"})
  BY <1>2, <1>5, FrameChain
<1> QED
  BY <1>2, <1>5, <1>6, <1>7

\* What the parts of a purchase and a sale leave alone.
LEMMA PayRamFeeFrame ==
    ASSUME NEW t, IsTables(t), NEW payer, NEW fee
    PROVE  Frame(t, PayRamFee(t, payer, fee), {"ledger"})
<1>1. PICK j : j = transfer(t, payer, ramfee_account, fee)
  OBVIOUS
<1>2. Frame(t, j, {"ledger"}) /\ IsTables(j)
  BY <1>1, TransferFrame DEF Frame
<1>3. Frame(j, transfer(j, ramfee_account, rex_account, fee), {"ledger"})
  BY <1>2, TransferFrame
<1>4. \/ PayRamFee(t, payer, fee) = transfer(j, ramfee_account, rex_account, fee)
      \/ PayRamFee(t, payer, fee) = j
  BY <1>1 DEF PayRamFee, channel_to_rex
<1> QED
  BY <1>2, <1>3, <1>4 DEF Frame

\* RAM that an account owns changes its resources alone,
LEMMA OwnRamFrame ==
    ASSUME NEW t, IsTables(t), NEW a, NEW bytes
    PROVE  Frame(t, OwnRam(t, a, bytes), {"userres"})
<1>1. PICK v : v = Put(t.userres, a, MoreOwned(Resources(t, a), bytes))
  OBVIOUS
<1>2. OwnRam(t, a, bytes) = [t EXCEPT !.userres = v]
  BY <1>1 DEF OwnRam, MoreOwned
<1>4. Frame(t, [t EXCEPT !.userres = v], {"userres"})
  BY UserresSet
<1> QED
  BY <1>2, <1>4

\* and its limit changes the limits alone.
LEMMA set_ram_limitFrame ==
    ASSUME NEW t, IsTables(t), NEW a
    PROVE  Frame(t, set_ram_limit(t, a), {"limits"})
<1>1. PICK l : l = [t.limits EXCEPT ![a].ram = Resources(t, a).ram + ram_gift_bytes]
  OBVIOUS
<1>2. set_ram_limit(t, a) = t \/ set_ram_limit(t, a) = [t EXCEPT !.limits = l]
  BY <1>1 DEF set_ram_limit
<1>4. Frame(t, [t EXCEPT !.limits = l], {"limits"})
  BY LimitsSet
<1> QED
  BY <1>2, <1>4 DEF Frame, IsTables

\* Whoever buys RAM pays for it, and the fee.
LEMMA buyramMoved ==
    ASSUME NEW t, StakesOK(t), RamOK(t), NEW payer \in Users, NEW receiver \in Users,
           NEW quant \in Int, NEW h, h = buyram(t, payer, receiver, quant), h.ok
    PROVE  \E row : RamMoved(t, h, receiver, row)
<1>1. PICK u : u = update_ram_supply(t)
  OBVIOUS
<1>2. PICK fee : fee = RamFee(quant)
  OBVIOUS
<1>3. PICK rest : rest = quant - fee
  OBVIOUS
<1>4. PICK bytes : bytes = BytesFor(u.market, rest)
  OBVIOUS
<1>5. PICK j : j = transfer(u, payer, ram_account, rest)
  OBVIOUS
<1>6. PICK k : k = PayRamFee(j, payer, fee)
  OBVIOUS
<1>7. PICK m : m = BytesBought(k.market, rest)
  OBVIOUS
<1>8. PICK r : r = Reserved(k.ram, bytes, rest)
  OBVIOUS
<1>9. PICK o : o = [k EXCEPT !.market = m]
  OBVIOUS
<1>90. PICK l : l = [o EXCEPT !.ram = r]
  OBVIOUS
<1>91. PICK w : w = OwnRam(l, receiver, bytes)
  OBVIOUS
<1>10. PICK n : n = set_ram_limit(w, receiver)
  OBVIOUS
<1> DEFINE p == bytes > 0
<1>11. /\ IsTables(t) /\ t.now \in Nat /\ Funded(t.ledger) /\ OwnRows(t.userres)
       /\ MarketOK(t.market, t.ram) /\ t.ram.last_ram_increase <= t.now
       /\ t.ram.reserved = SumOf(RamOf(t.userres)) /\ t.ram.stake = BalanceOf(t.ledger, ram_account)
  BY DEF StakesOK, StakeTables, RamOK
<1>12. fee \in Int /\ rest \in Int
  BY <1>2, <1>3, SMT DEF RamFee
<1>13. ~(quant <= 0 \/ rest <= 0) /\ h = Check(n, p)
  <2>1. CASE quant <= 0 \/ rest <= 0
    <3>1. h = Check(t, FALSE)
      BY <1>2, <1>3, <2>1 DEF buyram
    <3>2. ~Check(t, FALSE).ok
      BY <1>11, CheckFrame
    <3> QED
      BY <3>1, <3>2
  <2>2. CASE ~(quant <= 0 \/ rest <= 0)
    <3>1. l = [k EXCEPT !.market = BytesBought(k.market, rest),
                        !.ram.reserved = k.ram.reserved + bytes, !.ram.stake = k.ram.stake + rest]
      BY <1>7, <1>8, <1>9, <1>90 DEF Reserved
    <3>2. h = Check(n, bytes > 0)
      BY <1>1, <1>2, <1>3, <1>4, <1>5, <1>6, <1>91, <1>10, <2>2, <3>1 DEF buyram
    <3> QED
      BY <2>2, <3>2
  <2> QED
    BY <2>1, <2>2
<1>14. rest \in Nat \ {0}
  BY <1>12, <1>13
<1>15. p \in BOOLEAN
  OBVIOUS
<1> HIDE DEF p
<1>16. /\ Frame(t, u, {"market", "ram"}) /\ MarketOK(u.market, u.ram)
       /\ u.ram.reserved = t.ram.reserved /\ u.ram.stake = t.ram.stake
       /\ u.ram.last_ram_increase <= t.now
  BY <1>1, <1>11, update_ram_supplyEffect
<1>17. IsTables(u) /\ u.ledger = t.ledger
  BY <1>16 DEF Frame, TableFields
<1>18. Frame(u, j, {"ledger"}) /\ IsTables(j)
  BY <1>5, <1>17, TransferFrame DEF Frame
<1>19. Frame(j, k, {"ledger"}) /\ IsTables(k)
  BY <1>6, <1>18, PayRamFeeFrame DEF Frame
<1>20. Frame(k, l, {"market", "ram"}) /\ l.market = m /\ l.ram = r /\ IsTables(l)
  <2>1. IsTables(k)
    BY <1>19
  <2>2. l = RamRows(k, m, r)
    BY <1>9, <1>90 DEF RamRows, WithMarket, WithRam
  <2>3. Frame(k, l, {"market", "ram"}) /\ l.market = m /\ l.ram = r
    BY <2>1, <2>2, RamRowsWritten
  <2> QED
    BY <2>3 DEF Frame
<1>21. Frame(l, w, {"userres"}) /\ IsTables(w)
  BY <1>91, <1>20, OwnRamFrame DEF Frame
<1>22. Frame(w, n, {"limits"}) /\ IsTables(n)
  BY <1>10, <1>21, set_ram_limitFrame DEF Frame
<1>23. Frame(n, h, {}) /\ p
  BY <1>13, <1>15, <1>22, CheckFrame
<1>24. j.ok /\ k.ok
  BY <1>19, <1>20, <1>21, <1>22, <1>23 DEF Frame
<1>25. RamPaid(t.ledger, j.ledger, rest)
  <2>1. payer # stake_account /\ ram_account # stake_account
    BY ResourcesAssumption, StakingAssumption
  <2>2. RamPaid(u.ledger, j.ledger, IF ram_account = ram_account THEN rest
                                    ELSE IF payer = ram_account THEN -rest ELSE 0)
    BY <1>5, <1>11, <1>12, <1>17, <1>24, <2>1, TransferRam
  <2> QED
    BY <1>17, <2>2
<1>26. RamPaid(t.ledger, k.ledger, rest)
  <2>1. RamPaid(j.ledger, k.ledger, 0)
    BY <1>6, <1>12, <1>18, <1>24, <1>25, PayRamFeeEffect DEF RamPaid
  <2>2. RamPaid(t.ledger, k.ledger, rest + 0)
    BY <1>11, <1>12, <1>25, <2>1, RamPaidChain
  <2> QED
    BY <1>12, <2>2
<1>27. /\ k.market = u.market /\ k.ram = u.ram
       /\ l.ledger = k.ledger /\ l.userres = t.userres /\ l.limits = t.limits /\ l.voters = t.voters
  BY <1>16, <1>18, <1>19, <1>20 DEF Frame, TableFields
<1>28. /\ h.ledger = l.ledger /\ h.market = m /\ h.ram = r /\ h.userres = n.userres /\ h.limits = n.limits
       /\ h.now = t.now
  BY <1>16, <1>18, <1>19, <1>20, <1>21, <1>22, <1>23 DEF Frame, TableFields
<1>29. u.market \in Market /\ u.ram \in RamRow /\ bytes \in Nat
  <2>1. u.market \in Market /\ u.ram \in RamRow
    BY <1>16 DEF MarketOK
  <2>2. u.market.base \in Nat /\ u.market.quote \in Nat
    BY <2>1 DEF Market
  <2>3. bytes \in Nat
    BY <1>4, <1>14, <2>2, MarketTrade DEF BytesFor, get_bancor_output
  <2> QED
    BY <2>1, <2>3
<1>30. PICK row : row = MoreOwned(OwnedBy(t.userres, receiver), bytes)
  OBVIOUS
<1>31. OwnedBy(t.userres, receiver) \in OwnRow /\ row.ram >= 0
  <2>1. OwnedBy(t.userres, receiver) \in OwnRow
    BY <1>11, RamColumn
  <2>2. row.ram = OwnedBy(t.userres, receiver).ram + bytes
    BY <1>30, <2>1 DEF MoreOwned, OwnRow
  <2>3. OwnedBy(t.userres, receiver).ram \in Nat
    BY <2>1 DEF OwnRow
  <2> QED
    BY <1>29, <2>1, <2>2, <2>3
<1>32. /\ row \in OwnRow /\ row.weights = OwnedBy(t.userres, receiver).weights
       /\ row.ram = OwnedBy(t.userres, receiver).ram + bytes
       /\ Regranted(t.userres, n.userres, receiver, row)
       /\ n.limits = RamLimited(l, receiver, row.ram)
  <2>1. OwnRows(l.userres) /\ row = MoreOwned(OwnedBy(l.userres, receiver), bytes) /\ bytes \in Int
    BY <1>11, <1>27, <1>29, <1>30
  <2>2. n = set_ram_limit(OwnRam(l, receiver, bytes), receiver)
    BY <1>91, <1>10
  <2>3. /\ row \in OwnRow /\ row.weights = OwnedBy(l.userres, receiver).weights
        /\ row.ram = OwnedBy(l.userres, receiver).ram + bytes
        /\ Regranted(l.userres, n.userres, receiver, row)
        /\ n.limits = RamLimited(l, receiver, row.ram)
    BY <1>20, <1>31, <2>1, <2>2, OwnRamEffect
  <2> QED
    BY <1>27, <2>3
<1>33. n.limits = RamLimited(t, receiver, row.ram)
  BY <1>27, <1>32 DEF RamLimited, Managed
<1>34. MarketOK(m, r) /\ r.reserved = t.ram.reserved + bytes /\ r.stake = t.ram.stake + rest
       /\ r.last_ram_increase <= t.now
  <2>1. u.ram.reserved \in Nat /\ u.ram.stake \in Nat
    BY <1>29 DEF RamRow
  <2>2. /\ r \in RamRow /\ r.max_ram_size = u.ram.max_ram_size /\ r.reserved = u.ram.reserved + bytes
        /\ r.stake = u.ram.stake + rest /\ r.last_ram_increase = u.ram.last_ram_increase
    <3>1. u.ram.reserved + bytes >= 0 /\ u.ram.stake + rest >= 0 /\ bytes \in Int /\ rest \in Int
      BY <1>14, <1>29, <2>1
    <3>2. r = Reserved(u.ram, bytes, rest)
      BY <1>8, <1>27
    <3> QED
      BY <1>29, <3>1, <3>2, ReservedRow
  <2>3. MarketOK(m, r)
    BY <1>4, <1>7, <1>14, <1>16, <1>27, <2>2, MarketBuy
  <2> QED
    BY <1>16, <2>2, <2>3
<1>35. RamOK(h)
  <2>1. h.ram.reserved = SumOf(RamOf(h.userres))
    <3>1. SumOf(RamOf(n.userres)) = SumOf(RamOf(t.userres)) - OwnedBy(t.userres, receiver).ram + row.ram
      BY <1>32 DEF Regranted
    <3>2. SumOf(RamOf(t.userres)) \in Int /\ OwnedBy(t.userres, receiver).ram \in Int
      BY <1>11, <1>31, RamColumn DEF OwnRow
    <3> QED
      BY <1>11, <1>28, <1>29, <1>32, <1>34, <3>1, <3>2
  <2>2. h.ram.stake = BalanceOf(h.ledger, ram_account)
    BY <1>11, <1>26, <1>27, <1>28, <1>34 DEF RamPaid
  <2> QED
    BY <1>28, <1>34, <2>1, <2>2 DEF RamOK
<1>36. Frame(t, h, RamFields)
  BY <1>16, <1>18, <1>19, <1>20, <1>21, <1>22, <1>23 DEF Frame, TableFields, RamFields
<1>37. PaidBeside(t.ledger, h.ledger)
  BY <1>26, <1>27, <1>28 DEF RamPaid, PaidBeside
<1> QED
  BY <1>28, <1>32, <1>33, <1>35, <1>36, <1>37 DEF RamMoved

\* Whoever sells RAM has it, and eosio.ram has what it pays for it.
LEMMA sellramMoved ==
    ASSUME NEW t, StakesOK(t), RamOK(t), NEW account \in Users,
           NEW bytes \in Int, NEW h, h = sellram(t, account, bytes), h.ok
    PROVE  \E row : RamMoved(t, h, account, row)
<1>1. PICK u : u = update_ram_supply(t)
  OBVIOUS
<1>2. PICK tokens : tokens = TokensFor(u.market, bytes)
  OBVIOUS
<1>3. PICK m : m = BytesSold(u.market, bytes)
  OBVIOUS
<1>4. PICK r : r = Reserved(u.ram, -bytes, -tokens)
  OBVIOUS
<1>5. PICK l : l = RamRows(u, m, r)
  OBVIOUS
<1>6. PICK n : n = set_ram_limit(OwnRam(l, account, -bytes), account)
  OBVIOUS
<1>7. PICK fee : fee = RamFee(tokens)
  OBVIOUS
<1>8. PICK j : j = transfer(n, ram_account, account, tokens)
  OBVIOUS
<1>9. PICK k : k = PayRamFee(j, account, fee)
  OBVIOUS
<1> DEFINE p == tokens > 1 /\ r.stake >= 0
<1>11. /\ IsTables(t) /\ t.now \in Nat /\ Funded(t.ledger) /\ OwnRows(t.userres)
       /\ MarketOK(t.market, t.ram) /\ t.ram.last_ram_increase <= t.now
       /\ t.ram.reserved = SumOf(RamOf(t.userres)) /\ t.ram.stake = BalanceOf(t.ledger, ram_account)
  BY DEF StakesOK, StakeTables, RamOK
<1>12. /\ Frame(t, u, {"market", "ram"}) /\ MarketOK(u.market, u.ram)
       /\ u.ram.reserved = t.ram.reserved /\ u.ram.stake = t.ram.stake
       /\ u.ram.last_ram_increase <= t.now
  BY <1>1, <1>11, update_ram_supplyEffect
<1>13. IsTables(u) /\ u.ledger = t.ledger
  BY <1>12 DEF Frame, TableFields
<1>14. u.market \in Market /\ u.ram \in RamRow
  BY <1>12 DEF MarketOK
<1>15. Frame(u, l, {"market", "ram"}) /\ l.market = m /\ l.ram = r /\ IsTables(l)
  <2>1. Frame(u, l, {"market", "ram"}) /\ l.market = m /\ l.ram = r
    BY <1>5, <1>13, RamRowsWritten
  <2> QED
    BY <2>1 DEF Frame
<1>16. OwnedBy(t.userres, account) \in OwnRow /\ OwnedBy(t.userres, account).ram \in Nat
       /\ OwnedBy(t.userres, account).ram <= t.ram.reserved
  BY <1>11, RamColumn DEF OwnRow
<1>17. /\ bytes > 0 /\ bytes <= OwnedBy(t.userres, account).ram
       /\ h = Check(k, p)
  <2>1. Resources(t, account) = OwnedBy(t.userres, account)
    BY ResourcesOwned
  <2>2. CASE bytes <= 0 \/ Resources(t, account).ram < bytes
    <3>1. h = Check(t, FALSE)
      BY <2>2 DEF sellram
    <3>2. ~Check(t, FALSE).ok
      BY <1>11, CheckFrame
    <3> QED
      BY <3>1, <3>2
  <2>3. CASE ~(bytes <= 0 \/ Resources(t, account).ram < bytes)
    <3>1. l = [u EXCEPT !.market = m, !.ram.reserved = u.ram.reserved - bytes, !.ram.stake = u.ram.stake - tokens]
      <4>1. u.ram.reserved - bytes = u.ram.reserved + (-bytes) /\ u.ram.stake - tokens = u.ram.stake + (-tokens)
        <5>1. u.market.base \in Int /\ u.market.quote \in Int /\ u.ram.stake \in Int /\ u.ram.reserved \in Int
          BY <1>14 DEF Market, RamRow
        <5>2. tokens \in Int
          <6>1. PICK b, q : b = u.market.base /\ q = u.market.quote
            OBVIOUS
          <6>2. bytes \in Nat \ {0} /\ b \in Nat /\ q \in Nat /\ tokens = (bytes * q) \div (b + bytes)
            <7>1. u.market.base \in Nat /\ u.market.quote \in Nat
              BY <1>14 DEF Market
            <7> QED
              BY <1>2, <2>3, <6>1, <7>1, <1>16, <2>1 DEF TokensFor, get_bancor_output
          <6> QED
            BY <6>2, MarketTrade
        <5> QED
          BY <5>1, <5>2
      <4> QED
        BY <1>4, <1>5, <4>1 DEF RamRows, WithMarket, WithRam, Reserved
    <3>2. l.ram.stake = r.stake
      BY <1>15
    <3>3. h = Check(k, tokens > 1 /\ l.ram.stake >= 0)
      BY <1>1, <1>2, <1>3, <1>6, <1>7, <1>8, <1>9, <2>3, <3>1 DEF sellram
    <3> QED
      BY <1>16, <2>1, <2>3, <3>2, <3>3
  <2> QED
    BY <2>2, <2>3
<1>18. bytes \in Nat \ {0} /\ bytes \in 1..u.ram.reserved
  <2>1. u.ram.reserved \in Nat
    BY <1>14 DEF RamRow
  <2> QED
    BY <1>12, <1>16, <1>17, <2>1
<1>19. tokens \in Nat /\ fee \in Int /\ tokens <= u.ram.stake
  <2>1. tokens \in Nat
    <3>1. PICK b, q : b = u.market.base /\ q = u.market.quote
      OBVIOUS
    <3>2. b \in Nat /\ q \in Nat
      BY <1>14, <3>1 DEF Market
    <3>3. tokens = (bytes * q) \div (b + bytes)
      BY <1>2, <3>1 DEF TokensFor, get_bancor_output
    <3> QED
      BY <1>18, <3>2, <3>3, MarketTrade
  <2>2. tokens <= u.ram.stake
    BY <1>2, <1>12, <1>18, BuyBack
  <2> QED
    BY <1>7, <2>1, <2>2, SMT DEF RamFee
<1>20. p \in BOOLEAN
  OBVIOUS
<1>21. p => tokens > 1
  OBVIOUS
<1> HIDE DEF p
<1>22. PICK row : row = MoreOwned(OwnedBy(t.userres, account), -bytes)
  OBVIOUS
<1>23. row.ram >= 0
  <2>1. row.ram = OwnedBy(t.userres, account).ram + (-bytes)
    BY <1>16, <1>22 DEF MoreOwned, OwnRow
  <2> QED
    BY <1>16, <1>17, <2>1
<1>24. l.ledger = t.ledger /\ l.userres = t.userres /\ l.limits = t.limits /\ l.voters = t.voters /\ l.now = t.now
  BY <1>12, <1>15 DEF Frame, TableFields
<1>25. /\ Frame(l, n, {"userres", "limits"}) /\ n.ok = l.ok
       /\ row \in OwnRow /\ row.weights = OwnedBy(t.userres, account).weights
       /\ row.ram = OwnedBy(t.userres, account).ram + (-bytes)
       /\ Regranted(t.userres, n.userres, account, row)
       /\ n.limits = RamLimited(l, account, row.ram)
  <2>1. OwnRows(l.userres) /\ row = MoreOwned(OwnedBy(l.userres, account), -bytes) /\ -bytes \in Int
    BY <1>11, <1>22, <1>24
  <2>3. /\ Frame(l, n, {"userres", "limits"}) /\ n.ok = l.ok
        /\ row \in OwnRow /\ row.weights = OwnedBy(l.userres, account).weights
        /\ row.ram = OwnedBy(l.userres, account).ram + (-bytes)
        /\ Regranted(l.userres, n.userres, account, row)
        /\ n.limits = RamLimited(l, account, row.ram)
    BY <1>6, <1>15, <1>23, <2>1, OwnRamEffect
  <2> QED
    BY <1>24, <2>3
<1>26. IsTables(n) /\ n.ledger = t.ledger
  BY <1>24, <1>25 DEF Frame, TableFields
<1>27. Frame(n, j, {"ledger"}) /\ IsTables(j)
  BY <1>8, <1>26, TransferFrame DEF Frame
<1>28. Frame(j, k, {"ledger"}) /\ IsTables(k)
  BY <1>9, <1>27, PayRamFeeFrame DEF Frame
<1>29. Frame(k, h, {}) /\ p
  BY <1>17, <1>20, <1>28, CheckFrame
<1>30. j.ok /\ k.ok
  BY <1>28, <1>29 DEF Frame
<1>31. account # stake_account /\ account # ram_account /\ ram_account # stake_account
  BY ResourcesAssumption, StakingAssumption
<1>32. RamPaid(t.ledger, j.ledger, -tokens)
  <2>1. tokens \in Int /\ Funded(n.ledger)
    BY <1>11, <1>19, <1>26
  <2>2. RamPaid(n.ledger, j.ledger, IF account = ram_account THEN tokens
                                    ELSE IF ram_account = ram_account THEN -tokens ELSE 0)
    BY <1>8, <1>26, <1>30, <1>31, <2>1, TransferRam
  <2> QED
    BY <1>26, <1>31, <2>2
<1>33. RamPaid(t.ledger, k.ledger, -tokens)
  <2>1. RamPaid(j.ledger, k.ledger, 0)
    BY <1>9, <1>19, <1>27, <1>30, <1>32, PayRamFeeEffect DEF RamPaid
  <2>2. -tokens \in Int
    BY <1>19
  <2>3. RamPaid(t.ledger, k.ledger, (-tokens) + 0)
    BY <1>11, <1>32, <2>1, <2>2, RamPaidChain
  <2>4. (-tokens) + 0 = -tokens
    BY <2>2
  <2> QED
    BY <2>3, <2>4
<1>34. n.limits = RamLimited(t, account, row.ram)
  BY <1>24, <1>25 DEF RamLimited, Managed
<1>35. /\ h.ledger = k.ledger /\ h.market = m /\ h.ram = r /\ h.userres = n.userres /\ h.limits = n.limits
       /\ h.now = t.now
  <2>1. n.market = m /\ n.ram = r /\ n.now = t.now
    BY <1>15, <1>24, <1>25 DEF Frame, TableFields
  <2>2. /\ j.userres = n.userres /\ j.limits = n.limits /\ j.market = m /\ j.ram = r /\ j.now = t.now
    BY <1>27, <2>1 DEF Frame, TableFields
  <2>3. /\ k.userres = n.userres /\ k.limits = n.limits /\ k.market = m /\ k.ram = r /\ k.now = t.now
    BY <1>28, <2>2 DEF Frame, TableFields
  <2> QED
    BY <1>29, <2>3 DEF Frame, TableFields
<1>36. MarketOK(m, r) /\ r.reserved = t.ram.reserved - bytes /\ r.stake = t.ram.stake - tokens
       /\ r.last_ram_increase <= t.now
  <2>1. u.ram.reserved \in Nat /\ u.ram.stake \in Nat
    BY <1>14 DEF RamRow
  <2>2. u.ram.reserved + (-bytes) >= 0 /\ u.ram.stake + (-tokens) >= 0 /\ -bytes \in Int /\ -tokens \in Int
    BY <1>18, <1>19, <2>1
  <2>3. /\ r \in RamRow /\ r.max_ram_size = u.ram.max_ram_size /\ r.reserved = u.ram.reserved + (-bytes)
        /\ r.stake = u.ram.stake + (-tokens) /\ r.last_ram_increase = u.ram.last_ram_increase
    BY <1>4, <1>14, <2>2, ReservedRow
  <2>4. r.reserved = u.ram.reserved - bytes /\ r.stake = u.ram.stake - tokens
    BY <1>18, <1>19, <2>1, <2>3
  <2>5. r.stake = u.ram.stake - TokensFor(u.market, bytes)
    BY <1>2, <2>4
  <2>6. MarketOK(m, r)
    BY <1>3, <1>12, <1>18, <2>3, <2>4, <2>5, MarketSell
  <2> QED
    BY <1>12, <2>3, <2>4, <2>6
<1>37. RamOK(h)
  <2>1. h.ram.reserved = SumOf(RamOf(h.userres))
    <3>1. SumOf(RamOf(n.userres)) = SumOf(RamOf(t.userres)) - OwnedBy(t.userres, account).ram + row.ram
      BY <1>25 DEF Regranted
    <3>2. SumOf(RamOf(t.userres)) \in Int
      BY <1>11, RamColumn
    <3> QED
      BY <1>11, <1>16, <1>18, <1>25, <1>35, <1>36, <3>1, <3>2
  <2>2. h.ram.stake = BalanceOf(h.ledger, ram_account)
    <3>1. BalanceOf(t.ledger, ram_account) \in Int
      BY <1>11, BalanceInt DEF Funded
    <3> QED
      BY <1>11, <1>19, <1>33, <1>35, <1>36, <3>1 DEF RamPaid
  <2> QED
    BY <1>35, <1>36, <2>1, <2>2 DEF RamOK
<1>38. Frame(t, h, RamFields)
  <2>1. Frame(t, n, RamFields)
    BY <1>12, <1>15, <1>25 DEF Frame, TableFields, RamFields
  <2> QED
    BY <1>27, <1>28, <1>29, <2>1 DEF Frame, RamFields
<1>39. PaidBeside(t.ledger, h.ledger)
  BY <1>33, <1>35 DEF RamPaid, PaidBeside
<1> QED
  BY <1>25, <1>34, <1>35, <1>37, <1>38, <1>39 DEF RamMoved

-----------------------------------------------------------------------------
(* Refunds and limits                                                      *)

\* A refund is not due before its time, nor its deferred transaction.
RefundsOK(t, u) ==
    /\ \A a \in Users : u[a] \in Int /\ u[a] <= t.now
    /\ \A a \in DOMAIN t.deferred : t.deferred[a] \in Nat /\ t.deferred[a] <= t.now + refund_delay
    /\ \A a \in DOMAIN t.refunds : /\ t.refunds[a].request_time <= t.now
                                   /\ u[a] <= t.refunds[a].request_time + 1
                                   /\ a \in DOMAIN t.deferred =>
                                        t.refunds[a].request_time + refund_delay <= t.deferred[a]

LimitRow == [ram : Int, net : Int, cpu : Int]

\* The limits of an account are those of its row, but for those that are managed.
LimitOK(l, row, managed, s, f, a) ==
    /\ managed \subseteq Kinds \cup {"ram"}
    /\ \A kind \in managed : <<a, kind>> \in DOMAIN f /\ l[kind] = f[<<a, kind>>]
    /\ a \notin s => /\ \A kind \in Kinds \ managed : l[kind] = row.weights[kind]
                     /\ "ram" \notin managed => \/ l.ram = row.ram + ram_gift_bytes
                                                \/ row.ram = 0 /\ l.ram = 0
LimitsOK(t, s, f) ==
    /\ t.limits \in [Users -> LimitRow]
    /\ \A a \in Users : LimitOK(t.limits[a], OwnedBy(t.userres, a), ManagedBy(t.voters, a), s, f, a)

\* All that is in the tables but votes, given the histories.
Books(t, u, s, f) == StakesOK(t) /\ RamOK(t) /\ RefundsOK(t, u) /\ LimitsOK(t, s, f)

\* What none of the tables involved in has changed is as it was.
LEMMA RamKept ==
    ASSUME NEW t, StakesOK(t), RamOK(t), NEW h, h.market = t.market, h.ram = t.ram,
           h.now \in Nat, t.now <= h.now,
           SumOf(RamOf(h.userres)) = SumOf(RamOf(t.userres)),
           BalanceOf(h.ledger, ram_account) = BalanceOf(t.ledger, ram_account)
    PROVE  RamOK(h)
<1>1. t.now \in Nat /\ t.ram.last_ram_increase \in Nat
  BY DEF StakesOK, StakeTables, RamOK, MarketOK, RamRow
<1> QED
  BY <1>1 DEF RamOK

\* Refunds, when nothing about them has changed,
LEMMA RefundsKept ==
    ASSUME NEW t, NEW u, RefundsOK(t, u), NEW h, h.refunds = t.refunds, h.deferred = t.deferred, h.now = t.now
    PROVE  RefundsOK(h, u)
BY DEF RefundsOK

\* and limits.
LEMMA LimitsKept ==
    ASSUME NEW t, NEW s, NEW f, LimitsOK(t, s, f), NEW h, h.limits = t.limits,
           \A b \in Users : /\ OwnedBy(h.userres, b) = OwnedBy(t.userres, b)
                            /\ ManagedBy(h.voters, b) = ManagedBy(t.voters, b)
    PROVE  LimitsOK(h, s, f)
BY DEF LimitsOK

\* The limits of one account are written, or what they follow from.
LEMMA LimitsAt ==
    ASSUME NEW t, NEW s, NEW f, LimitsOK(t, s, f), NEW a \in Users, NEW l \in LimitRow, NEW h, NEW r, NEW g,
           h.limits = [t.limits EXCEPT ![a] = l],
           \A b \in Users \ {a} : /\ OwnedBy(h.userres, b) = OwnedBy(t.userres, b)
                                  /\ ManagedBy(h.voters, b) = ManagedBy(t.voters, b)
                                  /\ b \in r <=> b \in s
                                  /\ \A kind : <<b, kind>> \in DOMAIN f =>
                                       <<b, kind>> \in DOMAIN g /\ g[<<b, kind>>] = f[<<b, kind>>],
           LimitOK(l, OwnedBy(h.userres, a), ManagedBy(h.voters, a), r, g, a)
    PROVE  LimitsOK(h, r, g)
<1>1. t.limits \in [Users -> LimitRow]
  BY DEF LimitsOK
<1>2. h.limits \in [Users -> LimitRow] /\ h.limits[a] = l /\ \A b \in Users \ {a} : h.limits[b] = t.limits[b]
  BY <1>1
<1>3. ASSUME NEW b \in Users \ {a}
      PROVE  LimitOK(h.limits[b], OwnedBy(h.userres, b), ManagedBy(h.voters, b), r, g, b)
  <2>1. LimitOK(t.limits[b], OwnedBy(t.userres, b), ManagedBy(t.voters, b), s, f, b)
    BY DEF LimitsOK
  <2>2. LimitOK(h.limits[b], OwnedBy(h.userres, b), ManagedBy(h.voters, b), s, f, b)
    BY <1>2, <2>1
  <2>3. /\ b \in r <=> b \in s
        /\ \A kind : <<b, kind>> \in DOMAIN f => <<b, kind>> \in DOMAIN g /\ g[<<b, kind>>] = f[<<b, kind>>]
    OBVIOUS
  <2> QED
    BY <2>2, <2>3 DEF LimitOK
<1> QED
  BY <1>2, <1>3 DEF LimitsOK

-----------------------------------------------------------------------------
(* RAM is bought and sold                                                  *)

\* The books are right after RAM was bought or sold:
LEMMA RamMovedBooks ==
    ASSUME NEW t, NEW u, NEW s, NEW f, Books(t, u, s, f), NEW a \in Users, NEW row, NEW h,
           RamMoved(t, h, a, row)
    PROVE  Books(h, u, s, f) /\ h.now = t.now /\ h.refunds = t.refunds
<1>1. /\ StakeTables(t) /\ RefundsOK(t, u) /\ LimitsOK(t, s, f) /\ StakesOK(t)
  BY DEF Books, StakesOK
<1>2. /\ IsTables(h) /\ h.now = t.now /\ h.delband = t.delband /\ h.refunds = t.refunds
      /\ h.deferred = t.deferred /\ h.voters = t.voters
  BY DEF RamMoved, Frame, RamFields, TableFields
<1>3. /\ row \in OwnRow /\ row.weights = OwnedBy(t.userres, a).weights
      /\ OwnRows(h.userres) /\ OwnedBy(h.userres, a) = row
      /\ \A b : b # a => OwnedBy(h.userres, b) = OwnedBy(t.userres, b)
  BY DEF RamMoved, Regranted
<1>4. Funded(h.ledger) /\ BalanceOf(h.ledger, stake_account) = BalanceOf(t.ledger, stake_account)
  BY DEF RamMoved, PaidBeside
<1>5. \A b : OwnedBy(h.userres, b).weights = OwnedBy(t.userres, b).weights
  BY <1>3
<1>6. StakesOK(h)
  <2>1. StakeTables(h)
    BY <1>1, <1>2, <1>3, <1>4 DEF StakeTables
  <2> QED
    BY <1>1, <1>2, <1>4, <1>5, <2>1 DEF StakesOK
<1>7. RefundsOK(h, u)
  BY <1>1, <1>2, RefundsKept
<1>8. LimitsOK(h, s, f)
  <2>1. PICK l : l = t.limits[a]
    OBVIOUS
  <2>2. /\ l \in LimitRow /\ t.limits \in [Users -> LimitRow]
        /\ LimitOK(l, OwnedBy(t.userres, a), ManagedBy(t.voters, a), s, f, a)
    BY <1>1, <2>1 DEF LimitsOK
  <2>3. PICK m : m = IF "ram" \in ManagedBy(t.voters, a) THEN l ELSE [l EXCEPT !.ram = row.ram + ram_gift_bytes]
    OBVIOUS
  <2>4. row.ram \in Nat /\ ram_gift_bytes \in Nat
    BY <1>3, StakingAssumption DEF OwnRow
  <2>5. m \in LimitRow
    BY <2>2, <2>3, <2>4 DEF LimitRow
  <2>6. h.limits = [t.limits EXCEPT ![a] = m]
    <3>1. h.limits = RamLimited(t, a, row.ram) /\ Managed(t, a) = ManagedBy(t.voters, a)
      BY DEF RamMoved, Managed, ManagedBy
    <3>2. CASE "ram" \in ManagedBy(t.voters, a)
      BY <2>1, <2>2, <2>3, <3>1, <3>2 DEF RamLimited
    <3>3. CASE "ram" \notin ManagedBy(t.voters, a)
      <4>1. h.limits = [t.limits EXCEPT ![a].ram = row.ram + ram_gift_bytes]
        BY <3>1, <3>3 DEF RamLimited
      <4> QED
        BY <2>1, <2>2, <2>3, <3>3, <4>1
    <3> QED
      BY <3>2, <3>3
  <2>7. LimitOK(m, row, ManagedBy(t.voters, a), s, f, a)
    <3>1. CASE "ram" \in ManagedBy(t.voters, a)
      BY <1>3, <2>2, <2>3, <3>1 DEF LimitOK
    <3>2. CASE "ram" \notin ManagedBy(t.voters, a)
      <4>1. m.ram = row.ram + ram_gift_bytes /\ \A kind \in Kinds : m[kind] = l[kind]
        BY <2>2, <2>3, <3>2 DEF LimitRow, Kinds
      <4>2. \A kind \in ManagedBy(t.voters, a) : kind \in Kinds
        BY <2>2, <3>2 DEF LimitOK
      <4> QED
        BY <1>3, <2>2, <3>2, <4>1, <4>2 DEF LimitOK
    <3> QED
      BY <3>1, <3>2
  <2>8. LimitOK(m, OwnedBy(h.userres, a), ManagedBy(h.voters, a), s, f, a)
    BY <1>2, <1>3, <2>7
  <2>9. \A b \in Users \ {a} : /\ OwnedBy(h.userres, b) = OwnedBy(t.userres, b)
                               /\ ManagedBy(h.voters, b) = ManagedBy(t.voters, b)
    BY <1>2, <1>3
  <2> QED
    BY <1>1, <2>5, <2>6, <2>8, <2>9, LimitsAt
<1> QED
  BY <1>2, <1>6, <1>7, <1>8 DEF Books, RamMoved

\* By calls of the contract.
LEMMA buyramBooks ==
    ASSUME NEW t, NEW u, NEW s, NEW f, Books(t, u, s, f), NEW payer \in Users, NEW receiver \in Users,
           NEW q \in Int, NEW h, h = buyram(t, payer, receiver, q), h.ok
    PROVE  Books(h, u, s, f) /\ h.now = t.now /\ h.refunds = t.refunds
<1>1. \E row : RamMoved(t, h, receiver, row)
  BY buyramMoved DEF Books
<1> QED
  BY <1>1, RamMovedBooks

\* buyrambytes pays a price above 0,
LEMMA buyrambytesBooks ==
    ASSUME NEW t, NEW u, NEW s, NEW f, Books(t, u, s, f), NEW payer \in Users, NEW receiver \in Users,
           NEW bytes \in Int, bytes < t.market.base, NEW h, h = buyrambytes(t, payer, receiver, bytes), h.ok
    PROVE  Books(h, u, s, f) /\ h.now = t.now /\ h.refunds = t.refunds
<1>1. PICK b, q, d : b = t.market.base /\ q = t.market.quote /\ d = b - bytes
  OBVIOUS
<1>2. b \in Nat /\ q \in Nat /\ d \in Nat \ {0}
  <2>1. b \in Nat /\ q \in Nat
    BY <1>1 DEF Books, RamOK, MarketOK, Market
  <2> QED
    BY <1>1, <2>1
<1>3. PICK cost : cost = (q * bytes) \div d
  OBVIOUS
<1>4. cost \in Int
  <2>1. q * bytes \in Int
    BY <1>2, SMT
  <2> QED
    BY <1>2, <1>3, <2>1, SMT
<1>5. PICK quant : quant = (cost * 1000) \div 995
  OBVIOUS
<1>6. quant \in Int
  BY <1>4, <1>5, SMT
<1>7. h = buyram(t, payer, receiver, quant)
  BY <1>1, <1>3, <1>5 DEF buyrambytes, get_bancor_input
<1> QED
  BY <1>6, <1>7, buyramBooks

\* and sellram finds what it pays.
LEMMA sellramBooks ==
    ASSUME NEW t, NEW u, NEW s, NEW f, Books(t, u, s, f), NEW account \in Users,
           NEW bytes \in Int, NEW h, h = sellram(t, account, bytes), h.ok
    PROVE  Books(h, u, s, f) /\ h.now = t.now /\ h.refunds = t.refunds
<1>1. \E row : RamMoved(t, h, account, row)
  BY sellramMoved DEF Books
<1> QED
  BY <1>1, RamMovedBooks

-----------------------------------------------------------------------------
(* Stakes change                                                           *)

\* The row of a refund, and its deferred transaction, after a change of a stake
\* in which its owner may have unstaked something.
LEMMA RestakesRefunds ==
    ASSUME NEW t, NEW u, StakesOK(t), RefundsOK(t, u), NEW from \in Users,
           NEW delta \in Changes, NEW touched \in BOOLEAN, NEW h, NEW v,
           h.now = t.now,
           Reawaited(t.refunds, h.refunds, from, Left(t, from, delta, touched)),
           h.deferred = Resent(t, from, delta, touched),
           \A b \in Users \ {from} : v[b] = u[b],
           \/ v[from] = u[from] /\ delta.net >= 0 /\ delta.cpu >= 0
           \/ v[from] = t.now /\ touched /\ (delta.net < 0 \/ delta.cpu < 0)
    PROVE  RefundsOK(h, v)
<1>1. PICK l : l = Left(t, from, delta, touched)
  OBVIOUS
<1>2. PICK r : r = RefundOf(t.refunds, from)
  OBVIOUS
<1>3. RefundRows(t.refunds) /\ t.now \in Nat /\ refund_delay \in Nat
  BY StakingAssumption DEF StakesOK, StakeTables
<1>4. r \in RefundRow /\ l \in RefundRow /\ delta.net \in Int /\ delta.cpu \in Int
  BY <1>1, <1>2, <1>3, RefundColumn, RefundLeft DEF Changes
<1>5. /\ l.request_time = IF touched /\ (delta.net < 0 \/ delta.cpu < 0) THEN Seconds(t.now) ELSE r.request_time
      /\ l.weights = IF touched THEN Remaining(r.weights, delta) ELSE r.weights
  BY <1>1, <1>2 DEF Left, request_time
<1>6. Seconds(t.now) \in Int /\ Seconds(t.now) <= t.now /\ t.now <= Seconds(t.now) + 1
  BY <1>3, SMT DEF Seconds
<1>7. ASSUME l.weights # NoWeights, ~(touched /\ (delta.net < 0 \/ delta.cpu < 0))
      PROVE  from \in DOMAIN t.refunds
  <2>1. SUFFICES ASSUME from \notin DOMAIN t.refunds PROVE FALSE
    OBVIOUS
  <2>2. r.weights = NoWeights
    BY <1>2, <2>1, NoWeightsZero DEF RefundOf, NoRefund
  <2>3. CASE ~touched
    BY <1>5, <1>7, <2>2, <2>3
  <2>4. CASE touched
    <3>1. delta.net >= 0 /\ delta.cpu >= 0
      BY <1>4, <1>7, <2>4
    <3>2. Minus(NoWeights, delta).net = 0 - delta.net /\ Minus(NoWeights, delta).cpu = 0 - delta.cpu
      <4>1. NoWeights \in Changes /\ NoWeights.net = 0 /\ NoWeights.cpu = 0
        BY NoWeightsZero
      <4>2. /\ Minus(NoWeights, delta).net = NoWeights.net - delta.net
            /\ Minus(NoWeights, delta).cpu = NoWeights.cpu - delta.cpu
        BY DEF Minus, Weights
      <4> QED
        BY <4>1, <4>2
    <3>3. Max({0 - delta.net, 0}) = 0 /\ Max({0 - delta.cpu, 0}) = 0
      <4>1. 0 - delta.net \in Int /\ 0 - delta.cpu \in Int /\ 0 \in Int /\ 0 - delta.net <= 0 /\ 0 - delta.cpu <= 0
        BY <1>4, <3>1
      <4> QED
        BY <4>1, MaxOfTwo
    <3>4. Remaining(NoWeights, delta) = NoWeights
      BY <3>2, <3>3 DEF Remaining, Positive, NoWeights
    <3> QED
      BY <1>5, <1>7, <2>2, <2>4, <3>4
  <2> QED
    BY <2>3, <2>4
<1>8. ASSUME NEW b \in Users PROVE v[b] \in Int /\ v[b] <= h.now
  BY <1>3 DEF RefundsOK
<1>9. ASSUME NEW b \in DOMAIN h.deferred PROVE h.deferred[b] \in Nat /\ h.deferred[b] <= h.now + refund_delay
  <2>1. \/ h.deferred = Put(t.deferred, from, t.now + refund_delay)
        \/ h.deferred = Erase(t.deferred, from)
    BY DEF Resent
  <2>2. t.now + refund_delay \in Nat
    BY <1>3
  <2> QED
    BY <2>1, <2>2 DEF Put, Erase, RefundsOK
<1>10. ASSUME NEW b \in DOMAIN h.refunds, b # from
       PROVE  /\ h.refunds[b].request_time <= h.now
              /\ v[b] <= h.refunds[b].request_time + 1
              /\ b \in DOMAIN h.deferred => h.refunds[b].request_time + refund_delay <= h.deferred[b]
  <2>1. b \in DOMAIN t.refunds /\ h.refunds[b] = t.refunds[b]
    BY <1>10 DEF Reawaited
  <2>2. b \in Users \ {from}
    BY <1>3, <1>10, <2>1 DEF RefundRows
  <2>3. b \in DOMAIN h.deferred => b \in DOMAIN t.deferred /\ h.deferred[b] = t.deferred[b]
    BY <1>10 DEF Resent, Put, Erase
  <2> QED
    BY <2>1, <2>2, <2>3 DEF RefundsOK
<1>11. ASSUME from \in DOMAIN h.refunds
       PROVE  /\ h.refunds[from].request_time <= h.now
              /\ v[from] <= h.refunds[from].request_time + 1
              /\ from \in DOMAIN h.deferred => h.refunds[from].request_time + refund_delay <= h.deferred[from]
  <2>1. h.refunds[from] = l /\ l.weights # NoWeights
    BY <1>1, <1>11 DEF Reawaited
  <2>2. l.request_time <= t.now /\ v[from] <= l.request_time + 1
    <3>1. CASE touched /\ (delta.net < 0 \/ delta.cpu < 0)
      <4>1. v[from] = t.now \/ (v[from] = u[from] /\ u[from] <= t.now)
        BY DEF RefundsOK
      <4>2. u[from] \in Int
        BY DEF RefundsOK
      <4> QED
        BY <1>3, <1>5, <1>6, <3>1, <4>1, <4>2
    <3>2. CASE ~(touched /\ (delta.net < 0 \/ delta.cpu < 0))
      <4>1. from \in DOMAIN t.refunds
        BY <1>7, <2>1, <3>2
      <4>2. l.request_time = t.refunds[from].request_time
        BY <1>2, <1>5, <3>2, <4>1 DEF RefundOf
      <4>3. v[from] = u[from]
        BY <3>2
      <4> QED
        BY <4>1, <4>2, <4>3 DEF RefundsOK
    <3> QED
      BY <3>1, <3>2
  <2>3. from \in DOMAIN h.deferred => h.deferred[from] = t.now + refund_delay
    BY DEF Resent, Put, Erase
  <2>4. l.request_time \in Int
    BY <1>4 DEF RefundRow
  <2> QED
    BY <1>3, <2>1, <2>2, <2>3, <2>4
<1> QED
  BY <1>8, <1>9, <1>10, <1>11 DEF RefundsOK

\* The row that a change of a stake leaves, and the limits that follow from it.
LEMMA RestakesLimits ==
    ASSUME NEW t, NEW s, NEW f, LimitsOK(t, s, f), OwnRows(t.userres), NEW a \in Users, NEW row \in OwnRow,
           NEW h, row.ram = OwnedBy(t.userres, a).ram,
           Regranted(t.userres, h.userres, a, row),
           h.limits = [t.limits EXCEPT ![a] = Limits(t, a, row)],
           \A b : ManagedBy(h.voters, b) = ManagedBy(t.voters, b)
    PROVE  LimitsOK(h, s, f)
<1>1. PICK l, m, x : l = t.limits[a] /\ m = ManagedBy(t.voters, a) /\ x = Limits(t, a, row)
  OBVIOUS
<1>2. l \in LimitRow /\ LimitOK(l, OwnedBy(t.userres, a), m, s, f, a)
  BY <1>1 DEF LimitsOK
<1>3. Managed(t, a) = m
  BY <1>1 DEF Managed, ManagedBy
<1>4. row.ram \in Nat /\ row.weights.net \in Int /\ row.weights.cpu \in Int /\ ram_gift_bytes \in Nat
  BY StakingAssumption DEF OwnRow, WeightRows
<1>5. l.ram \in Int /\ l.net \in Int /\ l.cpu \in Int
  BY <1>2 DEF LimitRow
<1>6. PICK y : y = Max({row.ram + ram_gift_bytes, l.ram})
  OBVIOUS
<1>7. /\ y \in Int
      /\ l.ram <= row.ram + ram_gift_bytes => y = row.ram + ram_gift_bytes
  BY <1>4, <1>5, <1>6, MaxOfTwo
<1>8. CASE Kinds \subseteq m
  <2>1. x = l
    BY <1>1, <1>3, <1>8 DEF Limits
  <2>2. LimitOK(x, row, m, s, f, a)
    BY <1>2, <1>8, <2>1 DEF LimitOK
  <2>3. OwnedBy(h.userres, a) = row /\ \A b : b # a => OwnedBy(h.userres, b) = OwnedBy(t.userres, b)
    BY DEF Regranted
  <2>4. LimitOK(x, OwnedBy(h.userres, a), ManagedBy(h.voters, a), s, f, a)
    BY <1>1, <2>2, <2>3
  <2>5. x \in LimitRow /\ h.limits = [t.limits EXCEPT ![a] = x]
    BY <1>1, <1>2, <2>1
  <2>6. \A b \in Users \ {a} : /\ OwnedBy(h.userres, b) = OwnedBy(t.userres, b)
                               /\ ManagedBy(h.voters, b) = ManagedBy(t.voters, b)
    BY <2>3
  <2> QED
    BY <2>4, <2>5, <2>6, LimitsAt
<1>9. CASE ~(Kinds \subseteq m)
  <2>1. x = [ram |-> IF "ram" \in m THEN l.ram ELSE y,
             net |-> IF "net" \in m THEN l.net ELSE row.weights.net,
             cpu |-> IF "cpu" \in m THEN l.cpu ELSE row.weights.cpu]
    BY <1>1, <1>3, <1>6, <1>9 DEF Limits
  <2>2. x \in LimitRow
    BY <1>4, <1>5, <1>7, <2>1 DEF LimitRow
  <2>3. a \notin s /\ "ram" \notin m => y = row.ram + ram_gift_bytes
    <3>1. SUFFICES ASSUME a \notin s, "ram" \notin m PROVE l.ram <= row.ram + ram_gift_bytes
      BY <1>7
    <3>2. l.ram = row.ram + ram_gift_bytes \/ (row.ram = 0 /\ l.ram = 0)
      BY <1>2, <3>1 DEF LimitOK
    <3> QED
      BY <1>4, <3>2
  <2>4. /\ x.ram = IF "ram" \in m THEN l.ram ELSE y
        /\ x.net = IF "net" \in m THEN l.net ELSE row.weights.net
        /\ x.cpu = IF "cpu" \in m THEN l.cpu ELSE row.weights.cpu
    BY <2>1
  <2>5. LimitOK(x, row, m, s, f, a)
    <3>1. m \subseteq Kinds \cup {"ram"}
      BY <1>2 DEF LimitOK
    <3>2. ASSUME NEW kind \in m PROVE <<a, kind>> \in DOMAIN f /\ x[kind] = f[<<a, kind>>]
      <4>1. <<a, kind>> \in DOMAIN f /\ l[kind] = f[<<a, kind>>]
        BY <1>2 DEF LimitOK
      <4>2. kind = "net" \/ kind = "cpu" \/ kind = "ram"
        BY <3>1 DEF Kinds
      <4>3. x[kind] = l[kind]
        BY <2>4, <4>2
      <4> QED
        BY <4>1, <4>3
    <3>3. ASSUME NEW kind \in Kinds \ m PROVE x[kind] = row.weights[kind]
      BY <2>4 DEF Kinds
    <3>4. a \notin s /\ "ram" \notin m => x.ram = row.ram + ram_gift_bytes
      BY <2>3, <2>4
    <3> QED
      BY <3>1, <3>2, <3>3, <3>4 DEF LimitOK
  <2>6. OwnedBy(h.userres, a) = row /\ \A b : b # a => OwnedBy(h.userres, b) = OwnedBy(t.userres, b)
    BY DEF Regranted
  <2>7. LimitOK(x, OwnedBy(h.userres, a), ManagedBy(h.voters, a), s, f, a)
    BY <1>1, <2>5, <2>6
  <2>8. h.limits = [t.limits EXCEPT ![a] = x]
    BY <1>1
  <2>9. \A b \in Users \ {a} : /\ OwnedBy(h.userres, b) = OwnedBy(t.userres, b)
                               /\ ManagedBy(h.voters, b) = ManagedBy(t.voters, b)
    BY <2>6
  <2> QED
    BY <2>2, <2>7, <2>8, <2>9, LimitsAt
<1> QED
  BY <1>8, <1>9

\* What is accounted for stays so when a stake changes, and eosio.stake never has less.
LEMMA RestakesBooks ==
    ASSUME NEW t, NEW u, NEW s, NEW f, Books(t, u, s, f),
           NEW source \in Users, NEW from \in Users, NEW receiver \in Users,
           NEW delta \in Changes, NEW touched \in BOOLEAN, touched \/ Sum2(delta) >= 0,
           NEW row, row = Received(OwnedBy(t.userres, receiver), delta),
           NEW p, Restakes(t, p, source, from, receiver, delta, touched, row),
           NEW h, h = update_voting_power(p, from, Sum2(delta)), h.ok, NEW v,
           \A b \in Users \ {from} : v[b] = u[b],
           \/ v[from] = u[from] /\ delta.net >= 0 /\ delta.cpu >= 0
           \/ v[from] = t.now /\ touched /\ (delta.net < 0 \/ delta.cpu < 0)
    PROVE  /\ Books(h, v, s, f) /\ h.now = t.now
           /\ BalanceOf(h.ledger, stake_account) >= BalanceOf(t.ledger, stake_account)
<1>1. /\ StakesOK(t) /\ RamOK(t) /\ RefundsOK(t, u) /\ LimitsOK(t, s, f)
      /\ OwnRows(t.userres) /\ RefundRows(t.refunds) /\ Funded(t.ledger) /\ t.now \in Nat
  BY DEF Books, StakesOK, StakeTables
<1>2. /\ StakesOK(h) /\ p.ok
      /\ Frame(p, h, Polled)
      /\ \A b : ManagedBy(h.voters, b) = ManagedBy(t.voters, b)
  BY <1>1, RestakesOK
<1>3. Frame(t, p, StakeFields)
  BY DEF Restakes
<1>4. /\ Restaked(t.delband, p.delband, from, receiver, Sum2(delta))
      /\ row \in OwnRow /\ Regranted(t.userres, p.userres, receiver, row)
      /\ p.limits = [t.limits EXCEPT ![receiver] = Limits(t, receiver, row)]
      /\ Reawaited(t.refunds, p.refunds, from, Left(t, from, delta, touched))
      /\ p.deferred = Resent(t, from, delta, touched)
      /\ PaidIn(t.ledger, p.ledger, Sum2(Owing(t, from, delta, touched)))
  BY <1>2 DEF Restakes
<1>5. /\ h.now = t.now /\ h.market = t.market /\ h.ram = t.ram
      /\ h.userres = p.userres /\ h.limits = p.limits /\ h.refunds = p.refunds
      /\ h.deferred = p.deferred /\ h.ledger = p.ledger
  BY <1>2, <1>3 DEF Frame, TableFields, StakeFields, Polled
<1>6. RefundsOK(h, v)
  <2>1. /\ Reawaited(t.refunds, h.refunds, from, Left(t, from, delta, touched))
        /\ h.deferred = Resent(t, from, delta, touched)
    BY <1>4, <1>5
  <2> QED
    BY <1>1, <1>5, <2>1, RestakesRefunds
<1>7. OwnedBy(t.userres, receiver) \in OwnRow
  BY <1>1, RamColumn
<1>8. row.ram = OwnedBy(t.userres, receiver).ram
  BY <1>7 DEF Received, OwnRow
<1>9. LimitsOK(h, s, f)
  <2>1. /\ Regranted(t.userres, h.userres, receiver, row)
        /\ h.limits = [t.limits EXCEPT ![receiver] = Limits(t, receiver, row)]
    BY <1>4, <1>5
  <2> QED
    BY <1>1, <1>2, <1>4, <1>8, <2>1, RestakesLimits
<1>10. RamOK(h)
  <2>1. SumOf(RamOf(h.userres)) = SumOf(RamOf(t.userres))
    <3>1. SumOf(RamOf(h.userres)) = SumOf(RamOf(t.userres)) - OwnedBy(t.userres, receiver).ram + row.ram
      BY <1>4, <1>5 DEF Regranted
    <3>2. SumOf(RamOf(t.userres)) \in Int /\ row.ram \in Int
      BY <1>1, <1>4, RamColumn DEF OwnRow
    <3> QED
      BY <1>8, <3>1, <3>2
  <2>2. BalanceOf(h.ledger, ram_account) = BalanceOf(t.ledger, ram_account)
    BY <1>4, <1>5 DEF PaidIn
  <2>3. h.now \in Nat /\ t.now <= h.now
    BY <1>1, <1>5
  <2> QED
    BY <1>1, <1>5, <2>1, <2>2, <2>3, RamKept
<1>11. BalanceOf(h.ledger, stake_account) >= BalanceOf(t.ledger, stake_account)
  <2>1. PICK o : o = Sum2(Owing(t, from, delta, touched))
    OBVIOUS
  <2>2. o \in Int /\ o >= 0
    <3>1. Owing(t, from, delta, touched) \in Changes /\ (touched => o >= 0)
      BY <1>1, <2>1, RefundLeft
    <3>2. o \in Int
      BY <2>1, <3>1, WeightsAdd
    <3>3. ~touched => o = Sum2(delta)
      BY <2>1 DEF Owing
    <3> QED
      BY <3>1, <3>2, <3>3
  <2>3. BalanceOf(h.ledger, stake_account) = BalanceOf(t.ledger, stake_account) + o
    BY <1>4, <1>5, <2>1 DEF PaidIn
  <2>4. BalanceOf(t.ledger, stake_account) \in Int
    BY <1>1, BalanceInt DEF Funded
  <2> QED
    BY <2>2, <2>3, <2>4
<1> QED
  BY <1>2, <1>5, <1>6, <1>9, <1>10, <1>11 DEF Books

\* A check of weights has passed.
LEMMA CheckPassed ==
    ASSUME NEW t, NEW F, NEW h, Frame(t, h, F), NEW p \in BOOLEAN, NEW k, k = Check(h, p), k.ok
    PROVE  p /\ h.ok /\ k = h
<1>1. IsTables(h)
  BY DEF Frame
<1>2. p /\ h.ok /\ Frame(h, k, {})
  BY <1>1, CheckFrame
<1>3. k = h
  BY <1>1, <1>2 DEF IsTables, Check, TableFields
<1> QED
  BY <1>2, <1>3

\* A change of a stake, and what is checked of it.
LEMMA changebwBooks ==
    ASSUME NEW t, NEW u, NEW s, NEW f, Books(t, u, s, f),
           NEW source \in Users, NEW receiver \in Users, NEW delta \in Changes, NEW give \in BOOLEAN,
           NEW from, from = (IF give THEN receiver ELSE source),
           NEW x \in BOOLEAN, NEW k, k = Check(changebw(t, source, receiver, delta, give), x), k.ok, NEW v,
           x => /\ \A b \in Users \ {from} : v[b] = u[b]
                /\ \/ v[from] = u[from] /\ delta.net >= 0 /\ delta.cpu >= 0
                   \/ v[from] = t.now /\ Sum2(delta) < 0 /\ (delta.net < 0 \/ delta.cpu < 0)
    PROVE  /\ Books(k, v, s, f) /\ k.now = t.now
           /\ BalanceOf(k.ledger, stake_account) >= BalanceOf(t.ledger, stake_account)
<1>1. PICK touched : touched = Touched(from, receiver, delta, give)
  OBVIOUS
<1>2. PICK row : row = Received(OwnedBy(t.userres, receiver), delta)
  OBVIOUS
<1>3. StakeTables(t) /\ VoterTable(t.voters)
  BY DEF Books, StakesOK, StakeTables
<1>4. PICK p : /\ changebw(t, source, receiver, delta, give) = update_voting_power(p, from, Sum2(delta))
               /\ Restakes(t, p, source, from, receiver, delta, touched, row)
  BY <1>1, <1>2, <1>3, changebwSteps
<1>5. PICK h : h = update_voting_power(p, from, Sum2(delta))
  OBVIOUS
<1>6. from \in Users /\ Sum2(delta) \in Int
  BY WeightsAdd
<1>7. touched \in BOOLEAN /\ (Sum2(delta) < 0 => touched) /\ (touched \/ Sum2(delta) >= 0)
  <2>1. touched \in BOOLEAN
    BY <1>1 DEF Touched
  <2>2. Sum2(delta) < 0 => touched
    BY <1>1 DEF Touched
  <2>3. Sum2(delta) < 0 \/ Sum2(delta) >= 0
    BY <1>6
  <2> QED
    BY <2>1, <2>2, <2>3
<1>8. Frame(p, h, Polled)
  <2>1. IsTables(p) /\ p.voters = t.voters
    BY <1>4 DEF Restakes, Frame, TableFields, StakeFields
  <2> QED
    BY <1>3, <1>5, <1>6, <2>1, update_voting_powerEffect
<1>9. x /\ h.ok /\ k = h
  BY <1>4, <1>5, <1>8, CheckPassed
<1>10. /\ \A b \in Users \ {from} : v[b] = u[b]
       /\ \/ v[from] = u[from] /\ delta.net >= 0 /\ delta.cpu >= 0
          \/ v[from] = t.now /\ touched /\ (delta.net < 0 \/ delta.cpu < 0)
  BY <1>7, <1>9
<1>11. /\ Books(h, v, s, f) /\ h.now = t.now
       /\ BalanceOf(h.ledger, stake_account) >= BalanceOf(t.ledger, stake_account)
  BY <1>2, <1>4, <1>5, <1>6, <1>7, <1>9, <1>10, RestakesBooks
<1> QED
  BY <1>9, <1>11

\* A stake is given.
LEMMA delegatebwBooks ==
    ASSUME NEW t, NEW u, NEW s, NEW f, Books(t, u, s, f),
           NEW source \in Users, NEW receiver \in Users, NEW delta \in Changes, NEW give \in BOOLEAN,
           NEW k, k = delegatebw(t, source, receiver, delta, give), k.ok
    PROVE  /\ Books(k, u, s, f) /\ k.now = t.now
           /\ BalanceOf(k.ledger, stake_account) >= BalanceOf(t.ledger, stake_account)
<1>1. PICK from : from = IF give THEN receiver ELSE source
  OBVIOUS
<1> DEFINE x == NonNegative(delta) /\ Sum2(delta) > 0 /\ (give => source # receiver)
<1>2. k = Check(changebw(t, source, receiver, delta, give), x)
  BY DEF delegatebw
<1>3. x \in BOOLEAN
  OBVIOUS
<1>4. x => delta.net >= 0 /\ delta.cpu >= 0
  BY DEF NonNegative
<1> HIDE DEF x
<1> QED
  BY <1>1, <1>2, <1>3, <1>4, changebwBooks

\* A stake is taken back.
LEMMA undelegatebwBooks ==
    ASSUME NEW t, NEW u, NEW s, NEW f, Books(t, u, s, f),
           NEW source \in Users, NEW receiver \in Users, NEW delta \in Changes,
           NEW k, k = undelegatebw(t, source, receiver, delta), k.ok,
           NEW v, v[source] = t.now, \A b \in Users \ {source} : v[b] = u[b]
    PROVE  /\ Books(k, v, s, f) /\ k.now = t.now
           /\ BalanceOf(k.ledger, stake_account) >= BalanceOf(t.ledger, stake_account)
<1>1. PICK d : d = Minus(NoWeights, delta)
  OBVIOUS
<1>2. NoWeights \in Changes /\ NoWeights.net = 0 /\ NoWeights.cpu = 0 /\ Sum2(NoWeights) = 0
  BY NoWeightsZero
<1>3. d \in Changes /\ Sum2(d) = Sum2(NoWeights) - Sum2(delta) /\ Sum2(delta) \in Int
  BY <1>1, <1>2, WeightsAdd
<1> DEFINE x == NonNegative(delta) /\ Sum2(delta) > 0 /\ network_activated
<1>0. PICK give \in BOOLEAN : give = FALSE
  OBVIOUS
<1>4. k = Check(changebw(t, source, receiver, d, give), x)
  BY <1>0, <1>1 DEF undelegatebw
<1>5. x \in BOOLEAN
  BY StakingAssumption
<1>6. x => Sum2(d) < 0 /\ (d.net < 0 \/ d.cpu < 0)
  <2>1. x => Sum2(d) < 0
    BY <1>2, <1>3
  <2>2. Sum2(d) = d.net + d.cpu /\ d.net \in Int /\ d.cpu \in Int
    BY <1>3 DEF Sum2, Changes
  <2> QED
    BY <2>1, <2>2
<1>8. source = (IF give THEN receiver ELSE source)
  BY <1>0
<1> HIDE DEF x
<1>9. x => /\ \A b \in Users \ {source} : v[b] = u[b]
           /\ \/ v[source] = u[source] /\ d.net >= 0 /\ d.cpu >= 0
              \/ v[source] = t.now /\ Sum2(d) < 0 /\ (d.net < 0 \/ d.cpu < 0)
  BY <1>6
<1> QED
  BY <1>3, <1>4, <1>5, <1>8, <1>9, changebwBooks

\* A refund is paid, no sooner than three days after its owner has last unstaked.
LEMMA refundBooks ==
    ASSUME NEW t, NEW u, NEW s, NEW f, Books(t, u, s, f), NEW owner \in Users,
           NEW h, h = refund(t, owner), h.ok
    PROVE  /\ Books(h, u, s, f) /\ h.now = t.now
           /\ DOMAIN t.refunds \ {owner} = DOMAIN h.refunds \ {owner}
           /\ t.now + 1 >= u[owner] + refund_delay
<1>1. /\ StakesOK(t) /\ RamOK(t) /\ RefundsOK(t, u) /\ LimitsOK(t, s, f)
      /\ StakeTables(t) /\ RefundRows(t.refunds) /\ t.now \in Nat /\ refund_delay \in Nat
  BY StakingAssumption DEF Books, StakesOK, StakeTables
<1>2. /\ Frame(t, h, {"ledger", "refunds"})
      /\ owner \in DOMAIN t.refunds
      /\ t.refunds[owner].request_time + refund_delay <= t.now
      /\ Reawaited(t.refunds, h.refunds, owner, NoRefund)
      /\ PaidIn(t.ledger, h.ledger, -Sum2(t.refunds[owner].weights))
  BY <1>1, refundEffect
<1>3. /\ h.now = t.now /\ h.market = t.market /\ h.ram = t.ram /\ h.userres = t.userres
      /\ h.limits = t.limits /\ h.deferred = t.deferred /\ h.voters = t.voters
  BY <1>2 DEF Frame, TableFields
<1>4. StakesOK(h)
  BY <1>1, refundStakes
<1>5. RamOK(h)
  <2>1. BalanceOf(h.ledger, ram_account) = BalanceOf(t.ledger, ram_account)
    BY <1>2 DEF PaidIn
  <2>2. SumOf(RamOf(h.userres)) = SumOf(RamOf(t.userres)) /\ h.now \in Nat /\ t.now <= h.now
    BY <1>1, <1>3
  <2> QED
    BY <1>1, <1>3, <2>1, <2>2, RamKept
<1>6. LimitsOK(h, s, f)
  BY <1>1, <1>3, LimitsKept
<1>7. RefundsOK(h, u)
  <2>1. DOMAIN h.refunds \subseteq DOMAIN t.refunds \ {owner}
        /\ \A b \in DOMAIN h.refunds : h.refunds[b] = t.refunds[b]
    BY <1>2 DEF Reawaited, NoRefund
  <2> QED
    BY <1>1, <1>3, <2>1 DEF RefundsOK
<1>8. t.now + 1 >= u[owner] + refund_delay
  <2>1. u[owner] \in Int /\ u[owner] <= t.refunds[owner].request_time + 1
    BY <1>1, <1>2 DEF RefundsOK
  <2>2. t.refunds[owner].request_time \in Int
    BY <1>1, <1>2 DEF RefundRows, RefundRow
  <2> QED
    BY <1>1, <1>2, <2>1, <2>2
<1> QED
  BY <1>2, <1>3, <1>4, <1>5, <1>6, <1>7, <1>8 DEF Books, Reawaited

-----------------------------------------------------------------------------
(* The administration sets a limit                                         *)

WithVoters(t, w) == [t EXCEPT !.voters = w]
WithLimits(t, l) == [t EXCEPT !.limits = l]
Managing(t, w, l) == WithLimits(WithVoters(t, w), l)

\* The rows of voters, which say what is managed, are written with the limits.
LEMMA ManagingFrame ==
    ASSUME NEW t, IsTables(t), NEW w, NEW l, NEW h, h = Managing(t, w, l)
    PROVE  Frame(t, h, {"voters", "limits"}) /\ h.voters = w /\ h.limits = l
<1>1. PICK j : j = WithVoters(t, w)
  OBVIOUS
<1>2. Frame(t, j, {"voters"}) /\ j.voters = w /\ IsTables(j)
  BY <1>1, SMT DEF IsTables, TableFields, Frame, WithVoters
<1>3. h = WithLimits(j, l)
  BY <1>1 DEF Managing
<1>4. Frame(j, h, {"limits"}) /\ h.limits = l
  BY <1>2, <1>3, SMT DEF IsTables, TableFields, Frame, WithLimits
<1>5. h.voters = j.voters
  BY <1>4 DEF Frame, TableFields
<1>6. Frame(t, h, {"voters"} \cup {"limits"})
  BY <1>2, <1>4, FrameChain
<1> QED
  BY <1>2, <1>4, <1>5, <1>6

\* One account's limits change; the histories of the others are the same.
OneLimit(t, h, a, l) == h.limits = [t.limits EXCEPT ![a] = l]
SameHistory(a, s, r, f, g) ==
    \A b \in Users \ {a} :
      /\ b \in r <=> b \in s
      /\ \A kind : <<b, kind>> \in DOMAIN f => <<b, kind>> \in DOMAIN g /\ g[<<b, kind>>] = f[<<b, kind>>]

\* An account's limits and what is managed of them are written; votes stay.
LEMMA ManagedBooks ==
    ASSUME NEW t, NEW u, NEW s, NEW f, Books(t, u, s, f), NEW a \in Users, NEW l \in LimitRow, NEW h, NEW r, NEW g,
           Frame(t, h, {"voters", "limits"}), VoterTable(h.voters),
           \A b : StakedBy(h.voters, b) = StakedBy(t.voters, b),
           \A b : b # a => ManagedBy(h.voters, b) = ManagedBy(t.voters, b),
           OneLimit(t, h, a, l), SameHistory(a, s, r, f, g),
           LimitOK(l, OwnedBy(t.userres, a), ManagedBy(h.voters, a), r, g, a)
    PROVE  Books(h, u, r, g) /\ h.now = t.now /\ h.refunds = t.refunds
<1>1. /\ StakesOK(t) /\ RamOK(t) /\ RefundsOK(t, u) /\ LimitsOK(t, s, f) /\ StakeTables(t)
  BY DEF Books, StakesOK
<1>2. /\ IsTables(h) /\ h.now = t.now /\ h.ledger = t.ledger /\ h.delband = t.delband
      /\ h.refunds = t.refunds /\ h.userres = t.userres /\ h.deferred = t.deferred
      /\ h.market = t.market /\ h.ram = t.ram
  BY DEF Frame, TableFields
<1>3. StakesOK(h)
  <2>1. StakesKept(t, h)
    BY <1>1, <1>2, NothingPaid DEF StakesKept, StakeTables
  <2> QED
    BY <1>1, <2>1, StakesKeptOK
<1>4. RamOK(h)
  BY <1>1, <1>2 DEF RamOK
<1>5. RefundsOK(h, u)
  BY <1>1, <1>2, RefundsKept
<1>6. LimitsOK(h, r, g)
  <2>1. \A b \in Users \ {a} : /\ OwnedBy(h.userres, b) = OwnedBy(t.userres, b)
                               /\ ManagedBy(h.voters, b) = ManagedBy(t.voters, b)
                               /\ b \in r <=> b \in s
                               /\ \A kind : <<b, kind>> \in DOMAIN f =>
                                    <<b, kind>> \in DOMAIN g /\ g[<<b, kind>>] = f[<<b, kind>>]
    BY <1>2 DEF SameHistory
  <2>2. LimitOK(l, OwnedBy(h.userres, a), ManagedBy(h.voters, a), r, g, a)
    BY <1>2
  <2>3. h.limits = [t.limits EXCEPT ![a] = l]
    BY DEF OneLimit
  <2> QED
    BY <1>1, <2>1, <2>2, <2>3, LimitsAt
<1> QED
  BY <1>2, <1>3, <1>4, <1>5, <1>6 DEF Books

\* All limits at once, of an account none of whose limits is managed.
LEMMA setalimitsBooks ==
    ASSUME NEW t, NEW u, NEW s, NEW f, Books(t, u, s, f), NEW a \in Users, NEW l \in LimitRow,
           NEW h, h = setalimits(t, a, l), h.ok
    PROVE  Books(h, u, s \cup {a}, f) /\ h.now = t.now /\ h.refunds = t.refunds
<1>1. IsTables(t) /\ VoterTable(t.voters) /\ LimitsOK(t, s, f)
  BY DEF Books, StakesOK, StakeTables
<1>2. PICK w : w = [t.limits EXCEPT ![a] = l]
  OBVIOUS
<1>3. PICK j : j = WithLimits(t, w)
  OBVIOUS
<1> DEFINE x == a \notin DOMAIN t.userres /\ Managed(t, a) = {}
<1>4. h = Check(j, x)
  BY <1>2, <1>3 DEF setalimits, WithLimits
<1>5. x \in BOOLEAN /\ (x => ManagedBy(t.voters, a) = {})
  BY DEF Managed, ManagedBy
<1> HIDE DEF x
<1>6. Frame(t, j, {"limits"}) /\ j.limits = w
  BY <1>1, <1>3, SMT DEF IsTables, TableFields, Frame, WithLimits
<1>7. h = j /\ ManagedBy(t.voters, a) = {}
  BY <1>4, <1>5, <1>6, CheckPassed
<1>8. h.voters = t.voters /\ Frame(t, h, {"voters", "limits"}) /\ h.limits = [t.limits EXCEPT ![a] = l]
  BY <1>2, <1>6, <1>7 DEF Frame, TableFields
<1>9. LimitOK(l, OwnedBy(t.userres, a), ManagedBy(h.voters, a), s \cup {a}, f, a)
  BY <1>7, <1>8 DEF LimitOK
<1>10. /\ VoterTable(h.voters)
       /\ \A b : StakedBy(h.voters, b) = StakedBy(t.voters, b)
       /\ \A b : b # a => ManagedBy(h.voters, b) = ManagedBy(t.voters, b)
       /\ SameHistory(a, s, s \cup {a}, f, f) /\ OneLimit(t, h, a, l)
  BY <1>1, <1>8 DEF SameHistory, OneLimit
<1>11. PICK r : r = s \cup {a}
  OBVIOUS
<1>12. Books(h, u, r, f) /\ h.now = t.now /\ h.refunds = t.refunds
  BY <1>8, <1>9, <1>10, <1>11, ManagedBooks
<1> QED
  BY <1>11, <1>12

\* One limit, with a value, from when it is managed,
LEMMA ManageBooks ==
    ASSUME NEW t, NEW u, NEW s, NEW f, Books(t, u, s, f), NEW a \in Users, NEW kind \in Kinds \cup {"ram"},
           NEW value \in Int, NEW h, h = Manage(t, a, kind, value), h.ok, NEW g, g = Put(f, <<a, kind>>, value)
    PROVE  Books(h, u, s, g) /\ h.now = t.now /\ h.refunds = t.refunds
<1>1. IsTables(t) /\ VoterTable(t.voters) /\ LimitsOK(t, s, f)
  BY DEF Books, StakesOK, StakeTables
<1>2. PICK v : v = IF a \in DOMAIN t.voters THEN t.voters[a] ELSE NewVoter
  OBVIOUS
<1>3. /\ IsVoter(v) /\ v.staked = StakedBy(t.voters, a) /\ v.managed = ManagedBy(t.voters, a)
  BY <1>1, <1>2, NewVoterRow DEF VoterTable, StakedBy, ManagedBy
<1>4. PICK row : row = [v EXCEPT !.managed = v.managed \cup {kind}]
  OBVIOUS
<1>5. IsVoter(row) /\ row.staked = v.staked /\ row.managed = v.managed \cup {kind}
  BY <1>3, <1>4 DEF IsVoter, VoterFields
<1>6. PICK w : w = Put(t.voters, a, row)
  OBVIOUS
<1>7. PICK l : l = [t.limits[a] EXCEPT ![kind] = value]
  OBVIOUS
<1>8. PICK m : m = [t.limits EXCEPT ![a] = l]
  OBVIOUS
<1>9. PICK j : j = Managing(t, w, m)
  OBVIOUS
<1> DEFINE x == value >= IF kind = "ram" THEN 0 ELSE -1
<1>10. h = Check(j, x)
  <2>1. h = Check([t EXCEPT !.voters = Put(t.voters, a, row), !.limits[a][kind] = value], x)
    BY <1>2, <1>4 DEF Manage
  <2>2. [t EXCEPT !.voters = Put(t.voters, a, row), !.limits[a][kind] = value] = j
    BY <1>6, <1>7, <1>8, <1>9 DEF Managing, WithVoters, WithLimits
  <2> QED
    BY <2>1, <2>2
<1>11. x \in BOOLEAN
  OBVIOUS
<1> HIDE DEF x
<1>12. Frame(t, j, {"voters", "limits"}) /\ j.voters = w /\ j.limits = m
  BY <1>1, <1>9, ManagingFrame
<1>13. h = j
  BY <1>10, <1>11, <1>12, CheckPassed
<1>14. /\ VoterTable(w) /\ DOMAIN w = DOMAIN t.voters \cup {a} /\ w[a] = row
       /\ \A b \in DOMAIN t.voters \ {a} : w[b] = t.voters[b]
  <2>1. /\ DOMAIN w = DOMAIN t.voters \cup {a} /\ w = [b \in DOMAIN w |-> w[b]] /\ w[a] = row
        /\ \A b \in DOMAIN t.voters \ {a} : w[b] = t.voters[b]
    BY <1>6 DEF Put
  <2> QED
    BY <1>1, <1>5, <2>1 DEF VoterTable
<1>15. /\ \A b : StakedBy(w, b) = StakedBy(t.voters, b)
       /\ \A b : b # a => ManagedBy(w, b) = ManagedBy(t.voters, b)
       /\ ManagedBy(w, a) = ManagedBy(t.voters, a) \cup {kind}
  <2>1. StakedBy(w, a) = StakedBy(t.voters, a) /\ ManagedBy(w, a) = ManagedBy(t.voters, a) \cup {kind}
    BY <1>3, <1>5, <1>14 DEF StakedBy, ManagedBy
  <2>2. \A b : b # a => StakedBy(w, b) = StakedBy(t.voters, b) /\ ManagedBy(w, b) = ManagedBy(t.voters, b)
    BY <1>14 DEF StakedBy, ManagedBy
  <2> QED
    BY <2>1, <2>2
<1>16. t.limits[a] \in LimitRow
       /\ LimitOK(t.limits[a], OwnedBy(t.userres, a), ManagedBy(t.voters, a), s, f, a)
  BY <1>1 DEF LimitsOK
<1>17. /\ l \in LimitRow /\ l[kind] = value
       /\ \A k \in (Kinds \cup {"ram"}) \ {kind} : l[k] = t.limits[a][k]
  BY <1>7, <1>16 DEF LimitRow, Kinds
<1>18. /\ <<a, kind>> \in DOMAIN g /\ g[<<a, kind>>] = value
       /\ \A k \in DOMAIN f : k # <<a, kind>> => k \in DOMAIN g /\ g[k] = f[k]
  BY DEF Put
<1>19. LimitOK(l, OwnedBy(t.userres, a), ManagedBy(w, a), s, g, a)
  <2>1. ManagedBy(t.voters, a) \subseteq Kinds \cup {"ram"}
    BY <1>16 DEF LimitOK
  <2>2. ASSUME NEW k \in ManagedBy(w, a) PROVE <<a, k>> \in DOMAIN g /\ l[k] = g[<<a, k>>]
    <3>1. CASE k = kind
      BY <1>17, <1>18, <3>1
    <3>2. CASE k # kind
      <4>1. k \in ManagedBy(t.voters, a) /\ k \in (Kinds \cup {"ram"}) \ {kind}
        BY <1>15, <2>1, <3>2
      <4>2. <<a, k>> \in DOMAIN f /\ t.limits[a][k] = f[<<a, k>>]
        BY <1>16, <4>1 DEF LimitOK
      <4>3. <<a, k>> # <<a, kind>>
        BY <3>2
      <4> QED
        BY <1>17, <1>18, <4>1, <4>2, <4>3
    <3> QED
      BY <3>1, <3>2
  <2>3. ASSUME a \notin s, NEW k \in Kinds \ ManagedBy(w, a)
        PROVE  l[k] = OwnedBy(t.userres, a).weights[k]
    <3>1. k \in Kinds \ ManagedBy(t.voters, a) /\ k # kind
      BY <1>15
    <3>2. t.limits[a][k] = OwnedBy(t.userres, a).weights[k]
      BY <1>16, <2>3, <3>1 DEF LimitOK
    <3> QED
      BY <1>17, <3>1, <3>2
  <2>4. ASSUME a \notin s, "ram" \notin ManagedBy(w, a)
        PROVE  l.ram = OwnedBy(t.userres, a).ram + ram_gift_bytes \/ (OwnedBy(t.userres, a).ram = 0 /\ l.ram = 0)
    <3>1. "ram" \notin ManagedBy(t.voters, a) /\ "ram" # kind
      BY <1>15, <2>4
    <3>2. l.ram = t.limits[a].ram
      BY <1>17, <3>1
    <3> QED
      BY <1>16, <2>4, <3>1, <3>2 DEF LimitOK
  <2>5. ManagedBy(w, a) \subseteq Kinds \cup {"ram"}
    BY <1>15, <2>1
  <2> QED
    BY <2>2, <2>3, <2>4, <2>5 DEF LimitOK
<1>20. ASSUME NEW b \in Users \ {a}
       PROVE  /\ b \in s <=> b \in s
              /\ \A k : <<b, k>> \in DOMAIN f => <<b, k>> \in DOMAIN g /\ g[<<b, k>>] = f[<<b, k>>]
  <2>1. \A k : <<b, k>> # <<a, kind>>
    OBVIOUS
  <2> QED
    BY <1>18, <2>1
<1>21. /\ Frame(t, h, {"voters", "limits"}) /\ VoterTable(h.voters)
       /\ \A b : StakedBy(h.voters, b) = StakedBy(t.voters, b)
       /\ \A b : b # a => ManagedBy(h.voters, b) = ManagedBy(t.voters, b)
       /\ OneLimit(t, h, a, l) /\ SameHistory(a, s, s, f, g)
       /\ LimitOK(l, OwnedBy(t.userres, a), ManagedBy(h.voters, a), s, g, a)
  BY <1>8, <1>12, <1>13, <1>14, <1>15, <1>19, <1>20 DEF OneLimit, SameHistory
<1> QED
  BY <1>17, <1>21, ManagedBooks

\* and without one, when it is what the tables say again.
LEMMA UnmanageBooks ==
    ASSUME NEW t, NEW u, NEW s, NEW f, Books(t, u, s, f), NEW a \in Users, NEW kind \in Kinds \cup {"ram"},
           NEW h, h = Unmanage(t, a, kind), h.ok, NEW g, g = Erase(f, <<a, kind>>)
    PROVE  Books(h, u, s, g) /\ h.now = t.now /\ h.refunds = t.refunds
<1>1. IsTables(t) /\ VoterTable(t.voters) /\ LimitsOK(t, s, f) /\ OwnRows(t.userres)
  BY DEF Books, StakesOK, StakeTables
<1>2. kind \in ManagedBy(t.voters, a) /\ a \in DOMAIN t.voters
  <2>1. CASE kind \in Managed(t, a)
    BY <2>1 DEF Managed, ManagedBy
  <2>2. CASE kind \notin Managed(t, a)
    <3>1. h = Check(t, FALSE)
      BY <2>2 DEF Unmanage
    <3>2. ~Check(t, FALSE).ok
      BY <1>1, CheckFrame
    <3> QED
      BY <3>1, <3>2
  <2> QED
    BY <2>1, <2>2
<1>3. PICK o : o = OwnedBy(t.userres, a)
  OBVIOUS
<1>4. PICK value : value = IF kind = "ram" THEN o.ram + ram_gift_bytes ELSE o.weights[kind]
  OBVIOUS
<1>5. o \in OwnRow /\ value \in Int
  <2>1. o \in OwnRow /\ ram_gift_bytes \in Nat
    BY <1>1, <1>3, RamColumn, StakingAssumption
  <2> QED
    BY <1>4, <2>1 DEF OwnRow, WeightRows, Kinds
<1>6. PICK v : v = t.voters[a]
  OBVIOUS
<1>7. IsVoter(v) /\ v.staked = StakedBy(t.voters, a) /\ v.managed = ManagedBy(t.voters, a)
  BY <1>1, <1>2, <1>6 DEF VoterTable, StakedBy, ManagedBy
<1>8. PICK row : row = [v EXCEPT !.managed = v.managed \ {kind}]
  OBVIOUS
<1>9. IsVoter(row) /\ row.staked = v.staked /\ row.managed = v.managed \ {kind}
  BY <1>7, <1>8 DEF IsVoter, VoterFields
<1>10. PICK w : w = [t.voters EXCEPT ![a] = row]
  OBVIOUS
<1>11. PICK l : l = [t.limits[a] EXCEPT ![kind] = value]
  OBVIOUS
<1>12. PICK m : m = [t.limits EXCEPT ![a] = l]
  OBVIOUS
<1>13. h = Managing(t, w, m)
  <2>1. kind \in Managed(t, a) /\ Resources(t, a) = o
    BY <1>2, <1>3, ResourcesOwned DEF Managed, ManagedBy
  <2>2. h = [t EXCEPT !.voters[a].managed = t.voters[a].managed \ {kind}, !.limits[a][kind] = value]
    BY <1>4, <2>1 DEF Unmanage
  <2> QED
    BY <1>6, <1>8, <1>10, <1>11, <1>12, <2>2 DEF Managing, WithVoters, WithLimits
<1>14. Frame(t, h, {"voters", "limits"}) /\ h.voters = w /\ h.limits = m
  BY <1>1, <1>13, ManagingFrame
<1>15. /\ VoterTable(w) /\ DOMAIN w = DOMAIN t.voters /\ w[a] = row
       /\ \A b \in DOMAIN t.voters \ {a} : w[b] = t.voters[b]
  <2>1. DOMAIN w = DOMAIN t.voters /\ w[a] = row /\ \A b \in DOMAIN t.voters \ {a} : w[b] = t.voters[b]
    BY <1>2, <1>10
  <2>2. w = [b \in DOMAIN w |-> w[b]]
    BY <1>10
  <2> QED
    BY <1>1, <1>9, <2>1, <2>2 DEF VoterTable
<1>16. /\ \A b : StakedBy(w, b) = StakedBy(t.voters, b)
       /\ \A b : b # a => ManagedBy(w, b) = ManagedBy(t.voters, b)
       /\ ManagedBy(w, a) = ManagedBy(t.voters, a) \ {kind}
  <2>1. StakedBy(w, a) = StakedBy(t.voters, a) /\ ManagedBy(w, a) = ManagedBy(t.voters, a) \ {kind}
    BY <1>2, <1>7, <1>9, <1>15 DEF StakedBy, ManagedBy
  <2>2. \A b : b # a => StakedBy(w, b) = StakedBy(t.voters, b) /\ ManagedBy(w, b) = ManagedBy(t.voters, b)
    BY <1>15 DEF StakedBy, ManagedBy
  <2> QED
    BY <2>1, <2>2
<1>17. t.limits[a] \in LimitRow
       /\ LimitOK(t.limits[a], o, ManagedBy(t.voters, a), s, f, a)
  BY <1>1, <1>3 DEF LimitsOK
<1>18. /\ l \in LimitRow /\ l[kind] = value
       /\ \A k \in (Kinds \cup {"ram"}) \ {kind} : l[k] = t.limits[a][k]
  BY <1>5, <1>11, <1>17 DEF LimitRow, Kinds
<1>19. \A k \in DOMAIN f : k # <<a, kind>> => k \in DOMAIN g /\ g[k] = f[k]
  BY DEF Erase
<1>20. LimitOK(l, o, ManagedBy(w, a), s, g, a)
  <2>1. ManagedBy(t.voters, a) \subseteq Kinds \cup {"ram"}
    BY <1>17 DEF LimitOK
  <2>2. ASSUME NEW k \in ManagedBy(w, a) PROVE <<a, k>> \in DOMAIN g /\ l[k] = g[<<a, k>>]
    <3>1. k \in ManagedBy(t.voters, a) /\ k # kind /\ k \in (Kinds \cup {"ram"}) \ {kind}
      BY <1>16, <2>1
    <3>2. <<a, k>> \in DOMAIN f /\ t.limits[a][k] = f[<<a, k>>]
      BY <1>17, <3>1 DEF LimitOK
    <3>3. <<a, k>> # <<a, kind>>
      BY <3>1
    <3> QED
      BY <1>18, <1>19, <3>1, <3>2, <3>3
  <2>3. ASSUME a \notin s, NEW k \in Kinds \ ManagedBy(w, a)
        PROVE  l[k] = o.weights[k]
    <3>1. CASE k = kind
      <4>1. k # "ram"
        BY DEF Kinds
      <4> QED
        BY <1>4, <1>18, <3>1, <4>1
    <3>2. CASE k # kind
      <4>1. k \in Kinds \ ManagedBy(t.voters, a)
        BY <1>16, <3>2
      <4>2. t.limits[a][k] = o.weights[k]
        BY <1>17, <2>3, <4>1 DEF LimitOK
      <4> QED
        BY <1>18, <3>2, <4>1, <4>2
    <3> QED
      BY <3>1, <3>2
  <2>4. ASSUME a \notin s, "ram" \notin ManagedBy(w, a)
        PROVE  l.ram = o.ram + ram_gift_bytes \/ (o.ram = 0 /\ l.ram = 0)
    <3>1. CASE kind = "ram"
      BY <1>4, <1>18, <3>1
    <3>2. CASE kind # "ram"
      <4>1. "ram" \notin ManagedBy(t.voters, a)
        BY <1>16, <2>4, <3>2
      <4>2. l.ram = t.limits[a].ram
        BY <1>18, <3>2
      <4> QED
        BY <1>17, <2>4, <4>1, <4>2 DEF LimitOK
    <3> QED
      BY <3>1, <3>2
  <2>5. ManagedBy(w, a) \subseteq Kinds \cup {"ram"}
    BY <1>16, <2>1
  <2> QED
    BY <2>2, <2>3, <2>4, <2>5 DEF LimitOK
<1>21. ASSUME NEW b \in Users \ {a}
       PROVE  /\ b \in s <=> b \in s
              /\ \A k : <<b, k>> \in DOMAIN f => <<b, k>> \in DOMAIN g /\ g[<<b, k>>] = f[<<b, k>>]
  <2>1. \A k : <<b, k>> # <<a, kind>>
    OBVIOUS
  <2> QED
    BY <1>19, <2>1
<1>22. /\ Frame(t, h, {"voters", "limits"}) /\ VoterTable(h.voters)
       /\ \A b : StakedBy(h.voters, b) = StakedBy(t.voters, b)
       /\ \A b : b # a => ManagedBy(h.voters, b) = ManagedBy(t.voters, b)
       /\ OneLimit(t, h, a, l) /\ SameHistory(a, s, s, f, g)
       /\ LimitOK(l, OwnedBy(t.userres, a), ManagedBy(h.voters, a), s, g, a)
  BY <1>3, <1>12, <1>14, <1>15, <1>16, <1>20, <1>21 DEF OneLimit, SameHistory
<1> QED
  BY <1>18, <1>22, ManagedBooks

-----------------------------------------------------------------------------
(* The supply of RAM, votes, the chain and time                            *)

\* The supply of RAM changes, and nothing is bought or sold.
LEMMA SupplyBooks ==
    ASSUME NEW t, NEW u, NEW s, NEW f, Books(t, u, s, f), NEW h,
           Frame(t, h, {"market", "ram"}), MarketOK(h.market, h.ram),
           h.ram.reserved = t.ram.reserved, h.ram.stake = t.ram.stake, h.ram.last_ram_increase <= t.now
    PROVE  Books(h, u, s, f) /\ h.now = t.now /\ h.refunds = t.refunds
<1>1. /\ StakesOK(t) /\ RamOK(t) /\ RefundsOK(t, u) /\ LimitsOK(t, s, f)
  BY DEF Books
<1>2. /\ h.now = t.now /\ h.ledger = t.ledger /\ h.refunds = t.refunds /\ h.deferred = t.deferred
      /\ h.userres = t.userres /\ h.voters = t.voters /\ h.limits = t.limits
  BY DEF Frame, TableFields
<1>3. StakesOK(h)
  BY <1>1, StakesFrame
<1>4. RamOK(h)
  BY <1>1, <1>2 DEF RamOK
<1>5. RefundsOK(h, u)
  BY <1>1, <1>2, RefundsKept
<1>6. LimitsOK(h, s, f)
  BY <1>1, <1>2, LimitsKept
<1> QED
  BY <1>2, <1>3, <1>4, <1>5, <1>6 DEF Books

\* setram: the supply grows and with it what is for sale,
LEMMA setramBooks ==
    ASSUME NEW t, NEW u, NEW s, NEW f, Books(t, u, s, f), NEW size \in Nat, NEW h, h = setram(t, size), h.ok
    PROVE  Books(h, u, s, f) /\ h.now = t.now /\ h.refunds = t.refunds
<1>1. IsTables(t) /\ MarketOK(t.market, t.ram) /\ t.ram.last_ram_increase <= t.now /\ t.ram.max_ram_size \in Nat
  BY DEF Books, StakesOK, StakeTables, RamOK, MarketOK, RamRow
<1>2. PICK bytes : bytes = size - t.ram.max_ram_size
  OBVIOUS
<1>3. PICK j : j = MoreRam(t, bytes)
  OBVIOUS
<1> DEFINE x == t.ram.max_ram_size < size /\ t.ram.reserved < size
<1>4. h = Check(j, x)
  BY <1>2, <1>3 DEF setram
<1>5. x \in BOOLEAN /\ (x => bytes \in Nat)
  <2>1. x \in BOOLEAN
    OBVIOUS
  <2>2. x => bytes \in Nat
    BY <1>1, <1>2
  <2> QED
    BY <2>1, <2>2
<1> HIDE DEF x
<1>6. IsTables(j)
  <2>1. PICK r : r = [t.ram EXCEPT !.max_ram_size = t.ram.max_ram_size + bytes]
    OBVIOUS
  <2>2. PICK m : m = [t.market EXCEPT !.base = t.market.base + bytes]
    OBVIOUS
  <2>3. j = RamRows(t, m, r)
    BY <1>3, <2>1, <2>2 DEF MoreRam, RamRows, WithMarket, WithRam
  <2> QED
    BY <1>1, <2>3, RamRowsWritten DEF Frame
<1>7. x /\ h = j
  <2>1. Frame(j, j, {})
    BY <1>6 DEF Frame
  <2> QED
    BY <1>4, <1>5, <2>1, CheckPassed
<1>8. /\ Frame(t, j, {"market", "ram"})
      /\ MarketOK(j.market, j.ram)
      /\ j.ram.reserved = t.ram.reserved /\ j.ram.stake = t.ram.stake
      /\ j.ram.last_ram_increase = t.ram.last_ram_increase
  BY <1>1, <1>3, <1>5, <1>7, MoreRamEffect
<1> QED
  BY <1>1, <1>7, <1>8, SupplyBooks

\* setramrate: as it does by the blocks that went by.
LEMMA setramrateBooks ==
    ASSUME NEW t, NEW u, NEW s, NEW f, Books(t, u, s, f), NEW rate \in Nat, NEW h, h = setramrate(t, rate)
    PROVE  Books(h, u, s, f) /\ h.now = t.now /\ h.refunds = t.refunds
<1>1. IsTables(t) /\ MarketOK(t.market, t.ram) /\ t.ram.last_ram_increase <= t.now /\ t.now \in Nat
  BY DEF Books, StakesOK, StakeTables, RamOK
<1>2. PICK j : j = update_ram_supply(t)
  OBVIOUS
<1>3. /\ Frame(t, j, {"market", "ram"})
      /\ MarketOK(j.market, j.ram)
      /\ j.ram.reserved = t.ram.reserved /\ j.ram.stake = t.ram.stake
      /\ j.ram.last_ram_increase <= t.now
  BY <1>1, <1>2, update_ram_supplyEffect
<1>4. PICK r : r = [j.ram EXCEPT !.new_ram_per_block = rate]
  OBVIOUS
<1>5. h = WithRam(j, r)
  BY <1>2, <1>4 DEF setramrate, WithRam
<1>6. Frame(j, h, {"ram"}) /\ h.ram = r
  <2>1. IsTables(j)
    BY <1>3 DEF Frame
  <2> QED
    BY <1>5, <2>1, RamWritten DEF WithRam
<1>7. Frame(t, h, {"market", "ram"}) /\ h.market = j.market
  BY <1>3, <1>6 DEF Frame, TableFields
<1>8. j.ram \in RamRow
  BY <1>3 DEF MarketOK
<1>9. /\ r \in RamRow /\ r.max_ram_size = j.ram.max_ram_size /\ r.reserved = j.ram.reserved
      /\ r.stake = j.ram.stake /\ r.last_ram_increase = j.ram.last_ram_increase
  BY <1>4, <1>8 DEF RamRow
<1>10. MarketOK(h.market, r)
  BY <1>3, <1>7, <1>9 DEF MarketOK
<1> QED
  BY <1>3, <1>6, <1>7, <1>9, <1>10, SupplyBooks

\* Votes change, and nothing that is staked or managed.
LEMMA VotedBooks ==
    ASSUME NEW t, NEW u, NEW s, NEW f, Books(t, u, s, f), NEW h, Voted(t, h)
    PROVE  Books(h, u, s, f) /\ h.now = t.now /\ h.refunds = t.refunds
<1>1. /\ StakesOK(t) /\ RamOK(t) /\ RefundsOK(t, u) /\ LimitsOK(t, s, f)
  BY DEF Books
<1>2. /\ h.now = t.now /\ h.ledger = t.ledger /\ h.refunds = t.refunds /\ h.deferred = t.deferred
      /\ h.userres = t.userres /\ h.limits = t.limits /\ h.market = t.market /\ h.ram = t.ram
      /\ \A b : ManagedBy(h.voters, b) = ManagedBy(t.voters, b)
  BY DEF Voted, Frame, TableFields, Polled
<1>3. StakesOK(h)
  BY <1>1, StakesVoted
<1>4. RamOK(h)
  BY <1>1, <1>2 DEF RamOK
<1>5. RefundsOK(h, u)
  BY <1>1, <1>2, RefundsKept
<1>6. LimitsOK(h, s, f)
  BY <1>1, <1>2, LimitsKept
<1> QED
  BY <1>2, <1>3, <1>4, <1>5, <1>6 DEF Books

\* regproxy: an account registers as a proxy, or stops being one.
LEMMA regproxyBooks ==
    ASSUME NEW t, NEW u, NEW s, NEW f, Books(t, u, s, f), NEW a \in Users,
           NEW isproxy \in BOOLEAN, NEW h, h = regproxy(t, a, isproxy)
    PROVE  Books(h, u, s, f) /\ h.now = t.now /\ h.refunds = t.refunds
<1>1. IsTables(t) /\ VoterTable(t.voters)
  BY DEF Books, StakesOK, StakeTables
<1>2. Voted(t, h)
  BY <1>1, regproxyVoted
<1> QED
  BY <1>2, VotedBooks

\* Producers, and the total of their votes.
LEMMA ProducersBooks ==
    ASSUME NEW t, NEW u, NEW s, NEW f, Books(t, u, s, f), NEW h, NEW x,
           \/ h = [t EXCEPT !.prods = x]
           \/ h = [t EXCEPT !.total_producer_vote_weight = x]
    PROVE  Books(h, u, s, f) /\ h.now = t.now /\ h.refunds = t.refunds
<1>1. IsTables(t) /\ VoterTable(t.voters)
  BY DEF Books, StakesOK, StakeTables
<1>2. Frame(t, h, {"prods", "total_producer_vote_weight"})
  BY <1>1, SMT DEF IsTables, TableFields, Frame
<1>3. Polling(t, h)
  BY <1>1, <1>2, PollingFrame
<1> QED
  BY <1>3, PollingVoted, VotedBooks

\* A deferred refund is taken out of the queue, run or not.
LEMMA DeferredBooks ==
    ASSUME NEW t, NEW u, NEW s, NEW f, Books(t, u, s, f), NEW a, NEW d, d = Erase(t.deferred, a),
           NEW h, h = [t EXCEPT !.deferred = d]
    PROVE  Books(h, u, s, f) /\ h.ok = t.ok /\ h.refunds = t.refunds /\ h.ledger = t.ledger /\ h.now = t.now
<1>1. IsTables(t) /\ StakesOK(t) /\ RamOK(t) /\ RefundsOK(t, u) /\ LimitsOK(t, s, f)
  BY DEF Books, StakesOK, StakeTables
<1>2. Frame(t, h, {"deferred"}) /\ h.deferred = d /\ h.ok = t.ok
  BY <1>1, SMT DEF IsTables, TableFields, Frame
<1>3. /\ h.now = t.now /\ h.ledger = t.ledger /\ h.refunds = t.refunds /\ h.market = t.market
      /\ h.userres = t.userres /\ h.voters = t.voters /\ h.limits = t.limits /\ h.ram = t.ram
  BY <1>2 DEF Frame, TableFields
<1>4. StakesOK(h)
  BY <1>1, <1>2, StakesFrame
<1>5. RamOK(h)
  BY <1>1, <1>3 DEF RamOK
<1>6. RefundsOK(h, u)
  BY <1>1, <1>2, <1>3 DEF RefundsOK, Erase
<1>7. LimitsOK(h, s, f)
  BY <1>1, <1>3, LimitsKept
<1> QED
  BY <1>2, <1>3, <1>4, <1>5, <1>6, <1>7 DEF Books

\* The next block.
LEMMA LaterBooks ==
    ASSUME NEW t, NEW u, NEW s, NEW f, Books(t, u, s, f), NEW n, n = t.now + 1,
           NEW h, h = [t EXCEPT !.now = n]
    PROVE  Books(h, u, s, f)
<1>1. /\ IsTables(t) /\ StakesOK(t) /\ RamOK(t) /\ RefundsOK(t, u) /\ LimitsOK(t, s, f) /\ StakeTables(t)
      /\ t.now \in Nat /\ RefundRows(t.refunds) /\ refund_delay \in Nat
  BY StakingAssumption DEF Books, StakesOK, StakeTables
<1>2. Frame(t, h, {"now"}) /\ h.now = n
  BY <1>1, SMT DEF IsTables, TableFields, Frame
<1>3. /\ h.ledger = t.ledger /\ h.delband = t.delband /\ h.refunds = t.refunds /\ h.market = t.market
      /\ h.userres = t.userres /\ h.voters = t.voters /\ h.limits = t.limits /\ h.ram = t.ram
      /\ h.deferred = t.deferred /\ IsTables(h)
  BY <1>2 DEF Frame, TableFields
<1>4. h.now \in Nat /\ t.now <= h.now
  BY <1>1, <1>2
<1>5. StakesOK(h)
  <2>1. StakesKept(t, h)
    BY <1>1, <1>3, <1>4, NothingPaid DEF StakesKept, StakeTables
  <2> QED
    BY <1>1, <2>1, StakesKeptOK
<1>6. RamOK(h)
  BY <1>1, <1>3, <1>4, RamKept
<1>7. RefundsOK(h, u)
  <2>1. ASSUME NEW a \in Users PROVE u[a] \in Int /\ u[a] <= h.now
    BY <1>1, <1>2 DEF RefundsOK
  <2>2. ASSUME NEW a \in DOMAIN h.deferred PROVE h.deferred[a] \in Nat /\ h.deferred[a] <= h.now + refund_delay
    <3>1. h.deferred[a] \in Nat /\ h.deferred[a] <= t.now + refund_delay
      BY <1>1, <1>3, <2>2 DEF RefundsOK
    <3> QED
      BY <1>1, <1>2, <3>1
  <2>3. ASSUME NEW a \in DOMAIN h.refunds
        PROVE  /\ h.refunds[a].request_time <= h.now
               /\ u[a] <= h.refunds[a].request_time + 1
               /\ a \in DOMAIN h.deferred => h.refunds[a].request_time + refund_delay <= h.deferred[a]
    <3>1. /\ h.refunds[a].request_time <= t.now
          /\ u[a] <= h.refunds[a].request_time + 1
          /\ a \in DOMAIN h.deferred => h.refunds[a].request_time + refund_delay <= h.deferred[a]
      BY <1>1, <1>3, <2>3 DEF RefundsOK
    <3>2. h.refunds[a].request_time \in Int
      BY <1>1, <1>3, <2>3 DEF RefundRows, RefundRow
    <3> QED
      BY <1>1, <1>2, <3>1, <3>2
  <2> QED
    BY <2>1, <2>2, <2>3 DEF RefundsOK
<1>8. LimitsOK(h, s, f)
  BY <1>1, <1>3, LimitsKept
<1> QED
  BY <1>5, <1>6, <1>7, <1>8 DEF Books

-----------------------------------------------------------------------------
(* What is in the tables is accounted for in every state                   *)

BooksInv == Books(Now, unstaked, special, fixed) /\ DOMAIN unstaked = Users

\* The tables of a state have the fields of all tables.
LEMMA NowTables ==
    /\ IsTables(Now) /\ Now.ok = TRUE /\ Now.now = now /\ Now.ledger = ledger /\ Now.delband = delband
    /\ Now.userres = userres /\ Now.refunds = refunds /\ Now.deferred = deferred
    /\ Now.limits = limits /\ Now.voters = voters /\ Now.prods = prods
    /\ Now.total_producer_vote_weight = total_producer_vote_weight
    /\ Now.market = market /\ Now.ram = ram
BY SMT DEF Now, IsTables, TableFields

\* What is written is what the next state has.
LEMMA Written ==
    ASSUME NEW t, IsTables(t), Write(t), NEW n, n = now'
    PROVE  t.ok /\ Now' = [t EXCEPT !.now = n]
<1>1. t = [x \in TableFields |-> t[x]] /\ t.ok = TRUE
  BY DEF IsTables, Write
<1>2. /\ ledger' = t.ledger /\ delband' = t.delband /\ userres' = t.userres
      /\ refunds' = t.refunds /\ deferred' = t.deferred /\ limits' = t.limits
      /\ voters' = t.voters /\ prods' = t.prods
      /\ total_producer_vote_weight' = t.total_producer_vote_weight
      /\ market' = t.market /\ ram' = t.ram
  BY DEF Write
<1>3. PICK h : h = [t EXCEPT !.now = n]
  OBVIOUS
<1>4. h = [x \in TableFields |-> h[x]] /\ h.now = n /\ \A x \in TableFields \ {"now"} : h[x] = t[x]
  BY <1>1, <1>3 DEF TableFields
<1>5. PICK g : g = Now'
  OBVIOUS
<1>6. /\ g = [x \in TableFields |-> g[x]]
      /\ g.ok = TRUE /\ g.now = now' /\ g.ledger = ledger' /\ g.delband = delband'
      /\ g.userres = userres' /\ g.refunds = refunds' /\ g.deferred = deferred'
      /\ g.limits = limits' /\ g.voters = voters' /\ g.prods = prods'
      /\ g.total_producer_vote_weight = total_producer_vote_weight'
      /\ g.market = market' /\ g.ram = ram'
  BY <1>5, SMT DEF Now, TableFields
<1>7. \A x \in TableFields : g[x] = h[x]
  <2>1. h.ok = TRUE /\ h.ledger = t.ledger /\ h.delband = t.delband /\ h.userres = t.userres
        /\ h.refunds = t.refunds /\ h.deferred = t.deferred /\ h.limits = t.limits
        /\ h.voters = t.voters /\ h.prods = t.prods
        /\ h.total_producer_vote_weight = t.total_producer_vote_weight
        /\ h.market = t.market /\ h.ram = t.ram
    BY <1>1, <1>4 DEF TableFields
  <2>2. /\ g.ok = h.ok /\ g.now = h.now /\ g.ledger = h.ledger /\ g.delband = h.delband
        /\ g.userres = h.userres /\ g.refunds = h.refunds /\ g.deferred = h.deferred
        /\ g.limits = h.limits /\ g.voters = h.voters /\ g.prods = h.prods
        /\ g.total_producer_vote_weight = h.total_producer_vote_weight
        /\ g.market = h.market /\ g.ram = h.ram
    BY <1>2, <1>4, <1>6, <2>1
  <2> QED
    BY <2>2 DEF TableFields
<1>8. g = h
  BY <1>4, <1>6, <1>7
<1> QED
  BY <1>1, <1>3, <1>5, <1>8

\* It is all of it if no time went by.
LEMMA WrittenNow ==
    ASSUME NEW t, IsTables(t), Write(t), t.now = now'
    PROVE  t.ok /\ Now' = t
<1>1. PICK n : n = now'
  OBVIOUS
<1>2. t.ok /\ Now' = [t EXCEPT !.now = n]
  BY <1>1, Written
<1>3. [t EXCEPT !.now = n] = t
  BY <1>1 DEF IsTables, TableFields
<1> QED
  BY <1>2, <1>3

\* Books that are written.
LEMMA BooksWritten ==
    ASSUME NEW t, NEW u, NEW s, NEW f, Write(t), t.now = now, now' = now, Books(t, u, s, f),
           DOMAIN u = Users, u = unstaked', s = special', f = fixed'
    PROVE  BooksInv'
<1>1. IsTables(t)
  BY DEF Books, StakesOK, StakeTables
<1>2. PICK n : n = Now'
  OBVIOUS
<1>3. Now' = t
  BY <1>1, WrittenNow
<1>4. Books(n, u, s, f)
  BY <1>2, <1>3
<1>5. BooksInv' <=> Books(Now', unstaked', special', fixed') /\ DOMAIN unstaked' = Users
  BY DEF BooksInv
<1> QED
  BY <1>2, <1>4, <1>5

\* None of the sums counts anything at first.
LEMMA SumOfZeros ==
    ASSUME NEW f, IsFiniteSet(DOMAIN f), \A x \in DOMAIN f : f[x] = 0
    PROVE  SumOf(f) = 0
<1>1. IsEven(f, 0, DOMAIN f)
  BY DEF IsEven
<1>2. SumOf(f) = 0 * Cardinality(DOMAIN f) /\ Cardinality(DOMAIN f) \in Int
  BY <1>1, SumConstant, FS_CardinalityType DEF SumOf
<1> QED
  BY <1>2

\* The books are right at the start.
LEMMA InitBooks ==
    ASSUME Init
    PROVE  BooksInv
<1>1. /\ ledger = Put([a \in Users |-> Funds], stake_account, 0)
      /\ delband = NoRows /\ refunds = NoRows /\ deferred = NoRows
      /\ userres = [a \in Users \ Older |-> NewResources]
      /\ limits = [a \in Users |-> IF a \in Older THEN [ram |-> -1, net |-> -1, cpu |-> -1] ELSE NewLimits]
      /\ voters = [a \in Proxies |-> [NewVoter EXCEPT !.is_proxy = TRUE]]
      /\ market = NewMarket(MaxRam, Supply)
      /\ ram = [max_ram_size |-> MaxRam, reserved |-> 0, stake |-> 0,
                last_ram_increase |-> 0, new_ram_per_block |-> 0]
      /\ now = 0 /\ unstaked = [a \in Users |-> -1] /\ special = Older
  BY DEF Init
<1>2. /\ Older \subseteq Users /\ Proxies \subseteq Users /\ IsFiniteSet(Users)
      /\ Funds \in Nat /\ MaxRam \in Nat /\ stake_account \notin Users /\ ram_account \notin Users
      /\ ram_account # stake_account /\ refund_delay \in Nat
  BY ResourcesAssumption, StakingAssumption
<1>3. /\ DOMAIN ledger = Users \cup {stake_account} /\ ledger = [a \in DOMAIN ledger |-> ledger[a]]
      /\ ledger[stake_account] = 0 /\ \A a \in Users : ledger[a] = Funds
  BY <1>1, <1>2 DEF Put
<1>4. Funded(ledger) /\ BalanceOf(ledger, stake_account) = 0 /\ BalanceOf(ledger, ram_account) = 0
  <2>1. IsFiniteSet(Users \cup {stake_account})
    BY <1>2, FS_AddElement
  <2>2. \A a \in DOMAIN ledger : ledger[a] \in Nat
    BY <1>2, <1>3
  <2> QED
    BY <1>2, <1>3, <2>1, <2>2 DEF Funded, IsTable, NoDebts, BalanceOf
<1>5. DOMAIN NoRows = {} /\ NoRows = [x \in DOMAIN NoRows |-> NoRows[x]] /\ IsFiniteSet({})
  BY FS_EmptySet DEF NoRows
<1>6. StakeRows(delband) /\ RefundRows(refunds)
  BY <1>1, <1>5 DEF StakeRows, RefundRows
<1>7. /\ SumOf(AmountsOf(delband)) = 0 /\ SumOf(AwaitedOf(refunds)) = 0
      /\ \A a : SumOf(ReceivedBy(delband, a)) = 0 /\ SumOf(GivenBy(delband, a)) = 0
  <2>1. SumOf(AmountsOf(delband)) = 0
    BY <1>1, <1>5, SumOfZeros DEF AmountsOf
  <2>2. SumOf(AwaitedOf(refunds)) = 0
    BY <1>1, <1>5, SumOfZeros DEF AwaitedOf
  <2>3. ASSUME NEW a PROVE SumOf(ReceivedBy(delband, a)) = 0
    <3>1. {j \in DOMAIN delband : j[2] = a} = {}
      BY <1>1, <1>5
    <3> QED
      BY <1>5, <3>1, SumOfZeros DEF ReceivedBy
  <2>4. ASSUME NEW a PROVE SumOf(GivenBy(delband, a)) = 0
    <3>1. {j \in DOMAIN delband : j[1] = a} = {}
      BY <1>1, <1>5
    <3> QED
      BY <1>5, <3>1, SumOfZeros DEF GivenBy
  <2> QED
    BY <2>1, <2>2, <2>3, <2>4
<1>8. /\ OwnRows(userres)
      /\ \A a : OwnedBy(userres, a) = NewResources
      /\ SumOf(RamOf(userres)) = 0
  <2>1. NewResources \in OwnRow /\ NewResources.ram = 0
    BY NewResourcesRow
  <2>2. DOMAIN userres = Users \ Older /\ userres = [a \in DOMAIN userres |-> userres[a]]
        /\ \A a \in DOMAIN userres : userres[a] = NewResources
    BY <1>1
  <2>3. IsFiniteSet(DOMAIN userres)
    BY <1>2, <2>2, FS_Subset
  <2>4. SumOf(RamOf(userres)) = 0
    BY <2>1, <2>2, <2>3, SumOfZeros DEF RamOf
  <2> QED
    BY <2>1, <2>2, <2>4 DEF OwnRows, OwnedBy
<1>9. VoterTable(voters) /\ \A a : StakedBy(voters, a) = 0 /\ ManagedBy(voters, a) = {}
  <2>1. PICK r : r = [NewVoter EXCEPT !.is_proxy = TRUE]
    OBVIOUS
  <2>2. IsVoter(r) /\ r.staked = 0 /\ r.managed = {}
    BY <2>1 DEF IsVoter, VoterFields, NewVoter
  <2>3. DOMAIN voters = Proxies /\ voters = [a \in DOMAIN voters |-> voters[a]]
        /\ \A a \in DOMAIN voters : voters[a] = r
    BY <1>1, <2>1
  <2> QED
    BY <1>2, <2>2, <2>3 DEF VoterTable, StakedBy, ManagedBy
<1>10. StakesOK(Now)
  <2>1. StakeTables(Now)
    BY <1>1, <1>4, <1>6, <1>8, <1>9, NowTables DEF StakeTables
  <2>2. Sum2(NewResources.weights) = 0
    BY NewResourcesRow, NoWeightsZero
  <2> QED
    BY <1>4, <1>7, <1>8, <1>9, <2>1, <2>2, NowTables DEF StakesOK
<1>11. MarketOK(market, ram) /\ ram.reserved = 0 /\ ram.stake = 0 /\ ram.last_ram_increase = 0
  <2>1. ram \in RamRow /\ ram.max_ram_size = MaxRam /\ ram.reserved = 0 /\ ram.stake = 0
        /\ ram.last_ram_increase = 0
    BY <1>1, <1>2 DEF RamRow
  <2>2. market \in Market /\ market.base = MaxRam /\ market.quote = InitialQuote
    <3>1. market.quote = InitialQuote
      BY <1>1 DEF InitialQuote
    <3>2. market = [base |-> MaxRam, quote |-> InitialQuote]
      BY <1>1 DEF InitialQuote, NewMarket
    <3> QED
      BY <1>2, <3>1, <3>2, InitialQuoteNat DEF Market
  <2>3. market.base * market.quote >= ram.max_ram_size * InitialQuote
    <3>1. MaxRam * InitialQuote \in Int
      BY <1>2, InitialQuoteNat, SMT
    <3> QED
      BY <2>1, <2>2, <3>1
  <2> QED
    BY <1>2, <2>1, <2>2, <2>3, InitialQuoteNat DEF MarketOK
<1>12. RamOK(Now)
  BY <1>1, <1>4, <1>8, <1>11, NowTables DEF RamOK
<1>13. RefundsOK(Now, unstaked)
  <2>1. \A a \in Users : unstaked[a] = -1
    BY <1>1
  <2> QED
    BY <1>1, <1>5, <2>1, NowTables DEF RefundsOK
<1>14. LimitsOK(Now, special, fixed)
  <2>1. limits \in [Users -> LimitRow]
    BY <1>1 DEF LimitRow, NewLimits
  <2>2. ASSUME NEW a \in Users
        PROVE  LimitOK(limits[a], OwnedBy(userres, a), ManagedBy(voters, a), special, fixed, a)
    <3>1. a \notin special => limits[a] = NewLimits
      BY <1>1
    <3>2. \A kind \in Kinds : NewLimits[kind] = NewResources.weights[kind]
      BY DEF NewLimits, NewResources, NoWeights, Weights, Kinds
    <3>3. NewLimits.ram = 0 /\ NewResources.ram = 0
      BY DEF NewLimits, NewResources
    <3> QED
      BY <1>8, <1>9, <3>1, <3>2, <3>3 DEF LimitOK
  <2> QED
    BY <2>1, <2>2, NowTables DEF LimitsOK
<1> QED
  BY <1>1, <1>10, <1>12, <1>13, <1>14 DEF BooksInv, Books

\* A step in which a refund is paid.
Waited ==
    \A a \in DOMAIN refunds :
      a \notin DOMAIN refunds' /\ ledger'[stake_account] < ledger[stake_account]
        => now + 1 >= unstaked[a] + refund_delay

\* What a call finds.
LEMMA BooksNow ==
    ASSUME BooksInv, NEW t, t = Now
    PROVE  /\ Books(t, unstaked, special, fixed) /\ t.now = now /\ t.ledger = ledger
           /\ t.refunds = refunds /\ t.market = market /\ t.ok = TRUE
           /\ Funded(ledger) /\ t.ram = ram /\ t.deferred = deferred /\ t.voters = voters
BY NowTables DEF BooksInv, Books, StakesOK, StakeTables

\* The amounts of calls are of the types that the helpers take.
LEMMA CallAmounts ==
    /\ \A delta \in Stakes : delta \in Changes
    /\ \A q \in Quants : q \in Int
    /\ \A value \in LimitValues : value \in Int
    /\ \A rate \in RamRates : rate \in Nat
<1>1. Stakes \subseteq [net : Int, cpu : Int]
  BY ResourcesAssumption
<1>2. Quants \cup LimitValues \subseteq Int /\ RamRates \subseteq Nat
  BY ResourcesAssumption
<1> QED
  BY <1>1, <1>2 DEF Changes

\* The ledger has no debts in any state.
LEMMA LedgerFunded == BooksInv => Funded(ledger)
BY NowTables DEF BooksInv, Books, StakesOK, StakeTables

\* Nothing is paid out of eosio.stake when it has as much as before.
LEMMA NoneWaited ==
    ASSUME BooksInv, BooksInv', BalanceOf(ledger', stake_account) >= BalanceOf(ledger, stake_account)
    PROVE  Waited
<1>1. Funded(ledger) /\ Funded(ledger')
  <2>1. (BooksInv => Funded(ledger))'
    BY LedgerFunded, PTL
  <2> QED
    BY <2>1, LedgerFunded
<1>2. BalanceOf(ledger, stake_account) = ledger[stake_account]
      /\ BalanceOf(ledger', stake_account) = ledger'[stake_account]
  BY <1>1 DEF Funded, BalanceOf
<1>3. ledger[stake_account] \in Int /\ ledger'[stake_account] \in Int
  BY <1>1 DEF Funded, IsTable
<1> QED
  BY <1>2, <1>3 DEF Waited

\* A call that leaves the histories alone.
LEMMA CallBooks ==
    ASSUME BooksInv, NEW k, Write(k), k.now = now, Books(k, unstaked, special, fixed),
           UNCHANGED <<now, unstaked, special, fixed>>
    PROVE  BooksInv' /\ ledger' = k.ledger /\ refunds' = k.refunds
<1>1. PICK u, s, f : u = unstaked /\ s = special /\ f = fixed
  OBVIOUS
<1>2. Books(k, u, s, f) /\ u = unstaked' /\ s = special' /\ f = fixed' /\ now' = now
  BY <1>1
<1>3. BooksInv'
  <2>1. DOMAIN u = Users
    BY <1>1 DEF BooksInv
  <2> QED
    BY <1>2, <2>1, BooksWritten
<1> QED
  BY <1>3 DEF Write

\* Nor is anything when no refund goes away.
LEMMA KeptWaited == refunds' = refunds => Waited
BY DEF Waited

\* One step at a time: delegatebw,
LEMMA StakeBooks ==
    ASSUME BooksInv, Stake
    PROVE  BooksInv' /\ Waited
<1>1. now' = now /\ unstaked' = unstaked /\ special' = special /\ fixed' = fixed
  BY DEF Stake, Call
<1>2. PICK t : t = Now
  OBVIOUS
<1>3. Books(t, unstaked, special, fixed) /\ t.now = now /\ t.ledger = ledger
  BY <1>2, BooksNow
<1>4. PICK from \in Users, receiver \in Users, delta \in Stakes, give \in BOOLEAN :
        Write(delegatebw(t, from, receiver, delta, give))
  BY <1>2 DEF Stake
<1>5. PICK k : k = delegatebw(t, from, receiver, delta, give)
  OBVIOUS
<1>6. Write(k) /\ k.ok /\ ledger' = k.ledger
  BY <1>4, <1>5 DEF Write
<1>7. delta \in Changes
  BY <1>4, CallAmounts
<1>8. /\ Books(k, unstaked, special, fixed) /\ k.now = t.now
      /\ BalanceOf(k.ledger, stake_account) >= BalanceOf(t.ledger, stake_account)
  BY <1>3, <1>5, <1>6, <1>7, delegatebwBooks
<1>9. BooksInv' /\ ledger' = k.ledger
  BY <1>1, <1>3, <1>6, <1>8, CallBooks
<1> QED
  BY <1>3, <1>6, <1>8, <1>9, NoneWaited

\* undelegatebw,
LEMMA UnstakeBooks ==
    ASSUME BooksInv, Unstake
    PROVE  BooksInv' /\ Waited
<1>1. now' = now /\ special' = special /\ fixed' = fixed
  BY DEF Unstake, Call
<1>2. PICK t : t = Now
  OBVIOUS
<1>3. Books(t, unstaked, special, fixed) /\ t.now = now /\ t.ledger = ledger
  BY <1>2, BooksNow
<1>4. PICK from \in Users, receiver \in Users, delta \in Stakes :
        Write(undelegatebw(t, from, receiver, delta)) /\ unstaked' = [unstaked EXCEPT ![from] = now]
  BY <1>2 DEF Unstake
<1>5. PICK k : k = undelegatebw(t, from, receiver, delta)
  OBVIOUS
<1>6. Write(k) /\ k.ok /\ ledger' = k.ledger
  BY <1>4, <1>5 DEF Write
<1>7. delta \in Changes
  BY <1>4, CallAmounts
<1>8. DOMAIN unstaked = Users
  BY DEF BooksInv
<1>9. PICK v : v = unstaked'
  OBVIOUS
<1>10. v[from] = t.now /\ \A b \in Users \ {from} : v[b] = unstaked[b]
  BY <1>3, <1>4, <1>8, <1>9
<1>11. /\ Books(k, v, special, fixed) /\ k.now = t.now
       /\ BalanceOf(k.ledger, stake_account) >= BalanceOf(t.ledger, stake_account)
  BY <1>3, <1>5, <1>6, <1>7, <1>10, undelegatebwBooks
<1>12. BooksInv'
  <2>1. PICK s, f : s = special /\ f = fixed
    OBVIOUS
  <2>2. Books(k, v, s, f) /\ k.now = now /\ v = unstaked' /\ s = special' /\ f = fixed' /\ DOMAIN v = Users
    BY <1>1, <1>3, <1>4, <1>8, <1>9, <1>11, <2>1
  <2> QED
    BY <1>1, <1>6, <2>2, BooksWritten
<1> QED
  BY <1>3, <1>6, <1>11, <1>12, NoneWaited

\* A refund that is paid, now or by its deferred transaction.
LEMMA PaidBooks ==
    ASSUME BooksInv, NEW t, Books(t, unstaked, special, fixed), t.now = now, t.refunds = refunds,
           NEW owner \in Users, NEW k, k = refund(t, owner), Write(k),
           UNCHANGED <<now, unstaked, special, fixed>>
    PROVE  BooksInv' /\ Waited
<1>1. k.ok
  BY DEF Write
<1>2. /\ Books(k, unstaked, special, fixed) /\ k.now = t.now
      /\ DOMAIN t.refunds \ {owner} = DOMAIN k.refunds \ {owner}
      /\ t.now + 1 >= unstaked[owner] + refund_delay
  BY <1>1, refundBooks
<1>3. BooksInv' /\ refunds' = k.refunds
  BY <1>2, CallBooks
<1>4. Waited
  <2>1. SUFFICES ASSUME NEW a \in DOMAIN refunds, a \notin DOMAIN refunds'
                 PROVE  now + 1 >= unstaked[a] + refund_delay
    BY DEF Waited
  <2>2. a = owner
    BY <1>2, <1>3, <2>1
  <2> QED
    BY <1>2, <2>2
<1> QED
  BY <1>3, <1>4

\* refund,
LEMMA ClaimRefundBooks ==
    ASSUME BooksInv, ClaimRefund
    PROVE  BooksInv' /\ Waited
<1>1. UNCHANGED <<now, unstaked, special, fixed>>
  BY DEF ClaimRefund, Call
<1>2. PICK t : t = Now
  OBVIOUS
<1>3. Books(t, unstaked, special, fixed) /\ t.now = now /\ t.refunds = refunds
  BY <1>2, BooksNow
<1>4. PICK owner \in Users : Write(refund(t, owner))
  BY <1>2 DEF ClaimRefund
<1>5. PICK k : k = refund(t, owner)
  OBVIOUS
<1> QED
  BY <1>1, <1>3, <1>4, <1>5, PaidBooks

\* buyram and buyrambytes,
LEMMA BuyRamBooks ==
    ASSUME BooksInv, BuyRam
    PROVE  BooksInv' /\ Waited
<1>1. UNCHANGED <<now, unstaked, special, fixed>>
  BY DEF BuyRam, Call
<1>2. PICK t : t = Now
  OBVIOUS
<1>3. Books(t, unstaked, special, fixed) /\ t.now = now /\ t.market = market /\ t.refunds = refunds
  BY <1>2, BooksNow
<1>4. PICK payer \in Users, receiver \in Users, q \in Quants :
        \/ Write(buyram(t, payer, receiver, q))
        \/ q < market.base /\ Write(buyrambytes(t, payer, receiver, q))
  BY <1>2 DEF BuyRam
<1>5. q \in Int
  BY <1>4, CallAmounts
<1>6. CASE Write(buyram(t, payer, receiver, q))
  <2>1. PICK k : k = buyram(t, payer, receiver, q)
    OBVIOUS
  <2>2. Write(k) /\ k.ok
    BY <1>6, <2>1 DEF Write
  <2>3. Books(k, unstaked, special, fixed) /\ k.now = t.now /\ k.refunds = t.refunds
    BY <1>3, <1>5, <2>1, <2>2, buyramBooks
  <2> QED
    BY <1>1, <1>3, <2>2, <2>3, CallBooks, KeptWaited
<1>7. CASE q < market.base /\ Write(buyrambytes(t, payer, receiver, q))
  <2>1. PICK k : k = buyrambytes(t, payer, receiver, q)
    OBVIOUS
  <2>2. Write(k) /\ k.ok /\ q < t.market.base
    BY <1>3, <1>7, <2>1 DEF Write
  <2>3. Books(k, unstaked, special, fixed) /\ k.now = t.now /\ k.refunds = t.refunds
    BY <1>3, <1>5, <2>1, <2>2, buyrambytesBooks
  <2> QED
    BY <1>1, <1>3, <2>2, <2>3, CallBooks, KeptWaited
<1> QED
  BY <1>4, <1>6, <1>7

\* sellram,
LEMMA SellRamBooks ==
    ASSUME BooksInv, SellRam
    PROVE  BooksInv' /\ Waited
<1>1. UNCHANGED <<now, unstaked, special, fixed>>
  BY DEF SellRam, Call
<1>2. PICK t : t = Now
  OBVIOUS
<1>3. Books(t, unstaked, special, fixed) /\ t.now = now /\ t.refunds = refunds
  BY <1>2, BooksNow
<1>4. PICK account \in Users, q \in Quants : Write(sellram(t, account, q))
  BY <1>2 DEF SellRam
<1>5. q \in Int
  BY <1>4, CallAmounts
<1>6. PICK k : k = sellram(t, account, q)
  OBVIOUS
<1>7. Write(k) /\ k.ok
  BY <1>4, <1>6 DEF Write
<1>8. Books(k, unstaked, special, fixed) /\ k.now = t.now /\ k.refunds = t.refunds
  BY <1>3, <1>5, <1>6, <1>7, sellramBooks
<1> QED
  BY <1>1, <1>3, <1>7, <1>8, CallBooks, KeptWaited

\* setalimits, setacctram, setacctnet and setacctcpu,
LEMMA SetLimitsBooks ==
    ASSUME BooksInv, SetLimits
    PROVE  BooksInv' /\ Waited
<1>1. now' = now /\ unstaked' = unstaked
  BY DEF SetLimits, Call
<1>2. PICK t : t = Now
  OBVIOUS
<1>3. Books(t, unstaked, special, fixed) /\ t.now = now /\ t.refunds = refunds
  BY <1>2, BooksNow
<1>4. PICK a \in Users :
        \/ \E value \in LimitValues :
             /\ Write(setalimits(t, a, [ram |-> value, net |-> value, cpu |-> value]))
             /\ special' = special \cup {a}
             /\ UNCHANGED fixed
        \/ \E kind \in Kinds \cup {"ram"} :
             /\ \/ \E value \in LimitValues :
                     Write(Manage(t, a, kind, value)) /\ fixed' = Put(fixed, <<a, kind>>, value)
                \/ Write(Unmanage(t, a, kind)) /\ fixed' = Erase(fixed, <<a, kind>>)
             /\ UNCHANGED special
  BY <1>2 DEF SetLimits
<1>5. ASSUME NEW k, Write(k), k.now = t.now, NEW s, NEW f, s = special', f = fixed', Books(k, unstaked, s, f),
             k.refunds = t.refunds
      PROVE  BooksInv' /\ Waited
  <2>1. PICK u : u = unstaked
    OBVIOUS
  <2>2. Books(k, u, s, f) /\ u = unstaked' /\ k.now = now /\ DOMAIN u = Users
    BY <1>1, <1>3, <1>5, <2>1 DEF BooksInv
  <2>3. refunds' = refunds
    BY <1>3, <1>5 DEF Write
  <2> QED
    BY <1>1, <1>5, <2>2, <2>3, BooksWritten, KeptWaited
<1>6. ASSUME NEW value \in LimitValues,
             Write(setalimits(t, a, [ram |-> value, net |-> value, cpu |-> value])),
             special' = special \cup {a}, fixed' = fixed
      PROVE  BooksInv' /\ Waited
  <2>1. PICK l : l = [ram |-> value, net |-> value, cpu |-> value]
    OBVIOUS
  <2>2. value \in Int
    BY <1>6, CallAmounts
  <2>3. l \in LimitRow
    BY <2>1, <2>2 DEF LimitRow
  <2>4. PICK k : k = setalimits(t, a, l)
    OBVIOUS
  <2>5. Write(k) /\ k.ok
    BY <1>6, <2>1, <2>4 DEF Write
  <2>6. Books(k, unstaked, special \cup {a}, fixed) /\ k.now = t.now /\ k.refunds = t.refunds
    BY <1>3, <2>3, <2>4, <2>5, setalimitsBooks
  <2>7. PICK s, f : s = special \cup {a} /\ f = fixed
    OBVIOUS
  <2>8. s = special' /\ f = fixed' /\ Books(k, unstaked, s, f)
    BY <1>6, <2>6, <2>7
  <2> QED
    BY <1>5, <2>5, <2>6, <2>8
<1>7. ASSUME NEW kind \in Kinds \cup {"ram"}, NEW value \in LimitValues,
             Write(Manage(t, a, kind, value)), fixed' = Put(fixed, <<a, kind>>, value), special' = special
      PROVE  BooksInv' /\ Waited
  <2>1. PICK g : g = Put(fixed, <<a, kind>>, value)
    OBVIOUS
  <2>2. value \in Int
    BY <1>7, CallAmounts
  <2>4. PICK k : k = Manage(t, a, kind, value)
    OBVIOUS
  <2>5. Write(k) /\ k.ok
    BY <1>7, <2>4 DEF Write
  <2>6. Books(k, unstaked, special, g) /\ k.now = t.now /\ k.refunds = t.refunds
    BY <1>3, <1>7, <2>1, <2>2, <2>4, <2>5, ManageBooks
  <2>7. PICK s : s = special
    OBVIOUS
  <2>8. s = special' /\ g = fixed' /\ Books(k, unstaked, s, g)
    BY <1>7, <2>1, <2>6, <2>7
  <2> QED
    BY <1>5, <2>5, <2>6, <2>8
<1>8. ASSUME NEW kind \in Kinds \cup {"ram"},
             Write(Unmanage(t, a, kind)), fixed' = Erase(fixed, <<a, kind>>), special' = special
      PROVE  BooksInv' /\ Waited
  <2>1. PICK g : g = Erase(fixed, <<a, kind>>)
    OBVIOUS
  <2>4. PICK k : k = Unmanage(t, a, kind)
    OBVIOUS
  <2>5. Write(k) /\ k.ok
    BY <1>8, <2>4 DEF Write
  <2>6. Books(k, unstaked, special, g) /\ k.now = t.now /\ k.refunds = t.refunds
    BY <1>3, <1>8, <2>1, <2>4, <2>5, UnmanageBooks
  <2>7. PICK s : s = special
    OBVIOUS
  <2>8. s = special' /\ g = fixed' /\ Books(k, unstaked, s, g)
    BY <1>8, <2>1, <2>6, <2>7
  <2> QED
    BY <1>5, <2>5, <2>6, <2>8
<1> QED
  BY <1>4, <1>6, <1>7, <1>8

\* setram and setramrate,
LEMMA SetRamBooks ==
    ASSUME BooksInv, SetRam
    PROVE  BooksInv' /\ Waited
<1>1. UNCHANGED <<now, unstaked, special, fixed>>
  BY DEF SetRam, Call
<1>2. PICK t : t = Now
  OBVIOUS
<1>3. Books(t, unstaked, special, fixed) /\ t.now = now /\ t.refunds = refunds /\ t.ram = ram
  BY <1>2, BooksNow
<1>4. Write(setram(t, 2 * ram.max_ram_size)) \/ \E rate \in RamRates : Write(setramrate(t, rate))
  BY <1>2 DEF SetRam
<1>5. CASE Write(setram(t, 2 * ram.max_ram_size))
  <2>1. PICK size : size = 2 * ram.max_ram_size
    OBVIOUS
  <2>2. size \in Nat
    <3>1. ram.max_ram_size \in Nat
      BY <1>3 DEF Books, RamOK, MarketOK, RamRow
    <3> QED
      BY <2>1, <3>1
  <2>3. PICK k : k = setram(t, size)
    OBVIOUS
  <2>4. Write(k) /\ k.ok
    BY <1>5, <2>1, <2>3 DEF Write
  <2>5. Books(k, unstaked, special, fixed) /\ k.now = t.now /\ k.refunds = t.refunds
    BY <1>3, <2>2, <2>3, <2>4, setramBooks
  <2> QED
    BY <1>1, <1>3, <2>4, <2>5, CallBooks, KeptWaited
<1>6. ASSUME NEW rate \in RamRates, Write(setramrate(t, rate)) PROVE BooksInv' /\ Waited
  <2>1. rate \in Nat
    BY <1>6, CallAmounts
  <2>2. PICK k : k = setramrate(t, rate)
    OBVIOUS
  <2>3. Books(k, unstaked, special, fixed) /\ k.now = t.now /\ k.refunds = t.refunds
    BY <1>3, <2>1, <2>2, setramrateBooks
  <2> QED
    BY <1>1, <1>3, <1>6, <2>2, <2>3, CallBooks, KeptWaited
<1> QED
  BY <1>4, <1>5, <1>6

\* voteproducer,
LEMMA VoteBooks ==
    ASSUME BooksInv, Vote
    PROVE  BooksInv' /\ Waited
<1>1. UNCHANGED <<now, unstaked, special, fixed>>
  BY DEF Vote, Call
<1>2. PICK t : t = Now
  OBVIOUS
<1>3. Books(t, unstaked, special, fixed) /\ t.now = now /\ t.refunds = refunds
  BY <1>2, BooksNow
<1>4. PICK a, proxy, S : Write(update_votes(t, a, proxy, S, TRUE))
  BY <1>2 DEF Vote
<1>8. PICK b \in BOOLEAN : b = TRUE
  OBVIOUS
<1>5. PICK k : k = update_votes(t, a, proxy, S, b)
  OBVIOUS
<1>6. Books(k, unstaked, special, fixed) /\ k.now = t.now /\ k.refunds = t.refunds
  <2>1. IsTables(t) /\ VoterTable(t.voters)
    BY <1>3 DEF Books, StakesOK, StakeTables
  <2>2. Polling(t, k)
    BY <1>5, <2>1, update_votesPolling
  <2> QED
    BY <1>3, <2>2, PollingVoted, VotedBooks
<1> QED
  BY <1>1, <1>3, <1>4, <1>8, <1>5, <1>6, CallBooks, KeptWaited

\* regproxy,
LEMMA ResignProxyBooks ==
    ASSUME BooksInv, ResignProxy
    PROVE  BooksInv' /\ Waited
<1>1. UNCHANGED <<now, unstaked, special, fixed>>
  BY DEF ResignProxy, Call
<1>2. PICK t : t = Now
  OBVIOUS
<1>3. Books(t, unstaked, special, fixed) /\ t.now = now /\ t.refunds = refunds
  BY <1>2, BooksNow
<1>4. PICK a \in Users : Write(regproxy(t, a, FALSE))
  BY <1>2 DEF ResignProxy
<1>8. PICK b \in BOOLEAN : b = FALSE
  OBVIOUS
<1>5. PICK k : k = regproxy(t, a, b)
  OBVIOUS
<1>6. Books(k, unstaked, special, fixed) /\ k.now = t.now /\ k.refunds = t.refunds
  BY <1>3, <1>4, <1>5, <1>8, regproxyBooks
<1> QED
  BY <1>1, <1>3, <1>4, <1>8, <1>5, <1>6, CallBooks, KeptWaited

\* regproducer and unregprod,
LEMMA ChangeProducerBooks ==
    ASSUME BooksInv, ChangeProducer
    PROVE  BooksInv' /\ Waited
<1>1. UNCHANGED <<now, unstaked, special, fixed>>
  BY DEF ChangeProducer, Call
<1>2. PICK t : t = Now
  OBVIOUS
<1>3. Books(t, unstaked, special, fixed) /\ t.now = now /\ t.refunds = refunds
  BY <1>2, BooksNow
<1>4. PICK p \in Producers : Write([t EXCEPT !.prods[p].is_active = ~t.prods[p].is_active])
  BY <1>2 DEF ChangeProducer
<1>5. PICK x : x = [t.prods EXCEPT ![p].is_active = ~t.prods[p].is_active]
  OBVIOUS
<1>6. PICK k : k = [t EXCEPT !.prods = x]
  OBVIOUS
<1>7. Write(k)
  BY <1>4, <1>5, <1>6
<1>8. Books(k, unstaked, special, fixed) /\ k.now = t.now /\ k.refunds = t.refunds
  BY <1>3, <1>6, ProducersBooks
<1> QED
  BY <1>1, <1>3, <1>7, <1>8, CallBooks, KeptWaited

\* a rounding error,
LEMMA DriftBooks ==
    ASSUME BooksInv, Drift
    PROVE  BooksInv' /\ Waited
<1>1. UNCHANGED <<now, unstaked, special, fixed>>
  BY DEF Drift, Call
<1>2. PICK t : t = Now
  OBVIOUS
<1>3. Books(t, unstaked, special, fixed) /\ t.now = now /\ t.refunds = refunds
  BY <1>2, BooksNow
<1>4. PICK x : x = -1
  OBVIOUS
<1>5. PICK k : k = [t EXCEPT !.total_producer_vote_weight = x]
  OBVIOUS
<1>6. Write(k)
  BY <1>2, <1>4, <1>5 DEF Drift
<1>7. Books(k, unstaked, special, fixed) /\ k.now = t.now /\ k.refunds = t.refunds
  BY <1>3, <1>5, ProducersBooks
<1> QED
  BY <1>1, <1>3, <1>6, <1>7, CallBooks, KeptWaited

\* The deferred transaction of a refund does what refund does, or nothing.
LEMMA RunDeferredBooks ==
    ASSUME BooksInv, RunDeferred
    PROVE  BooksInv' /\ Waited
<1>1. UNCHANGED <<now, unstaked, special, fixed>>
  BY DEF RunDeferred
<1>2. PICK n : n = Now
  OBVIOUS
<1>3. Books(n, unstaked, special, fixed) /\ n.now = now /\ n.refunds = refunds
  BY <1>2, BooksNow
<1>4. PICK a : \/ Write([n EXCEPT !.deferred = Erase(n.deferred, a)])
               \/ Write(refund([n EXCEPT !.deferred = Erase(n.deferred, a)], a))
  BY <1>2 DEF RunDeferred
<1>5. PICK d : d = Erase(n.deferred, a)
  OBVIOUS
<1>6. PICK t : t = [n EXCEPT !.deferred = d]
  OBVIOUS
<1>7. Write(t) \/ Write(refund(t, a))
  BY <1>4, <1>5, <1>6
<1>8. Books(t, unstaked, special, fixed) /\ t.refunds = n.refunds /\ t.now = n.now
  BY <1>3, <1>5, <1>6, DeferredBooks
<1>9. CASE Write(t)
  BY <1>1, <1>3, <1>8, <1>9, CallBooks, KeptWaited
<1>10. CASE Write(refund(t, a))
  <2>1. PICK k : k = refund(t, a)
    OBVIOUS
  <2>2. Write(k) /\ k.ok
    BY <1>10, <2>1 DEF Write
  <2>3. a \in DOMAIN t.refunds
    <3>1. SUFFICES ASSUME a \notin DOMAIN t.refunds PROVE FALSE
      OBVIOUS
    <3>2. k = Check(t, FALSE)
      BY <2>1, <3>1 DEF refund
    <3>3. IsTables(t)
      BY <1>8 DEF Books, StakesOK, StakeTables
    <3>4. ~Check(t, FALSE).ok
      BY <3>3, CheckFrame
    <3> QED
      BY <2>2, <3>2, <3>4
  <2>4. a \in Users
    BY <1>8, <2>3 DEF Books, StakesOK, StakeTables, RefundRows
  <2> QED
    BY <1>1, <1>3, <1>8, <2>1, <2>2, <2>4, PaidBooks
<1> QED
  BY <1>7, <1>9, <1>10

\* and a block.
LEMMA BlockBooks ==
    ASSUME BooksInv, Block
    PROVE  BooksInv' /\ Waited
<1>1. UNCHANGED <<unstaked, special, fixed>>
  BY DEF Block
<1>2. PICK t : t = Now
  OBVIOUS
<1>3. Books(t, unstaked, special, fixed) /\ t.now = now /\ t.refunds = refunds
  BY <1>2, BooksNow
<1>4. PICK j : j = recalculate_votes(t)
  OBVIOUS
<1>5. PICK k : k = IF j.ok THEN j ELSE t
  OBVIOUS
<1>6. Write(k) /\ now' = now + 1
  BY <1>2, <1>4, <1>5 DEF Block
<1>7. Books(k, unstaked, special, fixed) /\ k.now = t.now /\ k.refunds = t.refunds
  <2>1. IsTables(t) /\ VoterTable(t.voters)
    BY <1>3 DEF Books, StakesOK, StakeTables
  <2>2. Voted(t, j)
    BY <1>4, <2>1, recalculate_votesVoted
  <2>3. Books(j, unstaked, special, fixed) /\ j.now = t.now /\ j.refunds = t.refunds
    BY <1>3, <2>2, VotedBooks
  <2> QED
    BY <1>3, <1>5, <2>3
<1>8. PICK n : n = now'
  OBVIOUS
<1>9. PICK h : h = [k EXCEPT !.now = n]
  OBVIOUS
<1>10. IsTables(k)
  BY <1>7 DEF Books, StakesOK, StakeTables
<1>11. Now' = h
  <2>1. Now' = [k EXCEPT !.now = n]
    BY <1>6, <1>8, <1>10, Written
  <2> QED
    BY <1>9, <2>1
<1>12. Books(h, unstaked, special, fixed)
  <2>1. n = k.now + 1
    BY <1>3, <1>6, <1>7, <1>8
  <2> QED
    BY <1>7, <1>9, <2>1, LaterBooks
<1>13. BooksInv'
  <2>1. PICK u, s, f : u = unstaked /\ s = special /\ f = fixed
    OBVIOUS
  <2>2. Books(h, u, s, f) /\ u = unstaked' /\ s = special' /\ f = fixed' /\ DOMAIN u = Users
    BY <1>1, <1>12, <2>1 DEF BooksInv
  <2>3. BooksInv' <=> Books(Now', unstaked', special', fixed') /\ DOMAIN unstaked' = Users
    BY DEF BooksInv
  <2> QED
    BY <1>11, <2>2, <2>3
<1>14. refunds' = refunds
  BY <1>3, <1>6, <1>7 DEF Write
<1> QED
  BY <1>13, <1>14, KeptWaited

\* A step that changes nothing.
LEMMA StutterBooks ==
    ASSUME BooksInv, UNCHANGED vars
    PROVE  BooksInv' /\ Waited
<1>1. UNCHANGED <<tables, now, unstaked, special, fixed>>
  BY DEF vars
<1>2. Now' = Now /\ refunds' = refunds
  BY <1>1 DEF Now, tables
<1>3. BooksInv' <=> Books(Now', unstaked', special', fixed') /\ DOMAIN unstaked' = Users
  BY DEF BooksInv
<1>4. BooksInv'
  <2>1. PICK n, u, s, f : n = Now /\ u = unstaked /\ s = special /\ f = fixed
    OBVIOUS
  <2>2. Books(n, u, s, f) /\ DOMAIN u = Users /\ n = Now' /\ u = unstaked' /\ s = special' /\ f = fixed'
    BY <1>1, <1>2, <2>1 DEF BooksInv
  <2> QED
    BY <1>3, <2>2
<1> QED
  BY <1>2, <1>4, KeptWaited

\* The books are right after every step, and a refund is paid only when it is due.
LEMMA NextBooks ==
    ASSUME BooksInv, [Next]_vars
    PROVE  BooksInv' /\ Waited
<1>1. CASE UNCHANGED vars
  BY <1>1, StutterBooks
<1>2. CASE Next
  BY <1>2, StakeBooks, UnstakeBooks, ClaimRefundBooks, BuyRamBooks, SellRamBooks, SetLimitsBooks,
     SetRamBooks, VoteBooks, ResignProxyBooks, ChangeProducerBooks, RunDeferredBooks, DriftBooks,
     BlockBooks DEF Next
<1> QED
  BY <1>1, <1>2

\* Stakes, refunds, RAM and limits are accounted for in every state.
LEMMA BooksAlways == Spec => []BooksInv
<1>1. Init => BooksInv
  BY InitBooks
<1>2. BooksInv /\ [Next]_vars => BooksInv'
  BY NextBooks
<1> QED
  BY <1>1, <1>2, PTL DEF Spec
-----------------------------------------------------------------------------
(* The properties                                                          *)

\* A sum over some rows is the sum of the column of those rows.
LEMMA PartOfColumn ==
    ASSUME NEW rows, IsFiniteSet(DOMAIN rows), NEW S, S \subseteq DOMAIN rows,
           NEW part, part = [k \in S |-> Sum2(rows[k])]
    PROVE  SumOver([k \in DOMAIN rows |-> Sum2(rows[k])], S) = SumOf(part)
<1>1. PICK all : all = [k \in DOMAIN rows |-> Sum2(rows[k])]
  OBVIOUS
<1>2. IsFiniteSet(S) /\ DOMAIN part = S
  BY FS_Subset
<1>3. \A k \in S : all[k] = part[k]
  BY <1>1
<1>4. SumOver(all, S) = SumOver(part, S)
  BY <1>2, <1>3, SumAgrees
<1> QED
  BY <1>1, <1>2, <1>4 DEF SumOf

\* What eosio.stake holds is all that is staked and all that waits to be
\* refunded, and stakes, bandwidth and votable stakes add up: whatever is
\* staked for oneself or others, unstaked, staked again out of a refund, or
\* refunded (changebw, refund).
THEOREM StakesAreAccounted == Spec => []StakesAccounted
<1>1. BooksInv => StakesAccounted
  <2> SUFFICES ASSUME BooksInv PROVE StakesAccounted
    OBVIOUS
  <2>1. PICK t : t = Now
    OBVIOUS
  <2>2. StakesOK(t) /\ t.ledger = ledger /\ t.delband = delband /\ t.userres = userres
        /\ t.refunds = refunds /\ t.voters = voters
    BY <2>1, BooksNow, NowTables DEF Books
  <2>3. StakeTables(t)
    BY <2>2 DEF StakesOK
  <2>4. PICK amounts : amounts = [k \in DOMAIN delband |-> Sum2(delband[k])]
    OBVIOUS
  <2>5. ledger[stake_account] = BalanceOf(ledger, stake_account)
    BY <2>2, <2>3 DEF StakeTables, Funded, BalanceOf
  <2>6. ledger[stake_account]
          = SumOf(amounts) + SumOf([a \in DOMAIN refunds |-> Sum2(refunds[a].weights)])
    BY <2>2, <2>4, <2>5 DEF StakesOK, AmountsOf, AwaitedOf
  <2>7. IsFiniteSet(DOMAIN delband)
    <3>1. IsFiniteSet(Users \X Users)
      BY ResourcesAssumption, FS_Product
    <3> QED
      BY <2>2, <2>3, <3>1, FS_Subset DEF StakeTables, StakeRows
  <2>8. ASSUME NEW a \in Users
        PROVE  /\ Sum2(Resources(Now, a).weights)
                    = SumOver(amounts, {k \in DOMAIN delband : k[2] = a})
               /\ (IF a \in DOMAIN voters THEN voters[a].staked ELSE 0)
                    = SumOver(amounts, {k \in DOMAIN delband : k[1] = a})
    <3>1. Sum2(OwnedBy(userres, a).weights) = SumOf(ReceivedBy(delband, a))
          /\ StakedBy(voters, a) = SumOf(GivenBy(delband, a))
      BY <2>2 DEF StakesOK
    <3>2. Resources(Now, a) = OwnedBy(userres, a)
      BY ResourcesOwned, NowTables
    <3>3. SumOver(amounts, {k \in DOMAIN delband : k[2] = a}) = SumOf(ReceivedBy(delband, a))
      <4>1. PICK S : S = {k \in DOMAIN delband : k[2] = a}
        OBVIOUS
      <4>2. ReceivedBy(delband, a) = [k \in S |-> Sum2(delband[k])] /\ S \subseteq DOMAIN delband
        BY <4>1 DEF ReceivedBy
      <4> QED
        BY <2>4, <2>7, <4>1, <4>2, PartOfColumn
    <3>4. SumOver(amounts, {k \in DOMAIN delband : k[1] = a}) = SumOf(GivenBy(delband, a))
      <4>1. PICK S : S = {k \in DOMAIN delband : k[1] = a}
        OBVIOUS
      <4>2. GivenBy(delband, a) = [k \in S |-> Sum2(delband[k])] /\ S \subseteq DOMAIN delband
        BY <4>1 DEF GivenBy
      <4> QED
        BY <2>4, <2>7, <4>1, <4>2, PartOfColumn
    <3> QED
      BY <3>1, <3>2, <3>3, <3>4 DEF StakedBy
  <2> QED
    BY <2>4, <2>6, <2>8 DEF StakesAccounted
<1> QED
  BY <1>1, BooksAlways, PTL

\* Unstaked tokens come back only three days after their owner has last
\* unstaked: the refund action, called by its owner or deferred, is what takes
\* the row and checks its time (refund, and update_refund's new request time).
THEOREM RefundsWait == Spec => RefundWaits
<1>1. BooksInv /\ [Next]_vars
        => [ \A a \in DOMAIN refunds :
               a \notin DOMAIN refunds' /\ ledger'[stake_account] < ledger[stake_account]
                 => now + 1 >= unstaked[a] + refund_delay ]_vars
  BY NextBooks DEF Waited
<1> QED
  BY <1>1, BooksAlways, PTL DEF Spec, RefundWaits

\* A deferred refund that finds something to refund is never too early for
\* it: every change of a refund's time sends it anew (update_refund).
THEOREM DeferredIsNotEarly == Spec => []DeferredNotEarly
<1>1. BooksInv => DeferredNotEarly
  <2> SUFFICES ASSUME BooksInv PROVE DeferredNotEarly
    OBVIOUS
  <2>1. PICK t : t = Now
    OBVIOUS
  <2>2. RefundsOK(t, unstaked) /\ t.refunds = refunds /\ t.deferred = deferred
    BY <2>1, BooksNow, NowTables DEF Books
  <2> QED
    BY <2>2 DEF RefundsOK, DeferredNotEarly
<1> QED
  BY <1>1, BooksAlways, PTL

\* Every byte of RAM is reserved or for sale, and eosio.ram can buy all that
\* is reserved back, however prices moved and the supply grew: no curve of
\* the market ever gives out more than was paid in (direct_convert, setram,
\* update_ram_supply), so sellram's check that "shouldn't happen" does not.
THEOREM RamIsBacked == Spec => []RamBacked
<1>1. BooksInv => RamBacked
  <2> SUFFICES ASSUME BooksInv PROVE RamBacked
    OBVIOUS
  <2>1. PICK t : t = Now
    OBVIOUS
  <2>2. RamOK(t) /\ t.ledger = ledger /\ t.userres = userres /\ t.market = market /\ t.ram = ram
    BY <2>1, BooksNow, NowTables DEF Books
  <2>3. IsTables(t) /\ t.now \in Nat
    BY <2>1, BooksNow DEF Books, StakesOK, StakeTables
  <2>4. MarketOK(t.market, t.ram) /\ t.ram.last_ram_increase <= t.now
    BY <2>2 DEF RamOK
  <2>5. PICK h : h = update_ram_supply(t)
    OBVIOUS
  <2>6. MarketOK(h.market, h.ram) /\ h.ram.reserved = t.ram.reserved /\ h.ram.stake = t.ram.stake
    BY <2>3, <2>4, <2>5, update_ram_supplyEffect
  <2>7. \A bytes \in 1..ram.reserved : TokensFor(update_ram_supply(Now).market, bytes) <= ram.stake
    <3> SUFFICES ASSUME NEW bytes \in 1..ram.reserved
                 PROVE  TokensFor(update_ram_supply(Now).market, bytes) <= ram.stake
      OBVIOUS
    <3>1. PICK m, r : m = h.market /\ r = h.ram
      OBVIOUS
    <3>2. MarketOK(m, r) /\ bytes \in 1..r.reserved /\ r.stake = ram.stake
      BY <2>2, <2>6, <3>1
    <3>3. TokensFor(m, bytes) <= r.stake
      BY <3>2, BuyBack
    <3> QED
      BY <2>1, <2>5, <3>1, <3>2, <3>3
  <2>8. market.base + ram.reserved = ram.max_ram_size
        /\ market.quote = NewMarket(MaxRam, Supply).quote + ram.stake
    BY <2>2, <2>4 DEF MarketOK, InitialQuote
  <2>9. ram.reserved = SumOf([a \in DOMAIN userres |-> userres[a].ram])
        /\ ram.stake = BalanceOf(ledger, ram_account)
    BY <2>2 DEF RamOK, RamOf
  <2> QED
    BY <2>7, <2>8, <2>9 DEF RamBacked
<1> QED
  BY <1>1, BooksAlways, PTL

\* The limits of an account are what it has staked and bought, but for those
\* that the administration manages, which stay as they were set
\* (update_user_resources, set_ram_limit, setacctram and its like).
THEOREM LimitsDoMatch == Spec => []LimitsMatch
<1>1. BooksInv => LimitsMatch
  <2> SUFFICES ASSUME BooksInv, NEW a \in Users
               PROVE  LET r == Resources(Now, a)
                      IN  /\ \A kind \in Managed(Now, a) : limits[a][kind] = fixed[<<a, kind>>]
                          /\ a \notin special =>
                               /\ \A kind \in Kinds \ Managed(Now, a) :
                                    limits[a][kind] = r.weights[kind]
                               /\ "ram" \notin Managed(Now, a) =>
                                    limits[a].ram \in {r.ram + ram_gift_bytes}
                                                        \cup (IF r.ram = 0 THEN {0} ELSE {})
    BY DEF LimitsMatch
  <2>1. PICK t : t = Now
    OBVIOUS
  <2>2. LimitsOK(t, special, fixed) /\ t.userres = userres /\ t.voters = voters /\ t.limits = limits
    BY <2>1, BooksNow, NowTables DEF Books
  <2>3. Resources(Now, a) = OwnedBy(userres, a)
    BY ResourcesOwned, NowTables
  <2>4. Managed(Now, a) = ManagedBy(voters, a)
    BY NowTables DEF Managed, ManagedBy
  <2>5. LimitOK(limits[a], OwnedBy(userres, a), ManagedBy(voters, a), special, fixed, a)
    BY <2>2 DEF LimitsOK
  <2>6. LimitOK(limits[a], Resources(Now, a), Managed(Now, a), special, fixed, a)
    BY <2>3, <2>4, <2>5
  <2> QED
    BY <2>6 DEF LimitOK
<1> QED
  BY <1>1, BooksAlways, PTL

(***************************************************************************)
(* Votes, as ballots that are counted                                      *)
(***************************************************************************)

\* What the row of a voter says has been counted for it.
Ballot(v) == [proxy |-> v.proxy, stake |-> v.last_stake,
              producers |-> v.producers, weight |-> v.last_vote_weight]
NoBallot == [proxy |-> 0, stake |-> 0, producers |-> {}, weight |-> 0]
IsBallot(k) == k.stake \in Nat /\ k.weight \in Nat

\* What a ballot gives a proxy, and a producer, and the columns of that for
\* all ballots c.
Given(k, q) == IF k.proxy = q THEN k.stake ELSE 0
VoteFor(k, p) == IF p \in k.producers THEN k.weight ELSE 0
GivenTo(c, q) == [b \in DOMAIN c |-> Given(c[b], q)]
CastFor(c, p) == [b \in DOMAIN c |-> VoteFor(c[b], p)]
BallotOf(c, a) == IF a \in DOMAIN c THEN c[a] ELSE NoBallot

IsCast(c) == IsFiniteSet(DOMAIN c) /\ \A b \in DOMAIN c : IsBallot(c[b])

IsProducer(r) == r = [x \in {"total_votes", "is_active"} |-> r[x]]
Tally(r) == [p \in DOMAIN r |-> r[p].total_votes]

\* The tables have counted these ballots, with an error of e in the total.
Tallied(t, c, e) ==
    /\ IsCast(c)
    /\ \A q \in DOMAIN c : t.voters[q].proxied_vote_weight = SumOf(GivenTo(c, q))
    /\ DOMAIN t.prods = Producers
    /\ \A p \in Producers : IsProducer(t.prods[p]) /\ t.prods[p].total_votes = SumOf(CastFor(c, p))
    /\ t.total_producer_vote_weight \in Int /\ e \in Int
    /\ SumOf(Tally(t.prods)) = t.total_producer_vote_weight + e

\* The columns can be summed.
LEMMA CastColumns ==
    ASSUME NEW c, IsCast(c)
    PROVE  \A x : /\ IsTable(GivenTo(c, x)) /\ IsTable(CastFor(c, x))
                  /\ SumOf(GivenTo(c, x)) \in Nat /\ SumOf(CastFor(c, x)) \in Nat
<1> SUFFICES ASSUME NEW x
             PROVE  /\ IsTable(GivenTo(c, x)) /\ IsTable(CastFor(c, x))
                    /\ SumOf(GivenTo(c, x)) \in Nat /\ SumOf(CastFor(c, x)) \in Nat
  OBVIOUS
<1>1. PICK g : g = GivenTo(c, x)
  OBVIOUS
<1>2. PICK f : f = CastFor(c, x)
  OBVIOUS
<1>3. /\ g = [b \in DOMAIN g |-> g[b]] /\ DOMAIN g = DOMAIN c
      /\ f = [b \in DOMAIN f |-> f[b]] /\ DOMAIN f = DOMAIN c
  BY <1>1, <1>2 DEF GivenTo, CastFor
<1>4. \A b \in DOMAIN c : g[b] \in Nat /\ f[b] \in Nat
  BY <1>1, <1>2 DEF GivenTo, CastFor, Given, VoteFor, IsCast, IsBallot
<1>5. IsFiniteSet(DOMAIN c)
  BY DEF IsCast
<1>6. SumOf(g) \in Nat /\ SumOf(f) \in Nat
  BY <1>3, <1>4, <1>5, SumNat DEF SumOf
<1> QED
  BY <1>1, <1>2, <1>3, <1>4, <1>5, <1>6 DEF IsTable

\* Another ballot is cast, or the first: what was given to each proxy and
\* producer changes by what it gives and what the old one gave.
BallotMoves(c, d, a) ==
    /\ IsCast(d)
    /\ \A q : SumOf(GivenTo(d, q)) = SumOf(GivenTo(c, q)) - Given(BallotOf(c, a), q) + Given(d[a], q)
    /\ \A p : SumOf(CastFor(d, p)) = SumOf(CastFor(c, p)) - VoteFor(BallotOf(c, a), p) + VoteFor(d[a], p)

\* So it is.
LEMMA BallotMoved ==
    ASSUME NEW c, IsCast(c), NEW d, NEW a, DOMAIN d = DOMAIN c \cup {a},
           \A b \in DOMAIN c \ {a} : d[b] = c[b], IsBallot(d[a])
    PROVE  BallotMoves(c, d, a)
<1>1. IsCast(d)
  <2>1. IsFiniteSet(DOMAIN d)
    BY FS_AddElement DEF IsCast
  <2> QED
    BY <2>1 DEF IsCast
<1>2. DOMAIN d \ {a} = DOMAIN c \ {a} /\ a \in DOMAIN d
  OBVIOUS
<1>3. ASSUME NEW q
      PROVE  SumOf(GivenTo(d, q)) = SumOf(GivenTo(c, q)) - Given(BallotOf(c, a), q) + Given(d[a], q)
  <2>1. PICK f : f = GivenTo(c, q)
    OBVIOUS
  <2>2. PICK g : g = GivenTo(d, q)
    OBVIOUS
  <2>3. /\ DOMAIN f = DOMAIN c /\ DOMAIN g = DOMAIN d
        /\ \A b \in DOMAIN c : f[b] = Given(c[b], q)
        /\ \A b \in DOMAIN d : g[b] = Given(d[b], q)
    BY <2>1, <2>2 DEF GivenTo
  <2>4. IsTable(f) /\ IsTable(g)
    BY <1>1, <2>1, <2>2, CastColumns
  <2>5. SumOf(g) = SumOf(f) + BalanceOf(g, a) - BalanceOf(f, a) /\ SumOf(f) \in Int
    <3>1. \A b \in DOMAIN f \ {a} : g[b] = f[b]
      BY <1>2, <2>3
    <3>2. DOMAIN g \ {a} = DOMAIN f \ {a} /\ (a \in DOMAIN g => g[a] \in Int)
      BY <1>2, <2>3, <2>4 DEF IsTable
    <3> QED
      BY <2>4, <3>1, <3>2, SumMoves
  <2>6. BalanceOf(g, a) = Given(d[a], q)
    BY <1>2, <2>3 DEF BalanceOf
  <2>7. BalanceOf(f, a) = Given(BallotOf(c, a), q)
    BY <2>3 DEF BalanceOf, BallotOf, Given, NoBallot
  <2>8. BalanceOf(g, a) \in Int /\ BalanceOf(f, a) \in Int
    BY <2>4, BalanceInt
  <2> QED
    BY <2>1, <2>2, <2>5, <2>6, <2>7, <2>8
<1>4. ASSUME NEW p
      PROVE  SumOf(CastFor(d, p)) = SumOf(CastFor(c, p)) - VoteFor(BallotOf(c, a), p) + VoteFor(d[a], p)
  <2>1. PICK f : f = CastFor(c, p)
    OBVIOUS
  <2>2. PICK g : g = CastFor(d, p)
    OBVIOUS
  <2>3. /\ DOMAIN f = DOMAIN c /\ DOMAIN g = DOMAIN d
        /\ \A b \in DOMAIN c : f[b] = VoteFor(c[b], p)
        /\ \A b \in DOMAIN d : g[b] = VoteFor(d[b], p)
    BY <2>1, <2>2 DEF CastFor
  <2>4. IsTable(f) /\ IsTable(g)
    BY <1>1, <2>1, <2>2, CastColumns
  <2>5. SumOf(g) = SumOf(f) + BalanceOf(g, a) - BalanceOf(f, a) /\ SumOf(f) \in Int
    <3>1. \A b \in DOMAIN f \ {a} : g[b] = f[b]
      BY <1>2, <2>3
    <3>2. DOMAIN g \ {a} = DOMAIN f \ {a} /\ (a \in DOMAIN g => g[a] \in Int)
      BY <1>2, <2>3, <2>4 DEF IsTable
    <3> QED
      BY <2>4, <3>1, <3>2, SumMoves
  <2>6. BalanceOf(g, a) = VoteFor(d[a], p)
    BY <1>2, <2>3 DEF BalanceOf
  <2>7. BalanceOf(f, a) = VoteFor(BallotOf(c, a), p)
    BY <2>3 DEF BalanceOf, BallotOf, VoteFor, NoBallot
  <2>8. BalanceOf(g, a) \in Int /\ BalanceOf(f, a) \in Int
    BY <2>4, BalanceInt
  <2> QED
    BY <2>1, <2>2, <2>5, <2>6, <2>7, <2>8
<1> QED
  BY <1>1, <1>3, <1>4 DEF BallotMoves

-----------------------------------------------------------------------------
(* Votes are added to producers                                            *)

\* From t to h each of a set of producers has so many votes more.
VotesAdded(t, h, ps, delta) ==
    /\ Frame(t, h, {"prods", "total_producer_vote_weight"}) /\ h.ok = t.ok
    /\ h.prods = [p \in DOMAIN t.prods |-> IF p \in ps
                    THEN WithVotes(t.prods[p], t.prods[p].total_votes + delta) ELSE t.prods[p]]
    /\ h.total_producer_vote_weight = t.total_producer_vote_weight + delta * Cardinality(ps)

\* This is what AddVotes does to the tables it changes.
LEMMA AddVotesRows ==
    ASSUME NEW t, IsTables(t), NEW ps, NEW delta, NEW h, h = AddVotes(t, ps, delta)
    PROVE  VotesAdded(t, h, ps, delta)
<1> DEFINE r == [p \in DOMAIN t.prods |-> IF p \in ps
                   THEN WithVotes(t.prods[p], t.prods[p].total_votes + delta) ELSE t.prods[p]]
           w == t.total_producer_vote_weight + delta * Cardinality(ps)
<1>1. h = [t EXCEPT !.prods = r, !.total_producer_vote_weight = w]
  BY DEF AddVotes
<1> SUFFICES /\ Frame(t, h, {"prods", "total_producer_vote_weight"}) /\ h.ok = t.ok
             /\ h.prods = r /\ h.total_producer_vote_weight = w
  BY DEF VotesAdded
<1> HIDE DEF r, w
<1>2. PICK j : j = [t EXCEPT !.prods = r]
  OBVIOUS
<1>3. h = [j EXCEPT !.total_producer_vote_weight = w]
  BY <1>1, <1>2
<1>4. Frame(t, j, {"prods"}) /\ j.prods = r /\ j.ok = t.ok
  BY <1>2, ProdsSet
<1>5. IsTables(j)
  BY <1>4 DEF Frame
<1>6. Frame(j, h, {"total_producer_vote_weight"}) /\ h.total_producer_vote_weight = w /\ h.ok = j.ok
  BY <1>3, <1>5, TotalSet
<1>7. h.prods = r
  BY <1>4, <1>6 DEF Frame, TableFields
<1>8. Frame(t, h, {"prods", "total_producer_vote_weight"})
  <2>1. Frame(t, h, {"prods"} \cup {"total_producer_vote_weight"})
    BY <1>4, <1>6, FrameChain
  <2> QED
    BY <2>1, FrameWider
<1> QED
  BY <1>4, <1>6, <1>7, <1>8

\* A sum grows by as much for each of a set of rows that grow by it.
LEMMA SumGrows ==
    ASSUME NEW f, IsTable(f), NEW S, S \subseteq DOMAIN f, NEW delta \in Int, NEW g,
           DOMAIN g = DOMAIN f, \A x \in DOMAIN f : g[x] = IF x \in S THEN f[x] + delta ELSE f[x]
    PROVE  SumOf(g) = SumOf(f) + delta * Cardinality(S) /\ Cardinality(S) \in Nat
<1>1. IsFiniteSet(DOMAIN f) /\ IsFiniteSet(S) /\ IsFiniteSet(DOMAIN f \ S) /\ \A x \in DOMAIN f : f[x] \in Int
  BY FS_Subset DEF IsTable
<1>2. PICK k : k = [x \in DOMAIN f |-> IF x \in S THEN delta ELSE 0]
  OBVIOUS
<1>3. IsPlus(g, f, k, DOMAIN f)
  BY <1>1, <1>2 DEF IsPlus
<1>4. SumOver(g, DOMAIN f) = SumOver(f, DOMAIN f) + SumOver(k, DOMAIN f)
  BY <1>1, <1>3, SumPlus
<1>5. SumOver(k, S) = delta * Cardinality(S)
  <2>1. IsEven(k, delta, S)
    BY <1>2 DEF IsEven
  <2> QED
    BY <1>1, <2>1, SumConstant
<1>6. SumOver(k, DOMAIN f \ S) = 0
  <2>1. IsEven(k, 0, DOMAIN f \ S)
    BY <1>2 DEF IsEven
  <2>2. SumOver(k, DOMAIN f \ S) = 0 * Cardinality(DOMAIN f \ S)
    BY <1>1, <2>1, SumConstant
  <2>3. Cardinality(DOMAIN f \ S) \in Nat
    BY <1>1, FS_CardinalityType
  <2> QED
    BY <2>2, <2>3
<1>7. SumOver(k, DOMAIN f) = SumOver(k, S) + SumOver(k, DOMAIN f \ S)
  <2>1. S \cup (DOMAIN f \ S) = DOMAIN f /\ S \cap (DOMAIN f \ S) = {}
    OBVIOUS
  <2>2. \A x \in DOMAIN f : k[x] \in Int
    BY <1>2
  <2>3. PICK R : R = DOMAIN f \ S
    OBVIOUS
  <2>4. SumOver(k, S \cup R) = SumOver(k, S) + SumOver(k, R)
    BY <1>1, <2>1, <2>2, <2>3, SumUnion
  <2> QED
    BY <2>1, <2>3, <2>4
<1>8. Cardinality(S) \in Nat
  BY <1>1, FS_CardinalityType
<1> QED
  BY <1>4, <1>5, <1>6, <1>7, <1>8 DEF SumOf

\* Votes that are added to producers are the tally of other ballots, which
\* give them so much more.
LEMMA AddVotesTallied ==
    ASSUME NEW t, IsTables(t), NEW c, NEW e, Tallied(t, c, e), NEW ps, ps \subseteq Producers, NEW delta \in Int,
           NEW d, IsCast(d), DOMAIN d = DOMAIN c,
           \A q \in DOMAIN c : SumOf(GivenTo(d, q)) = SumOf(GivenTo(c, q)),
           \A p \in Producers : SumOf(CastFor(d, p)) = SumOf(CastFor(c, p)) + IF p \in ps THEN delta ELSE 0,
           NEW h, h = AddVotes(t, ps, delta)
    PROVE  Tallied(h, d, e)
<1>1. /\ Frame(t, h, {"prods", "total_producer_vote_weight"})
      /\ h.prods = [p \in DOMAIN t.prods |-> IF p \in ps
                      THEN WithVotes(t.prods[p], t.prods[p].total_votes + delta) ELSE t.prods[p]]
      /\ h.total_producer_vote_weight = t.total_producer_vote_weight + delta * Cardinality(ps)
  BY AddVotesRows DEF VotesAdded
<1>2. h.voters = t.voters
  BY <1>1 DEF Frame, TableFields
<1>3. \A q \in DOMAIN d : h.voters[q].proxied_vote_weight = SumOf(GivenTo(d, q))
  BY <1>2 DEF Tallied
<1>4. DOMAIN t.prods = Producers /\ DOMAIN h.prods = Producers
  BY <1>1 DEF Tallied
<1>5. ASSUME NEW p \in Producers
      PROVE  /\ IsProducer(h.prods[p]) /\ h.prods[p].total_votes = SumOf(CastFor(d, p))
             /\ h.prods[p].total_votes = (IF p \in ps THEN t.prods[p].total_votes + delta ELSE t.prods[p].total_votes)
             /\ t.prods[p].total_votes \in Int
  <2>1. PICK r : r = t.prods[p]
    OBVIOUS
  <2>2. IsProducer(r) /\ r.total_votes = SumOf(CastFor(c, p)) /\ r.total_votes \in Int
    BY <2>1, CastColumns DEF Tallied
  <2>3. h.prods[p] = IF p \in ps THEN WithVotes(r, r.total_votes + delta) ELSE r
    BY <1>1, <1>4, <2>1
  <2>4. PICK n : n = r.total_votes + delta
    OBVIOUS
  <2>5. IsProducer(WithVotes(r, n)) /\ WithVotes(r, n).total_votes = n
    BY <2>2 DEF IsProducer, WithVotes
  <2>6. h.prods[p].total_votes = IF p \in ps THEN r.total_votes + delta ELSE r.total_votes
    BY <2>3, <2>4, <2>5
  <2>7. IsProducer(h.prods[p])
    BY <2>2, <2>3, <2>4, <2>5
  <2>8. SumOf(CastFor(d, p)) = r.total_votes + IF p \in ps THEN delta ELSE 0
    BY <2>2
  <2>9. h.prods[p].total_votes = SumOf(CastFor(d, p))
    BY <2>2, <2>6, <2>8
  <2> QED
    BY <2>1, <2>2, <2>6, <2>7, <2>9
<1>6. SumOf(Tally(h.prods)) = SumOf(Tally(t.prods)) + delta * Cardinality(ps) /\ Cardinality(ps) \in Nat
  <2>1. PICK f : f = Tally(t.prods)
    OBVIOUS
  <2>2. PICK g : g = Tally(h.prods)
    OBVIOUS
  <2>3. /\ DOMAIN f = Producers /\ DOMAIN g = Producers /\ f = [p \in DOMAIN f |-> f[p]]
        /\ \A p \in Producers : f[p] = t.prods[p].total_votes /\ g[p] = h.prods[p].total_votes
    BY <1>4, <2>1, <2>2 DEF Tally
  <2>4. IsTable(f)
    BY <1>5, <2>3, ResourcesAssumption DEF IsTable
  <2>5. \A p \in DOMAIN f : g[p] = IF p \in ps THEN f[p] + delta ELSE f[p]
    BY <1>5, <2>3
  <2>6. ps \subseteq DOMAIN f /\ DOMAIN g = DOMAIN f
    BY <2>3
  <2>7. SumOf(g) = SumOf(f) + delta * Cardinality(ps) /\ Cardinality(ps) \in Nat
    BY <2>4, <2>5, <2>6, SumGrows
  <2> QED
    BY <2>1, <2>2, <2>7
<1>7. /\ h.total_producer_vote_weight \in Int /\ e \in Int
      /\ SumOf(Tally(h.prods)) = h.total_producer_vote_weight + e
  <2>1. t.total_producer_vote_weight \in Int /\ e \in Int /\ SumOf(Tally(t.prods)) = t.total_producer_vote_weight + e
    BY DEF Tallied
  <2>2. PICK m : m = delta * Cardinality(ps)
    OBVIOUS
  <2>3. m \in Int
    BY <1>6, <2>2
  <2>4. h.total_producer_vote_weight = t.total_producer_vote_weight + m
    BY <1>1, <2>2
  <2>5. SumOf(Tally(h.prods)) = SumOf(Tally(t.prods)) + m
    BY <1>6, <2>2
  <2> QED
    BY <2>1, <2>3, <2>4, <2>5
<1> QED
  BY <1>3, <1>4, <1>5, <1>7 DEF Tallied

-----------------------------------------------------------------------------
(* The rows of voters                                                      *)

VoterTyped(v) ==
    /\ v.producers \subseteq Producers /\ Cardinality(v.producers) <= MAX_VOTE_PRODUCERS
    /\ v.is_proxy \in BOOLEAN
    /\ v.staked \in Nat /\ v.last_stake \in Nat
    /\ v.last_vote_weight \in Nat /\ v.proxied_vote_weight \in Nat
    /\ v.proxy # 0 => v.producers = {} /\ ~v.is_proxy

RowsTyped(u) ==
    \A a \in DOMAIN u : VoterTyped(u[a]) /\ (u[a].proxy # 0 => u[a].proxy \in DOMAIN u \ {a})

\* What has been counted for a voter is its stake, and it has been counted at
\* all if it weighs something; a proxy's is Fresh if that of others is in it.
Counted(v) ==
    /\ v.last_vote_weight = inverse_vote_weight(v.last_stake, v.producers)
    /\ v.proxy # 0 \/ (~v.is_proxy /\ v.producers # {}) => v.last_stake = v.staked
    /\ v.is_proxy /\ v.staked > 0 /\ v.last_vote_weight = 0 => weight_of[Cardinality(v.producers)] = 0
Fresh(v) ==
    v.is_proxy /\ v.staked > 0 => v.last_vote_weight = inverse_vote_weight(TotalStaked(v), v.producers)
Blank(v) == v.last_stake = 0 /\ v.last_vote_weight = 0

\* The ballots of D by the rows of voters, but for that of a.
Ballots(u, D, a, k) == [b \in D |-> IF b = a THEN k ELSE Ballot(u[b])]

\* While a votes: of D, whose ballots are counted, those in S have voted, and
\* k is what is counted for a.  The votes of proxy z may not be fresh.
Open(t, S, D, a, k, e, z) ==
    /\ IsTables(t) /\ VoterTable(t.voters) /\ RowsTyped(t.voters)
    /\ S \subseteq D /\ D \subseteq DOMAIN t.voters /\ a \in D \ S
    /\ \A b \in S : /\ Counted(t.voters[b]) /\ (b # z => Fresh(t.voters[b]))
                    /\ t.voters[b].proxy = 0 \/ t.voters[b].proxy \in D
    /\ \A b \in D \ (S \cup {a}) : Blank(t.voters[b])
    /\ Tallied(t, Ballots(t.voters, D, a, k), e)

\* From t to h the row of one voter has changed.
OneRow(t, h, q, row) ==
    /\ Frame(t, h, {"voters"}) /\ h.ok = t.ok
    /\ VoterTable(h.voters) /\ DOMAIN h.voters = DOMAIN t.voters
    /\ h.voters[q] = row /\ \A b \in DOMAIN t.voters \ {q} : h.voters[b] = t.voters[b]

\* A field of a row is written.
LEMMA FieldWritten ==
    ASSUME NEW t, IsTables(t), VoterTable(t.voters), NEW q \in DOMAIN t.voters,
           NEW x \in VoterFields \ {"staked", "managed"}, NEW v,
           NEW h, h = [t EXCEPT !.voters[q][x] = v], NEW row, row = [t.voters[q] EXCEPT ![x] = v]
    PROVE  OneRow(t, h, q, row)
<1>1. PICK w : w = [t.voters EXCEPT ![q] = row]
  OBVIOUS
<1>2. SameStakes(t.voters, w)
  BY <1>1, VoterFieldSet
<1>3. h = [t EXCEPT !.voters = w]
  BY <1>1
<1>4. Frame(t, h, {"voters"}) /\ h.voters = w /\ h.ok = t.ok
  <2>2. /\ Frame(t, [t EXCEPT !.voters = w], {"voters"}) /\ [t EXCEPT !.voters = w].voters = w
        /\ [t EXCEPT !.voters = w].ok = t.ok
    BY VotersSet
  <2> QED
    BY <1>3, <2>2
<1>5. w[q] = row /\ \A b \in DOMAIN t.voters \ {q} : w[b] = t.voters[b]
  BY <1>1
<1> QED
  BY <1>2, <1>4, <1>5 DEF OneRow, SameStakes

\* Rows of one voter after each other.
LEMMA RowsWritten ==
    ASSUME NEW t, NEW h, NEW k, NEW q, NEW r, NEW s, OneRow(t, h, q, r), OneRow(h, k, q, s)
    PROVE  OneRow(t, k, q, s)
<1>1. Frame(t, k, {"voters"})
  BY DEF OneRow, Frame
<1> QED
  BY <1>1 DEF OneRow

\* The weight of no producers, and of some.
LEMMA WeightsOf ==
    ASSUME NEW ps, ps \subseteq Producers, Cardinality(ps) <= MAX_VOTE_PRODUCERS
    PROVE  /\ weight_of[Cardinality(ps)] \in Nat
           /\ \A n \in Nat : inverse_vote_weight(n, ps) \in Nat
           /\ inverse_vote_weight(0, ps) = 0
           /\ ps = {} => weight_of[Cardinality(ps)] = 0 /\ \A n \in Nat : inverse_vote_weight(n, ps) = 0
           /\ IsFiniteSet(ps) /\ Cardinality(ps) \in Nat
<1>1. IsFiniteSet(ps) /\ Cardinality(ps) \in Nat
  BY ResourcesAssumption, FS_Subset, FS_CardinalityType
<1>2. PICK m : m = weight_of[Cardinality(ps)]
  OBVIOUS
<1>3. m \in Nat
  BY <1>1, <1>2, VotingAssumption
<1>4. ps = {} => m = 0
  BY <1>2, VotingAssumption, FS_EmptySet
<1>5. \A n : inverse_vote_weight(n, ps) = m * n
  BY <1>2 DEF inverse_vote_weight
<1>6. \A n \in Nat : m * n \in Nat /\ m * 0 = 0 /\ 0 * n = 0
  BY <1>3
<1> QED
  BY <1>1, <1>2, <1>3, <1>4, <1>5, <1>6, ZenonT(30)

\* A product of naturals that is zero.
LEMMA NoProduct ==
    ASSUME NEW m \in Nat, NEW n \in Nat, m * n = 0, n # 0
    PROVE  m = 0
BY SMT

\* Votes that weigh nothing are fresh, whatever joins them.
LEMMA WeightlessFresh ==
    ASSUME NEW v, VoterTyped(v), Counted(v), v.last_vote_weight = 0
    PROVE  Fresh(v)
<1>1. SUFFICES ASSUME v.is_proxy, v.staked > 0
               PROVE  inverse_vote_weight(TotalStaked(v), v.producers) = 0
  BY DEF Fresh
<1>2. weight_of[Cardinality(v.producers)] = 0
  BY <1>1 DEF Counted
<1>3. TotalStaked(v) \in Nat
  BY DEF TotalStaked, VoterTyped
<1>4. PICK n : n = TotalStaked(v)
  OBVIOUS
<1>5. 0 * n = 0
  BY <1>3, <1>4
<1> QED
  BY <1>2, <1>4, <1>5 DEF inverse_vote_weight

-----------------------------------------------------------------------------
(* The votes of a proxy follow its stake                                   *)

\* The row of a voter whose stake has been counted.
Recounted(v) ==
    [[v EXCEPT !.last_vote_weight = inverse_vote_weight(TotalStaked(v), v.producers)]
       EXCEPT !.last_stake = TotalStaked(v)]

\* It is counted, and fresh.
LEMMA RecountedRow ==
    ASSUME NEW v, IsVoter(v), VoterTyped(v), NEW r, r = Recounted(v)
    PROVE  /\ IsVoter(r) /\ VoterTyped(r) /\ Counted(r) /\ Fresh(r)
           /\ r.proxy = v.proxy /\ r.producers = v.producers /\ r.is_proxy = v.is_proxy
           /\ r.staked = v.staked /\ r.managed = v.managed /\ r.proxied_vote_weight = v.proxied_vote_weight
           /\ r.last_stake = TotalStaked(v)
           /\ r.last_vote_weight = inverse_vote_weight(TotalStaked(v), v.producers)
           /\ TotalStaked(v) \in Nat /\ r.last_vote_weight \in Nat
<1>1. PICK n : n = TotalStaked(v)
  OBVIOUS
<1>2. PICK w : w = inverse_vote_weight(n, v.producers)
  OBVIOUS
<1>3. r = [[v EXCEPT !.last_vote_weight = w] EXCEPT !.last_stake = n]
  BY <1>1, <1>2 DEF Recounted
<1>4. /\ IsVoter(r)
      /\ r.proxy = v.proxy /\ r.producers = v.producers /\ r.is_proxy = v.is_proxy
      /\ r.staked = v.staked /\ r.managed = v.managed /\ r.proxied_vote_weight = v.proxied_vote_weight
      /\ r.last_stake = n /\ r.last_vote_weight = w
  BY <1>3 DEF IsVoter, VoterFields
<1>5. n \in Nat /\ (v.is_proxy => n >= v.staked) /\ (~v.is_proxy => n = v.staked)
  BY <1>1 DEF TotalStaked, VoterTyped
<1>6. PICK m : m = weight_of[Cardinality(v.producers)]
  OBVIOUS
<1>7. m \in Nat /\ w \in Nat /\ w = m * n
  BY <1>2, <1>5, <1>6, WeightsOf DEF VoterTyped, inverse_vote_weight
<1>8. VoterTyped(r)
  BY <1>4, <1>5, <1>7 DEF VoterTyped
<1>9. TotalStaked(r) = n
  BY <1>1, <1>4 DEF TotalStaked
<1>10. v.is_proxy /\ v.staked > 0 /\ w = 0 => m = 0
  BY <1>5, <1>7, NoProduct DEF VoterTyped
<1>11. Counted(r)
  <2>1. v.proxy # 0 => ~v.is_proxy
    BY DEF VoterTyped
  <2> QED
    BY <1>2, <1>4, <1>5, <1>6, <1>10, <2>1 DEF Counted
<1>12. Fresh(r)
  BY <1>2, <1>4, <1>9 DEF Fresh
<1> QED
  BY <1>1, <1>2, <1>4, <1>5, <1>7, <1>8, <1>11, <1>12

\* One ballot among those of the rows.
LEMMA BallotsMoved ==
    ASSUME NEW u, NEW w, NEW D, NEW a, NEW k, NEW q \in D, q # a, IsCast(Ballots(u, D, a, k)),
           \A b \in D \ {q} : w[b] = u[b] \/ Ballot(w[b]) = Ballot(u[b]), IsBallot(Ballot(w[q]))
    PROVE  BallotMoves(Ballots(u, D, a, k), Ballots(w, D, a, k), q)
<1>1. PICK c : c = Ballots(u, D, a, k)
  OBVIOUS
<1>2. PICK d : d = Ballots(w, D, a, k)
  OBVIOUS
<1>3. DOMAIN c = D /\ DOMAIN d = D /\ d[q] = Ballot(w[q]) /\ \A b \in D \ {q} : d[b] = c[b]
  BY <1>1, <1>2 DEF Ballots
<1>4. BallotMoves(c, d, q)
  <2>1. DOMAIN d = DOMAIN c \cup {q} /\ \A b \in DOMAIN c \ {q} : d[b] = c[b]
    BY <1>3
  <2> QED
    BY <1>1, <1>3, <2>1, BallotMoved
<1> QED
  BY <1>1, <1>2, <1>4

\* The ballots of tables in which no ballot has changed.
LEMMA BallotsSame ==
    ASSUME NEW u, NEW w, NEW D, NEW a, NEW k, \A b \in D \ {a} : Ballot(w[b]) = Ballot(u[b])
    PROVE  Ballots(w, D, a, k) = Ballots(u, D, a, k)
BY DEF Ballots

\* A voter that does not vote through a proxy, and one that does and has been
\* counted, passes nothing on.
LEMMA PassOnEnds ==
    ASSUME NEW t, IsTables(t), VoterTable(t.voters), NEW q \in DOMAIN t.voters, NEW v, v = t.voters[q],
           VoterTyped(v), Counted(v),
           NEW g, g = (IF v.proxy = 0
                       THEN AddVotes(t, v.producers,
                                     inverse_vote_weight(TotalStaked(v), v.producers) - v.last_vote_weight)
                       ELSE Check(t, ~v.is_proxy)),
           NEW s, s = PassOn([t |-> t, at |-> q])
    PROVE  s.at = 0 /\ g.voters = t.voters /\ OneRow(g, s.t, q, Recounted(v))
<1>1. q # 0 /\ q \in Users
  BY ResourcesAssumption DEF VoterTable
<1>2. PICK total : total = TotalStaked(v)
  OBVIOUS
<1>3. PICK weight : weight = inverse_vote_weight(total, v.producers)
  OBVIOUS
<1> DEFINE passes == v.proxy # 0 /\ total # v.last_stake
           passed == [g EXCEPT !.voters[v.proxy].proxied_vote_weight = @ + total - v.last_stake]
<1>4. ~passes
  <2>1. v.proxy # 0 => total = v.last_stake
    BY <1>2 DEF TotalStaked, VoterTyped, Counted
  <2> QED
    BY <2>1
<1> DEFINE gg == IF passes THEN passed ELSE g
           hh == [gg EXCEPT !.voters[q].last_vote_weight = weight]
           kk == [hh EXCEPT !.voters[q].last_stake = total]
<1>5. s = [t |-> kk, at |-> IF passes THEN v.proxy ELSE 0]
  BY <1>1, <1>2, <1>3, ZenonT(30) DEF PassOn
<1> HIDE DEF passed
<1>6. PICK h : h = [g EXCEPT !.voters[q].last_vote_weight = weight]
  OBVIOUS
<1>7. PICK k : k = [h EXCEPT !.voters[q].last_stake = total]
  OBVIOUS
<1>8. s.t = k /\ s.at = 0
  <2>1. gg = g /\ (IF passes THEN v.proxy ELSE 0) = 0
    BY <1>4
  <2> HIDE DEF passes, gg
  <2>2. hh = h
    BY <1>6, <2>1
  <2> HIDE DEF hh
  <2>3. kk = k
    BY <1>7, <2>2
  <2> HIDE DEF kk
  <2> QED
    BY <1>5, <2>1, <2>3
<1>9. /\ IsTables(g) /\ g.voters = t.voters
  <2>1. CASE v.proxy = 0
    <3>1. PICK delta : delta = inverse_vote_weight(TotalStaked(v), v.producers) - v.last_vote_weight
      OBVIOUS
    <3>2. g = AddVotes(t, v.producers, delta)
      BY <2>1, <3>1
    <3>3. VotesAdded(t, g, v.producers, delta)
      BY <3>2, AddVotesRows
    <3>4. Frame(t, g, {"prods", "total_producer_vote_weight"})
      BY <3>3 DEF VotesAdded
    <3> QED
      BY <3>4 DEF Frame, TableFields
  <2>2. CASE v.proxy # 0
    <3>1. (~v.is_proxy) \in BOOLEAN
      OBVIOUS
    <3>2. Frame(t, Check(t, ~v.is_proxy), {})
      BY <3>1, CheckFrame
    <3> QED
      BY <2>2, <3>2 DEF Frame, TableFields
  <2> QED
    BY <2>1, <2>2
<1>10. PICK r : r = [v EXCEPT !.last_vote_weight = weight]
  OBVIOUS
<1>11. {"last_vote_weight", "last_stake"} \subseteq VoterFields \ {"staked", "managed"}
  BY DEF VoterFields
<1>12. OneRow(g, h, q, r)
  <2>1. h = [g EXCEPT !.voters[q]["last_vote_weight"] = weight] /\ r = [g.voters[q] EXCEPT !["last_vote_weight"] = weight]
    BY <1>6, <1>9, <1>10
  <2>2. VoterTable(g.voters) /\ q \in DOMAIN g.voters /\ "last_vote_weight" \in VoterFields \ {"staked", "managed"}
    BY <1>9, <1>11
  <2> QED
    BY <1>9, <2>1, <2>2, FieldWritten
<1>13. h.voters[q] = r /\ IsTables(h) /\ VoterTable(h.voters) /\ q \in DOMAIN h.voters
  BY <1>9, <1>12 DEF OneRow, Frame
<1>14. PICK p : p = [r EXCEPT !.last_stake = total]
  OBVIOUS
<1>15. OneRow(h, k, q, p)
  <2>1. k = [h EXCEPT !.voters[q]["last_stake"] = total] /\ p = [h.voters[q] EXCEPT !["last_stake"] = total]
    BY <1>7, <1>13, <1>14
  <2>2. "last_stake" \in VoterFields \ {"staked", "managed"}
    BY <1>11
  <2> QED
    BY <1>13, <2>1, <2>2, FieldWritten
<1>16. OneRow(g, k, q, p)
  BY <1>12, <1>15, RowsWritten
<1>17. p = Recounted(v)
  BY <1>2, <1>3, <1>10, <1>14 DEF Recounted
<1> QED
  BY <1>8, <1>9, <1>16, <1>17

\* So the votes of others are not changed by theirs.
LEMMA PropagateOnce ==
    ASSUME NEW t, VoterTable(t.voters), NEW q \in DOMAIN t.voters,
           NEW s, s = PassOn([t |-> t, at |-> q]), s.at = 0
    PROVE  propagate_weight_change(t, q) = Check(s.t, TRUE)
<1>1. PICK n : n = Cardinality(DOMAIN t.voters)
  OBVIOUS
<1>2. PICK f : f = Turns(t, q, n)
  OBVIOUS
<1>3. /\ n \in Nat
      /\ f[0] = [t |-> t, at |-> q]
      /\ \A i \in Nat : i # 0 /\ i <= n => f[i] = PassOn(f[i - 1])
      /\ propagate_weight_change(t, q) = Check(f[n].t, f[n].at = 0)
  <2>1. n \in Nat
    BY <1>1, VotersCounted
  <2>2. f[0] = [t |-> t, at |-> q]
    BY <1>1, <1>2, TurnsTaken
  <2>3. ASSUME NEW i \in Nat, i # 0, i <= n PROVE f[i] = PassOn(f[i - 1])
    BY <1>1, <1>2, <2>3, TurnsTaken
  <2>4. propagate_weight_change(t, q) = Check(f[n].t, f[n].at = 0)
    BY <1>1, <1>2, TurnsTaken
  <2> QED
    BY <2>1, <2>2, <2>3, <2>4
<1>4. n # 0
  BY <1>1, VotersCounted, FS_EmptySet
<1>5. PassOn(s) = s
  BY DEF PassOn
<1> DEFINE Bad == {i \in Nat : i # 0 /\ i <= n /\ f[i] # s}
<1>6. Bad = {}
  <2>1. SUFFICES ASSUME Bad # {} PROVE FALSE
    OBVIOUS
  <2>2. PICK i \in Bad : \A k \in Bad : i <= k
    BY <2>1, LeastNumber
  <2>3. i \in Nat /\ i # 0 /\ i <= n /\ f[i] # s
    BY <2>2
  <2>4. i - 1 \in Nat /\ i - 1 <= n /\ i - 1 \notin Bad
    BY <1>3, <2>2, <2>3
  <2>5. f[i] = PassOn(f[i - 1])
    BY <1>3, <2>3
  <2>6. CASE i - 1 = 0
    BY <1>3, <2>3, <2>5, <2>6
  <2>7. CASE i - 1 # 0
    <3>1. f[i - 1] = s
      BY <2>4, <2>7
    <3> QED
      BY <1>5, <2>3, <2>5, <3>1
  <2> QED
    BY <2>6, <2>7
<1>7. f[n] = s
  BY <1>3, <1>4, <1>6
<1>8. PICK b \in BOOLEAN : b = TRUE
  OBVIOUS
<1>9. (f[n].at = 0) = TRUE
  BY <1>7
<1> QED
  BY <1>3, <1>7, <1>9

\* A check that holds.
LEMMA CheckHolds ==
    ASSUME NEW t, IsTables(t), NEW p, p = TRUE
    PROVE  Check(t, p) = t
<1>1. (t.ok /\ p) = t.ok
  BY DEF IsTables
<1>2. [t EXCEPT !.ok = t.ok] = t
  BY DEF IsTables, TableFields
<1> QED
  BY <1>1, <1>2 DEF Check

\* When the stake behind a proxy has changed, counting it anew makes its votes
\* fresh again.
LEMMA Propagated ==
    ASSUME NEW t, NEW S, NEW D, NEW a, NEW k, NEW e, NEW q \in S, Open(t, S, D, a, k, e, q),
           NEW h, h = propagate_weight_change(t, q)
    PROVE  /\ Open(h, S, D, a, k, e, 0) /\ h.ok = t.ok
           /\ Frame(t, h, Polled) /\ DOMAIN h.voters = DOMAIN t.voters
           /\ \A b \in DOMAIN t.voters \ {q} : h.voters[b] = t.voters[b]
           /\ h.voters[q].is_proxy = t.voters[q].is_proxy
<1>1. /\ IsTables(t) /\ VoterTable(t.voters) /\ RowsTyped(t.voters)
      /\ S \subseteq D /\ D \subseteq DOMAIN t.voters /\ a \in D \ S
      /\ \A b \in S : /\ Counted(t.voters[b]) /\ (b # q => Fresh(t.voters[b]))
                      /\ t.voters[b].proxy = 0 \/ t.voters[b].proxy \in D
      /\ \A b \in D \ (S \cup {a}) : Blank(t.voters[b])
      /\ Tallied(t, Ballots(t.voters, D, a, k), e)
  BY DEF Open
<1>2. q \in DOMAIN t.voters /\ q \in D /\ q # a
  BY <1>1
<1>3. PICK v : v = t.voters[q]
  OBVIOUS
<1>4. IsVoter(v) /\ VoterTyped(v) /\ Counted(v)
  BY <1>1, <1>2, <1>3 DEF VoterTable, RowsTyped
<1>5. PICK delta : delta = inverse_vote_weight(TotalStaked(v), v.producers) - v.last_vote_weight
  OBVIOUS
<1>6. PICK g : g = IF v.proxy = 0 THEN AddVotes(t, v.producers, delta) ELSE Check(t, ~v.is_proxy)
  OBVIOUS
<1>7. PICK s : s = PassOn([t |-> t, at |-> q])
  OBVIOUS
<1>8. PICK r : r = Recounted(v)
  OBVIOUS
<1>9. s.at = 0 /\ g.voters = t.voters /\ OneRow(g, s.t, q, r)
  BY <1>1, <1>2, <1>3, <1>4, <1>5, <1>6, <1>7, <1>8, PassOnEnds
<1>10. IsTables(s.t)
  BY <1>9 DEF OneRow, Frame
<1>11. h = s.t
  <2>1. h = Check(s.t, TRUE)
    BY <1>1, <1>2, <1>7, <1>9, PropagateOnce
  <2>2. Check(s.t, TRUE) = s.t
    BY <1>10, CheckHolds
  <2> QED
    BY <2>1, <2>2
<1>12. /\ IsVoter(r) /\ VoterTyped(r) /\ Counted(r) /\ Fresh(r)
       /\ r.proxy = v.proxy /\ r.producers = v.producers /\ r.is_proxy = v.is_proxy
       /\ r.proxied_vote_weight = v.proxied_vote_weight
       /\ r.last_stake = TotalStaked(v)
       /\ r.last_vote_weight = inverse_vote_weight(TotalStaked(v), v.producers)
       /\ TotalStaked(v) \in Nat /\ r.last_vote_weight \in Nat
  BY <1>4, <1>8, RecountedRow
<1>13. /\ h.voters[q] = r /\ \A b \in DOMAIN t.voters \ {q} : h.voters[b] = t.voters[b]
       /\ DOMAIN h.voters = DOMAIN t.voters /\ VoterTable(h.voters)
       /\ Frame(g, h, {"voters"}) /\ h.ok = g.ok
  BY <1>9, <1>11 DEF OneRow
<1>14. Frame(t, g, {"prods", "total_producer_vote_weight"}) /\ g.ok = t.ok
  <2>1. CASE v.proxy = 0
    <3>1. g = AddVotes(t, v.producers, delta) /\ IsTables(t)
      BY <1>1, <1>6, <2>1
    <3>2. VotesAdded(t, g, v.producers, delta)
      BY <3>1, AddVotesRows
    <3> QED
      BY <3>2 DEF VotesAdded
  <2>2. CASE v.proxy # 0
    <3>1. (~v.is_proxy) = TRUE
      BY <1>4, <2>2 DEF VoterTyped
    <3>2. g = t
      BY <1>1, <1>6, <2>2, <3>1, CheckHolds
    <3> QED
      BY <1>1, <3>2 DEF Frame, IsTables
  <2> QED
    BY <2>1, <2>2
<1>15. PICK c : c = Ballots(t.voters, D, a, k)
  OBVIOUS
<1>16. PICK d : d = Ballots(h.voters, D, a, k)
  OBVIOUS
<1>17. DOMAIN c = D /\ DOMAIN d = D /\ c[q] = Ballot(v) /\ d[q] = Ballot(r) /\ IsCast(c)
  BY <1>1, <1>2, <1>3, <1>13, <1>15, <1>16 DEF Ballots, Tallied
<1>18. BallotMoves(c, d, q)
  <2>1. IsBallot(Ballot(r))
    BY <1>12 DEF Ballot, IsBallot
  <2>2. \A b \in D \ {q} : h.voters[b] = t.voters[b]
    BY <1>1, <1>13
  <2> QED
    BY <1>2, <1>13, <1>15, <1>16, <1>17, <2>1, <2>2, BallotsMoved
<1>19. Tallied(g, d, e)
  <2>1. CASE v.proxy = 0
    <3>1. v.producers \subseteq Producers /\ delta \in Int /\ v.last_vote_weight \in Nat
      BY <1>4, <1>5, <1>12 DEF VoterTyped
    <3>2. IsCast(d)
      BY <1>18 DEF BallotMoves
    <3>3. ASSUME NEW x \in D PROVE SumOf(GivenTo(d, x)) = SumOf(GivenTo(c, x))
      <4>1. x # 0
        BY <1>1, ResourcesAssumption DEF VoterTable
      <4>2. Given(c[q], x) = 0 /\ Given(d[q], x) = 0 /\ BallotOf(c, q) = c[q]
        BY <1>2, <1>12, <1>17, <2>1, <4>1 DEF Given, Ballot, BallotOf
      <4>3. SumOf(GivenTo(d, x)) = SumOf(GivenTo(c, x)) - Given(c[q], x) + Given(d[q], x)
        BY <1>18, <4>2 DEF BallotMoves
      <4>4. SumOf(GivenTo(c, x)) \in Nat
        BY <1>17, CastColumns
      <4> QED
        BY <4>2, <4>3, <4>4
    <3>4. ASSUME NEW p \in Producers
          PROVE  SumOf(CastFor(d, p)) = SumOf(CastFor(c, p)) + IF p \in v.producers THEN delta ELSE 0
      <4>1. /\ VoteFor(c[q], p) = (IF p \in v.producers THEN v.last_vote_weight ELSE 0)
            /\ VoteFor(d[q], p) = (IF p \in v.producers THEN r.last_vote_weight ELSE 0)
            /\ BallotOf(c, q) = c[q]
        BY <1>2, <1>12, <1>17 DEF VoteFor, Ballot, BallotOf
      <4>2. SumOf(CastFor(d, p)) = SumOf(CastFor(c, p)) - VoteFor(c[q], p) + VoteFor(d[q], p)
        BY <1>18, <4>1 DEF BallotMoves
      <4>3. SumOf(CastFor(c, p)) \in Nat
        BY <1>17, CastColumns
      <4>4. delta = r.last_vote_weight - v.last_vote_weight
        BY <1>5, <1>12
      <4> QED
        BY <1>12, <3>1, <4>1, <4>2, <4>3, <4>4
    <3>5. g = AddVotes(t, v.producers, delta)
      BY <1>6, <2>1
    <3> QED
      BY <1>1, <1>15, <1>17, <3>1, <3>2, <3>3, <3>4, <3>5, AddVotesTallied
  <2>2. CASE v.proxy # 0
    <3>1. (~v.is_proxy) = TRUE /\ v.producers = {} /\ v.last_stake = v.staked /\ TotalStaked(v) = v.staked
      BY <1>4, <2>2 DEF VoterTyped, Counted, TotalStaked
    <3>2. g = t
      BY <1>1, <1>6, <2>2, <3>1, CheckHolds
    <3>3. r.last_vote_weight = v.last_vote_weight /\ r.last_stake = v.last_stake
      BY <1>4, <1>12, <3>1 DEF Counted
    <3>4. Ballot(r) = Ballot(v)
      BY <1>12, <3>3 DEF Ballot
    <3>5. d = c
      <4>1. \A b \in D \ {a} : Ballot(h.voters[b]) = Ballot(t.voters[b])
        BY <1>1, <1>3, <1>13, <3>4
      <4> QED
        BY <1>15, <1>16, <4>1, BallotsSame
    <3> QED
      BY <1>1, <1>15, <3>2, <3>5
  <2> QED
    BY <2>1, <2>2
<1>20. Tallied(h, d, e)
  <2>1. h.prods = g.prods /\ h.total_producer_vote_weight = g.total_producer_vote_weight
    BY <1>13 DEF Frame, TableFields
  <2>2. \A x \in D : h.voters[x].proxied_vote_weight = g.voters[x].proxied_vote_weight
    BY <1>1, <1>3, <1>9, <1>12, <1>13
  <2> QED
    BY <1>17, <1>19, <2>1, <2>2 DEF Tallied
<1>21. RowsTyped(h.voters)
  BY <1>1, <1>3, <1>12, <1>13 DEF RowsTyped
<1>22. IsTables(h)
  BY <1>13 DEF Frame
<1>23. \A b \in S : /\ Counted(h.voters[b]) /\ Fresh(h.voters[b])
                    /\ h.voters[b].proxy = 0 \/ h.voters[b].proxy \in D
  BY <1>1, <1>3, <1>12, <1>13
<1>24. \A b \in D \ (S \cup {a}) : Blank(h.voters[b])
  BY <1>1, <1>13
<1>25. Open(h, S, D, a, k, e, 0)
  BY <1>1, <1>13, <1>16, <1>20, <1>21, <1>22, <1>23, <1>24 DEF Open
<1>26. Frame(t, h, Polled)
  BY <1>13, <1>14 DEF Frame, Polled
<1> QED
  BY <1>3, <1>12, <1>13, <1>14, <1>25, <1>26

-----------------------------------------------------------------------------
(* Stakes are given to proxies and taken back                              *)

\* Ballots that give each of D, and each producer, as much as others do.
LEMMA TalliedAlike ==
    ASSUME NEW t, NEW u, NEW D, NEW a \in D, NEW k, NEW e, Tallied(t, Ballots(u, D, a, k), e),
           NEW m, IsBallot(m), \A x \in D : Given(m, x) = Given(k, x),
           \A p \in Producers : VoteFor(m, p) = VoteFor(k, p)
    PROVE  Tallied(t, Ballots(u, D, a, m), e)
<1>1. PICK c : c = Ballots(u, D, a, k)
  OBVIOUS
<1>2. PICK d : d = Ballots(u, D, a, m)
  OBVIOUS
<1>3. /\ DOMAIN c = D /\ DOMAIN d = D /\ c[a] = k /\ d[a] = m /\ BallotOf(c, a) = k
      /\ \A b \in D \ {a} : d[b] = c[b]
  BY <1>1, <1>2 DEF Ballots, BallotOf
<1>4. IsCast(c)
  BY <1>1 DEF Tallied
<1>5. BallotMoves(c, d, a)
  <2>1. DOMAIN d = DOMAIN c \cup {a} /\ IsBallot(d[a]) /\ \A b \in DOMAIN c \ {a} : d[b] = c[b]
    BY <1>3
  <2> QED
    BY <1>4, <2>1, BallotMoved
<1>6. IsCast(d)
  BY <1>5 DEF BallotMoves
<1>7. IsBallot(k)
  BY <1>3, <1>4 DEF IsCast
<1>8. \A x \in D : SumOf(GivenTo(d, x)) = SumOf(GivenTo(c, x))
  <2>1. TAKE x \in D
  <2>2. Given(k, x) \in Nat /\ SumOf(GivenTo(c, x)) \in Nat
    BY <1>4, <1>7, CastColumns DEF Given, IsBallot
  <2>3. SumOf(GivenTo(d, x)) = SumOf(GivenTo(c, x)) - Given(k, x) + Given(m, x)
    BY <1>3, <1>5 DEF BallotMoves
  <2> QED
    BY <2>2, <2>3
<1>9. \A p \in Producers : SumOf(CastFor(d, p)) = SumOf(CastFor(c, p))
  <2>1. TAKE p \in Producers
  <2>2. VoteFor(k, p) \in Nat /\ SumOf(CastFor(c, p)) \in Nat
    BY <1>4, <1>7, CastColumns DEF VoteFor, IsBallot
  <2>3. SumOf(CastFor(d, p)) = SumOf(CastFor(c, p)) - VoteFor(k, p) + VoteFor(m, p)
    BY <1>3, <1>5 DEF BallotMoves
  <2> QED
    BY <2>2, <2>3
<1> QED
  BY <1>1, <1>2, <1>3, <1>6, <1>8, <1>9 DEF Tallied

\* A ballot gives a proxy so much more than another does, and nothing else;
\* and from t to h the row of the proxy has got as much.
GivesMore(m, k, D, q, delta) ==
    /\ \A x \in D : Given(m, x) = Given(k, x) + IF x = q THEN delta ELSE 0
    /\ \A p \in Producers : VoteFor(m, p) = VoteFor(k, p)
GotMore(t, h, D, q, delta) ==
    /\ h.prods = t.prods /\ h.total_producer_vote_weight = t.total_producer_vote_weight
    /\ h.voters[q].proxied_vote_weight = t.voters[q].proxied_vote_weight + delta
    /\ \A b \in D : Ballot(h.voters[b]) = Ballot(t.voters[b])
    /\ \A b \in D \ {q} : h.voters[b] = t.voters[b]

\* A proxy is given more by one ballot, and has the more.
LEMMA TalliedGiven ==
    ASSUME NEW t, NEW D, NEW a \in D, NEW k, NEW e, Tallied(t, Ballots(t.voters, D, a, k), e),
           NEW q \in D \ {a}, NEW delta \in Int, NEW m, IsBallot(m), GivesMore(m, k, D, q, delta),
           NEW h, GotMore(t, h, D, q, delta)
    PROVE  Tallied(h, Ballots(h.voters, D, a, m), e)
<1>0. /\ h.prods = t.prods /\ h.total_producer_vote_weight = t.total_producer_vote_weight
      /\ h.voters[q].proxied_vote_weight = t.voters[q].proxied_vote_weight + delta
      /\ \A b \in D : Ballot(h.voters[b]) = Ballot(t.voters[b])
      /\ \A b \in D \ {q} : h.voters[b] = t.voters[b]
  BY DEF GotMore
<1>00. /\ \A x \in D : Given(m, x) = Given(k, x) + IF x = q THEN delta ELSE 0
       /\ \A p \in Producers : VoteFor(m, p) = VoteFor(k, p)
  BY DEF GivesMore
<1>1. PICK c : c = Ballots(t.voters, D, a, k)
  OBVIOUS
<1>2. PICK d : d = Ballots(h.voters, D, a, m)
  OBVIOUS
<1>3. /\ DOMAIN c = D /\ DOMAIN d = D /\ c[a] = k /\ d[a] = m /\ BallotOf(c, a) = k
      /\ \A b \in D \ {a} : d[b] = c[b]
  BY <1>0, <1>1, <1>2 DEF Ballots, BallotOf
<1>4. IsCast(c)
  BY <1>1 DEF Tallied
<1>5. BallotMoves(c, d, a)
  <2>1. DOMAIN d = DOMAIN c \cup {a} /\ IsBallot(d[a]) /\ \A b \in DOMAIN c \ {a} : d[b] = c[b]
    BY <1>3
  <2> QED
    BY <1>4, <2>1, BallotMoved
<1>6. IsCast(d)
  BY <1>5 DEF BallotMoves
<1>7. IsBallot(k)
  BY <1>3, <1>4 DEF IsCast
<1>8. \A x \in D : h.voters[x].proxied_vote_weight = SumOf(GivenTo(d, x))
  <2>1. TAKE x \in D
  <2>2. Given(k, x) \in Nat /\ SumOf(GivenTo(c, x)) \in Nat
    BY <1>4, <1>7, CastColumns DEF Given, IsBallot
  <2>3. SumOf(GivenTo(d, x)) = SumOf(GivenTo(c, x)) - Given(k, x) + Given(m, x)
    BY <1>3, <1>5 DEF BallotMoves
  <2>4. t.voters[x].proxied_vote_weight = SumOf(GivenTo(c, x))
    BY <1>1, <1>3 DEF Tallied
  <2>5. CASE x = q
    BY <1>0, <1>00, <2>2, <2>3, <2>4, <2>5
  <2>6. CASE x # q
    BY <1>0, <1>2, <1>00, <2>2, <2>3, <2>4, <2>6
  <2> QED
    BY <2>5, <2>6
<1>9. \A p \in Producers : SumOf(CastFor(d, p)) = SumOf(CastFor(c, p))
  <2>1. TAKE p \in Producers
  <2>2. VoteFor(k, p) \in Nat /\ SumOf(CastFor(c, p)) \in Nat
    BY <1>4, <1>7, CastColumns DEF VoteFor, IsBallot
  <2>3. SumOf(CastFor(d, p)) = SumOf(CastFor(c, p)) - VoteFor(k, p) + VoteFor(m, p)
    BY <1>3, <1>5 DEF BallotMoves
  <2> QED
    BY <1>00, <2>2, <2>3
<1>10. Tallied(h, d, e)
  BY <1>0, <1>1, <1>3, <1>6, <1>8, <1>9 DEF Tallied
<1> QED
  BY <1>2, <1>10

\* What a proxy has been given is no debt.
LEMMA BallotedNat ==
    ASSUME NEW t, NEW D, NEW a, NEW k, NEW e, Tallied(t, Ballots(t.voters, D, a, k), e), NEW q \in D
    PROVE  t.voters[q].proxied_vote_weight \in Nat
<1>1. PICK c : c = Ballots(t.voters, D, a, k)
  OBVIOUS
<1>2. DOMAIN c = D /\ IsCast(c) /\ t.voters[q].proxied_vote_weight = SumOf(GivenTo(c, q))
  <2>1. DOMAIN c = D
    BY <1>1 DEF Ballots
  <2> QED
    BY <1>1, <2>1 DEF Tallied
<1> QED
  BY <1>2, CastColumns

\* What voting does to the rows beside that of the voter: who they are, and
\* whether they are proxies, stays.
Aside(t, h, a) ==
    /\ IsTables(h) /\ DOMAIN h.voters = DOMAIN t.voters /\ h.voters[a] = t.voters[a]
    /\ \A b \in DOMAIN t.voters : h.voters[b].is_proxy = t.voters[b].is_proxy

\* A stake is added to what a proxy has, or taken from it.
LEMMA StakeMoved ==
    ASSUME NEW t, NEW S, NEW D, NEW a, NEW k, NEW e, NEW z, Open(t, S, D, a, k, e, z),
           NEW q \in D \ {a}, z \in {0, q}, NEW delta \in Int, NEW m, IsBallot(m),
           \A x \in D : Given(m, x) = Given(k, x) + IF x = q THEN delta ELSE 0,
           \A p \in Producers : VoteFor(m, p) = VoteFor(k, p),
           NEW n, n = t.voters[q].proxied_vote_weight + delta,
           NEW h, h = [t EXCEPT !.voters[q]["proxied_vote_weight"] = n]
    PROVE  /\ Open(h, S, D, a, m, e, q) /\ Aside(t, h, a) /\ h.ok = t.ok
           /\ h.voters[q].last_vote_weight = t.voters[q].last_vote_weight
<1>1. /\ IsTables(t) /\ VoterTable(t.voters) /\ RowsTyped(t.voters)
      /\ S \subseteq D /\ D \subseteq DOMAIN t.voters /\ a \in D \ S
      /\ \A b \in S : /\ Counted(t.voters[b]) /\ (b # z => Fresh(t.voters[b]))
                      /\ t.voters[b].proxy = 0 \/ t.voters[b].proxy \in D
      /\ \A b \in D \ (S \cup {a}) : Blank(t.voters[b])
      /\ Tallied(t, Ballots(t.voters, D, a, k), e)
  BY DEF Open
<1>2. q \in DOMAIN t.voters /\ q # a /\ q # 0 /\ q \in D /\ a \in D
  BY <1>1, ResourcesAssumption DEF VoterTable
<1>3. PICK v : v = t.voters[q]
  OBVIOUS
<1>4. IsVoter(v) /\ VoterTyped(v)
  BY <1>1, <1>2, <1>3 DEF VoterTable, RowsTyped
<1>5. PICK r : r = [v EXCEPT !["proxied_vote_weight"] = n]
  OBVIOUS
<1>6. "proxied_vote_weight" \in VoterFields \ {"staked", "managed"}
  BY DEF VoterFields
<1>7. OneRow(t, h, q, r)
  BY <1>1, <1>2, <1>3, <1>5, <1>6, FieldWritten
<1>8. /\ r.proxy = v.proxy /\ r.producers = v.producers /\ r.staked = v.staked
      /\ r.last_stake = v.last_stake /\ r.last_vote_weight = v.last_vote_weight
      /\ r.is_proxy = v.is_proxy /\ r.proxied_vote_weight = n
  BY <1>4, <1>5 DEF IsVoter, VoterFields
<1>9. /\ h.voters[q] = r /\ \A b \in DOMAIN t.voters \ {q} : h.voters[b] = t.voters[b]
      /\ DOMAIN h.voters = DOMAIN t.voters /\ VoterTable(h.voters)
      /\ Frame(t, h, {"voters"}) /\ h.ok = t.ok
  BY <1>7 DEF OneRow
<1>10. Tallied(h, Ballots(h.voters, D, a, m), e) /\ n \in Nat
  <2>1. h.prods = t.prods /\ h.total_producer_vote_weight = t.total_producer_vote_weight
    BY <1>9 DEF Frame, TableFields
  <2>2. h.voters[q].proxied_vote_weight = t.voters[q].proxied_vote_weight + delta
    BY <1>8, <1>9
  <2>3. Ballot(r) = Ballot(v)
    BY <1>8 DEF Ballot
  <2>4. \A b \in D : Ballot(h.voters[b]) = Ballot(t.voters[b])
    BY <1>1, <1>3, <1>9, <2>3
  <2>5. \A b \in D \ {q} : h.voters[b] = t.voters[b]
    BY <1>1, <1>9
  <2>6. GivesMore(m, k, D, q, delta)
    BY DEF GivesMore
  <2>7. GotMore(t, h, D, q, delta)
    BY <2>1, <2>2, <2>4, <2>5 DEF GotMore
  <2>8. Tallied(h, Ballots(h.voters, D, a, m), e) /\ h.voters[q].proxied_vote_weight \in Nat
    <3>1. Tallied(t, Ballots(t.voters, D, a, k), e)
      BY <1>1
    <3>2. a \in D /\ q \in D \ {a} /\ delta \in Int /\ IsBallot(m)
      BY <1>2
    <3>3. Tallied(h, Ballots(h.voters, D, a, m), e)
      BY <2>6, <2>7, <3>1, <3>2, TalliedGiven, Zenon
    <3>4. h.voters[q].proxied_vote_weight \in Nat
      BY <3>2, <3>3, BallotedNat
    <3> QED
      BY <3>3, <3>4
  <2> QED
    BY <1>8, <1>9, <2>8
<1>11. VoterTyped(r) /\ (Counted(v) => Counted(r)) /\ (Blank(v) => Blank(r))
  BY <1>4, <1>8, <1>10 DEF VoterTyped, Counted, Blank
<1>12. RowsTyped(h.voters)
  BY <1>1, <1>3, <1>8, <1>9, <1>11 DEF RowsTyped
<1>13. \A b \in S : /\ Counted(h.voters[b]) /\ (b # q => Fresh(h.voters[b]))
                    /\ h.voters[b].proxy = 0 \/ h.voters[b].proxy \in D
  <2>1. TAKE b \in S
  <2>2. b \in DOMAIN t.voters /\ b # 0
    BY <1>1, ResourcesAssumption DEF VoterTable
  <2>3. CASE b = q
    BY <1>1, <1>3, <1>8, <1>9, <1>11, <2>3
  <2>4. CASE b # q
    BY <1>1, <1>9, <2>2, <2>4
  <2> QED
    BY <2>3, <2>4
<1>14. \A b \in D \ (S \cup {a}) : Blank(h.voters[b])
  BY <1>1, <1>3, <1>9, <1>11
<1>15. IsTables(h)
  BY <1>9 DEF Frame
<1>16. Open(h, S, D, a, m, e, q)
  BY <1>1, <1>9, <1>10, <1>12, <1>13, <1>14, <1>15 DEF Open
<1>17. Aside(t, h, a)
  <2>1. \A b \in DOMAIN t.voters : h.voters[b].is_proxy = t.voters[b].is_proxy
    BY <1>3, <1>8, <1>9
  <2>2. h.voters[a] = t.voters[a]
    BY <1>1, <1>2, <1>9
  <2> QED
    BY <1>9, <1>15, <2>1, <2>2 DEF Aside
<1> QED
  BY <1>3, <1>8, <1>9, <1>16, <1>17

\* The votes of a proxy that weigh nothing, or have not been counted, are fresh.
LEMMA WeightlessOpen ==
    ASSUME NEW t, NEW S, NEW D, NEW a, NEW k, NEW e, NEW q, Open(t, S, D, a, k, e, q),
           q \in S => t.voters[q].last_vote_weight = 0
    PROVE  Open(t, S, D, a, k, e, 0)
<1>1. /\ IsTables(t) /\ VoterTable(t.voters) /\ RowsTyped(t.voters)
      /\ S \subseteq D /\ D \subseteq DOMAIN t.voters /\ a \in D \ S
      /\ \A b \in S : /\ Counted(t.voters[b]) /\ (b # q => Fresh(t.voters[b]))
                      /\ t.voters[b].proxy = 0 \/ t.voters[b].proxy \in D
      /\ \A b \in D \ (S \cup {a}) : Blank(t.voters[b])
      /\ Tallied(t, Ballots(t.voters, D, a, k), e)
  BY DEF Open
<1>2. q \in S => Fresh(t.voters[q])
  BY <1>1, WeightlessFresh DEF RowsTyped
<1> QED
  BY <1>1, <1>2 DEF Open

\* A ballot without what it gives a proxy, and with that.
Recalled(k) == [proxy |-> 0, stake |-> 0, producers |-> k.producers, weight |-> k.weight]
Entrusted(k, q, n) == [proxy |-> q, stake |-> n, producers |-> k.producers, weight |-> k.weight]

\* A voter leaves a proxy that has been counted with its stake.  If it does not
\* stay with it the votes of the proxy are counted anew.
LEMMA LeaveProxyOpen ==
    ASSUME NEW t, NEW S, NEW D, NEW a, NEW k, NEW e, Open(t, S, D, a, k, e, 0),
           NEW v, v.proxy \in S, k.proxy = v.proxy, k.stake = v.last_stake, NEW proxy,
           NEW h, h = LeaveProxy(t, v, proxy)
    PROVE  /\ Open(h, S, D, a, Recalled(k), e, IF proxy = v.proxy THEN proxy ELSE 0)
           /\ Aside(t, h, a) /\ h.ok = t.ok
<1>1. PICK q : q = v.proxy
  OBVIOUS
<1>2. PICK m : m = Recalled(k)
  OBVIOUS
<1>3. PICK n : n = t.voters[q].proxied_vote_weight - v.last_stake
  OBVIOUS
<1>4. PICK g : g = [t EXCEPT !.voters[q]["proxied_vote_weight"] = n]
  OBVIOUS
<1>5. h = IF proxy # q THEN propagate_weight_change(g, q) ELSE g
  <2> DEFINE left == [t EXCEPT !.voters[v.proxy].proxied_vote_weight = @ - v.last_stake]
  <2>1. h = IF proxy # v.proxy THEN propagate_weight_change(left, v.proxy) ELSE left
    BY DEF LeaveProxy
  <2>2. left = g
    BY <1>1, <1>3, <1>4
  <2> HIDE DEF left
  <2> QED
    BY <1>1, <2>1, <2>2
<1>6. /\ q \in D \ {a} /\ a \in D /\ IsCast(Ballots(t.voters, D, a, k)) /\ D \subseteq DOMAIN t.voters
      /\ VoterTable(t.voters) /\ RowsTyped(t.voters) /\ q \in S
  BY <1>1 DEF Open, Tallied
<1>7. IsBallot(k) /\ IsBallot(m)
  <2>1. Ballots(t.voters, D, a, k)[a] = k /\ a \in DOMAIN Ballots(t.voters, D, a, k)
    BY <1>6 DEF Ballots
  <2>2. IsBallot(k)
    BY <1>6, <2>1 DEF IsCast
  <2> QED
    BY <1>2, <2>2 DEF IsBallot, Recalled
<1>8. \A x \in D : Given(m, x) = Given(k, x) + IF x = q THEN -k.stake ELSE 0
  <2>1. \A x \in D : x # 0
    BY <1>6, ResourcesAssumption DEF VoterTable
  <2>2. k.proxy = q /\ m.proxy = 0 /\ m.stake = 0 /\ k.stake \in Nat
    BY <1>1, <1>2, <1>7 DEF Recalled, IsBallot
  <2> QED
    BY <2>1, <2>2 DEF Given
<1>9. \A p \in Producers : VoteFor(m, p) = VoteFor(k, p)
  BY <1>2 DEF Recalled, VoteFor
<1>10. PICK delta \in Int : delta = -k.stake
  BY <1>7 DEF IsBallot
<1>11. n = t.voters[q].proxied_vote_weight + delta
  <2>1. t.voters[q].proxied_vote_weight \in Nat /\ k.stake \in Nat
    BY <1>6, <1>7 DEF RowsTyped, VoterTyped, IsBallot
  <2> QED
    BY <1>3, <1>10, <2>1
<1>12. Open(g, S, D, a, m, e, q) /\ Aside(t, g, a) /\ g.ok = t.ok
  <2>1. 0 \in {0, q} /\ \A x \in D : Given(m, x) = Given(k, x) + IF x = q THEN delta ELSE 0
    BY <1>8, <1>10
  <2> QED
    BY <1>4, <1>6, <1>7, <1>9, <1>11, <2>1, StakeMoved
<1>13. CASE proxy = q
  BY <1>1, <1>2, <1>5, <1>12, <1>13
<1>14. CASE proxy # q
  <2>1. h = propagate_weight_change(g, q)
    BY <1>5, <1>14
  <2>2. /\ Open(h, S, D, a, m, e, 0) /\ h.ok = g.ok
        /\ Frame(g, h, Polled) /\ DOMAIN h.voters = DOMAIN g.voters
        /\ \A b \in DOMAIN g.voters \ {q} : h.voters[b] = g.voters[b]
        /\ h.voters[q].is_proxy = g.voters[q].is_proxy
    BY <1>6, <1>12, <2>1, Propagated
  <2>3. Aside(t, h, a)
    BY <1>6, <1>12, <2>2 DEF Aside, Frame
  <2> QED
    BY <1>1, <1>2, <1>12, <1>14, <2>2, <2>3
<1> QED
  BY <1>13, <1>14

\* A voter joins a proxy.  If its votes weigh something they are counted anew.
LEMMA JoinProxyOpen ==
    ASSUME NEW t, NEW S, NEW D, NEW a, NEW k, NEW e, NEW z, Open(t, S, D, a, k, e, z),
           NEW proxy, z \in {0, proxy}, proxy # a, proxy \in DOMAIN t.voters => proxy \in D,
           \A x \in D : Given(k, x) = 0,
           NEW v, v.staked \in Nat, NEW voting \in BOOLEAN,
           NEW h, h = JoinProxy(t, v, proxy, voting), h.ok
    PROVE  /\ Open(h, S, D, a, Entrusted(k, proxy, v.staked), e, 0)
           /\ Aside(t, h, a) /\ t.ok
           /\ proxy \in D /\ (voting => h.voters[proxy].is_proxy)
<1>1. PICK m : m = Entrusted(k, proxy, v.staked)
  OBVIOUS
<1>2. PICK n : n = t.voters[proxy].proxied_vote_weight + v.staked
  OBVIOUS
<1>3. PICK j : j = [t EXCEPT !.voters[proxy]["proxied_vote_weight"] = n]
  OBVIOUS
<1>4. PICK g : g = IF t.voters[proxy].last_vote_weight > 0 THEN propagate_weight_change(j, proxy) ELSE j
  OBVIOUS
<1> DEFINE c == ~voting \/ t.voters[proxy].is_proxy
<1>5. h = IF proxy \notin DOMAIN t.voters THEN Check(t, FALSE) ELSE Check(g, c)
  <2> DEFINE joined == [t EXCEPT !.voters[proxy].proxied_vote_weight = @ + v.staked]
  <2>1. h = IF proxy \notin DOMAIN t.voters THEN Check(t, FALSE)
            ELSE Check(IF t.voters[proxy].last_vote_weight > 0
                       THEN propagate_weight_change(joined, proxy) ELSE joined, c)
    BY DEF JoinProxy, Joined
  <2>2. joined = j
    BY <1>2, <1>3
  <2> HIDE DEF joined, c
  <2> QED
    BY <1>4, <2>1, <2>2
<1>6. /\ IsTables(t) /\ a \in D /\ IsCast(Ballots(t.voters, D, a, k)) /\ D \subseteq DOMAIN t.voters
      /\ VoterTable(t.voters) /\ RowsTyped(t.voters)
      /\ \A b \in D \ (S \cup {a}) : Blank(t.voters[b])
  BY DEF Open, Tallied
<1>7. proxy \in DOMAIN t.voters /\ proxy \in D \ {a} /\ h = Check(g, c)
  <2>1. ~Check(t, FALSE).ok
    BY <1>6, CheckFrame
  <2>2. proxy \in DOMAIN t.voters
    BY <1>5, <2>1
  <2> HIDE DEF c
  <2> QED
    BY <1>5, <2>2
<1>8. IsBallot(k) /\ IsBallot(m)
  <2>1. Ballots(t.voters, D, a, k)[a] = k /\ a \in DOMAIN Ballots(t.voters, D, a, k)
    BY <1>6 DEF Ballots
  <2>2. IsBallot(k)
    BY <1>6, <2>1 DEF IsCast
  <2> QED
    BY <1>1, <2>2 DEF IsBallot, Entrusted
<1>9. \A x \in D : Given(m, x) = Given(k, x) + IF x = proxy THEN v.staked ELSE 0
  <2>1. m.proxy = proxy /\ m.stake = v.staked
    BY <1>1 DEF Entrusted
  <2> QED
    BY <2>1 DEF Given
<1>10. \A p \in Producers : VoteFor(m, p) = VoteFor(k, p)
  BY <1>1 DEF Entrusted, VoteFor
<1>11. /\ Open(j, S, D, a, m, e, proxy) /\ Aside(t, j, a) /\ j.ok = t.ok
       /\ j.voters[proxy].last_vote_weight = t.voters[proxy].last_vote_weight
  <2>1. v.staked \in Int
    OBVIOUS
  <2> QED
    BY <1>2, <1>3, <1>7, <1>8, <1>9, <1>10, <2>1, StakeMoved
<1>12. t.voters[proxy].last_vote_weight \in Nat
  BY <1>6, <1>7 DEF RowsTyped, VoterTyped
<1>13. Open(g, S, D, a, m, e, 0) /\ Aside(t, g, a) /\ g.ok = t.ok
  <2>1. CASE t.voters[proxy].last_vote_weight > 0
    <3>1. proxy \in S
      BY <1>6, <1>7, <2>1 DEF Blank
    <3>2. g = propagate_weight_change(j, proxy)
      BY <1>4, <2>1
    <3>3. /\ Open(g, S, D, a, m, e, 0) /\ g.ok = j.ok
          /\ Frame(j, g, Polled) /\ DOMAIN g.voters = DOMAIN j.voters
          /\ \A b \in DOMAIN j.voters \ {proxy} : g.voters[b] = j.voters[b]
          /\ g.voters[proxy].is_proxy = j.voters[proxy].is_proxy
      BY <1>11, <3>1, <3>2, Propagated
    <3>4. Aside(t, g, a)
      BY <1>6, <1>7, <1>11, <3>3 DEF Aside, Frame
    <3> QED
      BY <1>11, <3>3, <3>4
  <2>2. CASE ~(t.voters[proxy].last_vote_weight > 0)
    <3>1. g = j /\ t.voters[proxy].last_vote_weight = 0
      BY <1>4, <1>12, <2>2
    <3> QED
      BY <1>11, <3>1, WeightlessOpen
  <2> QED
    BY <2>1, <2>2
<1>14. c \in BOOLEAN
  BY Zenon
<1>15. Frame(g, g, {})
  BY <1>13 DEF Aside, Frame, IsTables
<1>16. c /\ g.ok /\ h = g
  <2> HIDE DEF c
  <2> QED
    BY <1>7, <1>14, <1>15, CheckPassed
<1>17. voting => h.voters[proxy].is_proxy
  BY <1>7, <1>13, <1>16 DEF Aside
<1> QED
  BY <1>1, <1>7, <1>13, <1>16, <1>17

-----------------------------------------------------------------------------
(* A vote moves from producers to others                                   *)

\* A ballot for other producers, or of another weight.
Redirected(k, ps, w) == [proxy |-> k.proxy, stake |-> k.stake, producers |-> ps, weight |-> w]
GivesVotes(m, k, ps, delta) ==
    \A p \in Producers : VoteFor(m, p) = VoteFor(k, p) + IF p \in ps THEN delta ELSE 0

\* Votes that are added to producers by a ballot.
LEMMA VotesMoved ==
    ASSUME NEW t, IsTables(t), NEW u, NEW D, NEW a \in D, NEW k, NEW e, Tallied(t, Ballots(u, D, a, k), e),
           NEW m, IsBallot(m), m.proxy = k.proxy, m.stake = k.stake,
           NEW ps, ps \subseteq Producers, NEW delta \in Int, GivesVotes(m, k, ps, delta),
           NEW h, h = AddVotes(t, ps, delta)
    PROVE  Tallied(h, Ballots(u, D, a, m), e)
<1>1. PICK c : c = Ballots(u, D, a, k)
  OBVIOUS
<1>2. PICK d : d = Ballots(u, D, a, m)
  OBVIOUS
<1>3. /\ DOMAIN c = D /\ DOMAIN d = D /\ c[a] = k /\ d[a] = m /\ BallotOf(c, a) = k
      /\ \A b \in D \ {a} : d[b] = c[b]
  BY <1>1, <1>2 DEF Ballots, BallotOf
<1>4. IsCast(c) /\ Tallied(t, c, e)
  BY <1>1 DEF Tallied
<1>5. BallotMoves(c, d, a)
  <2>1. DOMAIN d = DOMAIN c \cup {a} /\ IsBallot(d[a]) /\ \A b \in DOMAIN c \ {a} : d[b] = c[b]
    BY <1>3
  <2> QED
    BY <1>4, <2>1, BallotMoved
<1>6. IsCast(d)
  BY <1>5 DEF BallotMoves
<1>7. IsBallot(k)
  BY <1>3, <1>4 DEF IsCast
<1>8. \A q \in DOMAIN c : SumOf(GivenTo(d, q)) = SumOf(GivenTo(c, q))
  <2>1. TAKE q \in DOMAIN c
  <2>2. Given(k, q) \in Nat /\ SumOf(GivenTo(c, q)) \in Nat /\ Given(m, q) = Given(k, q)
    BY <1>4, <1>7, CastColumns DEF Given, IsBallot
  <2>3. SumOf(GivenTo(d, q)) = SumOf(GivenTo(c, q)) - Given(k, q) + Given(m, q)
    BY <1>3, <1>5 DEF BallotMoves
  <2> QED
    BY <2>2, <2>3
<1>9. \A p \in Producers : SumOf(CastFor(d, p)) = SumOf(CastFor(c, p)) + IF p \in ps THEN delta ELSE 0
  <2>1. TAKE p \in Producers
  <2>2. VoteFor(k, p) \in Nat /\ SumOf(CastFor(c, p)) \in Nat
    BY <1>4, <1>7, CastColumns DEF VoteFor, IsBallot
  <2>3. SumOf(CastFor(d, p)) = SumOf(CastFor(c, p)) - VoteFor(k, p) + VoteFor(m, p)
    BY <1>3, <1>5 DEF BallotMoves
  <2>4. VoteFor(m, p) = VoteFor(k, p) + IF p \in ps THEN delta ELSE 0
    BY DEF GivesVotes
  <2> QED
    BY <2>2, <2>3, <2>4
<1>10. DOMAIN d = DOMAIN c
  BY <1>3
<1>11. Tallied(h, d, e)
  BY <1>4, <1>6, <1>8, <1>9, <1>10, AddVotesTallied
<1> QED
  BY <1>2, <1>11

\* No total is below zero, so none is set to it.
NonNegatives(t, ps) ==
    [t EXCEPT !.prods = [p \in DOMAIN t.prods |->
       IF p \in ps /\ t.prods[p].total_votes < 0 THEN WithVotes(t.prods[p], 0) ELSE t.prods[p]]]
LEMMA NoneClamped ==
    ASSUME NEW t, IsTables(t), NEW c, NEW e, Tallied(t, c, e), t.prods = [p \in DOMAIN t.prods |-> t.prods[p]],
           NEW ps
    PROVE  NonNegatives(t, ps) = t
<1>1. \A p \in DOMAIN t.prods : t.prods[p].total_votes \in Nat
  BY CastColumns DEF Tallied
<1>2. PICK r : r = [p \in DOMAIN t.prods |->
                      IF p \in ps /\ t.prods[p].total_votes < 0 THEN WithVotes(t.prods[p], 0) ELSE t.prods[p]]
  OBVIOUS
<1>3. \A p \in DOMAIN t.prods : ~(t.prods[p].total_votes < 0)
  BY <1>1
<1>4. r = t.prods
  BY <1>2, <1>3
<1>5. NonNegatives(t, ps) = [t EXCEPT !.prods = t.prods]
  BY <1>2, <1>4 DEF NonNegatives
<1> QED
  BY <1>5 DEF IsTables, TableFields

\* The vote of a is taken from the old producers and given to new ones.
LEMMA ChangeVotesOpen ==
    ASSUME NEW t, NEW S, NEW D, NEW a, NEW k, NEW e, Open(t, S, D, a, k, e, 0),
           NEW old, old \subseteq Producers, NEW ow \in Nat,
           \A p \in Producers : VoteFor(k, p) = IF p \in old THEN ow ELSE 0,
           NEW new, new \subseteq Producers, NEW nw \in Nat, NEW voting \in BOOLEAN,
           NEW h, h = ChangeVotes(t, old, ow, new, nw, voting), h.ok
    PROVE  /\ Open(h, S, D, a, Redirected(k, new, nw), e, 0)
           /\ h.voters = t.voters /\ t.ok
<1> DEFINE g == AddVotes(t, old, -ow)
           j == AddVotes(g, new, nw)
           Clamped(p, r) == IF p \in old \cup new /\ r.total_votes < 0 THEN WithVotes(r, 0) ELSE r
           ps == [p \in DOMAIN j.prods |-> Clamped(p, j.prods[p])]
           b == \A p \in new : p \in DOMAIN t.prods /\ (voting => t.prods[p].is_active)
<1>1. PICK i : i = [j EXCEPT !.prods = ps]
  OBVIOUS
<1>2. h = Check(i, b)
  BY <1>1 DEF ChangeVotes
<1>3. b \in BOOLEAN
  OBVIOUS
<1> HIDE DEF b
<1>4. i = [j EXCEPT !.prods = [p \in DOMAIN j.prods |->
             IF p \in old \cup new /\ j.prods[p].total_votes < 0 THEN WithVotes(j.prods[p], 0) ELSE j.prods[p]]]
  BY <1>1
<1> HIDE DEF ps
<1>5. VotesAdded(t, g, old, -ow)
  <2>1. IsTables(t)
    BY DEF Open
  <2>2. PICK delta : delta = -ow
    OBVIOUS
  <2>3. PICK x : x = AddVotes(t, old, delta)
    OBVIOUS
  <2>4. VotesAdded(t, x, old, delta)
    BY <2>1, <2>3, AddVotesRows
  <2> QED
    BY <2>2, <2>3, <2>4
<1>6. PICK x : x = g
  OBVIOUS
<1>7. PICK y : y = j
  OBVIOUS
<1>8. y = AddVotes(x, new, nw) /\ x = AddVotes(t, old, -ow)
  BY <1>6, <1>7
<1>9. i = NonNegatives(y, old \cup new)
  BY <1>4, <1>7 DEF NonNegatives
<1>10. VotesAdded(t, x, old, -ow)
  BY <1>5, <1>6
<1> HIDE DEF g, j
<1>11. IsTables(x) /\ x.voters = t.voters /\ x.ok = t.ok
  BY <1>10 DEF VotesAdded, Frame, TableFields
<1>12. VotesAdded(x, y, new, nw)
  BY <1>8, <1>11, AddVotesRows
<1>13. /\ IsTables(y) /\ y.voters = t.voters /\ y.ok = t.ok
       /\ y.prods = [p \in DOMAIN y.prods |-> y.prods[p]]
  <2>1. IsTables(y) /\ y.voters = x.voters /\ y.ok = x.ok
    BY <1>12 DEF VotesAdded, Frame, TableFields
  <2>2. y.prods = [p \in DOMAIN y.prods |-> y.prods[p]]
    BY <1>12 DEF VotesAdded
  <2> QED
    BY <1>11, <2>1, <2>2
<1>14. PICK m : m = Redirected(k, {}, 0)
  OBVIOUS
<1>15. PICK n : n = Redirected(k, new, nw)
  OBVIOUS
<1>16. /\ IsTables(t) /\ a \in D /\ Tallied(t, Ballots(t.voters, D, a, k), e)
       /\ IsCast(Ballots(t.voters, D, a, k))
  BY DEF Open, Tallied
<1>17. IsBallot(k) /\ IsBallot(m) /\ IsBallot(n)
  <2>1. Ballots(t.voters, D, a, k)[a] = k /\ a \in DOMAIN Ballots(t.voters, D, a, k)
    BY <1>16 DEF Ballots
  <2>2. IsBallot(k)
    BY <1>16, <2>1 DEF IsCast
  <2> QED
    BY <1>14, <1>15, <2>2 DEF IsBallot, Redirected
<1>18. Tallied(x, Ballots(t.voters, D, a, m), e)
  <2>1. m.proxy = k.proxy /\ m.stake = k.stake /\ m.producers = {}
    BY <1>14 DEF Redirected
  <2>2. \A p \in Producers : VoteFor(m, p) = 0
    BY <2>1 DEF VoteFor
  <2>3. PICK delta \in Int : delta = -ow
    OBVIOUS
  <2>4. GivesVotes(m, k, old, delta)
    <3>1. \A p \in Producers : VoteFor(m, p) = VoteFor(k, p) + IF p \in old THEN delta ELSE 0
      BY <2>2, <2>3
    <3> QED
      BY <3>1 DEF GivesVotes
  <2>5. x = AddVotes(t, old, delta)
    BY <1>8, <2>3
  <2> QED
    BY <1>16, <1>17, <2>1, <2>4, <2>5, VotesMoved
<1>19. Tallied(y, Ballots(t.voters, D, a, n), e)
  <2>1. n.proxy = m.proxy /\ n.stake = m.stake /\ m.producers = {} /\ n.producers = new /\ n.weight = nw
    BY <1>14, <1>15 DEF Redirected
  <2>2. \A p \in Producers : VoteFor(n, p) = VoteFor(m, p) + IF p \in new THEN nw ELSE 0
    BY <2>1 DEF VoteFor
  <2>3. GivesVotes(n, m, new, nw) /\ nw \in Int
    BY <2>2 DEF GivesVotes
  <2>4. y = AddVotes(x, new, nw)
    BY <1>8
  <2> QED
    BY <1>11, <1>16, <1>17, <1>18, <2>1, <2>3, <2>4, VotesMoved
<1>20. i = y
  BY <1>9, <1>13, <1>19, NoneClamped
<1>21. h = y /\ y.ok
  <2>1. Frame(y, y, {})
    BY <1>13 DEF Frame
  <2> QED
    BY <1>2, <1>3, <1>20, <2>1, CheckPassed
<1>22. Tallied(h, Ballots(h.voters, D, a, n), e) /\ h.voters = t.voters /\ IsTables(h)
  BY <1>13, <1>19, <1>21
<1>23. Open(h, S, D, a, n, e, 0)
  BY <1>22 DEF Open
<1> QED
  BY <1>13, <1>15, <1>21, <1>23

-----------------------------------------------------------------------------
(* A vote as a whole                                                       *)

\* The ballots of D as they are in the rows.
Cast(u, D) == [b \in D |-> Ballot(u[b])]

\* The votes of D are counted, and those in S have voted.
Counting(t, S, D, e) ==
    /\ IsTables(t) /\ VoterTable(t.voters) /\ RowsTyped(t.voters)
    /\ S \subseteq D /\ D \subseteq DOMAIN t.voters
    /\ \A b \in S : /\ Counted(t.voters[b]) /\ Fresh(t.voters[b])
                    /\ t.voters[b].proxy = 0 \/ t.voters[b].proxy \in D
    /\ \A b \in D \ S : Blank(t.voters[b])
    /\ Tallied(t, Cast(t.voters, D), e)

\* The ballot of a voter once its proxy has lost the stake that it has from it.
Withdrawn(v) == IF v.last_stake > 0 /\ v.proxy # 0 THEN Recalled(Ballot(v)) ELSE Ballot(v)

\* From t to h a voter has left its proxy, if it has one.
Leaves(t, h, S, D, a, e, v, proxy) ==
    /\ Open(h, S, D, a, Withdrawn(v), e,
            IF v.last_stake > 0 /\ v.proxy # 0 /\ proxy = v.proxy THEN proxy ELSE 0)
    /\ Aside(t, h, a) /\ h.ok = t.ok
    /\ \A x \in D : Given(Withdrawn(v), x) = 0
    /\ Withdrawn(v).producers = v.producers /\ Withdrawn(v).weight = v.last_vote_weight

\* It does so before it votes.
LEMMA VoteLeft ==
    ASSUME NEW t, NEW S, NEW D, NEW a, NEW e, NEW v, v = t.voters[a], Open(t, S, D, a, Ballot(v), e, 0),
           v.last_stake > 0 /\ v.proxy # 0 => v.proxy \in S, NEW proxy,
           NEW h, h = IF v.last_stake > 0 /\ v.proxy # 0 THEN LeaveProxy(t, v, proxy) ELSE t
    PROVE  Leaves(t, h, S, D, a, e, v, proxy)
<1> SUFFICES /\ Open(h, S, D, a, Withdrawn(v), e,
                     IF v.last_stake > 0 /\ v.proxy # 0 /\ proxy = v.proxy THEN proxy ELSE 0)
             /\ Aside(t, h, a) /\ h.ok = t.ok
             /\ \A x \in D : Given(Withdrawn(v), x) = 0
             /\ Withdrawn(v).producers = v.producers /\ Withdrawn(v).weight = v.last_vote_weight
  BY DEF Leaves
<1>1. /\ IsTables(t) /\ RowsTyped(t.voters) /\ D \subseteq DOMAIN t.voters /\ a \in D
      /\ \A x \in D : x # 0
  BY ResourcesAssumption DEF Open, VoterTable
<1>2. PICK k : k = Ballot(v)
  OBVIOUS
<1>3. /\ k.proxy = v.proxy /\ k.stake = v.last_stake /\ k.producers = v.producers
      /\ k.weight = v.last_vote_weight
  BY <1>2 DEF Ballot
<1>4. v.last_stake \in Nat
  BY <1>1 DEF RowsTyped, VoterTyped
<1>5. CASE v.last_stake > 0 /\ v.proxy # 0
  <2>1. h = LeaveProxy(t, v, proxy) /\ v.proxy \in S /\ Open(t, S, D, a, k, e, 0)
    BY <1>2, <1>5
  <2>2. /\ Open(h, S, D, a, Recalled(k), e, IF proxy = v.proxy THEN proxy ELSE 0)
        /\ Aside(t, h, a) /\ h.ok = t.ok
    BY <1>3, <2>1, LeaveProxyOpen
  <2>3. Withdrawn(v) = Recalled(k)
    BY <1>2, <1>5 DEF Withdrawn
  <2>4. /\ \A x \in D : Given(Recalled(k), x) = 0
        /\ Recalled(k).producers = k.producers /\ Recalled(k).weight = k.weight
    BY <1>1 DEF Recalled, Given
  <2> QED
    BY <1>3, <1>5, <2>2, <2>3, <2>4
<1>6. CASE ~(v.last_stake > 0 /\ v.proxy # 0)
  <2>1. h = t /\ Withdrawn(v) = k
    BY <1>2, <1>6 DEF Withdrawn
  <2>2. v.last_stake = 0 \/ v.proxy = 0
    BY <1>4, <1>6
  <2>3. \A x \in D : Given(k, x) = 0
    BY <1>1, <1>3, <2>2 DEF Given
  <2>4. Aside(t, t, a)
    BY <1>1 DEF Aside
  <2> QED
    BY <1>2, <1>3, <1>6, <2>1, <2>3, <2>4
<1> QED
  BY <1>5, <1>6

\* It joins another, or the same.
LEMMA VoteJoined ==
    ASSUME NEW t, NEW S, NEW D, NEW a, NEW k, NEW e, NEW z, Open(t, S, D, a, k, e, z),
           NEW proxy, z \in {0, proxy}, proxy # a, proxy \in DOMAIN t.voters => proxy \in D,
           \A x \in D : Given(k, x) = 0,
           NEW v, v.staked \in Nat, NEW voting \in BOOLEAN,
           NEW h, h = IF proxy # 0 THEN JoinProxy(t, v, proxy, voting) ELSE t, h.ok,
           NEW m, m = IF proxy # 0 THEN Entrusted(k, proxy, v.staked) ELSE k
    PROVE  /\ Open(h, S, D, a, m, e, 0) /\ Aside(t, h, a) /\ t.ok
           /\ proxy # 0 => proxy \in D
           /\ proxy # 0 /\ voting => h.voters[proxy].is_proxy
           /\ \A x \in D : Given(m, x) = IF x = proxy THEN v.staked ELSE 0
           /\ m.producers = k.producers /\ m.weight = k.weight
<1>1. IsTables(t) /\ \A x \in D : x # 0
  BY ResourcesAssumption DEF Open, VoterTable
<1>2. CASE proxy # 0
  <2>1. h = JoinProxy(t, v, proxy, voting) /\ m = Entrusted(k, proxy, v.staked)
    BY <1>2
  <2>2. /\ Open(h, S, D, a, Entrusted(k, proxy, v.staked), e, 0)
        /\ Aside(t, h, a) /\ t.ok
        /\ proxy \in D /\ (voting => h.voters[proxy].is_proxy)
    BY <2>1, JoinProxyOpen
  <2>3. /\ \A x \in D : Given(m, x) = IF x = proxy THEN v.staked ELSE 0
        /\ m.producers = k.producers /\ m.weight = k.weight
    BY <2>1 DEF Entrusted, Given
  <2> QED
    BY <2>1, <2>2, <2>3
<1>3. CASE proxy = 0
  <2>1. h = t /\ m = k /\ z = 0
    BY <1>3
  <2>2. Aside(t, t, a)
    BY <1>1 DEF Aside
  <2> QED
    BY <1>1, <1>3, <2>1, <2>2
<1> QED
  BY <1>2, <1>3

\* The row of a voter with its new vote.
Voting4(v, w, n, ps, q) ==
    [[[[v EXCEPT !["last_vote_weight"] = w] EXCEPT !["last_stake"] = n]
         EXCEPT !["producers"] = ps] EXCEPT !["proxy"] = q]

\* What the row says.
LEMMA VoteRow ==
    ASSUME NEW v, IsVoter(v), NEW w, NEW n, NEW ps, NEW q, NEW r, r = Voting4(v, w, n, ps, q)
    PROVE  /\ r.last_vote_weight = w /\ r.last_stake = n /\ r.producers = ps /\ r.proxy = q
           /\ r.staked = v.staked /\ r.is_proxy = v.is_proxy
           /\ r.proxied_vote_weight = v.proxied_vote_weight
BY DEF IsVoter, VoterFields, Voting4

\* It is written.
LEMMA VoteWritten ==
    ASSUME NEW t, IsTables(t), VoterTable(t.voters), NEW a \in DOMAIN t.voters,
           NEW w, NEW n, NEW ps, NEW q,
           NEW h, h = [t EXCEPT !.voters[a].last_vote_weight = w, !.voters[a].last_stake = n,
                                !.voters[a].producers = ps, !.voters[a].proxy = q]
    PROVE  OneRow(t, h, a, Voting4(t.voters[a], w, n, ps, q))
<1> DEFINE g == [t EXCEPT !.voters[a]["last_vote_weight"] = w]
           i == [g EXCEPT !.voters[a]["last_stake"] = n]
           j == [i EXCEPT !.voters[a]["producers"] = ps]
           l == [j EXCEPT !.voters[a]["proxy"] = q]
<1>1. h = l
  OBVIOUS
<1>2. {"last_vote_weight", "last_stake", "producers", "proxy"} \subseteq VoterFields \ {"staked", "managed"}
  BY DEF VoterFields
<1>3. PICK r1 : r1 = [t.voters[a] EXCEPT !["last_vote_weight"] = w]
  OBVIOUS
<1>4. OneRow(t, g, a, r1)
  BY <1>2, <1>3, FieldWritten
<1> HIDE DEF g
<1>5. IsTables(g) /\ VoterTable(g.voters) /\ a \in DOMAIN g.voters /\ g.voters[a] = r1
  BY <1>4 DEF OneRow, Frame
<1>6. PICK r2 : r2 = [r1 EXCEPT !["last_stake"] = n]
  OBVIOUS
<1>7. OneRow(g, i, a, r2)
  BY <1>2, <1>5, <1>6, FieldWritten
<1> HIDE DEF i
<1>8. IsTables(i) /\ VoterTable(i.voters) /\ a \in DOMAIN i.voters /\ i.voters[a] = r2
  BY <1>5, <1>7 DEF OneRow, Frame
<1>9. PICK r3 : r3 = [r2 EXCEPT !["producers"] = ps]
  OBVIOUS
<1>10. OneRow(i, j, a, r3)
  BY <1>2, <1>8, <1>9, FieldWritten
<1> HIDE DEF j
<1>11. IsTables(j) /\ VoterTable(j.voters) /\ a \in DOMAIN j.voters /\ j.voters[a] = r3
  BY <1>8, <1>10 DEF OneRow, Frame
<1>12. PICK r4 : r4 = [r3 EXCEPT !["proxy"] = q]
  OBVIOUS
<1>13. OneRow(j, l, a, r4)
  BY <1>2, <1>11, <1>12, FieldWritten
<1> HIDE DEF l
<1>14. OneRow(t, i, a, r2)
  BY <1>4, <1>7, RowsWritten
<1>15. OneRow(t, j, a, r3)
  BY <1>10, <1>14, RowsWritten
<1>16. OneRow(t, l, a, r4)
  BY <1>13, <1>15, RowsWritten
<1>17. r4 = Voting4(t.voters[a], w, n, ps, q)
  BY <1>3, <1>6, <1>9, <1>12 DEF Voting4
<1> QED
  BY <1>1, <1>16, <1>17

\* Once its row is written the vote has been cast.
LEMMA VoteCounted ==
    ASSUME NEW t, NEW S, NEW D, NEW a, NEW k, NEW e, Open(t, S, D, a, k, e, 0),
           NEW h, NEW r, OneRow(t, h, a, r), VoterTyped(r),
           r.proxied_vote_weight = t.voters[a].proxied_vote_weight,
           r.proxy # 0 => r.proxy \in DOMAIN t.voters \ {a},
           Counted(r), Fresh(r), r.proxy = 0 \/ r.proxy \in D,
           \A x \in D : Given(Ballot(r), x) = Given(k, x),
           \A p \in Producers : VoteFor(Ballot(r), p) = VoteFor(k, p)
    PROVE  Counting(h, S \cup {a}, D, e)
<1>1. /\ IsTables(t) /\ VoterTable(t.voters) /\ RowsTyped(t.voters)
      /\ S \subseteq D /\ D \subseteq DOMAIN t.voters /\ a \in D /\ a \notin S
      /\ \A b \in S : /\ Counted(t.voters[b]) /\ (b # 0 => Fresh(t.voters[b]))
                      /\ t.voters[b].proxy = 0 \/ t.voters[b].proxy \in D
      /\ \A b \in D \ (S \cup {a}) : Blank(t.voters[b])
      /\ Tallied(t, Ballots(t.voters, D, a, k), e)
      /\ \A x \in D : x # 0
  BY ResourcesAssumption DEF Open, VoterTable
<1>2. /\ Frame(t, h, {"voters"}) /\ VoterTable(h.voters) /\ DOMAIN h.voters = DOMAIN t.voters
      /\ h.voters[a] = r /\ \A b \in DOMAIN t.voters \ {a} : h.voters[b] = t.voters[b]
  BY DEF OneRow
<1>3. /\ IsTables(h) /\ h.prods = t.prods
      /\ h.total_producer_vote_weight = t.total_producer_vote_weight
  BY <1>2 DEF Frame, TableFields
<1>4. RowsTyped(h.voters)
  BY <1>1, <1>2 DEF RowsTyped
<1>5. \A b \in S \cup {a} : /\ Counted(h.voters[b]) /\ Fresh(h.voters[b])
                            /\ h.voters[b].proxy = 0 \/ h.voters[b].proxy \in D
  BY <1>1, <1>2
<1>6. \A b \in D \ (S \cup {a}) : Blank(h.voters[b])
  BY <1>1, <1>2
<1>7. IsBallot(Ballot(r))
  BY DEF IsBallot, Ballot, VoterTyped
<1>8. PICK m : m = Ballot(r)
  OBVIOUS
<1>9. Tallied(t, Ballots(t.voters, D, a, m), e)
  BY <1>1, <1>7, <1>8, TalliedAlike
<1>10. Cast(h.voters, D) = Ballots(t.voters, D, a, m)
  BY <1>1, <1>2, <1>8 DEF Cast, Ballots
<1>11. PICK c : c = Ballots(t.voters, D, a, m)
  OBVIOUS
<1>12. DOMAIN c = D
  BY <1>11 DEF Ballots
<1>13. \A q \in DOMAIN c : h.voters[q].proxied_vote_weight = t.voters[q].proxied_vote_weight
  BY <1>1, <1>2, <1>12
<1>14. Tallied(t, c, e)
  BY <1>9, <1>11
<1>15. Tallied(h, c, e)
  BY <1>3, <1>13, <1>14 DEF Tallied
<1>16. Tallied(h, Cast(h.voters, D), e)
  BY <1>10, <1>11, <1>15
<1>17. S \cup {a} \subseteq D /\ D \subseteq DOMAIN h.voters
  BY <1>1, <1>2
<1> QED
  BY <1>2, <1>3, <1>4, <1>5, <1>6, <1>16, <1>17 DEF Counting

\* a may vote: what it has said is counted.
Opened(t, S, D, a, e) ==
    LET v == t.voters[a]
    IN  /\ Open(t, S, D, a, Ballot(v), e, 0)
        /\ v.last_vote_weight = inverse_vote_weight(v.last_stake, v.producers)
        /\ v.last_stake > 0 /\ v.proxy # 0 => v.proxy \in S

\* It has voted, for a proxy or without one, and none has become a proxy.
HasVoted(t, h, S, D, a, e, proxy, voting) ==
    /\ Counting(h, S \cup {a}, D, e) /\ t.ok
    /\ DOMAIN h.voters = DOMAIN t.voters
    /\ \A b \in DOMAIN t.voters : h.voters[b].is_proxy = t.voters[b].is_proxy
    /\ proxy # 0 /\ voting => h.voters[proxy].is_proxy
    /\ h.voters[a].proxy = proxy

\* A vote that is valid is taken back from whom it was for and counted for whom
\* it is for, and the row of the voter says so.
LEMMA update_votesOpen ==
    ASSUME NEW t, NEW S, NEW D, NEW a, NEW e, Opened(t, S, D, a, e),
           NEW proxy, proxy \in DOMAIN t.voters => proxy \in D,
           NEW ps, ps \subseteq Producers, NEW voting \in BOOLEAN,
           NEW h, h = update_votes(t, a, proxy, ps, voting), h.ok
    PROVE  HasVoted(t, h, S, D, a, e, proxy, voting)
<1> SUFFICES /\ Counting(h, S \cup {a}, D, e) /\ t.ok
             /\ DOMAIN h.voters = DOMAIN t.voters
             /\ \A b \in DOMAIN t.voters : h.voters[b].is_proxy = t.voters[b].is_proxy
             /\ proxy # 0 /\ voting => h.voters[proxy].is_proxy
             /\ h.voters[a].proxy = proxy
  BY DEF HasVoted
<1>01. PICK v : v = t.voters[a]
  OBVIOUS
<1>02. /\ Open(t, S, D, a, Ballot(v), e, 0)
       /\ v.last_vote_weight = inverse_vote_weight(v.last_stake, v.producers)
       /\ v.last_stake > 0 /\ v.proxy # 0 => v.proxy \in S
  BY <1>01 DEF Opened
<1>03. PICK k0 : k0 = Ballot(v)
  OBVIOUS
<1>04. Open(t, S, D, a, k0, e, 0)
  BY <1>02, <1>03
<1> DEFINE own == t.voters[a]
           total == IF voting /\ proxy = 0 /\ ps = {} THEN 0 ELSE TotalStaked(own)
           weight == inverse_vote_weight(total, ps)
           voted == own.last_stake > 0
           old == IF voted /\ own.proxy = 0 THEN own.producers ELSE {}
           left == IF voted /\ own.proxy # 0 THEN LeaveProxy(t, own, proxy) ELSE t
           joined == IF proxy # 0 THEN JoinProxy(left, own, proxy, voting) ELSE left
           changed == ChangeVotes(joined, old, own.last_vote_weight, ps, weight, voting)
           written == [changed EXCEPT !.voters[a].last_vote_weight = weight, !.voters[a].last_stake = total,
                                      !.voters[a].producers = ps, !.voters[a].proxy = proxy]
<1>1. /\ IsTables(t) /\ VoterTable(t.voters) /\ RowsTyped(t.voters)
      /\ S \subseteq D /\ D \subseteq DOMAIN t.voters /\ a \in D /\ a \notin S
      /\ \A x \in D : x # 0
  <2>1. /\ IsTables(t) /\ VoterTable(t.voters) /\ RowsTyped(t.voters)
        /\ S \subseteq D /\ D \subseteq DOMAIN t.voters /\ a \in D /\ a \notin S
    BY <1>04 DEF Open
  <2>2. \A x \in D : x # 0
    BY <2>1, ResourcesAssumption DEF VoterTable
  <2> QED
    BY <2>1, <2>2
<1>2. VoterTyped(v) /\ IsVoter(v)
  BY <1>1, <1>01 DEF RowsTyped, VoterTable
<1>3. h = IF ~ValidVote(t, a, proxy, ps) THEN Check(t, FALSE) ELSE written
  BY DEF update_votes
<1>4. ValidVote(t, a, proxy, ps) /\ h = written
  <2>1. ~Check(t, FALSE).ok
    BY <1>1, CheckFrame
  <2> HIDE DEF written
  <2> QED
    BY <1>3, <2>1
<1>5. /\ Cardinality(ps) <= MAX_VOTE_PRODUCERS
      /\ proxy # 0 => ps = {} /\ a # proxy /\ ~v.is_proxy
  BY <1>4, <1>01 DEF ValidVote
<1>6. TotalStaked(v) \in Nat /\ (v.is_proxy => TotalStaked(v) >= v.staked) /\ (~v.is_proxy => TotalStaked(v) = v.staked)
  BY <1>2 DEF TotalStaked, VoterTyped
<1>7. PICK n : n = total
  OBVIOUS
<1>8. n \in Nat /\ (~(voting /\ proxy = 0 /\ ps = {}) => n = TotalStaked(v))
  BY <1>6, <1>7, <1>01
<1>9. PICK w : w = weight
  OBVIOUS
<1>10. w = inverse_vote_weight(n, ps)
  BY <1>7, <1>9
<1>11. w \in Nat
  BY <1>5, <1>8, <1>10, WeightsOf
<1>12. PICK g : g = left
  OBVIOUS
<1>13. PICK j : j = joined
  OBVIOUS
<1>14. PICK i : i = changed
  OBVIOUS
<1>15. g = IF v.last_stake > 0 /\ v.proxy # 0 THEN LeaveProxy(t, v, proxy) ELSE t
  BY <1>12, <1>01
<1>16. j = IF proxy # 0 THEN JoinProxy(g, v, proxy, voting) ELSE g
  BY <1>12, <1>13, <1>01
<1>17. PICK o : o = old
  OBVIOUS
<1>18. o = IF v.last_stake > 0 /\ v.proxy = 0 THEN v.producers ELSE {}
  BY <1>17, <1>01
<1>19. i = ChangeVotes(j, o, v.last_vote_weight, ps, w, voting)
  BY <1>9, <1>13, <1>14, <1>17, <1>01
<1> HIDE DEF total, weight, voted, old, left, joined, changed
<1>20. h = [i EXCEPT !.voters[a].last_vote_weight = w, !.voters[a].last_stake = n,
                     !.voters[a].producers = ps, !.voters[a].proxy = proxy]
  BY <1>4, <1>7, <1>9, <1>14
<1> HIDE DEF written
<1>21. IsTables(g) /\ VoterTable(g.voters)
  <2>1. CASE v.last_stake > 0 /\ v.proxy # 0
    BY <1>1, <1>15, <2>1, LeaveProxyPolling, PollingTables
  <2>2. CASE ~(v.last_stake > 0 /\ v.proxy # 0)
    <3>1. g = t
      BY <1>15, <2>2
    <3> QED
      BY <1>1, <3>1
  <2> QED
    BY <2>1, <2>2
<1>22. IsTables(j) /\ VoterTable(j.voters)
  <2>1. CASE proxy # 0
    BY <1>16, <1>21, <2>1, JoinProxyPolling, PollingTables
  <2>2. CASE proxy = 0
    BY <1>16, <1>21, <2>2
  <2> QED
    BY <2>1, <2>2
<1>23. Polling(j, i)
  BY <1>19, <1>22, ChangeVotesPolling
<1>24. IsTables(i) /\ VoterTable(i.voters) /\ (i.ok => j.ok)
  BY <1>23, PollingTables DEF Polling, Frame
<1>25. /\ Open(g, S, D, a, Withdrawn(v), e,
               IF v.last_stake > 0 /\ v.proxy # 0 /\ proxy = v.proxy THEN proxy ELSE 0)
       /\ Aside(t, g, a) /\ g.ok = t.ok
       /\ \A x \in D : Given(Withdrawn(v), x) = 0
       /\ Withdrawn(v).producers = v.producers /\ Withdrawn(v).weight = v.last_vote_weight
  <2>1. v.last_stake > 0 /\ v.proxy # 0 => v.proxy \in S
    BY <1>02
  <2>2. Open(t, S, D, a, Ballot(v), e, 0)
    BY <1>02
  <2>3. Leaves(t, g, S, D, a, e, v, proxy)
    BY <1>01, <1>15, <2>1, <2>2, VoteLeft
  <2> QED
    BY <2>3 DEF Leaves
<1>26. PICK k : k = Withdrawn(v)
  OBVIOUS
<1>27. PICK z : z = IF v.last_stake > 0 /\ v.proxy # 0 /\ proxy = v.proxy THEN proxy ELSE 0
  OBVIOUS
<1>28. z \in {0, proxy}
  BY <1>27
<1>29. /\ Open(g, S, D, a, k, e, z) /\ \A x \in D : Given(k, x) = 0
       /\ k.producers = v.producers /\ k.weight = v.last_vote_weight
  BY <1>25, <1>26, <1>27
<1>30. DOMAIN g.voters = DOMAIN t.voters /\ a \in DOMAIN g.voters
  BY <1>1, <1>25 DEF Aside
<1>31. DOMAIN i.voters = DOMAIN t.voters
  <2>1. DOMAIN j.voters = DOMAIN g.voters
    <3>1. CASE proxy # 0
      <4>1. Polling(g, j)
        BY <1>16, <1>21, <3>1, JoinProxyPolling
      <4> QED
        BY <4>1 DEF Polling, SameStakes
    <3>2. CASE proxy = 0
      BY <1>16, <3>2
    <3> QED
      BY <3>1, <3>2
  <2> QED
    BY <1>23, <1>30, <2>1 DEF Polling, SameStakes
<1>32. OneRow(i, h, a, Voting4(i.voters[a], w, n, ps, proxy))
  <2>1. a \in DOMAIN i.voters
    BY <1>30, <1>31
  <2> QED
    BY <1>20, <1>24, <2>1, VoteWritten
<1>33. i.ok /\ j.ok
  BY <1>24, <1>32 DEF OneRow
<1>34. PICK m : m = IF proxy # 0 THEN Entrusted(k, proxy, v.staked) ELSE k
  OBVIOUS
<1>35. proxy # a
  <2>1. a # 0
    BY <1>1
  <2> QED
    BY <1>5, <2>1
<1>36. /\ Open(j, S, D, a, m, e, 0) /\ Aside(g, j, a) /\ g.ok
       /\ proxy # 0 => proxy \in D
       /\ proxy # 0 /\ voting => j.voters[proxy].is_proxy
       /\ \A x \in D : Given(m, x) = IF x = proxy THEN v.staked ELSE 0
       /\ m.producers = k.producers /\ m.weight = k.weight
  <2>1. proxy \in DOMAIN g.voters => proxy \in D
    BY <1>30
  <2>2. v.staked \in Nat
    BY <1>2 DEF VoterTyped
  <2> QED
    BY <1>16, <1>28, <1>29, <1>33, <1>34, <1>35, <2>1, <2>2, VoteJoined
<1>37. \A p \in Producers : VoteFor(m, p) = IF p \in o THEN v.last_vote_weight ELSE 0
  <2>1. m.producers = v.producers /\ m.weight = v.last_vote_weight
    BY <1>29, <1>36
  <2>2. v.proxy # 0 => v.producers = {}
    BY <1>2 DEF VoterTyped
  <2>3. v.last_stake = 0 => v.last_vote_weight = 0
    <3>1. v.producers \subseteq Producers /\ Cardinality(v.producers) <= MAX_VOTE_PRODUCERS
      BY <1>2 DEF VoterTyped
    <3> QED
      <4>1. inverse_vote_weight(0, v.producers) = 0
        BY <3>1, WeightsOf
      <4>2. v.last_vote_weight = inverse_vote_weight(v.last_stake, v.producers)
        BY <1>02
      <4> QED
        BY <4>1, <4>2
  <2>4. v.last_stake \in Nat
    BY <1>2 DEF VoterTyped
  <2>5. CASE v.last_stake > 0 /\ v.proxy = 0
    BY <1>18, <2>1, <2>5 DEF VoteFor
  <2>6. CASE v.last_stake = 0 \/ v.proxy # 0
    BY <1>18, <2>1, <2>2, <2>3, <2>4, <2>6 DEF VoteFor
  <2> QED
    BY <2>4, <2>5, <2>6
<1>38. o \subseteq Producers /\ v.last_vote_weight \in Nat
  BY <1>2, <1>18 DEF VoterTyped
<1>39. /\ Open(i, S, D, a, Redirected(m, ps, w), e, 0)
       /\ i.voters = j.voters /\ j.ok
  BY <1>11, <1>19, <1>33, <1>36, <1>37, <1>38, ChangeVotesOpen
<1>40. i.voters[a] = v
  BY <1>25, <1>36, <1>39, <1>01 DEF Aside
<1>41. PICK r : r = Voting4(v, w, n, ps, proxy)
  OBVIOUS
<1>42. /\ r.last_vote_weight = w /\ r.last_stake = n /\ r.producers = ps /\ r.proxy = proxy
       /\ r.staked = v.staked /\ r.is_proxy = v.is_proxy
       /\ r.proxied_vote_weight = v.proxied_vote_weight
  BY <1>2, <1>41, VoteRow
<1>43. OneRow(i, h, a, r)
  BY <1>32, <1>40, <1>41
<1>44. VoterTyped(r) /\ TotalStaked(r) = TotalStaked(v)
  BY <1>2, <1>5, <1>8, <1>11, <1>42 DEF VoterTyped, TotalStaked
<1>45. ps = {} => w = 0 /\ weight_of[Cardinality(ps)] = 0 /\ inverse_vote_weight(TotalStaked(v), ps) = 0
  BY <1>5, <1>6, <1>8, <1>10, WeightsOf
<1>46. Counted(r)
  <2>1. r.proxy # 0 \/ (~r.is_proxy /\ r.producers # {}) => r.last_stake = r.staked
    BY <1>5, <1>6, <1>8, <1>42
  <2>2. r.is_proxy /\ r.staked > 0 /\ r.last_vote_weight = 0 => weight_of[Cardinality(r.producers)] = 0
    <3>1. SUFFICES ASSUME v.is_proxy, v.staked > 0, w = 0, ps # {}
                   PROVE  weight_of[Cardinality(ps)] = 0
      BY <1>42, <1>45
    <3>2. n \in Nat /\ n # 0
      BY <1>2, <1>6, <1>8, <3>1 DEF VoterTyped
    <3>3. PICK x : x = weight_of[Cardinality(ps)]
      OBVIOUS
    <3>4. x \in Nat /\ x * n = 0
      BY <1>5, <1>10, <3>1, <3>3, WeightsOf DEF inverse_vote_weight
    <3> QED
      BY <3>2, <3>3, <3>4, NoProduct
  <2>3. r.last_vote_weight = inverse_vote_weight(r.last_stake, r.producers)
    BY <1>10, <1>42
  <2> QED
    BY <2>1, <2>2, <2>3 DEF Counted
<1>47. Fresh(r)
  <2>1. w = inverse_vote_weight(TotalStaked(v), ps)
    BY <1>8, <1>10, <1>45
  <2> QED
    BY <1>42, <1>44, <2>1 DEF Fresh
<1>48. \A x \in D : Given(Ballot(r), x) = Given(Redirected(m, ps, w), x)
  <2>1. \A x : Given(Redirected(m, ps, w), x) = Given(m, x)
    BY DEF Given, Redirected
  <2>2. \A x \in D : Given(m, x) = IF x = proxy THEN v.staked ELSE 0
    BY <1>36
  <2>3. Ballot(r).proxy = proxy /\ Ballot(r).stake = n
    BY <1>42 DEF Ballot
  <2>4. proxy # 0 => n = v.staked
    BY <1>5, <1>6, <1>8
  <2>5. \A x \in D : Given(Ballot(r), x) = IF x = proxy THEN v.staked ELSE 0
    BY <1>1, <2>3, <2>4 DEF Given
  <2> QED
    BY <2>1, <2>2, <2>5
<1>49. \A p \in Producers : VoteFor(Ballot(r), p) = VoteFor(Redirected(m, ps, w), p)
  BY <1>42 DEF VoteFor, Redirected, Ballot
<1>50. Counting(h, S \cup {a}, D, e)
  <2>1. r.proxied_vote_weight = i.voters[a].proxied_vote_weight
    BY <1>40, <1>42
  <2>2. r.proxy = 0 \/ r.proxy \in D
    BY <1>36, <1>42
  <2>3. r.proxy # 0 => r.proxy \in DOMAIN i.voters \ {a}
    BY <1>1, <1>31, <1>35, <1>42, <2>2
  <2>4. PICK y : y = Redirected(m, ps, w)
    OBVIOUS
  <2>5. Open(i, S, D, a, y, e, 0)
    BY <1>39, <2>4
  <2>6. \A x \in D : Given(Ballot(r), x) = Given(y, x)
    BY <1>48, <2>4
  <2>7. \A p \in Producers : VoteFor(Ballot(r), p) = VoteFor(y, p)
    BY <1>49, <2>4
  <2> QED
    BY <1>43, <1>44, <1>46, <1>47, <2>1, <2>2, <2>3, <2>5, <2>6, <2>7, VoteCounted
<1>51. \A b \in DOMAIN t.voters : j.voters[b].is_proxy = t.voters[b].is_proxy
  BY <1>25, <1>30, <1>36 DEF Aside
<1>52. /\ h.voters[a] = r /\ DOMAIN h.voters = DOMAIN t.voters
       /\ \A b \in DOMAIN t.voters \ {a} : h.voters[b] = j.voters[b]
  BY <1>31, <1>39, <1>43 DEF OneRow
<1>53. \A b \in DOMAIN t.voters : h.voters[b].is_proxy = t.voters[b].is_proxy
  BY <1>42, <1>51, <1>52, <1>01
<1>54. proxy # 0 /\ voting => h.voters[proxy].is_proxy
  BY <1>1, <1>35, <1>36, <1>52
<1> QED
  BY <1>25, <1>36, <1>42, <1>50, <1>52, <1>53, <1>54

-----------------------------------------------------------------------------
(* All votes are counted, from one action to the next                      *)

AllCounted(t, e) == Counting(t, DOMAIN t.voters, DOMAIN t.voters, e)

\* From t to g the row of a has been written, or put.
RowPut(t, g, a, r) ==
    /\ IsTables(g) /\ VoterTable(g.voters)
    /\ g.prods = t.prods /\ g.total_producer_vote_weight = t.total_producer_vote_weight
    /\ DOMAIN g.voters = DOMAIN t.voters \cup {a} /\ g.voters[a] = r
    /\ \A b \in DOMAIN t.voters \ {a} : g.voters[b] = t.voters[b]

\* A row that says the same of the vote, as does that of one who has not voted.
SameVote(u, a, r) ==
    /\ VoterTyped(r)
    /\ a \in DOMAIN u => Ballot(r) = Ballot(u[a]) /\ r.proxied_vote_weight = u[a].proxied_vote_weight
    /\ a \notin DOMAIN u => Ballot(r) = NoBallot /\ r.proxied_vote_weight = 0

\* A ballot that says nothing gives nothing.
LEMMA NoBallotGives ==
    \A x : Given(NoBallot, x) = 0 /\ VoteFor(NoBallot, x) = 0 /\ IsBallot(NoBallot)
BY DEF Given, VoteFor, NoBallot, IsBallot

\* If the row is counted and fresh then all votes are still counted.
LEMMA RowPutCounted ==
    ASSUME NEW t, NEW e, AllCounted(t, e), NEW a \in Users, NEW r, SameVote(t.voters, a, r),
           NEW g, RowPut(t, g, a, r), Counted(r), Fresh(r)
    PROVE  AllCounted(g, e)
<1>1. PICK D : D = DOMAIN t.voters
  OBVIOUS
<1>2. /\ IsTables(t) /\ VoterTable(t.voters) /\ RowsTyped(t.voters)
      /\ \A b \in D : /\ Counted(t.voters[b]) /\ Fresh(t.voters[b])
                      /\ t.voters[b].proxy = 0 \/ t.voters[b].proxy \in D
      /\ Tallied(t, Cast(t.voters, D), e)
  BY <1>1 DEF AllCounted, Counting
<1>3. /\ IsTables(g) /\ VoterTable(g.voters)
      /\ g.prods = t.prods /\ g.total_producer_vote_weight = t.total_producer_vote_weight
      /\ DOMAIN g.voters = D \cup {a} /\ g.voters[a] = r
      /\ \A b \in D \ {a} : g.voters[b] = t.voters[b]
  BY <1>1 DEF RowPut
<1>4. /\ VoterTyped(r)
      /\ a \in D => Ballot(r) = Ballot(t.voters[a]) /\ r.proxied_vote_weight = t.voters[a].proxied_vote_weight
      /\ a \notin D => Ballot(r) = NoBallot /\ r.proxied_vote_weight = 0
  BY <1>1 DEF SameVote
<1>5. r.proxy = 0 \/ r.proxy \in D \ {a}
  <2>1. CASE a \in D
    <3>1. r.proxy = t.voters[a].proxy
      BY <1>4, <2>1 DEF Ballot
    <3> QED
      BY <1>1, <1>2, <2>1, <3>1 DEF RowsTyped
  <2>2. CASE a \notin D
    BY <1>4, <2>2 DEF Ballot, NoBallot
  <2> QED
    BY <2>1, <2>2
<1>6. RowsTyped(g.voters)
  <2>1. ASSUME NEW b \in D \cup {a}
        PROVE  VoterTyped(g.voters[b]) /\ (g.voters[b].proxy # 0 => g.voters[b].proxy \in (D \cup {a}) \ {b})
    <3>1. CASE b = a
      BY <1>3, <1>4, <1>5, <3>1
    <3>2. CASE b # a
      BY <1>1, <1>2, <1>3, <3>2 DEF RowsTyped
    <3> QED
      BY <3>1, <3>2
  <2> QED
    BY <1>3, <2>1 DEF RowsTyped
<1>7. \A b \in D \cup {a} : /\ Counted(g.voters[b]) /\ Fresh(g.voters[b])
                            /\ g.voters[b].proxy = 0 \/ g.voters[b].proxy \in D \cup {a}
  BY <1>2, <1>3, <1>5
<1>8. PICK c : c = Cast(t.voters, D)
  OBVIOUS
<1>9. PICK d : d = Cast(g.voters, D \cup {a})
  OBVIOUS
<1>10. /\ DOMAIN c = D /\ DOMAIN d = D \cup {a} /\ d[a] = Ballot(r)
       /\ \A b \in D \ {a} : d[b] = c[b]
       /\ a \in D => c[a] = Ballot(r)
  BY <1>3, <1>4, <1>8, <1>9 DEF Cast
<1>11. Tallied(t, c, e) /\ IsCast(c)
  BY <1>2, <1>8 DEF Tallied
<1>12. IsBallot(Ballot(r))
  BY <1>4 DEF VoterTyped, Ballot, IsBallot
<1>13. BallotMoves(c, d, a)
  <2>1. DOMAIN d = DOMAIN c \cup {a} /\ \A b \in DOMAIN c \ {a} : d[b] = c[b]
    BY <1>10
  <2> QED
    BY <1>10, <1>11, <1>12, <2>1, BallotMoved
<1>14. IsCast(d)
  BY <1>13 DEF BallotMoves
<1>15. BallotOf(c, a) = Ballot(r)
  BY <1>4, <1>10 DEF BallotOf
<1>16. ASSUME NEW x PROVE SumOf(GivenTo(d, x)) = SumOf(GivenTo(c, x)) /\ SumOf(CastFor(d, x)) = SumOf(CastFor(c, x))
  <2>1. /\ Given(Ballot(r), x) \in Nat /\ VoteFor(Ballot(r), x) \in Nat
        /\ SumOf(GivenTo(c, x)) \in Nat /\ SumOf(CastFor(c, x)) \in Nat
    BY <1>11, <1>12, CastColumns DEF Given, VoteFor, IsBallot
  <2>2. /\ SumOf(GivenTo(d, x)) = SumOf(GivenTo(c, x)) - Given(Ballot(r), x) + Given(Ballot(r), x)
        /\ SumOf(CastFor(d, x)) = SumOf(CastFor(c, x)) - VoteFor(Ballot(r), x) + VoteFor(Ballot(r), x)
    BY <1>10, <1>13, <1>15 DEF BallotMoves
  <2> QED
    BY <2>1, <2>2
<1>17. \A q \in DOMAIN d : g.voters[q].proxied_vote_weight = SumOf(GivenTo(d, q))
  <2>1. TAKE q \in DOMAIN d
  <2>2. CASE q # a
    <3>1. q \in D \ {a}
      BY <1>10, <2>2
    <3>2. t.voters[q].proxied_vote_weight = SumOf(GivenTo(c, q))
      BY <1>10, <1>11, <3>1 DEF Tallied
    <3> QED
      BY <1>3, <1>16, <3>1, <3>2
  <2>3. CASE q = a /\ a \in D
    <3>1. t.voters[a].proxied_vote_weight = SumOf(GivenTo(c, a))
      BY <1>10, <1>11, <2>3 DEF Tallied
    <3> QED
      BY <1>3, <1>4, <1>16, <2>3, <3>1
  <2>4. CASE q = a /\ a \notin D
    <3>1. \A b \in DOMAIN c : Given(c[b], a) = 0
      <4>1. \A b \in D : c[b].proxy = t.voters[b].proxy /\ c[b].proxy # a
        <5>1. a # 0
          BY ResourcesAssumption
        <5>2. \A b \in D : t.voters[b].proxy # a
          BY <1>2, <2>4, <5>1
        <5>3. \A b \in D : c[b].proxy = t.voters[b].proxy
          BY <1>8 DEF Cast, Ballot
        <5> QED
          BY <5>2, <5>3
      <4> QED
        BY <1>10, <4>1 DEF Given
    <3>2. PICK f : f = GivenTo(c, a)
      OBVIOUS
    <3>3. DOMAIN f = DOMAIN c /\ \A b \in DOMAIN f : f[b] = 0
      BY <3>1, <3>2 DEF GivenTo
    <3>4. SumOf(f) = 0
      <4>1. IsFiniteSet(DOMAIN f)
        BY <1>11, <3>3 DEF IsCast
      <4>2. IsEven(f, 0, DOMAIN f)
        BY <3>3 DEF IsEven
      <4>3. SumOver(f, DOMAIN f) = 0 * Cardinality(DOMAIN f)
        BY <4>1, <4>2, SumConstant
      <4>4. Cardinality(DOMAIN f) \in Nat
        BY <4>1, FS_CardinalityType
      <4> QED
        BY <4>3, <4>4 DEF SumOf
    <3> QED
      BY <1>3, <1>4, <1>16, <2>4, <3>2, <3>4
  <2> QED
    BY <2>2, <2>3, <2>4
<1>18. Tallied(g, d, e)
  BY <1>3, <1>11, <1>14, <1>16, <1>17 DEF Tallied
<1> QED
  BY <1>3, <1>6, <1>7, <1>9, <1>18 DEF AllCounted, Counting

\* A voter whose vote is counted can have it counted anew.
LEMMA RowOpened ==
    ASSUME NEW t, NEW e, AllCounted(t, e), NEW a \in DOMAIN t.voters, NEW r, SameVote(t.voters, a, r),
           NEW g, RowPut(t, g, a, r), NEW D, D = DOMAIN t.voters
    PROVE  Opened(g, D \ {a}, D, a, e) /\ DOMAIN g.voters = D
<1>2. /\ IsTables(t) /\ VoterTable(t.voters) /\ RowsTyped(t.voters)
      /\ \A b \in D : /\ Counted(t.voters[b]) /\ Fresh(t.voters[b])
                      /\ t.voters[b].proxy = 0 \/ t.voters[b].proxy \in D
      /\ Tallied(t, Cast(t.voters, D), e)
  BY DEF AllCounted, Counting
<1>3. /\ IsTables(g) /\ VoterTable(g.voters)
      /\ g.prods = t.prods /\ g.total_producer_vote_weight = t.total_producer_vote_weight
      /\ DOMAIN g.voters = D /\ g.voters[a] = r
      /\ \A b \in D \ {a} : g.voters[b] = t.voters[b]
  BY DEF RowPut
<1>4. /\ VoterTyped(r) /\ Ballot(r) = Ballot(t.voters[a])
      /\ r.proxied_vote_weight = t.voters[a].proxied_vote_weight
  BY DEF SameVote
<1>5. /\ r.proxy = t.voters[a].proxy /\ r.last_stake = t.voters[a].last_stake
      /\ r.last_vote_weight = t.voters[a].last_vote_weight /\ r.producers = t.voters[a].producers
  BY <1>4 DEF Ballot
<1>6. r.proxy # 0 => r.proxy \in D \ {a}
  BY <1>2, <1>5 DEF RowsTyped
<1>7. RowsTyped(g.voters)
  <2>1. ASSUME NEW b \in D
        PROVE  VoterTyped(g.voters[b]) /\ (g.voters[b].proxy # 0 => g.voters[b].proxy \in D \ {b})
    <3>1. CASE b = a
      BY <1>3, <1>4, <1>6, <3>1
    <3>2. CASE b # a
      BY <1>2, <1>3, <3>2 DEF RowsTyped
    <3> QED
      BY <3>1, <3>2
  <2> QED
    BY <1>3, <2>1 DEF RowsTyped
<1>8. PICK k : k = Ballot(r)
  OBVIOUS
<1>9. Ballots(g.voters, D, a, k) = Cast(t.voters, D)
  BY <1>3, <1>4, <1>8 DEF Ballots, Cast
<1>10. PICK c : c = Cast(t.voters, D)
  OBVIOUS
<1>11. \A q \in DOMAIN c : g.voters[q].proxied_vote_weight = t.voters[q].proxied_vote_weight
  <2>1. DOMAIN c = D
    BY <1>10 DEF Cast
  <2> QED
    BY <1>3, <1>4, <2>1
<1>12. Tallied(t, c, e)
  BY <1>2, <1>10
<1>13. Tallied(g, c, e)
  BY <1>3, <1>11, <1>12 DEF Tallied
<1>14. Tallied(g, Ballots(g.voters, D, a, k), e)
  BY <1>9, <1>10, <1>13
<1>15. \A b \in D \ {a} : /\ Counted(g.voters[b]) /\ Fresh(g.voters[b])
                          /\ g.voters[b].proxy = 0 \/ g.voters[b].proxy \in D
  BY <1>2, <1>3
<1>16. Open(g, D \ {a}, D, a, k, e, 0)
  BY <1>3, <1>7, <1>14, <1>15 DEF Open
<1>17. r.last_vote_weight = inverse_vote_weight(r.last_stake, r.producers)
  BY <1>2, <1>5 DEF Counted
<1> QED
  BY <1>3, <1>6, <1>8, <1>16, <1>17 DEF Opened

\* So it does, and all votes are counted.
LEMMA VotedAnew ==
    ASSUME NEW t, NEW e, AllCounted(t, e), NEW a \in DOMAIN t.voters, NEW r, SameVote(t.voters, a, r),
           NEW g, RowPut(t, g, a, r),
           NEW proxy, NEW ps, ps \subseteq Producers, NEW voting \in BOOLEAN,
           NEW h, h = update_votes(g, a, proxy, ps, voting), h.ok
    PROVE  AllCounted(h, e) /\ g.ok
<1>1. PICK D : D = DOMAIN t.voters
  OBVIOUS
<1>2. PICK S : S = D \ {a}
  OBVIOUS
<1>3. Opened(g, S, D, a, e) /\ DOMAIN g.voters = D
  BY <1>1, <1>2, RowOpened
<1>4. proxy \in DOMAIN g.voters => proxy \in D
  BY <1>3
<1>5. HasVoted(g, h, S, D, a, e, proxy, voting)
  BY <1>3, <1>4, update_votesOpen
<1>6. S \cup {a} = D
  BY <1>1, <1>2
<1>7. Counting(h, D, D, e) /\ g.ok /\ DOMAIN h.voters = D
  BY <1>3, <1>5, <1>6 DEF HasVoted
<1> QED
  BY <1>7 DEF AllCounted

\* The row of a new voter says nothing of a vote.
LEMMA NewVoterVote ==
    /\ VoterTyped(NewVoter) /\ Ballot(NewVoter) = NoBallot /\ NewVoter.proxied_vote_weight = 0
    /\ NewVoter.proxy = 0 /\ NewVoter.producers = {} /\ Counted(NewVoter) /\ Fresh(NewVoter)
<1>1. PICK v : v = NewVoter
  OBVIOUS
<1>2. /\ v.proxy = 0 /\ v.producers = {} /\ v.staked = 0 /\ v.last_stake = 0 /\ v.last_vote_weight = 0
      /\ v.proxied_vote_weight = 0 /\ v.is_proxy = FALSE
  BY <1>1 DEF NewVoter
<1>3. {} \subseteq Producers /\ Cardinality({}) = 0 /\ Cardinality({}) <= MAX_VOTE_PRODUCERS
  BY FS_EmptySet, VotingAssumption
<1>4. inverse_vote_weight(0, {}) = 0
  BY <1>3, WeightsOf
<1>5. Ballot(v) = NoBallot
  BY <1>2 DEF Ballot, NoBallot
<1>6. VoterTyped(v)
  <2>1. v.is_proxy \in BOOLEAN
    BY <1>2, Zenon
  <2>2. v.producers \subseteq Producers /\ Cardinality(v.producers) <= MAX_VOTE_PRODUCERS
    BY <1>2, <1>3
  <2>3. v.staked \in Nat /\ v.last_stake \in Nat /\ v.last_vote_weight \in Nat /\ v.proxied_vote_weight \in Nat
    BY <1>2
  <2> QED
    BY <1>2, <2>1, <2>2, <2>3 DEF VoterTyped
<1>7. Counted(v) /\ Fresh(v)
  BY <1>2, <1>4 DEF Counted, Fresh
<1> QED
  BY <1>1, <1>2, <1>5, <1>6, <1>7

\* A row that votes for nobody is counted, whatever else it says.
LEMMA NoVoteCounted ==
    ASSUME NEW r, VoterTyped(r), r.last_vote_weight = inverse_vote_weight(r.last_stake, r.producers),
           r.proxy = 0, r.producers = {}
    PROVE  Counted(r) /\ Fresh(r)
<1>1. \A n \in Nat : inverse_vote_weight(n, {}) = 0
  <2>1. {} \subseteq Producers /\ Cardinality({}) <= MAX_VOTE_PRODUCERS
    BY DEF VoterTyped
  <2> QED
    BY <2>1, WeightsOf
<1>2. weight_of[Cardinality({})] = 0
  BY FS_EmptySet, VotingAssumption
<1>3. TotalStaked(r) \in Nat /\ r.last_stake \in Nat
  BY DEF VoterTyped, TotalStaked
<1>4. Counted(r)
  BY <1>2 DEF Counted
<1>5. Fresh(r)
  BY <1>1, <1>3 DEF Fresh
<1> QED
  BY <1>4, <1>5

\* A stake changes, and with it what the voter votes with.
LEMMA update_voting_powerCounted ==
    ASSUME NEW t, NEW e, AllCounted(t, e), NEW a \in Users, NEW delta \in Int,
           NEW h, h = update_voting_power(t, a, delta), h.ok
    PROVE  AllCounted(h, e)
<1>1. PICK row : row = IF a \in DOMAIN t.voters THEN t.voters[a] ELSE NewVoter
  OBVIOUS
<1>2. PICK r : r = [row EXCEPT !.staked = @ + delta]
  OBVIOUS
<1>3. PICK w : w = Put(t.voters, a, r)
  OBVIOUS
<1>4. PICK j : j = [t EXCEPT !.voters = w]
  OBVIOUS
<1> DEFINE p == r.staked >= 0
<1>5. p \in BOOLEAN
  OBVIOUS
<1>6. PICK k : k = Check(j, p)
  OBVIOUS
<1>7. h = IF row.producers # {} \/ row.proxy # 0 THEN update_votes(k, a, row.proxy, row.producers, FALSE) ELSE k
  <2> DEFINE put == Check([t EXCEPT !.voters = Put(t.voters, a, r)], r.staked >= 0)
  <2>1. h = IF row.producers # {} \/ row.proxy # 0
            THEN update_votes(put, a, row.proxy, row.producers, FALSE) ELSE put
    BY <1>1, <1>2 DEF update_voting_power
  <2>2. put = k
    BY <1>3, <1>4, <1>6
  <2> HIDE DEF put, p
  <2> QED
    BY <2>1, <2>2
<1>8. /\ IsTables(t) /\ VoterTable(t.voters) /\ RowsTyped(t.voters)
      /\ \A b \in DOMAIN t.voters : Counted(t.voters[b]) /\ Fresh(t.voters[b])
  BY DEF AllCounted, Counting
<1>9. IsVoter(row) /\ VoterTyped(row) /\ Counted(row)
  BY <1>1, <1>8, NewVoterRow, NewVoterVote DEF VoterTable, RowsTyped
<1>10. /\ IsVoter(r) /\ r.staked = row.staked + delta
       /\ r.proxy = row.proxy /\ r.producers = row.producers /\ r.last_stake = row.last_stake
       /\ r.last_vote_weight = row.last_vote_weight /\ r.is_proxy = row.is_proxy
       /\ r.proxied_vote_weight = row.proxied_vote_weight
  BY <1>2, <1>9 DEF IsVoter, VoterFields
<1>11. /\ Frame(t, j, {"voters"}) /\ j.ok = t.ok /\ VoterTable(j.voters)
       /\ DOMAIN j.voters = DOMAIN t.voters \cup {a} /\ j.voters[a] = r
       /\ \A b \in DOMAIN t.voters \ {a} : j.voters[b] = t.voters[b]
  <2>1. IsVoter(r)
    BY <1>10
  <2> QED
    BY <1>3, <1>4, <1>8, <2>1, VoterPut
<1>12. k.ok
  <2>1. CASE row.producers # {} \/ row.proxy # 0
    <3>1. IsTables(j)
      BY <1>11 DEF Frame
    <3>2. Polling(j, k)
      <4> HIDE DEF p
      <4> QED
        BY <1>5, <1>6, <1>11, <3>1, PollingCheck
    <3>3. Polling(k, h)
      BY <1>7, <2>1, <3>2, PollingTables, update_votesPolling
    <3> QED
      BY <3>3 DEF Polling, Frame
  <2>2. CASE ~(row.producers # {} \/ row.proxy # 0)
    BY <1>7, <2>2
  <2> QED
    BY <2>1, <2>2
<1>13. p /\ k = j
  <2> HIDE DEF p
  <2> QED
    BY <1>5, <1>6, <1>11, <1>12, CheckPassed
<1>14. VoterTyped(r)
  <2>1. r.staked \in Nat
    BY <1>9, <1>10, <1>13 DEF VoterTyped
  <2> QED
    BY <1>9, <1>10, <2>1 DEF VoterTyped
<1>15. SameVote(t.voters, a, r)
  <2>1. Ballot(r) = Ballot(row) /\ r.proxied_vote_weight = row.proxied_vote_weight
    BY <1>10 DEF Ballot
  <2> QED
    BY <1>1, <1>14, <2>1, NewVoterVote DEF SameVote
<1>16. RowPut(t, k, a, r)
  <2>1. IsTables(j) /\ j.prods = t.prods /\ j.total_producer_vote_weight = t.total_producer_vote_weight
    BY <1>11 DEF Frame, TableFields
  <2> QED
    BY <1>11, <1>13, <2>1 DEF RowPut
<1>17. CASE row.producers # {} \/ row.proxy # 0
  <2>1. a \in DOMAIN t.voters
    BY <1>1, <1>17, NewVoterVote
  <2>2. h = update_votes(k, a, row.proxy, row.producers, FALSE)
    BY <1>7, <1>17
  <2>3. row.producers \subseteq Producers
    BY <1>9 DEF VoterTyped
  <2>4. PICK q : q = row.proxy
    OBVIOUS
  <2>5. PICK ps : ps = row.producers
    OBVIOUS
  <2> QED
    BY <1>15, <1>16, <2>1, <2>2, <2>3, <2>4, <2>5, VotedAnew
<1>18. CASE ~(row.producers # {} \/ row.proxy # 0)
  <2>1. h = k
    BY <1>7, <1>18
  <2>2. r.last_vote_weight = inverse_vote_weight(r.last_stake, r.producers)
    BY <1>9, <1>10 DEF Counted
  <2>3. r.proxy = 0 /\ r.producers = {}
    BY <1>10, <1>18
  <2>4. Counted(r) /\ Fresh(r)
    BY <1>14, <2>2, <2>3, NoVoteCounted
  <2> QED
    BY <1>15, <1>16, <2>1, <2>4, RowPutCounted
<1> QED
  BY <1>17, <1>18

\* A proxy resigns: the stake of others no longer counts for it.
LEMMA regproxyCounted ==
    ASSUME NEW t, NEW e, AllCounted(t, e), NEW a \in Users, NEW isproxy \in BOOLEAN,
           NEW h, h = regproxy(t, a, isproxy), h.ok
    PROVE  AllCounted(h, e)
<1>1. /\ IsTables(t) /\ VoterTable(t.voters) /\ RowsTyped(t.voters)
      /\ \A b \in DOMAIN t.voters : Counted(t.voters[b]) /\ Fresh(t.voters[b])
  BY DEF AllCounted, Counting
<1>2. CASE a \notin DOMAIN t.voters
  <2>1. PICK w : w = Put(t.voters, a, NewVoter)
    OBVIOUS
  <2>2. PICK j : j = [t EXCEPT !.voters = w]
    OBVIOUS
  <2>3. h = Check(j, ~isproxy)
    <3>1. h = Check([t EXCEPT !.voters = Put(t.voters, a, NewVoter)], ~isproxy)
      BY <1>2 DEF regproxy
    <3>2. [t EXCEPT !.voters = Put(t.voters, a, NewVoter)] = j
      BY <2>1, <2>2
    <3> QED
      BY <3>1, <3>2
  <2>4. /\ Frame(t, j, {"voters"}) /\ VoterTable(j.voters)
        /\ DOMAIN j.voters = DOMAIN t.voters \cup {a} /\ j.voters[a] = NewVoter
        /\ \A b \in DOMAIN t.voters \ {a} : j.voters[b] = t.voters[b]
    BY <1>1, <2>1, <2>2, NewVoterRow, VoterPut
  <2>5. h = j
    <3>1. (~isproxy) \in BOOLEAN
      OBVIOUS
    <3> QED
      BY <2>3, <2>4, <3>1, CheckPassed
  <2>6. RowPut(t, j, a, NewVoter)
    <3>1. IsTables(j) /\ j.prods = t.prods /\ j.total_producer_vote_weight = t.total_producer_vote_weight
      BY <2>4 DEF Frame, TableFields
    <3> QED
      BY <2>4, <3>1 DEF RowPut
  <2>7. SameVote(t.voters, a, NewVoter)
    BY <1>2, NewVoterVote DEF SameVote
  <2>8. PICK r : r = NewVoter
    OBVIOUS
  <2>9. Counted(r) /\ Fresh(r)
    BY <2>8, NewVoterVote
  <2> QED
    BY <2>5, <2>6, <2>7, <2>8, <2>9, RowPutCounted
<1>3. CASE a \in DOMAIN t.voters
  <2>1. PICK v : v = t.voters[a]
    OBVIOUS
  <2> DEFINE b == ~isproxy /\ v.is_proxy
  <2>2. PICK j : j = [t EXCEPT !.voters[a]["is_proxy"] = isproxy]
    OBVIOUS
  <2>3. PICK k : k = update_votes(j, a, v.proxy, v.producers, TRUE)
    OBVIOUS
  <2>4. h = Check(k, b)
    <3> DEFINE own == t.voters[a]
    <3>1. PICK i : i = [t EXCEPT !.voters[a].is_proxy = isproxy]
      OBVIOUS
    <3>2. h = Check(update_votes(i, a, own.proxy, own.producers, TRUE), ~isproxy /\ own.is_proxy)
      BY <1>3, <3>1 DEF regproxy
    <3>3. i = j
      BY <2>2, <3>1
    <3> QED
      BY <2>1, <2>3, <3>2, <3>3
  <2>5. b \in BOOLEAN
    OBVIOUS
  <2> HIDE DEF b
  <2>6. PICK r : r = [v EXCEPT !["is_proxy"] = isproxy]
    OBVIOUS
  <2>7. "is_proxy" \in VoterFields \ {"staked", "managed"}
    BY DEF VoterFields
  <2>8. OneRow(t, j, a, r)
    BY <1>1, <1>3, <2>1, <2>2, <2>6, <2>7, FieldWritten
  <2>9. Polling(j, k)
    <3>1. IsTables(j) /\ VoterTable(j.voters)
      BY <2>8 DEF OneRow, Frame
    <3> QED
      BY <2>3, <3>1, update_votesPolling
  <2>10. b /\ k.ok /\ h = k
    BY <2>4, <2>5, <2>9, CheckPassed DEF Polling
  <2>11. ~isproxy /\ v.is_proxy
    BY <2>10 DEF b
  <2>12. IsVoter(v) /\ VoterTyped(v)
    BY <1>1, <1>3, <2>1 DEF VoterTable, RowsTyped
  <2>13. /\ r.staked = v.staked /\ r.is_proxy = isproxy
         /\ r.proxy = v.proxy /\ r.producers = v.producers /\ r.last_stake = v.last_stake
         /\ r.last_vote_weight = v.last_vote_weight
         /\ r.proxied_vote_weight = v.proxied_vote_weight
    BY <2>6, <2>12 DEF IsVoter, VoterFields
  <2>14. VoterTyped(r)
    BY <2>11, <2>12, <2>13 DEF VoterTyped
  <2>15. SameVote(t.voters, a, r)
    BY <1>3, <2>1, <2>13, <2>14 DEF SameVote, Ballot
  <2>16. RowPut(t, j, a, r)
    <3>1. IsTables(j) /\ j.prods = t.prods /\ j.total_producer_vote_weight = t.total_producer_vote_weight
      BY <2>8 DEF OneRow, Frame, TableFields
    <3> QED
      BY <1>3, <2>8, <3>1 DEF RowPut, OneRow
  <2>17. PICK q : q = v.proxy
    OBVIOUS
  <2>18. PICK ps : ps = v.producers
    OBVIOUS
  <2>19. ps \subseteq Producers
    BY <2>12, <2>18 DEF VoterTyped
  <2>20. PICK voting \in BOOLEAN : voting = TRUE
    OBVIOUS
  <2>21. k = update_votes(j, a, q, ps, voting)
    BY <2>3, <2>17, <2>18, <2>20
  <2>22. AllCounted(k, e)
    BY <1>3, <2>10, <2>15, <2>16, <2>19, <2>21, VotedAnew
  <2> QED
    BY <2>10, <2>22
<1> QED
  BY <1>2, <1>3

\* A voter casts a vote.
LEMMA VoteCast ==
    ASSUME NEW t, NEW e, AllCounted(t, e), NEW a \in DOMAIN t.voters,
           NEW proxy, NEW ps, ps \subseteq Producers, NEW voting \in BOOLEAN,
           NEW h, h = update_votes(t, a, proxy, ps, voting), h.ok
    PROVE  AllCounted(h, e)
<1>1. /\ IsTables(t) /\ VoterTable(t.voters) /\ RowsTyped(t.voters)
  BY DEF AllCounted, Counting
<1>2. PICK r : r = t.voters[a]
  OBVIOUS
<1>3. SameVote(t.voters, a, r)
  BY <1>1, <1>2 DEF SameVote, RowsTyped
<1>4. RowPut(t, t, a, r)
  BY <1>1, <1>2 DEF RowPut
<1> QED
  BY <1>3, <1>4, VotedAnew

-----------------------------------------------------------------------------
(* The recount                                                             *)

\* A voter that nobody has given anything joins those whose votes are counted.
LEMMA TalliedMore ==
    ASSUME NEW t, NEW D, NEW e, Tallied(t, Cast(t.voters, D), e), D \subseteq DOMAIN t.voters,
           NEW a, a \notin D, NEW h, NEW r, OneRow(t, h, a, r),
           Blank(r), r.proxied_vote_weight = 0,
           \A b \in D : Given(Ballot(t.voters[b]), a) = 0
    PROVE  Tallied(h, Cast(h.voters, D \cup {a}), e)
<1>1. /\ h.prods = t.prods /\ h.total_producer_vote_weight = t.total_producer_vote_weight
      /\ h.voters[a] = r /\ \A b \in D : h.voters[b] = t.voters[b]
  BY DEF OneRow, Frame, TableFields
<1>2. PICK c : c = Cast(t.voters, D)
  OBVIOUS
<1>3. PICK d : d = Cast(h.voters, D \cup {a})
  OBVIOUS
<1>4. PICK k : k = Ballot(r)
  OBVIOUS
<1>5. /\ DOMAIN c = D /\ DOMAIN d = D \cup {a} /\ d[a] = k /\ BallotOf(c, a) = NoBallot
      /\ \A b \in D : d[b] = c[b] /\ c[b] = Ballot(t.voters[b])
  BY <1>1, <1>2, <1>3, <1>4 DEF Cast, BallotOf
<1>6. k.stake = 0 /\ k.weight = 0 /\ IsBallot(k)
  BY <1>4 DEF Blank, Ballot, IsBallot
<1>7. \A x : Given(k, x) = 0 /\ VoteFor(k, x) = 0
  BY <1>6 DEF Given, VoteFor
<1>8. Tallied(t, c, e) /\ IsCast(c)
  BY <1>2 DEF Tallied
<1>9. BallotMoves(c, d, a)
  <2>1. DOMAIN d = DOMAIN c \cup {a} /\ IsBallot(d[a]) /\ \A b \in DOMAIN c \ {a} : d[b] = c[b]
    BY <1>5, <1>6
  <2> QED
    BY <1>8, <2>1, BallotMoved
<1>10. IsCast(d)
  BY <1>9 DEF BallotMoves
<1>11. ASSUME NEW x PROVE SumOf(GivenTo(d, x)) = SumOf(GivenTo(c, x)) /\ SumOf(CastFor(d, x)) = SumOf(CastFor(c, x))
  <2>1. SumOf(GivenTo(c, x)) \in Nat /\ SumOf(CastFor(c, x)) \in Nat
    BY <1>8, CastColumns
  <2>2. SumOf(GivenTo(d, x)) = SumOf(GivenTo(c, x)) - 0 + 0 /\ SumOf(CastFor(d, x)) = SumOf(CastFor(c, x)) - 0 + 0
    BY <1>5, <1>7, <1>9, NoBallotGives DEF BallotMoves
  <2> QED
    BY <2>1, <2>2
<1>12. SumOf(GivenTo(c, a)) = 0
  <2>1. PICK f : f = GivenTo(c, a)
    OBVIOUS
  <2>2. DOMAIN f = DOMAIN c /\ \A b \in DOMAIN f : f[b] = 0
    BY <1>5, <2>1 DEF GivenTo
  <2>3. IsFiniteSet(DOMAIN f)
    BY <1>8, <2>2 DEF IsCast
  <2>4. IsEven(f, 0, DOMAIN f)
    BY <2>2 DEF IsEven
  <2>5. SumOver(f, DOMAIN f) = 0 * Cardinality(DOMAIN f)
    BY <2>3, <2>4, SumConstant
  <2>6. Cardinality(DOMAIN f) \in Nat
    BY <2>3, FS_CardinalityType
  <2> QED
    BY <2>1, <2>5, <2>6 DEF SumOf
<1>13. \A q \in DOMAIN d : h.voters[q].proxied_vote_weight = SumOf(GivenTo(d, q))
  <2>1. TAKE q \in DOMAIN d
  <2>2. CASE q = a
    BY <1>1, <1>11, <1>12, <2>2
  <2>3. CASE q # a
    <3>1. q \in DOMAIN c /\ q \in D
      BY <1>5, <2>3
    <3>2. t.voters[q].proxied_vote_weight = SumOf(GivenTo(c, q))
      BY <1>8, <3>1 DEF Tallied
    <3> QED
      BY <1>1, <1>11, <3>1, <3>2
  <2> QED
    BY <2>2, <2>3
<1>14. Tallied(h, d, e)
  BY <1>1, <1>8, <1>10, <1>11, <1>13 DEF Tallied
<1> QED
  BY <1>3, <1>14

\* The row of a voter whose weights are forgotten.
Unweighted(v) ==
    [[[v EXCEPT !["last_vote_weight"] = 0] EXCEPT !["last_stake"] = 0] EXCEPT !["proxied_vote_weight"] = 0]

\* They are forgotten in its row alone.
LEMMA ForgottenRow ==
    ASSUME NEW t, IsTables(t), VoterTable(t.voters), NEW a \in DOMAIN t.voters,
           NEW h, h = Forgotten(t, a)
    PROVE  OneRow(t, h, a, Unweighted(t.voters[a]))
<1> DEFINE g == [t EXCEPT !.voters[a]["last_vote_weight"] = 0]
           i == [g EXCEPT !.voters[a]["last_stake"] = 0]
           j == [i EXCEPT !.voters[a]["proxied_vote_weight"] = 0]
<1>1. h = j
  BY DEF Forgotten
<1>2. {"last_vote_weight", "last_stake", "proxied_vote_weight"} \subseteq VoterFields \ {"staked", "managed"}
  BY DEF VoterFields
<1>3. PICK r1 : r1 = [t.voters[a] EXCEPT !["last_vote_weight"] = 0]
  OBVIOUS
<1>4. OneRow(t, g, a, r1)
  BY <1>2, <1>3, FieldWritten
<1> HIDE DEF g
<1>5. IsTables(g) /\ VoterTable(g.voters) /\ a \in DOMAIN g.voters /\ g.voters[a] = r1
  BY <1>4 DEF OneRow, Frame
<1>6. PICK r2 : r2 = [r1 EXCEPT !["last_stake"] = 0]
  OBVIOUS
<1>7. OneRow(g, i, a, r2)
  BY <1>2, <1>5, <1>6, FieldWritten
<1> HIDE DEF i
<1>8. IsTables(i) /\ VoterTable(i.voters) /\ a \in DOMAIN i.voters /\ i.voters[a] = r2
  BY <1>5, <1>7 DEF OneRow, Frame
<1>9. PICK r3 : r3 = [r2 EXCEPT !["proxied_vote_weight"] = 0]
  OBVIOUS
<1>10. OneRow(i, j, a, r3)
  BY <1>2, <1>8, <1>9, FieldWritten
<1> HIDE DEF j
<1>11. OneRow(t, i, a, r2)
  BY <1>4, <1>7, RowsWritten
<1>12. OneRow(t, j, a, r3)
  BY <1>10, <1>11, RowsWritten
<1>13. r3 = Unweighted(t.voters[a])
  BY <1>3, <1>6, <1>9 DEF Unweighted
<1> QED
  BY <1>1, <1>12, <1>13

\* And then its votes count as those of one who has yet to vote.
LEMMA ForgottenCounting ==
    ASSUME NEW t, NEW S, NEW D, NEW e, Counting(t, S, D, e), NEW a \in DOMAIN t.voters \ D,
           NEW h, h = Forgotten(t, a)
    PROVE  /\ Counting(h, S, D \cup {a}, e) /\ h.ok = t.ok /\ DOMAIN h.voters = DOMAIN t.voters
           /\ \A b \in DOMAIN t.voters : /\ h.voters[b].is_proxy = t.voters[b].is_proxy
                                         /\ h.voters[b].proxy = t.voters[b].proxy
<1>1. /\ IsTables(t) /\ VoterTable(t.voters) /\ RowsTyped(t.voters)
      /\ S \subseteq D /\ D \subseteq DOMAIN t.voters
      /\ \A b \in S : /\ Counted(t.voters[b]) /\ Fresh(t.voters[b])
                      /\ t.voters[b].proxy = 0 \/ t.voters[b].proxy \in D
      /\ \A b \in D \ S : Blank(t.voters[b])
      /\ Tallied(t, Cast(t.voters, D), e)
  BY DEF Counting
<1>2. PICK v : v = t.voters[a]
  OBVIOUS
<1>3. IsVoter(v) /\ VoterTyped(v)
  BY <1>1, <1>2 DEF VoterTable, RowsTyped
<1>4. PICK r : r = Unweighted(v)
  OBVIOUS
<1>5. /\ r.proxied_vote_weight = 0 /\ r.last_stake = 0 /\ r.last_vote_weight = 0
      /\ r.proxy = v.proxy /\ r.producers = v.producers /\ r.is_proxy = v.is_proxy /\ r.staked = v.staked
  BY <1>3, <1>4 DEF Unweighted, IsVoter, VoterFields
<1>6. Blank(r) /\ VoterTyped(r)
  BY <1>3, <1>5 DEF Blank, VoterTyped
<1>7. OneRow(t, h, a, r)
  BY <1>1, <1>2, <1>4, ForgottenRow
<1>8. /\ IsTables(h) /\ h.ok = t.ok /\ VoterTable(h.voters) /\ DOMAIN h.voters = DOMAIN t.voters
      /\ h.voters[a] = r /\ \A b \in DOMAIN t.voters \ {a} : h.voters[b] = t.voters[b]
  BY <1>7 DEF OneRow, Frame
<1>9. \A b \in D : Given(Ballot(t.voters[b]), a) = 0
  <2>1. TAKE b \in D
  <2>2. a # 0 /\ a \notin D
    BY <1>1, ResourcesAssumption DEF VoterTable
  <2>3. Ballot(t.voters[b]).proxy = t.voters[b].proxy /\ Ballot(t.voters[b]).stake = t.voters[b].last_stake
    BY DEF Ballot
  <2>4. CASE b \in S
    <3>1. t.voters[b].proxy # a
      BY <1>1, <2>2, <2>4
    <3> QED
      BY <2>3, <3>1 DEF Given
  <2>5. CASE b \notin S
    <3>1. t.voters[b].last_stake = 0
      BY <1>1, <2>5 DEF Blank
    <3> QED
      BY <2>3, <3>1 DEF Given
  <2> QED
    BY <2>4, <2>5
<1>10. Tallied(h, Cast(h.voters, D \cup {a}), e)
  BY <1>1, <1>5, <1>6, <1>7, <1>9, TalliedMore
<1>11. RowsTyped(h.voters)
  BY <1>1, <1>2, <1>5, <1>6, <1>8 DEF RowsTyped
<1>12. \A b \in S : /\ Counted(h.voters[b]) /\ Fresh(h.voters[b])
                    /\ h.voters[b].proxy = 0 \/ h.voters[b].proxy \in D \cup {a}
  <2>1. \A b \in S : b \in DOMAIN t.voters \ {a}
    BY <1>1
  <2> QED
    BY <1>1, <1>8, <2>1
<1>13. \A b \in (D \cup {a}) \ S : Blank(h.voters[b])
  <2>1. TAKE b \in (D \cup {a}) \ S
  <2>2. CASE b = a
    BY <1>6, <1>8, <2>2
  <2>3. CASE b # a
    BY <1>1, <1>8, <2>3
  <2> QED
    BY <2>2, <2>3
<1>14. Counting(h, S, D \cup {a}, e)
  BY <1>1, <1>8, <1>10, <1>11, <1>12, <1>13 DEF Counting
<1>15. \A b \in DOMAIN t.voters : /\ h.voters[b].is_proxy = t.voters[b].is_proxy
                                  /\ h.voters[b].proxy = t.voters[b].proxy
  BY <1>2, <1>5, <1>8
<1> QED
  BY <1>8, <1>14, <1>15

\* In a recount those who have had their turn have voted, and who is counted
\* but has yet to have it is the proxy of one who has.
Recounting(t, done, left) ==
    /\ left \subseteq DOMAIN t.voters
    /\ Counting(t, DOMAIN t.voters \ left, done, 0)
    /\ \A b \in done \cap left : t.voters[b].is_proxy

\* A turn is that of a voter in left.
LEMMA RecastOne ==
    ASSUME NEW s, s.left # {}, s.left \subseteq Users
    PROVE  \E a \in s.left : RecastNext(s) = Recast(s, a)
<1>1. s.left \subseteq Nat
  BY ResourcesAssumption
<1>2. PICK x \in s.left : \A b \in s.left : x <= b
  BY <1>1, LeastNumber
<1>3. PICK a : a = CHOOSE y \in s.left : \A b \in s.left : y <= b
  OBVIOUS
<1>4. a \in s.left
  BY <1>2, <1>3
<1>5. RecastNext(s) = Recast(s, a)
  BY <1>3 DEF RecastNext
<1> QED
  BY <1>4, <1>5

\* A voter that has yet to be counted is opened for its turn.
LEMMA TurnOpened ==
    ASSUME NEW t, NEW S, NEW D, Counting(t, S, D, 0), NEW a \in D \ S
    PROVE  Opened(t, S, D, a, 0)
<1>1. /\ IsTables(t) /\ VoterTable(t.voters) /\ RowsTyped(t.voters)
      /\ S \subseteq D /\ D \subseteq DOMAIN t.voters
      /\ \A b \in S : /\ Counted(t.voters[b]) /\ Fresh(t.voters[b])
                      /\ t.voters[b].proxy = 0 \/ t.voters[b].proxy \in D
      /\ \A b \in D \ S : Blank(t.voters[b])
      /\ Tallied(t, Cast(t.voters, D), 0)
  BY DEF Counting
<1>2. PICK k : k = Ballot(t.voters[a])
  OBVIOUS
<1>3. Ballots(t.voters, D, a, k) = Cast(t.voters, D)
  BY <1>2 DEF Ballots, Cast
<1>4. Tallied(t, Ballots(t.voters, D, a, k), 0)
  BY <1>1, <1>3
<1>5. Open(t, S, D, a, k, 0, 0)
  BY <1>1, <1>4 DEF Open
<1>6. t.voters[a].last_stake = 0 /\ t.voters[a].last_vote_weight = 0
  BY <1>1 DEF Blank
<1>7. inverse_vote_weight(0, t.voters[a].producers) = 0
  <2>1. /\ t.voters[a].producers \subseteq Producers
        /\ Cardinality(t.voters[a].producers) <= MAX_VOTE_PRODUCERS
    BY <1>1 DEF RowsTyped, VoterTyped
  <2> QED
    BY <2>1, WeightsOf
<1> QED
  BY <1>2, <1>5, <1>6, <1>7 DEF Opened

\* The turn of a voter: the weights of its proxy and its own are forgotten if
\* that has not been done before, and it votes as it did.
LEMMA RecastTurn ==
    ASSUME NEW s, s = [t |-> s.t, done |-> s.done, left |-> s.left],
           IsTables(s.t), VoterTable(s.t.voters), s.left # {}, s.left \subseteq Users,
           NEW r, r = RecastNext(s)
    PROVE  \E a \in s.left : /\ r.left = s.left \ {a}
                             /\ r.t.ok /\ Recounting(s.t, s.done, s.left) => Recounting(r.t, r.done, r.left)
<1>1. PICK a \in s.left : r = Recast(s, a)
  BY RecastOne
<1> DEFINE proxy == s.t.voters[a].proxy
           b == proxy # 0 /\ proxy \notin s.done
           f == IF b THEN Forgotten(s.t, proxy) ELSE s.t
           fdone == IF b THEN s.done \cup {proxy} ELSE s.done
<1>2. PICK first : first = [t |-> f, done |-> fdone, left |-> s.left]
  OBVIOUS
<1> DEFINE c == ~s.t.voters[a].is_proxy \/ a \notin first.done
           o == IF c THEN Forgotten(f, a) ELSE f
           odone == IF c THEN fdone \cup {a} ELSE fdone
<1>3. PICK own : own = [t |-> o, done |-> odone, left |-> s.left]
  OBVIOUS
<1>4. r = [t |-> update_votes(o, a, proxy, o.voters[a].producers, TRUE),
           done |-> odone, left |-> s.left \ {a}]
  <2>1. first = IF b THEN [s EXCEPT !.t = Forgotten(@, proxy), !.done = @ \cup {proxy}] ELSE s
    BY <1>2
  <2>2. own = IF c THEN [first EXCEPT !.t = Forgotten(@, a), !.done = @ \cup {a}] ELSE first
    BY <1>2, <1>3
  <2> HIDE DEF b, c, f, fdone, o, odone
  <2>3. Recast(s, a) = [own EXCEPT !.t = update_votes(@, a, proxy, own.t.voters[a].producers, TRUE),
                                   !.left = @ \ {a}]
    BY <2>1, <2>2 DEF Recast, b, c
  <2> QED
    BY <1>1, <1>3, <2>3
<1>5. fdone = first.done
  BY <1>2
<1>6. PICK q : q = proxy
  OBVIOUS
<1>7. PICK g : g = f
  OBVIOUS
<1>8. PICK E : E = fdone
  OBVIOUS
<1>9. PICK h : h = o
  OBVIOUS
<1>10. PICK D : D = odone
  OBVIOUS
<1>11. /\ q # 0 /\ q \notin s.done => g = Forgotten(s.t, q) /\ E = s.done \cup {q}
       /\ ~(q # 0 /\ q \notin s.done) => g = s.t /\ E = s.done
  BY <1>6, <1>7, <1>8
<1>12. /\ ~s.t.voters[a].is_proxy \/ a \notin E => h = Forgotten(g, a) /\ D = E \cup {a}
       /\ ~(~s.t.voters[a].is_proxy \/ a \notin E) => h = g /\ D = E
  <2> HIDE DEF f, fdone
  <2> QED
    BY <1>5, <1>7, <1>8, <1>9, <1>10
<1>13. /\ r.t = update_votes(h, a, q, h.voters[a].producers, TRUE)
       /\ r.done = D /\ r.left = s.left \ {a}
  <2> HIDE DEF b, c, f, fdone, o, odone
  <2> QED
    BY <1>4, <1>6, <1>9, <1>10
<1> HIDE DEF proxy, b, f, fdone, c, o, odone
<1>14. q = s.t.voters[a].proxy
  BY <1>6 DEF proxy
<1>15. ASSUME r.t.ok, Recounting(s.t, s.done, s.left)
       PROVE  Recounting(r.t, r.done, r.left)
  <2>1. PICK t : t = s.t
    OBVIOUS
  <2>2. PICK U : U = DOMAIN t.voters
    OBVIOUS
  <2>3. PICK S : S = U \ s.left
    OBVIOUS
  <2>4. /\ s.left \subseteq U /\ Counting(t, S, s.done, 0)
        /\ \A x \in s.done \cap s.left : t.voters[x].is_proxy
    BY <1>15, <2>1, <2>2, <2>3 DEF Recounting
  <2>5. RowsTyped(t.voters) /\ S \subseteq s.done /\ s.done \subseteq U /\ \A x \in U : x # 0
    BY <2>2, <2>4, ResourcesAssumption DEF Counting, VoterTable
  <2>6. q # 0 => q \in U \ {a}
    BY <1>14, <2>1, <2>2, <2>4, <2>5 DEF RowsTyped
  <2>7. /\ Counting(g, S, E, 0) /\ DOMAIN g.voters = U
        /\ \A x \in U : g.voters[x].is_proxy = t.voters[x].is_proxy /\ g.voters[x].proxy = t.voters[x].proxy
        /\ q # 0 => q \in E
        /\ E = IF q # 0 THEN s.done \cup {q} ELSE s.done
    <3>1. CASE q # 0 /\ q \notin s.done
      <4>1. g = Forgotten(t, q) /\ E = s.done \cup {q} /\ q \in DOMAIN t.voters \ s.done
        BY <1>11, <2>1, <2>2, <2>6, <3>1
      <4>2. /\ Counting(g, S, s.done \cup {q}, 0) /\ DOMAIN g.voters = DOMAIN t.voters
            /\ \A x \in DOMAIN t.voters : /\ g.voters[x].is_proxy = t.voters[x].is_proxy
                                          /\ g.voters[x].proxy = t.voters[x].proxy
        BY <2>4, <4>1, ForgottenCounting
      <4> QED
        BY <2>2, <3>1, <4>1, <4>2
    <3>2. CASE ~(q # 0 /\ q \notin s.done)
      <4>1. g = t /\ E = s.done
        BY <1>11, <2>1, <3>2
      <4>2. E = IF q # 0 THEN s.done \cup {q} ELSE s.done
        BY <3>2, <4>1
      <4> QED
        BY <2>2, <2>4, <3>2, <4>1, <4>2
    <3> QED
      BY <3>1, <3>2
  <2>8. a \in U /\ a \notin S
    BY <2>3, <2>4
  <2>9. /\ Counting(h, S, D, 0) /\ DOMAIN h.voters = U /\ D = E \cup {a}
        /\ \A x \in U : h.voters[x].is_proxy = t.voters[x].is_proxy /\ h.voters[x].proxy = t.voters[x].proxy
    <3>1. CASE a \notin E
      <4>1. h = Forgotten(g, a) /\ D = E \cup {a} /\ a \in DOMAIN g.voters \ E
        BY <1>12, <2>7, <2>8, <3>1
      <4>2. /\ Counting(h, S, E \cup {a}, 0) /\ DOMAIN h.voters = DOMAIN g.voters
            /\ \A x \in DOMAIN g.voters : /\ h.voters[x].is_proxy = g.voters[x].is_proxy
                                          /\ h.voters[x].proxy = g.voters[x].proxy
        <5>1. Counting(g, S, E, 0) /\ a \in DOMAIN g.voters \ E /\ h = Forgotten(g, a)
          BY <2>7, <4>1
        <5> QED
          BY <5>1, ForgottenCounting
      <4> QED
        BY <2>7, <4>1, <4>2
    <3>2. CASE a \in E
      <4>1. a \in s.done
        BY <2>6, <2>7, <3>2
      <4>2. s.t.voters[a].is_proxy
        BY <2>1, <2>4, <4>1
      <4>3. h = g /\ D = E
        BY <1>12, <3>2, <4>2
      <4> QED
        BY <2>7, <3>2, <4>3
    <3> QED
      BY <3>1, <3>2
  <2>10. Opened(h, S, D, a, 0)
    BY <2>8, <2>9, TurnOpened
  <2>11. PICK ps : ps = h.voters[a].producers
    OBVIOUS
  <2>12. ps \subseteq Producers
    BY <2>8, <2>9, <2>11 DEF Counting, RowsTyped, VoterTyped
  <2>13. q \in DOMAIN h.voters => q \in D
    BY <2>5, <2>7, <2>9
  <2>14. PICK voting \in BOOLEAN : voting = TRUE
    OBVIOUS
  <2>15. PICK k : k = update_votes(h, a, q, ps, voting)
    OBVIOUS
  <2>16. r.t = k
    BY <1>13, <2>11, <2>14, <2>15
  <2>17. HasVoted(h, k, S, D, a, 0, q, voting)
    BY <1>15, <2>10, <2>12, <2>13, <2>15, <2>16, update_votesOpen
  <2>18. /\ Counting(k, S \cup {a}, D, 0) /\ DOMAIN k.voters = U
         /\ \A x \in U : k.voters[x].is_proxy = t.voters[x].is_proxy
         /\ q # 0 => k.voters[q].is_proxy
    BY <2>9, <2>14, <2>17 DEF HasVoted
  <2>19. S \cup {a} = U \ r.left
    BY <1>13, <2>3, <2>4, <2>8
  <2>20. r.left \subseteq U
    BY <1>13, <2>4
  <2>21. \A x \in D \cap r.left : k.voters[x].is_proxy
    <3>1. TAKE x \in D \cap r.left
    <3>2. x \in s.left /\ x # a
      BY <1>13
    <3>3. x \in s.done \/ (q # 0 /\ x = q)
      BY <2>7, <2>9, <3>2
    <3>4. CASE x \in s.done
      BY <2>4, <2>18, <3>2, <3>4
    <3>5. CASE q # 0 /\ x = q
      BY <2>18, <3>5
    <3> QED
      BY <3>3, <3>4, <3>5
  <2> QED
    BY <1>13, <2>16, <2>18, <2>19, <2>20, <2>21 DEF Recounting
<1> QED
  BY <1>13, <1>15

\* When all have had their turn all votes are counted.
LEMMA RecastAllCounted ==
    ASSUME NEW t, Counting(t, {}, {}, 0), NEW h, h = RecastAll(t), h.ok
    PROVE  AllCounted(h, 0)
<1>1. PICK n : n = Cardinality(DOMAIN t.voters)
  OBVIOUS
<1>2. PICK f : f = Recasts(t, n)
  OBVIOUS
<1>3. IsTables(t) /\ VoterTable(t.voters)
  BY DEF Counting
<1>4. PICK U : U = DOMAIN t.voters
  OBVIOUS
<1>5. U \subseteq Users /\ IsFiniteSet(U)
  <2>1. U \subseteq Users
    BY <1>3, <1>4 DEF VoterTable
  <2> QED
    BY <2>1, ResourcesAssumption, FS_Subset
<1>6. /\ n \in Nat
      /\ f[0] = [t |-> t, done |-> {}, left |-> U]
      /\ \A i \in Nat : i # 0 /\ i <= n => f[i] = RecastNext(f[i - 1])
      /\ h = f[n].t
  <2>1. f[0] = [t |-> t, done |-> {}, left |-> DOMAIN t.voters]
    BY <1>1, <1>2, <1>3, RecastsTaken
  <2>2. n \in Nat
    BY <1>1, <1>3, VotersCounted
  <2>3. ASSUME NEW i \in Nat, i # 0, i <= n PROVE f[i] = RecastNext(f[i - 1])
    <3>1. IsRecasts(f, t, n)
      BY <1>2, <2>2, RecastsExist
    <3>2. i \in 0..n
      BY <2>2, <2>3
    <3> QED
      BY <2>3, <3>1, <3>2, Zenon DEF IsRecasts
  <2>4. RecastAll(t) = f[n].t
    BY <1>1, <1>2, <1>3, RecastsTaken, ZenonT(30)
  <2> QED
    BY <1>4, <2>1, <2>2, <2>3, <2>4
<1> DEFINE Fine(i) == /\ Polling(t, f[i].t)
                      /\ f[i] = [t |-> f[i].t, done |-> f[i].done, left |-> f[i].left]
                      /\ f[i].left \subseteq U /\ Cardinality(f[i].left) = n - i
                      /\ f[i].t.ok => Recounting(f[i].t, f[i].done, f[i].left)
           Bad == {i \in Nat : i <= n /\ ~Fine(i)}
<1>7. Bad = {}
  <2>1. SUFFICES ASSUME Bad # {} PROVE FALSE
    OBVIOUS
  <2>2. PICK i \in Bad : \A k \in Bad : i <= k
    BY <2>1, LeastNumber
  <2>3. i \in Nat /\ i <= n /\ ~Fine(i)
    BY <2>2
  <2>4. CASE i = 0
    <3>1. f[i].t = t /\ f[i].done = {} /\ f[i].left = U
          /\ f[i] = [t |-> f[i].t, done |-> f[i].done, left |-> f[i].left]
      BY <1>6, <2>4
    <3>2. Frame(t, t, {})
      BY <1>3 DEF Frame, IsTables
    <3>3. Polling(t, t)
      BY <1>3, <3>2, PollingFrame
    <3>4. Cardinality(U) = n - i
      BY <1>1, <1>4, <1>6, <2>4
    <3>5. Recounting(t, {}, U)
      <4>1. U \ U = {} /\ {} \cap U = {}
        OBVIOUS
      <4> QED
        BY <1>4, <4>1 DEF Recounting
    <3> QED
      BY <2>3, <3>1, <3>3, <3>4, <3>5
  <2>5. CASE i # 0
    <3>1. i - 1 \in Nat /\ i - 1 <= n /\ i - 1 \notin Bad
      BY <1>6, <2>2, <2>3, <2>5
    <3>2. PICK s : s = f[i - 1]
      OBVIOUS
    <3>3. /\ Polling(t, s.t) /\ s = [t |-> s.t, done |-> s.done, left |-> s.left]
          /\ s.left \subseteq U /\ Cardinality(s.left) = n - (i - 1)
          /\ s.t.ok => Recounting(s.t, s.done, s.left)
      BY <3>1, <3>2
    <3>4. PICK r : r = RecastNext(s)
      OBVIOUS
    <3>5. IsTables(s.t) /\ VoterTable(s.t.voters)
      BY <3>3, PollingTables
    <3>6. Polling(s.t, r.t) /\ r = [t |-> r.t, done |-> r.done, left |-> r.left]
      BY <3>3, <3>4, <3>5, RecastPolling
    <3>7. f[i] = r
      BY <1>6, <2>3, <2>5, <3>2, <3>4
    <3>8. Polling(t, r.t) /\ (r.t.ok => s.t.ok)
      BY <3>3, <3>6, PollingChain DEF Polling, Frame
    <3>9. s.left # {} /\ IsFiniteSet(s.left) /\ s.left \subseteq Users
      <4>1. IsFiniteSet(s.left) /\ s.left \subseteq Users
        BY <1>5, <3>3, FS_Subset
      <4>2. n - (i - 1) # 0
        BY <1>6, <2>3
      <4> QED
        BY <3>3, <4>1, <4>2, FS_EmptySet
    <3>10. PICK a \in s.left : /\ r.left = s.left \ {a}
                               /\ r.t.ok /\ Recounting(s.t, s.done, s.left) => Recounting(r.t, r.done, r.left)
      BY <3>3, <3>4, <3>5, <3>9, RecastTurn
    <3>11. Cardinality(r.left) = n - i
      <4>1. Cardinality(s.left \ {a}) = Cardinality(s.left) - 1
        BY <3>9, FS_RemoveElement
      <4> QED
        BY <1>6, <2>3, <3>3, <3>10, <4>1
    <3>12. r.left \subseteq U
      BY <3>3, <3>10
    <3>13. r.t.ok => Recounting(r.t, r.done, r.left)
      BY <3>3, <3>8, <3>10
    <3> QED
      BY <2>3, <3>6, <3>7, <3>8, <3>11, <3>12, <3>13
  <2> QED
    BY <2>4, <2>5
<1>8. Fine(n)
  BY <1>6, <1>7
<1>9. /\ f[n].left \subseteq U /\ Cardinality(f[n].left) = 0
      /\ Recounting(h, f[n].done, f[n].left)
  BY <1>6, <1>8
<1>10. f[n].left = {}
  <2>1. IsFiniteSet(f[n].left)
    BY <1>5, <1>9, FS_Subset
  <2> QED
    BY <1>9, <2>1, FS_EmptySet
<1>11. PICK D : D = f[n].done
  OBVIOUS
<1>12. Counting(h, DOMAIN h.voters, D, 0)
  <2>1. DOMAIN h.voters \ {} = DOMAIN h.voters
    OBVIOUS
  <2> QED
    BY <1>9, <1>10, <1>11, <2>1 DEF Recounting
<1>13. D = DOMAIN h.voters
  BY <1>12 DEF Counting
<1> QED
  BY <1>12, <1>13 DEF AllCounted

\* Votes are counted anew when their total has become negative, and it is right
\* again then.
LEMMA recalculate_votesCounted ==
    ASSUME NEW t, NEW e, AllCounted(t, e), NEW h, h = recalculate_votes(t), h.ok
    PROVE  AllCounted(h, IF t.total_producer_vote_weight < 0 THEN 0 ELSE e)
<1>1. CASE t.total_producer_vote_weight < 0
  <2>1. PICK j : j = [t EXCEPT !.total_producer_vote_weight = 0]
    OBVIOUS
  <2> DEFINE ps == [p \in DOMAIN t.prods |-> WithVotes(t.prods[p], 0)]
  <2>2. PICK k : k = [j EXCEPT !.prods = ps]
    OBVIOUS
  <2>3. h = RecastAll(k)
    BY <1>1, <2>1, <2>2 DEF recalculate_votes
  <2>4. /\ IsTables(t) /\ VoterTable(t.voters) /\ RowsTyped(t.voters)
        /\ DOMAIN t.prods = Producers /\ \A p \in Producers : IsProducer(t.prods[p])
    BY DEF AllCounted, Counting, Tallied
  <2>5. PICK w : w = ps
    OBVIOUS
  <2>6. DOMAIN w = Producers /\ \A p \in Producers : IsProducer(w[p]) /\ w[p].total_votes = 0
    <3>1. DOMAIN w = Producers
      BY <2>4, <2>5
    <3>2. ASSUME NEW p \in Producers PROVE IsProducer(w[p]) /\ w[p].total_votes = 0
      <4>1. PICK x : x = t.prods[p]
        OBVIOUS
      <4>2. w[p] = WithVotes(x, 0) /\ IsProducer(x)
        BY <2>4, <2>5, <4>1
      <4>3. PICK y : y = WithVotes(x, 0)
        OBVIOUS
      <4>4. IsProducer(y) /\ y.total_votes = 0
        BY <4>2, <4>3 DEF IsProducer, WithVotes
      <4> QED
        BY <4>2, <4>3, <4>4
    <3> QED
      BY <3>1, <3>2
  <2>7. k = [j EXCEPT !.prods = w]
    BY <2>2, <2>5
  <2> HIDE DEF ps
  <2>8. Frame(t, j, {"total_producer_vote_weight"}) /\ j.total_producer_vote_weight = 0
    BY <2>1, <2>4, TotalSet
  <2>9. IsTables(j)
    BY <2>8 DEF Frame
  <2>10. Frame(j, k, {"prods"}) /\ k.prods = w
    BY <2>7, <2>9, ProdsSet
  <2>11. IsTables(k) /\ k.voters = t.voters /\ k.total_producer_vote_weight = 0
    BY <2>8, <2>10 DEF Frame, TableFields
  <2>12. PICK c : c = Cast(k.voters, {})
    OBVIOUS
  <2>13. DOMAIN c = {} /\ IsCast(c)
    <3>1. DOMAIN c = {}
      BY <2>12 DEF Cast
    <3> QED
      BY <3>1, FS_EmptySet DEF IsCast
  <2>14. \A p : SumOf(CastFor(c, p)) = 0
    <3>1. TAKE p
    <3>2. DOMAIN CastFor(c, p) = {}
      BY <2>13 DEF CastFor
    <3> QED
      BY <3>2, SumEmpty DEF SumOf
  <2>15. SumOf(Tally(w)) = 0
    <3>1. PICK g : g = Tally(w)
      OBVIOUS
    <3>2. DOMAIN g = Producers /\ \A p \in Producers : g[p] = 0
      BY <2>6, <3>1 DEF Tally
    <3>3. IsEven(g, 0, Producers)
      BY <3>2 DEF IsEven
    <3>4. SumOver(g, Producers) = 0 * Cardinality(Producers)
      BY <3>3, ResourcesAssumption, SumConstant
    <3>5. Cardinality(Producers) \in Nat
      BY ResourcesAssumption, FS_CardinalityType
    <3> QED
      BY <3>1, <3>2, <3>4, <3>5 DEF SumOf
  <2>16. Tallied(k, c, 0)
    BY <2>6, <2>10, <2>11, <2>13, <2>14, <2>15 DEF Tallied
  <2>17. Counting(k, {}, {}, 0)
    BY <2>4, <2>11, <2>12, <2>16 DEF Counting
  <2>18. AllCounted(h, 0)
    BY <2>3, <2>17, RecastAllCounted
  <2> QED
    BY <1>1, <2>18
<1>2. CASE ~(t.total_producer_vote_weight < 0)
  <2>1. h = t
    BY <1>2 DEF recalculate_votes
  <2> QED
    BY <1>2, <2>1
<1> QED
  BY <1>1, <1>2

-----------------------------------------------------------------------------
(* The tables of votes are left alone, or a row is written in one field    *)

\* A call that writes other tables leaves all votes counted.
LEMMA FrameCounted ==
    ASSUME NEW t, NEW e, AllCounted(t, e), NEW F, F \cap Polled = {}, NEW h, Frame(t, h, F)
    PROVE  AllCounted(h, e)
<1>1. /\ IsTables(h) /\ h.voters = t.voters /\ h.prods = t.prods
      /\ h.total_producer_vote_weight = t.total_producer_vote_weight
  <2>1. "voters" \notin F /\ "prods" \notin F /\ "total_producer_vote_weight" \notin F
    BY DEF Polled
  <2> QED
    BY <2>1 DEF Frame, TableFields
<1>2. PICK D, u : D = DOMAIN t.voters /\ u = t.voters
  OBVIOUS
<1>3. Counting(t, D, D, e)
  BY <1>2 DEF AllCounted
<1>4. Tallied(h, Cast(u, D), e)
  <2>1. Tallied(t, Cast(u, D), e)
    BY <1>2, <1>3 DEF Counting
  <2> QED
    BY <1>1, <2>1 DEF Tallied
<1>5. Counting(h, D, D, e)
  BY <1>1, <1>2, <1>3, <1>4 DEF Counting
<1> QED
  BY <1>1, <1>2, <1>5 DEF AllCounted

\* A stake of another account or one's own changes, and a check of it passes.
LEMMA changebwCounted ==
    ASSUME NEW t, NEW e, AllCounted(t, e), StakeTables(t),
           NEW source \in Users, NEW receiver \in Users, NEW delta \in Changes, NEW give \in BOOLEAN,
           NEW x \in BOOLEAN, NEW k, k = Check(changebw(t, source, receiver, delta, give), x), k.ok
    PROVE  AllCounted(k, e)
<1>1. PICK touched, row, from : /\ touched = Touched(from, receiver, delta, give)
                                /\ row = Received(OwnedBy(t.userres, receiver), delta)
                                /\ from = IF give THEN receiver ELSE source
  OBVIOUS
<1>2. PICK p : /\ changebw(t, source, receiver, delta, give) = update_voting_power(p, from, Sum2(delta))
               /\ Restakes(t, p, source, from, receiver, delta, touched, row)
  BY <1>1, changebwSteps
<1>3. PICK h : h = update_voting_power(p, from, Sum2(delta))
  OBVIOUS
<1>4. from \in Users /\ Sum2(delta) \in Int
  BY <1>1, WeightsAdd
<1>5. Frame(t, p, StakeFields)
  BY <1>2 DEF Restakes
<1>6. AllCounted(p, e)
  <2>1. StakeFields \cap Polled = {}
    BY DEF StakeFields, Polled
  <2> QED
    BY <1>5, <2>1, FrameCounted
<1>7. Frame(p, h, Polled)
  <2>1. IsTables(p) /\ VoterTable(p.voters)
    BY <1>6 DEF AllCounted, Counting
  <2> QED
    BY <1>3, <1>4, <2>1, update_voting_powerEffect
<1>8. h.ok /\ k = h
  BY <1>2, <1>3, <1>7, CheckPassed
<1> QED
  BY <1>3, <1>4, <1>6, <1>8, update_voting_powerCounted

\* One is given,
LEMMA delegatebwCounted ==
    ASSUME NEW t, NEW e, AllCounted(t, e), StakeTables(t),
           NEW source \in Users, NEW receiver \in Users, NEW delta \in Changes, NEW give \in BOOLEAN,
           NEW k, k = delegatebw(t, source, receiver, delta, give), k.ok
    PROVE  AllCounted(k, e)
<1> DEFINE x == NonNegative(delta) /\ Sum2(delta) > 0 /\ (give => source # receiver)
<1>1. k = Check(changebw(t, source, receiver, delta, give), x)
  BY DEF delegatebw
<1>2. x \in BOOLEAN
  OBVIOUS
<1> HIDE DEF x
<1> QED
  BY <1>1, <1>2, changebwCounted

\* or taken back.
LEMMA undelegatebwCounted ==
    ASSUME NEW t, NEW e, AllCounted(t, e), StakeTables(t),
           NEW source \in Users, NEW receiver \in Users, NEW delta \in Changes,
           NEW k, k = undelegatebw(t, source, receiver, delta), k.ok
    PROVE  AllCounted(k, e)
<1>1. PICK d : d = Minus(NoWeights, delta)
  OBVIOUS
<1>2. d \in Changes
  BY <1>1, NoWeightsZero, WeightsAdd
<1>3. PICK give \in BOOLEAN : give = FALSE
  OBVIOUS
<1> DEFINE x == NonNegative(delta) /\ Sum2(delta) > 0 /\ network_activated
<1>4. k = Check(changebw(t, source, receiver, d, give), x)
  BY <1>1, <1>3 DEF undelegatebw
<1>5. x \in BOOLEAN
  BY StakingAssumption
<1> HIDE DEF x
<1> QED
  BY <1>2, <1>4, <1>5, changebwCounted

\* The row of a voter says what is managed, and the same of its vote.
LEMMA ManagedRow ==
    ASSUME NEW v, IsVoter(v), NEW m, NEW r, r = [v EXCEPT !.managed = m]
    PROVE  /\ IsVoter(r) /\ Ballot(r) = Ballot(v) /\ r.proxied_vote_weight = v.proxied_vote_weight
           /\ VoterTyped(v) => VoterTyped(r)
           /\ Counted(v) => Counted(r)
           /\ Fresh(v) => Fresh(r)
<1>1. /\ r.proxy = v.proxy /\ r.producers = v.producers /\ r.staked = v.staked
      /\ r.last_stake = v.last_stake /\ r.last_vote_weight = v.last_vote_weight
      /\ r.proxied_vote_weight = v.proxied_vote_weight /\ r.is_proxy = v.is_proxy /\ IsVoter(r)
  BY DEF IsVoter, VoterFields
<1>2. TotalStaked(r) = TotalStaked(v)
  BY <1>1 DEF TotalStaked
<1> QED
  BY <1>1, <1>2 DEF Ballot, VoterTyped, Counted, Fresh

\* It is written together with the limits.
LEMMA ManagingCounted ==
    ASSUME NEW t, NEW e, AllCounted(t, e), NEW a \in Users, NEW m,
           NEW r, r = [IF a \in DOMAIN t.voters THEN t.voters[a] ELSE NewVoter EXCEPT !.managed = m],
           NEW h, Frame(t, h, {"voters", "limits"}), h.voters = Put(t.voters, a, r)
    PROVE  AllCounted(h, e)
<1>1. PICK v : v = IF a \in DOMAIN t.voters THEN t.voters[a] ELSE NewVoter
  OBVIOUS
<1>2. r = [v EXCEPT !.managed = m]
  BY <1>1
<1>3. /\ VoterTable(t.voters) /\ RowsTyped(t.voters)
      /\ \A b \in DOMAIN t.voters : Counted(t.voters[b]) /\ Fresh(t.voters[b])
  BY DEF AllCounted, Counting
<1>4. IsVoter(v) /\ VoterTyped(v) /\ Counted(v) /\ Fresh(v)
  BY <1>1, <1>3, NewVoterRow, NewVoterVote DEF VoterTable, RowsTyped
<1>5. /\ IsVoter(r) /\ Ballot(r) = Ballot(v) /\ r.proxied_vote_weight = v.proxied_vote_weight
      /\ VoterTyped(r) /\ Counted(r) /\ Fresh(r)
  BY <1>2, <1>4, ManagedRow
<1>6. SameVote(t.voters, a, r)
  BY <1>1, <1>5, NewVoterVote DEF SameVote
<1>7. RowPut(t, h, a, r)
  <2>1. PICK u, w : u = t.voters /\ w = h.voters
    OBVIOUS
  <2>2. w = Put(u, a, r)
    BY <2>1
  <2>3. /\ DOMAIN w = DOMAIN u \cup {a} /\ w = [b \in DOMAIN w |-> w[b]]
        /\ w[a] = r /\ \A b \in DOMAIN u \ {a} : w[b] = u[b]
    BY <2>2 DEF Put
  <2>4. VoterTable(w)
    BY <1>3, <1>5, <2>1, <2>3 DEF VoterTable
  <2>5. IsTables(h) /\ h.prods = t.prods /\ h.total_producer_vote_weight = t.total_producer_vote_weight
    BY DEF Frame, TableFields
  <2> QED
    BY <2>1, <2>3, <2>4, <2>5 DEF RowPut
<1> QED
  BY <1>5, <1>6, <1>7, RowPutCounted

\* One limit is set, with a value,
LEMMA ManageCounted ==
    ASSUME NEW t, NEW e, AllCounted(t, e), NEW a \in Users, NEW kind, NEW value,
           NEW h, h = Manage(t, a, kind, value), h.ok
    PROVE  AllCounted(h, e)
<1>1. PICK v : v = IF a \in DOMAIN t.voters THEN t.voters[a] ELSE NewVoter
  OBVIOUS
<1>2. PICK m : m = v.managed \cup {kind}
  OBVIOUS
<1>3. PICK r : r = [v EXCEPT !.managed = m]
  OBVIOUS
<1>4. PICK w : w = Put(t.voters, a, r)
  OBVIOUS
<1>5. PICK l : l = [t.limits[a] EXCEPT ![kind] = value]
  OBVIOUS
<1>6. PICK n : n = [t.limits EXCEPT ![a] = l]
  OBVIOUS
<1>7. PICK j : j = Managing(t, w, n)
  OBVIOUS
<1> DEFINE x == value >= IF kind = "ram" THEN 0 ELSE -1
<1>8. h = Check(j, x)
  <2>1. h = Check([t EXCEPT !.voters = Put(t.voters, a, r), !.limits[a][kind] = value], x)
    BY <1>1, <1>2, <1>3 DEF Manage
  <2>2. [t EXCEPT !.voters = Put(t.voters, a, r), !.limits[a][kind] = value] = j
    BY <1>4, <1>5, <1>6, <1>7 DEF Managing, WithVoters, WithLimits
  <2> QED
    BY <2>1, <2>2
<1>9. x \in BOOLEAN
  OBVIOUS
<1> HIDE DEF x
<1>10. Frame(t, j, {"voters", "limits"}) /\ j.voters = w
  BY <1>7, ManagingFrame DEF AllCounted, Counting
<1>11. h = j
  BY <1>8, <1>9, <1>10, CheckPassed
<1>12. r = [IF a \in DOMAIN t.voters THEN t.voters[a] ELSE NewVoter EXCEPT !.managed = m]
  BY <1>1, <1>3
<1> QED
  BY <1>4, <1>10, <1>11, <1>12, ManagingCounted

\* and without one.
LEMMA UnmanageCounted ==
    ASSUME NEW t, NEW e, AllCounted(t, e), NEW a \in Users, NEW kind,
           NEW h, h = Unmanage(t, a, kind), h.ok
    PROVE  AllCounted(h, e)
<1>1. IsTables(t) /\ VoterTable(t.voters)
  BY DEF AllCounted, Counting
<1>2. kind \in Managed(t, a) /\ a \in DOMAIN t.voters
  <2>1. CASE kind \in Managed(t, a)
    BY <2>1 DEF Managed
  <2>2. CASE kind \notin Managed(t, a)
    <3>1. h = Check(t, FALSE)
      BY <2>2 DEF Unmanage
    <3>2. ~Check(t, FALSE).ok
      BY <1>1, CheckFrame
    <3> QED
      BY <3>1, <3>2
  <2> QED
    BY <2>1, <2>2
<1>3. PICK value : value = IF kind = "ram" THEN Resources(t, a).ram + ram_gift_bytes
                           ELSE Resources(t, a).weights[kind]
  OBVIOUS
<1>4. PICK v : v = t.voters[a]
  OBVIOUS
<1>5. PICK m : m = v.managed \ {kind}
  OBVIOUS
<1>6. PICK r : r = [v EXCEPT !.managed = m]
  OBVIOUS
<1>7. PICK w : w = [t.voters EXCEPT ![a] = r]
  OBVIOUS
<1>8. PICK l : l = [t.limits[a] EXCEPT ![kind] = value]
  OBVIOUS
<1>9. PICK n : n = [t.limits EXCEPT ![a] = l]
  OBVIOUS
<1>10. h = Managing(t, w, n)
  <2>1. h = [t EXCEPT !.voters[a].managed = t.voters[a].managed \ {kind}, !.limits[a][kind] = value]
    BY <1>2, <1>3 DEF Unmanage
  <2> QED
    BY <1>4, <1>5, <1>6, <1>7, <1>8, <1>9, <2>1 DEF Managing, WithVoters, WithLimits
<1>11. Frame(t, h, {"voters", "limits"}) /\ h.voters = w
  BY <1>1, <1>10, ManagingFrame
<1>12. w = Put(t.voters, a, r)
  <2>1. PICK u : u = t.voters
    OBVIOUS
  <2>2. w = [u EXCEPT ![a] = r] /\ a \in DOMAIN u /\ u = [b \in DOMAIN u |-> u[b]]
    BY <1>1, <1>2, <1>7, <2>1 DEF VoterTable
  <2>3. w = Put(u, a, r)
    BY <2>2 DEF Put
  <2> QED
    BY <2>1, <2>3
<1>13. r = [IF a \in DOMAIN t.voters THEN t.voters[a] ELSE NewVoter EXCEPT !.managed = m]
  BY <1>2, <1>4, <1>6
<1> QED
  BY <1>11, <1>12, <1>13, ManagingCounted

\* All limits at once.
LEMMA setalimitsCounted ==
    ASSUME NEW t, NEW e, AllCounted(t, e), NEW a, NEW l, NEW h, h = setalimits(t, a, l), h.ok
    PROVE  AllCounted(h, e)
<1>1. IsTables(t)
  BY DEF AllCounted, Counting
<1>2. PICK w : w = [t.limits EXCEPT ![a] = l]
  OBVIOUS
<1>3. PICK j : j = WithLimits(t, w)
  OBVIOUS
<1> DEFINE x == a \notin DOMAIN t.userres /\ Managed(t, a) = {}
<1>4. h = Check(j, x)
  BY <1>2, <1>3 DEF setalimits, WithLimits
<1>5. x \in BOOLEAN
  OBVIOUS
<1> HIDE DEF x
<1>6. Frame(t, j, {"limits"})
  BY <1>1, <1>3, SMT DEF IsTables, TableFields, Frame, WithLimits
<1>7. h = j
  BY <1>4, <1>5, <1>6, CheckPassed
<1>8. {"limits"} \cap Polled = {}
  BY DEF Polled
<1> QED
  BY <1>6, <1>7, <1>8, FrameCounted

\* The supply of RAM is set,
LEMMA setramCounted ==
    ASSUME NEW t, NEW e, AllCounted(t, e), NEW size, NEW h, h = setram(t, size), h.ok
    PROVE  AllCounted(h, e)
<1>1. IsTables(t)
  BY DEF AllCounted, Counting
<1>2. PICK bytes : bytes = size - t.ram.max_ram_size
  OBVIOUS
<1>3. PICK r : r = [t.ram EXCEPT !.max_ram_size = t.ram.max_ram_size + bytes]
  OBVIOUS
<1>4. PICK m : m = [t.market EXCEPT !.base = t.market.base + bytes]
  OBVIOUS
<1>5. PICK j : j = RamRows(t, m, r)
  OBVIOUS
<1> DEFINE x == t.ram.max_ram_size < size /\ t.ram.reserved < size
<1>6. h = Check(j, x)
  BY <1>2, <1>3, <1>4, <1>5 DEF setram, MoreRam, RamRows, WithMarket, WithRam
<1>7. x \in BOOLEAN
  OBVIOUS
<1> HIDE DEF x
<1>8. Frame(t, j, {"market", "ram"})
  BY <1>1, <1>5, RamRowsWritten
<1>9. h = j
  BY <1>6, <1>7, <1>8, CheckPassed
<1>10. {"market", "ram"} \cap Polled = {}
  BY DEF Polled
<1> QED
  BY <1>8, <1>9, <1>10, FrameCounted

\* and how it grows.
LEMMA setramrateCounted ==
    ASSUME NEW t, NEW e, AllCounted(t, e), RamOK(t), t.now \in Nat, NEW rate, NEW h, h = setramrate(t, rate)
    PROVE  AllCounted(h, e)
<1>1. IsTables(t) /\ MarketOK(t.market, t.ram) /\ t.ram.last_ram_increase <= t.now
  BY DEF AllCounted, Counting, RamOK
<1>2. PICK j : j = update_ram_supply(t)
  OBVIOUS
<1>3. Frame(t, j, {"market", "ram"})
  BY <1>1, <1>2, update_ram_supplyEffect
<1>4. PICK r : r = [j.ram EXCEPT !.new_ram_per_block = rate]
  OBVIOUS
<1>5. h = WithRam(j, r)
  BY <1>2, <1>4 DEF setramrate, WithRam
<1>6. Frame(j, h, {"ram"})
  <2>1. IsTables(j)
    BY <1>3 DEF Frame
  <2> QED
    BY <1>5, <2>1, RamWritten DEF WithRam
<1>7. Frame(t, h, {"market", "ram"})
  BY <1>3, <1>6 DEF Frame, TableFields
<1>8. {"market", "ram"} \cap Polled = {}
  BY DEF Polled
<1> QED
  BY <1>7, <1>8, FrameCounted

\* RAM is bought or sold.
LEMMA RamMovedCounted ==
    ASSUME NEW t, NEW e, AllCounted(t, e), NEW a, NEW h, \E row : RamMoved(t, h, a, row)
    PROVE  AllCounted(h, e)
<1>1. Frame(t, h, RamFields)
  BY DEF RamMoved
<1>2. RamFields \cap Polled = {}
  BY DEF RamFields, Polled
<1> QED
  BY <1>1, <1>2, FrameCounted

\* The price of bytes is a number of tokens.
LEMMA BytesCounted ==
    ASSUME NEW t, NEW e, AllCounted(t, e), StakesOK(t), RamOK(t), NEW payer \in Users, NEW receiver \in Users,
           NEW bytes \in Int, bytes < t.market.base, NEW h, h = buyrambytes(t, payer, receiver, bytes), h.ok
    PROVE  AllCounted(h, e)
<1>1. PICK b, q, d : b = t.market.base /\ q = t.market.quote /\ d = b - bytes
  OBVIOUS
<1>2. b \in Nat /\ q \in Nat /\ d \in Nat \ {0}
  <2>1. b \in Nat /\ q \in Nat
    BY <1>1 DEF RamOK, MarketOK, Market
  <2> QED
    BY <1>1, <2>1
<1>3. PICK cost : cost = (q * bytes) \div d
  OBVIOUS
<1>4. cost \in Int
  <2>1. q * bytes \in Int
    BY <1>2, SMT
  <2> QED
    BY <1>2, <1>3, <2>1, SMT
<1>5. PICK quant : quant = (cost * 1000) \div 995
  OBVIOUS
<1>6. quant \in Int
  BY <1>4, <1>5, SMT
<1>7. h = buyram(t, payer, receiver, quant)
  BY <1>1, <1>3, <1>5 DEF buyrambytes, get_bancor_input
<1>8. \E row : RamMoved(t, h, receiver, row)
  BY <1>6, <1>7, buyramMoved
<1> QED
  BY <1>8, RamMovedCounted

\* A refund is paid.
LEMMA refundCounted ==
    ASSUME NEW t, NEW e, AllCounted(t, e), StakeTables(t), NEW owner, NEW h, h = refund(t, owner), h.ok
    PROVE  AllCounted(h, e)
<1>1. IsTables(t)
  BY DEF AllCounted, Counting
<1>2. owner \in DOMAIN t.refunds
  <2>1. SUFFICES ASSUME owner \notin DOMAIN t.refunds PROVE FALSE
    OBVIOUS
  <2>2. h = Check(t, FALSE)
    BY <2>1 DEF refund
  <2>3. ~Check(t, FALSE).ok
    BY <1>1, CheckFrame
  <2> QED
    BY <2>2, <2>3
<1>3. owner \in Users
  BY <1>2 DEF StakeTables, RefundRows
<1>4. Frame(t, h, {"ledger", "refunds"})
  BY <1>3, refundEffect
<1>5. {"ledger", "refunds"} \cap Polled = {}
  BY DEF Polled
<1> QED
  BY <1>4, <1>5, FrameCounted

\* A producer resigns or registers: its votes stay.
LEMMA ChangedProducerCounted ==
    ASSUME NEW t, NEW e, AllCounted(t, e), NEW p \in Producers, NEW active,
           NEW x, x = [t.prods EXCEPT ![p].is_active = active], NEW h, h = [t EXCEPT !.prods = x]
    PROVE  AllCounted(h, e)
<1>1. PICK D, u, r : D = DOMAIN t.voters /\ u = t.voters /\ r = t.prods
  OBVIOUS
<1>2. Counting(t, D, D, e) /\ IsTables(t) /\ Tallied(t, Cast(u, D), e)
  BY <1>1 DEF AllCounted, Counting
<1>3. Frame(t, h, {"prods"}) /\ h.prods = x
  BY <1>2, ProdsSet
<1>4. IsTables(h) /\ h.voters = u /\ h.total_producer_vote_weight = t.total_producer_vote_weight
  BY <1>1, <1>3 DEF Frame, TableFields
<1>5. DOMAIN r = Producers /\ \A q \in Producers : IsProducer(r[q])
  BY <1>1, <1>2 DEF Tallied
<1>6. PICK s : s = [r[p] EXCEPT !.is_active = active]
  OBVIOUS
<1>7. x = [r EXCEPT ![p] = s]
  BY <1>1, <1>6
<1>8. IsProducer(s) /\ s.total_votes = r[p].total_votes
  <2>1. PICK z : z = r[p]
    OBVIOUS
  <2>2. IsProducer(z) /\ s = [z EXCEPT !.is_active = active]
    BY <1>5, <1>6, <2>1
  <2>3. IsProducer(s) /\ s.total_votes = z.total_votes
    BY <2>2 DEF IsProducer
  <2> QED
    BY <2>1, <2>3
<1>9. DOMAIN x = Producers /\ \A q \in Producers : IsProducer(x[q]) /\ x[q].total_votes = r[q].total_votes
  <2>1. DOMAIN x = Producers /\ x[p] = s /\ \A q \in Producers \ {p} : x[q] = r[q]
    BY <1>5, <1>7
  <2> QED
    BY <1>5, <1>8, <2>1
<1>10. Tally(x) = Tally(r)
  BY <1>5, <1>9 DEF Tally
<1>11. Tallied(h, Cast(u, D), e)
  BY <1>1, <1>2, <1>3, <1>4, <1>9, <1>10 DEF Tallied
<1>12. Counting(h, D, D, e)
  BY <1>1, <1>2, <1>4, <1>11 DEF Counting
<1> QED
  BY <1>1, <1>4, <1>12 DEF AllCounted

\* The total of the votes loses something.
LEMMA DriftedCounted ==
    ASSUME NEW t, NEW e, AllCounted(t, e), NEW n \in Int, NEW h, h = [t EXCEPT !.total_producer_vote_weight = n],
           NEW f, f = e + t.total_producer_vote_weight - n
    PROVE  AllCounted(h, f)
<1>1. PICK D, u : D = DOMAIN t.voters /\ u = t.voters
  OBVIOUS
<1>2. Counting(t, D, D, e) /\ IsTables(t) /\ Tallied(t, Cast(u, D), e)
  BY <1>1 DEF AllCounted, Counting
<1>3. Frame(t, h, {"total_producer_vote_weight"}) /\ h.total_producer_vote_weight = n
  BY <1>2, TotalSet
<1>4. IsTables(h) /\ h.voters = u /\ h.prods = t.prods
  BY <1>1, <1>3 DEF Frame, TableFields
<1>5. PICK m : m = t.total_producer_vote_weight
  OBVIOUS
<1>6. m \in Int /\ e \in Int /\ SumOf(Tally(t.prods)) = m + e /\ f = e + m - n
  BY <1>2, <1>5 DEF Tallied
<1>7. f \in Int /\ SumOf(Tally(t.prods)) = n + f
  BY <1>6
<1>8. Tallied(h, Cast(u, D), f)
  BY <1>1, <1>2, <1>3, <1>4, <1>7 DEF Tallied
<1>9. Counting(h, D, D, f)
  BY <1>1, <1>2, <1>4, <1>8 DEF Counting
<1> QED
  BY <1>1, <1>4, <1>9 DEF AllCounted

-----------------------------------------------------------------------------
(* All votes are counted in every state                                    *)

VotesInv == AllCounted(Now, drifted)

\* What a call finds.
LEMMA VotesNow ==
    ASSUME BooksInv, VotesInv, NEW t, t = Now
    PROVE  /\ AllCounted(t, drifted) /\ t.now = now /\ t.voters = voters /\ t.prods = prods
           /\ t.total_producer_vote_weight = total_producer_vote_weight
           /\ StakesOK(t) /\ StakeTables(t) /\ RamOK(t) /\ t.now \in Nat /\ t.ram = ram /\ t.market = market
BY NowTables DEF VotesInv, BooksInv, Books, StakesOK, StakeTables

\* Votes that are written.
LEMMA VotesWritten ==
    ASSUME NEW k, Write(k), k.now = now, now' = now, NEW e, AllCounted(k, e), e = drifted'
    PROVE  VotesInv'
<1>1. IsTables(k)
  BY DEF AllCounted, Counting
<1>2. PICK n : n = Now'
  OBVIOUS
<1>3. Now' = k
  BY <1>1, WrittenNow
<1>4. AllCounted(n, e)
  BY <1>2, <1>3
<1>5. VotesInv' <=> AllCounted(Now', drifted')
  BY DEF VotesInv
<1> QED
  BY <1>2, <1>4, <1>5

\* A call that loses nothing of the total.
LEMMA CallVotes ==
    ASSUME NEW k, Write(k), k.now = now, UNCHANGED <<now, drifted>>, AllCounted(k, drifted)
    PROVE  VotesInv'
<1>1. PICK e : e = drifted
  OBVIOUS
<1>2. AllCounted(k, e) /\ e = drifted' /\ now' = now
  BY <1>1
<1> QED
  BY <1>2, VotesWritten

\* A step of the contract leaves the time of the tables as it is.
LEMMA CountedNow ==
    ASSUME BooksInv, VotesInv, Stake \/ Unstake \/ ClaimRefund \/ RunDeferred
    PROVE  VotesInv'
<1>1. PICK t : t = Now
  OBVIOUS
<1>2. AllCounted(t, drifted) /\ t.now = now /\ StakeTables(t) /\ Books(t, unstaked, special, fixed)
  BY <1>1, VotesNow, BooksNow
<1>3. UNCHANGED <<now, drifted>>
  BY DEF Stake, Unstake, ClaimRefund, RunDeferred, Call
<1>4. CASE Stake
  <2>1. PICK from \in Users, receiver \in Users, delta \in Stakes, give \in BOOLEAN :
          Write(delegatebw(t, from, receiver, delta, give))
    BY <1>1, <1>4 DEF Stake
  <2>2. PICK k : k = delegatebw(t, from, receiver, delta, give)
    OBVIOUS
  <2>3. Write(k) /\ k.ok
    BY <2>1, <2>2 DEF Write
  <2>4. delta \in Changes
    BY <2>1, CallAmounts
  <2>5. AllCounted(k, drifted)
    BY <1>2, <2>2, <2>3, <2>4, delegatebwCounted
  <2>6. k.now = now
    BY <1>2, <2>2, <2>3, <2>4, delegatebwBooks
  <2> QED
    BY <1>3, <2>3, <2>5, <2>6, CallVotes
<1>5. CASE Unstake
  <2>1. PICK from \in Users, receiver \in Users, delta \in Stakes :
          Write(undelegatebw(t, from, receiver, delta)) /\ unstaked' = [unstaked EXCEPT ![from] = now]
    BY <1>1, <1>5 DEF Unstake
  <2>2. PICK k : k = undelegatebw(t, from, receiver, delta)
    OBVIOUS
  <2>3. Write(k) /\ k.ok
    BY <2>1, <2>2 DEF Write
  <2>4. delta \in Changes
    BY <2>1, CallAmounts
  <2>5. AllCounted(k, drifted)
    BY <1>2, <2>2, <2>3, <2>4, undelegatebwCounted
  <2>6. k.now = now
    <3>1. PICK v : v = unstaked'
      OBVIOUS
    <3>2. DOMAIN unstaked = Users
      BY DEF BooksInv
    <3>3. v[from] = t.now /\ \A b \in Users \ {from} : v[b] = unstaked[b]
      BY <1>2, <2>1, <3>1, <3>2
    <3> QED
      BY <1>2, <2>2, <2>3, <2>4, <3>3, undelegatebwBooks
  <2> QED
    BY <1>3, <2>3, <2>5, <2>6, CallVotes
<1>6. ASSUME NEW n, AllCounted(n, drifted), StakeTables(n), Books(n, unstaked, special, fixed), n.now = now,
             NEW owner, NEW k, k = refund(n, owner), Write(k)
      PROVE  VotesInv'
  <2>1. k.ok
    BY <1>6 DEF Write
  <2>2. AllCounted(k, drifted)
    BY <1>6, <2>1, refundCounted
  <2>3. owner \in Users
    <3>1. CASE owner \in DOMAIN n.refunds
      BY <1>6, <3>1 DEF StakeTables, RefundRows
    <3>2. CASE owner \notin DOMAIN n.refunds
      <4>1. k = Check(n, FALSE)
        BY <1>6, <3>2 DEF refund
      <4>2. ~Check(n, FALSE).ok
        BY <1>6, CheckFrame DEF StakeTables
      <4> QED
        BY <2>1, <4>1, <4>2
    <3> QED
      BY <3>1, <3>2
  <2>4. k.now = now
    BY <1>6, <2>1, <2>3, refundBooks
  <2> QED
    BY <1>3, <1>6, <2>2, <2>4, CallVotes
<1>7. CASE ClaimRefund
  <2>1. PICK owner \in Users : Write(refund(t, owner))
    BY <1>1, <1>7 DEF ClaimRefund
  <2>2. PICK k : k = refund(t, owner)
    OBVIOUS
  <2> QED
    BY <1>2, <1>6, <2>1, <2>2
<1>8. CASE RunDeferred
  <2>1. PICK a : \/ Write([t EXCEPT !.deferred = Erase(t.deferred, a)])
                 \/ Write(refund([t EXCEPT !.deferred = Erase(t.deferred, a)], a))
    BY <1>1, <1>8 DEF RunDeferred
  <2>2. PICK d : d = Erase(t.deferred, a)
    OBVIOUS
  <2>3. PICK n : n = [t EXCEPT !.deferred = d]
    OBVIOUS
  <2>4. Write(n) \/ Write(refund(n, a))
    BY <2>1, <2>2, <2>3
  <2>5. Books(n, unstaked, special, fixed) /\ n.now = now
    BY <1>2, <2>2, <2>3, DeferredBooks
  <2>6. StakeTables(n)
    BY <2>5 DEF Books, StakesOK
  <2>7. AllCounted(n, drifted)
    <3>1. IsTables(t)
      BY <1>2 DEF StakeTables
    <3>2. Frame(t, n, {"deferred"})
      BY <2>3, <3>1, SMT DEF IsTables, TableFields, Frame
    <3>3. {"deferred"} \cap Polled = {}
      BY DEF Polled
    <3> QED
      BY <1>2, <3>2, <3>3, FrameCounted
  <2>8. CASE Write(n)
    BY <1>3, <2>5, <2>7, <2>8, CallVotes
  <2>9. CASE Write(refund(n, a))
    <3>1. PICK k : k = refund(n, a)
      OBVIOUS
    <3> QED
      BY <1>6, <2>5, <2>6, <2>7, <2>9, <3>1
  <2> QED
    BY <2>4, <2>8, <2>9
<1> QED
  BY <1>4, <1>5, <1>7, <1>8

\* RAM and limits change: votes do not.
LEMMA CountedBeside ==
    ASSUME BooksInv, VotesInv, BuyRam \/ SellRam \/ SetLimits \/ SetRam
    PROVE  VotesInv'
<1>1. PICK t : t = Now
  OBVIOUS
<1>2. /\ AllCounted(t, drifted) /\ t.now = now /\ StakesOK(t) /\ RamOK(t) /\ t.now \in Nat
      /\ Books(t, unstaked, special, fixed) /\ t.ram = ram /\ t.market = market
  BY <1>1, VotesNow, BooksNow
<1>3. UNCHANGED <<now, drifted>>
  BY DEF BuyRam, SellRam, SetLimits, SetRam, Call
<1>4. ASSUME NEW k, Write(k), AllCounted(k, drifted), k.now = t.now
      PROVE  VotesInv'
  BY <1>2, <1>3, <1>4, CallVotes
<1>5. CASE BuyRam
  <2>1. PICK payer \in Users, receiver \in Users, q \in Quants :
          \/ Write(buyram(t, payer, receiver, q))
          \/ q < market.base /\ Write(buyrambytes(t, payer, receiver, q))
    BY <1>1, <1>5 DEF BuyRam
  <2>2. q \in Int
    BY <2>1, CallAmounts
  <2>3. CASE Write(buyram(t, payer, receiver, q))
    <3>1. PICK k : k = buyram(t, payer, receiver, q)
      OBVIOUS
    <3>2. Write(k) /\ k.ok
      BY <2>3, <3>1 DEF Write
    <3>3. \E row : RamMoved(t, k, receiver, row)
      BY <1>2, <2>2, <3>1, <3>2, buyramMoved
    <3>4. AllCounted(k, drifted)
      BY <1>2, <3>3, RamMovedCounted
    <3>5. k.now = t.now
      BY <1>2, <2>2, <3>1, <3>2, buyramBooks
    <3> QED
      BY <1>4, <3>2, <3>4, <3>5
  <2>4. CASE q < market.base /\ Write(buyrambytes(t, payer, receiver, q))
    <3>1. PICK k : k = buyrambytes(t, payer, receiver, q)
      OBVIOUS
    <3>2. Write(k) /\ k.ok /\ q < t.market.base
      BY <1>2, <2>4, <3>1 DEF Write
    <3>3. AllCounted(k, drifted)
      BY <1>2, <2>2, <3>1, <3>2, BytesCounted
    <3>4. k.now = t.now
      BY <1>2, <2>2, <3>1, <3>2, buyrambytesBooks
    <3> QED
      BY <1>4, <3>2, <3>3, <3>4
  <2> QED
    BY <2>1, <2>3, <2>4
<1>6. CASE SellRam
  <2>1. PICK account \in Users, q \in Quants : Write(sellram(t, account, q))
    BY <1>1, <1>6 DEF SellRam
  <2>2. q \in Int
    BY <2>1, CallAmounts
  <2>3. PICK k : k = sellram(t, account, q)
    OBVIOUS
  <2>4. Write(k) /\ k.ok
    BY <2>1, <2>3 DEF Write
  <2>5. \E row : RamMoved(t, k, account, row)
    BY <1>2, <2>2, <2>3, <2>4, sellramMoved
  <2>6. AllCounted(k, drifted)
    BY <1>2, <2>5, RamMovedCounted
  <2>7. k.now = t.now
    BY <1>2, <2>2, <2>3, <2>4, sellramBooks
  <2> QED
    BY <1>4, <2>4, <2>6, <2>7
<1>7. CASE SetLimits
  <2>1. PICK a \in Users :
          \/ \E value \in LimitValues : Write(setalimits(t, a, [ram |-> value, net |-> value, cpu |-> value]))
          \/ \E kind \in Kinds \cup {"ram"} :
               (\E value \in LimitValues : Write(Manage(t, a, kind, value))) \/ Write(Unmanage(t, a, kind))
    BY <1>1, <1>7 DEF SetLimits
  <2>2. ASSUME NEW value \in LimitValues, Write(setalimits(t, a, [ram |-> value, net |-> value, cpu |-> value]))
        PROVE  VotesInv'
    <3>1. PICK l : l = [ram |-> value, net |-> value, cpu |-> value]
      OBVIOUS
    <3>2. value \in Int
      BY <2>2, CallAmounts
    <3>3. l \in LimitRow
      BY <3>1, <3>2 DEF LimitRow
    <3>4. PICK k : k = setalimits(t, a, l)
      OBVIOUS
    <3>5. Write(k) /\ k.ok
      BY <2>2, <3>1, <3>4 DEF Write
    <3>6. Books(k, unstaked, special \cup {a}, fixed) /\ k.now = t.now /\ k.refunds = t.refunds
      BY <1>2, <3>3, <3>4, <3>5, setalimitsBooks
    <3>7. AllCounted(k, drifted)
      BY <1>2, <3>4, <3>5, setalimitsCounted
    <3> QED
      BY <1>4, <3>5, <3>6, <3>7
  <2>3. ASSUME NEW kind \in Kinds \cup {"ram"}, NEW value \in LimitValues, Write(Manage(t, a, kind, value))
        PROVE  VotesInv'
    <3>1. value \in Int
      BY <2>3, CallAmounts
    <3>2. PICK k : k = Manage(t, a, kind, value)
      OBVIOUS
    <3>3. Write(k) /\ k.ok
      BY <2>3, <3>2 DEF Write
    <3>4. PICK g : g = Put(fixed, <<a, kind>>, value)
      OBVIOUS
    <3>5. k.now = t.now
      BY <1>2, <2>3, <3>1, <3>2, <3>3, <3>4, ManageBooks
    <3>6. AllCounted(k, drifted)
      BY <1>2, <3>2, <3>3, ManageCounted
    <3> QED
      BY <1>4, <3>3, <3>5, <3>6
  <2>4. ASSUME NEW kind \in Kinds \cup {"ram"}, Write(Unmanage(t, a, kind))
        PROVE  VotesInv'
    <3>2. PICK k : k = Unmanage(t, a, kind)
      OBVIOUS
    <3>3. Write(k) /\ k.ok
      BY <2>4, <3>2 DEF Write
    <3>4. PICK g : g = Erase(fixed, <<a, kind>>)
      OBVIOUS
    <3>5. k.now = t.now
      BY <1>2, <2>4, <3>2, <3>3, <3>4, UnmanageBooks
    <3>6. AllCounted(k, drifted)
      BY <1>2, <3>2, <3>3, UnmanageCounted
    <3> QED
      BY <1>4, <3>3, <3>5, <3>6
  <2> QED
    BY <2>1, <2>2, <2>3, <2>4
<1>8. CASE SetRam
  <2>1. Write(setram(t, 2 * ram.max_ram_size)) \/ \E rate \in RamRates : Write(setramrate(t, rate))
    BY <1>1, <1>8 DEF SetRam
  <2>2. CASE Write(setram(t, 2 * ram.max_ram_size))
    <3>1. PICK size : size = 2 * ram.max_ram_size
      OBVIOUS
    <3>2. size \in Nat
      <4>1. ram.max_ram_size \in Nat
        BY <1>2 DEF RamOK, MarketOK, RamRow
      <4> QED
        BY <3>1, <4>1
    <3>3. PICK k : k = setram(t, size)
      OBVIOUS
    <3>4. Write(k) /\ k.ok
      BY <2>2, <3>1, <3>3 DEF Write
    <3>5. k.now = t.now
      BY <1>2, <3>2, <3>3, <3>4, setramBooks
    <3>6. AllCounted(k, drifted)
      BY <1>2, <3>3, <3>4, setramCounted
    <3> QED
      BY <1>4, <3>4, <3>5, <3>6
  <2>3. ASSUME NEW rate \in RamRates, Write(setramrate(t, rate)) PROVE VotesInv'
    <3>1. rate \in Nat
      BY <2>3, CallAmounts
    <3>2. PICK k : k = setramrate(t, rate)
      OBVIOUS
    <3>3. k.now = t.now
      BY <1>2, <3>1, <3>2, setramrateBooks
    <3>4. AllCounted(k, drifted)
      BY <1>2, <3>2, setramrateCounted
    <3> QED
      BY <1>4, <2>3, <3>2, <3>3, <3>4
  <2> QED
    BY <2>1, <2>2, <2>3
<1> QED
  BY <1>5, <1>6, <1>7, <1>8

\* A vote, a proxy that resigns, and a producer that comes or goes.
LEMMA CountedVote ==
    ASSUME BooksInv, VotesInv, Vote \/ ResignProxy \/ ChangeProducer
    PROVE  VotesInv'
<1>1. PICK t : t = Now
  OBVIOUS
<1>2. /\ AllCounted(t, drifted) /\ t.now = now /\ t.voters = voters /\ IsTables(t) /\ VoterTable(t.voters)
      /\ Books(t, unstaked, special, fixed)
  BY <1>1, VotesNow, BooksNow DEF StakeTables
<1>3. UNCHANGED <<now, drifted>>
  BY DEF Vote, ResignProxy, ChangeProducer, Call
<1>4. ASSUME NEW k, Write(k), AllCounted(k, drifted), k.now = t.now
      PROVE  VotesInv'
  BY <1>2, <1>3, <1>4, CallVotes
<1>5. CASE Vote
  <2>1. PICK a, proxy, S : /\ a \in DOMAIN t.voters /\ S \subseteq Producers
                           /\ Write(update_votes(t, a, proxy, S, TRUE))
    <3>1. PICK a \in DOMAIN voters :
            \/ \E S \in SUBSET Producers : Write(update_votes(Now, a, 0, S, TRUE))
            \/ \E proxy \in Users : Write(update_votes(Now, a, proxy, {}, TRUE))
      BY <1>5 DEF Vote
    <3>2. \E proxy, S : S \subseteq Producers /\ Write(update_votes(Now, a, proxy, S, TRUE))
      BY <3>1
    <3> QED
      BY <1>1, <1>2, <3>1, <3>2
  <2>2. PICK voting \in BOOLEAN : voting = TRUE
    OBVIOUS
  <2>3. PICK k : k = update_votes(t, a, proxy, S, voting)
    OBVIOUS
  <2>4. Write(k) /\ k.ok
    BY <2>1, <2>2, <2>3 DEF Write
  <2>5. AllCounted(k, drifted)
    BY <1>2, <2>1, <2>3, <2>4, VoteCast
  <2>6. k.now = t.now
    <3>1. Polling(t, k)
      BY <1>2, <2>3, update_votesPolling
    <3> QED
      BY <3>1 DEF Polling, Frame, Polled, TableFields
  <2> QED
    BY <1>4, <2>4, <2>5, <2>6
<1>6. CASE ResignProxy
  <2>1. PICK a \in Users : Write(regproxy(t, a, FALSE))
    BY <1>1, <1>6 DEF ResignProxy
  <2>2. PICK isproxy \in BOOLEAN : isproxy = FALSE
    OBVIOUS
  <2>3. PICK k : k = regproxy(t, a, isproxy)
    OBVIOUS
  <2>4. Write(k) /\ k.ok
    BY <2>1, <2>2, <2>3 DEF Write
  <2>5. AllCounted(k, drifted)
    BY <1>2, <2>3, <2>4, regproxyCounted
  <2>6. k.now = t.now
    BY <1>2, <2>3, <2>4, regproxyBooks
  <2> QED
    BY <1>4, <2>4, <2>5, <2>6
<1>7. CASE ChangeProducer
  <2>1. PICK p \in Producers : Write([t EXCEPT !.prods[p].is_active = ~t.prods[p].is_active])
    BY <1>1, <1>7 DEF ChangeProducer
  <2>2. PICK active : active = ~t.prods[p].is_active
    OBVIOUS
  <2>3. PICK x : x = [t.prods EXCEPT ![p].is_active = active]
    OBVIOUS
  <2>4. PICK k : k = [t EXCEPT !.prods = x]
    OBVIOUS
  <2>5. Write(k)
    BY <2>1, <2>2, <2>3, <2>4
  <2>6. AllCounted(k, drifted)
    BY <1>2, <2>3, <2>4, ChangedProducerCounted
  <2>7. k.now = t.now
    BY <1>2, <2>4, ProdsSet DEF Frame, TableFields
  <2> QED
    BY <1>4, <2>5, <2>6, <2>7
<1> QED
  BY <1>5, <1>6, <1>7

\* A rounding error is what the total loses,
LEMMA CountedDrift ==
    ASSUME BooksInv, VotesInv, Drift
    PROVE  VotesInv'
<1>1. PICK t : t = Now
  OBVIOUS
<1>2. AllCounted(t, drifted) /\ t.now = now /\ t.total_producer_vote_weight = total_producer_vote_weight /\ IsTables(t)
  BY <1>1, VotesNow DEF StakeTables
<1>3. PICK n : n = -1
  OBVIOUS
<1>4. PICK k : k = [t EXCEPT !.total_producer_vote_weight = n]
  OBVIOUS
<1>5. Write(k) /\ now' = now /\ drifted' = drifted + total_producer_vote_weight + 1
  BY <1>1, <1>3, <1>4 DEF Drift, Call
<1>6. PICK f : f = drifted'
  OBVIOUS
<1>7. f = drifted + t.total_producer_vote_weight - n
  <2>1. drifted \in Int /\ t.total_producer_vote_weight \in Int
    BY <1>2 DEF AllCounted, Counting, Tallied
  <2> QED
    BY <1>2, <1>3, <1>5, <1>6, <2>1
<1>8. AllCounted(k, f)
  <2>1. n \in Int
    BY <1>3
  <2>2. PICK e : e = drifted
    OBVIOUS
  <2>3. AllCounted(t, e) /\ f = e + t.total_producer_vote_weight - n
    BY <1>2, <1>7, <2>2
  <2> QED
    BY <1>4, <2>1, <2>3, DriftedCounted
<1>9. k.now = now
  BY <1>2, <1>4, TotalSet DEF Frame, TableFields
<1> QED
  BY <1>5, <1>6, <1>8, <1>9, VotesWritten

\* and a block takes all of them back when the total has become negative.
LEMMA CountedBlock ==
    ASSUME BooksInv, VotesInv, Block
    PROVE  VotesInv'
<1>1. PICK t : t = Now
  OBVIOUS
<1>2. AllCounted(t, drifted) /\ t.total_producer_vote_weight = total_producer_vote_weight
  BY <1>1, VotesNow
<1>3. PICK j : j = recalculate_votes(t)
  OBVIOUS
<1>4. PICK k : k = IF j.ok THEN j ELSE t
  OBVIOUS
<1>5. PICK f : f = IF j.ok /\ t.total_producer_vote_weight < 0 THEN 0 ELSE drifted
  OBVIOUS
<1>6. Write(k) /\ f = drifted'
  BY <1>1, <1>2, <1>3, <1>4, <1>5 DEF Block
<1>7. AllCounted(k, f)
  <2>1. CASE j.ok
    <3>1. PICK e : e = drifted
      OBVIOUS
    <3>2. AllCounted(j, IF t.total_producer_vote_weight < 0 THEN 0 ELSE e)
      BY <1>2, <1>3, <2>1, <3>1, recalculate_votesCounted
    <3>3. f = IF t.total_producer_vote_weight < 0 THEN 0 ELSE e
      BY <1>5, <2>1, <3>1
    <3> QED
      BY <1>4, <2>1, <3>2, <3>3
  <2>2. CASE ~j.ok
    BY <1>2, <1>4, <1>5, <2>2
  <2> QED
    BY <2>1, <2>2
<1>8. PICK n : n = now'
  OBVIOUS
<1>9. PICK h : h = [k EXCEPT !.now = n]
  OBVIOUS
<1>10. IsTables(k)
  BY <1>7 DEF AllCounted, Counting
<1>11. Now' = h
  <2>1. Now' = [k EXCEPT !.now = n]
    BY <1>6, <1>8, <1>10, Written
  <2> QED
    BY <1>9, <2>1
<1>12. AllCounted(h, f)
  <2>1. Frame(k, h, {"now"})
    BY <1>9, <1>10, SMT DEF IsTables, TableFields, Frame
  <2>2. {"now"} \cap Polled = {}
    BY DEF Polled
  <2> QED
    BY <1>7, <2>1, <2>2, FrameCounted
<1>13. VotesInv' <=> AllCounted(Now', drifted')
  BY DEF VotesInv
<1> QED
  BY <1>6, <1>11, <1>12, <1>13

\* There are no votes at first.
LEMMA CountedFirst ==
    ASSUME Init
    PROVE  VotesInv
<1>1. /\ voters = [a \in Proxies |-> [NewVoter EXCEPT !.is_proxy = TRUE]]
      /\ prods = [p \in Producers |-> [total_votes |-> 0, is_active |-> TRUE]]
      /\ total_producer_vote_weight = 0 /\ drifted = 0
  BY DEF Init
<1>2. BooksInv
  BY InitBooks
<1>3. PICK t : t = Now
  OBVIOUS
<1>4. /\ IsTables(t) /\ VoterTable(t.voters) /\ t.voters = voters /\ t.prods = prods
      /\ t.total_producer_vote_weight = 0
  BY <1>1, <1>2, <1>3, NowTables, BooksNow DEF Books, StakesOK, StakeTables
<1>5. PICK r : r = [NewVoter EXCEPT !.is_proxy = TRUE]
  OBVIOUS
<1>6. DOMAIN voters = Proxies /\ \A a \in DOMAIN voters : voters[a] = r
  BY <1>1, <1>5
<1>7. /\ r.proxy = 0 /\ r.producers = {} /\ r.staked = 0 /\ r.last_stake = 0 /\ r.last_vote_weight = 0
      /\ r.proxied_vote_weight = 0 /\ r.is_proxy = TRUE
  BY <1>5 DEF NewVoter
<1>8. VoterTyped(r) /\ Counted(r) /\ Fresh(r)
  <2>1. {} \subseteq Producers /\ Cardinality({}) = 0 /\ Cardinality({}) <= MAX_VOTE_PRODUCERS
    BY FS_EmptySet, VotingAssumption
  <2>2. VoterTyped(r)
    <3>1. PICK ps : ps = r.producers
      OBVIOUS
    <3>2. ps \subseteq Producers /\ Cardinality(ps) <= MAX_VOTE_PRODUCERS
      BY <1>7, <2>1, <3>1
    <3>3. r.is_proxy \in BOOLEAN
      BY <1>7
    <3>4. /\ r.staked \in Nat /\ r.last_stake \in Nat
          /\ r.last_vote_weight \in Nat /\ r.proxied_vote_weight \in Nat
      BY <1>7
    <3> QED
      BY <1>7, <3>1, <3>2, <3>3, <3>4 DEF VoterTyped
  <2>3. inverse_vote_weight(0, {}) = 0
    BY <2>1, WeightsOf
  <2> QED
    BY <1>7, <2>2, <2>3, NoVoteCounted
<1>9. RowsTyped(voters)
  BY <1>6, <1>7, <1>8 DEF RowsTyped
<1>10. PICK c : c = Cast(voters, DOMAIN voters)
  OBVIOUS
<1>11. DOMAIN c = Proxies /\ \A b \in DOMAIN c : c[b] = NoBallot
  BY <1>6, <1>7, <1>10 DEF Cast, Ballot, NoBallot
<1>12. IsFiniteSet(Proxies) /\ IsFiniteSet(Producers)
  BY ResourcesAssumption, FS_Subset
<1>13. IsCast(c) /\ \A x : SumOf(GivenTo(c, x)) = 0 /\ SumOf(CastFor(c, x)) = 0
  <2>1. IsCast(c)
    BY <1>11, <1>12, NoBallotGives DEF IsCast
  <2>2. ASSUME NEW x PROVE SumOf(GivenTo(c, x)) = 0 /\ SumOf(CastFor(c, x)) = 0
    <3>1. PICK f, g : f = GivenTo(c, x) /\ g = CastFor(c, x)
      OBVIOUS
    <3>2. /\ DOMAIN f = Proxies /\ \A b \in DOMAIN f : f[b] = 0
          /\ DOMAIN g = Proxies /\ \A b \in DOMAIN g : g[b] = 0
      BY <1>11, <3>1, NoBallotGives DEF GivenTo, CastFor
    <3>3. SumOf(f) = 0 /\ SumOf(g) = 0
      BY <1>12, <3>2, SumOfZeros
    <3> QED
      BY <3>1, <3>3
  <2> QED
    BY <2>1, <2>2
<1>14. SumOf(Tally(prods)) = 0
  <2>1. PICK f : f = Tally(prods)
    OBVIOUS
  <2>2. DOMAIN f = Producers /\ \A p \in DOMAIN f : f[p] = 0
    BY <1>1, <2>1 DEF Tally
  <2> QED
    BY <1>12, <2>1, <2>2, SumOfZeros
<1>15. DOMAIN prods = Producers /\ \A p \in Producers : IsProducer(prods[p]) /\ prods[p].total_votes = 0
  BY <1>1 DEF IsProducer
<1>16. Tallied(t, c, drifted)
  <2>1. \A q \in DOMAIN c : t.voters[q].proxied_vote_weight = SumOf(GivenTo(c, q))
    BY <1>4, <1>6, <1>7, <1>11, <1>13
  <2>2. \A p \in Producers : IsProducer(t.prods[p]) /\ t.prods[p].total_votes = SumOf(CastFor(c, p))
    BY <1>4, <1>13, <1>15
  <2>3. /\ t.total_producer_vote_weight \in Int /\ drifted \in Int
        /\ SumOf(Tally(t.prods)) = t.total_producer_vote_weight + drifted
    BY <1>1, <1>4, <1>14
  <2>4. DOMAIN t.prods = Producers
    BY <1>4, <1>15
  <2> QED
    BY <1>13, <2>1, <2>2, <2>3, <2>4 DEF Tallied
<1>17. Counting(t, DOMAIN voters, DOMAIN voters, drifted)
  BY <1>4, <1>6, <1>7, <1>8, <1>9, <1>10, <1>16 DEF Counting
<1> QED
  BY <1>3, <1>4, <1>17 DEF VotesInv, AllCounted

\* A step that changes nothing.
LEMMA CountedStill ==
    ASSUME VotesInv, UNCHANGED vars
    PROVE  VotesInv'
<1>1. UNCHANGED <<tables, now, drifted>>
  BY DEF vars
<1>2. Now' = Now
  BY <1>1 DEF Now, tables
<1>3. VotesInv' <=> AllCounted(Now', drifted')
  BY DEF VotesInv
<1>4. PICK n, e : n = Now /\ e = drifted
  OBVIOUS
<1>5. AllCounted(n, e) /\ n = Now' /\ e = drifted'
  BY <1>1, <1>2, <1>4 DEF VotesInv
<1> QED
  BY <1>3, <1>5

\* All votes are counted after every step, and so in every state.
LEMMA VotesAlways == Spec => [](BooksInv /\ VotesInv)
<1>1. Init => BooksInv /\ VotesInv
  BY InitBooks, CountedFirst
<1>2. BooksInv /\ VotesInv /\ [Next]_vars => (BooksInv /\ VotesInv)'
  <2> SUFFICES ASSUME BooksInv, VotesInv, [Next]_vars PROVE BooksInv' /\ VotesInv'
    OBVIOUS
  <2>1. BooksInv'
    BY NextBooks
  <2>2. CASE UNCHANGED vars
    BY <2>1, <2>2, CountedStill
  <2>3. CASE Next
    BY <2>1, <2>3, CountedNow, CountedBeside, CountedVote, CountedDrift, CountedBlock DEF Next
  <2> QED
    BY <2>2, <2>3
<1> QED
  BY <1>1, <1>2, PTL DEF Spec

-----------------------------------------------------------------------------
(* The properties of votes                                                 *)

\* A sum in which only some rows count is the sum over those.
LEMMA SumOfSome ==
    ASSUME NEW S, IsFiniteSet(S), NEW T, T \subseteq S, NEW f, \A x \in T : f[x] \in Int,
           NEW g, \A x \in S : g[x] = IF x \in T THEN f[x] ELSE 0
    PROVE  SumOver(g, S) = SumOver(f, T)
<1>1. PICK R : R = S \ T
  OBVIOUS
<1>2. IsFiniteSet(T) /\ IsFiniteSet(R) /\ T \cap R = {} /\ T \cup R = S
  BY <1>1, FS_Subset
<1>3. \A x \in T \cup R : g[x] \in Int
  BY <1>2
<1>4. SumOver(g, T \cup R) = SumOver(g, T) + SumOver(g, R)
  BY <1>2, <1>3, SumUnion
<1>5. SumOver(g, T) = SumOver(f, T)
  <2>1. \A x \in T : g[x] = f[x]
    OBVIOUS
  <2> QED
    BY <1>2, <2>1, SumAgrees
<1>6. SumOver(g, R) = 0
  <2>1. IsEven(g, 0, R)
    BY <1>1 DEF IsEven
  <2>2. SumOver(g, R) = 0 * Cardinality(R) /\ Cardinality(R) \in Int
    BY <1>2, <2>1, SumConstant, FS_CardinalityType
  <2> QED
    BY <2>2
<1>7. SumOver(f, T) \in Int
  BY <1>2, SumInt
<1>8. SumOver(g, T \cup R) = SumOver(f, T)
  BY <1>4, <1>5, <1>6, <1>7
<1> QED
  BY <1>2, <1>8

\* What is known of the votes of a state.
LEMMA VotesKnown ==
    ASSUME BooksInv, VotesInv, NEW c, c = Cast(voters, DOMAIN voters)
    PROVE  /\ Tallied(Now, c, drifted) /\ RowsTyped(voters) /\ IsFiniteSet(DOMAIN voters)
           /\ \A b \in DOMAIN voters : Counted(voters[b]) /\ Fresh(voters[b])
           /\ DOMAIN c = DOMAIN voters /\ \A b \in DOMAIN voters : c[b] = Ballot(voters[b])
<1>1. PICK t : t = Now
  OBVIOUS
<1>2. AllCounted(t, drifted) /\ t.voters = voters
  BY <1>1, VotesNow
<1>3. Tallied(t, c, drifted) /\ RowsTyped(voters) /\ \A b \in DOMAIN voters : Counted(voters[b]) /\ Fresh(voters[b])
  BY <1>2 DEF AllCounted, Counting
<1>4. DOMAIN c = DOMAIN voters /\ \A b \in DOMAIN voters : c[b] = Ballot(voters[b])
  BY DEF Cast
<1>5. IsFiniteSet(DOMAIN voters)
  BY <1>3, <1>4 DEF Tallied, IsCast
<1> QED
  BY <1>1, <1>3, <1>4, <1>5

\* The votes of a producer are the weights of those who vote for it, and their
\* total is right but for rounding errors: through every change of votes,
\* proxies and stakes, and every recount, in whatever order (update_votes,
\* propagate_weight_change, update_voting_power, recalculate_votes).
THEOREM VotesDoAddUp == Spec => []VotesAddUp
<1>1. BooksInv /\ VotesInv => VotesAddUp
  <2> SUFFICES ASSUME BooksInv, VotesInv PROVE VotesAddUp
    OBVIOUS
  <2>1. PICK c : c = Cast(voters, DOMAIN voters)
    OBVIOUS
  <2>2. PICK w : w = [a \in DOMAIN voters |-> voters[a].last_vote_weight]
    OBVIOUS
  <2>3. /\ Tallied(Now, c, drifted) /\ RowsTyped(voters) /\ IsFiniteSet(DOMAIN voters)
        /\ DOMAIN c = DOMAIN voters /\ \A b \in DOMAIN voters : c[b] = Ballot(voters[b])
    BY <2>1, VotesKnown
  <2>4. /\ \A p \in Producers : prods[p].total_votes = SumOf(CastFor(c, p))
        /\ SumOf(Tally(prods)) = total_producer_vote_weight + drifted
        /\ DOMAIN prods = Producers
    BY <2>3, NowTables DEF Tallied
  <2>5. ASSUME NEW p \in Producers
        PROVE  prods[p].total_votes = SumOver(w, {a \in DOMAIN voters : p \in voters[a].producers})
    <3>1. PICK T : T = {a \in DOMAIN voters : p \in voters[a].producers}
      OBVIOUS
    <3>2. PICK g : g = CastFor(c, p)
      OBVIOUS
    <3>3. DOMAIN g = DOMAIN voters /\ \A x \in DOMAIN voters : g[x] = VoteFor(Ballot(voters[x]), p)
      BY <2>3, <3>2 DEF CastFor
    <3>4. \A x \in DOMAIN voters : g[x] = IF x \in T THEN w[x] ELSE 0
      BY <2>2, <3>1, <3>3 DEF VoteFor, Ballot
    <3>5. \A x \in T : w[x] \in Int
      BY <2>2, <2>3, <3>1 DEF RowsTyped, VoterTyped
    <3>6. SumOver(g, DOMAIN voters) = SumOver(w, T)
      <4>1. T \subseteq DOMAIN voters
        BY <3>1
      <4> QED
        BY <2>3, <3>4, <3>5, <4>1, SumOfSome
    <3> QED
      BY <2>4, <3>1, <3>2, <3>3, <3>6 DEF SumOf
  <2>6. [p \in Producers |-> prods[p].total_votes] = Tally(prods)
    BY <2>4 DEF Tally
  <2> QED
    BY <2>2, <2>4, <2>5, <2>6 DEF VotesAddUp
<1> QED
  BY <1>1, VotesAlways, PTL

\* A vote weighs what its voter has staked now, and a proxy's what its clients
\* have, too, unless the proxy has no stake of its own
\* (update_voting_power, propagate_weight_change).
THEOREM VotesDoFollowStakes == Spec => []VotesFollowStakes
<1>1. BooksInv /\ VotesInv => VotesFollowStakes
  <2> SUFFICES ASSUME BooksInv, VotesInv, NEW a \in DOMAIN voters, NEW v, v = voters[a]
               PROVE  /\ ~v.is_proxy \/ v.staked > 0 =>
                           v.last_vote_weight = inverse_vote_weight(TotalStaked(v), v.producers)
                      /\ v.is_proxy => v.proxied_vote_weight
                                         = SumOver([c \in DOMAIN voters |-> voters[c].staked],
                                                   {c \in DOMAIN voters : voters[c].proxy = a})
    BY DEF VotesFollowStakes
  <2>1. PICK c : c = Cast(voters, DOMAIN voters)
    OBVIOUS
  <2>2. /\ Tallied(Now, c, drifted) /\ RowsTyped(voters) /\ IsFiniteSet(DOMAIN voters)
        /\ \A b \in DOMAIN voters : Counted(voters[b]) /\ Fresh(voters[b])
        /\ DOMAIN c = DOMAIN voters /\ \A b \in DOMAIN voters : c[b] = Ballot(voters[b])
    BY <2>1, VotesKnown
  <2>3. VoterTyped(v) /\ Counted(v) /\ Fresh(v)
    BY <2>2 DEF RowsTyped
  <2>4. ASSUME ~v.is_proxy
        PROVE  v.last_vote_weight = inverse_vote_weight(TotalStaked(v), v.producers)
    <3>1. TotalStaked(v) = v.staked
      BY <2>3, <2>4 DEF TotalStaked, VoterTyped
    <3>2. CASE v.producers = {}
      <4>1. PICK ps, n, m : ps = v.producers /\ n = v.last_stake /\ m = v.staked
        OBVIOUS
      <4>2. ps \subseteq Producers /\ Cardinality(ps) <= MAX_VOTE_PRODUCERS /\ ps = {} /\ n \in Nat /\ m \in Nat
        BY <2>3, <3>2, <4>1 DEF VoterTyped
      <4>3. inverse_vote_weight(n, ps) = 0 /\ inverse_vote_weight(m, ps) = 0
        BY <4>2, WeightsOf
      <4> QED
        BY <2>3, <3>1, <4>1, <4>3 DEF Counted
    <3>3. CASE v.producers # {}
      BY <2>3, <2>4, <3>1, <3>3 DEF Counted
    <3> QED
      BY <3>2, <3>3
  <2>5. ASSUME v.is_proxy, v.staked > 0
        PROVE  v.last_vote_weight = inverse_vote_weight(TotalStaked(v), v.producers)
    BY <2>3, <2>5 DEF Fresh
  <2>6. v.proxied_vote_weight = SumOver([b \in DOMAIN voters |-> voters[b].staked],
                                        {b \in DOMAIN voters : voters[b].proxy = a})
    <3>1. PICK T : T = {b \in DOMAIN voters : voters[b].proxy = a}
      OBVIOUS
    <3>2. PICK f : f = [b \in DOMAIN voters |-> voters[b].staked]
      OBVIOUS
    <3>3. PICK g : g = GivenTo(c, a)
      OBVIOUS
    <3>4. DOMAIN g = DOMAIN voters /\ \A x \in DOMAIN voters : g[x] = Given(Ballot(voters[x]), a)
      BY <2>2, <3>3 DEF GivenTo
    <3>5. a # 0
      BY ResourcesAssumption, BooksNow DEF Books, StakesOK, StakeTables, VoterTable
    <3>6. \A x \in DOMAIN voters : g[x] = IF x \in T THEN f[x] ELSE 0
      <4> SUFFICES ASSUME NEW x \in DOMAIN voters PROVE g[x] = IF x \in T THEN f[x] ELSE 0
        OBVIOUS
      <4>1. Counted(voters[x])
        BY <2>2
      <4>2. voters[x].proxy = a => voters[x].last_stake = voters[x].staked
        BY <3>5, <4>1 DEF Counted
      <4> QED
        BY <3>1, <3>2, <3>4, <4>2 DEF Given, Ballot
    <3>7. \A x \in T : f[x] \in Int
      BY <2>2, <3>1, <3>2 DEF RowsTyped, VoterTyped
    <3>8. SumOver(g, DOMAIN voters) = SumOver(f, T)
      <4>1. T \subseteq DOMAIN voters
        BY <3>1
      <4> QED
        BY <2>2, <3>6, <3>7, <4>1, SumOfSome
    <3>9. v.proxied_vote_weight = SumOf(g)
      <4>1. Now.voters = voters
        BY NowTables
      <4> QED
        BY <2>2, <3>3, <4>1 DEF Tallied
    <3> QED
      BY <3>1, <3>2, <3>4, <3>8, <3>9 DEF SumOf
  <2> QED
    BY <2>4, <2>5, <2>6
<1> QED
  BY <1>1, VotesAlways, PTL

\* Time goes by up to its bound.
LEMMA TimeBounded == Spec => [](now \in 0..MaxTime)
<1>0. MaxTime \in Nat
  BY ResourcesAssumption
<1>1. Init => now \in 0..MaxTime
  BY <1>0 DEF Init
<1>2. now \in 0..MaxTime /\ [Next]_vars => (now \in 0..MaxTime)'
  <2> SUFFICES ASSUME now \in 0..MaxTime, [Next]_vars PROVE now' \in 0..MaxTime
    OBVIOUS
  <2>1. CASE UNCHANGED vars
    BY <2>1 DEF vars
  <2>2. CASE Block
    BY <1>0, <2>2 DEF Block
  <2>3. CASE Stake \/ Unstake \/ ClaimRefund \/ BuyRam \/ SellRam \/ SetLimits \/ SetRam
             \/ Vote \/ ResignProxy \/ ChangeProducer \/ RunDeferred \/ Drift
    <3>1. now' = now
      BY <2>3 DEF Stake, Unstake, ClaimRefund, BuyRam, SellRam, SetLimits, SetRam,
         Vote, ResignProxy, ChangeProducer, RunDeferred, Drift, Call
    <3> QED
      BY <3>1
  <2> QED
    BY <2>1, <2>2, <2>3 DEF Next
<1> QED
  BY <1>1, <1>2, PTL DEF Spec

\* The rows of the tables are those the contract may write: no balance, stake,
\* amount of RAM, refund or vote is negative, rows of nothing are erased, and
\* who votes by proxy votes for nobody and is none (changebw, update_votes).
THEOREM ResourcesTypeCorrect == Spec => []TypeOK
<1>1. BooksInv /\ VotesInv /\ now \in 0..MaxTime => TypeOK
  <2> SUFFICES ASSUME BooksInv, VotesInv, now \in 0..MaxTime PROVE TypeOK
    OBVIOUS
  <2>1. PICK t : t = Now
    OBVIOUS
  <2>2. /\ t.ledger = ledger /\ t.delband = delband /\ t.userres = userres /\ t.refunds = refunds
        /\ t.deferred = deferred /\ t.voters = voters /\ t.prods = prods /\ t.now = now
    BY <2>1, NowTables
  <2>3. StakeTables(t) /\ RefundsOK(t, unstaked)
    BY <2>1, BooksNow DEF Books, StakesOK
  <2>4. /\ Funded(ledger) /\ StakeRows(delband) /\ OwnRows(userres) /\ RefundRows(refunds) /\ VoterTable(voters)
    BY <2>2, <2>3 DEF StakeTables
  <2>5. PICK c : c = Cast(voters, DOMAIN voters)
    OBVIOUS
  <2>6. Tallied(Now, c, drifted) /\ RowsTyped(voters)
    BY <2>5, VotesKnown
  <2>7. \A a \in DOMAIN ledger : ledger[a] \in Nat
    BY <2>4 DEF Funded, IsTable, NoDebts
  <2>8. /\ DOMAIN delband \subseteq Users \X Users
        /\ \A k \in DOMAIN delband : delband[k] \in WeightRows \ {NoWeights}
    BY <2>4 DEF StakeRows
  <2>9. /\ DOMAIN userres \subseteq Users
        /\ \A a \in DOMAIN userres : userres[a] \in [weights : WeightRows, ram : Nat]
    BY <2>4 DEF OwnRows, OwnRow
  <2>10. /\ DOMAIN refunds \subseteq Users
         /\ \A a \in DOMAIN refunds :
              refunds[a].request_time \in 0..now /\ refunds[a].weights \in WeightRows \ {NoWeights}
    <3>1. DOMAIN refunds \subseteq Users
          /\ \A a \in DOMAIN refunds : refunds[a] \in RefundRow /\ refunds[a].weights # NoWeights
      BY <2>4 DEF RefundRows
    <3>2. \A a \in DOMAIN refunds : refunds[a].request_time <= now
      BY <2>2, <2>3 DEF RefundsOK
    <3> QED
      BY <3>1, <3>2 DEF RefundRow
  <2>11. \A a \in DOMAIN deferred : deferred[a] \in 0..MaxTime + refund_delay
    <3> SUFFICES ASSUME NEW a \in DOMAIN deferred PROVE deferred[a] \in 0..MaxTime + refund_delay
      OBVIOUS
    <3>1. deferred[a] \in Nat /\ deferred[a] <= now + refund_delay
      BY <2>2, <2>3 DEF RefundsOK
    <3>2. MaxTime \in Nat /\ refund_delay \in Nat
      BY ResourcesAssumption, StakingAssumption
    <3> QED
      BY <3>1, <3>2
  <2>12. \A p \in Producers : prods[p].total_votes \in Nat
    <3>1. \A p \in Producers : prods[p].total_votes = SumOf(CastFor(c, p))
      BY <2>6, NowTables DEF Tallied
    <3>2. IsCast(c)
      BY <2>6 DEF Tallied
    <3> QED
      BY <3>1, <3>2, CastColumns
  <2>13. \A a \in DOMAIN voters :
           /\ voters[a].producers \subseteq Producers
           /\ {voters[a].staked, voters[a].last_stake, voters[a].last_vote_weight,
               voters[a].proxied_vote_weight} \subseteq Nat
           /\ voters[a].proxy # 0 => voters[a].producers = {} /\ ~voters[a].is_proxy
    BY <2>6 DEF RowsTyped, VoterTyped
  <2> QED
    BY <2>7, <2>8, <2>9, <2>10, <2>11, <2>12, <2>13 DEF TypeOK
<1> QED
  BY <1>1, VotesAlways, TimeBounded, PTL

=============================================================================
