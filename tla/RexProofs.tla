----------------------------- MODULE RexProofs -----------------------------
(***************************************************************************)
(* The proofs that the actions of the resource exchange keep its tables    *)
(* sound: what eosio.rex owes, the REX in circulation, the loans and the   *)
(* queue, and the value of REX.  For every helper of rex.cpp there is what *)
(* it leaves alone (Frame), and that sound tables stay sound (Sound); then *)
(* the actions follow.  Tables are sound, TablesOK(t, gap, D, c), if       *)
(*   - REX, loans and limits add up, and orders are covered and in time,   *)
(*   - eosio.rex holds what it owes and the gap, tokens that the code has  *)
(*     moved to or from it and not yet entered, or the other way around,   *)
(*   - limits are what D delegates and the loans stake,                    *)
(*   - REX is worth no less than in c, the start of the transaction, and   *)
(*     eosio.names has lost what was struck off since.                     *)
(* A helper moves the gap and D by what it does, and a whole action leaves *)
(* the gap at 0.  Tables of a transaction that aborts may be anything.     *)
(***************************************************************************)
EXTENDS Rex, RexPoolProofs, LedgerProofs, SequenceTheorems

TableFields == {"ok", "now", "ledger", "pool", "namebid_proceeds", "loan_num", "funds",
                "bal", "orders", "loans", "staked", "limits"}
IsTables(t) == t = [x \in TableFields |-> t[x]] /\ t.ok \in BOOLEAN

RowFields == {"vote_stake", "rex_balance", "matured", "maturities"}
IsRow(b) ==
    /\ b = [x \in RowFields |-> b[x]]
    /\ b.vote_stake \in Nat /\ b.rex_balance \in Nat /\ b.matured \in Nat
    /\ b.maturities \in Seq(Bucket)

\* The REX of a row adds up to an amount.
Holds(b, amount) == IsRow(b) /\ b.matured + InBuckets(b.maturities) = amount

\* The columns of the tables that are summed.
RexOf(bal) == [o \in DOMAIN bal |-> bal[o].rex_balance]
StakedOf(loans) == [n \in DOMAIN loans |-> loans[n].total_staked]
BalancesOf(loans) == [n \in DOMAIN loans |-> loans[n].balance]
StakedTo(loans, r, k) ==
    [n \in {m \in DOMAIN loans : loans[m].kind = k /\ loans[m].receiver = r}
       |-> loans[n].total_staked]
ProceedsOf(orders) ==
    [o \in {p \in DOMAIN orders : ~orders[p].is_open} |-> orders[o].proceeds]

\* Buckets in the order of their times, which are in S.
Sorted(q, S) ==
    /\ \A i, j \in 1..Len(q) : i < j => q[i].time < q[j].time
    /\ \A i \in 1..Len(q) : q[i].time \in S

\* The time at which REX bought by the clock matures, and the order of buckets
\* then, savings at the end.
MaturityOf(clock) ==
    clock - (clock % seconds_per_day) + num_of_maturity_buckets * seconds_per_day
InOrder(q, m) == Sorted(q, 0..m \cup {end_of_days})

\* Buckets q instead of p hold as much REX until any time ahead, and v more.
LockRaised(p, q, clock, v) ==
    MaturityOf(clock) < end_of_days /\ InOrder(p, MaturityOf(clock)) =>
      /\ InOrder(q, MaturityOf(clock))
      /\ \A time \in Nat : clock < time /\ time <= MaturityOf(clock) =>
           LockedIn(p, time) + v <= LockedIn(q, time)

\* The REX an owner has in the rows bal, and what of it is locked until the time.
HoldOf(bal, o) == IF o \in DOMAIN bal THEN bal[o].rex_balance ELSE 0
LockOf(bal, o, time) == IF o \in DOMAIN bal THEN LockedIn(bal[o].maturities, time) ELSE 0

PoolSince(pool, c) ==
    /\ PoolOK(pool) /\ PoolOK(c.pool)
    /\ ValueKept(c.pool, pool)
    /\ rex_available(pool) => rex_available(c.pool)

BalOK(bal, total_rex) ==
    /\ DOMAIN bal \subseteq Owners
    /\ bal = [o \in DOMAIN bal |-> bal[o]]
    /\ \A o \in DOMAIN bal : Holds(bal[o], bal[o].rex_balance)
    /\ total_rex = SumOf(RexOf(bal))

\* Until savings are no longer the last bucket: buckets are in order, and an
\* owner has as much locked as in c, and what it has more is locked too.
LocksOK(bal, clock, c) ==
    /\ \A o : HoldOf(c.bal, o) \in Nat /\ \A time : LockOf(c.bal, o, time) \in Nat
    /\ MaturityOf(clock) < end_of_days =>
         /\ \A o \in DOMAIN bal : InOrder(bal[o].maturities, MaturityOf(clock))
         /\ \A o, time : time \in Nat /\ clock < time /\ time <= MaturityOf(clock) =>
              /\ LockOf(c.bal, o, time) <= LockOf(bal, o, time)
              /\ LockOf(c.bal, o, time) + HoldOf(bal, o)
                   <= LockOf(bal, o, time) + HoldOf(c.bal, o)

OrdersOK(orders, bal) ==
    /\ DOMAIN orders \subseteq Owners
    /\ orders = [o \in DOMAIN orders |-> orders[o]]
    /\ \A o \in DOMAIN orders :
         /\ orders[o] \in Order
         /\ orders[o].is_open =>
              /\ o \in DOMAIN bal
              /\ 0 < orders[o].rex_requested /\ orders[o].rex_requested <= bal[o].matured

LoansOK(loans, num, clock, total_lent) ==
    /\ num \in Nat /\ clock \in Nat
    /\ DOMAIN loans \subseteq 1..num
    /\ loans = [n \in DOMAIN loans |-> loans[n]]
    /\ \A n \in DOMAIN loans :
         /\ loans[n] \in Loan /\ loans[n].payment > 0 /\ loans[n].total_staked > 0
         /\ loans[n].expiration <= clock + loan_term
    /\ total_lent = SumOf(StakedOf(loans))

QueueOK(orders, loans) ==
    \A o \in DOMAIN orders, n \in DOMAIN loans :
      orders[o].is_open => loans[n].expiration <= orders[o].order_time + loan_term

\* Who may have a row, and that it is not below zero.
Accounts == Owners \cup {rex_account, names_account, stake_account, Others}
Unowed(f, S) == DOMAIN f \subseteq S /\ NoDebts(f)

MoneyOK(accounts, total_lendable, funds, loans, orders, gap) ==
    /\ IsTable(accounts) /\ IsTable(funds)
    /\ Unowed(accounts, Accounts) /\ Unowed(funds, Owners)
    /\ BalanceOf(accounts, rex_account) =
         total_lendable + SumOf(funds) + SumOf(BalancesOf(loans)) + SumOf(ProceedsOf(orders)) + gap

NamesOK(accounts, unspent, pool, c) ==
    /\ unspent \in Nat
    /\ unspent > 0 => rex_available(pool)
    /\ BalanceOf(accounts, names_account) = unspent + c.names

LimitsOK(caps, loans, D) ==
    /\ caps \in [Owners -> [Kinds -> Int]]
    /\ D \in [Owners -> [Kinds -> Int]]
    /\ \A r \in Owners, k \in Kinds : caps[r][k] = D[r][k] + SumOf(StakedTo(loans, r, k))

TablesOK(t, gap, D, c) ==
    /\ t.now = c.now /\ c.names \in Int
    /\ PoolSince(t.pool, c)
    /\ BalOK(t.bal, t.pool.total_rex)
    /\ LocksOK(t.bal, t.now, c)
    /\ OrdersOK(t.orders, t.bal)
    /\ LoansOK(t.loans, t.loan_num, t.now, t.pool.total_lent)
    /\ QueueOK(t.orders, t.loans)
    /\ MoneyOK(t.ledger, t.pool.total_lendable, t.funds, t.loans, t.orders, gap)
    /\ NamesOK(t.ledger, t.namebid_proceeds, t.pool, c)
    /\ LimitsOK(t.limits, t.loans, D)
    /\ t.staked \in [Owners -> Int]

Sound(t, gap, D, c) == IsTables(t) /\ (t.ok => TablesOK(t, gap, D, c))

-----------------------------------------------------------------------------
(* The columns of a table that a row is put into, or taken out of           *)

\* A row of a table that is there may be put in either way.
LEMMA SameRow ==
    ASSUME NEW f, f = [x \in DOMAIN f |-> f[x]], NEW a \in DOMAIN f, NEW row
    PROVE  [f EXCEPT ![a] = row] = Put(f, a, row)
BY DEF Put

\* The REX column of rexbal: it can be summed, and no row exceeds the sum.
LEMMA BalRows ==
    ASSUME NEW bal, NEW total, BalOK(bal, total)
    PROVE  /\ IsTable(RexOf(bal)) /\ total \in Int
           /\ \A o \in DOMAIN bal :
                /\ IsRow(bal[o]) /\ RexOf(bal)[o] = bal[o].rex_balance
                /\ BalanceOf(RexOf(bal), o) = bal[o].rex_balance
                /\ bal[o].rex_balance <= total
<1>1. \A o \in DOMAIN bal : IsRow(bal[o])
  BY DEF BalOK, Holds
<1>2. /\ DOMAIN RexOf(bal) = DOMAIN bal
      /\ \A o \in DOMAIN bal : RexOf(bal)[o] = bal[o].rex_balance /\ bal[o].rex_balance \in Nat
  BY <1>1 DEF RexOf, IsRow
<1>3. IsTable(RexOf(bal))
  <2>1. IsFiniteSet(DOMAIN bal)
    BY RexTablesAssumption, FS_Subset DEF BalOK
  <2> QED
    BY <1>2, <2>1 DEF IsTable, RexOf
<1>4. total = SumOf(RexOf(bal)) /\ total \in Int
  BY <1>3, BalanceInt DEF BalOK
<1>5. \A o \in DOMAIN RexOf(bal) : RexOf(bal)[o] >= 0
  BY <1>2
<1>6. \A o \in DOMAIN RexOf(bal) : RexOf(bal)[o] <= SumOf(RexOf(bal))
  BY <1>3, <1>5, RowAtMostSum
<1> QED
  BY <1>1, <1>2, <1>3, <1>4, <1>6 DEF BalanceOf

\* A row of rexbal that is written, and what it does to the total of REX.
LEMMA BalPut ==
    ASSUME NEW bal, NEW total, BalOK(bal, total), NEW o \in Owners,
           NEW b, Holds(b, b.rex_balance)
    PROVE  BalOK(Put(bal, o, b), total - BalanceOf(RexOf(bal), o) + b.rex_balance)
<1> DEFINE h == Put(bal, o, b)
<1>1. /\ DOMAIN h = DOMAIN bal \cup {o} /\ h[o] = b
      /\ \A p \in DOMAIN bal \ {o} : h[p] = bal[p]
      /\ h = [p \in DOMAIN h |-> h[p]]
  BY DEF Put
<1>2. RexOf(h) = Put(RexOf(bal), o, b.rex_balance)
  BY DEF Put, RexOf
<1> HIDE DEF h
<1>3. b.rex_balance \in Int
  BY DEF Holds, IsRow
<1>4. SumOf(RexOf(h)) = total - BalanceOf(RexOf(bal), o) + b.rex_balance
  BY <1>2, <1>3, BalRows, PutHeld DEF BalOK
<1> QED
  BY <1>1, <1>4 DEF h, BalOK

\* A row of rexbal that is erased.
LEMMA BalErase ==
    ASSUME NEW bal, NEW total, BalOK(bal, total), NEW o,
           o \in DOMAIN bal => bal[o].rex_balance = 0
    PROVE  BalOK(Erase(bal, o), total)
<1> DEFINE h == Erase(bal, o)
<1>1. /\ DOMAIN h = DOMAIN bal \ {o}
      /\ \A p \in DOMAIN h : h[p] = bal[p]
      /\ h = [p \in DOMAIN h |-> h[p]]
  BY DEF Erase
<1>2. RexOf(h) = Erase(RexOf(bal), o)
  BY DEF Erase, RexOf
<1> HIDE DEF h
<1>3. IsTable(RexOf(bal)) /\ BalanceOf(RexOf(bal), o) = 0 /\ total \in Int
  <2>1. DOMAIN RexOf(bal) = DOMAIN bal
    BY DEF RexOf
  <2> QED
    BY <2>1, BalRows DEF BalanceOf
<1>4. SumOf(RexOf(h)) = total
  BY <1>2, <1>3, EraseHeld DEF BalOK
<1> QED
  BY <1>1, <1>4 DEF h, BalOK

\* The rows of loans, apart from their sums.
LoanRows(loans, num, clock) ==
    /\ num \in Nat /\ clock \in Nat
    /\ DOMAIN loans \subseteq 1..num
    /\ loans = [n \in DOMAIN loans |-> loans[n]]
    /\ \A n \in DOMAIN loans :
         /\ loans[n] \in Loan /\ loans[n].payment > 0 /\ loans[n].total_staked > 0
         /\ loans[n].expiration <= clock + loan_term

\* The columns of the loans that are summed, and what they hold in a row.
LEMMA LoanColumns ==
    ASSUME NEW loans, NEW num, NEW clock, LoanRows(loans, num, clock)
    PROVE  /\ IsTable(StakedOf(loans)) /\ IsTable(BalancesOf(loans))
           /\ \A r, k : IsTable(StakedTo(loans, r, k))
           /\ \A n \in DOMAIN loans :
                /\ BalanceOf(StakedOf(loans), n) = loans[n].total_staked
                /\ BalanceOf(BalancesOf(loans), n) = loans[n].balance
                /\ loans[n].total_staked <= SumOf(StakedOf(loans))
                /\ \A r, k : BalanceOf(StakedTo(loans, r, k), n) =
                     IF loans[n].kind = k /\ loans[n].receiver = r
                     THEN loans[n].total_staked ELSE 0
           /\ \A n : n \notin DOMAIN loans =>
                /\ BalanceOf(StakedOf(loans), n) = 0
                /\ BalanceOf(BalancesOf(loans), n) = 0
                /\ \A r, k : BalanceOf(StakedTo(loans, r, k), n) = 0
<1>1. IsFiniteSet(DOMAIN loans)
  <2>1. IsFiniteSet(1..num)
    BY FS_Interval DEF LoanRows
  <2> QED
    BY <2>1, FS_Subset DEF LoanRows
<1>2. \A n \in DOMAIN loans : loans[n].total_staked \in Nat /\ loans[n].balance \in Nat
  BY DEF LoanRows, Loan
<1>3. IsTable(StakedOf(loans))
  BY <1>1, <1>2 DEF IsTable, StakedOf
<1>4. IsTable(BalancesOf(loans))
  BY <1>1, <1>2 DEF IsTable, BalancesOf
<1>5. ASSUME NEW r, NEW k PROVE IsTable(StakedTo(loans, r, k))
  <2> DEFINE S == {m \in DOMAIN loans : loans[m].kind = k /\ loans[m].receiver = r}
  <2>1. IsFiniteSet(S)
    BY <1>1, FS_Subset
  <2>2. DOMAIN StakedTo(loans, r, k) = S
    BY DEF StakedTo
  <2> QED
    BY <1>2, <2>1, <2>2 DEF IsTable, StakedTo
<1>6. ASSUME NEW n \in DOMAIN loans PROVE loans[n].total_staked <= SumOf(StakedOf(loans))
  <2>1. DOMAIN StakedOf(loans) = DOMAIN loans /\ StakedOf(loans)[n] = loans[n].total_staked
    BY DEF StakedOf
  <2>2. \A m \in DOMAIN StakedOf(loans) : StakedOf(loans)[m] >= 0
    BY <1>2 DEF StakedOf
  <2> QED
    BY <1>3, <2>1, <2>2, RowAtMostSum
<1>7. ASSUME NEW n \in DOMAIN loans
      PROVE  /\ BalanceOf(StakedOf(loans), n) = loans[n].total_staked
             /\ BalanceOf(BalancesOf(loans), n) = loans[n].balance
             /\ \A r, k : BalanceOf(StakedTo(loans, r, k), n) =
                  IF loans[n].kind = k /\ loans[n].receiver = r
                  THEN loans[n].total_staked ELSE 0
  BY DEF BalanceOf, StakedOf, BalancesOf, StakedTo
<1>8. ASSUME NEW n, n \notin DOMAIN loans
      PROVE  /\ BalanceOf(StakedOf(loans), n) = 0
             /\ BalanceOf(BalancesOf(loans), n) = 0
             /\ \A r, k : BalanceOf(StakedTo(loans, r, k), n) = 0
  BY <1>8 DEF BalanceOf, StakedOf, BalancesOf, StakedTo
<1> QED
  BY <1>3, <1>4, <1>5, <1>6, <1>7, <1>8

\* Delegated stakes, by receiver and kind, of which one has changed.
Shift(D, r, k, v) == [D EXCEPT ![r][k] = @ + v]
IsDelegated(D) == D \in [Owners -> [Kinds -> Int]]

\* A shift that is taken back.
LEMMA ShiftBack ==
    ASSUME NEW D, IsDelegated(D), NEW r \in Owners, NEW k \in Kinds, NEW v \in Int, NEW w \in Int,
           v + w = 0
    PROVE  Shift(Shift(D, r, k, v), r, k, w) = D
<1> DEFINE E == [D[r] EXCEPT ![k] = D[r][k] + v]
<1>1. D[r] \in [Kinds -> Int] /\ D[r][k] \in Int /\ (D[r][k] + v) + w = D[r][k]
  BY DEF IsDelegated
<1>2. Shift(D, r, k, v) = [D EXCEPT ![r] = E]
  BY DEF Shift
<1>3. E \in [Kinds -> Int] /\ E[k] = D[r][k] + v /\ \A j \in Kinds \ {k} : E[j] = D[r][j]
  BY <1>1
<1> HIDE DEF E
<1>4. [E EXCEPT ![k] = E[k] + w] = D[r]
  BY <1>1, <1>3
<1>5. Shift(Shift(D, r, k, v), r, k, w) = [[D EXCEPT ![r] = E] EXCEPT ![r] = [E EXCEPT ![k] = E[k] + w]]
  BY <1>2 DEF Shift, IsDelegated
<1> QED
  BY <1>4, <1>5 DEF IsDelegated

\* A shift changes one receiver in one kind.
LEMMA ShiftType ==
    ASSUME NEW D, IsDelegated(D), NEW r \in Owners, NEW k \in Kinds, NEW v \in Int
    PROVE  /\ IsDelegated(Shift(D, r, k, v))
           /\ \A q \in Owners, j \in Kinds :
                Shift(D, r, k, v)[q][j] = IF q = r /\ j = k THEN D[q][j] + v ELSE D[q][j]
BY SMT DEF Shift, IsDelegated

\* What a loan is to be: stake is what it adds to what is lent.
LoanRow(loan, clock) ==
    /\ loan \in Loan /\ loan.payment > 0 /\ loan.total_staked > 0
    /\ loan.expiration <= clock + loan_term

\* A loan that is made, or that changes but for its kind and receiver.
LEMMA LoanPut ==
    ASSUME NEW loans, NEW num, NEW clock, NEW lent, LoansOK(loans, num, clock, lent),
           NEW caps, NEW D, LimitsOK(caps, loans, D),
           NEW n, NEW next \in Nat, n \in 1..next, num <= next, NEW loan, LoanRow(loan, clock),
           n \in DOMAIN loans => loans[n].kind = loan.kind /\ loans[n].receiver = loan.receiver,
           NEW stake \in Int, stake = loan.total_staked - BalanceOf(StakedOf(loans), n)
    PROVE  /\ LoansOK(Put(loans, n, loan), next, clock, lent + stake)
           /\ LimitsOK(caps, Put(loans, n, loan), Shift(D, loan.receiver, loan.kind, -stake))
           /\ SumOf(BalancesOf(Put(loans, n, loan)))
                = SumOf(BalancesOf(loans)) - BalanceOf(BalancesOf(loans), n) + loan.balance
           /\ SumOf(BalancesOf(loans)) \in Int /\ BalanceOf(BalancesOf(loans), n) \in Int
<1> DEFINE h == Put(loans, n, loan)
<1>1. LoanRows(loans, num, clock) /\ lent = SumOf(StakedOf(loans))
  BY DEF LoansOK, LoanRows
<1>2. /\ DOMAIN h = DOMAIN loans \cup {n} /\ h[n] = loan
      /\ \A m \in DOMAIN loans \ {n} : h[m] = loans[m]
      /\ h = [m \in DOMAIN h |-> h[m]]
  BY DEF Put
<1>3. /\ StakedOf(h) = Put(StakedOf(loans), n, loan.total_staked)
      /\ BalancesOf(h) = Put(BalancesOf(loans), n, loan.balance)
  BY DEF Put, StakedOf, BalancesOf
<1>4. ASSUME NEW r, NEW k
      PROVE  StakedTo(h, r, k) =
               IF loan.kind = k /\ loan.receiver = r
               THEN Put(StakedTo(loans, r, k), n, loan.total_staked)
               ELSE Erase(StakedTo(loans, r, k), n)
  BY DEF Put, Erase, StakedTo
<1> HIDE DEF h
<1>5. loan.total_staked \in Int /\ loan.balance \in Int /\ loan.receiver \in Owners /\ loan.kind \in Kinds
  BY DEF LoanRow, Loan
<1>6. LoanRows(h, next, clock)
  BY <1>1, <1>2 DEF LoanRows, LoanRow
<1>7. SumOf(StakedOf(h)) = lent + stake
  <2>1. SumOf(StakedOf(h)) = lent - BalanceOf(StakedOf(loans), n) + loan.total_staked
        /\ lent \in Int /\ BalanceOf(StakedOf(loans), n) \in Int
    BY <1>1, <1>3, <1>5, LoanColumns, PutHeld
  <2> QED
    BY <1>5, <2>1
<1>8. /\ SumOf(BalancesOf(h)) = SumOf(BalancesOf(loans)) - BalanceOf(BalancesOf(loans), n) + loan.balance
      /\ SumOf(BalancesOf(loans)) \in Int /\ BalanceOf(BalancesOf(loans), n) \in Int
  BY <1>1, <1>3, <1>5, LoanColumns, PutHeld
<1>9. ASSUME NEW r \in Owners, NEW k \in Kinds
      PROVE  /\ SumOf(StakedTo(h, r, k)) =
                  SumOf(StakedTo(loans, r, k)) + (IF loan.kind = k /\ loan.receiver = r THEN stake ELSE 0)
             /\ SumOf(StakedTo(loans, r, k)) \in Int
  <2> DEFINE was == BalanceOf(StakedTo(loans, r, k), n)
             sum == SumOf(StakedTo(loans, r, k))
  <2>1. IsTable(StakedTo(loans, r, k)) /\ sum \in Int
    BY <1>1, LoanColumns, BalanceInt
  <2>2. was = IF loan.kind = k /\ loan.receiver = r THEN BalanceOf(StakedOf(loans), n) ELSE 0
    BY <1>1, LoanColumns
  <2>3. CASE loan.kind = k /\ loan.receiver = r
    <3>1. SumOf(StakedTo(h, r, k)) = sum - was + loan.total_staked /\ was \in Int
      BY <1>4, <1>5, <2>1, <2>3, PutHeld
    <3> HIDE DEF was, sum
    <3> QED
      BY <1>5, <2>1, <2>2, <2>3, <3>1 DEF sum
  <2>4. CASE ~(loan.kind = k /\ loan.receiver = r)
    <3>1. SumOf(StakedTo(h, r, k)) = sum - was
      BY <1>4, <2>1, <2>4, EraseHeld
    <3> HIDE DEF was, sum
    <3> QED
      BY <2>1, <2>2, <2>4, <3>1 DEF sum
  <2> QED
    BY <2>3, <2>4
<1>10. LimitsOK(caps, h, Shift(D, loan.receiver, loan.kind, -stake))
  <2>1. IsDelegated(D)
    BY DEF LimitsOK, IsDelegated
  <2>2. /\ IsDelegated(Shift(D, loan.receiver, loan.kind, -stake))
        /\ \A q \in Owners, j \in Kinds : Shift(D, loan.receiver, loan.kind, -stake)[q][j] =
             IF q = loan.receiver /\ j = loan.kind THEN D[q][j] + (-stake) ELSE D[q][j]
    <3>1. PICK v, r, k : v = -stake /\ r = loan.receiver /\ k = loan.kind
      OBVIOUS
    <3>2. v \in Int /\ r \in Owners /\ k \in Kinds
      BY <1>5, <3>1
    <3>3. /\ IsDelegated(Shift(D, r, k, v))
          /\ \A q \in Owners, j \in Kinds :
               Shift(D, r, k, v)[q][j] = IF q = r /\ j = k THEN D[q][j] + v ELSE D[q][j]
      BY <2>1, <3>2, ShiftType
    <3> QED
      BY <3>1, <3>3
  <2> DEFINE E == Shift(D, loan.receiver, loan.kind, -stake)
  <2> HIDE DEF E
  <2>3. ASSUME NEW r \in Owners, NEW k \in Kinds
        PROVE  caps[r][k] = E[r][k] + SumOf(StakedTo(h, r, k))
    <3>1. caps[r][k] = D[r][k] + SumOf(StakedTo(loans, r, k)) /\ D[r][k] \in Int
      BY DEF LimitsOK
    <3>2. E[r][k] = IF r = loan.receiver /\ k = loan.kind THEN D[r][k] + (-stake) ELSE D[r][k]
      BY <2>2 DEF E
    <3> QED
      BY <1>9, <3>1, <3>2
  <2> QED
    BY <2>2, <2>3 DEF E, LimitsOK, IsDelegated
<1>11. LoansOK(h, next, clock, lent + stake)
  BY <1>6, <1>7 DEF LoanRows, LoansOK
<1> QED
  BY <1>8, <1>10, <1>11 DEF h

\* A loan under a new number, and what it takes from what is delegated.
LEMMA LoanNew ==
    ASSUME NEW loans, NEW num, NEW clock, NEW lent, LoansOK(loans, num, clock, lent),
           NEW caps, NEW D, LimitsOK(caps, loans, D),
           NEW n \in Nat, num < n, NEW loan, LoanRow(loan, clock),
           NEW back \in Int, back + loan.total_staked = 0
    PROVE  /\ LoansOK(Put(loans, n, loan), n, clock, lent + loan.total_staked)
           /\ LimitsOK(caps, Put(loans, n, loan), Shift(D, loan.receiver, loan.kind, back))
           /\ SumOf(BalancesOf(Put(loans, n, loan))) = SumOf(BalancesOf(loans)) + loan.balance
           /\ SumOf(BalancesOf(loans)) \in Int
<1>1. num \in Nat /\ DOMAIN loans \subseteq 1..num /\ LoanRows(loans, num, clock)
  BY DEF LoansOK, LoanRows
<1>2. n \in 1..n /\ num <= n /\ n \notin DOMAIN loans
  BY <1>1
<1>3. BalanceOf(StakedOf(loans), n) = 0 /\ BalanceOf(BalancesOf(loans), n) = 0
  BY <1>1, <1>2, LoanColumns
<1>4. loan.total_staked \in Int /\ loan.balance \in Int
  BY DEF LoanRow, Loan
<1>5. PICK stake \in Int : stake = loan.total_staked
  BY <1>4
<1>6. stake = loan.total_staked - BalanceOf(StakedOf(loans), n)
  BY <1>3, <1>4, <1>5
<1>7. n \in DOMAIN loans => loans[n].kind = loan.kind /\ loans[n].receiver = loan.receiver
  BY <1>2
<1>8. /\ LoansOK(Put(loans, n, loan), n, clock, lent + stake)
      /\ LimitsOK(caps, Put(loans, n, loan), Shift(D, loan.receiver, loan.kind, -stake))
  BY <1>2, <1>6, <1>7, LoanPut, ZenonT(30)
<1>9. -stake = back
  BY <1>5
<1>10. SumOf(BalancesOf(Put(loans, n, loan))) = SumOf(BalancesOf(loans)) + loan.balance
       /\ SumOf(BalancesOf(loans)) \in Int
  <2>1. BalancesOf(Put(loans, n, loan)) = Put(BalancesOf(loans), n, loan.balance)
    BY DEF Put, BalancesOf
  <2>2. IsTable(BalancesOf(loans))
    BY <1>1, LoanColumns
  <2>3. /\ SumOf(Put(BalancesOf(loans), n, loan.balance))
             = SumOf(BalancesOf(loans)) - BalanceOf(BalancesOf(loans), n) + loan.balance
        /\ SumOf(BalancesOf(loans)) \in Int
    BY <1>4, <2>2, PutHeld, BalanceInt
  <2> QED
    BY <1>3, <1>4, <2>1, <2>3
<1> QED
  BY <1>5, <1>8, <1>9, <1>10

\* A loan that ends.
LEMMA LoanErase ==
    ASSUME NEW loans, NEW num, NEW clock, NEW lent, LoansOK(loans, num, clock, lent),
           NEW caps, NEW D, LimitsOK(caps, loans, D),
           NEW n \in DOMAIN loans, NEW r, NEW k, NEW stake,
           r = loans[n].receiver, k = loans[n].kind, stake = loans[n].total_staked
    PROVE  /\ LoansOK(Erase(loans, n), num, clock, lent - stake)
           /\ LimitsOK(caps, Erase(loans, n), Shift(D, r, k, stake))
           /\ SumOf(BalancesOf(Erase(loans, n))) = SumOf(BalancesOf(loans)) - loans[n].balance
           /\ SumOf(BalancesOf(loans)) \in Int
<1> DEFINE h == Erase(loans, n)
<1>1. LoanRows(loans, num, clock) /\ lent = SumOf(StakedOf(loans))
  BY DEF LoansOK, LoanRows
<1>2. /\ DOMAIN h = DOMAIN loans \ {n}
      /\ \A m \in DOMAIN h : h[m] = loans[m]
      /\ h = [m \in DOMAIN h |-> h[m]]
  BY DEF Erase
<1>3. /\ StakedOf(h) = Erase(StakedOf(loans), n)
      /\ BalancesOf(h) = Erase(BalancesOf(loans), n)
  BY DEF Erase, StakedOf, BalancesOf
<1>4. ASSUME NEW q, NEW j PROVE StakedTo(h, q, j) = Erase(StakedTo(loans, q, j), n)
  BY DEF Erase, StakedTo
<1> HIDE DEF h
<1>5. stake \in Int /\ loans[n].balance \in Int /\ r \in Owners /\ k \in Kinds
  BY <1>1 DEF LoanRows, Loan
<1>6. LoanRows(h, num, clock)
  BY <1>1, <1>2 DEF LoanRows
<1>7. SumOf(StakedOf(h)) = lent - stake
  BY <1>1, <1>3, LoanColumns, EraseHeld
<1>8. SumOf(BalancesOf(h)) = SumOf(BalancesOf(loans)) - loans[n].balance
      /\ SumOf(BalancesOf(loans)) \in Int
  BY <1>1, <1>3, LoanColumns, EraseHeld, BalanceInt
<1>9. ASSUME NEW q \in Owners, NEW j \in Kinds
      PROVE  /\ SumOf(StakedTo(h, q, j)) =
                  SumOf(StakedTo(loans, q, j)) - (IF k = j /\ r = q THEN stake ELSE 0)
             /\ SumOf(StakedTo(loans, q, j)) \in Int
  <2>1. IsTable(StakedTo(loans, q, j))
    BY <1>1, LoanColumns
  <2>2. BalanceOf(StakedTo(loans, q, j), n) = IF k = j /\ r = q THEN stake ELSE 0
    BY <1>1, LoanColumns
  <2> QED
    BY <1>4, <2>1, <2>2, EraseHeld, BalanceInt
<1>10. LimitsOK(caps, h, Shift(D, r, k, stake))
  <2>1. IsDelegated(D)
    BY DEF LimitsOK, IsDelegated
  <2>2. /\ IsDelegated(Shift(D, r, k, stake))
        /\ \A q \in Owners, j \in Kinds : Shift(D, r, k, stake)[q][j] =
             IF q = r /\ j = k THEN D[q][j] + stake ELSE D[q][j]
    <3>1. r \in Owners /\ k \in Kinds /\ stake \in Int
      BY <1>5
    <3> QED
      BY <2>1, <3>1, ShiftType
  <2> DEFINE E == Shift(D, r, k, stake)
  <2> HIDE DEF E
  <2>3. ASSUME NEW q \in Owners, NEW j \in Kinds
        PROVE  caps[q][j] = E[q][j] + SumOf(StakedTo(h, q, j))
    <3>1. caps[q][j] = D[q][j] + SumOf(StakedTo(loans, q, j)) /\ D[q][j] \in Int
      BY DEF LimitsOK
    <3>2. E[q][j] = IF q = r /\ j = k THEN D[q][j] + stake ELSE D[q][j]
      BY <2>2 DEF E
    <3> QED
      BY <1>5, <1>9, <3>1, <3>2
  <2> QED
    BY <2>2, <2>3 DEF E, LimitsOK, IsDelegated
<1>11. LoansOK(h, num, clock, lent - stake)
  BY <1>6, <1>7 DEF LoanRows, LoansOK
<1> QED
  BY <1>8, <1>10, <1>11 DEF h

-----------------------------------------------------------------------------
(* Orders                                                                  *)

\* The proceeds of the filled orders can be summed; an open order has none.
LEMMA OrderColumns ==
    ASSUME NEW orders, NEW bal, OrdersOK(orders, bal)
    PROVE  /\ IsTable(ProceedsOf(orders)) /\ SumOf(ProceedsOf(orders)) \in Int
           /\ \A o : BalanceOf(ProceedsOf(orders), o) =
                IF o \in DOMAIN orders /\ ~orders[o].is_open THEN orders[o].proceeds ELSE 0
           /\ \A o \in DOMAIN orders : orders[o].proceeds \in Nat
<1> DEFINE S == {o \in DOMAIN orders : ~orders[o].is_open}
<1>1. IsFiniteSet(S)
  BY RexTablesAssumption, FS_Subset DEF OrdersOK
<1>2. \A o \in DOMAIN orders : orders[o].proceeds \in Nat
  BY DEF OrdersOK, Order
<1>3. IsTable(ProceedsOf(orders))
  BY <1>1, <1>2 DEF IsTable, ProceedsOf
<1>4. \A o : BalanceOf(ProceedsOf(orders), o) =
        IF o \in DOMAIN orders /\ ~orders[o].is_open THEN orders[o].proceeds ELSE 0
  BY DEF BalanceOf, ProceedsOf
<1> QED
  BY <1>2, <1>3, <1>4, BalanceInt

\* An order that is put into the queue, or is changed there.
LEMMA OrderPut ==
    ASSUME NEW orders, NEW bal, OrdersOK(orders, bal), NEW o \in Owners, NEW row \in Order,
           row.is_open => o \in DOMAIN bal /\ 0 < row.rex_requested /\ row.rex_requested <= bal[o].matured
    PROVE  /\ OrdersOK(Put(orders, o, row), bal)
           /\ SumOf(ProceedsOf(Put(orders, o, row))) =
                SumOf(ProceedsOf(orders)) - BalanceOf(ProceedsOf(orders), o)
                + (IF row.is_open THEN 0 ELSE row.proceeds)
<1> DEFINE h == Put(orders, o, row)
<1>1. /\ DOMAIN h = DOMAIN orders \cup {o} /\ h[o] = row
      /\ \A p \in DOMAIN orders \ {o} : h[p] = orders[p]
      /\ h = [p \in DOMAIN h |-> h[p]]
  BY DEF Put
<1>2. ProceedsOf(h) = IF row.is_open THEN Erase(ProceedsOf(orders), o)
                      ELSE Put(ProceedsOf(orders), o, row.proceeds)
  <2>1. CASE row.is_open
    BY <2>1 DEF Put, Erase, ProceedsOf
  <2>2. CASE ~row.is_open
    BY <2>2 DEF Put, ProceedsOf
  <2> QED
    BY <2>1, <2>2
<1> HIDE DEF h
<1>3. row.proceeds \in Int /\ row.is_open \in BOOLEAN
  BY DEF Order
<1>4. IsTable(ProceedsOf(orders)) /\ BalanceOf(ProceedsOf(orders), o) \in Int
      /\ SumOf(ProceedsOf(orders)) \in Int
  BY OrderColumns, BalanceInt
<1>5. SumOf(ProceedsOf(h)) =
        SumOf(ProceedsOf(orders)) - BalanceOf(ProceedsOf(orders), o)
        + (IF row.is_open THEN 0 ELSE row.proceeds)
  <2>1. CASE row.is_open
    <3>1. SumOf(ProceedsOf(h)) = SumOf(ProceedsOf(orders)) - BalanceOf(ProceedsOf(orders), o)
      BY <1>2, <1>4, <2>1, EraseHeld
    <3> QED
      BY <1>4, <2>1, <3>1
  <2>2. CASE ~row.is_open
    BY <1>2, <1>3, <1>4, <2>2, PutHeld
  <2> QED
    BY <2>1, <2>2
<1>6. OrdersOK(h, bal)
  BY <1>1 DEF OrdersOK
<1> QED
  BY <1>5, <1>6 DEF h

\* An order that is erased takes its proceeds along.
LEMMA OrderErase ==
    ASSUME NEW orders, NEW bal, OrdersOK(orders, bal), NEW o
    PROVE  /\ OrdersOK(Erase(orders, o), bal)
           /\ SumOf(ProceedsOf(Erase(orders, o))) =
                SumOf(ProceedsOf(orders)) - BalanceOf(ProceedsOf(orders), o)
<1> DEFINE h == Erase(orders, o)
<1>1. /\ DOMAIN h = DOMAIN orders \ {o}
      /\ \A p \in DOMAIN h : h[p] = orders[p]
      /\ h = [p \in DOMAIN h |-> h[p]]
  BY DEF Erase
<1>2. ProceedsOf(h) = Erase(ProceedsOf(orders), o)
  BY DEF Erase, ProceedsOf
<1> HIDE DEF h
<1>3. SumOf(ProceedsOf(h)) = SumOf(ProceedsOf(orders)) - BalanceOf(ProceedsOf(orders), o)
  BY <1>2, OrderColumns, EraseHeld
<1>4. OrdersOK(h, bal)
  BY <1>1 DEF OrdersOK
<1> QED
  BY <1>3, <1>4 DEF h

\* An order that is erased leaves the others in time.
LEMMA QueueErase ==
    ASSUME NEW orders, NEW loans, QueueOK(orders, loans), NEW o
    PROVE  QueueOK(Erase(orders, o), loans)
BY DEF QueueOK, Erase

-----------------------------------------------------------------------------
(* Buckets                                                                 *)

RexIn(q) == [i \in DOMAIN q |-> q[i].rex]

\* What buckets hold is a natural number.
LEMMA BucketsNat ==
    ASSUME NEW q \in Seq(Bucket)
    PROVE  /\ DOMAIN q = 1..Len(q) /\ Len(q) \in Nat
           /\ InBuckets(q) = SumOver(RexIn(q), 1..Len(q))
           /\ \A i \in 1..Len(q) : RexIn(q)[i] = q[i].rex /\ q[i] \in Bucket /\ q[i].rex \in Nat
           /\ InBuckets(q) \in Nat
<1>1. DOMAIN q = 1..Len(q) /\ Len(q) \in Nat
  OBVIOUS
<1>2. \A i \in 1..Len(q) : RexIn(q)[i] = q[i].rex /\ q[i] \in Bucket /\ q[i].rex \in Nat
  <2>1. \A i \in 1..Len(q) : q[i] \in Bucket
    BY <1>1
  <2>2. \A b \in Bucket : b.rex \in Nat
    BY DEF Bucket
  <2> QED
    BY <1>1, <2>1, <2>2 DEF RexIn
<1>3. InBuckets(q) = SumOver(RexIn(q), 1..Len(q))
  BY <1>1 DEF InBuckets, SumOf, RexIn
<1>4. IsFiniteSet(1..Len(q)) /\ \A i \in 1..Len(q) : RexIn(q)[i] \in Nat
  <2>1. IsFiniteSet(1..Len(q))
    BY <1>1, FS_Interval
  <2> QED
    BY <1>2, <2>1
<1>5. InBuckets(q) \in Nat
  BY <1>3, <1>4, SumNat
<1> QED
  BY <1>1, <1>2, <1>3, <1>5

\* No buckets hold nothing.
LEMMA BucketsEmpty == InBuckets(<<>>) = 0 /\ <<>> \in Seq(Bucket)
<1>1. <<>> \in Seq(Bucket) /\ Len(<<>>) = 0 /\ 1..0 = {}
  OBVIOUS
<1> QED
  BY <1>1, BucketsNat, SumEmpty

\* The last bucket, and those in front of it.
LEMMA BucketsAppend ==
    ASSUME NEW q \in Seq(Bucket), NEW b \in Bucket
    PROVE  Append(q, b) \in Seq(Bucket) /\ InBuckets(Append(q, b)) = InBuckets(q) + b.rex
<1> DEFINE r == Append(q, b)
           n == Len(q)
<1>1. r \in Seq(Bucket) /\ Len(r) = n + 1 /\ n \in Nat /\ r[n + 1] = b
      /\ \A i \in 1..n : r[i] = q[i]
  OBVIOUS
<1> HIDE DEF r
<1>2. 1..(n + 1) = (1..n) \cup {n + 1} /\ n + 1 \notin 1..n
  BY <1>1
<1>3. IsFiniteSet(1..n) /\ IntOn(RexIn(r), (1..n) \cup {n + 1}) /\ RexIn(r)[n + 1] = b.rex
  <2>1. \A i \in 1..(n + 1) : RexIn(r)[i] = r[i].rex /\ r[i].rex \in Nat
    BY <1>1, BucketsNat
  <2>2. IsFiniteSet(1..n)
    BY <1>1, FS_Interval
  <2>3. RexIn(r)[n + 1] = b.rex
    BY <1>1, <1>2, <2>1
  <2>4. \A i \in (1..n) \cup {n + 1} : RexIn(r)[i] \in Int
    BY <1>2, <2>1
  <2> QED
    BY <2>2, <2>3, <2>4 DEF IntOn
<1>4. InBuckets(r) = SumOver(RexIn(r), 1..n) + b.rex
  <2>1. InBuckets(r) = SumOver(RexIn(r), (1..n) \cup {n + 1})
    BY <1>1, <1>2, BucketsNat
  <2>2. PICK S, f, a : S = 1..n /\ f = RexIn(r) /\ a = n + 1
    OBVIOUS
  <2>3. IsFiniteSet(S) /\ a \notin S /\ IntOn(f, S \cup {a})
    BY <1>2, <1>3, <2>2
  <2>4. SumOver(f, S \cup {a}) = SumOver(f, S) + f[a]
    BY <2>3, SumAddOn
  <2> QED
    BY <1>3, <2>1, <2>2, <2>4
<1>5. SumOver(RexIn(r), 1..n) = SumOver(RexIn(q), 1..n)
  <2>1. \A i \in 1..n : RexIn(r)[i] = RexIn(q)[i]
    <3>1. \A i \in 1..n : RexIn(q)[i] = q[i].rex
      BY BucketsNat
    <3>2. \A i \in 1..(n + 1) : RexIn(r)[i] = r[i].rex
      BY <1>1, BucketsNat
    <3> QED
      BY <1>1, <1>2, <3>1, <3>2
  <2> QED
    BY <1>3, <2>1, SumAgrees
<1> QED
  BY <1>1, <1>4, <1>5, BucketsNat DEF r

\* The last bucket and those before it.
LEMMA BucketsLast ==
    ASSUME NEW q \in Seq(Bucket), q # <<>>
    PROVE  /\ Front(q) \in Seq(Bucket) /\ Last(q) \in Bucket
           /\ q = Append(Front(q), Last(q))
           /\ InBuckets(q) = InBuckets(Front(q)) + Last(q).rex
<1>1. Front(q) \in Seq(Bucket) /\ Last(q) \in Bucket /\ q = Append(Front(q), Last(q))
  BY DEF Front, Last
<1> QED
  BY <1>1, BucketsAppend

\* The amount in the last bucket changes.
LEMMA BucketsRaise ==
    ASSUME NEW q \in Seq(Bucket), q # <<>>, NEW v \in Int, Last(q).rex + v \in Nat
    PROVE  LET r == [q EXCEPT ![Len(q)].rex = @ + v]
           IN  r \in Seq(Bucket) /\ InBuckets(r) = InBuckets(q) + v
<1> DEFINE r == [q EXCEPT ![Len(q)].rex = @ + v]
           b == [Last(q) EXCEPT !.rex = @ + v]
<1>1. Front(q) \in Seq(Bucket) /\ Last(q) \in Bucket /\ InBuckets(q) = InBuckets(Front(q)) + Last(q).rex
  BY BucketsLast
<1>2. b \in Bucket /\ b.rex = Last(q).rex + v
  BY <1>1 DEF Bucket
<1>3. r = Append(Front(q), b)
  <2>1. Len(q) \in Nat \ {0} /\ Last(q) = q[Len(q)] /\ Front(q) = SubSeq(q, 1, Len(q) - 1)
    BY DEF Last, Front
  <2>2. r = [q EXCEPT ![Len(q)] = b]
    <3>1. r = [q EXCEPT ![Len(q)] = [q[Len(q)] EXCEPT !.rex = q[Len(q)].rex + v]]
      OBVIOUS
    <3> QED
      BY <2>1, <3>1
  <2> HIDE DEF b, r
  <2>3. Append(Front(q), b) \in Seq(Bucket) /\ Len(Append(Front(q), b)) = Len(q)
        /\ Append(Front(q), b)[Len(q)] = b
        /\ \A i \in 1..(Len(q) - 1) : Append(Front(q), b)[i] = q[i]
    <3>1. Len(Front(q)) = Len(q) - 1 /\ \A i \in 1..(Len(q) - 1) : Front(q)[i] = q[i]
      <4>1. PICK f, l : f = Front(q) /\ l = Last(q)
        OBVIOUS
      <4>2. f \in Seq(Bucket) /\ q = Append(f, l)
        BY <1>1, <4>1, BucketsLast
      <4> QED
        BY <4>1, <4>2, Z3T(30)
    <3> QED
      BY <1>1, <1>2, <2>1, <3>1
  <2>4. r \in Seq(Bucket) /\ Len(r) = Len(q) /\ r[Len(q)] = b /\ \A i \in 1..(Len(q) - 1) : r[i] = q[i]
    BY <1>2, <2>1, <2>2
  <2> QED
    BY <2>1, <2>3, <2>4, Z3T(30)
<1> HIDE DEF b
<1>4. InBuckets(r) = InBuckets(Front(q)) + b.rex /\ r \in Seq(Bucket)
  BY <1>1, <1>2, <1>3, BucketsAppend
<1>5. InBuckets(Front(q)) \in Nat /\ Last(q).rex \in Nat
  BY <1>1, BucketsNat DEF Bucket
<1> QED
  BY <1>1, <1>2, <1>4, <1>5

\* Some buckets at the front, and the others.
LEMMA BucketsSplit ==
    ASSUME NEW q \in Seq(Bucket), NEW n \in 0..Len(q)
    PROVE  /\ SubSeq(q, 1, n) \in Seq(Bucket) /\ SubSeq(q, n + 1, Len(q)) \in Seq(Bucket)
           /\ InBuckets(SubSeq(q, 1, n)) \in Nat /\ InBuckets(SubSeq(q, n + 1, Len(q))) \in Nat
           /\ InBuckets(SubSeq(q, 1, n)) + InBuckets(SubSeq(q, n + 1, Len(q))) = InBuckets(q)
<1> DEFINE Splits(m) == InBuckets(SubSeq(q, 1, n)) + InBuckets(SubSeq(q, n + 1, m))
                          = InBuckets(SubSeq(q, 1, m))
           Bad == {m \in Nat : n <= m /\ m <= Len(q) /\ ~Splits(m)}
<1>1. Len(q) \in Nat /\ n \in Nat /\ n <= Len(q)
  OBVIOUS
<1>2. ASSUME NEW i \in Nat \ {0}, NEW m \in Nat, m <= Len(q)
      PROVE  SubSeq(q, i, m) \in Seq(Bucket) /\ InBuckets(SubSeq(q, i, m)) \in Nat
  <2>1. \A j \in i..m : q[j] \in Bucket
    BY <1>1, <1>2
  <2>2. SubSeq(q, i, m) \in Seq(Bucket)
    <3>1. i \in Int /\ m \in Int
      OBVIOUS
    <3> QED
      BY <2>1, <3>1, SubSeqProperties
  <2> QED
    BY <2>2, BucketsNat
<1>3. ASSUME NEW i \in Nat \ {0}, NEW m \in Nat \ {0}, i <= m, m <= Len(q)
      PROVE  InBuckets(SubSeq(q, i, m)) = InBuckets(SubSeq(q, i, m - 1)) + q[m].rex
  <2>1. q[m] \in Bucket /\ m - 1 \in Nat /\ m - 1 <= Len(q)
    BY <1>1, <1>3
  <2>2. SubSeq(q, i, m) = SubSeq(q, i, m - 1) \o <<q[m]>>
    BY <1>1, <1>3, SubSeqRecursiveSecond
  <2>3. PICK r, b : r = SubSeq(q, i, m - 1) /\ b = q[m]
    OBVIOUS
  <2>4. r \in Seq(Bucket) /\ b \in Bucket /\ SubSeq(q, i, m) = r \o <<b>>
    BY <1>2, <2>1, <2>2, <2>3
  <2>5. r \o <<b>> = Append(r, b)
    BY <2>4
  <2> QED
    BY <2>3, <2>4, <2>5, BucketsAppend
<1>4. Bad = {}
  <2>1. SUFFICES ASSUME Bad # {} PROVE FALSE
    OBVIOUS
  <2>2. PICK m \in Bad : \A k \in Bad : m <= k
    BY <2>1, LeastNumber
  <2>3. m \in Nat /\ n <= m /\ m <= Len(q) /\ ~Splits(m)
    BY <2>2
  <2>4. CASE m = n
    <3>1. SubSeq(q, n + 1, n) = <<>>
      BY <1>1, SubSeqEmpty
    <3>2. InBuckets(SubSeq(q, 1, n)) \in Nat
      BY <1>1, <1>2
    <3>3. InBuckets(SubSeq(q, n + 1, n)) = 0
      BY <3>1, BucketsEmpty
    <3> QED
      BY <2>3, <2>4, <3>2, <3>3
  <2>5. CASE m # n
    <3>1. m - 1 \in Nat /\ n <= m - 1 /\ m - 1 <= Len(q) /\ m - 1 \notin Bad /\ m \in Nat \ {0}
      BY <1>1, <2>2, <2>3, <2>5
    <3>2. Splits(m - 1)
      BY <3>1
    <3>3. /\ InBuckets(SubSeq(q, n + 1, m)) = InBuckets(SubSeq(q, n + 1, m - 1)) + q[m].rex
          /\ InBuckets(SubSeq(q, 1, m)) = InBuckets(SubSeq(q, 1, m - 1)) + q[m].rex
      BY <1>1, <1>3, <2>3, <3>1
    <3>4. /\ InBuckets(SubSeq(q, n + 1, m - 1)) \in Nat /\ InBuckets(SubSeq(q, 1, m - 1)) \in Nat
          /\ InBuckets(SubSeq(q, 1, n)) \in Nat /\ q[m].rex \in Nat
      <4>1. n + 1 \in Nat \ {0} /\ m - 1 \in Nat /\ m \in 1..Len(q)
        BY <1>1, <2>3, <3>1
      <4> QED
        <5>1. q[m].rex \in Nat
          BY <4>1, BucketsNat
        <5>2. InBuckets(SubSeq(q, 1, m - 1)) \in Nat /\ InBuckets(SubSeq(q, 1, n)) \in Nat
          <6>1. 1 \in Nat \ {0} /\ m - 1 \in Nat /\ m - 1 <= Len(q) /\ n \in Nat /\ n <= Len(q)
            BY <1>1, <3>1
          <6> QED
            BY <1>2, <6>1, ZenonT(30)
        <5>3. InBuckets(SubSeq(q, n + 1, m - 1)) \in Nat
          BY <1>2, <3>1, <4>1
        <5> QED
          BY <5>1, <5>2, <5>3
    <3> QED
      BY <2>3, <3>2, <3>3, <3>4, SMTT(30)
  <2> QED
    BY <2>4, <2>5
<1>5. Splits(Len(q))
  BY <1>1, <1>4
<1>6. SubSeq(q, 1, Len(q)) = q
  BY SubSeqFull
<1> QED
  <2>1. n + 1 \in Nat \ {0}
    BY <1>1
  <2>2. SubSeq(q, n + 1, Len(q)) \in Seq(Bucket) /\ InBuckets(SubSeq(q, n + 1, Len(q))) \in Nat
    BY <1>1, <1>2, <2>1
  <2>3. SubSeq(q, 1, n) \in Seq(Bucket) /\ InBuckets(SubSeq(q, 1, n)) \in Nat
    BY <1>1, <1>2
  <2> QED
    BY <1>5, <1>6, <2>2, <2>3

-----------------------------------------------------------------------------
(* The rows of rexbal                                                      *)

\* A bounded set of numbers has a greatest, which Max finds.
LEMMA GreatestNumber ==
    ASSUME NEW n \in Nat, NEW T \in SUBSET (0..n), T # {}
    PROVE  Max(T) \in T
<1> DEFINE U == {m \in Nat : m <= n /\ n - m \in T}
<1>1. U # {}
  <2>1. PICK k \in T : TRUE
    OBVIOUS
  <2>2. k \in Nat /\ k <= n
    OBVIOUS
  <2>3. n - k \in Nat /\ n - k <= n /\ n - (n - k) = k
    BY <2>2
  <2> QED
    BY <2>1, <2>3
<1>2. PICK m \in U : \A k \in U : m <= k
  BY <1>1, LeastNumber
<1>3. n - m \in T
  BY <1>2
<1>4. \A k \in T : n - m >= k
  <2> SUFFICES ASSUME NEW k \in T PROVE n - m >= k
    OBVIOUS
  <2>1. k \in Nat /\ k <= n /\ m \in Nat
    BY <1>2
  <2>2. n - k \in Nat /\ n - k <= n /\ n - (n - k) = k
    BY <2>1
  <2>3. n - k \in U
    BY <2>2
  <2>4. m <= n - k
    BY <1>2, <2>3
  <2> QED
    BY <2>1, <2>4
<1> QED
  BY <1>3, <1>4 DEF Max

\* What has not been done to a row whose buckets have changed.
Kept(b, r) ==
    r.rex_balance = b.rex_balance /\ r.vote_stake = b.vote_stake /\ b.matured <= r.matured

\* What a row that holds an amount consists of.
LEMMA RowParts ==
    ASSUME NEW b, NEW s, Holds(b, s)
    PROVE  /\ b.vote_stake \in Nat /\ b.rex_balance \in Nat /\ b.matured \in Nat
           /\ b.maturities \in Seq(Bucket) /\ InBuckets(b.maturities) \in Nat
           /\ b.matured + InBuckets(b.maturities) = s /\ s \in Nat
           /\ IsRow(b)
<1>1. /\ b.vote_stake \in Nat /\ b.rex_balance \in Nat /\ b.matured \in Nat
      /\ b.maturities \in Seq(Bucket)
      /\ b.matured + InBuckets(b.maturities) = s
      /\ IsRow(b)
  BY DEF Holds, IsRow
<1>2. InBuckets(b.maturities) \in Nat
  BY <1>1, BucketsNat
<1> QED
  BY <1>1, <1>2

\* A row with other buckets.
WithBuckets(b, m, q) == [b EXCEPT !.matured = m, !.maturities = q]

\* The buckets of a row are written, and the rest of it stays.
LEMMA RowSameMatured ==
    ASSUME NEW b, IsRow(b), NEW q
    PROVE  [b EXCEPT !.maturities = q] = WithBuckets(b, b.matured, q)
<1>1. b = [x \in RowFields |-> b[x]]
  BY DEF IsRow
<1>2. b = [b EXCEPT !.matured = b.matured]
  BY <1>1, SMT DEF RowFields
<1>3. [b EXCEPT !.matured = b.matured, !.maturities = q] = [[b EXCEPT !.matured = b.matured] EXCEPT !.maturities = q]
  OBVIOUS
<1> QED
  BY <1>2, <1>3 DEF WithBuckets

\* A row whose buckets and matured REX are written holds what they add up to.
LEMMA RowChange ==
    ASSUME NEW b, NEW s, Holds(b, s), NEW m \in Nat, NEW q \in Seq(Bucket),
           NEW v, v = m + InBuckets(q)
    PROVE  /\ Holds(WithBuckets(b, m, q), v)
           /\ WithBuckets(b, m, q).matured = m
           /\ b.matured <= m => Kept(b, WithBuckets(b, m, q))
<1> DEFINE r == WithBuckets(b, m, q)
<1>1. b = [x \in RowFields |-> b[x]]
  BY RowParts DEF IsRow
<1>2. r = [x \in RowFields |-> r[x]]
  BY <1>1, Zenon DEF WithBuckets
<1>3. r.matured = m /\ r.maturities = q /\ r.vote_stake = b.vote_stake /\ r.rex_balance = b.rex_balance
  BY <1>1, SMT DEF WithBuckets, RowFields
<1>4. b.vote_stake \in Nat /\ b.rex_balance \in Nat
  BY RowParts
<1> HIDE DEF r
<1>5. IsRow(r)
  BY <1>2, <1>3, <1>4 DEF IsRow
<1> QED
  BY <1>3, <1>5 DEF r, Holds, Kept

\* process_rex_maturities moves REX from buckets to matured, and loses none.
LEMMA RowMatures ==
    ASSUME NEW b, NEW s, Holds(b, s), NEW time
    PROVE  /\ Holds(process_rex_maturities(b, time), s)
           /\ Kept(b, process_rex_maturities(b, time))
<1> DEFINE q == b.maturities
           T == {k \in 0..Len(q) : \A i \in 1..k : q[i].time <= time}
           n == Max(T)
           front == SubSeq(q, 1, n)
           back == SubSeq(q, n + 1, Len(q))
<1>1. q \in Seq(Bucket) /\ Len(q) \in Nat /\ b.matured \in Nat
  BY RowParts
<1>2. n \in 0..Len(q)
  <2>1. T \in SUBSET (0..Len(q)) /\ 0 \in T
    BY <1>1
  <2> HIDE DEF T
  <2> QED
    BY <1>1, <2>1, GreatestNumber
<1>3. process_rex_maturities(b, time) =
        WithBuckets(b, b.matured + InBuckets(front), back)
  BY DEF process_rex_maturities, WithBuckets
<1> HIDE DEF n
<1>4. /\ back \in Seq(Bucket) /\ InBuckets(front) \in Nat /\ InBuckets(back) \in Nat
      /\ InBuckets(front) + InBuckets(back) = InBuckets(q)
  BY <1>1, <1>2, BucketsSplit
<1>5. b.matured + InBuckets(q) = s
  BY RowParts
<1> HIDE DEF q, front, back
<1>6. PICK m : m = b.matured + InBuckets(front)
  OBVIOUS
<1>7. m \in Nat /\ s = m + InBuckets(back) /\ b.matured <= m
  <2>1. InBuckets(q) \in Nat
    BY <1>4
  <2> QED
    BY <1>1, <1>4, <1>5, <1>6, <2>1, SMTT(30)
<1>8. process_rex_maturities(b, time) = WithBuckets(b, m, back)
  BY <1>3, <1>6
<1> QED
  BY <1>4, <1>7, <1>8, RowChange, ZenonT(30)

\* read_rex_savings takes the savings out of a row, which holds less by just them.
LEMMA RowWithoutSavings ==
    ASSUME NEW b, NEW s, Holds(b, s)
    PROVE  /\ read_rex_savings(b) \in Nat
           /\ Holds(WithoutSavings(b), s - read_rex_savings(b))
           /\ Kept(b, WithoutSavings(b))
           /\ WithoutSavings(b).matured = b.matured
<1>1. b.matured \in Nat /\ b.maturities \in Seq(Bucket) /\ InBuckets(b.maturities) \in Nat
      /\ b.matured + InBuckets(b.maturities) = s /\ s \in Nat
  BY RowParts
<1>2. CASE ~HasSavings(b)
  BY <1>1, <1>2 DEF read_rex_savings, WithoutSavings, Kept
<1>3. CASE HasSavings(b)
  <2>1. PICK q, f, l : q = b.maturities /\ f = Front(q) /\ l = Last(q)
    OBVIOUS
  <2>2. q \in Seq(Bucket) /\ q # <<>>
    BY <1>1, <1>3, <2>1 DEF HasSavings
  <2>3. f \in Seq(Bucket) /\ l \in Bucket /\ InBuckets(q) = InBuckets(f) + l.rex
    BY <2>1, <2>2, BucketsLast
  <2>4. l.rex \in Nat /\ InBuckets(f) \in Nat
    BY <2>3, BucketsNat DEF Bucket
  <2>5. read_rex_savings(b) = l.rex
    BY <1>3, <2>1 DEF read_rex_savings
  <2>6. WithoutSavings(b) = WithBuckets(b, b.matured, f)
    <3>1. WithoutSavings(b) = [b EXCEPT !.maturities = f]
      BY <1>3, <2>1 DEF WithoutSavings
    <3> QED
      BY <3>1, RowParts, RowSameMatured
  <2>7. s - l.rex = b.matured + InBuckets(f)
    BY <1>1, <2>1, <2>3, <2>4, Z3T(30)
  <2>8. PICK v : v = s - l.rex
    OBVIOUS
  <2>9. Holds(WithoutSavings(b), v) /\ Kept(b, WithoutSavings(b))
    BY <1>1, <2>3, <2>6, <2>7, <2>8, RowChange, Z3T(30)
  <2>10. WithoutSavings(b).matured = b.matured
    <3>1. WithoutSavings(b) = [b EXCEPT !.maturities = f]
      BY <1>3, <2>1 DEF WithoutSavings
    <3>2. b = [x \in RowFields |-> b[x]]
      BY RowParts DEF IsRow
    <3> QED
      BY <3>1, <3>2 DEF RowFields
  <2> QED
    BY <2>4, <2>5, <2>8, <2>9, <2>10
<1> QED
  BY <1>2, <1>3

\* REX put into a bucket, an old or a new one, is what the row holds more.
LEMMA RowAddBucket ==
    ASSUME NEW b, NEW s, Holds(b, s), NEW time \in Nat, NEW rex \in Nat
    PROVE  /\ Holds(AddBucket(b, time, rex), s + rex)
           /\ Kept(b, AddBucket(b, time, rex))
           /\ AddBucket(b, time, rex).matured = b.matured
<1>1. b.matured \in Nat /\ b.maturities \in Seq(Bucket) /\ InBuckets(b.maturities) \in Nat
      /\ b.matured + InBuckets(b.maturities) = s /\ s \in Nat
  BY RowParts
<1>2. PICK q, v, m : q = b.maturities /\ v = s + rex /\ m = b.matured
  OBVIOUS
<1>3. IsRow(b)
  BY RowParts
<1>4. \E r \in Seq(Bucket) : /\ AddBucket(b, time, rex) = WithBuckets(b, m, r)
                             /\ InBuckets(r) = InBuckets(q) + rex
  <2>1. CASE q # <<>> /\ Last(q).time = time
    <3> DEFINE r == [q EXCEPT ![Len(q)].rex = @ + rex]
    <3>1. Last(q).rex + rex \in Nat
      <4>1. Last(q) \in Bucket
        BY <1>1, <1>2, <2>1, BucketsLast
      <4> QED
        BY <4>1 DEF Bucket
    <3>2. r \in Seq(Bucket) /\ InBuckets(r) = InBuckets(q) + rex
      <4>1. q \in Seq(Bucket) /\ q # <<>> /\ rex \in Int
        BY <1>1, <1>2, <2>1
      <4> QED
        BY <3>1, <4>1, BucketsRaise
    <3>3. AddBucket(b, time, rex) = [b EXCEPT !.maturities = r]
      <4>1. AddBucket(b, time, rex) = [b EXCEPT !.maturities[Len(b.maturities)].rex = @ + rex]
        BY <1>2, <2>1 DEF AddBucket
      <4>2. b = [x \in RowFields |-> b[x]]
        BY <1>3 DEF IsRow
      <4> QED
        BY <1>2, <4>1, <4>2, SMT DEF RowFields
    <3> HIDE DEF r
    <3>4. AddBucket(b, time, rex) = WithBuckets(b, m, r)
      BY <1>2, <1>3, <3>3, RowSameMatured
    <3> QED
      BY <3>2, <3>4
  <2>2. CASE ~(q # <<>> /\ Last(q).time = time)
    <3> DEFINE x == [time |-> time, rex |-> rex]
               r == Append(q, x)
    <3>1. x \in Bucket /\ x.rex = rex
      BY DEF Bucket
    <3>2. r \in Seq(Bucket) /\ InBuckets(r) = InBuckets(q) + rex
      BY <1>1, <1>2, <3>1, BucketsAppend
    <3>3. AddBucket(b, time, rex) = [b EXCEPT !.maturities = r]
      BY <1>2, <2>2 DEF AddBucket
    <3> HIDE DEF r
    <3>4. AddBucket(b, time, rex) = WithBuckets(b, m, r)
      BY <1>2, <1>3, <3>3, RowSameMatured
    <3> QED
      BY <3>2, <3>4
  <2> QED
    BY <2>1, <2>2
<1>5. PICK r \in Seq(Bucket) : /\ AddBucket(b, time, rex) = WithBuckets(b, m, r)
                               /\ InBuckets(r) = InBuckets(q) + rex
  BY <1>4
<1>6. m \in Nat /\ v = m + InBuckets(r) /\ b.matured <= m
  BY <1>1, <1>2, <1>5
<1>7. Holds(AddBucket(b, time, rex), v) /\ Kept(b, AddBucket(b, time, rex))
  BY <1>5, <1>6, RowChange, Z3T(30)
<1>8. AddBucket(b, time, rex).matured = b.matured
  BY <1>2, <1>5, <1>6, RowChange, Z3T(30)
<1> QED
  BY <1>2, <1>7, <1>8

\* put_rex_savings puts savings back.
LEMMA RowPutSavings ==
    ASSUME NEW b, NEW s, Holds(b, s), NEW rex \in Nat
    PROVE  /\ Holds(put_rex_savings(b, rex), s + rex)
           /\ Kept(b, put_rex_savings(b, rex))
           /\ put_rex_savings(b, rex).matured = b.matured
<1>1. s \in Nat /\ b.matured \in Nat
  BY RowParts
<1>2. CASE rex = 0
  BY <1>1, <1>2 DEF put_rex_savings, Kept
<1>3. CASE rex # 0
  <2>1. end_of_days \in Nat
    BY RexTablesAssumption
  <2> QED
    BY <1>3, <2>1, RowAddBucket DEF put_rex_savings
<1> QED
  BY <1>2, <1>3

-----------------------------------------------------------------------------
(* What the buckets of a row lock                                          *)

\* REX that is bought matures at a natural number.
LEMMA MaturityNat == ASSUME NEW clock \in Nat PROVE MaturityOf(clock) \in Nat
<1>1. PICK d, n : d = seconds_per_day /\ n = num_of_maturity_buckets
  OBVIOUS
<1>2. d \in Nat \ {0} /\ n \in Nat
  BY <1>1, RexTablesAssumption
<1>3. clock % d \in 0..(d - 1)
  BY <1>2
<1>4. clock % d <= clock
  BY <1>2, SMT
<1>5. n * d \in Nat
  BY <1>2, SMT
<1>6. clock - (clock % d) + n * d \in Nat
  BY <1>2, <1>3, <1>4, <1>5
<1> QED
  BY <1>1, <1>6 DEF MaturityOf


\* Later purchases do not mature earlier.
LEMMA MaturityGrows ==
    ASSUME NEW clock \in Nat PROVE MaturityOf(clock) <= MaturityOf(clock + 1)
<1>1. PICK d, n : d = seconds_per_day /\ n = num_of_maturity_buckets * seconds_per_day
  OBVIOUS
<1>2. d \in Nat \ {0} /\ n \in Int
  <2>1. num_of_maturity_buckets \in Nat /\ seconds_per_day \in Nat
    BY RexTablesAssumption
  <2> QED
    BY <1>1, <2>1, RexTablesAssumption, SMT
<1>3. clock - (clock % d) <= (clock + 1) - ((clock + 1) % d)
  <2>1. PICK i, j, r, s : /\ i = clock \div d /\ r = clock % d
                          /\ j = (clock + 1) \div d /\ s = (clock + 1) % d
    OBVIOUS
  <2>2. /\ i \in Int /\ j \in Int /\ r \in Nat /\ s \in Nat /\ r < d /\ s < d
        /\ clock = d * i + r /\ clock + 1 = d * j + s
    BY <1>2, <2>1, SMT
  <2>3. i <= j
    <3>1. SUFFICES ASSUME j + 1 <= i PROVE FALSE
      BY <2>2
    <3>2. d * (j + 1) <= d * i
      BY <1>2, <2>2, <3>1, SMT
    <3>3. d * (j + 1) = d * j + d /\ d * j \in Int /\ d * i \in Int
      BY <1>2, <2>2, SMT
    <3> QED
      BY <1>2, <2>2, <3>2, <3>3
  <2>4. d * i <= d * j /\ d * i \in Int /\ d * j \in Int
    BY <1>2, <2>2, <2>3, SMT
  <2> QED
    BY <2>1, <2>2, <2>4
<1>4. clock % d \in Int /\ (clock + 1) % d \in Int
  BY <1>2
<1> QED
  BY <1>1, <1>2, <1>3, <1>4 DEF MaturityOf

\* The last bucket, raised, is put back where it was.
LEMMA LastRaised ==
    ASSUME NEW q \in Seq(Bucket), q # <<>>, NEW v \in Int, Last(q).rex + v \in Nat
    PROVE  LET r == [q EXCEPT ![Len(q)].rex = @ + v]
               b == [Last(q) EXCEPT !.rex = @ + v]
           IN  /\ b \in Bucket /\ b.rex = Last(q).rex + v /\ b.time = Last(q).time
               /\ r = Append(Front(q), b)
<1> DEFINE r == [q EXCEPT ![Len(q)].rex = @ + v]
           b == [Last(q) EXCEPT !.rex = @ + v]
<1>1. Front(q) \in Seq(Bucket) /\ Last(q) \in Bucket
  BY BucketsLast
<1>2. b \in Bucket /\ b.rex = Last(q).rex + v /\ b.time = Last(q).time
  BY <1>1 DEF Bucket
<1>3. r = Append(Front(q), b)
  <2>1. Len(q) \in Nat \ {0} /\ Last(q) = q[Len(q)] /\ Front(q) = SubSeq(q, 1, Len(q) - 1)
    BY DEF Last, Front
  <2>2. r = [q EXCEPT ![Len(q)] = b]
    <3>1. r = [q EXCEPT ![Len(q)] = [q[Len(q)] EXCEPT !.rex = q[Len(q)].rex + v]]
      OBVIOUS
    <3> QED
      BY <2>1, <3>1
  <2> HIDE DEF b, r
  <2>3. Append(Front(q), b) \in Seq(Bucket) /\ Len(Append(Front(q), b)) = Len(q)
        /\ Append(Front(q), b)[Len(q)] = b
        /\ \A i \in 1..(Len(q) - 1) : Append(Front(q), b)[i] = q[i]
    <3>1. Len(Front(q)) = Len(q) - 1 /\ \A i \in 1..(Len(q) - 1) : Front(q)[i] = q[i]
      <4>1. PICK f, l : f = Front(q) /\ l = Last(q)
        OBVIOUS
      <4>2. f \in Seq(Bucket) /\ q = Append(f, l)
        BY <1>1, <4>1, BucketsLast
      <4> QED
        BY <4>1, <4>2
    <3> QED
      BY <1>1, <1>2, <2>1, <3>1
  <2>4. r \in Seq(Bucket) /\ Len(r) = Len(q) /\ r[Len(q)] = b /\ \A i \in 1..(Len(q) - 1) : r[i] = q[i]
    BY <1>2, <2>1, <2>2
  <2> QED
    BY <2>1, <2>3, <2>4
<1> QED
  BY <1>2, <1>3

\* The buckets as they are when those before a time are empty.
Cut(q, time) ==
    [i \in DOMAIN q |-> [time |-> q[i].time, rex |-> IF q[i].time >= time THEN q[i].rex ELSE 0]]

\* What is locked until a time is what is in the buckets, with those before it empty.
LEMMA LockedCut ==
    ASSUME NEW q \in Seq(Bucket), NEW time
    PROVE  /\ Cut(q, time) \in Seq(Bucket) /\ Len(Cut(q, time)) = Len(q)
           /\ LockedIn(q, time) = InBuckets(Cut(q, time))
           /\ LockedIn(q, time) \in Nat
<1>1. DOMAIN q = 1..Len(q) /\ Len(q) \in Nat /\ \A i \in 1..Len(q) : q[i] \in Bucket
  BY BucketsNat
<1>2. PICK r : r = Cut(q, time)
  OBVIOUS
<1>3. r = [i \in 1..Len(q) |-> r[i]]
  BY <1>1, <1>2 DEF Cut
<1>4. \A i \in 1..Len(q) :
        r[i] \in Bucket /\ r[i].rex = IF q[i].time >= time THEN q[i].rex ELSE 0
  <2> SUFFICES ASSUME NEW i \in 1..Len(q)
               PROVE  r[i] \in Bucket /\ r[i].rex = IF q[i].time >= time THEN q[i].rex ELSE 0
    OBVIOUS
  <2>1. q[i].time \in Nat /\ q[i].rex \in Nat
    BY <1>1 DEF Bucket
  <2>2. PICK x : x = IF q[i].time >= time THEN q[i].rex ELSE 0
    OBVIOUS
  <2>3. x \in Nat
    BY <2>1, <2>2
  <2>4. r[i] = [time |-> q[i].time, rex |-> x]
    BY <1>1, <1>2, <2>2 DEF Cut
  <2> QED
    BY <2>1, <2>2, <2>3, <2>4 DEF Bucket
<1>5. r \in Seq(Bucket) /\ Len(r) = Len(q)
  BY <1>1, <1>3, <1>4
<1>6. LockedIn(q, time) = InBuckets(r)
  <2>1. DOMAIN r = DOMAIN q
    BY <1>1, <1>3
  <2>2. [i \in DOMAIN r |-> r[i].rex]
          = [i \in DOMAIN q |-> IF q[i].time >= time THEN q[i].rex ELSE 0]
    BY <1>1, <1>4, <2>1
  <2> QED
    BY <2>2 DEF LockedIn, InBuckets
<1>7. InBuckets(r) \in Nat
  BY <1>5, BucketsNat
<1> QED
  BY <1>2, <1>5, <1>6, <1>7

\* One bucket more.
LEMMA LockedAppend ==
    ASSUME NEW q \in Seq(Bucket), NEW b \in Bucket, NEW time
    PROVE  LockedIn(Append(q, b), time) =
             LockedIn(q, time) + IF b.time >= time THEN b.rex ELSE 0
<1>1. PICK r, x, c : /\ r = Append(q, b)
                     /\ x = (IF b.time >= time THEN b.rex ELSE 0)
                     /\ c = [time |-> b.time, rex |-> x]
  OBVIOUS
<1>2. r \in Seq(Bucket) /\ Len(r) = Len(q) + 1 /\ r[Len(q) + 1] = b /\ Len(q) \in Nat
      /\ \A i \in 1..Len(q) : r[i] = q[i]
  BY <1>1
<1>3. x \in Nat /\ c \in Bucket /\ c.rex = x
  BY <1>1 DEF Bucket
<1>4. /\ Cut(q, time) \in Seq(Bucket) /\ Len(Cut(q, time)) = Len(q)
      /\ Cut(r, time) \in Seq(Bucket) /\ Len(Cut(r, time)) = Len(r)
      /\ LockedIn(q, time) = InBuckets(Cut(q, time))
      /\ LockedIn(r, time) = InBuckets(Cut(r, time))
  BY <1>2, LockedCut
<1>5. PICK s, u : s = Cut(q, time) /\ u = Cut(r, time)
  OBVIOUS
<1>6. u = Append(s, c)
  <2>1. u[Len(q) + 1] = c
    <3>1. Len(q) + 1 \in DOMAIN r
      BY <1>2
    <3> QED
      BY <1>1, <1>2, <1>5, <3>1 DEF Cut
  <2>2. \A i \in 1..Len(q) : u[i] = s[i]
    <3>1. \A i \in 1..Len(q) : i \in DOMAIN r /\ i \in DOMAIN q
      BY <1>2
    <3> QED
      BY <1>2, <1>5, <3>1 DEF Cut
  <2>3. u \in Seq(Bucket) /\ Len(u) = Len(s) + 1 /\ s \in Seq(Bucket) /\ Len(s) = Len(q)
    BY <1>2, <1>4, <1>5
  <2> QED
    BY <1>3, <2>1, <2>2, <2>3
<1>7. InBuckets(u) = InBuckets(s) + c.rex
  BY <1>3, <1>4, <1>5, <1>6, BucketsAppend
<1> QED
  BY <1>1, <1>3, <1>4, <1>5, <1>7

\* Nothing is locked without buckets.
LEMMA LockedEmpty == ASSUME NEW time PROVE LockedIn(<<>>, time) = 0
<1>1. PICK q : q = <<>>
  OBVIOUS
<1>2. q \in Seq(Bucket) /\ Len(q) = 0
  BY <1>1
<1>3. Cut(q, time) \in Seq(Bucket) /\ Len(Cut(q, time)) = 0
      /\ LockedIn(q, time) = InBuckets(Cut(q, time))
  BY <1>2, LockedCut
<1>4. Cut(q, time) = <<>>
  BY <1>3
<1> QED
  BY <1>1, <1>3, <1>4, BucketsEmpty

\* No more is locked than is in the buckets.
LEMMA LockedPart ==
    ASSUME NEW q \in Seq(Bucket), NEW time
    PROVE  LockedIn(q, time) <= InBuckets(q)
<1> DEFINE f == [i \in DOMAIN q |-> IF q[i].time >= time THEN q[i].rex ELSE 0]
           g == [i \in DOMAIN q |-> IF q[i].time >= time THEN 0 ELSE q[i].rex]
           h == RexIn(q)
           S == 1..Len(q)
<1>1. DOMAIN q = S /\ IsFiniteSet(S) /\ InBuckets(q) = SumOver(h, S)
      /\ \A i \in S : h[i] = q[i].rex /\ q[i].rex \in Nat
  <2>1. IsFiniteSet(S)
    BY FS_Interval
  <2> QED
    BY <2>1, BucketsNat
<1>2. LockedIn(q, time) = SumOver(f, S)
  BY <1>1 DEF LockedIn, SumOf
<1>3. \A i \in S : f[i] \in Nat /\ g[i] \in Nat /\ h[i] = f[i] + g[i]
  BY <1>1
<1> HIDE DEF f, g, h, S
<1>4. IsPlus(h, f, g, S)
  BY <1>3 DEF IsPlus
<1>5. SumOver(h, S) = SumOver(f, S) + SumOver(g, S)
  BY <1>1, <1>4, SumPlus
<1>6. SumOver(f, S) \in Nat /\ SumOver(g, S) \in Nat
  BY <1>1, <1>3, SumNat
<1> QED
  BY <1>1, <1>2, <1>5, <1>6

\* Buckets before the time lock nothing.
LEMMA LockedNone ==
    ASSUME NEW q \in Seq(Bucket), NEW time, \A i \in 1..Len(q) : ~(q[i].time >= time)
    PROVE  LockedIn(q, time) = 0
<1> DEFINE f == [i \in DOMAIN q |-> IF q[i].time >= time THEN q[i].rex ELSE 0]
           S == 1..Len(q)
<1>1. DOMAIN q = S /\ IsFiniteSet(S) /\ Len(q) \in Nat
  <2>1. IsFiniteSet(S)
    BY FS_Interval
  <2> QED
    BY <2>1, BucketsNat
<1>2. LockedIn(q, time) = SumOver(f, S)
  BY <1>1 DEF LockedIn, SumOf
<1>3. \A i \in S : f[i] = 0
  BY <1>1
<1>4. PICK z : z = 0
  OBVIOUS
<1> HIDE DEF f, S
<1>5. IsEven(f, z, S)
  BY <1>3, <1>4 DEF IsEven
<1>6. SumOver(f, S) = z * Cardinality(S) /\ Cardinality(S) \in Nat
  BY <1>1, <1>5, SumConstant, FS_CardinalityType
<1> QED
  BY <1>2, <1>4, <1>6

\* Buckets at the front that are before the time lock nothing of what is locked.
LEMMA LockedSplit ==
    ASSUME NEW q \in Seq(Bucket), NEW n \in 0..Len(q), NEW time,
           \A i \in 1..n : ~(q[i].time >= time)
    PROVE  LockedIn(SubSeq(q, n + 1, Len(q)), time) = LockedIn(q, time)
<1> DEFINE front == SubSeq(q, 1, n)
           back == SubSeq(q, n + 1, Len(q))
           r == Cut(q, time)
<1>1. Len(q) \in Nat /\ n \in Nat /\ n <= Len(q)
  OBVIOUS
<1>2. front \in Seq(Bucket) /\ back \in Seq(Bucket)
  BY BucketsSplit
<1>3. Len(front) = n /\ Len(back) = Len(q) - n
      /\ (\A i \in 1..n : front[i] = q[i])
      /\ (\A i \in 1..(Len(q) - n) : back[i] = q[n + i])
  BY <1>1
<1>4. r \in Seq(Bucket) /\ Len(r) = Len(q) /\ LockedIn(q, time) = InBuckets(r)
  BY LockedCut
<1>5. \A i \in 1..Len(q) :
        r[i] = [time |-> q[i].time, rex |-> IF q[i].time >= time THEN q[i].rex ELSE 0]
  BY <1>1 DEF Cut
<1> HIDE DEF r
<1>6. /\ SubSeq(r, 1, n) \in Seq(Bucket) /\ SubSeq(r, n + 1, Len(q)) \in Seq(Bucket)
      /\ InBuckets(SubSeq(r, 1, n)) + InBuckets(SubSeq(r, n + 1, Len(q))) = InBuckets(r)
      /\ InBuckets(SubSeq(r, 1, n)) \in Nat /\ InBuckets(SubSeq(r, n + 1, Len(q))) \in Nat
  <2>1. n \in 0..Len(r)
    BY <1>1, <1>4
  <2> QED
    BY <1>4, <2>1, BucketsSplit
<1>7. Len(SubSeq(r, 1, n)) = n /\ Len(SubSeq(r, n + 1, Len(q))) = Len(q) - n
      /\ (\A i \in 1..n : SubSeq(r, 1, n)[i] = r[i])
      /\ (\A i \in 1..(Len(q) - n) : SubSeq(r, n + 1, Len(q))[i] = r[n + i])
  BY <1>1, <1>4
<1> HIDE DEF front, back
<1>8. ASSUME NEW s \in Seq(Bucket), NEW u \in Seq(Bucket), Len(u) = Len(s),
             \A i \in 1..Len(s) :
               u[i] = [time |-> s[i].time, rex |-> IF s[i].time >= time THEN s[i].rex ELSE 0]
      PROVE  LockedIn(s, time) = InBuckets(u)
  <2>1. Cut(s, time) \in Seq(Bucket) /\ Len(Cut(s, time)) = Len(s)
        /\ LockedIn(s, time) = InBuckets(Cut(s, time))
    BY LockedCut
  <2>2. \A i \in 1..Len(s) : Cut(s, time)[i] = u[i]
    BY <1>8 DEF Cut
  <2>3. Cut(s, time) = u
    BY <1>8, <2>1, <2>2
  <2> QED
    BY <2>1, <2>3
<1>9. LockedIn(back, time) = InBuckets(SubSeq(r, n + 1, Len(q)))
  <2>1. PICK u : u = SubSeq(r, n + 1, Len(q))
    OBVIOUS
  <2>2. \A i \in 1..Len(back) : n + i \in 1..Len(q) /\ u[i] = r[n + i] /\ back[i] = q[n + i]
    BY <1>1, <1>3, <1>7, <2>1
  <2>3. \A i \in 1..Len(back) : u[i] = [time |-> back[i].time,
             rex |-> IF back[i].time >= time THEN back[i].rex ELSE 0]
    BY <1>5, <2>2
  <2>4. u \in Seq(Bucket) /\ Len(u) = Len(back)
    BY <1>3, <1>6, <1>7, <2>1
  <2>5. LockedIn(back, time) = InBuckets(u)
    BY <1>2, <1>8, <2>3, <2>4
  <2> QED
    BY <2>1, <2>5
<1>10. LockedIn(front, time) = InBuckets(SubSeq(r, 1, n))
  <2>1. PICK u : u = SubSeq(r, 1, n)
    OBVIOUS
  <2>2. \A i \in 1..Len(front) : i \in 1..Len(q) /\ u[i] = r[i] /\ front[i] = q[i]
    BY <1>1, <1>3, <1>7, <2>1
  <2>3. \A i \in 1..Len(front) : u[i] = [time |-> front[i].time,
             rex |-> IF front[i].time >= time THEN front[i].rex ELSE 0]
    BY <1>5, <2>2
  <2> QED
    BY <1>2, <1>3, <1>6, <1>7, <1>8, <2>1, <2>3, ZenonT(30)
<1>11. LockedIn(front, time) = 0
  BY <1>2, <1>3, LockedNone
<1>12. LockedIn(back, time) = LockedIn(q, time)
  BY <1>4, <1>6, <1>9, <1>10, <1>11
<1> QED
  BY <1>12 DEF back

-----------------------------------------------------------------------------
(* The order of the buckets                                                *)

\* No buckets are in order.
LEMMA SortedEmpty == ASSUME NEW S PROVE Sorted(<<>>, S)
BY DEF Sorted

\* A later bucket goes to the end.
LEMMA SortedAppend ==
    ASSUME NEW q \in Seq(Bucket), NEW b \in Bucket, NEW S, Sorted(q, S), b.time \in S,
           \A i \in 1..Len(q) : q[i].time < b.time
    PROVE  Sorted(Append(q, b), S)
<1>1. PICK r : r = Append(q, b)
  OBVIOUS
<1>2. Len(r) = Len(q) + 1 /\ r[Len(q) + 1] = b /\ Len(q) \in Nat
      /\ \A i \in 1..Len(q) : r[i] = q[i]
  BY <1>1
<1>3. ASSUME NEW i \in 1..Len(r), NEW j \in 1..Len(r), i < j PROVE r[i].time < r[j].time
  <2>1. i \in 1..Len(q)
    BY <1>2, <1>3
  <2>2. CASE j = Len(q) + 1
    BY <1>2, <2>1, <2>2
  <2>3. CASE j # Len(q) + 1
    <3>1. j \in 1..Len(q)
      BY <1>2, <2>3
    <3> QED
      BY <1>2, <1>3, <2>1, <3>1 DEF Sorted
  <2> QED
    BY <2>2, <2>3
<1>4. ASSUME NEW i \in 1..Len(r) PROVE r[i].time \in S
  <2>1. CASE i = Len(q) + 1
    BY <1>2, <2>1
  <2>2. CASE i # Len(q) + 1
    <3>1. i \in 1..Len(q)
      BY <1>2, <2>2
    <3> QED
      BY <1>2, <3>1 DEF Sorted
  <2> QED
    BY <2>1, <2>2
<1> QED
  BY <1>1, <1>3, <1>4 DEF Sorted

\* The buckets in front of the last are in order, and before it.
LEMMA SortedFront ==
    ASSUME NEW q \in Seq(Bucket), q # <<>>, NEW S, Sorted(q, S)
    PROVE  /\ Sorted(Front(q), S) /\ Last(q).time \in S
           /\ \A i \in 1..Len(Front(q)) : Front(q)[i].time < Last(q).time
<1>1. PICK f, l : f = Front(q) /\ l = Last(q)
  OBVIOUS
<1>2. f \in Seq(Bucket) /\ q = Append(f, l)
  BY <1>1, BucketsLast
<1>3. Len(q) = Len(f) + 1 /\ q[Len(f) + 1] = l /\ Len(f) \in Nat
      /\ \A i \in 1..Len(f) : q[i] = f[i]
  BY <1>2
<1>4. \A i \in 1..Len(f) : i \in 1..Len(q) /\ i < Len(f) + 1
  BY <1>3
<1>5. Len(f) + 1 \in 1..Len(q)
  BY <1>3
<1>6. Sorted(f, S)
  <2>1. ASSUME NEW i \in 1..Len(f), NEW j \in 1..Len(f), i < j PROVE f[i].time < f[j].time
    BY <1>3, <1>4, <2>1 DEF Sorted
  <2>2. ASSUME NEW i \in 1..Len(f) PROVE f[i].time \in S
    BY <1>3, <1>4 DEF Sorted
  <2> QED
    BY <2>1, <2>2 DEF Sorted
<1>7. l.time \in S /\ \A i \in 1..Len(f) : f[i].time < l.time
  BY <1>3, <1>4, <1>5 DEF Sorted
<1> QED
  BY <1>1, <1>6, <1>7

\* The buckets from one on are in order.
LEMMA SortedBack ==
    ASSUME NEW q \in Seq(Bucket), NEW n \in 0..Len(q), NEW S, Sorted(q, S)
    PROVE  Sorted(SubSeq(q, n + 1, Len(q)), S)
<1>1. PICK r : r = SubSeq(q, n + 1, Len(q))
  OBVIOUS
<1>2. Len(q) \in Nat /\ n \in Nat /\ n <= Len(q)
  OBVIOUS
<1>3. Len(r) = Len(q) - n /\ \A i \in 1..(Len(q) - n) : r[i] = q[n + i]
  BY <1>1, <1>2
<1>4. \A i \in 1..Len(r) : n + i \in 1..Len(q) /\ r[i] = q[n + i]
  BY <1>2, <1>3
<1>5. \A i, j \in 1..Len(r) : i < j => n + i < n + j
  BY <1>2, <1>3
<1> QED
  BY <1>1, <1>4, <1>5 DEF Sorted

-----------------------------------------------------------------------------
(* The locks of a row                                                      *)

\* The maturities of a row are written.
LEMMA RowMaturities ==
    ASSUME NEW b, IsRow(b), NEW q
    PROVE  /\ [b EXCEPT !.maturities = q].maturities = q
           /\ \A v : WithBuckets(b, v, q).maturities = q
<1>1. b = [x \in RowFields |-> b[x]]
  BY DEF IsRow
<1> QED
  BY <1>1, SMT DEF RowFields, WithBuckets

\* The savings that are taken out were locked to the end of days.
LEMMA LockWithoutSavings ==
    ASSUME NEW b, NEW s, Holds(b, s), NEW m \in Nat, m < end_of_days,
           Sorted(b.maturities, 0..m \cup {end_of_days})
    PROVE  /\ Sorted(WithoutSavings(b).maturities, 0..m)
           /\ \A time \in Nat : time <= m =>
                LockedIn(WithoutSavings(b).maturities, time)
                  = LockedIn(b.maturities, time) - read_rex_savings(b)
<1>1. IsRow(b) /\ b.maturities \in Seq(Bucket) /\ end_of_days \in Nat
  BY RowParts, RexTablesAssumption
<1>2. PICK q, w : q = b.maturities /\ w = WithoutSavings(b).maturities
  OBVIOUS
<1>3. CASE HasSavings(b)
  <2>1. PICK f, l : f = Front(q) /\ l = Last(q)
    OBVIOUS
  <2>2. q # <<>> /\ l.time = end_of_days /\ read_rex_savings(b) = l.rex
    BY <1>2, <1>3, <2>1 DEF HasSavings, read_rex_savings
  <2>3. w = f
    BY <1>1, <1>2, <1>3, <2>1, RowMaturities DEF WithoutSavings
  <2>4. f \in Seq(Bucket) /\ l \in Bucket /\ q = Append(f, l)
    BY <1>1, <1>2, <2>1, <2>2, BucketsLast
  <2>5. Sorted(f, 0..m \cup {end_of_days}) /\ \A i \in 1..Len(f) : f[i].time < end_of_days
    BY <1>1, <1>2, <2>1, <2>2, SortedFront
  <2>6. Sorted(f, 0..m)
    <3>1. \A i \in 1..Len(f) : f[i].time \in 0..m
      BY <1>1, <2>5 DEF Sorted
    <3> QED
      BY <2>5, <3>1 DEF Sorted
  <2>7. ASSUME NEW time \in Nat, time <= m PROVE LockedIn(f, time) = LockedIn(q, time) - l.rex
    <3>1. l.time >= time /\ l.rex \in Nat
      BY <1>1, <2>2, <2>4, <2>7 DEF Bucket
    <3>2. LockedIn(q, time) = LockedIn(f, time) + l.rex
      BY <2>4, <3>1, LockedAppend
    <3>3. LockedIn(f, time) \in Nat
      BY <2>4, LockedCut
    <3> QED
      BY <3>1, <3>2, <3>3
  <2> QED
    BY <1>2, <2>2, <2>3, <2>6, <2>7
<1>4. CASE ~HasSavings(b)
  <2>1. w = q /\ read_rex_savings(b) = 0
    BY <1>2, <1>4 DEF WithoutSavings, read_rex_savings
  <2>2. Sorted(q, 0..m)
    <3>1. CASE q = <<>>
      BY <3>1, SortedEmpty
    <3>2. CASE q # <<>>
      <4>1. /\ Sorted(q, 0..m \cup {end_of_days})
            /\ Last(q).time \in 0..m
        BY <1>1, <1>2, <1>4, <3>2, SortedFront DEF HasSavings
      <4>2. Len(q) \in Nat \ {0} /\ Last(q) = q[Len(q)]
        BY <1>1, <1>2, <3>2 DEF Last
      <4>3. ASSUME NEW i \in 1..Len(q) PROVE q[i].time \in 0..m
        <5>1. CASE i = Len(q)
          BY <4>1, <4>2, <5>1
        <5>2. CASE i # Len(q)
          <6>1. i < Len(q) /\ Len(q) \in 1..Len(q)
            BY <4>2, <5>2
          <6>2. q[i].time < q[Len(q)].time /\ q[i].time \in 0..m \cup {end_of_days}
            BY <4>1, <6>1 DEF Sorted
          <6> QED
            BY <1>1, <4>1, <4>2, <6>2
        <5> QED
          BY <5>1, <5>2
      <4> QED
        BY <4>1, <4>3 DEF Sorted
    <3> QED
      BY <3>1, <3>2
  <2>3. \A time \in Nat : LockedIn(q, time) = LockedIn(q, time) - 0
    BY <1>1, <1>2, LockedCut
  <2> QED
    BY <1>2, <2>1, <2>2, <2>3
<1> QED
  BY <1>3, <1>4

\* What matures by the clock was not locked beyond it.
LEMMA LockMatures ==
    ASSUME NEW b, NEW s, Holds(b, s), NEW clock \in Nat, NEW S, Sorted(b.maturities, S)
    PROVE  /\ Sorted(process_rex_maturities(b, clock).maturities, S)
           /\ \A time \in Nat : clock < time =>
                LockedIn(process_rex_maturities(b, clock).maturities, time)
                  = LockedIn(b.maturities, time)
<1> DEFINE q == b.maturities
           T == {k \in 0..Len(q) : \A i \in 1..k : q[i].time <= clock}
           n == Max(T)
           back == SubSeq(q, n + 1, Len(q))
           p == process_rex_maturities(b, clock)
<1>1. q \in Seq(Bucket) /\ Len(q) \in Nat /\ b.matured \in Nat /\ IsRow(b)
  BY RowParts
<1>2. n \in T
  <2>1. T \in SUBSET (0..Len(q)) /\ 0 \in T
    BY <1>1
  <2> HIDE DEF T
  <2> QED
    BY <1>1, <2>1, GreatestNumber
<1>3. n \in 0..Len(q) /\ \A i \in 1..n : q[i].time <= clock
  BY <1>2
<1>4. p = [b EXCEPT !.matured = @ + InBuckets(SubSeq(q, 1, n)), !.maturities = back]
  BY DEF process_rex_maturities
<1> HIDE DEF n, T
<1>5. p.maturities = back
  <2>1. PICK v : v = b.matured + InBuckets(SubSeq(q, 1, n))
    OBVIOUS
  <2>2. PICK r : r = back
    OBVIOUS
  <2>3. p = WithBuckets(b, v, r)
    BY <1>4, <2>1, <2>2 DEF WithBuckets
  <2>4. WithBuckets(b, v, r).maturities = r
    BY <1>1, RowMaturities
  <2> HIDE DEF p
  <2> QED
    BY <2>2, <2>3, <2>4
<1> HIDE DEF p, q
<1>6. Sorted(back, S)
  BY <1>1, <1>3, SortedBack DEF q
<1>7. ASSUME NEW time \in Nat, clock < time PROVE LockedIn(back, time) = LockedIn(q, time)
  <2>1. ASSUME NEW i \in 1..n PROVE ~(q[i].time >= time)
    <3>1. i \in 1..Len(q)
      BY <1>1, <1>3
    <3>2. q[i] \in Bucket
      BY <1>1, <3>1
    <3>3. q[i].time \in Nat
      BY <3>2 DEF Bucket
    <3>4. q[i].time <= clock
      BY <1>3
    <3> QED
      BY <1>7, <3>3, <3>4
  <2> QED
    BY <1>1, <1>3, <2>1, LockedSplit
<1> QED
  BY <1>5, <1>6, <1>7 DEF p, q

\* REX put into a bucket that is the last, or comes after it, is locked until its time.
LEMMA LockAddBucket ==
    ASSUME NEW b, NEW s, Holds(b, s), NEW at \in Nat, NEW rex \in Nat, NEW S,
           Sorted(b.maturities, S), at \in S,
           \A i \in 1..Len(b.maturities) : b.maturities[i].time <= at
    PROVE  /\ Sorted(AddBucket(b, at, rex).maturities, S)
           /\ \A time \in Nat : time <= at =>
                LockedIn(AddBucket(b, at, rex).maturities, time)
                  = LockedIn(b.maturities, time) + rex
<1>1. IsRow(b) /\ b.maturities \in Seq(Bucket)
  BY RowParts
<1>2. PICK q, p : q = b.maturities /\ p = AddBucket(b, at, rex).maturities
  OBVIOUS
<1>3. q \in Seq(Bucket) /\ DOMAIN q = 1..Len(q) /\ Len(q) \in Nat
      /\ \A i \in 1..Len(q) : q[i].time \in Nat /\ q[i].time <= at
  <2>1. \A i \in 1..Len(q) : q[i] \in Bucket
    BY <1>1, <1>2
  <2> QED
    BY <1>1, <1>2, <2>1, SMTT(30) DEF Bucket
<1>4. CASE q # <<>> /\ Last(q).time = at
  <2>1. PICK f, l : f = Front(q) /\ l = Last(q)
    OBVIOUS
  <2>2. f \in Seq(Bucket) /\ l \in Bucket /\ q = Append(f, l) /\ l.rex \in Nat
    <3>1. f \in Seq(Bucket) /\ l \in Bucket /\ q = Append(f, l)
      BY <1>3, <1>4, <2>1, BucketsLast
    <3> QED
      BY <3>1 DEF Bucket
  <2>3. PICK x : x = [l EXCEPT !.rex = @ + rex]
    OBVIOUS
  <2>4. PICK r : r = [q EXCEPT ![Len(q)].rex = @ + rex]
    OBVIOUS
  <2>5. x \in Bucket /\ x.rex = l.rex + rex /\ x.time = at /\ r = Append(f, x)
    <3>1. q \in Seq(Bucket) /\ q # <<>> /\ rex \in Int /\ Last(q).rex + rex \in Nat
      BY <1>3, <1>4, <2>1, <2>2, SMTT(30)
    <3> QED
      BY <1>4, <2>1, <2>3, <2>4, <3>1, LastRaised
  <2>6. p = r
    <3>1. AddBucket(b, at, rex) = [b EXCEPT !.maturities[Len(b.maturities)].rex = @ + rex]
      BY <1>2, <1>4 DEF AddBucket
    <3>2. b = [y \in RowFields |-> b[y]]
      BY <1>1 DEF IsRow
    <3>3. AddBucket(b, at, rex) = [b EXCEPT !.maturities = r]
      BY <1>2, <2>4, <3>1, <3>2, SMT DEF RowFields
    <3> QED
      BY <1>1, <1>2, <3>3, RowMaturities
  <2>7. Sorted(r, S)
    <3>1. /\ Sorted(f, S)
          /\ \A i \in 1..Len(f) : f[i].time < l.time
      BY <1>2, <1>3, <1>4, <2>1, SortedFront
    <3>2. \A i \in 1..Len(f) : f[i].time < x.time
      BY <1>4, <2>1, <2>5, <3>1
    <3> QED
      BY <2>2, <2>5, <3>1, <3>2, SortedAppend
  <2>8. ASSUME NEW time \in Nat, time <= at PROVE LockedIn(r, time) = LockedIn(q, time) + rex
    <3>1. x.time >= time /\ l.time >= time
      BY <1>4, <2>1, <2>5, <2>8
    <3>2. LockedIn(r, time) = LockedIn(f, time) + x.rex /\ LockedIn(q, time) = LockedIn(f, time) + l.rex
      BY <2>2, <2>5, <3>1, LockedAppend
    <3>3. LockedIn(f, time) \in Nat
      BY <2>2, LockedCut
    <3> QED
      BY <2>2, <2>5, <3>2, <3>3
  <2> QED
    BY <1>2, <2>6, <2>7, <2>8
<1>5. CASE ~(q # <<>> /\ Last(q).time = at)
  <2>1. PICK x, r : x = [time |-> at, rex |-> rex] /\ r = Append(q, x)
    OBVIOUS
  <2>2. x \in Bucket /\ x.rex = rex /\ x.time = at
    BY <2>1 DEF Bucket
  <2>3. p = r
    <3>1. AddBucket(b, at, rex) = [b EXCEPT !.maturities = r]
      BY <1>2, <1>5, <2>1 DEF AddBucket
    <3> QED
      BY <1>1, <1>2, <3>1, RowMaturities
  <2>4. ASSUME NEW i \in 1..Len(q) PROVE q[i].time < at
    <3>1. q # <<>> /\ Last(q) = q[Len(q)] /\ Len(q) \in 1..Len(q)
      BY <1>3 DEF Last
    <3>2. q[Len(q)].time # at /\ q[Len(q)].time <= at /\ q[Len(q)].time \in Nat
      BY <1>3, <1>5, <3>1
    <3>3. i = Len(q) \/ q[i].time < q[Len(q)].time
      BY <1>2, <1>3, <3>1 DEF Sorted
    <3>4. PICK y, z : y = q[i].time /\ z = q[Len(q)].time
      OBVIOUS
    <3>5. y \in Nat /\ z \in Nat /\ z < at
      BY <1>3, <3>2, <3>4
    <3>6. y < at
      BY <3>2, <3>3, <3>4, <3>5
    <3> QED
      BY <3>4, <3>6
  <2>5. Sorted(r, S)
    <3>1. q \in Seq(Bucket) /\ Sorted(q, S) /\ x \in Bucket /\ x.time \in S
      BY <1>2, <1>3, <2>2
    <3>2. \A i \in 1..Len(q) : q[i].time < x.time
      BY <2>2, <2>4
    <3>3. Sorted(Append(q, x), S)
      BY <3>1, <3>2, SortedAppend
    <3> QED
      BY <2>1, <3>3
  <2>6. ASSUME NEW time \in Nat, time <= at PROVE LockedIn(r, time) = LockedIn(q, time) + rex
    <3>1. x.time >= time
      BY <2>2, <2>6
    <3>2. LockedIn(Append(q, x), time) = LockedIn(q, time) + IF x.time >= time THEN x.rex ELSE 0
      BY <1>3, <2>2, LockedAppend
    <3> QED
      BY <2>1, <2>2, <3>1, <3>2
  <2> QED
    BY <1>2, <2>3, <2>5, <2>6
<1> QED
  BY <1>4, <1>5

\* Savings that are put back, after the other buckets, are locked to the end of days.
LEMMA LockPutSavings ==
    ASSUME NEW b, NEW s, Holds(b, s), NEW rex \in Nat, NEW m \in Nat, m < end_of_days,
           Sorted(b.maturities, 0..m)
    PROVE  /\ Sorted(put_rex_savings(b, rex).maturities, 0..m \cup {end_of_days})
           /\ \A time \in Nat : time <= m =>
                LockedIn(put_rex_savings(b, rex).maturities, time)
                  = LockedIn(b.maturities, time) + rex
<1>1. b.maturities \in Seq(Bucket) /\ end_of_days \in Nat
  BY RowParts, RexTablesAssumption
<1>2. Sorted(b.maturities, 0..m \cup {end_of_days})
  BY DEF Sorted
<1>3. CASE rex = 0
  <2>1. \A time \in Nat : LockedIn(b.maturities, time) = LockedIn(b.maturities, time) + rex
    BY <1>1, <1>3, LockedCut
  <2> QED
    BY <1>2, <1>3, <2>1 DEF put_rex_savings
<1>4. CASE rex # 0
  <2>1. put_rex_savings(b, rex) = AddBucket(b, end_of_days, rex)
    BY <1>4 DEF put_rex_savings
  <2>2. \A i \in 1..Len(b.maturities) : b.maturities[i].time <= end_of_days
    BY <1>1 DEF Sorted
  <2>3. \A time \in Nat : time <= m => time <= end_of_days
    BY <1>1
  <2>4. PICK S : S = 0..m \cup {end_of_days}
    OBVIOUS
  <2>5. Sorted(b.maturities, S) /\ end_of_days \in S
    BY <1>2, <2>4
  <2>6. /\ Sorted(AddBucket(b, end_of_days, rex).maturities, S)
        /\ \A time \in Nat : time <= end_of_days =>
             LockedIn(AddBucket(b, end_of_days, rex).maturities, time)
               = LockedIn(b.maturities, time) + rex
    BY <1>1, <2>2, <2>5, LockAddBucket
  <2> QED
    BY <2>1, <2>3, <2>4, <2>6
<1> QED
  BY <1>3, <1>4

\* A row whose savings are taken out, and whose due buckets have matured.
LEMMA LockRegular ==
    ASSUME NEW b, NEW s, Holds(b, s), NEW clock \in Nat, NEW m \in Nat, m < end_of_days,
           InOrder(b.maturities, m)
    PROVE  LET r == process_rex_maturities(WithoutSavings(b), clock)
           IN  /\ Sorted(r.maturities, 0..m)
               /\ \A time \in Nat : clock < time /\ time <= m =>
                    LockedIn(r.maturities, time) + read_rex_savings(b)
                      = LockedIn(b.maturities, time)
<1>1. PICK w, r, v : /\ w = WithoutSavings(b) /\ r = process_rex_maturities(w, clock)
                     /\ v = read_rex_savings(b)
  OBVIOUS
<1>2. /\ Sorted(w.maturities, 0..m)
      /\ \A time \in Nat : time <= m =>
           LockedIn(w.maturities, time) = LockedIn(b.maturities, time) - v
  BY <1>1, LockWithoutSavings DEF InOrder
<1>3. PICK u : Holds(w, u)
  BY <1>1, RowWithoutSavings
<1>4. /\ Sorted(r.maturities, 0..m)
      /\ \A time \in Nat : clock < time =>
           LockedIn(r.maturities, time) = LockedIn(w.maturities, time)
  <2>1. PICK S : S = 0..m
    OBVIOUS
  <2>2. Sorted(w.maturities, S)
    BY <1>2, <2>1
  <2> QED
    BY <1>1, <1>3, <2>1, <2>2, LockMatures
<1>5. ASSUME NEW time \in Nat, clock < time, time <= m
      PROVE  LockedIn(r.maturities, time) + v = LockedIn(b.maturities, time)
  <2>1. LockedIn(r.maturities, time) = LockedIn(b.maturities, time) - v
    BY <1>2, <1>4, <1>5
  <2>2. LockedIn(b.maturities, time) \in Nat /\ v \in Nat
    BY <1>1, RowParts, LockedCut, RowWithoutSavings
  <2> QED
    BY <2>1, <2>2
<1> QED
  BY <1>1, <1>4, <1>5

\* A bucket added to a row by the clock, and savings put back to its end.
LEMMA LockRestored ==
    ASSUME NEW b, NEW s, Holds(b, s), NEW clock \in Nat, NEW x \in Nat, NEW y \in Nat,
           NEW v \in Int, v + read_rex_savings(b) = x + y
    PROVE  LET regular == process_rex_maturities(WithoutSavings(b), clock)
               r == put_rex_savings(AddBucket(regular, MaturityOf(clock), x), y)
           IN  LockRaised(b.maturities, r.maturities, clock, v)
<1>1. PICK n, u, z : n = MaturityOf(clock) /\ u = read_rex_savings(b) /\ z = b.maturities
  OBVIOUS
<1>2. PICK m : m = process_rex_maturities(WithoutSavings(b), clock)
  OBVIOUS
<1>3. PICK a : a = AddBucket(m, n, x)
  OBVIOUS
<1>4. PICK r : r = put_rex_savings(a, y)
  OBVIOUS
<1>5. n \in Nat /\ u \in Nat /\ z \in Seq(Bucket)
  BY <1>1, MaturityNat, RowWithoutSavings, RowParts
<1>6. PICK w : Holds(m, w)
  <2>1. PICK g : Holds(WithoutSavings(b), g)
    BY RowWithoutSavings
  <2> QED
    BY <1>2, <2>1, RowMatures
<1>7. PICK h : Holds(a, h)
  BY <1>3, <1>5, <1>6, RowAddBucket
<1>8. ASSUME n < end_of_days, InOrder(z, n)
      PROVE  /\ InOrder(r.maturities, n)
             /\ \A time \in Nat : clock < time /\ time <= n =>
                  LockedIn(z, time) + v <= LockedIn(r.maturities, time)
  <2>1. /\ Sorted(m.maturities, 0..n)
        /\ \A time \in Nat : clock < time /\ time <= n =>
             LockedIn(m.maturities, time) + u = LockedIn(z, time)
    BY <1>1, <1>2, <1>5, <1>8, LockRegular
  <2>2. /\ Sorted(a.maturities, 0..n)
        /\ \A time \in Nat : time <= n =>
             LockedIn(a.maturities, time) = LockedIn(m.maturities, time) + x
    <3>1. PICK S : S = 0..n
      OBVIOUS
    <3>2. Sorted(m.maturities, S) /\ n \in S
      BY <1>5, <2>1, <3>1
    <3>3. \A i \in 1..Len(m.maturities) : m.maturities[i].time <= n
      BY <1>5, <2>1 DEF Sorted
    <3>4. /\ Sorted(a.maturities, S)
          /\ \A time \in Nat : time <= n =>
               LockedIn(a.maturities, time) = LockedIn(m.maturities, time) + x
      BY <1>3, <1>5, <1>6, <3>2, <3>3, LockAddBucket
    <3> QED
      BY <3>1, <3>4
  <2>3. /\ Sorted(r.maturities, 0..n \cup {end_of_days})
        /\ \A time \in Nat : time <= n =>
             LockedIn(r.maturities, time) = LockedIn(a.maturities, time) + y
    <3>1. PICK put : put = put_rex_savings(a, y)
      OBVIOUS
    <3>2. Holds(a, h) /\ y \in Nat /\ n \in Nat /\ n < end_of_days /\ Sorted(a.maturities, 0..n)
      BY <1>3, <1>5, <1>7, <1>8, <2>2
    <3>3. /\ Sorted(put.maturities, 0..n \cup {end_of_days})
          /\ \A time \in Nat : time <= n =>
               LockedIn(put.maturities, time) = LockedIn(a.maturities, time) + y
      BY <3>1, <3>2, LockPutSavings, ZenonT(30)
    <3>4. r = put
      BY <1>4, <3>1
    <3> QED
      BY <3>3, <3>4
  <2>4. ASSUME NEW time \in Nat, clock < time, time <= n
        PROVE  LockedIn(z, time) + v <= LockedIn(r.maturities, time)
    <3>1. PICK i, j, k, l : /\ i = LockedIn(z, time) /\ j = LockedIn(m.maturities, time)
                            /\ k = LockedIn(a.maturities, time) /\ l = LockedIn(r.maturities, time)
      OBVIOUS
    <3>2. i \in Nat /\ j \in Nat
      BY <1>5, <1>6, <3>1, RowParts, LockedCut
    <3>3. j + u = i /\ k = j + x /\ l = k + y
      BY <2>1, <2>2, <2>3, <2>4, <3>1
    <3>4. v + u = x + y
      BY <1>1
    <3>5. i + v <= l
      BY <1>5, <3>2, <3>3, <3>4
    <3> QED
      BY <3>1, <3>5
  <2> QED
    BY <2>3, <2>4 DEF InOrder
<1>9. LockRaised(z, r.maturities, clock, v)
  BY <1>1, <1>8 DEF LockRaised
<1> QED
  BY <1>1, <1>2, <1>3, <1>4, <1>9

\* What has been taken from the back of some buckets, and what they still hold.
TakenFrom(s, q, rex) ==
    /\ s.missing \in Nat /\ s.left \in Seq(Bucket)
    /\ InBuckets(s.left) + rex - s.missing = InBuckets(q)
    /\ \A time \in Nat : LockedIn(q, time) + s.missing <= LockedIn(s.left, time) + rex
    /\ \A S : Sorted(q, S) => Sorted(s.left, S)

\* One turn of the loop of mvtosavings takes what is missing, or a whole bucket.
LEMMA TakeOnce ==
    ASSUME NEW s, NEW q \in Seq(Bucket), NEW rex, TakenFrom(s, q, rex), rex \in Nat,
           InBuckets(q) \in Nat
    PROVE  TakenFrom(TakeFromLast(s), q, rex)
<1>1. PICK m, left : m = s.missing /\ left = s.left
  OBVIOUS
<1>2. m \in Nat /\ left \in Seq(Bucket) /\ InBuckets(left) + rex - m = InBuckets(q)
  BY <1>1 DEF TakenFrom
<1>3. /\ \A time \in Nat : LockedIn(q, time) + m <= LockedIn(left, time) + rex
      /\ \A S : Sorted(q, S) => Sorted(left, S)
  BY <1>1 DEF TakenFrom
<1>4. CASE m = 0 \/ left = <<>>
  BY <1>1, <1>4 DEF TakeFromLast
<1>5. CASE ~(m = 0 \/ left = <<>>)
  <2>1. PICK f, l : f = Front(left) /\ l = Last(left)
    OBVIOUS
  <2>2. /\ f \in Seq(Bucket) /\ InBuckets(left) = InBuckets(f) + l.rex
        /\ InBuckets(f) \in Nat /\ l.rex \in Nat
    <3>1. l \in Bucket /\ f \in Seq(Bucket) /\ InBuckets(left) = InBuckets(f) + l.rex
      BY <1>2, <1>5, <2>1, BucketsLast
    <3>2. InBuckets(f) \in Nat
      BY <3>1, BucketsNat
    <3> QED
      BY <3>1, <3>2 DEF Bucket
  <2>3. ASSUME NEW time \in Nat
        PROVE  \E z, y : /\ z \in Nat /\ LockedIn(f, time) \in Nat /\ LockedIn(q, time) \in Nat
                         /\ LockedIn(q, time) + m <= LockedIn(f, time) + z + rex
                         /\ y = l.time /\ z = IF y >= time THEN l.rex ELSE 0
    <3>1. PICK z, y : y = l.time /\ z = IF y >= time THEN l.rex ELSE 0
      OBVIOUS
    <3>2. left = Append(f, l) /\ l \in Bucket
      BY <1>2, <1>5, <2>1, BucketsLast
    <3>3. LockedIn(left, time) = LockedIn(f, time) + z
      BY <2>2, <3>1, <3>2, LockedAppend
    <3>4. LockedIn(f, time) \in Nat /\ LockedIn(q, time) \in Nat
      BY <2>2, LockedCut
    <3>5. LockedIn(q, time) + m <= LockedIn(f, time) + z + rex
      BY <1>3, <3>3
    <3> QED
      BY <2>2, <3>1, <3>4, <3>5
  <2>4. ASSUME NEW S, Sorted(q, S)
        PROVE  /\ Sorted(f, S) /\ l.time \in S
               /\ \A i \in 1..Len(f) : f[i].time < l.time
    BY <1>2, <1>5, <1>3, <2>1, <2>4, SortedFront
  <2>5. CASE l.rex <= m
    <3>1. TakeFromLast(s) = [missing |-> m - l.rex, left |-> f]
      BY <1>1, <1>5, <2>1, <2>5 DEF TakeFromLast
    <3>2. m - l.rex \in Nat /\ InBuckets(f) + rex - (m - l.rex) = InBuckets(q)
      BY <1>2, <2>2, <2>5, SMTT(30)
    <3>3. ASSUME NEW time \in Nat
          PROVE  LockedIn(q, time) + (m - l.rex) <= LockedIn(f, time) + rex
      <4>1. PICK z, y : /\ z \in Nat /\ LockedIn(f, time) \in Nat /\ LockedIn(q, time) \in Nat
                        /\ LockedIn(q, time) + m <= LockedIn(f, time) + z + rex
                        /\ y = l.time /\ z = IF y >= time THEN l.rex ELSE 0
        BY <2>3
      <4>2. PICK i, j, k : i = LockedIn(q, time) /\ j = LockedIn(f, time) /\ k = l.rex
        OBVIOUS
      <4>3. /\ i \in Nat /\ j \in Nat /\ k \in Nat /\ z \in Nat /\ z <= k
            /\ i + m <= j + z + rex
        BY <2>2, <4>1, <4>2
      <4>4. i + (m - k) <= j + rex
        BY <1>2, <4>3
      <4> QED
        BY <4>2, <4>4
    <3> QED
      BY <2>2, <2>4, <3>1, <3>2, <3>3 DEF TakenFrom
  <2>6. CASE ~(l.rex <= m)
    <3> DEFINE r == [left EXCEPT ![Len(left)].rex = @ + (-m)]
    <3>1. TakeFromLast(s) = [missing |-> 0, left |-> [left EXCEPT ![Len(left)].rex = @ - m]]
      BY <1>1, <1>5, <2>1, <2>6 DEF TakeFromLast
    <3>2. [left EXCEPT ![Len(left)].rex = @ - m] = r
      <4>1. left[Len(left)] = l
        BY <2>1 DEF Last
      <4>2. l.rex - m = l.rex + (-m)
        BY <1>2, <2>2
      <4> QED
        BY <4>1, <4>2, Zenon
    <3>3. r \in Seq(Bucket) /\ InBuckets(r) = InBuckets(left) - m
      <4>1. PICK v : v = -m
        OBVIOUS
      <4>2. v \in Int /\ Last(left).rex + v \in Nat /\ left # <<>>
        BY <1>2, <1>5, <2>1, <2>2, <2>6, <4>1, SMTT(30)
      <4>3. LET x == [left EXCEPT ![Len(left)].rex = @ + v]
            IN  x \in Seq(Bucket) /\ InBuckets(x) = InBuckets(left) + v
        BY <1>2, <4>2, BucketsRaise
      <4>4. r \in Seq(Bucket) /\ InBuckets(r) = InBuckets(left) + v
        BY <4>1, <4>3
      <4> HIDE DEF r
      <4>5. InBuckets(left) \in Nat
        BY <1>2, BucketsNat
      <4> QED
        BY <1>2, <4>1, <4>4, <4>5
    <3> HIDE DEF r
    <3>4. InBuckets(r) + rex - 0 = InBuckets(q)
      <4>1. InBuckets(left) \in Nat
        BY <1>2, BucketsNat
      <4> QED
        BY <1>2, <3>3, <4>1
    <3>5. TakeFromLast(s) = [missing |-> 0, left |-> r]
      BY <3>1, <3>2
    <3>6. PICK b : b \in Bucket /\ b.rex = l.rex - m /\ b.time = l.time /\ r = Append(f, b)
      <4>1. PICK v : v = -m
        OBVIOUS
      <4>2. v \in Int /\ Last(left).rex + v \in Nat /\ left # <<>> /\ l.rex + v = l.rex - m
        BY <1>2, <1>5, <2>1, <2>2, <2>6, <4>1, SMTT(30)
      <4>3. LET x == [left EXCEPT ![Len(left)].rex = @ + v]
                b == [Last(left) EXCEPT !.rex = @ + v]
            IN  /\ b \in Bucket /\ b.rex = Last(left).rex + v /\ b.time = Last(left).time
                /\ x = Append(Front(left), b)
        BY <1>2, <4>2, LastRaised
      <4>4. PICK b : b = [Last(left) EXCEPT !.rex = @ + v]
        OBVIOUS
      <4>5. /\ b \in Bucket /\ b.rex = l.rex + v /\ b.time = l.time
            /\ [left EXCEPT ![Len(left)].rex = @ + v] = Append(f, b)
        BY <2>1, <4>3, <4>4
      <4>6. r = Append(f, b)
        BY <4>1, <4>5 DEF r
      <4> QED
        BY <4>2, <4>5, <4>6
    <3>7. ASSUME NEW time \in Nat
          PROVE  LockedIn(q, time) + 0 <= LockedIn(r, time) + rex
      <4>1. PICK z, y : /\ z \in Nat /\ LockedIn(f, time) \in Nat /\ LockedIn(q, time) \in Nat
                        /\ LockedIn(q, time) + m <= LockedIn(f, time) + z + rex
                        /\ y = l.time /\ z = IF y >= time THEN l.rex ELSE 0
        BY <2>3
      <4>2. PICK w : w = IF y >= time THEN l.rex - m ELSE 0
        OBVIOUS
      <4>3. LockedIn(r, time) = LockedIn(f, time) + w
        BY <2>2, <3>6, <4>1, <4>2, LockedAppend
      <4>4. PICK i, j, k, x : /\ i = LockedIn(q, time) /\ j = LockedIn(f, time) /\ k = l.rex
                              /\ x = LockedIn(r, time)
        OBVIOUS
      <4>5. /\ i \in Nat /\ j \in Nat /\ k \in Nat /\ z \in Nat /\ x = j + w
            /\ i + m <= j + z + rex
        BY <2>2, <4>1, <4>3, <4>4
      <4>6. w \in Int /\ z <= w + m
        <5>1. CASE y >= time
          <6>1. z = k /\ w = k - m
            BY <4>1, <4>2, <4>4, <5>1
          <6> QED
            BY <1>2, <4>5, <6>1
        <5>2. CASE ~(y >= time)
          <6>1. z = 0 /\ w = 0
            BY <4>1, <4>2, <5>2
          <6> QED
            BY <1>2, <6>1
        <5> QED
          BY <5>1, <5>2
      <4>7. i + 0 <= x + rex
        BY <1>2, <4>5, <4>6
      <4> QED
        BY <4>4, <4>7
    <3>8. ASSUME NEW S, Sorted(q, S) PROVE Sorted(r, S)
      <4>1. /\ Sorted(f, S) /\ l.time \in S
            /\ \A i \in 1..Len(f) : f[i].time < l.time
        BY <2>4, <3>8
      <4> QED
        BY <2>2, <3>6, <4>1, SortedAppend
    <3> QED
      BY <3>3, <3>4, <3>5, <3>7, <3>8 DEF TakenFrom
  <2> QED
    BY <2>5, <2>6
<1> QED
  BY <1>4, <1>5

\* The buckets taken one after the other, as a function of how many.
IsTaking(s, buckets, rex, n) ==
    s = [i \in 0..n |->
           IF i = 0 THEN [missing |-> rex, left |-> buckets] ELSE TakeFromLast(s[i - 1])]
Taking(buckets, rex, n) == CHOOSE s : IsTaking(s, buckets, rex, n)

\* The loop of mvtosavings is defined for every number of buckets.
LEMMA TakingExists ==
    ASSUME NEW q, NEW rex, NEW n \in Nat
    PROVE  IsTaking(Taking(q, rex, n), q, rex, n)
<1> DEFINE Bad == {m \in Nat : ~ \E s : IsTaking(s, q, rex, m)}
<1>1. SUFFICES ASSUME Bad # {} PROVE FALSE
  <2>1. \E s : IsTaking(s, q, rex, n)
    BY <1>1
  <2> QED
    BY <2>1 DEF Taking
<1>2. PICK m \in Bad : \A k \in Bad : m <= k
  BY <1>1, LeastNumber
<1>3. m \in Nat /\ ~ \E s : IsTaking(s, q, rex, m)
  BY <1>2
<1>4. CASE m = 0
  <2> DEFINE s == [i \in 0..m |-> [missing |-> rex, left |-> q]]
  <2>1. \A i \in 0..m : i = 0
    BY <1>4
  <2>2. IsTaking(s, q, rex, m)
    BY <2>1 DEF IsTaking
  <2> QED
    BY <1>3, <2>2
<1>5. CASE m # 0
  <2>1. m - 1 \in Nat /\ m - 1 \notin Bad
    BY <1>2, <1>3, <1>5
  <2>2. PICK k \in Nat : k = m - 1
    BY <2>1
  <2>3. PICK s : IsTaking(s, q, rex, k)
    BY <2>1, <2>2
  <2> DEFINE h == [i \in 0..m |->
               IF i = 0 THEN [missing |-> rex, left |-> q] ELSE TakeFromLast(s[i - 1])]
  <2>4. ASSUME NEW i \in 0..k PROVE h[i] = s[i]
    <3>1. i \in 0..m
      BY <1>3, <2>2
    <3> QED
      BY <2>3, <3>1 DEF IsTaking
  <2>5. ASSUME NEW i \in 0..m, i # 0 PROVE h[i - 1] = s[i - 1]
    <3>1. i - 1 \in 0..k
      BY <1>3, <2>2, <2>5
    <3> QED
      BY <2>4, <3>1
  <2>6. IsTaking(h, q, rex, m)
    <3>1. h = [i \in 0..m |->
               IF i = 0 THEN [missing |-> rex, left |-> q] ELSE TakeFromLast(h[i - 1])]
      BY <2>5
    <3> HIDE DEF h
    <3> QED
      BY <3>1 DEF IsTaking
  <2> QED
    BY <1>3, <2>6
<1> QED
  BY <1>4, <1>5

\* The loop of mvtosavings takes as much from the buckets as it no longer misses.
LEMMA TakenAll ==
    ASSUME NEW q \in Seq(Bucket), NEW rex \in Nat
    PROVE  TakenFrom(TakeFromBack(q, rex), q, rex)
<1> DEFINE n == Len(q)
           s == Taking(q, rex, n)
           Bad == {i \in Nat : i <= n /\ ~TakenFrom(s[i], q, rex)}
<1>1. n \in Nat /\ InBuckets(q) \in Nat
  BY BucketsNat
<1>2. TakeFromBack(q, rex) = s[n]
  BY Zenon DEF TakeFromBack, Taking, IsTaking
<1>3. IsTaking(s, q, rex, n)
  BY <1>1, TakingExists
<1> HIDE DEF n, s
<1>4. ASSUME NEW i \in Nat, i <= n
      PROVE  s[i] = IF i = 0 THEN [missing |-> rex, left |-> q] ELSE TakeFromLast(s[i - 1])
  <2>1. i \in 0..n
    BY <1>1, <1>4
  <2> QED
    BY <1>3, <2>1, Zenon DEF IsTaking
<1>5. Bad = {}
  <2>1. SUFFICES ASSUME Bad # {} PROVE FALSE
    OBVIOUS
  <2>2. PICK i \in Bad : \A k \in Bad : i <= k
    BY <2>1, LeastNumber
  <2>3. i \in Nat /\ i <= n /\ ~TakenFrom(s[i], q, rex)
    BY <2>2
  <2>4. CASE i = 0
    <3>1. s[i] = [missing |-> rex, left |-> q]
      BY <1>4, <2>3, <2>4
    <3>2. \A time \in Nat : LockedIn(q, time) + rex <= LockedIn(q, time) + rex
      <4>1. SUFFICES ASSUME NEW time \in Nat
                     PROVE  LockedIn(q, time) + rex <= LockedIn(q, time) + rex
        OBVIOUS
      <4>2. LockedIn(q, time) \in Nat
        BY LockedCut
      <4> QED
        BY <4>2
    <3>3. TakenFrom(s[i], q, rex)
      BY <1>1, <3>1, <3>2 DEF TakenFrom
    <3> QED
      BY <2>3, <3>3
  <2>5. CASE i # 0
    <3>1. i - 1 \in Nat /\ i - 1 <= n /\ i - 1 \notin Bad
      BY <1>1, <2>2, <2>3, <2>5
    <3>2. TakenFrom(s[i - 1], q, rex)
      BY <3>1
    <3>3. s[i] = TakeFromLast(s[i - 1])
      BY <1>4, <2>3, <2>5
    <3> QED
      BY <1>1, <2>3, <3>2, <3>3, TakeOnce
  <2> QED
    BY <2>4, <2>5
<1> QED
  BY <1>1, <1>2, <1>5

-----------------------------------------------------------------------------
(* The pool, from the start of a transaction on                            *)

\* A positive factor cancels.
LEMMA Cancel ==
    ASSUME NEW k \in Nat \ {0}, NEW x \in Int, NEW y \in Int, k * x <= k * y
    PROVE  x <= y
BY SMT

\* Ratios that do not fall one after the other do not fall.
LEMMA RatioChain ==
    ASSUME NEW a \in Nat, NEW r \in Nat, NEW b \in Nat, NEW s \in Nat \ {0}, NEW d \in Nat, NEW u \in Nat,
           a * s <= b * r, b * u <= d * s
    PROVE  a * u <= d * r
<1>1. (a * s) * u <= (b * r) * u /\ (b * u) * r <= (d * s) * r
  BY SMT
<1>2. s * (a * u) = (a * s) * u /\ (b * r) * u = (b * u) * r /\ (d * s) * r = s * (d * r)
  BY SMT
<1>3. s * (a * u) <= s * (d * r)
  BY <1>1, <1>2, SMT
<1>4. a * u \in Int /\ d * r \in Int
  BY SMT
<1> QED
  BY <1>3, <1>4, Cancel

\* A step of the pool that keeps its value, and sells no REX to a pool that
\* has no holders.
PoolStep(p, q) == PoolOK(q) /\ ValueKept(p, q) /\ (rex_available(q) => rex_available(p))

\* A step of the pool that keeps the value keeps it since any earlier moment.
LEMMA PoolChain ==
    ASSUME NEW p, NEW q, NEW c, PoolSince(p, c), PoolStep(p, q)
    PROVE  PoolSince(q, c)
<1>1. PoolOK(p) /\ PoolOK(q) /\ PoolOK(c.pool)
  BY DEF PoolSince, PoolStep
<1>2. ASSUME rex_available(c.pool), rex_available(q)
      PROVE  c.pool.total_lendable * q.total_rex <= q.total_lendable * c.pool.total_rex
  <2>1. rex_available(p)
    BY <1>2 DEF PoolStep
  <2>2. PICK a, r, b, s, d, u : /\ a = c.pool.total_lendable /\ r = c.pool.total_rex
                                /\ b = p.total_lendable /\ s = p.total_rex
                                /\ d = q.total_lendable /\ u = q.total_rex
    OBVIOUS
  <2>3. a \in Nat /\ r \in Nat /\ b \in Nat /\ s \in Nat \ {0} /\ d \in Nat /\ u \in Nat
    BY <1>1, <2>1, <2>2 DEF PoolOK, Pool, rex_available
  <2>4. a * s <= b * r /\ b * u <= d * s
    BY <1>2, <2>1, <2>2 DEF PoolSince, PoolStep, ValueKept
  <2>5. a * u <= d * r
    BY <2>3, <2>4, RatioChain
  <2> QED
    BY <2>2, <2>5
<1> QED
  BY <1>1, <1>2 DEF PoolSince, PoolStep, ValueKept

\* A pool keeps its value while nothing happens.
LEMMA PoolStart == ASSUME NEW c, PoolOK(c.pool) PROVE PoolSince(c.pool, c)
BY SMT DEF PoolSince, ValueKept, PoolOK, Pool

-----------------------------------------------------------------------------
(* What the helpers keep                                                   *)

\* From t to h no field has changed but those in F, and a check that had
\* failed is still known.
Frame(t, h, F) ==
    /\ IsTables(h)
    /\ h.ok => t.ok
    /\ \A x \in TableFields \ (F \cup {"ok"}) : h[x] = t[x]

\* The pool is written.
LEMMA SetPool ==
    ASSUME NEW t, IsTables(t), NEW pool, NEW h, h = [t EXCEPT !.pool = pool]
    PROVE  Frame(t, h, {"pool"}) /\ h.pool = pool /\ h.ok = t.ok /\ h.bal = t.bal
BY SMT DEF IsTables, TableFields, Frame

\* The table rexbal is written.
LEMMA SetBal ==
    ASSUME NEW t, IsTables(t), NEW bal, NEW h, h = [t EXCEPT !.bal = bal]
    PROVE  Frame(t, h, {"bal"}) /\ h.bal = bal /\ h.ok = t.ok
BY SMT DEF IsTables, TableFields, Frame

\* A check changes nothing but whether the transaction can succeed.
LEMMA CheckFrame ==
    ASSUME NEW t, IsTables(t), NEW p \in BOOLEAN
    PROVE  Frame(t, Check(t, p), {}) /\ (Check(t, p).ok => p)
BY SMT DEF IsTables, TableFields, Check, Frame

\* Tables are as sound after a check as before.
LEMMA CheckSound ==
    ASSUME NEW t, NEW gap, NEW D, NEW c, Sound(t, gap, D, c), NEW p \in BOOLEAN
    PROVE  Sound(Check(t, p), gap, D, c)
<1> DEFINE h == Check(t, p)
<1>1. Frame(t, h, {})
  BY CheckFrame DEF Sound
<1> HIDE DEF h
<1>2. h.ok => TablesOK(h, gap, D, c)
  BY <1>1 DEF Frame, TableFields, Sound, TablesOK
<1> QED
  BY <1>1, <1>2 DEF h, Sound, Frame

\* The stake in the votes has no part in it, as long as it is a number.
LEMMA StakedSound ==
    ASSUME NEW t, NEW h, NEW gap, NEW D, NEW c, Sound(t, gap, D, c), Frame(t, h, {"staked"}),
           h.ok => h.staked \in [Owners -> Int]
    PROVE  Sound(h, gap, D, c)
<1>1. h.ok => TablesOK(h, gap, D, c)
  BY DEF Frame, TableFields, Sound, TablesOK
<1> QED
  BY <1>1 DEF Sound, Frame

\* update_voting_power changes the stake alone.
LEMMA VotingPowerFrame ==
    ASSUME NEW t, IsTables(t), NEW voter, NEW delta
    PROVE  /\ Frame(t, update_voting_power(t, voter, delta), {"staked"})
           /\ delta \in Int /\ t.staked \in [Owners -> Int] =>
                update_voting_power(t, voter, delta).staked \in [Owners -> Int]
<1> DEFINE all == [t.staked EXCEPT ![voter] = @ + delta]
           k == [t EXCEPT !.staked = all]
           p == t.staked[voter] + delta >= 0
           h == update_voting_power(t, voter, delta)
<1>1. h = Check(k, p)
  BY DEF update_voting_power
<1>2. p \in BOOLEAN
  OBVIOUS
<1>3. ASSUME delta \in Int, t.staked \in [Owners -> Int] PROVE all \in [Owners -> Int]
  <2>1. PICK f : f = t.staked
    OBVIOUS
  <2>2. f \in [Owners -> Int]
    BY <1>3, <2>1
  <2>3. [f EXCEPT ![voter] = @ + delta] \in [Owners -> Int]
    <3>1. PICK g : g = [f EXCEPT ![voter] = @ + delta]
      OBVIOUS
    <3>2. g = [o \in Owners |-> IF o = voter THEN f[voter] + delta ELSE f[o]]
      BY <2>2, <3>1
    <3>3. \A o \in Owners : (IF o = voter THEN f[voter] + delta ELSE f[o]) \in Int
      BY <1>3, <2>2
    <3> QED
      BY <3>1, <3>2, <3>3
  <2> QED
    BY <2>1, <2>3
<1> HIDE DEF p, h, all
<1>4. Frame(t, k, {"staked"}) /\ k.staked = all
  BY SMT DEF IsTables, TableFields, Frame
<1> HIDE DEF k
<1>5. Frame(k, h, {})
  BY <1>1, <1>2, <1>4, CheckFrame DEF Frame
<1>6. Frame(t, h, {"staked"}) /\ h.staked = all
  BY <1>4, <1>5 DEF Frame, TableFields
<1> QED
  BY <1>3, <1>6 DEF h

\* An inline transfer changes the ledger alone.
LEMMA TransferFrame ==
    ASSUME NEW t, IsTables(t), NEW from, NEW to, NEW v
    PROVE  LET h == transfer(t, from, to, v)
           IN  /\ Frame(t, h, {"ledger"})
               /\ h.ok => /\ CanTransfer(t.ledger, from, to, v)
                          /\ h.ledger = Transferred(t.ledger, from, to, v)
<1>1. CASE CanTransfer(t.ledger, from, to, v)
  <2>1. PICK l : l = Transferred(t.ledger, from, to, v)
    OBVIOUS
  <2>2. transfer(t, from, to, v) = [t EXCEPT !.ledger = l]
    BY <1>1, <2>1 DEF transfer
  <2>3. Frame(t, [t EXCEPT !.ledger = l], {"ledger"}) /\ [t EXCEPT !.ledger = l].ledger = l
    BY SMT DEF IsTables, TableFields, Frame
  <2> QED
    BY <1>1, <2>1, <2>2, <2>3
<1>2. CASE ~CanTransfer(t.ledger, from, to, v)
  <2>1. Frame(t, Check(t, FALSE), {}) /\ ~Check(t, FALSE).ok
    BY CheckFrame
  <2>2. transfer(t, from, to, v) = Check(t, FALSE)
    BY <1>2 DEF transfer
  <2> QED
    BY <2>1, <2>2 DEF Frame, TableFields
<1> QED
  BY <1>1, <1>2

\* The terms of what eosio.rex owes are integers.
LEMMA MoneyParts ==
    ASSUME NEW t, NEW gap, NEW D, NEW c, TablesOK(t, gap, D, c)
    PROVE  /\ t.pool.total_lendable \in Nat /\ t.pool.total_rex \in Nat /\ t.pool.total_lent \in Nat
           /\ IsTable(t.funds) /\ SumOf(t.funds) \in Int
           /\ SumOf(BalancesOf(t.loans)) \in Int /\ SumOf(ProceedsOf(t.orders)) \in Int
           /\ IsTable(t.ledger) /\ \A a : BalanceOf(t.ledger, a) \in Int
           /\ t.namebid_proceeds \in Nat /\ c.names \in Int /\ t.now \in Nat
           /\ IsDelegated(D)
<1>1. PoolOK(t.pool)
  BY DEF TablesOK, PoolSince
<1>2. t.pool.total_lendable \in Nat /\ t.pool.total_rex \in Nat /\ t.pool.total_lent \in Nat
  BY <1>1 DEF PoolOK, Pool
<1>3. IsTable(t.funds) /\ IsTable(t.ledger)
  BY DEF TablesOK, MoneyOK
<1>4. SumOf(t.funds) \in Int /\ \A a : BalanceOf(t.ledger, a) \in Int
  BY <1>3, BalanceInt
<1>5. SumOf(BalancesOf(t.loans)) \in Int
  <2>1. LoanRows(t.loans, t.loan_num, t.now)
    BY DEF TablesOK, LoansOK, LoanRows
  <2> QED
    BY <2>1, LoanColumns, BalanceInt
<1>6. SumOf(ProceedsOf(t.orders)) \in Int
  BY OrderColumns DEF TablesOK
<1>7. t.namebid_proceeds \in Nat /\ c.names \in Int /\ t.now \in Nat /\ IsDelegated(D)
  BY DEF TablesOK, NamesOK, LoansOK, LimitsOK, IsDelegated
<1> QED
  BY <1>2, <1>3, <1>4, <1>5, <1>6, <1>7

\* Tables without debts, and with no rows but for S, stay such tables.
LEMMA AddUnowed ==
    ASSUME NEW l, NEW S, IsTable(l), Unowed(l, S), NEW owner \in S, NEW v \in Nat
    PROVE  Unowed(Add(l, owner, v), S)
<1>1. NoDebts(Add(l, owner, v))
  BY AddNoDebts DEF Unowed
<1>2. DOMAIN Add(l, owner, v) \subseteq S
  BY DEF Unowed, Add, Put
<1> QED
  BY <1>1, <1>2 DEF Unowed

LEMMA SubUnowed ==
    ASSUME NEW l, NEW S, IsTable(l), Unowed(l, S), NEW owner, NEW v \in Int, CanSub(l, owner, v)
    PROVE  Unowed(Sub(l, owner, v), S)
<1>1. NoDebts(Sub(l, owner, v))
  BY SubNoDebts DEF Unowed
<1>2. DOMAIN Sub(l, owner, v) \subseteq S
  BY DEF Unowed, Sub
<1> QED
  BY <1>1, <1>2 DEF Unowed

LEMMA TransferUnowed ==
    ASSUME NEW l, NEW S, IsTable(l), Unowed(l, S), NEW from, NEW to \in S, NEW v \in Int,
           CanTransfer(l, from, to, v)
    PROVE  Unowed(Transferred(l, from, to, v), S)
<1>1. NoDebts(Transferred(l, from, to, v))
  BY TransferNoDebts DEF Unowed
<1>2. DOMAIN Transferred(l, from, to, v) \subseteq S
  BY DEF Unowed, Transferred, Add, Sub, Put
<1> QED
  BY <1>1, <1>2 DEF Unowed

\* Tokens that eosio.rex gets, and does not owe yet.
LEMMA TransferInSound ==
    ASSUME NEW t, NEW gap \in Int, NEW D, NEW c, Sound(t, gap, D, c),
           NEW from, from \notin {rex_account, names_account}, NEW v \in Int
    PROVE  Sound(transfer(t, from, rex_account, v), gap + v, D, c)
<1> DEFINE h == transfer(t, from, rex_account, v)
<1>1. /\ Frame(t, h, {"ledger"})
      /\ h.ok => /\ CanTransfer(t.ledger, from, rex_account, v)
                 /\ h.ledger = Transferred(t.ledger, from, rex_account, v)
  BY TransferFrame DEF Sound
<1> HIDE DEF h
<1>2. ASSUME h.ok PROVE TablesOK(h, gap + v, D, c)
  <2>1. TablesOK(t, gap, D, c)
    BY <1>1, <1>2 DEF Frame, Sound
  <2>2. Moved(t.ledger, h.ledger, from, rex_account, v)
    BY <1>1, <1>2, <2>1, MoneyParts, TransferHeld
  <2>3. /\ BalanceOf(h.ledger, rex_account) = BalanceOf(t.ledger, rex_account) + v
        /\ BalanceOf(h.ledger, names_account) = BalanceOf(t.ledger, names_account)
        /\ IsTable(h.ledger)
    BY <2>2, RexTablesAssumption DEF Moved
  <2>4. Unowed(h.ledger, Accounts)
    <3>1. IsTable(t.ledger) /\ Unowed(t.ledger, Accounts)
      BY <2>1 DEF TablesOK, MoneyOK
    <3>2. rex_account \in Accounts
      BY DEF Accounts
    <3> QED
      BY <1>1, <1>2, <3>1, <3>2, TransferUnowed
  <2>5. MoneyOK(h.ledger, t.pool.total_lendable, t.funds, t.loans, t.orders, gap + v)
    <3>1. MoneyOK(t.ledger, t.pool.total_lendable, t.funds, t.loans, t.orders, gap)
      BY <2>1 DEF TablesOK
    <3>2. /\ t.pool.total_lendable \in Nat /\ SumOf(t.funds) \in Int
          /\ SumOf(BalancesOf(t.loans)) \in Int /\ SumOf(ProceedsOf(t.orders)) \in Int
      BY <2>1, MoneyParts
    <3> QED
      BY <2>3, <2>4, <3>1, <3>2 DEF MoneyOK
  <2>6. NamesOK(h.ledger, t.namebid_proceeds, t.pool, c)
    BY <2>1, <2>3 DEF TablesOK, NamesOK
  <2> QED
    BY <1>1, <2>1, <2>5, <2>6 DEF Frame, TableFields, TablesOK
<1> QED
  BY <1>1, <1>2 DEF h, Sound, Frame

\* Tokens that leave eosio.rex for an owner leave it short by as much.
LEMMA TransferOutSound ==
    ASSUME NEW t, NEW gap \in Int, NEW D, NEW c, Sound(t, gap, D, c),
           NEW to \in Accounts, to \notin {rex_account, names_account}, NEW v \in Int
    PROVE  Sound(transfer(t, rex_account, to, v), gap - v, D, c)
<1> DEFINE h == transfer(t, rex_account, to, v)
<1>1. /\ Frame(t, h, {"ledger"})
      /\ h.ok => /\ CanTransfer(t.ledger, rex_account, to, v)
                 /\ h.ledger = Transferred(t.ledger, rex_account, to, v)
  BY TransferFrame DEF Sound
<1> HIDE DEF h
<1>2. ASSUME h.ok PROVE TablesOK(h, gap - v, D, c)
  <2>1. TablesOK(t, gap, D, c)
    BY <1>1, <1>2 DEF Frame, Sound
  <2>2. Moved(t.ledger, h.ledger, rex_account, to, v)
    BY <1>1, <1>2, <2>1, MoneyParts, TransferHeld
  <2>3. /\ BalanceOf(h.ledger, rex_account) = BalanceOf(t.ledger, rex_account) - v
        /\ BalanceOf(h.ledger, names_account) = BalanceOf(t.ledger, names_account)
        /\ IsTable(h.ledger)
    BY <2>2, RexTablesAssumption DEF Moved
  <2>4. Unowed(h.ledger, Accounts)
    <3>1. IsTable(t.ledger) /\ Unowed(t.ledger, Accounts)
      BY <2>1 DEF TablesOK, MoneyOK
    <3>2. rex_account \in Accounts
      BY DEF Accounts
    <3> QED
      BY <1>1, <1>2, <3>1, <3>2, TransferUnowed
  <2>5. MoneyOK(h.ledger, t.pool.total_lendable, t.funds, t.loans, t.orders, gap - v)
    <3>1. MoneyOK(t.ledger, t.pool.total_lendable, t.funds, t.loans, t.orders, gap)
      BY <2>1 DEF TablesOK
    <3>2. /\ t.pool.total_lendable \in Nat /\ SumOf(t.funds) \in Int
          /\ SumOf(BalancesOf(t.loans)) \in Int /\ SumOf(ProceedsOf(t.orders)) \in Int
      BY <2>1, MoneyParts
    <3> QED
      BY <2>3, <2>4, <3>1, <3>2 DEF MoneyOK
  <2>6. NamesOK(h.ledger, t.namebid_proceeds, t.pool, c)
    BY <2>1, <2>3 DEF TablesOK, NamesOK
  <2> QED
    BY <1>1, <2>1, <2>5, <2>6 DEF Frame, TableFields, TablesOK
<1> QED
  BY <1>1, <1>2 DEF h, Sound, Frame

\* Funds that are no longer owed, and funds that are.
LEMMA FromFundSound ==
    ASSUME NEW t, NEW gap \in Int, NEW D, NEW c, Sound(t, gap, D, c), NEW owner, NEW v \in Int
    PROVE  /\ Sound(transfer_from_fund(t, owner, v), gap + v, D, c)
           /\ Frame(t, transfer_from_fund(t, owner, v), {"funds"})
           /\ transfer_from_fund(t, owner, v).ok => v > 0
<1> DEFINE h == transfer_from_fund(t, owner, v)
<1>1. /\ Frame(t, h, {"funds"})
      /\ h.ok => v > 0 /\ CanSub(t.funds, owner, v) /\ h.funds = Sub(t.funds, owner, v)
  <2>1. CASE v > 0 /\ CanSub(t.funds, owner, v)
    <3>1. PICK l : l = Sub(t.funds, owner, v)
      OBVIOUS
    <3>2. h = [t EXCEPT !.funds = l]
      BY <2>1, <3>1 DEF transfer_from_fund
    <3>3. IsTables(t)
      BY DEF Sound
    <3>4. Frame(t, [t EXCEPT !.funds = l], {"funds"}) /\ [t EXCEPT !.funds = l].funds = l
      BY <3>3, SMT DEF IsTables, TableFields, Frame
    <3> QED
      BY <2>1, <3>1, <3>2, <3>4
  <2>2. CASE ~(v > 0 /\ CanSub(t.funds, owner, v))
    <3>1. Frame(t, Check(t, FALSE), {}) /\ ~Check(t, FALSE).ok
      BY CheckFrame DEF Sound
    <3>2. h = Check(t, FALSE)
      BY <2>2 DEF transfer_from_fund
    <3> QED
      BY <3>1, <3>2 DEF Frame, TableFields
  <2> QED
    BY <2>1, <2>2
<1> HIDE DEF h
<1>2. ASSUME h.ok PROVE TablesOK(h, gap + v, D, c)
  <2>1. TablesOK(t, gap, D, c)
    BY <1>1, <1>2 DEF Frame, Sound
  <2>2. Credited(t.funds, h.funds, owner, -v)
    BY <1>1, <1>2, <2>1, MoneyParts, SubHeld DEF CanSub
  <2>3. IsTable(h.funds) /\ SumOf(h.funds) = SumOf(t.funds) - v
    <3>1. SumOf(h.funds) = SumOf(t.funds) + (-v) /\ SumOf(t.funds) \in Int
      BY <2>1, <2>2, MoneyParts DEF Credited
    <3> QED
      BY <2>2, <3>1 DEF Credited
  <2>4. Unowed(h.funds, Owners)
    <3>1. IsTable(t.funds) /\ Unowed(t.funds, Owners)
      BY <2>1 DEF TablesOK, MoneyOK
    <3> QED
      BY <1>1, <1>2, <3>1, SubUnowed
  <2>5. MoneyOK(t.ledger, t.pool.total_lendable, h.funds, t.loans, t.orders, gap + v)
    <3>1. MoneyOK(t.ledger, t.pool.total_lendable, t.funds, t.loans, t.orders, gap)
      BY <2>1 DEF TablesOK
    <3> QED
      BY <2>1, <2>3, <2>4, <3>1, MoneyParts DEF MoneyOK
  <2> QED
    BY <1>1, <2>1, <2>5 DEF Frame, TableFields, TablesOK
<1> QED
  BY <1>1, <1>2 DEF h, Sound, Frame

\* transfer_to_fund changes the funds alone.
LEMMA ToFundFrame ==
    ASSUME NEW t, IsTables(t), NEW owner, NEW v
    PROVE  LET h == transfer_to_fund(t, owner, v)
           IN  Frame(t, h, {"funds"}) /\ (h.ok => v > 0 /\ h.funds = Add(t.funds, owner, v))
<1> DEFINE p == v > 0
           k == Check(t, p)
           h == transfer_to_fund(t, owner, v)
<1>1. p \in BOOLEAN
  OBVIOUS
<1>2. h = [k EXCEPT !.funds = Add(k.funds, owner, v)]
  BY DEF transfer_to_fund
<1> HIDE DEF p
<1>3. Frame(t, k, {}) /\ (k.ok => p)
  BY <1>1, CheckFrame
<1> HIDE DEF k, h
<1>4. PICK l : l = Add(k.funds, owner, v)
  OBVIOUS
<1>5. Frame(k, [k EXCEPT !.funds = l], {"funds"}) /\ [k EXCEPT !.funds = l].funds = l
  BY <1>3, SMT DEF IsTables, TableFields, Frame
<1>6. Frame(t, h, {"funds"}) /\ h.funds = l /\ (h.ok => p)
  BY <1>2, <1>3, <1>4, <1>5 DEF Frame, TableFields
<1>7. k.funds = t.funds
  BY <1>3 DEF Frame, TableFields
<1> QED
  BY <1>4, <1>6, <1>7 DEF h, p

\* What is added to a fund is what eosio.rex owes more.
LEMMA ToFundSound ==
    ASSUME NEW t, NEW gap \in Int, NEW D, NEW c, Sound(t, gap, D, c), NEW owner \in Owners, NEW v \in Int
    PROVE  Sound(transfer_to_fund(t, owner, v), gap - v, D, c)
<1> DEFINE h == transfer_to_fund(t, owner, v)
<1>1. Frame(t, h, {"funds"}) /\ (h.ok => v > 0 /\ h.funds = Add(t.funds, owner, v))
  BY ToFundFrame DEF Sound
<1> HIDE DEF h
<1>2. ASSUME h.ok PROVE TablesOK(h, gap - v, D, c)
  <2>1. TablesOK(t, gap, D, c)
    BY <1>1, <1>2 DEF Frame, Sound
  <2>2. Credited(t.funds, h.funds, owner, v)
    BY <1>1, <1>2, <2>1, MoneyParts, AddHeld
  <2>3. Unowed(h.funds, Owners)
    <3>1. IsTable(t.funds) /\ Unowed(t.funds, Owners) /\ v \in Nat
      BY <1>1, <1>2, <2>1 DEF TablesOK, MoneyOK
    <3> QED
      BY <1>1, <1>2, <3>1, AddUnowed
  <2>4. MoneyOK(t.ledger, t.pool.total_lendable, h.funds, t.loans, t.orders, gap - v)
    <3>1. MoneyOK(t.ledger, t.pool.total_lendable, t.funds, t.loans, t.orders, gap)
      BY <2>1 DEF TablesOK
    <3>2. IsTable(h.funds) /\ SumOf(h.funds) = SumOf(t.funds) + v
      BY <2>2 DEF Credited
    <3> QED
      BY <2>1, <2>3, <3>1, <3>2, MoneyParts DEF MoneyOK
  <2> QED
    BY <1>1, <2>1, <2>4 DEF Frame, TableFields, TablesOK
<1> QED
  BY <1>1, <1>2 DEF h, Sound, Frame

\* Weights that a receiver gets, or loses, and that are delegated to it.
LEMMA LimitsSound ==
    ASSUME NEW t, NEW gap, NEW D, NEW c, Sound(t, gap, D, c),
           NEW r \in Owners, NEW k \in Kinds, NEW v \in Int
    PROVE  /\ Sound(update_resource_limits(t, r, k, v), gap, Shift(D, r, k, v), c)
           /\ Frame(t, update_resource_limits(t, r, k, v), {"limits"})
<1> DEFINE p == t.limits[r][k] + v >= 0
           s == [t EXCEPT !.limits[r][k] = @ + v]
           h == update_resource_limits(t, r, k, v)
<1>1. h = Check(s, p) /\ p \in BOOLEAN
  BY DEF update_resource_limits
<1>2. PICK l : l = Shift(t.limits, r, k, v)
  OBVIOUS
<1>3. s = [t EXCEPT !.limits = l]
  BY <1>2 DEF Shift
<1> HIDE DEF s, p, h
<1>4. IsTables(t)
  BY DEF Sound
<1>5. Frame(t, s, {"limits"}) /\ s.limits = l
  BY <1>3, <1>4, SMT DEF IsTables, TableFields, Frame
<1>6. Frame(s, h, {})
  BY <1>1, <1>5, CheckFrame DEF Frame
<1>7. Frame(t, h, {"limits"}) /\ h.limits = l
  BY <1>5, <1>6 DEF Frame, TableFields
<1>8. ASSUME h.ok PROVE TablesOK(h, gap, Shift(D, r, k, v), c)
  <2>1. TablesOK(t, gap, D, c)
    BY <1>7, <1>8 DEF Frame, Sound
  <2>2. IsDelegated(D) /\ IsDelegated(t.limits)
    BY <2>1 DEF TablesOK, LimitsOK, IsDelegated
  <2>3. PICK E : E = Shift(D, r, k, v)
    OBVIOUS
  <2>4. /\ IsDelegated(E)
        /\ \A q \in Owners, j \in Kinds : E[q][j] = IF q = r /\ j = k THEN D[q][j] + v ELSE D[q][j]
    BY <2>2, <2>3, ShiftType
  <2>5. /\ IsDelegated(l)
        /\ \A q \in Owners, j \in Kinds :
             l[q][j] = IF q = r /\ j = k THEN t.limits[q][j] + v ELSE t.limits[q][j]
    BY <1>2, <2>2, ShiftType
  <2>6. ASSUME NEW q \in Owners, NEW j \in Kinds
        PROVE  l[q][j] = E[q][j] + SumOf(StakedTo(t.loans, q, j))
    <3>1. t.limits[q][j] = D[q][j] + SumOf(StakedTo(t.loans, q, j)) /\ D[q][j] \in Int
      BY <2>1 DEF TablesOK, LimitsOK
    <3>2. SumOf(StakedTo(t.loans, q, j)) \in Int
      <4>1. LoanRows(t.loans, t.loan_num, t.now)
        BY <2>1 DEF TablesOK, LoansOK, LoanRows
      <4> QED
        BY <4>1, LoanColumns, BalanceInt
    <3> QED
      BY <2>4, <2>5, <3>1, <3>2
  <2>7. LimitsOK(l, t.loans, E)
    BY <2>4, <2>5, <2>6 DEF LimitsOK, IsDelegated
  <2> QED
    BY <1>7, <2>1, <2>3, <2>7 DEF Frame, TableFields, TablesOK
<1> QED
  BY <1>7, <1>8 DEF h, Sound, Frame

\* An owner collects a filled order and other proceeds.
LEMMA AccountSound ==
    ASSUME NEW t, NEW gap \in Int, NEW D, NEW c, Sound(t, gap, D, c),
           NEW owner \in Owners, NEW v \in Nat, NEW x, t.ok => x \in Int
    PROVE  LET h == update_rex_account(t, owner, v, x)
           IN  /\ Sound(h, gap - v, D, c)
               /\ Frame(t, h, {"orders", "funds", "staked"})
               /\ h.orders = IF IsFilled(t, owner) THEN Erase(t.orders, owner) ELSE t.orders
<1> DEFINE filled == IsFilled(t, owner)
           p == IF filled THEN t.orders[owner].proceeds ELSE 0
           to_fund == v + p
           to_stake == x + IF filled THEN t.orders[owner].stake_change ELSE 0
           orders == IF filled THEN Erase(t.orders, owner) ELSE t.orders
           erased == IF filled THEN [t EXCEPT !.orders = Erase(@, owner)] ELSE t
           funded == IF to_fund > 0 THEN transfer_to_fund(erased, owner, to_fund) ELSE erased
           h == update_rex_account(t, owner, v, x)
<1>1. h = IF to_stake # 0 THEN update_voting_power(funded, owner, to_stake) ELSE funded
  BY DEF update_rex_account
<1>2. Frame(t, erased, {"orders"}) /\ erased.orders = orders
  <2>1. IsTables(t)
    BY DEF Sound
  <2>2. PICK o : o = Erase(t.orders, owner)
    OBVIOUS
  <2>3. Frame(t, [t EXCEPT !.orders = o], {"orders"}) /\ [t EXCEPT !.orders = o].orders = o
    BY <2>1, SMT DEF IsTables, TableFields, Frame
  <2>4. Frame(t, t, {"orders"})
    BY <2>1 DEF Frame
  <2> QED
    BY <2>2, <2>3, <2>4
<1>3. ASSUME t.ok PROVE p \in Nat
  <2>1. OrdersOK(t.orders, t.bal)
    BY <1>3 DEF Sound, TablesOK
  <2> QED
    BY <2>1, OrderColumns DEF IsFilled
<1>4. ASSUME t.ok PROVE TablesOK(erased, gap + p, D, c)
  <2>1. TablesOK(t, gap, D, c)
    BY <1>4 DEF Sound
  <2>2. OrdersOK(orders, t.bal) /\ SumOf(ProceedsOf(orders)) = SumOf(ProceedsOf(t.orders)) - p
    <3>1. OrdersOK(t.orders, t.bal) /\ SumOf(ProceedsOf(t.orders)) \in Int
      BY <2>1, MoneyParts DEF TablesOK
    <3>2. CASE filled
      <4>1. p = BalanceOf(ProceedsOf(t.orders), owner)
        BY <3>1, <3>2, OrderColumns DEF IsFilled
      <4> QED
        BY <3>1, <3>2, <4>1, OrderErase
    <3>3. CASE ~filled
      BY <3>1, <3>3
    <3> QED
      BY <3>2, <3>3
  <2>3. QueueOK(orders, t.loans)
    BY <2>1, QueueErase DEF TablesOK
  <2> HIDE DEF orders, p, erased
  <2>4. MoneyOK(t.ledger, t.pool.total_lendable, t.funds, t.loans, orders, gap + p)
    <3>1. MoneyOK(t.ledger, t.pool.total_lendable, t.funds, t.loans, t.orders, gap)
      BY <2>1 DEF TablesOK
    <3> QED
      BY <1>3, <1>4, <2>1, <2>2, <3>1, MoneyParts DEF MoneyOK
  <2> QED
    BY <1>2, <2>1, <2>2, <2>3, <2>4 DEF Frame, TableFields, TablesOK
<1> HIDE DEF p, erased, orders
<1>5. Frame(erased, funded, {"funds"}) /\ (t.ok => Sound(funded, gap - v, D, c))
  <2>1. IsTables(erased)
    BY <1>2 DEF Frame
  <2>2. PICK w : w = to_fund
    OBVIOUS
  <2>3. CASE w > 0
    <3>1. funded = transfer_to_fund(erased, owner, w)
      BY <2>2, <2>3
    <3>2. Frame(erased, funded, {"funds"})
      BY <2>1, <3>1, ToFundFrame
    <3>3. ASSUME t.ok PROVE Sound(funded, gap - v, D, c)
      <4>1. gap + p \in Int /\ w \in Int /\ (gap + p) - w = gap - v
        BY <1>3, <2>2, <3>3
      <4>2. PICK g : g = gap + p
        OBVIOUS
      <4>3. Sound(erased, g, D, c)
        BY <1>4, <2>1, <3>3, <4>2 DEF Sound
      <4>4. Sound(transfer_to_fund(erased, owner, w), g - w, D, c)
        BY <4>1, <4>2, <4>3, ToFundSound
      <4> QED
        BY <3>1, <4>1, <4>2, <4>4
    <3> QED
      BY <3>2, <3>3
  <2>4. CASE ~(w > 0)
    <3>1. funded = erased
      BY <2>2, <2>4
    <3>2. ASSUME t.ok PROVE gap + p = gap - v
      <4>1. v = 0 /\ p = 0
        BY <1>3, <2>2, <2>4, <3>2
      <4> QED
        BY <4>1
    <3> QED
      BY <1>4, <2>1, <3>1, <3>2 DEF Sound, Frame
  <2> QED
    BY <2>3, <2>4
<1> HIDE DEF funded
<1>6. Frame(funded, h, {"staked"})
  <2>1. IsTables(funded)
    BY <1>5 DEF Frame
  <2>2. CASE to_stake # 0
    BY <1>1, <2>1, <2>2, VotingPowerFrame
  <2>3. CASE to_stake = 0
    BY <1>1, <2>1, <2>3 DEF Frame
  <2> QED
    BY <2>2, <2>3
<1>7. ASSUME t.ok PROVE h.staked \in [Owners -> Int]
  <2>1. TablesOK(t, gap, D, c)
    BY <1>7 DEF Sound
  <2>2. PICK y : y = to_stake
    OBVIOUS
  <2>3. y \in Int
    <3>1. filled => t.orders[owner].stake_change \in Int
      BY <2>1 DEF TablesOK, OrdersOK, Order, IsFilled
    <3> QED
      BY <1>7, <2>2, <3>1
  <2>4. IsTables(funded) /\ funded.staked = t.staked
    BY <1>2, <1>5 DEF Frame, TableFields
  <2>5. t.staked \in [Owners -> Int]
    BY <2>1 DEF TablesOK
  <2>6. CASE y # 0
    BY <1>1, <2>2, <2>3, <2>4, <2>5, <2>6, VotingPowerFrame
  <2>7. CASE y = 0
    BY <1>1, <2>2, <2>4, <2>5, <2>7
  <2> QED
    BY <2>6, <2>7
<1> HIDE DEF h
<1>8. Frame(t, h, {"orders", "funds", "staked"}) /\ h.orders = orders
  BY <1>2, <1>5, <1>6 DEF Frame, TableFields
<1>9. Sound(h, gap - v, D, c)
  <2>1. CASE t.ok
    <3>1. Sound(funded, gap - v, D, c)
      BY <1>5, <2>1
    <3>2. h.ok => h.staked \in [Owners -> Int]
      BY <1>7, <2>1
    <3> QED
      BY <1>6, <3>1, <3>2, StakedSound
  <2>2. CASE ~t.ok
    BY <1>8, <2>2 DEF Frame, Sound
  <2> QED
    BY <2>1, <2>2
<1> QED
  BY <1>8, <1>9 DEF h, orders

-----------------------------------------------------------------------------
(* What the rows of rexbal lock                                            *)

BucketsOf(bal, o) == IF o \in DOMAIN bal THEN bal[o].maturities ELSE <<>>

\* What an owner holds, and what of it is locked, are numbers.
LEMMA LocksNat ==
    ASSUME NEW bal, NEW total, BalOK(bal, total), NEW o
    PROVE  /\ HoldOf(bal, o) \in Nat /\ BucketsOf(bal, o) \in Seq(Bucket)
           /\ \A time : LockOf(bal, o, time) \in Nat
                        /\ LockOf(bal, o, time) = LockedIn(BucketsOf(bal, o), time)
<1>1. CASE o \in DOMAIN bal
  <2>1. Holds(bal[o], bal[o].rex_balance)
    BY <1>1 DEF BalOK
  <2>2. bal[o].rex_balance \in Nat /\ bal[o].maturities \in Seq(Bucket)
    BY <2>1, RowParts
  <2>3. \A time : LockedIn(bal[o].maturities, time) \in Nat
    BY <2>2, LockedCut
  <2> QED
    BY <1>1, <2>2, <2>3 DEF HoldOf, LockOf, BucketsOf
<1>2. CASE o \notin DOMAIN bal
  <2>1. HoldOf(bal, o) = 0 /\ BucketsOf(bal, o) = <<>> /\ \A time : LockOf(bal, o, time) = 0
    BY <1>2 DEF HoldOf, LockOf, BucketsOf
  <2>2. \A time : LockedIn(<<>>, time) = 0
    BY LockedEmpty
  <2> QED
    BY <2>1, <2>2
<1> QED
  BY <1>1, <1>2

\* A row is written that has as much locked as before, and what it has more.
LEMMA LocksPut ==
    ASSUME NEW bal, NEW total, BalOK(bal, total), NEW clock \in Nat, NEW c, LocksOK(bal, clock, c),
           NEW o, NEW b, NEW v \in Nat, b.rex_balance <= HoldOf(bal, o) + v,
           NEW z, Holds(b, z), LockRaised(BucketsOf(bal, o), b.maturities, clock, v)
    PROVE  LocksOK(Put(bal, o, b), clock, c)
<1>1. PICK h, m : h = Put(bal, o, b) /\ m = MaturityOf(clock)
  OBVIOUS
<1>2. DOMAIN h = DOMAIN bal \cup {o} /\ h[o] = b /\ \A p \in DOMAIN bal \ {o} : h[p] = bal[p]
  BY <1>1 DEF Put
<1>3. \A p : p # o => HoldOf(h, p) = HoldOf(bal, p) /\ \A time : LockOf(h, p, time) = LockOf(bal, p, time)
  BY <1>2 DEF HoldOf, LockOf
<1>4. HoldOf(h, o) = b.rex_balance /\ \A time : LockOf(h, o, time) = LockedIn(b.maturities, time)
  BY <1>2 DEF HoldOf, LockOf
<1>5. /\ b.rex_balance \in Nat /\ HoldOf(bal, o) \in Nat
      /\ \A time : LockOf(bal, o, time) \in Nat /\ LockedIn(b.maturities, time) \in Nat
      /\ \A time : LockOf(bal, o, time) = LockedIn(BucketsOf(bal, o), time)
  <2>1. b.rex_balance \in Nat /\ b.maturities \in Seq(Bucket)
    BY RowParts
  <2> QED
    BY <2>1, LocksNat, LockedCut
<1>6. ASSUME m < end_of_days
      PROVE  /\ \A p \in DOMAIN h : InOrder(h[p].maturities, m)
             /\ \A p, time : time \in Nat /\ clock < time /\ time <= m =>
                  /\ LockOf(c.bal, p, time) <= LockOf(h, p, time)
                  /\ LockOf(c.bal, p, time) + HoldOf(h, p) <= LockOf(h, p, time) + HoldOf(c.bal, p)
  <2>1. InOrder(BucketsOf(bal, o), m)
    <3>1. CASE o \in DOMAIN bal
      BY <1>1, <1>6, <3>1 DEF LocksOK, BucketsOf
    <3>2. CASE o \notin DOMAIN bal
      BY <3>2, SortedEmpty DEF BucketsOf, InOrder
    <3> QED
      BY <3>1, <3>2
  <2>2. /\ InOrder(b.maturities, m)
        /\ \A time \in Nat : clock < time /\ time <= m =>
             LockedIn(BucketsOf(bal, o), time) + v <= LockedIn(b.maturities, time)
    BY <1>1, <1>6, <2>1 DEF LockRaised
  <2>3. \A p \in DOMAIN h : InOrder(h[p].maturities, m)
    BY <1>1, <1>2, <1>6, <2>2 DEF LocksOK
  <2>4. ASSUME NEW p, NEW time, time \in Nat, clock < time, time <= m
        PROVE  /\ LockOf(c.bal, p, time) <= LockOf(h, p, time)
               /\ LockOf(c.bal, p, time) + HoldOf(h, p) <= LockOf(h, p, time) + HoldOf(c.bal, p)
    <3>1. /\ LockOf(c.bal, p, time) <= LockOf(bal, p, time)
          /\ LockOf(c.bal, p, time) + HoldOf(bal, p) <= LockOf(bal, p, time) + HoldOf(c.bal, p)
          /\ LockOf(c.bal, p, time) \in Nat /\ HoldOf(c.bal, p) \in Nat
      BY <1>1, <1>6, <2>4 DEF LocksOK
    <3>2. CASE p # o
      BY <1>3, <3>1, <3>2
    <3>3. CASE p = o
      <4>1. PICK i, j, k, l, x, y :
              /\ i = LockOf(c.bal, o, time) /\ j = LockOf(bal, o, time)
              /\ k = LockedIn(b.maturities, time)
              /\ l = HoldOf(c.bal, o) /\ x = HoldOf(bal, o) /\ y = b.rex_balance
        OBVIOUS
      <4>2. /\ i \in Nat /\ j \in Nat /\ k \in Nat /\ l \in Nat /\ x \in Nat /\ y \in Nat
            /\ i <= j /\ i + x <= j + l /\ y <= x + v
        BY <1>5, <3>1, <3>3, <4>1
      <4>3. j + v <= k
        BY <1>5, <2>2, <2>4, <4>1
      <4>4. i <= k /\ i + y <= k + l
        BY <4>2, <4>3
      <4> QED
        BY <1>4, <3>3, <4>1, <4>4
    <3> QED
      BY <3>2, <3>3
  <2> QED
    BY <2>3, <2>4
<1>7. \A p : HoldOf(c.bal, p) \in Nat /\ \A time : LockOf(c.bal, p, time) \in Nat
  BY DEF LocksOK
<1> QED
  BY <1>1, <1>6, <1>7 DEF LocksOK

\* A row is erased that holds nothing, and so has nothing locked.
LEMMA LocksErase ==
    ASSUME NEW bal, NEW total, BalOK(bal, total), NEW clock \in Nat, NEW c, LocksOK(bal, clock, c),
           NEW o, o \in DOMAIN bal => bal[o].rex_balance = 0
    PROVE  LocksOK(Erase(bal, o), clock, c)
<1>1. PICK h, m : h = Erase(bal, o) /\ m = MaturityOf(clock)
  OBVIOUS
<1>2. DOMAIN h = DOMAIN bal \ {o} /\ \A p \in DOMAIN h : h[p] = bal[p]
  BY <1>1 DEF Erase
<1>3. \A p : p # o => HoldOf(h, p) = HoldOf(bal, p) /\ \A time : LockOf(h, p, time) = LockOf(bal, p, time)
  BY <1>2 DEF HoldOf, LockOf
<1>4. HoldOf(h, o) = 0 /\ \A time : LockOf(h, o, time) = 0
  BY <1>2 DEF HoldOf, LockOf
<1>5. HoldOf(bal, o) = 0 /\ \A time : LockOf(bal, o, time) = 0
  <2>1. CASE o \in DOMAIN bal
    <3>1. Holds(bal[o], 0)
      BY <2>1 DEF BalOK
    <3>2. bal[o].maturities \in Seq(Bucket) /\ InBuckets(bal[o].maturities) = 0
      <4>1. /\ bal[o].maturities \in Seq(Bucket) /\ bal[o].matured \in Nat
            /\ InBuckets(bal[o].maturities) \in Nat
            /\ bal[o].matured + InBuckets(bal[o].maturities) = 0
        BY <3>1, RowParts
      <4> QED
        BY <4>1
    <3>3. ASSUME NEW time PROVE LockedIn(bal[o].maturities, time) = 0
      <4>1. LockedIn(bal[o].maturities, time) <= 0 /\ LockedIn(bal[o].maturities, time) \in Nat
        BY <3>2, LockedPart, LockedCut
      <4> QED
        BY <4>1
    <3> QED
      BY <2>1, <3>3 DEF HoldOf, LockOf
  <2>2. CASE o \notin DOMAIN bal
    BY <2>2 DEF HoldOf, LockOf
  <2> QED
    BY <2>1, <2>2
<1>6. \A p : HoldOf(h, p) = HoldOf(bal, p) /\ \A time : LockOf(h, p, time) = LockOf(bal, p, time)
  BY <1>3, <1>4, <1>5
<1>7. m < end_of_days => \A p \in DOMAIN h : InOrder(h[p].maturities, m)
  BY <1>1, <1>2 DEF LocksOK
<1> QED
  BY <1>1, <1>6, <1>7, Z3T(30) DEF LocksOK

\* Nothing is lost by what has not been done yet.
LEMMA LocksStart ==
    ASSUME NEW bal, NEW total, BalOK(bal, total), NEW clock, NEW c, c.bal = bal,
           MaturityOf(clock) < end_of_days =>
             \A o \in DOMAIN bal : InOrder(bal[o].maturities, MaturityOf(clock))
    PROVE  LocksOK(bal, clock, c)
<1>1. \A o : HoldOf(bal, o) \in Nat /\ \A time : LockOf(bal, o, time) \in Nat
  BY LocksNat
<1>2. \A o, time : /\ LockOf(c.bal, o, time) <= LockOf(bal, o, time)
                   /\ LockOf(c.bal, o, time) + HoldOf(bal, o)
                        <= LockOf(bal, o, time) + HoldOf(c.bal, o)
  BY <1>1
<1> QED
  BY <1>1, <1>2 DEF LocksOK

\* The same buckets lock the same.
LEMMA LockSame ==
    ASSUME NEW q \in Seq(Bucket), NEW clock PROVE LockRaised(q, q, clock, 0)
<1>1. \A time : LockedIn(q, time) + 0 <= LockedIn(q, time)
  <2>1. \A time : LockedIn(q, time) \in Nat
    BY LockedCut
  <2> QED
    BY <2>1
<1> QED
  BY <1>1 DEF LockRaised

-----------------------------------------------------------------------------
(* Rows of rexbal that change                                              *)

\* The open order of an owner asks for no more than b has matured.
Covered(orders, o, b) ==
    o \in DOMAIN orders /\ orders[o].is_open => orders[o].rex_requested <= b.matured

\* Orders stay covered by a row that covers its own.
LEMMA OrdersBal ==
    ASSUME NEW orders, NEW bal, OrdersOK(orders, bal), NEW o, NEW b, Covered(orders, o, b)
    PROVE  OrdersOK(orders, Put(bal, o, b))
BY DEF OrdersOK, Covered, Put

\* The buckets of a row, or its vote stake, change.
LEMMA RowSound ==
    ASSUME NEW t, NEW gap, NEW D, NEW c, Sound(t, gap, D, c), NEW o, NEW b,
           NEW h, Frame(t, h, {"bal"}), h.bal = Put(t.bal, o, b),
           t.ok => /\ o \in DOMAIN t.bal /\ b.rex_balance = t.bal[o].rex_balance
                   /\ Holds(b, b.rex_balance) /\ Covered(t.orders, o, b)
                   /\ LockRaised(t.bal[o].maturities, b.maturities, t.now, 0)
    PROVE  Sound(h, gap, D, c)
<1> SUFFICES ASSUME h.ok PROVE TablesOK(h, gap, D, c)
  BY DEF Frame, Sound
<1>1. TablesOK(t, gap, D, c) /\ t.ok
  BY DEF Frame, Sound
<1>2. BalOK(t.bal, t.pool.total_rex) /\ o \in Owners
  BY <1>1 DEF TablesOK, BalOK
<1>3. BalOK(h.bal, t.pool.total_rex)
  <2>1. PICK x : x = t.pool.total_rex
    OBVIOUS
  <2>2. BalOK(Put(t.bal, o, b), x - BalanceOf(RexOf(t.bal), o) + b.rex_balance)
    BY <1>1, <1>2, <2>1, BalPut
  <2>3. BalanceOf(RexOf(t.bal), o) = b.rex_balance /\ b.rex_balance \in Nat /\ x \in Int
    <3>1. b.rex_balance \in Nat
      BY <1>1, RowParts
    <3> QED
      BY <1>1, <1>2, <2>1, <3>1, BalRows
  <2> QED
    BY <2>1, <2>2, <2>3
<1>4. OrdersOK(t.orders, h.bal)
  BY <1>1, OrdersBal DEF TablesOK
<1>5. LocksOK(h.bal, t.now, c)
  <2>1. PICK x, y : x = t.pool.total_rex /\ y = b.rex_balance
    OBVIOUS
  <2>2. BalOK(t.bal, x) /\ t.now \in Nat /\ LocksOK(t.bal, t.now, c)
    BY <1>1, <2>1, MoneyParts DEF TablesOK
  <2>3. LockRaised(BucketsOf(t.bal, o), b.maturities, t.now, 0) /\ Holds(b, y)
    BY <1>1, <2>1 DEF BucketsOf
  <2>4. b.rex_balance <= HoldOf(t.bal, o) + 0 /\ 0 \in Nat
    <3>1. HoldOf(t.bal, o) = b.rex_balance /\ b.rex_balance \in Nat
      BY <1>1, <2>3, RowParts DEF HoldOf
    <3> QED
      BY <3>1
  <2> QED
    BY <2>2, <2>3, <2>4, LocksPut
<1> QED
  BY <1>1, <1>3, <1>4, <1>5 DEF Frame, TableFields, TablesOK

\* The row an owner has, for sound tables.
LEMMA OwnRow ==
    ASSUME NEW t, NEW gap, NEW D, NEW c, TablesOK(t, gap, D, c), NEW o \in DOMAIN t.bal
    PROVE  /\ Holds(t.bal[o], t.bal[o].rex_balance) /\ Covered(t.orders, o, t.bal[o])
           /\ t.bal[o].rex_balance <= t.pool.total_rex
           /\ o \in Owners /\ t.bal = [q \in DOMAIN t.bal |-> t.bal[q]]
<1>1. BalOK(t.bal, t.pool.total_rex) /\ OrdersOK(t.orders, t.bal)
  BY DEF TablesOK
<1> QED
  BY <1>1, BalRows DEF BalOK, OrdersOK, Covered

\* A row that goes, when nothing is left in it.
LEMMA CloseSound ==
    ASSUME NEW t, NEW gap, NEW D, NEW c, Sound(t, gap, D, c), NEW o,
           NEW h, Frame(t, h, {"bal"}), h.bal = Erase(t.bal, o),
           o \in DOMAIN t.bal => t.bal[o].rex_balance = 0
    PROVE  Sound(h, gap, D, c)
<1> SUFFICES ASSUME h.ok PROVE TablesOK(h, gap, D, c)
  BY DEF Frame, Sound
<1>1. TablesOK(t, gap, D, c) /\ t.ok
  BY DEF Frame, Sound
<1>2. BalOK(h.bal, t.pool.total_rex)
  BY <1>1, BalErase DEF TablesOK
<1>3. OrdersOK(t.orders, h.bal)
  <2>1. OrdersOK(t.orders, t.bal)
    BY <1>1 DEF TablesOK
  <2>2. ASSUME o \in DOMAIN t.orders, t.orders[o].is_open PROVE FALSE
    <3>1. o \in DOMAIN t.bal /\ 0 < t.orders[o].rex_requested /\ t.orders[o].rex_requested <= t.bal[o].matured
          /\ t.orders[o].rex_requested \in Nat
      BY <2>1, <2>2 DEF OrdersOK, Order
    <3>2. Holds(t.bal[o], 0)
      BY <1>1, <3>1, OwnRow
    <3>3. t.bal[o].matured \in Nat /\ InBuckets(t.bal[o].maturities) \in Nat
          /\ t.bal[o].matured + InBuckets(t.bal[o].maturities) = 0
      BY <3>2, RowParts
    <3> QED
      BY <3>1, <3>3
  <2> QED
    BY <2>1, <2>2 DEF OrdersOK, Erase
<1>4. LocksOK(h.bal, t.now, c)
  <2>1. PICK x : x = t.pool.total_rex
    OBVIOUS
  <2>2. BalOK(t.bal, x) /\ t.now \in Nat /\ LocksOK(t.bal, t.now, c)
    BY <1>1, <2>1, MoneyParts DEF TablesOK
  <2> QED
    BY <2>2, LocksErase
<1> QED
  BY <1>1, <1>2, <1>3, <1>4 DEF Frame, TableFields, TablesOK

\* A row with another vote stake.
LEMMA RowVoteStake ==
    ASSUME NEW b, NEW s, Holds(b, s), NEW v \in Nat
    PROVE  /\ Holds([b EXCEPT !.vote_stake = v], s)
           /\ [b EXCEPT !.vote_stake = v].rex_balance = b.rex_balance
           /\ [b EXCEPT !.vote_stake = v].matured = b.matured
           /\ [b EXCEPT !.vote_stake = v].maturities = b.maturities
<1> DEFINE r == [b EXCEPT !.vote_stake = v]
<1>1. b = [x \in RowFields |-> b[x]]
  BY RowParts DEF IsRow
<1>2. r = [x \in RowFields |-> r[x]]
  BY <1>1, Zenon
<1>3. r.matured = b.matured /\ r.maturities = b.maturities /\ r.vote_stake = v /\ r.rex_balance = b.rex_balance
  BY <1>1, SMT DEF RowFields
<1> HIDE DEF r
<1>4. IsRow(r) /\ r.matured + InBuckets(r.maturities) = s
  BY <1>2, <1>3, RowParts DEF IsRow
<1> QED
  BY <1>3, <1>4 DEF r, Holds

\* What a part of the REX is worth is a number.
LEMMA StakeValueNat ==
    ASSUME NEW pool, PoolOK(pool), rex_available(pool), NEW rex \in Nat, rex <= pool.total_rex
    PROVE  StakeValue(pool, rex) \in Nat /\ proceeds(pool, rex) \in Nat
<1>1. pool.total_lendable \in Nat /\ pool.total_rex \in Nat \ {0}
  BY DEF PoolOK, Pool, rex_available
<1> QED
  BY <1>1, MulDivPart DEF StakeValue, proceeds

\* What is sold is worth no more than all of it was.
LEMMA StakeValueGrows ==
    ASSUME NEW pool, PoolOK(pool), rex_available(pool), NEW rex \in Nat, NEW more \in Nat,
           rex <= more
    PROVE  proceeds(pool, rex) <= StakeValue(pool, more)
<1>1. pool.total_lendable \in Nat /\ pool.total_rex \in Nat \ {0}
  BY DEF PoolOK, Pool, rex_available
<1>2. PICK l, d : l = pool.total_lendable /\ d = pool.total_rex
  OBVIOUS
<1>3. PICK n, m : n = rex * l /\ m = more * l
  OBVIOUS
<1>4. PICK q : q = n \div d
  OBVIOUS
<1>5. n \in Nat /\ m \in Nat /\ n <= m /\ d \in Nat \ {0}
  BY <1>1, <1>2, <1>3, SMT
<1>6. q \in Int /\ q * d <= n
  BY <1>4, <1>5, SMT
<1>7. q * d <= m
  <2>1. PICK x : x = q * d
    OBVIOUS
  <2>2. x \in Int
    BY <1>5, <1>6, <2>1, SMT
  <2> QED
    BY <1>5, <1>6, <2>1, <2>2
<1>8. q <= m \div d
  BY <1>5, <1>6, <1>7, DivAtLeast
<1> QED
  BY <1>2, <1>3, <1>4, <1>8 DEF proceeds, StakeValue, MulDiv

\* A row with other amounts.
WithAmounts(b, x, v) == [b EXCEPT !.rex_balance = x, !.vote_stake = v]

\* The balance and the vote stake of a row change, its buckets do not.
LEMMA RowAmounts ==
    ASSUME NEW b, NEW s, Holds(b, s), NEW x \in Nat, NEW v \in Nat
    PROVE  /\ Holds(WithAmounts(b, x, v), s)
           /\ WithAmounts(b, x, v).rex_balance = x
           /\ WithAmounts(b, x, v).matured = b.matured
           /\ WithAmounts(b, x, v).maturities = b.maturities
<1> DEFINE r == WithAmounts(b, x, v)
<1>1. b = [y \in RowFields |-> b[y]]
  BY RowParts DEF IsRow
<1>2. r = [y \in RowFields |-> r[y]]
  BY <1>1, Zenon DEF WithAmounts
<1>3. r.matured = b.matured /\ r.maturities = b.maturities /\ r.vote_stake = v /\ r.rex_balance = x
  BY <1>1, SMT DEF RowFields, WithAmounts
<1> HIDE DEF r
<1>4. IsRow(r) /\ r.matured + InBuckets(r.maturities) = s
  BY <1>2, <1>3, RowParts DEF IsRow
<1> QED
  BY <1>3, <1>4 DEF r, Holds

WithoutSold(b, v, rex) ==
    [b EXCEPT !.vote_stake = v, !.rex_balance = @ - rex, !.matured = @ - rex]

\* A row from which matured REX is sold.
LEMMA RowSold ==
    ASSUME NEW b, Holds(b, b.rex_balance), NEW v \in Nat, NEW rex \in Nat, rex <= b.matured
    PROVE  LET r == WithoutSold(b, v, rex)
           IN  /\ Holds(r, r.rex_balance) /\ r.rex_balance = b.rex_balance - rex
               /\ r.matured = b.matured - rex /\ r.maturities = b.maturities
<1> DEFINE r == WithoutSold(b, v, rex)
<1>1. b = [y \in RowFields |-> b[y]]
  BY RowParts DEF IsRow
<1>2. r = [y \in RowFields |-> r[y]]
  BY <1>1, Zenon DEF WithoutSold
<1>3. /\ r.matured = b.matured - rex /\ r.maturities = b.maturities
      /\ r.vote_stake = v /\ r.rex_balance = b.rex_balance - rex
  BY <1>1, SMT DEF RowFields, WithoutSold
<1> HIDE DEF r
<1>4. /\ b.matured \in Nat /\ InBuckets(b.maturities) \in Nat /\ b.maturities \in Seq(Bucket)
      /\ b.matured + InBuckets(b.maturities) = b.rex_balance
  BY RowParts
<1>5. /\ b.matured - rex \in Nat /\ b.rex_balance - rex \in Nat
      /\ (b.matured - rex) + InBuckets(b.maturities) = b.rex_balance - rex
  BY <1>4
<1>6. IsRow(r)
  BY <1>2, <1>3, <1>4, <1>5 DEF IsRow
<1> QED
  BY <1>3, <1>5, <1>6 DEF r, Holds

\* What add_to_rex_balance does to the buckets: savings stay at the end.
LEMMA RowBought ==
    ASSUME NEW b, NEW s, Holds(b, s), NEW received \in Nat, NEW clock \in Nat
    PROVE  LET regular == process_rex_maturities(WithoutSavings(b), clock)
               r == put_rex_savings(AddBucket(regular, MaturityOf(clock), received),
                                    read_rex_savings(b))
           IN  /\ Holds(r, s + received) /\ Kept(b, r)
               /\ LockRaised(b.maturities, r.maturities, clock, received)
<1> DEFINE savings == read_rex_savings(b)
           w == WithoutSavings(b)
           maturity == MaturityOf(clock)
           m == process_rex_maturities(w, clock)
           a == AddBucket(m, maturity, received)
           r == put_rex_savings(a, savings)
<1>1. LockRaised(b.maturities, r.maturities, clock, received)
  <2>1. savings \in Nat /\ received + savings = received + savings /\ received \in Int
    BY RowWithoutSavings
  <2> QED
    BY <2>1, LockRestored
<1>2. maturity \in Nat
  BY MaturityNat
<1> HIDE DEF maturity
<1>3. PICK u : u = s - savings
  OBVIOUS
<1>4. savings \in Nat /\ Holds(w, u) /\ Kept(b, w)
  BY <1>3, RowWithoutSavings
<1> HIDE DEF w, savings
<1>5. Holds(m, u) /\ Kept(w, m)
  BY <1>4, RowMatures
<1> HIDE DEF m
<1>6. Holds(a, u + received) /\ Kept(m, a)
  BY <1>5, <1>2, RowAddBucket
<1> HIDE DEF a
<1>7. PICK x : x = u + received
  OBVIOUS
<1>8. Holds(r, x + savings) /\ Kept(a, r)
  BY <1>4, <1>6, <1>7, RowPutSavings
<1> HIDE DEF r
<1>9. x + savings = s + received
  <2>1. s \in Nat /\ u \in Nat
    BY <1>4, RowParts
  <2> QED
    BY <1>3, <1>4, <1>7, <2>1
<1>10. Kept(b, r)
  <2>1. b.matured \in Nat /\ w.matured \in Nat /\ m.matured \in Nat /\ a.matured \in Nat
        /\ r.matured \in Nat
    BY <1>4, <1>5, <1>6, <1>8, RowParts
  <2> QED
    BY <1>4, <1>5, <1>6, <1>8, <2>1 DEF Kept
<1>11. Holds(r, s + received)
  BY <1>8, <1>9
<1> QED
  BY <1>10, <1>11, <1>1 DEF r, a, m, maturity, w, savings

\* A purchase gives a natural number of REX, and then REX is available.
LEMMA ReceivedNat ==
    ASSUME NEW pool, PoolOK(pool), CanAddToRexPool(pool), NEW payment \in Nat \ {0}
    PROVE  rex_received(pool, payment) \in Nat /\ rex_available(add_to_rex_pool(pool, payment))
<1>1. pool.total_rex \in Nat /\ pool.total_lendable \in Nat
  BY DEF PoolOK, Pool
<1>2. add_to_rex_pool(pool, payment).total_rex = pool.total_rex + rex_received(pool, payment)
  BY DEF add_to_rex_pool
<1>3. CASE rex_available(pool)
  <2> DEFINE S == pool.total_lendable
             R == pool.total_rex
             n == (S + payment) * R
  <2>1. S \in Nat \ {0} /\ R \in Nat \ {0}
    BY <1>1, <1>3 DEF CanAddToRexPool, rex_available
  <2>2. n \in Int /\ R * S <= n
    BY <2>1, SMT
  <2> HIDE DEF n
  <2>3. n \div S \in Int /\ R <= n \div S
    BY <2>1, <2>2, DivAtLeast
  <2>4. rex_received(pool, payment) = n \div S - R
    BY <1>3 DEF n, rex_received, MulDiv
  <2>5. rex_received(pool, payment) \in Nat
    BY <2>1, <2>3, <2>4
  <2> QED
    BY <1>2, <2>1, <2>5 DEF rex_available
<1>4. CASE ~rex_available(pool)
  <2>1. rex_ratio \in Nat \ {0} /\ rex_received(pool, payment) = payment * rex_ratio
    BY <1>4, RexPoolAssumption DEF rex_received
  <2>2. payment * rex_ratio \in Nat \ {0}
    BY <2>1, SMT
  <2> QED
    BY <1>1, <1>2, <2>1, <2>2 DEF rex_available
<1> QED
  BY <1>3, <1>4

-----------------------------------------------------------------------------
(* Buying and selling                                                      *)

\* A purchase changes the pool and the rows of rexbal alone.
LEMMA BoughtFrame ==
    ASSUME NEW t, IsTables(t), NEW owner, NEW payment
    PROVE  LET h == Bought(t, owner, payment)
           IN  /\ Frame(t, h, {"pool", "bal"}) /\ h.ok = t.ok
               /\ h.pool = add_to_rex_pool(t.pool, payment)
               /\ DOMAIN h.bal = DOMAIN t.bal \cup {owner}
               /\ \A o \in DOMAIN t.bal \ {owner} : h.bal[o] = t.bal[o]
<1> DEFINE h == Bought(t, owner, payment)
<1>1. PICK p, u, received : /\ p = add_to_rex_pool(t.pool, payment)
                            /\ u = [t EXCEPT !.pool = p]
                            /\ received = rex_received(t.pool, payment)
  OBVIOUS
<1>2. Frame(t, u, {"pool"}) /\ u.pool = p /\ u.ok = t.ok
  BY <1>1, SMT DEF IsTables, TableFields, Frame
<1>3. h = add_to_rex_balance(u, owner, payment, received)
  BY <1>1 DEF Bought
<1>4. \E b : h = [u EXCEPT !.bal = Put(u.bal, owner, b)]
  BY <1>3 DEF add_to_rex_balance
<1> HIDE DEF h
<1>5. PICK b, bal : h = [u EXCEPT !.bal = bal] /\ bal = Put(u.bal, owner, b)
  BY <1>4
<1>6. Frame(u, h, {"bal"}) /\ h.bal = bal /\ h.ok = u.ok
  BY <1>2, <1>5, SMT DEF IsTables, TableFields, Frame
<1>7. Frame(t, h, {"pool", "bal"}) /\ u.bal = t.bal /\ h.pool = p /\ h.ok = t.ok
  BY <1>2, <1>6 DEF Frame, TableFields
<1>8. DOMAIN h.bal = DOMAIN t.bal \cup {owner} /\ \A o \in DOMAIN t.bal \ {owner} : h.bal[o] = t.bal[o]
  BY <1>5, <1>6, <1>7 DEF Put
<1> QED
  BY <1>1, <1>7, <1>8 DEF h

\* A purchase for tokens that eosio.rex has been paid keeps the tables sound.
LEMMA BoughtSound ==
    ASSUME NEW t, NEW gap \in Int, NEW D, NEW c, Sound(t, gap, D, c), t.ok,
           NEW owner \in Owners, NEW payment \in Nat \ {0}, CanAddToRexPool(t.pool),
           NEW e, e.pool = add_to_rex_pool(t.pool, payment), e.names = c.names, e.now = c.now,
           e.bal = c.bal
    PROVE  Sound(Bought(t, owner, payment), gap - payment, D, e)
<1> DEFINE h == Bought(t, owner, payment)
           p == add_to_rex_pool(t.pool, payment)
           received == rex_received(t.pool, payment)
           u == [t EXCEPT !.pool = p]
           b == IF owner \in DOMAIN u.bal
                THEN LET rex == u.bal[owner].rex_balance + received
                     IN  [u.bal[owner] EXCEPT !.rex_balance = rex,
                                              !.vote_stake = StakeValue(u.pool, rex)]
                ELSE [vote_stake |-> payment, rex_balance |-> received,
                      matured |-> 0, maturities |-> <<>>]
           regular == process_rex_maturities(WithoutSavings(b), u.now)
           added == AddBucket(regular, get_rex_maturity(u), received)
           r == put_rex_savings(added, read_rex_savings(b))
           old == BalanceOf(RexOf(t.bal), owner)
<1>1. TablesOK(t, gap, D, c) /\ IsTables(t)
  BY DEF Sound
<1>2. /\ PoolOK(p) /\ received \in Nat /\ rex_available(p)
      /\ p.total_rex = t.pool.total_rex + received
      /\ p.total_lendable = t.pool.total_lendable + payment /\ p.total_lent = t.pool.total_lent
  <2>1. PoolOK(t.pool)
    BY <1>1 DEF TablesOK, PoolSince
  <2>2. t.pool \in Pool /\ payment \in Nat
    BY <2>1 DEF PoolOK
  <2>3. PoolOK(p)
    BY <2>1, <2>2, AddToRexPoolOK
  <2>4. received \in Nat /\ rex_available(p)
    BY <2>1, ReceivedNat
  <2>5. p.total_lendable = t.pool.total_lendable + payment /\ p.total_lent = t.pool.total_lent
    <3>1. CASE rex_available(t.pool)
      BY <3>1 DEF add_to_rex_pool
    <3>2. CASE ~rex_available(t.pool)
      <4>1. t.pool.total_lendable = 0 /\ t.pool.total_lent = 0
        BY <2>1, <3>2 DEF PoolOK, Pool, rex_available
      <4> QED
        BY <3>2, <4>1 DEF add_to_rex_pool
    <3> QED
      BY <3>1, <3>2
  <2> QED
    BY <2>3, <2>4, <2>5 DEF add_to_rex_pool
<1>3. h = [u EXCEPT !.bal = Put(u.bal, owner, r)]
  BY DEF Bought, add_to_rex_balance
<1> HIDE DEF p, received
<1>4. Frame(t, u, {"pool"}) /\ u.pool = p /\ u.bal = t.bal /\ u.now = t.now /\ t.now \in Nat
  <2>1. Frame(t, u, {"pool"}) /\ u.pool = p
    BY <1>1, SetPool
  <2>2. t.now \in Nat
    BY <1>1, MoneyParts
  <2> HIDE DEF u
  <2> QED
    BY <2>1, <2>2 DEF Frame, TableFields
<1> HIDE DEF u
<1>5. Frame(t, h, {"pool", "bal"}) /\ h.pool = p
  BY <1>1, BoughtFrame DEF p
<1>6. h.bal = Put(t.bal, owner, r)
  <2>1. PICK bal : bal = Put(u.bal, owner, r)
    OBVIOUS
  <2>2. [u EXCEPT !.bal = bal].bal = bal
    BY <1>4, SMT DEF IsTables, TableFields, Frame
  <2> QED
    BY <1>3, <1>4, <2>1, <2>2
<1> HIDE DEF h
<1>7. /\ old \in Nat /\ Holds(b, old) /\ b.rex_balance = old + received
      /\ owner \in DOMAIN t.bal => b.matured = t.bal[owner].matured
      /\ b.maturities = BucketsOf(t.bal, owner)
  <2>1. CASE owner \in DOMAIN t.bal
    <3>1. PICK w, x, v : w = t.bal[owner] /\ x = w.rex_balance + received /\ v = StakeValue(p, x)
      OBVIOUS
    <3>2. Holds(w, w.rex_balance) /\ w.rex_balance <= t.pool.total_rex /\ w.rex_balance \in Nat
          /\ w.rex_balance = old
      <4>1. Holds(w, w.rex_balance) /\ w.rex_balance <= t.pool.total_rex
        BY <1>1, <2>1, <3>1, OwnRow
      <4>2. w.rex_balance = old
        BY <1>1, <2>1, <3>1, BalRows DEF TablesOK
      <4> QED
        BY <4>1, <4>2, RowParts
    <3>3. x \in Nat /\ v \in Nat
      <4>1. x \in Nat /\ x <= p.total_rex
        BY <1>1, <1>2, <3>1, <3>2, MoneyParts
      <4>2. v \in Nat
        BY <1>2, <3>1, <4>1, StakeValueNat
      <4> QED
        BY <4>1, <4>2
    <3>4. b = [w EXCEPT !.rex_balance = x, !.vote_stake = v]
      BY <1>4, <2>1, <3>1
    <3> HIDE DEF b
    <3>5. /\ Holds(b, old) /\ b.rex_balance = x /\ b.matured = w.matured
          /\ b.maturities = w.maturities
      <4>1. PICK g : g = old
        OBVIOUS
      <4>2. PICK z : z = WithAmounts(w, x, v)
        OBVIOUS
      <4>3. /\ Holds(z, old) /\ z.rex_balance = x /\ z.matured = w.matured
            /\ z.maturities = w.maturities
        <5>1. Holds(w, g) /\ x \in Nat /\ v \in Nat
          BY <3>2, <3>3, <4>1
        <5>2. /\ Holds(WithAmounts(w, x, v), g)
              /\ WithAmounts(w, x, v).rex_balance = x
              /\ WithAmounts(w, x, v).matured = w.matured
              /\ WithAmounts(w, x, v).maturities = w.maturities
          BY ONLY <5>1, RowAmounts
        <5>3. Holds(z, g) /\ z.rex_balance = x /\ z.matured = w.matured
              /\ z.maturities = w.maturities
          BY <4>2, <5>2
        <5> QED
          BY <4>1, <5>3
      <4>4. b = z
        BY <3>4, <4>2 DEF WithAmounts
      <4> QED
        BY <4>3, <4>4
    <3> QED
      BY <2>1, <3>1, <3>2, <3>5 DEF BucketsOf
  <2>2. CASE owner \notin DOMAIN t.bal
    <3>1. b = [vote_stake |-> payment, rex_balance |-> received, matured |-> 0, maturities |-> <<>>]
      BY <1>4, <2>2
    <3> HIDE DEF b
    <3>2. IsRow(b)
      BY <1>2, <3>1, SMT DEF IsRow, RowFields
    <3>3. old = 0
      BY <2>2 DEF BalanceOf, RexOf
    <3>4. b.matured + InBuckets(b.maturities) = 0
      BY <3>1, BucketsEmpty
    <3> QED
      BY <1>2, <2>2, <3>1, <3>2, <3>3, <3>4 DEF Holds, BucketsOf
  <2> QED
    BY <2>1, <2>2
<1> HIDE DEF b, old
<1>8. /\ Holds(r, old + received) /\ Kept(b, r)
      /\ LockRaised(b.maturities, r.maturities, t.now, received)
  <2>1. get_rex_maturity(u) = MaturityOf(t.now)
    BY <1>4 DEF get_rex_maturity, MaturityOf
  <2> QED
    BY <1>2, <1>4, <1>7, <2>1, RowBought
<1>9. Holds(r, r.rex_balance) /\ r.rex_balance = old + received
  BY <1>7, <1>8 DEF Kept
<1> HIDE DEF r
<1>10. ASSUME h.ok PROVE TablesOK(h, gap - payment, D, e)
  <2>1. BalOK(h.bal, p.total_rex)
    <3>1. PICK x : x = t.pool.total_rex
      OBVIOUS
    <3>2. BalOK(h.bal, x - old + r.rex_balance)
      BY <1>1, <1>6, <1>9, <3>1, BalPut DEF TablesOK, old
    <3>3. x - old + r.rex_balance = p.total_rex
      BY <1>1, <1>2, <1>7, <1>9, <3>1, MoneyParts
    <3> QED
      BY <3>2, <3>3
  <2>2. OrdersOK(t.orders, h.bal)
    <3>1. OrdersOK(t.orders, t.bal)
      BY <1>1 DEF TablesOK
    <3>2. Covered(t.orders, owner, r)
      <4>1. ASSUME owner \in DOMAIN t.orders, t.orders[owner].is_open
            PROVE  t.orders[owner].rex_requested <= r.matured
        <5>1. owner \in DOMAIN t.bal /\ t.orders[owner].rex_requested <= t.bal[owner].matured
              /\ t.orders[owner].rex_requested \in Nat
          BY <3>1, <4>1 DEF OrdersOK, Order
        <5>2. b.matured = t.bal[owner].matured /\ b.matured <= r.matured
          BY <1>7, <1>8, <5>1 DEF Kept
        <5>3. b.matured \in Nat /\ r.matured \in Nat
          BY <1>7, <1>9, RowParts
        <5> QED
          BY <5>1, <5>2, <5>3
      <4> QED
        BY <4>1 DEF Covered
    <3> QED
      BY <1>6, <3>1, <3>2, OrdersBal
  <2>3. MoneyOK(t.ledger, p.total_lendable, t.funds, t.loans, t.orders, gap - payment)
    <3>1. MoneyOK(t.ledger, t.pool.total_lendable, t.funds, t.loans, t.orders, gap)
      BY <1>1 DEF TablesOK
    <3> QED
      BY <1>1, <1>2, <3>1, MoneyParts DEF MoneyOK
  <2>4. NamesOK(t.ledger, t.namebid_proceeds, p, e)
    BY <1>1, <1>2 DEF TablesOK, NamesOK
  <2>5. PoolSince(p, e)
    BY <1>2, PoolStart DEF p
  <2>6. e.now = t.now /\ e.names \in Int /\ LoansOK(t.loans, t.loan_num, t.now, p.total_lent)
    BY <1>1, <1>2 DEF TablesOK
  <2>7. LocksOK(h.bal, t.now, e)
    <3>1. PICK x, y : x = t.pool.total_rex /\ y = r.rex_balance
      OBVIOUS
    <3>2. BalOK(t.bal, x) /\ t.now \in Nat /\ LocksOK(t.bal, t.now, c)
      BY <1>1, <1>4, <3>1 DEF TablesOK
    <3>3. LockRaised(BucketsOf(t.bal, owner), r.maturities, t.now, received) /\ Holds(r, y)
      BY <1>7, <1>8, <1>9, <3>1
    <3>4. r.rex_balance <= HoldOf(t.bal, owner) + received
      <4>1. HoldOf(t.bal, owner) = old
        BY DEF HoldOf, old, BalanceOf, RexOf
      <4> QED
        BY <1>2, <1>7, <1>9, <4>1
    <3>5. LocksOK(h.bal, t.now, c)
      BY <1>2, <1>6, <3>2, <3>3, <3>4, LocksPut
    <3> QED
      BY <3>5 DEF LocksOK
  <2> QED
    BY <1>1, <1>5, <2>1, <2>2, <2>3, <2>4, <2>5, <2>6, <2>7 DEF Frame, TableFields, TablesOK
<1> QED
  BY <1>5, <1>10 DEF h, Sound, Frame

\* A part of an owner's matured REX that is sold, where the orders may change
\* too: the proceeds p are no longer in the pool, and q of them are in orders.
SoldRow(t, owner, rex) ==
    WithoutSold(t.bal[owner],
                StakeValue(t.pool, t.bal[owner].rex_balance) - proceeds(t.pool, rex), rex)

\* fill_rex_order changes the pool and the row of the owner alone.
LEMMA FillFrame ==
    ASSUME NEW t, IsTables(t), NEW owner, NEW rex
    PROVE  LET h == FillOrder(t, owner, rex)
           IN  /\ Frame(t, h, {"pool", "bal"}) /\ h.ok = t.ok
               /\ h.pool = fill_rex_order(t.pool, rex)
               /\ owner \in DOMAIN t.bal /\ t.bal = [o \in DOMAIN t.bal |-> t.bal[o]] =>
                    h.bal = Put(t.bal, owner, SoldRow(t, owner, rex))
<1>1. PICK pool, row : pool = fill_rex_order(t.pool, rex) /\ row = SoldRow(t, owner, rex)
  OBVIOUS
<1>2. PICK u : u = [t EXCEPT !.pool = pool]
  OBVIOUS
<1>3. PICK bal : bal = [u.bal EXCEPT ![owner] = row]
  OBVIOUS
<1>4. PICK h : h = [u EXCEPT !.bal = bal]
  OBVIOUS
<1>5. FillOrder(t, owner, rex) = h
  <2>1. FillOrder(t, owner, rex) = [t EXCEPT !.pool = pool, !.bal[owner] = row]
    BY <1>1, Zenon DEF FillOrder, SoldRow, WithoutSold
  <2>2. [t EXCEPT !.pool = pool, !.bal[owner] = row] = [u EXCEPT !.bal[owner] = row]
    BY <1>2
  <2>3. [u EXCEPT !.bal[owner] = row] = [u EXCEPT !.bal = [u.bal EXCEPT ![owner] = row]]
    OBVIOUS
  <2> QED
    BY <1>3, <1>4, <2>1, <2>2, <2>3
<1>6. Frame(t, u, {"pool"}) /\ u.pool = pool /\ u.ok = t.ok /\ u.bal = t.bal
  BY <1>2, SetPool
<1>7. Frame(u, h, {"bal"}) /\ h.bal = bal /\ h.ok = u.ok
  <2>1. IsTables(u)
    BY <1>6 DEF Frame
  <2> QED
    BY <1>4, <2>1, SetBal
<1>8. Frame(t, h, {"pool", "bal"}) /\ h.ok = t.ok /\ h.pool = pool
  BY <1>6, <1>7 DEF Frame, TableFields
<1>9. owner \in DOMAIN t.bal /\ t.bal = [o \in DOMAIN t.bal |-> t.bal[o]] =>
        h.bal = Put(t.bal, owner, row)
  BY <1>3, <1>6, <1>7, SameRow
<1> QED
  BY <1>1, <1>5, <1>8, <1>9

\* An order that can be filled pays its proceeds from the pool, and what it leaves is sound.
LEMMA FillSound ==
    ASSUME NEW t, NEW gap \in Int, NEW D, NEW c, TablesOK(t, gap, D, c), t.namebid_proceeds = 0,
           NEW owner \in DOMAIN t.bal, NEW rex \in Nat \ {0}, rex <= t.bal[owner].matured,
           CanFill(t.pool, rex), NEW p, p = proceeds(t.pool, rex), NEW q \in Int,
           NEW h, Frame(t, h, {"pool", "bal", "orders"}),
           h.pool = fill_rex_order(t.pool, rex),
           h.bal = Put(t.bal, owner, SoldRow(t, owner, rex)),
           OrdersOK(h.orders, t.bal), Covered(h.orders, owner, SoldRow(t, owner, rex)),
           QueueOK(h.orders, t.loans),
           SumOf(ProceedsOf(h.orders)) = SumOf(ProceedsOf(t.orders)) + q
    PROVE  p \in Nat /\ TablesOK(h, gap + p - q, D, c)
<1> DEFINE w == t.bal[owner]
           r == SoldRow(t, owner, rex)
           x == t.pool.total_rex
<1>1. /\ PoolOK(t.pool) /\ BalOK(t.bal, x) /\ x \in Nat
  BY MoneyParts DEF TablesOK, PoolSince
<1>2. /\ Holds(w, w.rex_balance) /\ w.rex_balance <= x /\ owner \in Owners
      /\ w.rex_balance \in Nat /\ w.matured \in Nat /\ w.matured <= w.rex_balance
  <2>1. Holds(w, w.rex_balance) /\ w.rex_balance <= x /\ owner \in Owners
    BY OwnRow
  <2>2. w.rex_balance \in Nat /\ w.matured \in Nat /\ InBuckets(w.maturities) \in Nat
        /\ w.matured + InBuckets(w.maturities) = w.rex_balance
    BY <2>1, RowParts, ZenonT(30)
  <2> QED
    BY <2>1, <2>2
<1>3. rex \in 1..x /\ rex \in Nat /\ rex <= x /\ rex_available(t.pool)
  BY <1>1, <1>2 DEF rex_available
<1>4. p \in Nat /\ StakeValue(t.pool, w.rex_balance) \in Nat
  BY <1>1, <1>2, <1>3, StakeValueNat
<1>5. /\ Holds(r, r.rex_balance) /\ r.rex_balance = w.rex_balance - rex
      /\ r.maturities = w.maturities
  <2>1. PICK v : v = StakeValue(t.pool, w.rex_balance) - p
    OBVIOUS
  <2>2. r = WithoutSold(w, v, rex)
    BY <2>1 DEF SoldRow
  <2>3. p <= StakeValue(t.pool, w.rex_balance)
    <3>1. rex <= w.rex_balance
      BY <1>2, <1>3
    <3> QED
      BY <1>1, <1>2, <1>3, <3>1, StakeValueGrows
  <2>4. v \in Nat
    BY <1>4, <2>1, <2>3
  <2> QED
    BY <1>2, <1>3, <2>2, <2>4, RowSold
<1>6. /\ h.pool.total_rex = x - rex /\ h.pool.total_lendable = t.pool.total_lendable - p
      /\ h.pool.total_lent = t.pool.total_lent
  BY DEF fill_rex_order
<1>7. PoolSince(h.pool, c)
  <2>1. PoolOK(h.pool) /\ ValueKept(t.pool, h.pool)
    <3>1. t.pool \in Pool
      BY <1>1 DEF PoolOK
    <3> QED
      BY <1>1, <1>3, <3>1, FillRexOrderOK, SaleKeepsValue
  <2>2. PoolStep(t.pool, h.pool)
    BY <1>3, <2>1 DEF PoolStep
  <2> QED
    BY <2>2, PoolChain DEF TablesOK
<1> HIDE DEF r
<1>8. BalOK(h.bal, h.pool.total_rex)
  <2>1. BalOK(h.bal, x - BalanceOf(RexOf(t.bal), owner) + r.rex_balance)
    BY <1>1, <1>2, <1>5, BalPut DEF r
  <2>2. BalanceOf(RexOf(t.bal), owner) = w.rex_balance
    BY <1>1, BalRows
  <2>3. x - w.rex_balance + (w.rex_balance - rex) = x - rex
    BY <1>1, <1>2, <1>3
  <2> QED
    BY <1>5, <1>6, <2>1, <2>2, <2>3
<1>9. OrdersOK(h.orders, h.bal)
  BY OrdersBal DEF r
<1>10. MoneyOK(t.ledger, h.pool.total_lendable, t.funds, t.loans, h.orders, gap + p - q)
  <2>1. MoneyOK(t.ledger, t.pool.total_lendable, t.funds, t.loans, t.orders, gap)
    BY DEF TablesOK
  <2>2. BalanceOf(t.ledger, rex_account) =
          t.pool.total_lendable + SumOf(t.funds) + SumOf(BalancesOf(t.loans))
          + SumOf(ProceedsOf(t.orders)) + gap /\ IsTable(t.ledger) /\ IsTable(t.funds)
        /\ Unowed(t.ledger, Accounts) /\ Unowed(t.funds, Owners)
    BY <2>1 DEF MoneyOK
  <2>3. /\ t.pool.total_lendable \in Nat /\ SumOf(t.funds) \in Int
        /\ SumOf(BalancesOf(t.loans)) \in Int /\ SumOf(ProceedsOf(t.orders)) \in Int
    BY MoneyParts
  <2> QED
    BY <1>4, <1>6, <2>2, <2>3 DEF MoneyOK
<1>11. NamesOK(t.ledger, t.namebid_proceeds, h.pool, c)
  BY DEF TablesOK, NamesOK
<1>12. LoansOK(t.loans, t.loan_num, t.now, h.pool.total_lent)
  BY <1>6 DEF TablesOK
<1>13. LocksOK(h.bal, t.now, c)
  <2>1. PICK y : y = r.rex_balance
    OBVIOUS
  <2>2. t.now \in Nat /\ LocksOK(t.bal, t.now, c) /\ BalOK(t.bal, x)
    BY <1>1, MoneyParts DEF TablesOK
  <2>3. LockRaised(BucketsOf(t.bal, owner), r.maturities, t.now, 0) /\ Holds(r, y)
    <3>1. w.maturities \in Seq(Bucket) /\ BucketsOf(t.bal, owner) = w.maturities
      BY <1>2, RowParts DEF BucketsOf
    <3>2. LockRaised(w.maturities, w.maturities, t.now, 0)
      BY <3>1, LockSame
    <3> QED
      BY <1>5, <2>1, <3>1, <3>2
  <2>4. r.rex_balance <= HoldOf(t.bal, owner) + 0 /\ 0 \in Nat
    <3>1. HoldOf(t.bal, owner) = w.rex_balance
      BY DEF HoldOf
    <3> QED
      BY <1>2, <1>3, <1>5, <3>1
  <2>5. h.bal = Put(t.bal, owner, r)
    BY DEF r
  <2> QED
    BY <2>2, <2>3, <2>4, <2>5, LocksPut
<1>14. TablesOK(h, gap + p - q, D, c)
  BY <1>7, <1>8, <1>9, <1>10, <1>11, <1>12, <1>13 DEF Frame, TableFields, TablesOK
<1> QED
  BY <1>4, <1>14

-----------------------------------------------------------------------------
(* Maintenance                                                              *)

\* The proceeds of name bids are struck off, and touch the ledger and the pool.
LEMMA NamebidsFrame ==
    ASSUME NEW t, IsTables(t)
    PROVE  LET h == ChannelNamebids(t)
               v == t.namebid_proceeds
           IN  /\ Frame(t, h, {"namebid_proceeds", "ledger", "pool"})
               /\ h.namebid_proceeds = 0
               /\ ~(v > 0 /\ rex_available(t.pool)) => h.pool = t.pool /\ h.ledger = t.ledger
               /\ v > 0 /\ rex_available(t.pool) =>
                    /\ h.pool = channel_to_rex(t.pool, v)
                    /\ h.ok => /\ CanTransfer(t.ledger, names_account, rex_account, v)
                               /\ h.ledger = Transferred(t.ledger, names_account, rex_account, v)
<1>1. PICK v, kept : v = t.namebid_proceeds /\ kept = [t EXCEPT !.namebid_proceeds = 0]
  OBVIOUS
<1>2. Frame(t, kept, {"namebid_proceeds"}) /\ kept.namebid_proceeds = 0
  BY <1>1, SMT DEF IsTables, TableFields, Frame
<1>3. PICK x : x = transfer(kept, names_account, rex_account, v)
  OBVIOUS
<1>4. /\ Frame(kept, x, {"ledger"})
      /\ x.ok => /\ CanTransfer(kept.ledger, names_account, rex_account, v)
                 /\ x.ledger = Transferred(kept.ledger, names_account, rex_account, v)
  <2>1. IsTables(kept)
    BY <1>2 DEF Frame
  <2> QED
    BY <1>3, <2>1, TransferFrame
<1>5. PICK p : p = channel_to_rex(x.pool, v)
  OBVIOUS
<1>6. PICK h : h = [x EXCEPT !.pool = p]
  OBVIOUS
<1>7. Frame(x, h, {"pool"}) /\ h.pool = p /\ h.ok = x.ok
  <2>1. IsTables(x)
    BY <1>4 DEF Frame
  <2> QED
    BY <1>6, <2>1, SetPool
<1>8. CASE v > 0 /\ rex_available(t.pool)
  <2>1. ChannelNamebids(t) = h
    BY <1>1, <1>3, <1>5, <1>6, <1>8 DEF ChannelNamebids
  <2>2. Frame(t, h, {"namebid_proceeds", "ledger", "pool"}) /\ h.namebid_proceeds = 0
    BY <1>2, <1>4, <1>7 DEF Frame, TableFields
  <2>3. h.pool = channel_to_rex(t.pool, v)
    BY <1>2, <1>4, <1>5, <1>7 DEF Frame, TableFields
  <2>4. h.ledger = x.ledger /\ kept.ledger = t.ledger
    BY <1>2, <1>7 DEF Frame, TableFields
  <2> QED
    BY <1>1, <1>4, <1>7, <1>8, <2>1, <2>2, <2>3, <2>4
<1>9. CASE ~(v > 0 /\ rex_available(t.pool))
  <2>1. ChannelNamebids(t) = kept
    BY <1>1, <1>9 DEF ChannelNamebids
  <2>2. Frame(t, kept, {"namebid_proceeds", "ledger", "pool"})
        /\ kept.pool = t.pool /\ kept.ledger = t.ledger
    BY <1>2 DEF Frame, TableFields
  <2> QED
    BY <1>1, <1>2, <1>9, <2>1, <2>2
<1> QED
  BY <1>8, <1>9

\* Proceeds of name bids that are put down belong to the pool, once it exists.
LEMMA NamebidsSound ==
    ASSUME NEW t, NEW gap \in Int, NEW D, NEW c, Sound(t, gap, D, c)
    PROVE  LET h == ChannelNamebids(t)
           IN  /\ Sound(h, gap, D, c) /\ h.namebid_proceeds = 0
               /\ Frame(t, h, {"namebid_proceeds", "ledger", "pool"})
<1>1. PICK h, v : h = ChannelNamebids(t) /\ v = t.namebid_proceeds
  OBVIOUS
<1>2. /\ Frame(t, h, {"namebid_proceeds", "ledger", "pool"})
      /\ h.namebid_proceeds = 0
      /\ ~(v > 0 /\ rex_available(t.pool)) => h.pool = t.pool /\ h.ledger = t.ledger
      /\ v > 0 /\ rex_available(t.pool) =>
           /\ h.pool = channel_to_rex(t.pool, v)
           /\ h.ok => /\ CanTransfer(t.ledger, names_account, rex_account, v)
                      /\ h.ledger = Transferred(t.ledger, names_account, rex_account, v)
  <2>1. IsTables(t)
    BY DEF Sound
  <2> QED
    BY <1>1, <2>1, NamebidsFrame
<1>3. ASSUME h.ok PROVE TablesOK(h, gap, D, c)
  <2>1. TablesOK(t, gap, D, c)
    BY <1>2, <1>3 DEF Sound, Frame
  <2> DEFINE lendable == t.pool.total_lendable
             held == BalanceOf(t.ledger, rex_account)
             names == BalanceOf(t.ledger, names_account)
  <2>2. lendable \in Int /\ held \in Int /\ names \in Int /\ IsTable(t.ledger)
    BY <2>1, MoneyParts
  <2>3. lendable = lendable + 0 /\ held = held + 0 /\ names = names - 0
    BY <2>2
  <2>4. v \in Nat /\ PoolOK(t.pool)
    BY <1>1, <2>1, MoneyParts DEF TablesOK, PoolSince
  <2>5. /\ v > 0 => rex_available(t.pool)
        /\ BalanceOf(t.ledger, names_account) = v + c.names
    BY <1>1, <2>1 DEF TablesOK, NamesOK
  <2>6. /\ PoolSince(h.pool, c) /\ h.pool.total_rex = t.pool.total_rex
        /\ h.pool.total_lent = t.pool.total_lent
        /\ h.pool.total_lendable = t.pool.total_lendable + v
    <3>1. CASE v > 0
      <4>1. h.pool = channel_to_rex(t.pool, v) /\ rex_available(t.pool) /\ t.pool \in Pool
        BY <1>2, <2>4, <2>5, <3>1 DEF PoolOK
      <4>2. PoolOK(h.pool) /\ ValueKept(t.pool, h.pool)
        BY <2>4, <4>1, ChannelToRexOK, IncomeKeepsValue
      <4>3. PoolStep(t.pool, h.pool)
        BY <4>1, <4>2 DEF PoolStep
      <4>4. PoolSince(h.pool, c)
        BY <2>1, <4>3, PoolChain DEF TablesOK
      <4> QED
        BY <4>1, <4>4 DEF channel_to_rex
    <3>2. CASE v = 0
      <4>1. h.pool = t.pool
        BY <1>2, <3>2
      <4> QED
        BY <2>1, <2>3, <3>2, <4>1, Zenon DEF TablesOK
    <3> QED
      BY <2>4, <3>1, <3>2
  <2>7. /\ IsTable(h.ledger)
        /\ BalanceOf(h.ledger, rex_account) = BalanceOf(t.ledger, rex_account) + v
        /\ BalanceOf(h.ledger, names_account) = BalanceOf(t.ledger, names_account) - v
    <3>1. CASE v > 0
      <4>1. /\ CanTransfer(t.ledger, names_account, rex_account, v)
            /\ h.ledger = Transferred(t.ledger, names_account, rex_account, v)
        BY <1>2, <1>3, <2>5, <3>1
      <4>2. Moved(t.ledger, h.ledger, names_account, rex_account, v)
        BY <2>1, <2>4, <4>1, MoneyParts, TransferHeld
      <4> QED
        BY <4>2, RexTablesAssumption DEF Moved
    <3>2. CASE v = 0
      <4>1. h.ledger = t.ledger
        BY <1>2, <3>2
      <4> QED
        BY <2>2, <2>3, <3>2, <4>1, Zenon
    <3> QED
      BY <2>4, <3>1, <3>2
  <2>8. Unowed(h.ledger, Accounts)
    <3>1. IsTable(t.ledger) /\ Unowed(t.ledger, Accounts)
      BY <2>1 DEF TablesOK, MoneyOK
    <3>2. CASE v > 0
      <4>1. /\ CanTransfer(t.ledger, names_account, rex_account, v)
            /\ h.ledger = Transferred(t.ledger, names_account, rex_account, v)
        BY <1>2, <1>3, <2>5, <3>2
      <4>2. rex_account \in Accounts /\ v \in Int
        BY <2>4 DEF Accounts
      <4> QED
        BY <3>1, <4>1, <4>2, TransferUnowed
    <3>3. CASE v = 0
      BY <1>2, <3>1, <3>3
    <3> QED
      BY <2>4, <3>2, <3>3
  <2>9. MoneyOK(h.ledger, h.pool.total_lendable, t.funds, t.loans, t.orders, gap)
    <3>1. MoneyOK(t.ledger, t.pool.total_lendable, t.funds, t.loans, t.orders, gap)
      BY <2>1 DEF TablesOK
    <3> QED
      BY <2>1, <2>4, <2>6, <2>7, <2>8, <3>1, MoneyParts DEF MoneyOK
  <2>10. NamesOK(h.ledger, h.namebid_proceeds, h.pool, c)
    BY <1>2, <2>1, <2>4, <2>5, <2>7, MoneyParts DEF NamesOK
  <2>11. BalOK(t.bal, h.pool.total_rex) /\ LoansOK(t.loans, t.loan_num, t.now, h.pool.total_lent)
    BY <2>1, <2>6 DEF TablesOK
  <2> QED
    BY <1>2, <2>1, <2>6, <2>9, <2>10, <2>11 DEF Frame, TableFields, TablesOK
<1> QED
  BY <1>1, <1>2, <1>3 DEF Sound, Frame

\* update_resource_limits changes the limits alone.
LEMMA LimitsFrame ==
    ASSUME NEW t, IsTables(t), NEW r, NEW k, NEW v
    PROVE  Frame(t, update_resource_limits(t, r, k, v), {"limits"})
<1>1. PICK p, l : /\ p = (t.limits[r][k] + v >= 0)
                  /\ l = [t.limits EXCEPT ![r][k] = @ + v]
  OBVIOUS
<1>2. PICK s : s = [t EXCEPT !.limits = l]
  OBVIOUS
<1>3. update_resource_limits(t, r, k, v) = Check(s, p) /\ p \in BOOLEAN
  BY <1>1, <1>2 DEF update_resource_limits
<1>4. Frame(t, s, {"limits"})
  BY <1>2, SMT DEF IsTables, TableFields, Frame
<1>5. Frame(s, Check(s, p), {})
  BY <1>3, <1>4, CheckFrame DEF Frame
<1> QED
  BY <1>3, <1>4, <1>5 DEF Frame, TableFields

\* The loans are written.
LEMMA SetLoans ==
    ASSUME NEW t, IsTables(t), NEW loans, NEW h, h = [t EXCEPT !.loans = loans]
    PROVE  Frame(t, h, {"loans"}) /\ h.loans = loans /\ h.ok = t.ok
BY SMT DEF IsTables, TableFields, Frame

\* The pool gets back what a loan staked, and lends what a payment rents.
LEMMA PoolRemove ==
    ASSUME NEW p, PoolOK(p), NEW stake \in 1..p.total_lent,
           NEW q, q = remove_loan_from_rex_pool(p, stake)
    PROVE  /\ PoolStep(p, q) /\ rex_available(q) = rex_available(p)
           /\ q.total_rex = p.total_rex /\ q.total_lendable = p.total_lendable
           /\ q.total_lent = p.total_lent - stake
<1>1. p \in Pool /\ p.total_unlent \in Nat /\ p.total_lent \in Nat
      /\ p.total_lendable = p.total_unlent + p.total_lent
  BY DEF PoolOK, Pool
<1>2. PoolOK(q)
  BY <1>1, RemoveLoanOK
<1>3. 0 \in Nat /\ stake \in Nat
  BY <1>1
<1>4. ValueKept(p, q)
  BY <1>1, <1>3, IncomeKeepsValue
<1>5. /\ q.total_rex = p.total_rex /\ q.total_lent = p.total_lent - stake
      /\ q.total_lendable = (p.total_unlent + stake) + (p.total_lent - stake)
  BY DEF remove_loan_from_rex_pool
<1>6. q.total_lendable = p.total_lendable
  BY <1>1, <1>3, <1>5
<1> QED
  BY <1>2, <1>4, <1>5, <1>6 DEF PoolStep, rex_available

\* A loan made keeps the value of REX, and is counted in what is lent.
LEMMA PoolLend ==
    ASSUME NEW p, PoolOK(p), rex_available(p), NEW payment \in Nat \ {0},
           NEW rented, rented = rented_tokens(p, payment),
           NEW q, q = add_loan_to_rex_pool(p, payment, rented)
    PROVE  /\ PoolStep(p, q) /\ rented \in Nat
           /\ q.total_rex = p.total_rex /\ q.total_lendable = p.total_lendable + payment
           /\ q.total_lent = p.total_lent + rented
<1>1. p \in Pool /\ p.total_unlent \in Nat /\ p.total_lent \in Nat /\ p.total_rent \in Nat
      /\ p.total_lendable = p.total_unlent + p.total_lent
  BY DEF PoolOK, Pool
<1>2. rented \in Nat
  <2>1. p.total_rent + payment > 0 /\ payment \in Nat
    BY <1>1
  <2>2. get_bancor_output(p.total_rent, p.total_unlent, payment) \in 0..p.total_unlent
    BY <1>1, <2>1, BancorBound
  <2> QED
    BY <1>1, <2>2 DEF rented_tokens
<1>3. PoolOK(q)
  BY <1>1, AddLoanOK
<1>4. ValueKept(p, q)
  <2>1. payment \in Nat /\ rented \in Int
    BY <1>2
  <2> QED
    BY <1>1, <2>1, IncomeKeepsValue
<1>5. /\ q.total_rex = p.total_rex /\ q.total_lent = p.total_lent + rented
      /\ q.total_lendable = (p.total_unlent - rented + payment) + (p.total_lent + rented)
  BY DEF add_loan_to_rex_pool
<1>6. q.total_lendable = p.total_lendable + payment
  BY <1>1, <1>2, <1>5
<1> QED
  BY <1>2, <1>3, <1>4, <1>5, <1>6 DEF PoolStep, rex_available

RenewedLoan(loan, rented) ==
    [loan EXCEPT !.total_staked = rented, !.expiration = @ + loan_term,
                 !.balance = @ - loan.payment]

\* The row of a loan that is renewed.
LEMMA RenewedRow ==
    ASSUME NEW loan \in Loan, loan.payment > 0, NEW clock \in Nat, loan.expiration <= clock,
           loan.payment <= loan.balance, NEW rented \in Nat, rented > 0
    PROVE  LET r == RenewedLoan(loan, rented)
           IN  /\ LoanRow(r, clock) /\ r.kind = loan.kind /\ r.receiver = loan.receiver
               /\ r.total_staked = rented /\ r.balance = loan.balance - loan.payment
               /\ loan.payment \in Nat /\ loan.balance \in Nat /\ loan.total_staked \in Nat
               /\ loan.kind \in Kinds /\ loan.receiver \in Owners
<1> DEFINE r == RenewedLoan(loan, rented)
<1>1. /\ loan.payment \in Nat /\ loan.balance \in Nat /\ loan.total_staked \in Nat
      /\ loan.kind \in Kinds /\ loan.receiver \in Owners /\ loan.expiration \in Nat
      /\ loan.from \in Owners
  BY DEF Loan
<1>2. /\ r.kind = loan.kind /\ r.receiver = loan.receiver /\ r.from = loan.from
      /\ r.payment = loan.payment /\ r.total_staked = rented
      /\ r.balance = loan.balance - loan.payment /\ r.expiration = loan.expiration + loan_term
  BY SMT DEF RenewedLoan, Loan
<1>3. loan.balance - loan.payment \in Nat /\ loan.expiration + loan_term \in Nat
      /\ loan.expiration + loan_term <= clock + loan_term
  BY <1>1, RexTablesAssumption
<1>4. r \in Loan
  <2>1. PICK x, y : x = loan.expiration + loan_term /\ y = loan.balance - loan.payment
    OBVIOUS
  <2>2. PICK u : u = [loan EXCEPT !.total_staked = rented]
    OBVIOUS
  <2>3. PICK w : w = [u EXCEPT !.expiration = x]
    OBVIOUS
  <2>4. u \in Loan
    BY <2>2 DEF Loan
  <2>5. w \in Loan
    BY <1>3, <2>1, <2>3, <2>4 DEF Loan
  <2>6. [w EXCEPT !.balance = y] \in Loan
    BY <1>3, <2>1, <2>5 DEF Loan
  <2>7. r = [w EXCEPT !.balance = y]
    BY <2>1, <2>2, <2>3 DEF RenewedLoan
  <2> QED
    BY <2>6, <2>7
<1> HIDE DEF r
<1> QED
  BY <1>1, <1>2, <1>3, <1>4 DEF r, LoanRow

\* The row of a loan, for sound tables.
LEMMA LoanOf ==
    ASSUME NEW t, NEW gap, NEW D, NEW c, TablesOK(t, gap, D, c), NEW n \in DOMAIN t.loans
    PROVE  LET loan == t.loans[n]
           IN  /\ loan \in Loan /\ loan.payment > 0 /\ loan.total_staked \in 1..t.pool.total_lent
               /\ loan.payment \in Nat \ {0} /\ loan.balance \in Nat
               /\ loan.kind \in Kinds /\ loan.receiver \in Owners
               /\ BalanceOf(StakedOf(t.loans), n) = loan.total_staked
               /\ BalanceOf(BalancesOf(t.loans), n) = loan.balance
               /\ n \in 1..t.loan_num /\ t.loan_num \in Nat
               /\ t.loans = [m \in DOMAIN t.loans |-> t.loans[m]]
<1>1. LoanRows(t.loans, t.loan_num, t.now) /\ t.pool.total_lent = SumOf(StakedOf(t.loans))
  BY DEF TablesOK, LoansOK, LoanRows
<1>2. PICK loan : loan = t.loans[n]
  OBVIOUS
<1>3. loan \in Loan /\ loan.payment > 0 /\ loan.total_staked > 0
      /\ n \in 1..t.loan_num /\ t.loan_num \in Nat
      /\ t.loans = [m \in DOMAIN t.loans |-> t.loans[m]]
  BY <1>1, <1>2 DEF LoanRows
<1>4. /\ loan.payment \in Nat /\ loan.balance \in Nat /\ loan.total_staked \in Nat
      /\ loan.kind \in Kinds /\ loan.receiver \in Owners
  BY <1>3 DEF Loan
<1>5. /\ BalanceOf(StakedOf(t.loans), n) = loan.total_staked
      /\ BalanceOf(BalancesOf(t.loans), n) = loan.balance
      /\ loan.total_staked <= t.pool.total_lent
  BY <1>1, <1>2, LoanColumns
<1>6. loan.total_staked \in 1..t.pool.total_lent
  BY <1>3, <1>4, <1>5, MoneyParts
<1> QED
  BY <1>2, <1>3, <1>4, <1>5, <1>6

\* A loan that is renewed: no order is open, and none has to wait for it.
LEMMA RenewedSound ==
    ASSUME NEW t, NEW gap \in Int, NEW D, NEW c, TablesOK(t, gap, D, c),
           NEW n \in DOMAIN t.loans, NEW loan, loan = t.loans[n], loan.expiration <= t.now,
           NEW p, p = remove_loan_from_rex_pool(t.pool, loan.total_staked),
           NEW rented, rented = rented_tokens(p, loan.payment),
           loan.payment <= loan.balance, loan.payment < rented, rex_available(p),
           \A o \in DOMAIN t.orders : ~t.orders[o].is_open,
           NEW h, Frame(t, h, {"pool", "loans"}),
           h.pool = add_loan_to_rex_pool(p, loan.payment, rented),
           h.loans = Put(t.loans, n, RenewedLoan(loan, rented)),
           NEW delta, delta = rented - loan.total_staked
    PROVE  delta \in Int /\ TablesOK(h, gap, Shift(D, loan.receiver, loan.kind, -delta), c)
<1> DEFINE r == RenewedLoan(loan, rented)
<1>1. /\ loan \in Loan /\ loan.payment > 0 /\ loan.total_staked \in 1..t.pool.total_lent
      /\ loan.payment \in Nat \ {0} /\ loan.balance \in Nat
      /\ loan.kind \in Kinds /\ loan.receiver \in Owners
      /\ BalanceOf(StakedOf(t.loans), n) = loan.total_staked
      /\ BalanceOf(BalancesOf(t.loans), n) = loan.balance
      /\ n \in 1..t.loan_num /\ t.loan_num \in Nat
  BY LoanOf, ZenonT(30)
<1>2. PoolOK(t.pool) /\ PoolSince(t.pool, c) /\ t.now \in Nat
  BY MoneyParts DEF TablesOK, PoolSince
<1>3. /\ PoolStep(t.pool, p) /\ p.total_rex = t.pool.total_rex
      /\ p.total_lendable = t.pool.total_lendable
      /\ p.total_lent = t.pool.total_lent - loan.total_staked
  BY <1>1, <1>2, PoolRemove
<1>4. PoolOK(p)
  BY <1>3 DEF PoolStep
<1>5. /\ PoolStep(p, h.pool) /\ rented \in Nat
      /\ h.pool.total_rex = t.pool.total_rex
      /\ h.pool.total_lendable = t.pool.total_lendable + loan.payment
      /\ h.pool.total_lent = p.total_lent + rented
  BY <1>1, <1>3, <1>4, PoolLend
<1>6. PoolSince(h.pool, c)
  BY <1>2, <1>3, <1>5, PoolChain
<1>7. /\ LoanRow(r, t.now) /\ r.kind = loan.kind /\ r.receiver = loan.receiver
      /\ r.total_staked = rented /\ r.balance = loan.balance - loan.payment
  <2>1. rented > 0
    BY <1>1, <1>5
  <2> QED
    BY <1>1, <1>2, <1>5, <2>1, RenewedRow
<1> HIDE DEF r
<1>8. delta \in Int /\ t.pool.total_lent + delta = h.pool.total_lent
  BY <1>1, <1>3, <1>5, MoneyParts
<1>9. /\ LoansOK(h.loans, t.loan_num, t.now, h.pool.total_lent)
      /\ LimitsOK(t.limits, h.loans, Shift(D, loan.receiver, loan.kind, -delta))
      /\ SumOf(BalancesOf(h.loans)) = SumOf(BalancesOf(t.loans)) - loan.balance + r.balance
  <2>1. LoansOK(t.loans, t.loan_num, t.now, t.pool.total_lent) /\ LimitsOK(t.limits, t.loans, D)
    BY DEF TablesOK
  <2>2. t.loan_num <= t.loan_num
    BY <1>1
  <2>3. n \in DOMAIN t.loans => t.loans[n].kind = r.kind /\ t.loans[n].receiver = r.receiver
    BY <1>7
  <2>4. delta = r.total_staked - BalanceOf(StakedOf(t.loans), n)
    BY <1>1, <1>7
  <2>5. PICK lent : lent = t.pool.total_lent
    OBVIOUS
  <2>6. /\ LoansOK(h.loans, t.loan_num, t.now, lent + delta)
        /\ LimitsOK(t.limits, h.loans, Shift(D, r.receiver, r.kind, -delta))
        /\ SumOf(BalancesOf(h.loans))
             = SumOf(BalancesOf(t.loans)) - BalanceOf(BalancesOf(t.loans), n) + r.balance
    BY <1>1, <1>7, <1>8, <2>1, <2>2, <2>3, <2>4, <2>5, LoanPut DEF r
  <2> QED
    BY <1>1, <1>7, <1>8, <2>5, <2>6
<1>10. MoneyOK(t.ledger, h.pool.total_lendable, t.funds, h.loans, t.orders, gap)
  <2>1. MoneyOK(t.ledger, t.pool.total_lendable, t.funds, t.loans, t.orders, gap)
    BY DEF TablesOK
  <2>2. BalanceOf(t.ledger, rex_account) =
          t.pool.total_lendable + SumOf(t.funds) + SumOf(BalancesOf(t.loans))
          + SumOf(ProceedsOf(t.orders)) + gap /\ IsTable(t.ledger) /\ IsTable(t.funds)
        /\ Unowed(t.ledger, Accounts) /\ Unowed(t.funds, Owners)
    BY <2>1 DEF MoneyOK
  <2>3. /\ t.pool.total_lendable \in Nat /\ SumOf(t.funds) \in Int
        /\ SumOf(BalancesOf(t.loans)) \in Int /\ SumOf(ProceedsOf(t.orders)) \in Int
    BY MoneyParts
  <2>4. BalanceOf(t.ledger, rex_account) =
          h.pool.total_lendable + SumOf(t.funds) + SumOf(BalancesOf(h.loans))
          + SumOf(ProceedsOf(t.orders)) + gap
    BY <1>1, <1>5, <1>7, <1>9, <2>2, <2>3
  <2> QED
    BY <2>2, <2>4 DEF MoneyOK
<1>11. NamesOK(t.ledger, t.namebid_proceeds, h.pool, c)
  BY <1>5 DEF TablesOK, NamesOK, rex_available
<1>12. BalOK(t.bal, h.pool.total_rex)
  BY <1>5 DEF TablesOK
<1>13. QueueOK(t.orders, h.loans)
  BY DEF QueueOK
<1>14. TablesOK(h, gap, Shift(D, loan.receiver, loan.kind, -delta), c)
  BY <1>6, <1>9, <1>10, <1>11, <1>12, <1>13 DEF Frame, TableFields, TablesOK
<1> QED
  BY <1>8, <1>14

\* A loan that is deleted: what is left of its fund goes to the owner's.
LEMMA DeletedSound ==
    ASSUME NEW t, NEW gap \in Int, NEW D, NEW c, TablesOK(t, gap, D, c),
           NEW n \in DOMAIN t.loans, NEW loan, loan = t.loans[n],
           NEW h, Frame(t, h, {"pool", "funds", "loans"}),
           h.pool = remove_loan_from_rex_pool(t.pool, loan.total_staked),
           h.funds = IF loan.balance > 0 THEN Add(t.funds, loan.from, loan.balance) ELSE t.funds,
           h.loans = Erase(t.loans, n)
    PROVE  TablesOK(h, gap, Shift(D, loan.receiver, loan.kind, loan.total_staked), c)
<1>1. /\ loan.total_staked \in 1..t.pool.total_lent /\ loan.balance \in Nat
      /\ t.loans = [m \in DOMAIN t.loans |-> t.loans[m]]
  BY LoanOf
<1>2. PoolOK(t.pool) /\ PoolSince(t.pool, c)
  BY DEF TablesOK, PoolSince
<1>3. /\ PoolStep(t.pool, h.pool) /\ h.pool.total_rex = t.pool.total_rex
      /\ h.pool.total_lendable = t.pool.total_lendable
      /\ h.pool.total_lent = t.pool.total_lent - loan.total_staked
  BY <1>1, <1>2, PoolRemove
<1>4. PoolSince(h.pool, c)
  BY <1>2, <1>3, PoolChain
<1>5. /\ LoansOK(h.loans, t.loan_num, t.now, h.pool.total_lent)
      /\ LimitsOK(t.limits, h.loans, Shift(D, loan.receiver, loan.kind, loan.total_staked))
      /\ SumOf(BalancesOf(h.loans)) = SumOf(BalancesOf(t.loans)) - loan.balance
  <2>1. LoansOK(t.loans, t.loan_num, t.now, t.pool.total_lent) /\ LimitsOK(t.limits, t.loans, D)
    BY DEF TablesOK
  <2>2. PICK r, k, stake, lent : /\ r = loan.receiver /\ k = loan.kind
                                 /\ stake = loan.total_staked /\ lent = t.pool.total_lent
    OBVIOUS
  <2>3. /\ LoansOK(h.loans, t.loan_num, t.now, lent - stake)
        /\ LimitsOK(t.limits, h.loans, Shift(D, r, k, stake))
        /\ SumOf(BalancesOf(h.loans)) = SumOf(BalancesOf(t.loans)) - loan.balance
    BY <2>1, <2>2, LoanErase
  <2> QED
    BY <1>3, <2>2, <2>3
<1>6. IsTable(h.funds) /\ SumOf(h.funds) = SumOf(t.funds) + loan.balance
  <2>1. CASE loan.balance > 0
    <3>1. Credited(t.funds, h.funds, loan.from, loan.balance)
      BY <1>1, <2>1, MoneyParts, AddHeld
    <3> QED
      BY <3>1 DEF Credited
  <2>2. CASE loan.balance = 0
    BY <2>2, MoneyParts
  <2> QED
    BY <1>1, <2>1, <2>2
<1>7. Unowed(h.funds, Owners)
  <2>1. IsTable(t.funds) /\ Unowed(t.funds, Owners)
    BY DEF TablesOK, MoneyOK
  <2>2. loan.from \in Owners
    <3>1. loan \in Loan
      BY DEF TablesOK, LoansOK
    <3> QED
      BY <3>1 DEF Loan
  <2> QED
    BY <1>1, <2>1, <2>2, AddUnowed
<1>8. MoneyOK(t.ledger, h.pool.total_lendable, h.funds, h.loans, t.orders, gap)
  <2>1. MoneyOK(t.ledger, t.pool.total_lendable, t.funds, t.loans, t.orders, gap)
    BY DEF TablesOK
  <2>2. BalanceOf(t.ledger, rex_account) =
          t.pool.total_lendable + SumOf(t.funds) + SumOf(BalancesOf(t.loans))
          + SumOf(ProceedsOf(t.orders)) + gap /\ IsTable(t.ledger)
        /\ Unowed(t.ledger, Accounts)
    BY <2>1 DEF MoneyOK
  <2>3. /\ t.pool.total_lendable \in Nat /\ SumOf(t.funds) \in Int
        /\ SumOf(BalancesOf(t.loans)) \in Int /\ SumOf(ProceedsOf(t.orders)) \in Int
    BY MoneyParts
  <2>4. BalanceOf(t.ledger, rex_account) =
          h.pool.total_lendable + SumOf(h.funds) + SumOf(BalancesOf(h.loans))
          + SumOf(ProceedsOf(t.orders)) + gap
    BY <1>1, <1>3, <1>5, <1>6, <2>2, <2>3
  <2> QED
    BY <1>6, <1>7, <2>2, <2>4 DEF MoneyOK
<1>9. NamesOK(t.ledger, t.namebid_proceeds, h.pool, c)
  BY <1>3 DEF TablesOK, NamesOK, rex_available
<1>10. BalOK(t.bal, h.pool.total_rex)
  BY <1>3 DEF TablesOK
<1>11. QueueOK(t.orders, h.loans)
  BY DEF QueueOK, Erase, TablesOK
<1> QED
  BY <1>4, <1>5, <1>8, <1>9, <1>10, <1>11 DEF Frame, TableFields, TablesOK

\* The fields that an expired loan changes.
LoanFields == {"pool", "loans", "funds", "limits"}

\* An expired loan, renewed or deleted, leaves sound tables.
LEMMA ExpiredSound ==
    ASSUME NEW t, NEW gap \in Int, NEW D, NEW c, Sound(t, gap, D, c),
           NEW n, t.ok => n \in DOMAIN t.loans /\ t.loans[n].expiration <= t.now
    PROVE  LET h == process_expired_loan(t, n)
           IN  Sound(h, gap, D, c) /\ Frame(t, h, LoanFields)
<1>1. PICK loan, p, removed, rented, delta :
        /\ loan = t.loans[n]
        /\ p = remove_loan_from_rex_pool(t.pool, loan.total_staked)
        /\ removed = [t EXCEPT !.pool = p]
        /\ rented = rented_tokens(p, loan.payment)
        /\ delta = rented - loan.total_staked
  OBVIOUS
<1>2. IsTables(t)
  BY DEF Sound
<1>3. Frame(t, removed, {"pool"}) /\ removed.pool = p /\ removed.ok = t.ok
  BY <1>1, <1>2, SetPool
<1>4. /\ removed.orders = t.orders /\ removed.loans = t.loans /\ removed.funds = t.funds
      /\ IsTables(removed)
  BY <1>3 DEF Frame, TableFields
<1>5. PICK renew : renew = (/\ loan.payment <= loan.balance
                            /\ loan.payment < rented
                            /\ rex_loans_available(removed))
  OBVIOUS
<1>6. CASE renew
  <2>1. PICK q : q = add_loan_to_rex_pool(p, loan.payment, rented)
    OBVIOUS
  <2>2. PICK loans : loans = [t.loans EXCEPT ![n] = RenewedLoan(loan, rented)]
    OBVIOUS
  <2>3. PICK u : u = [t EXCEPT !.pool = q]
    OBVIOUS
  <2>4. PICK w : w = [u EXCEPT !.loans = loans]
    OBVIOUS
  <2>5. process_expired_loan(t, n) = update_resource_limits(w, loan.receiver, loan.kind, delta)
    <3>1. process_expired_loan(t, n) =
            update_resource_limits(
              [t EXCEPT !.pool = q, !.loans[n] = RenewedLoan(loan, rented)],
              loan.receiver, loan.kind, delta)
      BY <1>1, <1>5, <1>6, <2>1, Zenon DEF process_expired_loan, RenewedLoan, delta_stake
    <3>2. [t EXCEPT !.pool = q, !.loans[n] = RenewedLoan(loan, rented)]
            = [u EXCEPT !.loans[n] = RenewedLoan(loan, rented)]
      BY <2>3
    <3>3. [u EXCEPT !.loans[n] = RenewedLoan(loan, rented)]
            = [u EXCEPT !.loans = [u.loans EXCEPT ![n] = RenewedLoan(loan, rented)]]
      OBVIOUS
    <3>4. u.loans = t.loans
      BY <1>2, <2>3, SetPool DEF Frame, TableFields
    <3> QED
      BY <2>2, <2>4, <3>1, <3>2, <3>3, <3>4
  <2>6. Frame(t, u, {"pool"}) /\ u.pool = q /\ u.ok = t.ok
    BY <1>2, <2>3, SetPool
  <2>7. IsTables(u)
    BY <2>6 DEF Frame
  <2>8. Frame(u, w, {"loans"}) /\ w.loans = loans /\ w.ok = u.ok
    BY <2>4, <2>7, SetLoans
  <2>9. Frame(t, w, {"pool", "loans"}) /\ w.pool = q
    BY <2>6, <2>8 DEF Frame, TableFields
  <2>10. IsTables(w)
    BY <2>9 DEF Frame
  <2>11. PICK h : h = update_resource_limits(w, loan.receiver, loan.kind, delta)
    OBVIOUS
  <2>12. Frame(w, h, {"limits"})
    BY <2>10, <2>11, LimitsFrame
  <2>13. Frame(t, h, LoanFields)
    BY <2>9, <2>12 DEF Frame, TableFields, LoanFields
  <2>14. ASSUME t.ok PROVE Sound(h, gap, D, c)
    <3>1. TablesOK(t, gap, D, c) /\ n \in DOMAIN t.loans /\ t.loans[n].expiration <= t.now
      BY <2>14 DEF Sound
    <3>2. loans = Put(t.loans, n, RenewedLoan(loan, rented))
      <4>1. t.loans = [m \in DOMAIN t.loans |-> t.loans[m]]
        BY <3>1, LoanOf
      <4>2. PICK row : row = RenewedLoan(loan, rented)
        OBVIOUS
      <4> QED
        BY <2>2, <3>1, <4>1, <4>2, SameRow
    <3>3. /\ loan.payment <= loan.balance /\ loan.payment < rented
          /\ rex_available(p) /\ \A o \in DOMAIN t.orders : ~t.orders[o].is_open
      BY <1>3, <1>4, <1>5, <1>6 DEF rex_loans_available, IsOpen
    <3>4. delta \in Int /\ TablesOK(w, gap, Shift(D, loan.receiver, loan.kind, -delta), c)
      BY <1>1, <2>1, <2>8, <2>9, <3>1, <3>2, <3>3, RenewedSound
    <3>5. loan.receiver \in Owners /\ loan.kind \in Kinds /\ IsDelegated(D)
      BY <1>1, <3>1, LoanOf, MoneyParts
    <3>6. PICK E, back, r, k : /\ back = -delta /\ r = loan.receiver /\ k = loan.kind
                               /\ E = Shift(D, r, k, back)
      OBVIOUS
    <3>7. Sound(w, gap, E, c)
      BY <2>10, <3>4, <3>6 DEF Sound
    <3>8. Sound(h, gap, Shift(E, r, k, delta), c)
      BY <2>11, <3>4, <3>5, <3>6, <3>7, LimitsSound
    <3>9. Shift(E, r, k, delta) = D
      <4>1. back \in Int /\ back + delta = 0
        BY <3>4, <3>6
      <4> QED
        BY <3>4, <3>5, <3>6, <4>1, ShiftBack
    <3> QED
      BY <3>8, <3>9
  <2>15. ASSUME ~t.ok PROVE Sound(h, gap, D, c)
    BY <2>13, <2>15 DEF Sound, Frame
  <2> QED
    BY <2>5, <2>11, <2>13, <2>14, <2>15
<1>7. CASE ~renew
  <2>1. PICK u : u = IF loan.balance > 0
                     THEN transfer_to_fund(removed, loan.from, loan.balance) ELSE removed
    OBVIOUS
  <2>2. PICK loans : loans = Erase(u.loans, n)
    OBVIOUS
  <2>3. PICK w : w = [u EXCEPT !.loans = loans]
    OBVIOUS
  <2>4. PICK back : back = -loan.total_staked
    OBVIOUS
  <2>5. process_expired_loan(t, n) = update_resource_limits(w, loan.receiver, loan.kind, back)
    BY <1>1, <1>5, <1>7, <2>1, <2>2, <2>3, <2>4, Zenon DEF process_expired_loan
  <2>6. /\ Frame(removed, u, {"funds"})
        /\ u.ok => u.funds = IF loan.balance > 0
                             THEN Add(t.funds, loan.from, loan.balance) ELSE t.funds
    <3>1. CASE loan.balance > 0
      BY <1>4, <2>1, <3>1, ToFundFrame
    <3>2. CASE ~(loan.balance > 0)
      BY <1>4, <2>1, <3>2 DEF Frame
    <3> QED
      BY <3>1, <3>2
  <2>7. IsTables(u) /\ u.loans = t.loans /\ u.pool = p
    BY <1>3, <1>4, <2>6 DEF Frame, TableFields
  <2>8. Frame(u, w, {"loans"}) /\ w.loans = loans /\ w.ok = u.ok
    BY <2>3, <2>7, SetLoans
  <2>9. Frame(t, w, {"pool", "funds", "loans"}) /\ w.pool = p /\ w.funds = u.funds
    BY <1>3, <2>6, <2>7, <2>8 DEF Frame, TableFields
  <2>10. IsTables(w)
    BY <2>9 DEF Frame
  <2>11. PICK h : h = update_resource_limits(w, loan.receiver, loan.kind, back)
    OBVIOUS
  <2>12. Frame(w, h, {"limits"})
    BY <2>10, <2>11, LimitsFrame
  <2>13. Frame(t, h, LoanFields)
    BY <2>9, <2>12 DEF Frame, TableFields, LoanFields
  <2>14. ASSUME w.ok PROVE Sound(h, gap, D, c)
    <3>1. TablesOK(t, gap, D, c) /\ n \in DOMAIN t.loans
      BY <2>9, <2>14 DEF Sound, Frame
    <3>2. TablesOK(w, gap, Shift(D, loan.receiver, loan.kind, loan.total_staked), c)
      <4>1. w.loans = Erase(t.loans, n)
        BY <2>2, <2>7, <2>8
      <4>2. w.funds = IF loan.balance > 0 THEN Add(t.funds, loan.from, loan.balance) ELSE t.funds
        BY <2>6, <2>8, <2>9, <2>14
      <4> QED
        BY <1>1, <2>9, <3>1, <4>1, <4>2, DeletedSound
    <3>3. /\ loan.receiver \in Owners /\ loan.kind \in Kinds /\ IsDelegated(D)
          /\ loan.total_staked \in Int
      <4>1. /\ loan.receiver \in Owners /\ loan.kind \in Kinds
            /\ loan.total_staked \in 1..t.pool.total_lent
        BY <1>1, <3>1, LoanOf
      <4>2. t.pool.total_lent \in Nat /\ IsDelegated(D)
        BY <3>1, MoneyParts
      <4> QED
        BY <4>1, <4>2
    <3>4. PICK E, stake, r, k : /\ stake = loan.total_staked /\ r = loan.receiver /\ k = loan.kind
                                /\ E = Shift(D, r, k, stake)
      OBVIOUS
    <3>5. Sound(w, gap, E, c)
      BY <2>10, <3>2, <3>4 DEF Sound
    <3>6. stake \in Int /\ back \in Int /\ stake + back = 0
      BY <2>4, <3>3, <3>4
    <3>7. Sound(h, gap, Shift(E, r, k, back), c)
      BY <2>11, <3>3, <3>4, <3>5, <3>6, LimitsSound
    <3>8. Shift(E, r, k, back) = D
      BY <3>3, <3>4, <3>6, ShiftBack
    <3> QED
      BY <3>7, <3>8
  <2>15. ASSUME ~w.ok PROVE Sound(h, gap, D, c)
    BY <2>12, <2>15 DEF Sound, Frame
  <2> QED
    BY <2>5, <2>11, <2>13, <2>14, <2>15
<1>8. renew \in BOOLEAN
  BY <1>5
<1> QED
  BY <1>6, <1>7, <1>8

\* A set of loans that is not empty has a first by expiration.
LEMMA FirstExists ==
    ASSUME NEW t, NEW S \in SUBSET Nat, S # {}, \A n \in S : t.loans[n].expiration \in Nat
    PROVE  FirstLoan(t, S) \in S
<1> DEFINE Time(n) == t.loans[n].expiration
           Times == {Time(n) : n \in S}
<1>1. PICK e \in Times : \A x \in Times : e <= x
  <2>1. Times \in SUBSET Nat /\ Times # {}
    OBVIOUS
  <2> HIDE DEF Times
  <2> QED
    BY <2>1, LeastNumber
<1> DEFINE Firsts == {n \in S : Time(n) = e}
<1>2. PICK n \in Firsts : \A m \in Firsts : n <= m
  BY <1>1, LeastNumber
<1>3. ASSUME NEW m \in S PROVE Before(n, Time(n), m, Time(m))
  <2>1. Time(n) = e /\ e \in Nat /\ Time(m) \in Nat /\ e <= Time(m)
    BY <1>1, <1>2
  <2>2. CASE Time(m) = e
    BY <1>2, <2>1, <2>2 DEF Before
  <2>3. CASE Time(m) # e
    BY <2>1, <2>3 DEF Before
  <2> QED
    BY <2>2, <2>3
<1>4. \E k \in S : \A m \in S : Before(k, Time(k), m, Time(m))
  BY <1>2, <1>3
<1> QED
  BY <1>4, Zenon DEF FirstLoan

\* The first loan of a kind, if it has expired, is dealt with soundly.
LEMMA FirstLoanSound ==
    ASSUME NEW t, NEW gap \in Int, NEW D, NEW c, Sound(t, gap, D, c), NEW kind
    PROVE  LET h == ProcessFirstLoan(t, kind)
           IN  Sound(h, gap, D, c) /\ Frame(t, h, LoanFields)
<1>1. PICK S : S = {n \in DOMAIN t.loans : t.loans[n].kind = kind}
  OBVIOUS
<1>2. CASE S # {} /\ t.loans[FirstLoan(t, S)].expiration <= t.now
  <2>1. ProcessFirstLoan(t, kind) = process_expired_loan(t, FirstLoan(t, S))
    BY <1>1, <1>2 DEF ProcessFirstLoan
  <2>2. ASSUME t.ok PROVE FirstLoan(t, S) \in DOMAIN t.loans
    <3>1. LoanRows(t.loans, t.loan_num, t.now)
      BY <2>2 DEF Sound, TablesOK, LoansOK, LoanRows
    <3>2. /\ S \in SUBSET Nat /\ S \subseteq DOMAIN t.loans
          /\ \A n \in S : t.loans[n].expiration \in Nat
      BY <1>1, <3>1 DEF LoanRows, Loan
    <3> QED
      BY <1>2, <3>2, FirstExists
  <2> QED
    BY <1>2, <2>1, <2>2, ExpiredSound
<1>3. CASE ~(S # {} /\ t.loans[FirstLoan(t, S)].expiration <= t.now)
  <2>1. ProcessFirstLoan(t, kind) = t
    BY <1>1, <1>3 DEF ProcessFirstLoan
  <2> QED
    BY <2>1 DEF Sound, Frame
<1> QED
  BY <1>2, <1>3

\* The loans that are processed one after the other, as a function of how many.
AreProcessed(u, t, kind, max) ==
    u = [i \in 0..max |-> IF i = 0 THEN t ELSE ProcessFirstLoan(u[i - 1], kind)]
Processed(t, kind, max) == CHOOSE u : AreProcessed(u, t, kind, max)

\* The loop over loans is defined for every bound.
LEMMA ProcessedExists ==
    ASSUME NEW t, NEW kind, NEW n \in Nat
    PROVE  AreProcessed(Processed(t, kind, n), t, kind, n)
<1> DEFINE Bad == {m \in Nat : ~ \E u : AreProcessed(u, t, kind, m)}
<1>1. SUFFICES ASSUME Bad # {} PROVE FALSE
  <2>1. \E u : AreProcessed(u, t, kind, n)
    BY <1>1
  <2> QED
    BY <2>1 DEF Processed
<1>2. PICK m \in Bad : \A k \in Bad : m <= k
  BY <1>1, LeastNumber
<1>3. m \in Nat /\ ~ \E u : AreProcessed(u, t, kind, m)
  BY <1>2
<1>4. CASE m = 0
  <2> DEFINE u == [i \in 0..m |-> t]
  <2>1. \A i \in 0..m : i = 0
    BY <1>4
  <2>2. AreProcessed(u, t, kind, m)
    BY <2>1 DEF AreProcessed
  <2> QED
    BY <1>3, <2>2
<1>5. CASE m # 0
  <2>1. m - 1 \in Nat /\ m - 1 \notin Bad
    BY <1>2, <1>3, <1>5
  <2>2. PICK k \in Nat : k = m - 1
    BY <2>1
  <2>3. PICK u : AreProcessed(u, t, kind, k)
    BY <2>1, <2>2
  <2> DEFINE h == [i \in 0..m |-> IF i = 0 THEN t ELSE ProcessFirstLoan(u[i - 1], kind)]
  <2>4. ASSUME NEW i \in 0..k PROVE h[i] = u[i]
    <3>1. i \in 0..m
      BY <1>3, <2>2
    <3> QED
      BY <2>3, <3>1 DEF AreProcessed
  <2>5. ASSUME NEW i \in 0..m, i # 0 PROVE h[i - 1] = u[i - 1]
    <3>1. i - 1 \in 0..k
      BY <1>3, <2>2, <2>5
    <3> QED
      BY <2>4, <3>1
  <2>6. AreProcessed(h, t, kind, m)
    <3>1. h = [i \in 0..m |-> IF i = 0 THEN t ELSE ProcessFirstLoan(h[i - 1], kind)]
      BY <2>5
    <3> HIDE DEF h
    <3> QED
      BY <3>1 DEF AreProcessed
  <2> QED
    BY <1>3, <2>6
<1> QED
  BY <1>4, <1>5

\* Loans that expire leave the tables sound, however many are processed.
LEMMA LoansSound ==
    ASSUME NEW t, NEW gap \in Int, NEW D, NEW c, Sound(t, gap, D, c), NEW kind, NEW max \in Nat
    PROVE  LET h == ProcessLoans(t, kind, max)
           IN  Sound(h, gap, D, c) /\ Frame(t, h, LoanFields)
<1> DEFINE u == Processed(t, kind, max)
           Good(i) == Sound(u[i], gap, D, c) /\ Frame(t, u[i], LoanFields)
           Bad == {i \in Nat : i <= max /\ ~Good(i)}
<1>1. ProcessLoans(t, kind, max) = u[max]
  BY Zenon DEF ProcessLoans, Processed, AreProcessed
<1>2. AreProcessed(u, t, kind, max)
  BY ProcessedExists
<1> HIDE DEF u
<1>3. ASSUME NEW i \in Nat, i <= max
      PROVE  u[i] = IF i = 0 THEN t ELSE ProcessFirstLoan(u[i - 1], kind)
  <2>1. i \in 0..max
    BY <1>3
  <2> QED
    BY <1>2, <2>1, Zenon DEF AreProcessed
<1>4. SUFFICES ASSUME Bad # {} PROVE FALSE
  <2>1. Good(max)
    BY <1>4
  <2> QED
    BY <1>1, <2>1
<1>5. PICK i \in Bad : \A k \in Bad : i <= k
  BY <1>4, LeastNumber
<1>6. i \in Nat /\ i <= max /\ ~Good(i)
  BY <1>5
<1>7. CASE i = 0
  <2>1. u[i] = t
    BY <1>3, <1>6, <1>7
  <2>2. Frame(t, t, LoanFields)
    BY DEF Sound, Frame
  <2> QED
    BY <1>6, <2>1, <2>2
<1>8. CASE i # 0
  <2>1. PICK k \in Nat : k = i - 1
    BY <1>6, <1>8
  <2>2. k \notin Bad /\ k <= max
    BY <1>5, <1>6, <2>1
  <2>3. Good(k)
    BY <2>2
  <2>4. u[i] = ProcessFirstLoan(u[k], kind)
    BY <1>3, <1>6, <1>8, <2>1
  <2>5. Sound(u[i], gap, D, c) /\ Frame(u[k], u[i], LoanFields)
    BY <2>3, <2>4, FirstLoanSound
  <2>6. Frame(t, u[i], LoanFields)
    BY <2>3, <2>5 DEF Frame
  <2> QED
    BY <1>6, <2>5, <2>6
<1> QED
  BY <1>7, <1>8

\* An order that is filled, and waits for its owner to collect it.
FilledRow(order, p, stake_change) ==
    [order EXCEPT !.proceeds = p, !.stake_change = stake_change, !.is_open = FALSE]

\* The row of an order that is filled.
LEMMA FilledRowOK ==
    ASSUME NEW order \in Order, NEW p \in Nat, NEW d \in Int
    PROVE  LET r == FilledRow(order, p, d)
           IN  r \in Order /\ ~r.is_open /\ r.proceeds = p
<1>1. PICK u : u = [order EXCEPT !.proceeds = p]
  OBVIOUS
<1>2. PICK w : w = [u EXCEPT !.stake_change = d]
  OBVIOUS
<1>3. PICK r : r = [w EXCEPT !.is_open = FALSE]
  OBVIOUS
<1>4. u \in Order /\ u.proceeds = p
  BY <1>1 DEF Order
<1>5. w \in Order /\ w.proceeds = p
  BY <1>2, <1>4 DEF Order
<1>6. r \in Order /\ ~r.is_open /\ r.proceeds = p
  BY <1>3, <1>5 DEF Order
<1>7. FilledRow(order, p, d) = r
  BY <1>1, <1>2, <1>3 DEF FilledRow
<1> QED
  BY <1>6, <1>7

\* The fields that an order changes.
OrderFields == {"pool", "bal", "orders"}

\* The queue is written.
LEMMA SetOrders ==
    ASSUME NEW t, IsTables(t), NEW orders, NEW h, h = [t EXCEPT !.orders = orders]
    PROVE  Frame(t, h, {"orders"}) /\ h.orders = orders /\ h.ok = t.ok
BY SMT DEF IsTables, TableFields, Frame

\* An order that is filled changes the pool, the row of its owner and its own.
LEMMA OrderFrame ==
    ASSUME NEW t, IsTables(t), NEW owner,
           IsOpen(t, owner) /\ CanFill(t.pool, t.orders[owner].rex_requested)
    PROVE  LET h == ProcessOrder(t, owner)
               rex == t.orders[owner].rex_requested
           IN  /\ Frame(t, h, OrderFields) /\ h.ok = t.ok
               /\ h.pool = fill_rex_order(t.pool, rex)
               /\ owner \in DOMAIN t.bal /\ t.bal = [o \in DOMAIN t.bal |-> t.bal[o]] =>
                    h.bal = Put(t.bal, owner, SoldRow(t, owner, rex))
               /\ owner \in DOMAIN t.orders /\ t.orders = [o \in DOMAIN t.orders |-> t.orders[o]] =>
                    h.orders = Put(t.orders, owner,
                                   FilledRow(t.orders[owner], proceeds(t.pool, rex),
                                             StakeDelta(t, h, owner)))
<1>1. PICK rex : rex = t.orders[owner].rex_requested
  OBVIOUS
<1>2. PICK u : u = FillOrder(t, owner, rex)
  OBVIOUS
<1>3. /\ Frame(t, u, {"pool", "bal"}) /\ u.ok = t.ok
      /\ u.pool = fill_rex_order(t.pool, rex)
      /\ owner \in DOMAIN t.bal /\ t.bal = [o \in DOMAIN t.bal |-> t.bal[o]] =>
           u.bal = Put(t.bal, owner, SoldRow(t, owner, rex))
  BY <1>2, FillFrame
<1>4. u.orders = t.orders /\ IsTables(u)
  BY <1>3 DEF Frame, TableFields
<1>5. PICK row : row = FilledRow(t.orders[owner], proceeds(t.pool, rex), StakeDelta(t, u, owner))
  OBVIOUS
<1>6. PICK orders : orders = [t.orders EXCEPT ![owner] = row]
  OBVIOUS
<1>7. PICK h : h = [u EXCEPT !.orders = orders]
  OBVIOUS
<1>8. ProcessOrder(t, owner) = h
  <2>1. PICK order : order = u.orders[owner]
    OBVIOUS
  <2>2. row = [order EXCEPT !.proceeds = proceeds(t.pool, rex),
                            !.stake_change = StakeDelta(t, u, owner),
                            !.is_open = FALSE]
    BY <1>4, <1>5, <2>1 DEF FilledRow
  <2>3. ProcessOrder(t, owner) =
          [u EXCEPT !.orders[owner] =
             [order EXCEPT !.proceeds = proceeds(t.pool, rex),
                           !.stake_change = StakeDelta(t, u, owner),
                           !.is_open = FALSE]]
    BY <1>1, <1>2, <2>1, Zenon DEF ProcessOrder
  <2>4. ProcessOrder(t, owner) = [u EXCEPT !.orders[owner] = row]
    BY <2>2, <2>3, Zenon
  <2>5. [u EXCEPT !.orders[owner] = row] = [u EXCEPT !.orders = [u.orders EXCEPT ![owner] = row]]
    OBVIOUS
  <2> QED
    BY <1>4, <1>6, <1>7, <2>4, <2>5
<1>9. Frame(u, h, {"orders"}) /\ h.orders = orders /\ h.ok = u.ok
  BY <1>4, <1>7, SetOrders
<1>10. Frame(t, h, OrderFields) /\ h.pool = u.pool /\ h.bal = u.bal
  BY <1>3, <1>9 DEF Frame, TableFields, OrderFields
<1>11. StakeDelta(t, h, owner) = StakeDelta(t, u, owner)
  BY <1>10 DEF StakeDelta
<1>12. owner \in DOMAIN t.orders /\ t.orders = [o \in DOMAIN t.orders |-> t.orders[o]] =>
         orders = Put(t.orders, owner, row)
  BY <1>6, SameRow
<1> QED
  BY <1>1, <1>3, <1>5, <1>8, <1>9, <1>10, <1>11, <1>12

\* An order in the queue is filled, if it can be, and keeps its proceeds for its owner.
LEMMA OrderSound ==
    ASSUME NEW t, NEW gap \in Int, NEW D, NEW c, Sound(t, gap, D, c), NEW owner,
           t.namebid_proceeds = 0
    PROVE  LET h == ProcessOrder(t, owner)
           IN  /\ Sound(h, gap, D, c) /\ Frame(t, h, OrderFields)
               /\ h.ok => DOMAIN h.bal = DOMAIN t.bal
<1>1. PICK rex : rex = t.orders[owner].rex_requested
  OBVIOUS
<1>2. CASE ~(IsOpen(t, owner) /\ CanFill(t.pool, rex))
  <2>1. ProcessOrder(t, owner) = t
    BY <1>1, <1>2 DEF ProcessOrder
  <2> QED
    BY <2>1 DEF Sound, Frame
<1>3. CASE IsOpen(t, owner) /\ CanFill(t.pool, rex)
  <2>1. PICK h : h = ProcessOrder(t, owner)
    OBVIOUS
  <2>2. IsTables(t)
    BY DEF Sound
  <2>3. PICK p, d : p = proceeds(t.pool, rex) /\ d = StakeDelta(t, h, owner)
    OBVIOUS
  <2>4. /\ Frame(t, h, OrderFields) /\ h.ok = t.ok
        /\ h.pool = fill_rex_order(t.pool, rex)
        /\ owner \in DOMAIN t.bal /\ t.bal = [o \in DOMAIN t.bal |-> t.bal[o]] =>
             h.bal = Put(t.bal, owner, SoldRow(t, owner, rex))
        /\ owner \in DOMAIN t.orders /\ t.orders = [o \in DOMAIN t.orders |-> t.orders[o]] =>
             h.orders = Put(t.orders, owner, FilledRow(t.orders[owner], p, d))
    BY <1>1, <1>3, <2>1, <2>2, <2>3, OrderFrame
  <2>5. ASSUME t.ok PROVE TablesOK(h, gap, D, c) /\ DOMAIN h.bal = DOMAIN t.bal
    <3>1. TablesOK(t, gap, D, c)
      BY <2>5 DEF Sound
    <3>2. PICK order : order = t.orders[owner]
      OBVIOUS
    <3>3. /\ owner \in DOMAIN t.orders /\ t.orders = [o \in DOMAIN t.orders |-> t.orders[o]]
          /\ order \in Order /\ order.is_open /\ owner \in Owners
          /\ owner \in DOMAIN t.bal /\ 0 < rex /\ rex <= t.bal[owner].matured
      BY <1>1, <1>3, <3>1, <3>2 DEF TablesOK, OrdersOK, IsOpen
    <3>4. rex \in Nat \ {0}
      BY <1>1, <3>2, <3>3 DEF Order
    <3>5. PICK w, r : w = t.bal[owner] /\ r = SoldRow(t, owner, rex)
      OBVIOUS
    <3>6. /\ w.rex_balance \in Nat /\ w.matured \in Nat /\ w.matured <= w.rex_balance
          /\ w.rex_balance <= t.pool.total_rex /\ w.vote_stake \in Int
          /\ t.bal = [o \in DOMAIN t.bal |-> t.bal[o]]
          /\ w = [x \in RowFields |-> w[x]]
      <4>1. /\ Holds(w, w.rex_balance) /\ w.rex_balance <= t.pool.total_rex
            /\ t.bal = [o \in DOMAIN t.bal |-> t.bal[o]]
        BY <3>1, <3>3, <3>5, OwnRow
      <4>2. /\ w.rex_balance \in Nat /\ w.matured \in Nat /\ InBuckets(w.maturities) \in Nat
            /\ w.matured + InBuckets(w.maturities) = w.rex_balance
            /\ w.vote_stake \in Int /\ IsRow(w)
        BY <4>1, RowParts
      <4> QED
        BY <4>1, <4>2 DEF IsRow
    <3>7. PoolOK(t.pool) /\ rex_available(t.pool) /\ rex <= t.pool.total_rex
          /\ t.pool.total_rex \in Nat
      <4>1. PoolOK(t.pool) /\ t.pool.total_rex \in Nat
        BY <3>1, MoneyParts DEF TablesOK, PoolSince
      <4> QED
        BY <3>3, <3>4, <3>5, <3>6, <4>1 DEF rex_available
    <3>8. p \in Nat /\ StakeValue(t.pool, w.rex_balance) \in Nat
      BY <2>3, <3>4, <3>6, <3>7, StakeValueNat
    <3>9. h.bal = Put(t.bal, owner, r) /\ h.orders = Put(t.orders, owner, FilledRow(order, p, d))
      BY <2>4, <3>2, <3>3, <3>5, <3>6
    <3>10. d \in Int
      <4>1. h.bal[owner] = r
        BY <3>9 DEF Put
      <4>2. r.vote_stake = StakeValue(t.pool, w.rex_balance) - p
        BY <2>3, <3>5, <3>6 DEF SoldRow, WithoutSold, RowFields
      <4> QED
        BY <2>3, <3>3, <3>5, <3>6, <3>8, <4>1, <4>2 DEF StakeDelta
    <3>11. PICK row : row = FilledRow(order, p, d)
      OBVIOUS
    <3>12. row \in Order /\ ~row.is_open /\ row.proceeds = p
      BY <3>3, <3>8, <3>10, <3>11, FilledRowOK
    <3>13. /\ OrdersOK(h.orders, t.bal)
           /\ SumOf(ProceedsOf(h.orders)) =
                SumOf(ProceedsOf(t.orders)) - BalanceOf(ProceedsOf(t.orders), owner) + p
      <4>1. OrdersOK(t.orders, t.bal)
        BY <3>1 DEF TablesOK
      <4> QED
        BY <3>3, <3>9, <3>11, <3>12, <4>1, OrderPut
    <3>14. SumOf(ProceedsOf(h.orders)) = SumOf(ProceedsOf(t.orders)) + p
      <4>1. BalanceOf(ProceedsOf(t.orders), owner) = 0 /\ SumOf(ProceedsOf(t.orders)) \in Int
        BY <3>1, <3>2, <3>3, OrderColumns DEF TablesOK
      <4> QED
        BY <3>8, <3>13, <4>1
    <3>15. Covered(h.orders, owner, r)
      BY <3>9, <3>11, <3>12 DEF Covered, Put
    <3>16. QueueOK(h.orders, t.loans)
      BY <3>1, <3>9, <3>11, <3>12 DEF QueueOK, Put, TablesOK
    <3>17. Frame(t, h, {"pool", "bal", "orders"})
      BY <2>4 DEF OrderFields
    <3>18. TablesOK(h, gap + p - p, D, c)
      <4>1. p \in Int
        BY <3>8
      <4> QED
        BY <1>3, <2>3, <2>4, <3>1, <3>3, <3>4, <3>5, <3>9, <3>13, <3>14, <3>15, <3>16, <3>17, <4>1,
           FillSound
    <3>19. gap + p - p = gap
      BY <3>8
    <3>20. DOMAIN h.bal = DOMAIN t.bal
      BY <3>3, <3>9 DEF Put
    <3> QED
      BY <3>18, <3>19, <3>20
  <2> QED
    BY <2>1, <2>4, <2>5 DEF Sound, Frame
<1> QED
  BY <1>2, <1>3

\* Orders processed one after the other, as a function of how many.
AreServed(u, t, q, max) ==
    u = [i \in 0..max |->
           IF i = 0 THEN t ELSE IF i > Len(q) THEN u[i - 1] ELSE ProcessOrder(u[i - 1], q[i])]
Served(t, q, max) == CHOOSE u : AreServed(u, t, q, max)

\* The loop over orders is defined for every bound.
LEMMA ServedExists ==
    ASSUME NEW t, NEW q, NEW n \in Nat
    PROVE  AreServed(Served(t, q, n), t, q, n)
<1> DEFINE Bad == {m \in Nat : ~ \E u : AreServed(u, t, q, m)}
<1>1. SUFFICES ASSUME Bad # {} PROVE FALSE
  <2>1. \E u : AreServed(u, t, q, n)
    BY <1>1
  <2> QED
    BY <2>1 DEF Served
<1>2. PICK m \in Bad : \A k \in Bad : m <= k
  BY <1>1, LeastNumber
<1>3. m \in Nat /\ ~ \E u : AreServed(u, t, q, m)
  BY <1>2
<1>4. CASE m = 0
  <2> DEFINE u == [i \in 0..m |-> t]
  <2>1. \A i \in 0..m : i = 0
    BY <1>4
  <2>2. AreServed(u, t, q, m)
    BY <2>1 DEF AreServed
  <2> QED
    BY <1>3, <2>2
<1>5. CASE m # 0
  <2>1. m - 1 \in Nat /\ m - 1 \notin Bad
    BY <1>2, <1>3, <1>5
  <2>2. PICK k \in Nat : k = m - 1
    BY <2>1
  <2>3. PICK u : AreServed(u, t, q, k)
    BY <2>1, <2>2
  <2> DEFINE h == [i \in 0..m |->
               IF i = 0 THEN t ELSE IF i > Len(q) THEN u[i - 1] ELSE ProcessOrder(u[i - 1], q[i])]
  <2>4. ASSUME NEW i \in 0..k PROVE h[i] = u[i]
    <3>1. i \in 0..m
      BY <1>3, <2>2
    <3> QED
      BY <2>3, <3>1 DEF AreServed
  <2>5. ASSUME NEW i \in 0..m, i # 0 PROVE h[i - 1] = u[i - 1]
    <3>1. i - 1 \in 0..k
      BY <1>3, <2>2, <2>5
    <3> QED
      BY <2>4, <3>1
  <2>6. AreServed(h, t, q, m)
    <3>1. h = [i \in 0..m |->
               IF i = 0 THEN t ELSE IF i > Len(q) THEN h[i - 1] ELSE ProcessOrder(h[i - 1], q[i])]
      BY <2>5
    <3> HIDE DEF h
    <3> QED
      BY <3>1 DEF AreServed
  <2> QED
    BY <1>3, <2>6
<1> QED
  BY <1>4, <1>5

\* Orders that are filled leave the tables sound, however many and in any order.
LEMMA OrdersSound ==
    ASSUME NEW t, NEW gap \in Int, NEW D, NEW c, Sound(t, gap, D, c), t.namebid_proceeds = 0,
           NEW max \in Nat
    PROVE  LET h == ProcessOrders(t, max)
           IN  /\ Sound(h, gap, D, c) /\ Frame(t, h, OrderFields)
               /\ h.ok => DOMAIN h.bal = DOMAIN t.bal
<1>1. PICK q : q = OpenOrders(t)
  OBVIOUS
<1> DEFINE u == Served(t, q, max)
           Good(i) == /\ Sound(u[i], gap, D, c) /\ Frame(t, u[i], OrderFields)
                      /\ u[i].ok => DOMAIN u[i].bal = DOMAIN t.bal
           Bad == {i \in Nat : i <= max /\ ~Good(i)}
<1>2. ProcessOrders(t, max) = u[max]
  BY <1>1, SMTT(30) DEF ProcessOrders, Served, AreServed
<1>3. AreServed(u, t, q, max)
  BY ServedExists
<1> HIDE DEF u
<1>4. ASSUME NEW i \in Nat, i <= max
      PROVE  u[i] = IF i = 0 THEN t
                    ELSE IF i > Len(q) THEN u[i - 1] ELSE ProcessOrder(u[i - 1], q[i])
  <2>1. i \in 0..max
    BY <1>4
  <2> QED
    BY <1>3, <2>1, Zenon DEF AreServed
<1>5. SUFFICES ASSUME Bad # {} PROVE FALSE
  <2>1. Good(max)
    BY <1>5
  <2> QED
    BY <1>2, <2>1
<1>6. PICK i \in Bad : \A k \in Bad : i <= k
  BY <1>5, LeastNumber
<1>7. i \in Nat /\ i <= max /\ ~Good(i)
  BY <1>6
<1>8. CASE i = 0
  <2>1. u[i] = t
    BY <1>4, <1>7, <1>8
  <2>2. Frame(t, t, OrderFields)
    BY DEF Sound, Frame
  <2> QED
    BY <1>7, <2>1, <2>2
<1>9. CASE i # 0
  <2>1. PICK k \in Nat : k = i - 1
    BY <1>7, <1>9
  <2>2. k \notin Bad /\ k <= max
    BY <1>6, <1>7, <2>1
  <2>3. Good(k)
    BY <2>2
  <2>4. u[i] = IF i > Len(q) THEN u[k] ELSE ProcessOrder(u[k], q[i])
    BY <1>4, <1>7, <1>9, <2>1
  <2>5. CASE i > Len(q)
    BY <1>7, <2>3, <2>4, <2>5
  <2>6. CASE ~(i > Len(q))
    <3>1. u[k].namebid_proceeds = 0
      BY <2>3 DEF Frame, TableFields, OrderFields
    <3>2. PICK owner : owner = q[i]
      OBVIOUS
    <3>3. u[i] = ProcessOrder(u[k], owner)
      BY <2>4, <2>6, <3>2
    <3>4. /\ Sound(u[i], gap, D, c) /\ Frame(u[k], u[i], OrderFields)
          /\ u[i].ok => DOMAIN u[i].bal = DOMAIN u[k].bal
      BY <2>3, <3>1, <3>3, OrderSound
    <3>5. Frame(t, u[i], OrderFields)
      BY <2>3, <3>4 DEF Frame
    <3> QED
      BY <1>7, <2>3, <3>4, <3>5 DEF Frame
  <2> QED
    BY <2>5, <2>6
<1> QED
  BY <1>8, <1>9

\* The fields that maintenance changes.
RunFields == {"namebid_proceeds", "ledger"} \cup LoanFields \cup OrderFields

\* Maintenance keeps the tables sound, for every bound, and strikes off the name bids.
THEOREM RunSound ==
    ASSUME NEW t, NEW gap \in Int, NEW D, NEW c, Sound(t, gap, D, c), NEW max \in Nat
    PROVE  LET h == runrex(t, max)
           IN  /\ Sound(h, gap, D, c) /\ Frame(t, h, RunFields) /\ h.namebid_proceeds = 0
               /\ h.ok => DOMAIN h.bal = DOMAIN t.bal
<1>1. PICK a : a = ChannelNamebids(t)
  OBVIOUS
<1>2. PICK b : b = ProcessLoans(a, "cpu", max)
  OBVIOUS
<1>3. PICK d : d = ProcessLoans(b, "net", max)
  OBVIOUS
<1>4. PICK h : h = ProcessOrders(d, max)
  OBVIOUS
<1>5. runrex(t, max) = h
  BY <1>1, <1>2, <1>3, <1>4 DEF runrex
<1>6. /\ Sound(a, gap, D, c) /\ a.namebid_proceeds = 0
      /\ Frame(t, a, {"namebid_proceeds", "ledger", "pool"})
  BY <1>1, NamebidsSound
<1>7. Sound(b, gap, D, c) /\ Frame(a, b, LoanFields)
  BY <1>2, <1>6, LoansSound
<1>8. Sound(d, gap, D, c) /\ Frame(b, d, LoanFields)
  BY <1>3, <1>7, LoansSound
<1>9. d.namebid_proceeds = 0 /\ d.bal = t.bal
  BY <1>6, <1>7, <1>8 DEF Frame, TableFields, LoanFields
<1>10. /\ Sound(h, gap, D, c) /\ Frame(d, h, OrderFields)
       /\ h.ok => DOMAIN h.bal = DOMAIN d.bal
  BY <1>4, <1>8, <1>9, OrdersSound
<1>11. h.namebid_proceeds = 0
  BY <1>9, <1>10 DEF Frame, TableFields, OrderFields
<1>12. Frame(t, h, RunFields)
  BY <1>6, <1>7, <1>8, <1>10 DEF Frame, RunFields, LoanFields
<1> QED
  BY <1>5, <1>9, <1>10, <1>11, <1>12

-----------------------------------------------------------------------------
(* The actions, on the variables                                           *)

\* What is delegated, by receiver and kind.
Del == [r \in Owners |-> [k \in Kinds |-> Delegated(r, k)]]
DelOK == delband \in [Owners -> [Owners -> [Kinds -> Nat]]]

\* What a transaction starts from.
Here == [now |-> now, pool |-> rex_pool, bal |-> rexbal,
         names |-> Balance(names_account) - namebid_proceeds]

IInv == TablesOK(Tables, 0, Del, Here) /\ DelOK

\* Within a step in which no time passes, what was locked stays locked, and what
\* an owner has more is locked.
LockKept ==
    now' = now /\ MaturityOf(now) < end_of_days =>
      \A o \in Owners, time \in (now + 1)..MaturityOf(now) :
        Locked(o, time)' >= Locked(o, time) + Max({0, Holding(o)' - Holding(o)})

\* What every step does: ShareValueNeverFalls, NamebidsReachRex and LockHeld.
StepOK ==
    /\ LockKept
    /\ ValueKept(rex_pool, rex_pool')
    /\ namebid_proceeds' < namebid_proceeds =>
         Balance(names_account) - Balance(names_account)' = namebid_proceeds - namebid_proceeds'

\* The fields of the tables are the variables.
LEMMA TablesFields ==
    /\ IsTables(Tables) /\ Tables.ok = TRUE /\ Tables.now = now /\ Tables.ledger = ledger
    /\ Tables.pool = rex_pool /\ Tables.namebid_proceeds = namebid_proceeds
    /\ Tables.loan_num = loan_num /\ Tables.funds = rexfund /\ Tables.bal = rexbal
    /\ Tables.orders = rexqueue /\ Tables.loans = rexloans /\ Tables.staked = staked
    /\ Tables.limits = limits
BY DEF IsTables, TableFields, Tables

\* Every transaction begins with sound tables that owe what they hold.
LEMMA Begin == IInv => Sound(Tables, 0, Del, Here) /\ Tables.ok
BY TablesFields DEF IInv, Sound

\* The fields of what a transaction starts from.
LEMMA HereFields == /\ Here.now = now /\ Here.pool = rex_pool /\ Here.bal = rexbal
                    /\ Here.names = Balance(names_account) - namebid_proceeds
BY DEF Here

\* Sound tables are sound measured from themselves.
LEMMA Rebase ==
    ASSUME NEW t, NEW gap, NEW D, NEW c, TablesOK(t, gap, D, c),
           NEW e, e.now = t.now, e.pool = t.pool, e.bal = t.bal,
           e.names = BalanceOf(t.ledger, names_account) - t.namebid_proceeds
    PROVE  TablesOK(t, gap, D, e)
<1>1. PoolOK(e.pool)
  BY DEF TablesOK, PoolSince
<1>2. PoolSince(t.pool, e)
  BY <1>1, PoolStart
<1>3. e.names \in Int /\ NamesOK(t.ledger, t.namebid_proceeds, t.pool, e)
  <2>1. BalanceOf(t.ledger, names_account) \in Int /\ t.namebid_proceeds \in Int
    BY MoneyParts
  <2>2. BalanceOf(t.ledger, names_account) = t.namebid_proceeds + e.names /\ e.names \in Int
    BY <2>1
  <2> QED
    BY <2>2 DEF TablesOK, NamesOK
<1>4. LocksOK(t.bal, t.now, e)
  <2>1. PICK x : x = t.pool.total_rex
    OBVIOUS
  <2>2. BalOK(t.bal, x) /\ LocksOK(t.bal, t.now, c)
    BY <2>1 DEF TablesOK
  <2>3. MaturityOf(t.now) < end_of_days =>
          \A o \in DOMAIN t.bal : InOrder(t.bal[o].maturities, MaturityOf(t.now))
    BY <2>2 DEF LocksOK
  <2> QED
    BY <2>2, <2>3, LocksStart
<1> QED
  BY <1>2, <1>3, <1>4 DEF TablesOK

\* The value of REX that is kept in two steps is kept in both.
LEMMA ValueChain ==
    ASSUME NEW p, NEW q, NEW r, PoolOK(p), PoolOK(q), PoolOK(r), rex_available(q),
           ValueKept(p, q), ValueKept(q, r)
    PROVE  ValueKept(p, r)
<1>1. SUFFICES ASSUME rex_available(p), rex_available(r)
               PROVE  p.total_lendable * r.total_rex <= r.total_lendable * p.total_rex
  BY DEF ValueKept
<1>2. /\ p.total_lendable \in Nat /\ q.total_lendable \in Nat /\ r.total_lendable \in Nat
      /\ p.total_rex \in Nat /\ q.total_rex \in Nat \ {0} /\ r.total_rex \in Nat
  BY DEF PoolOK, Pool, rex_available
<1>3. /\ p.total_lendable * q.total_rex <= q.total_lendable * p.total_rex
      /\ q.total_lendable * r.total_rex <= r.total_lendable * q.total_rex
  BY <1>1 DEF ValueKept
<1> QED
  BY <1>2, <1>3, RatioChain

\* What a transaction may be measured by: the pool as it was, or once REX is
\* bought, the rows of rexbal, and the tokens in eosio.names that are no one's yet.
Since(c) ==
    /\ c.pool = rex_pool \/ (ValueKept(rex_pool, c.pool) /\ rex_available(c.pool))
    /\ c.bal = rexbal
Basis(c) == c.names = Here.names /\ Since(c)

\* The greater of zero and a number.
LEMMA MaxZero == ASSUME NEW d \in Int PROVE Max({0, d}) = IF d > 0 THEN d ELSE 0
<1>1. PICK x : x = IF d > 0 THEN d ELSE 0
  OBVIOUS
<1>2. x \in {0, d} /\ (\A y \in {0, d} : x >= y) /\ x \in Int
  BY <1>1
<1>3. \A z \in {0, d} : (\A y \in {0, d} : z >= y) => z = x
  BY <1>1, <1>2
<1> QED
  BY <1>1, <1>2, <1>3 DEF Max

\* What a transaction does to the locks of the owners.
LEMMA LockStep ==
    ASSUME now \in Nat, NEW total, BalOK(rexbal, total), NEW more, BalOK(rexbal', more),
           NEW c, c.bal = rexbal, LocksOK(rexbal', now', c)
    PROVE  LockKept
<1> SUFFICES ASSUME now' = now, MaturityOf(now) < end_of_days,
                    NEW o \in Owners, NEW time \in (now + 1)..MaturityOf(now)
             PROVE  Locked(o, time)' >= Locked(o, time) + Max({0, Holding(o)' - Holding(o)})
  BY DEF LockKept
<1>1. PICK i, j, x, y : /\ i = LockOf(rexbal, o, time) /\ j = LockOf(rexbal', o, time)
                        /\ x = HoldOf(rexbal, o) /\ y = HoldOf(rexbal', o)
  OBVIOUS
<1>2. i \in Nat /\ j \in Nat /\ x \in Nat /\ y \in Nat
  BY <1>1, LocksNat
<1>3. i <= j /\ i + y <= j + x
  <2>1. time \in Nat /\ now < time /\ time <= MaturityOf(now)
    BY MaturityNat
  <2> QED
    BY <1>1, <2>1 DEF LocksOK
<1>4. PICK d : d = y - x
  OBVIOUS
<1>5. j >= i + Max({0, d})
  <2>1. d \in Int /\ Max({0, d}) = IF d > 0 THEN d ELSE 0
    BY <1>2, <1>4, MaxZero
  <2> QED
    BY <1>2, <1>3, <1>4, <2>1
<1>6. i = Locked(o, time) /\ j = Locked(o, time)'
  BY <1>1 DEF LockOf, Locked
<1>7. x = Holding(o) /\ y = Holding(o)'
  BY <1>1 DEF HoldOf, Holding
<1> QED
  BY <1>4, <1>5, <1>6, <1>7

\* A transaction that leaves sound tables, that owe what they hold.
LEMMA Done ==
    ASSUME NEW t, NEW D, NEW c, IInv, Commit(t), Sound(t, 0, D, c), D = Del', DelOK',
           Since(c), c.names = Here.names \/ namebid_proceeds' = namebid_proceeds
    PROVE  IInv' /\ StepOK
<1>1. TablesOK(t, 0, D, c) /\ t.now = now'
  BY DEF Commit, Sound
<1>2. PICK u, e : u = Tables' /\ e = Here'
  OBVIOUS
<1>3. /\ u.now = now' /\ u.ledger = ledger'
      /\ u.pool = rex_pool' /\ u.namebid_proceeds = namebid_proceeds'
      /\ u.loan_num = loan_num' /\ u.funds = rexfund' /\ u.bal = rexbal'
      /\ u.orders = rexqueue' /\ u.loans = rexloans' /\ u.limits = limits'
      /\ u.staked = staked'
  <2>1. (/\ IsTables(Tables) /\ Tables.ok = TRUE /\ Tables.now = now /\ Tables.ledger = ledger
         /\ Tables.pool = rex_pool /\ Tables.namebid_proceeds = namebid_proceeds
         /\ Tables.loan_num = loan_num /\ Tables.funds = rexfund /\ Tables.bal = rexbal
         /\ Tables.orders = rexqueue /\ Tables.loans = rexloans /\ Tables.staked = staked
         /\ Tables.limits = limits)'
    BY TablesFields, PTL
  <2> QED
    BY <1>2, <2>1
<1>4. TablesOK(u, 0, D, c)
  BY <1>1, <1>3 DEF Commit, TablesOK
<1>5. e.now = u.now /\ e.pool = u.pool /\ e.bal = u.bal
      /\ e.names = BalanceOf(u.ledger, names_account) - u.namebid_proceeds
  <2>1. (/\ Here.now = now /\ Here.pool = rex_pool /\ Here.bal = rexbal
         /\ Here.names = Balance(names_account) - namebid_proceeds)'
    BY HereFields, PTL
  <2> QED
    BY <1>2, <1>3, <2>1 DEF Balance
<1>6. TablesOK(u, 0, D, e)
  BY <1>4, <1>5, Rebase
<1>7. IInv'
  BY <1>2, <1>6 DEF IInv
<1>8. ValueKept(rex_pool, rex_pool')
  <2>1. PICK p, q : p = rex_pool /\ q = rex_pool'
    OBVIOUS
  <2>2. PoolOK(p)
    BY TablesFields, <2>1 DEF IInv, TablesOK, PoolSince
  <2>3. PoolOK(q) /\ PoolOK(c.pool) /\ ValueKept(c.pool, q)
    BY <1>3, <1>4, <2>1 DEF TablesOK, PoolSince
  <2>4. CASE c.pool = rex_pool
    BY <2>1, <2>3, <2>4
  <2>5. CASE ValueKept(rex_pool, c.pool) /\ rex_available(c.pool)
    BY <2>1, <2>2, <2>3, <2>5, ValueChain
  <2> QED
    BY <2>4, <2>5 DEF Since
<1>9. /\ Balance(names_account)' = namebid_proceeds' + c.names
      /\ namebid_proceeds' \in Int
  <2>1. NamesOK(u.ledger, u.namebid_proceeds, u.pool, c)
    BY <1>4 DEF TablesOK
  <2> QED
    BY <1>3, <2>1 DEF NamesOK, Balance
<1>10. /\ c.names = Here.names => c.names = Balance(names_account) - namebid_proceeds
       /\ Balance(names_account) \in Int /\ namebid_proceeds \in Int
  <2>1. PICK v, g, h : v = Tables /\ g = Del /\ h = Here
    OBVIOUS
  <2>2. TablesOK(v, 0, g, h)
    BY <2>1 DEF IInv
  <2>3. v.namebid_proceeds \in Nat /\ BalanceOf(v.ledger, names_account) \in Int
    BY <2>2, MoneyParts
  <2> QED
    BY <2>1, <2>3, TablesFields, HereFields DEF Balance
<1>11. LockKept
  <2>1. PICK v, g, h : v = Tables /\ g = Del /\ h = Here
    OBVIOUS
  <2>2. TablesOK(v, 0, g, h)
    BY <2>1 DEF IInv
  <2>3. now \in Nat /\ BalOK(rexbal, v.pool.total_rex)
    BY <2>1, <2>2, MoneyParts, TablesFields DEF TablesOK
  <2>4. LocksOK(rexbal', now', c) /\ c.bal = rexbal /\ BalOK(rexbal', u.pool.total_rex)
    BY <1>3, <1>4 DEF TablesOK, Since
  <2> QED
    BY <2>3, <2>4, LockStep
<1>12. StepOK
  BY <1>8, <1>9, <1>10, <1>11 DEF StepOK
<1> QED
  BY <1>7, <1>12

\* Without a change of what is delegated.
LEMMA DelSame == DelOK /\ UNCHANGED delband => Del' = Del /\ DelOK'
BY DEF Del, Delegated, DelOK

\* A transaction that leaves delband alone.
LEMMA DoneHere ==
    ASSUME NEW t, NEW D, NEW c, IInv, Commit(t), UNCHANGED delband,
           Sound(t, 0, D, c), Basis(c), D = Del
    PROVE  IInv' /\ StepOK
BY DelSame, Done DEF IInv, Basis

\* The tables a transaction starts from, under names of their own.
LEMMA Start ==
    ASSUME IInv
    PROVE  \E t, D, c : /\ t = Tables /\ D = Del /\ c = Here
                        /\ Sound(t, 0, D, c) /\ TablesOK(t, 0, D, c) /\ IsTables(t) /\ t.ok
                        /\ Basis(c)
<1>1. PICK t, D, c : t = Tables /\ D = Del /\ c = Here
  OBVIOUS
<1>2. Sound(t, 0, D, c) /\ t.ok
  BY <1>1, Begin
<1>3. c.names = Here.names /\ c.pool = rex_pool /\ c.bal = rexbal
  BY <1>1, HereFields
<1> QED
  BY <1>1, <1>2, <1>3 DEF Sound, Basis, Since

-----------------------------------------------------------------------------
(* The REX fund                                                            *)

\* deposit keeps the invariant.
LEMMA depositStep ==
    ASSUME IInv, NEW owner \in Owners, NEW amount \in Nat, deposit(owner, amount)
    PROVE  IInv' /\ StepOK
<1>1. PICK t, D, c : /\ t = Tables /\ D = Del /\ Sound(t, 0, D, c) /\ Basis(c)
  BY Start
<1>2. PICK u : u = transfer(t, owner, rex_account, amount)
  OBVIOUS
<1>3. PICK h : h = transfer_to_fund(u, owner, amount)
  OBVIOUS
<1>4. Commit(h) /\ UNCHANGED delband
  BY <1>1, <1>2, <1>3 DEF deposit
<1>5. owner \notin {rex_account, names_account} /\ 0 \in Int /\ amount \in Int
  BY RexTablesAssumption
<1>6. PICK gap \in Int : gap = 0 + amount
  BY <1>5
<1>7. Sound(u, gap, D, c)
  BY <1>1, <1>2, <1>5, <1>6, TransferInSound
<1>8. Sound(h, gap - amount, D, c)
  BY <1>3, <1>5, <1>7, ToFundSound
<1>9. gap - amount = 0
  BY <1>5, <1>6
<1> QED
  BY <1>1, <1>4, <1>8, <1>9, DoneHere

\* withdraw keeps the invariant: what leaves the fund leaves eosio.rex.
LEMMA withdrawStep ==
    ASSUME IInv, NEW owner \in Owners, NEW amount \in Nat, withdraw(owner, amount)
    PROVE  IInv' /\ StepOK
<1>1. PICK t, D, c : /\ t = Tables /\ D = Del /\ Sound(t, 0, D, c) /\ Basis(c)
  BY Start
<1>2. PICK u : u = update_rex_account(t, owner, 0, 0)
  OBVIOUS
<1>3. PICK w : w = transfer_from_fund(u, owner, amount)
  OBVIOUS
<1>4. PICK h : h = transfer(w, rex_account, owner, amount)
  OBVIOUS
<1>5. Commit(h) /\ UNCHANGED delband
  BY <1>1, <1>2, <1>3, <1>4 DEF withdraw
<1>6. owner \notin {rex_account, names_account} /\ 0 \in Int /\ 0 \in Nat /\ amount \in Int
  BY RexTablesAssumption
<1>7. owner \in Accounts
  BY DEF Accounts
<1>8. 0 - 0 = 0 /\ 0 + amount = amount /\ amount - amount = 0
  BY <1>6
<1>9. Sound(u, 0, D, c)
  <2>1. Sound(u, 0 - 0, D, c)
    BY <1>1, <1>2, <1>6, AccountSound
  <2> QED
    BY <1>8, <2>1
<1>10. Sound(w, amount, D, c)
  <2>1. Sound(w, 0 + amount, D, c)
    BY <1>3, <1>6, <1>9, FromFundSound
  <2> QED
    BY <1>8, <2>1
<1>11. Sound(h, 0, D, c)
  <2>1. Sound(h, amount - amount, D, c)
    BY <1>4, <1>6, <1>10, <1>7, TransferOutSound
  <2> QED
    BY <1>8, <2>1
<1> QED
  BY <1>1, <1>5, <1>11, DoneHere

-----------------------------------------------------------------------------
(* Maintenance by anyone, and the rest of the system                       *)

\* rexexec keeps the invariant.
LEMMA rexexecStep ==
    ASSUME IInv, NEW max \in Nat, rexexec(max)
    PROVE  IInv' /\ StepOK
<1>1. PICK t, D, c : /\ t = Tables /\ D = Del /\ Sound(t, 0, D, c) /\ Basis(c)
  BY Start
<1>2. PICK h : h = runrex(t, max)
  OBVIOUS
<1>3. Commit(h) /\ UNCHANGED delband
  BY <1>1, <1>2 DEF rexexec
<1>4. Sound(h, 0, D, c)
  BY <1>1, <1>2, RunSound
<1> QED
  BY <1>1, <1>3, <1>4, DoneHere

\* setrex keeps the invariant: the rent is no part of what the pool can lend.
LEMMA setrexStep ==
    ASSUME IInv, NEW balance \in Nat, setrex(balance)
    PROVE  IInv' /\ StepOK
<1>1. PICK t, D, c : /\ t = Tables /\ D = Del /\ Sound(t, 0, D, c) /\ Basis(c)
                     /\ TablesOK(t, 0, D, c) /\ IsTables(t)
  BY Start
<1>2. PICK pool : pool = [t.pool EXCEPT !.total_rent = balance]
  OBVIOUS
<1>3. PICK h : h = [t EXCEPT !.pool = pool]
  OBVIOUS
<1>4. Commit(h) /\ UNCHANGED delband
  <2>1. h = [t EXCEPT !.pool.total_rent = balance]
    BY <1>2, <1>3
  <2> QED
    BY <1>1, <2>1 DEF setrex
<1>5. Frame(t, h, {"pool"}) /\ h.pool = pool
  BY <1>1, <1>3, SetPool
<1>6. PoolOK(t.pool) /\ PoolSince(t.pool, c)
  BY <1>1 DEF TablesOK, PoolSince
<1>7. /\ pool \in Pool /\ pool.total_rex = t.pool.total_rex
      /\ pool.total_lendable = t.pool.total_lendable /\ pool.total_lent = t.pool.total_lent
      /\ pool.total_unlent = t.pool.total_unlent
  BY <1>2, <1>6 DEF PoolOK, Pool
<1>8. PoolOK(pool)
  BY <1>6, <1>7 DEF PoolOK
<1>9. PoolSince(pool, c)
  <2>1. t.pool.total_lendable \in Nat /\ t.pool.total_rex \in Nat
    BY <1>6 DEF PoolOK, Pool
  <2>2. ValueKept(t.pool, pool)
    BY <1>7, <2>1 DEF ValueKept
  <2>3. PoolStep(t.pool, pool)
    BY <1>7, <1>8, <2>2 DEF PoolStep, rex_available
  <2> QED
    BY <1>6, <2>3, PoolChain
<1>10. NamesOK(t.ledger, t.namebid_proceeds, pool, c)
  BY <1>1, <1>7 DEF TablesOK, NamesOK, rex_available
<1>11. TablesOK(h, 0, D, c)
  BY <1>1, <1>5, <1>7, <1>9, <1>10 DEF Frame, TableFields, TablesOK
<1>12. Sound(h, 0, D, c)
  BY <1>5, <1>11 DEF Sound, Frame
<1> QED
  BY <1>1, <1>4, <1>12, DoneHere

\* A fee channeled to REX keeps the invariant: the pool grows by what is transferred.
LEMMA FeeStep ==
    ASSUME IInv, NEW amount \in Nat, FeeChanneled(amount)
    PROVE  IInv' /\ StepOK
<1>1. PICK t, D, c : /\ t = Tables /\ D = Del /\ Sound(t, 0, D, c) /\ Basis(c)
  BY Start
<1>2. PICK u : u = transfer(t, Others, rex_account, amount)
  OBVIOUS
<1>3. PICK pool : pool = channel_to_rex(u.pool, amount)
  OBVIOUS
<1>4. PICK h : h = [u EXCEPT !.pool = pool]
  OBVIOUS
<1>5. Commit(h) /\ UNCHANGED delband /\ rex_available(rex_pool)
  BY <1>1, <1>2, <1>3, <1>4 DEF FeeChanneled
<1>6. Others \notin {rex_account, names_account} /\ 0 \in Int /\ amount \in Int /\ 0 + amount = amount
  BY RexAssumption
<1>7. Sound(u, amount, D, c)
  <2>1. Sound(u, 0 + amount, D, c)
    BY <1>1, <1>2, <1>6, TransferInSound
  <2> QED
    BY <1>6, <2>1
<1>8. IsTables(t) /\ IsTables(u)
  BY <1>1, <1>7 DEF Sound
<1>9. Frame(t, u, {"ledger"})
  BY <1>2, <1>8, TransferFrame
<1>10. Frame(u, h, {"pool"}) /\ h.pool = pool /\ h.ok = u.ok
  BY <1>4, <1>8, SetPool
<1>11. TablesOK(u, amount, D, c) /\ rex_available(u.pool)
  <2>1. u.pool = t.pool /\ u.ok
    BY <1>5, <1>9, <1>10 DEF Frame, TableFields, Commit
  <2> QED
    BY <1>1, <1>5, <1>7, <2>1, TablesFields DEF Sound
<1>12. PoolOK(u.pool) /\ PoolSince(u.pool, c) /\ u.pool \in Pool
  BY <1>11 DEF TablesOK, PoolSince, PoolOK
<1>13. /\ pool.total_lendable = u.pool.total_lendable + amount
       /\ pool.total_rex = u.pool.total_rex /\ pool.total_lent = u.pool.total_lent
  BY <1>3, <1>11 DEF channel_to_rex
<1>14. PoolSince(pool, c)
  <2>1. PoolOK(pool) /\ ValueKept(u.pool, pool)
    BY <1>3, <1>12, ChannelToRexOK, IncomeKeepsValue
  <2>2. PoolStep(u.pool, pool)
    BY <1>11, <2>1 DEF PoolStep
  <2> QED
    BY <1>12, <2>2, PoolChain
<1>15. MoneyOK(u.ledger, pool.total_lendable, u.funds, u.loans, u.orders, 0)
  <2>1. MoneyOK(u.ledger, u.pool.total_lendable, u.funds, u.loans, u.orders, amount)
    BY <1>11 DEF TablesOK
  <2>2. /\ u.pool.total_lendable \in Nat /\ SumOf(u.funds) \in Int
        /\ SumOf(BalancesOf(u.loans)) \in Int /\ SumOf(ProceedsOf(u.orders)) \in Int
    BY <1>11, MoneyParts
  <2> QED
    BY <1>6, <1>13, <2>1, <2>2 DEF MoneyOK
<1>16. NamesOK(u.ledger, u.namebid_proceeds, pool, c)
  BY <1>11, <1>13 DEF TablesOK, NamesOK, rex_available
<1>17. TablesOK(h, 0, D, c)
  BY <1>10, <1>11, <1>13, <1>14, <1>15, <1>16 DEF Frame, TableFields, TablesOK
<1>18. Sound(h, 0, D, c)
  BY <1>10, <1>17 DEF Sound, Frame
<1> QED
  BY <1>1, <1>5, <1>18, DoneHere

\* The proceeds of name bids are written.
LEMMA SetNamebids ==
    ASSUME NEW t, IsTables(t), NEW v, NEW h, h = [t EXCEPT !.namebid_proceeds = v]
    PROVE  Frame(t, h, {"namebid_proceeds"}) /\ h.namebid_proceeds = v /\ h.ok = t.ok
BY SMT DEF IsTables, TableFields, Frame

\* A name bid keeps the invariant: what is put down for REX is in eosio.names.
LEMMA namebidStep ==
    ASSUME IInv, NEW bid \in Nat, channel_namebid_to_rex(bid)
    PROVE  IInv' /\ StepOK
<1>1. PICK t, D, c : /\ t = Tables /\ D = Del /\ c = Here /\ Sound(t, 0, D, c) /\ Basis(c)
                     /\ TablesOK(t, 0, D, c) /\ IsTables(t)
  BY Start
<1>2. PICK u : u = transfer(t, Others, names_account, bid)
  OBVIOUS
<1>3. PICK v : v = IF rex_available(t.pool) THEN u.namebid_proceeds + bid ELSE u.namebid_proceeds
  OBVIOUS
<1>4. PICK h : h = [u EXCEPT !.namebid_proceeds = v]
  OBVIOUS
<1>5. /\ Frame(t, u, {"ledger"})
      /\ u.ok => /\ CanTransfer(t.ledger, Others, names_account, bid)
                 /\ u.ledger = Transferred(t.ledger, Others, names_account, bid)
  BY <1>1, <1>2, TransferFrame
<1>6. IsTables(u) /\ u.namebid_proceeds = t.namebid_proceeds
  BY <1>5 DEF Frame, TableFields
<1>7. Frame(u, h, {"namebid_proceeds"}) /\ h.namebid_proceeds = v /\ h.ok = u.ok
  BY <1>4, <1>6, SetNamebids
<1>8. PICK x : x = IF rex_available(t.pool) THEN h ELSE u
  OBVIOUS
<1>9. Commit(x) /\ UNCHANGED delband
  <2>1. rex_available(t.pool) = rex_available(rex_pool)
    BY <1>1, TablesFields
  <2> QED
    BY <1>1, <1>2, <1>3, <1>4, <1>8, <2>1 DEF channel_namebid_to_rex
<1>10. /\ Frame(t, x, {"ledger", "namebid_proceeds"}) /\ x.ledger = u.ledger
       /\ x.namebid_proceeds = v /\ u.ok
  <2>1. CASE rex_available(t.pool)
    BY <1>5, <1>7, <1>8, <1>9, <2>1 DEF Frame, TableFields, Commit
  <2>2. CASE ~rex_available(t.pool)
    BY <1>3, <1>5, <1>8, <1>9, <2>2 DEF Frame, TableFields, Commit
  <2> QED
    BY <2>1, <2>2
<1>11. Moved(t.ledger, x.ledger, Others, names_account, bid)
  <2>1. IsTable(t.ledger) /\ bid \in Int
    BY <1>1, MoneyParts
  <2> QED
    BY <1>5, <1>10, <2>1, TransferHeld
<1>12. /\ BalanceOf(x.ledger, rex_account) = BalanceOf(t.ledger, rex_account)
       /\ BalanceOf(x.ledger, names_account) = BalanceOf(t.ledger, names_account) + bid
       /\ IsTable(x.ledger)
  BY <1>11, RexTablesAssumption, RexAssumption DEF Moved
<1>13. Unowed(x.ledger, Accounts)
  <2>1. IsTable(t.ledger) /\ Unowed(t.ledger, Accounts)
    BY <1>1 DEF TablesOK, MoneyOK
  <2>2. names_account \in Accounts /\ bid \in Int
    BY DEF Accounts
  <2> QED
    BY <1>5, <1>10, <2>1, <2>2, TransferUnowed
<1>14. PICK e : e = [now |-> c.now, pool |-> c.pool, bal |-> c.bal,
                     names |-> IF rex_available(t.pool) THEN c.names ELSE c.names + bid]
  OBVIOUS
<1>15. c.names \in Int /\ t.namebid_proceeds \in Nat
  BY <1>1, MoneyParts
<1>16. NamesOK(x.ledger, x.namebid_proceeds, t.pool, e) /\ e.names \in Int
  <2>1. /\ t.namebid_proceeds > 0 => rex_available(t.pool)
        /\ BalanceOf(t.ledger, names_account) = t.namebid_proceeds + c.names
    BY <1>1 DEF TablesOK, NamesOK
  <2>2. CASE rex_available(t.pool)
    BY <1>3, <1>6, <1>10, <1>12, <1>14, <1>15, <2>1, <2>2 DEF NamesOK
  <2>3. CASE ~rex_available(t.pool)
    BY <1>3, <1>6, <1>10, <1>12, <1>14, <1>15, <2>1, <2>3 DEF NamesOK
  <2> QED
    BY <2>2, <2>3
<1>17. /\ PoolSince(t.pool, e) /\ LocksOK(t.bal, t.now, e)
       /\ e.now = c.now /\ e.pool = c.pool /\ e.bal = c.bal
  <2>1. e.now = c.now /\ e.pool = c.pool /\ e.bal = c.bal
    BY <1>14
  <2> QED
    BY <1>1, <2>1 DEF TablesOK, PoolSince, LocksOK
<1>18. MoneyOK(x.ledger, t.pool.total_lendable, t.funds, t.loans, t.orders, 0)
  BY <1>1, <1>12, <1>13 DEF TablesOK, MoneyOK
<1>19. TablesOK(x, 0, D, e)
  BY <1>1, <1>10, <1>16, <1>17, <1>18 DEF Frame, TableFields, TablesOK
<1>20. Sound(x, 0, D, e)
  BY <1>10, <1>19 DEF Sound, Frame
<1>21. Since(e)
  BY <1>1, <1>17 DEF Basis, Since
<1>22. e.names = Here.names \/ namebid_proceeds' = namebid_proceeds
  <2>1. CASE rex_available(t.pool)
    BY <1>1, <1>14, <2>1
  <2>2. CASE ~rex_available(t.pool)
    <3>1. namebid_proceeds' = x.namebid_proceeds
      BY <1>9 DEF Commit
    <3> QED
      BY <1>1, <1>3, <1>6, <1>10, <2>2, <3>1, TablesFields
  <2> QED
    BY <2>1, <2>2
<1>23. Del' = Del /\ DelOK'
  BY <1>9, DelSame DEF IInv
<1> QED
  BY <1>1, <1>9, <1>20, <1>21, <1>22, <1>23, Done

\* The time is written.
LEMMA SetNow ==
    ASSUME NEW t, IsTables(t), NEW time, NEW h, h = [t EXCEPT !.now = time]
    PROVE  Frame(t, h, {"now"}) /\ h.now = time /\ h.ok = t.ok
BY SMT DEF IsTables, TableFields, Frame

\* Time that passes keeps the invariant.
LEMMA TickStep ==
    ASSUME IInv, Tick
    PROVE  IInv' /\ StepOK
<1>1. PICK t, D, c : /\ t = Tables /\ D = Del /\ Sound(t, 0, D, c) /\ Basis(c)
                     /\ TablesOK(t, 0, D, c) /\ IsTables(t) /\ t.ok
  BY Start
<1>2. PICK n : n = now + 1
  OBVIOUS
<1>3. PICK h : h = [t EXCEPT !.now = n]
  OBVIOUS
<1>4. Frame(t, h, {"now"}) /\ h.now = n /\ h.ok = t.ok
  <2>1. IsTables(t)
    BY <1>1
  <2> QED
    BY <1>3, <2>1, SetNow
<1>5. Commit(h) /\ UNCHANGED delband
  <2>1. /\ h.ledger = ledger /\ h.pool = rex_pool
        /\ h.namebid_proceeds = namebid_proceeds /\ h.loan_num = loan_num /\ h.funds = rexfund
        /\ h.bal = rexbal /\ h.orders = rexqueue /\ h.loans = rexloans /\ h.staked = staked
        /\ h.limits = limits
    BY <1>1, <1>4, TablesFields DEF Frame, TableFields
  <2> QED
    BY <1>1, <1>2, <1>4, <2>1 DEF Tick, Commit
<1>6. PICK e : e = [now |-> n, pool |-> c.pool, bal |-> c.bal, names |-> c.names]
  OBVIOUS
<1>7. t.now \in Nat /\ n = t.now + 1
  BY <1>1, <1>2, MoneyParts, TablesFields
<1>8. LoansOK(t.loans, t.loan_num, n, t.pool.total_lent)
  <2>1. LoansOK(t.loans, t.loan_num, t.now, t.pool.total_lent)
    BY <1>1 DEF TablesOK
  <2>2. n \in Nat /\ t.now + loan_term <= n + loan_term
    BY <1>7, RexTablesAssumption
  <2>3. ASSUME NEW m \in DOMAIN t.loans PROVE t.loans[m].expiration <= n + loan_term
    <3>1. t.loans[m].expiration \in Nat /\ t.loans[m].expiration <= t.now + loan_term
      BY <2>1 DEF LoansOK, Loan
    <3> QED
      BY <1>7, <2>2, <3>1, RexTablesAssumption
  <2> QED
    BY <2>1, <2>2, <2>3 DEF LoansOK
<1>9. LocksOK(t.bal, n, e)
  <2>1. PICK x : x = t.pool.total_rex
    OBVIOUS
  <2>2. BalOK(t.bal, x) /\ LocksOK(t.bal, t.now, c)
    BY <1>1, <2>1 DEF TablesOK
  <2>3. e.bal = t.bal
    BY <1>1, <1>6, TablesFields DEF Basis, Since
  <2>4. ASSUME MaturityOf(n) < end_of_days, NEW o \in DOMAIN t.bal
        PROVE  InOrder(t.bal[o].maturities, MaturityOf(n))
    <3>1. MaturityOf(t.now) <= MaturityOf(n) /\ MaturityOf(t.now) \in Nat /\ MaturityOf(n) \in Nat
      BY <1>7, MaturityGrows, MaturityNat
    <3>2. end_of_days \in Nat
      BY RexTablesAssumption
    <3>3. MaturityOf(t.now) < end_of_days
      BY <2>4, <3>1, <3>2
    <3>4. InOrder(t.bal[o].maturities, MaturityOf(t.now))
      BY <2>2, <3>3 DEF LocksOK
    <3>5. 0..MaturityOf(t.now) \cup {end_of_days} \subseteq 0..MaturityOf(n) \cup {end_of_days}
      BY <3>1
    <3> QED
      BY <3>4, <3>5 DEF InOrder, Sorted
  <2> QED
    BY <2>2, <2>3, <2>4, LocksStart
<1>10. TablesOK(h, 0, D, e)
  BY <1>1, <1>4, <1>6, <1>8, <1>9 DEF Frame, TableFields, TablesOK, PoolSince, NamesOK
<1>11. Sound(h, 0, D, e) /\ Basis(e)
  BY <1>1, <1>4, <1>6, <1>10 DEF Sound, Frame, Basis, Since
<1> QED
  BY <1>1, <1>5, <1>11, DoneHere

\* cnclrexorder keeps the invariant: an open order has no proceeds.
LEMMA cnclrexorderStep ==
    ASSUME IInv, NEW owner, cnclrexorder(owner)
    PROVE  IInv' /\ StepOK
<1>1. PICK t, D, c : /\ t = Tables /\ D = Del /\ Sound(t, 0, D, c) /\ Basis(c)
                     /\ TablesOK(t, 0, D, c) /\ IsTables(t) /\ t.ok
  BY Start
<1>2. PICK orders : orders = Erase(t.orders, owner)
  OBVIOUS
<1>3. PICK h : h = [t EXCEPT !.orders = orders]
  OBVIOUS
<1>4. Frame(t, h, {"orders"}) /\ h.orders = orders /\ h.ok = t.ok
  <2>1. IsTables(t)
    BY <1>1
  <2> QED
    BY <1>3, <2>1, SetOrders
<1>5. Commit(h) /\ UNCHANGED delband
  <2>1. /\ h.now = now /\ h.ledger = ledger /\ h.pool = rex_pool
        /\ h.namebid_proceeds = namebid_proceeds /\ h.loan_num = loan_num /\ h.funds = rexfund
        /\ h.bal = rexbal /\ h.loans = rexloans /\ h.staked = staked /\ h.limits = limits
    BY <1>1, <1>4, TablesFields DEF Frame, TableFields
  <2> QED
    BY <1>1, <1>2, <1>4, <2>1, TablesFields DEF cnclrexorder, Commit
<1>6. owner \in DOMAIN t.orders /\ t.orders[owner].is_open
  BY <1>1 DEF cnclrexorder, IsOpen
<1>7. /\ OrdersOK(orders, t.bal) /\ SumOf(ProceedsOf(orders)) = SumOf(ProceedsOf(t.orders))
      /\ QueueOK(orders, t.loans)
  <2>1. OrdersOK(t.orders, t.bal) /\ QueueOK(t.orders, t.loans)
    BY <1>1 DEF TablesOK
  <2>2. /\ OrdersOK(orders, t.bal)
        /\ SumOf(ProceedsOf(orders)) =
             SumOf(ProceedsOf(t.orders)) - BalanceOf(ProceedsOf(t.orders), owner)
    BY <1>2, <2>1, OrderErase
  <2>3. BalanceOf(ProceedsOf(t.orders), owner) = 0 /\ SumOf(ProceedsOf(t.orders)) \in Int
    BY <1>6, <2>1, OrderColumns
  <2> QED
    BY <1>2, <2>1, <2>2, <2>3, QueueErase
<1>8. MoneyOK(t.ledger, t.pool.total_lendable, t.funds, t.loans, orders, 0)
  BY <1>1, <1>7 DEF TablesOK, MoneyOK
<1>9. TablesOK(h, 0, D, c)
  BY <1>1, <1>4, <1>7, <1>8 DEF Frame, TableFields, TablesOK
<1>10. Sound(h, 0, D, c)
  BY <1>4, <1>9 DEF Sound, Frame
<1> QED
  BY <1>1, <1>5, <1>10, DoneHere

-----------------------------------------------------------------------------
(* Buying REX                                                              *)

\* The change of a vote stake is a number.
LEMMA DeltaInt ==
    ASSUME NEW t, NEW g, NEW D, NEW c, TablesOK(t, g, D, c),
           NEW u, NEW h, NEW E, NEW e, TablesOK(u, h, E, e), NEW o \in DOMAIN u.bal
    PROVE  StakeDelta(t, u, o) \in Int
<1>1. u.bal[o].vote_stake \in Nat
  <2>1. Holds(u.bal[o], u.bal[o].rex_balance)
    BY DEF TablesOK, BalOK
  <2> QED
    BY <2>1, RowParts
<1>2. ASSUME o \in DOMAIN t.bal PROVE t.bal[o].vote_stake \in Nat
  <2>1. Holds(t.bal[o], t.bal[o].rex_balance)
    BY <1>2 DEF TablesOK, BalOK
  <2> QED
    BY <2>1, RowParts
<1> QED
  BY <1>1, <1>2 DEF StakeDelta

\* REX bought with a payment that eosio.rex has, and the maintenance after it.
LEMMA BuySound ==
    ASSUME NEW t, NEW D, NEW c, NEW payment \in Nat, Sound(t, payment, D, c),
           NEW owner \in Owners, t.ok => payment > 0 /\ CanAddToRexPool(t.pool),
           NEW e, e = [now |-> c.now, names |-> c.names, bal |-> c.bal,
                       pool |-> add_to_rex_pool(t.pool, payment)]
    PROVE  LET h == runrex(Bought(t, owner, payment), 2)
           IN  /\ Sound(h, 0, D, e) /\ (h.ok => t.ok)
               /\ h.ok => StakeDelta(t, Bought(t, owner, payment), owner) \in Int
<1>1. PICK u : u = Bought(t, owner, payment)
  OBVIOUS
<1>2. IsTables(t) /\ payment \in Int /\ payment - payment = 0 /\ 2 \in Nat /\ 0 \in Int
  BY DEF Sound
<1>3. Frame(t, u, {"pool", "bal"}) /\ u.ok = t.ok
  BY <1>1, <1>2, BoughtFrame
<1>4. Sound(u, 0, D, e)
  <2>1. CASE t.ok
    <3>1. payment \in Nat \ {0} /\ CanAddToRexPool(t.pool)
      BY <2>1
    <3>2. e.pool = add_to_rex_pool(t.pool, payment) /\ e.names = c.names /\ e.now = c.now
          /\ e.bal = c.bal
      OBVIOUS
    <3>3. Sound(u, payment - payment, D, e)
      BY <1>1, <1>2, <2>1, <3>1, <3>2, BoughtSound
    <3> QED
      BY <1>2, <3>3
  <2>2. CASE ~t.ok
    BY <1>3, <2>2 DEF Sound, Frame
  <2> QED
    BY <2>1, <2>2
<1>5. PICK h : h = runrex(u, 2)
  OBVIOUS
<1>6. Sound(h, 0, D, e) /\ Frame(u, h, RunFields)
  BY <1>2, <1>4, <1>5, RunSound
<1>7. ASSUME t.ok PROVE StakeDelta(t, u, owner) \in Int
  <2>1. TablesOK(t, payment, D, c) /\ TablesOK(u, 0, D, e)
    BY <1>3, <1>4, <1>7 DEF Sound
  <2>2. owner \in DOMAIN u.bal
    BY <1>1, <1>2, BoughtFrame
  <2> QED
    BY <2>1, <2>2, DeltaInt
<1> QED
  BY <1>1, <1>3, <1>5, <1>6, <1>7 DEF Frame

\* REX bought leaves the pool as good a basis as it was.
LEMMA BuyBasis ==
    ASSUME IInv, CanAddToRexPool(rex_pool), NEW payment \in Nat \ {0},
           NEW e, e.pool = add_to_rex_pool(rex_pool, payment), e.names = Here.names,
           e.bal = rexbal
    PROVE  Basis(e)
<1>1. PoolOK(rex_pool)
  <2>1. PICK t, D, c : t = Tables /\ TablesOK(t, 0, D, c)
    BY Start
  <2> QED
    BY <2>1, TablesFields DEF TablesOK, PoolSince
<1>2. PICK p : p = rex_pool
  OBVIOUS
<1>3. p \in Pool /\ payment \in Nat
  BY <1>1, <1>2 DEF PoolOK
<1>4. ValueKept(p, e.pool) /\ rex_available(e.pool)
  BY <1>1, <1>2, <1>3, PurchaseKeepsValue, ReceivedNat
<1> QED
  BY <1>2, <1>4 DEF Basis, Since

\* buyrex keeps the invariant.
LEMMA buyrexStep ==
    ASSUME IInv, NEW from \in Owners, NEW amount \in Nat, buyrex(from, amount)
    PROVE  IInv' /\ StepOK
<1>1. PICK t, D, c : /\ t = Tables /\ D = Del /\ c = Here /\ Sound(t, 0, D, c)
  BY Start
<1>2. PICK paid : paid = transfer_from_fund(t, from, amount)
  OBVIOUS
<1>3. PICK bought : bought = Bought(paid, from, amount)
  OBVIOUS
<1>4. PICK r, x : r = runrex(bought, 2) /\ x = StakeDelta(paid, bought, from)
  OBVIOUS
<1>5. PICK h : h = update_rex_account(r, from, 0, x)
  OBVIOUS
<1>6. Commit(h) /\ UNCHANGED delband /\ CanAddToRexPool(rex_pool)
  BY <1>1, <1>2, <1>3, <1>4, <1>5 DEF buyrex
<1>7. 0 \in Int /\ 0 \in Nat /\ amount \in Int /\ 0 + amount = amount /\ 0 - 0 = 0
  OBVIOUS
<1>8. /\ Sound(paid, amount, D, c) /\ Frame(t, paid, {"funds"})
      /\ paid.ok => amount > 0
  <2>1. /\ Sound(paid, 0 + amount, D, c) /\ Frame(t, paid, {"funds"})
        /\ paid.ok => amount > 0
    BY <1>1, <1>2, <1>7, FromFundSound
  <2> QED
    BY <1>7, <2>1
<1>9. paid.pool = rex_pool
  BY <1>1, <1>8, TablesFields DEF Frame, TableFields
<1>10. PICK e : e = [now |-> c.now, names |-> c.names, bal |-> c.bal,
                     pool |-> add_to_rex_pool(paid.pool, amount)]
  OBVIOUS
<1>11. Sound(r, 0, D, e) /\ (r.ok => paid.ok /\ x \in Int)
  BY <1>3, <1>4, <1>6, <1>8, <1>9, <1>10, BuySound
<1>12. Sound(h, 0, D, e) /\ Frame(r, h, {"orders", "funds", "staked"})
  <2>1. Sound(h, 0 - 0, D, e) /\ Frame(r, h, {"orders", "funds", "staked"})
    BY <1>5, <1>7, <1>11, AccountSound
  <2> QED
    BY <1>7, <2>1
<1>13. amount \in Nat \ {0}
  BY <1>6, <1>8, <1>11, <1>12 DEF Commit, Frame
<1>14. Basis(e)
  BY <1>1, <1>6, <1>9, <1>10, <1>13, HereFields, BuyBasis
<1> QED
  BY <1>1, <1>6, <1>12, <1>14, DoneHere

Shifted(D, r, k, v, E) == E = Shift(D, r, k, v)

\* The limits a shift leads to.
LEMMA ShiftTo ==
    ASSUME NEW D, IsDelegated(D), NEW r \in Owners, NEW k \in Kinds, NEW v \in Int,
           NEW E, Shifted(D, r, k, v, E)
    PROVE  /\ IsDelegated(E)
           /\ E[r][k] = D[r][k] + v
           /\ \A j \in Kinds \ {k} : E[r][j] = D[r][j]
           /\ \A q \in Owners \ {r}, j \in Kinds : E[q][j] = D[q][j]
<1>1. PICK row : row = [D[r] EXCEPT ![k] = D[r][k] + v]
  OBVIOUS
<1>2. E = [D EXCEPT ![r] = row]
  BY <1>1 DEF Shifted, Shift
<1>3. D[r] \in [Kinds -> Int] /\ D[r][k] \in Int
  BY DEF IsDelegated
<1>4. row \in [Kinds -> Int] /\ row[k] = D[r][k] + v /\ \A j \in Kinds \ {k} : row[j] = D[r][j]
  BY <1>1, <1>3
<1> QED
  BY <1>2, <1>4 DEF IsDelegated

\* What is unstaked from a receiver is delegated to it no more.
LEMMA DelegatedChange ==
    ASSUME DelOK, NEW owner \in Owners, NEW receiver \in Owners, NEW i \in Int, NEW j \in Int,
           NEW row \in [Kinds -> Nat],
           row["net"] = delband[owner][receiver]["net"] + i,
           row["cpu"] = delband[owner][receiver]["cpu"] + j,
           NEW d, d = [delband EXCEPT ![owner][receiver] = row], delband' = d,
           NEW kn, NEW kc, kn = "net", kc = "cpu",
           NEW D, D = Del, NEW E, Shifted(D, receiver, kn, i, E), NEW F, Shifted(E, receiver, kc, j, F)
    PROVE  Del' = F /\ DelOK'
<1>1. "net" \in Kinds /\ "cpu" \in Kinds /\ \A k \in Kinds : k = "net" \/ k = "cpu"
  BY DEF Kinds
<1>2. delband \in [Owners -> [Owners -> [Kinds -> Int]]]
  BY DEF DelOK
<1>3. delband' = d /\ d \in [Owners -> [Owners -> [Kinds -> Nat]]]
  BY DEF DelOK
<1>4. delband' \in [Owners -> [Owners -> [Kinds -> Int]]]
  BY <1>3
<1>5. DelOK'
  BY <1>3 DEF DelOK
<1>6. ASSUME NEW r \in Owners, NEW k \in Kinds
      PROVE  /\ Delegated(r, k) \in Int
             /\ Delegated(r, k)' = Delegated(r, k)
                  + (IF r = receiver THEN (IF k = "net" THEN i ELSE j) ELSE 0)
  <2> DEFINE f == [o \in Owners |-> delband[o][r][k]]
             g == [o \in Owners |-> delband'[o][r][k]]
  <2>1. IsTable(f)
    <3>1. \A o \in Owners : delband[o][r][k] \in Int
      BY <1>2
    <3>2. DOMAIN f = Owners /\ IsFiniteSet(Owners)
      BY RexTablesAssumption
    <3> QED
      BY <3>1, <3>2 DEF IsTable
  <2>2. /\ DOMAIN g = Owners /\ DOMAIN f = Owners
        /\ \A o \in Owners \ {owner} : g[o] = f[o]
        /\ f[owner] \in Int /\ g[owner] \in Int
        /\ g[owner] = f[owner] + (IF r = receiver THEN (IF k = "net" THEN i ELSE j) ELSE 0)
    <3>1. \A o \in Owners \ {owner} : delband'[o] = delband[o]
      BY <1>2
    <3>2. delband[owner][r][k] \in Int /\ delband'[owner][r][k] \in Int
      BY <1>2, <1>4
    <3>3. CASE r = receiver
      <4>1. delband'[owner][r] = row
        BY <1>2, <3>3
      <4> QED
        BY <1>1, <3>1, <3>2, <3>3, <4>1
    <3>4. CASE r # receiver
      <4>1. delband'[owner][r] = delband[owner][r]
        BY <1>2, <3>4
      <4> QED
        BY <3>1, <3>2, <3>4, <4>1
    <3> QED
      BY <3>3, <3>4
  <2>3. Delegated(r, k) = SumOf(f) /\ Delegated(r, k)' = SumOf(g)
    BY DEF Delegated
  <2> HIDE DEF f, g
  <2>4. /\ SumOf(f) \in Int
        /\ SumOf(g) = SumOf(f) + BalanceOf(g, owner) - BalanceOf(f, owner)
    BY <2>1, <2>2, SumMoves
  <2>5. BalanceOf(g, owner) = g[owner] /\ BalanceOf(f, owner) = f[owner]
    BY <2>2 DEF BalanceOf
  <2> QED
    BY <2>2, <2>3, <2>4, <2>5
<1>7. Del \in [Owners -> [Kinds -> Int]] /\ Del' \in [Owners -> [Kinds -> Int]]
  <2>1. \A r \in Owners, k \in Kinds : Delegated(r, k) \in Int /\ Delegated(r, k)' \in Int
    BY <1>6
  <2> QED
    BY <2>1 DEF Del
<1>8. IsDelegated(D) /\ kn \in Kinds /\ kc \in Kinds /\ kn # kc
  BY <1>1, <1>7 DEF IsDelegated
<1>9. /\ IsDelegated(E)
      /\ E[receiver][kn] = D[receiver][kn] + i
      /\ \A k \in Kinds \ {kn} : E[receiver][k] = D[receiver][k]
      /\ \A q \in Owners \ {receiver}, k \in Kinds : E[q][k] = D[q][k]
  BY <1>8, ShiftTo
<1>10. /\ IsDelegated(F)
       /\ F[receiver][kc] = E[receiver][kc] + j
       /\ \A k \in Kinds \ {kc} : F[receiver][k] = E[receiver][k]
       /\ \A q \in Owners \ {receiver}, k \in Kinds : F[q][k] = E[q][k]
  BY <1>8, <1>9, ShiftTo
<1>11. ASSUME NEW q \in Owners, NEW k \in Kinds PROVE Del'[q][k] = F[q][k]
  <2>1. Del'[q][k] = Delegated(q, k)' /\ D[q][k] = Delegated(q, k)
    BY DEF Del
  <2>2. /\ Delegated(q, k) \in Int
        /\ Delegated(q, k)' = Delegated(q, k)
             + (IF q = receiver THEN (IF k = "net" THEN i ELSE j) ELSE 0)
    BY <1>6
  <2>3. "net" # "cpu"
    OBVIOUS
  <2> QED
    BY <1>1, <1>8, <1>9, <1>10, <2>1, <2>2, <2>3
<1>12. Del' = F
  BY <1>7, <1>10, <1>11 DEF IsDelegated
<1> QED
  BY <1>5, <1>12

\* unstaketorex keeps the invariant: stake, limits and delband change alike.
LEMMA unstaketorexStep ==
    ASSUME IInv, NEW owner \in Owners, NEW receiver \in Owners, NEW n \in Nat, NEW m \in Nat,
           unstaketorex(owner, receiver, n, m)
    PROVE  IInv' /\ StepOK
<1>1. PICK t, D, c : /\ t = Tables /\ D = Del /\ c = Here /\ Sound(t, 0, D, c)
  BY Start
<1>2. PICK i, j, payment : i = -n /\ j = -m /\ payment = n + m
  OBVIOUS
<1>3. PICK less_net : less_net = update_resource_limits(t, receiver, "net", i)
  OBVIOUS
<1>4. PICK less_cpu : less_cpu = update_resource_limits(less_net, receiver, "cpu", j)
  OBVIOUS
<1>5. PICK paid : paid = transfer(less_cpu, stake_account, rex_account, payment)
  OBVIOUS
<1>6. PICK r : r = runrex(Bought(paid, owner, payment), 2)
  OBVIOUS
<1>7. PICK account : account = update_rex_account(r, owner, 0, 0)
  OBVIOUS
<1>8. PICK h : h = force_vote_update(account, owner)
  OBVIOUS
<1>9. /\ Commit(h) /\ payment > 0 /\ CanAddToRexPool(rex_pool)
      /\ delband' = [delband EXCEPT ![owner][receiver] =
                       [net |-> @["net"] - n, cpu |-> @["cpu"] - m]]
  BY <1>1, <1>2, <1>3, <1>4, <1>5, <1>6, <1>7, <1>8 DEF unstaketorex
<1>10. /\ n \in Int /\ m \in Int /\ i \in Int /\ j \in Int /\ payment \in Nat \ {0}
       /\ 0 \in Int /\ 0 \in Nat /\ payment \in Int /\ 0 + payment = payment /\ 0 - 0 = 0
       /\ stake_account \notin {rex_account, names_account}
       /\ "net" \in Kinds /\ "cpu" \in Kinds
  BY <1>2, <1>9, RexAssumption DEF Kinds
<1>11. PICK E, F : E = Shift(D, receiver, "net", i) /\ F = Shift(E, receiver, "cpu", j)
  OBVIOUS
<1>12. Sound(less_net, 0, E, c) /\ Frame(t, less_net, {"limits"})
  BY <1>1, <1>3, <1>10, <1>11, LimitsSound
<1>13. Sound(less_cpu, 0, F, c) /\ Frame(less_net, less_cpu, {"limits"})
  BY <1>4, <1>10, <1>11, <1>12, LimitsSound
<1>14. Sound(paid, payment, F, c) /\ Frame(less_cpu, paid, {"ledger"})
  <2>1. Sound(paid, 0 + payment, F, c)
    BY <1>5, <1>10, <1>13, TransferInSound
  <2>2. IsTables(less_cpu)
    BY <1>13 DEF Sound
  <2> QED
    BY <1>5, <1>10, <2>1, <2>2, TransferFrame
<1>15. paid.pool = rex_pool
  BY <1>1, <1>12, <1>13, <1>14, TablesFields DEF Frame, TableFields
<1>16. PICK e : e = [now |-> c.now, names |-> c.names, bal |-> c.bal,
                     pool |-> add_to_rex_pool(paid.pool, payment)]
  OBVIOUS
<1>17. Sound(r, 0, F, e)
  BY <1>6, <1>9, <1>10, <1>14, <1>15, <1>16, BuySound
<1>18. Sound(account, 0, F, e)
  <2>1. Sound(account, 0 - 0, F, e)
    BY <1>7, <1>10, <1>17, AccountSound
  <2> QED
    BY <1>10, <2>1
<1>19. Sound(h, 0, F, e)
  <2>1. PICK p : p = (account.staked[owner] >= 0)
    OBVIOUS
  <2>2. h = Check(account, p) /\ p \in BOOLEAN
    BY <1>8, <2>1 DEF force_vote_update
  <2> QED
    BY <1>18, <2>2, CheckSound
<1>20. Basis(e)
  BY <1>1, <1>9, <1>10, <1>15, <1>16, HereFields, BuyBasis
<1>21. Del' = F /\ DelOK'
  <2>1. DelOK
    BY DEF IInv
  <2>2. PICK row : row = [net |-> delband[owner][receiver]["net"] - n,
                          cpu |-> delband[owner][receiver]["cpu"] - m]
    OBVIOUS
  <2>3. PICK d : d = [delband EXCEPT ![owner][receiver] = row]
    OBVIOUS
  <2>4. delband' = d
    BY <1>9, <2>2, <2>3
  <2>5. /\ delband[owner][receiver]["net"] \in Nat /\ n <= delband[owner][receiver]["net"]
        /\ delband[owner][receiver]["cpu"] \in Nat /\ m <= delband[owner][receiver]["cpu"]
    BY <1>10, <2>1 DEF DelOK, unstaketorex
  <2>6. /\ row \in [Kinds -> Nat]
        /\ row["net"] = delband[owner][receiver]["net"] + i
        /\ row["cpu"] = delband[owner][receiver]["cpu"] + j
    BY <1>2, <1>10, <2>2, <2>5 DEF Kinds
  <2>7. PICK kn, kc : kn = "net" /\ kc = "cpu"
    OBVIOUS
  <2>8. Shifted(D, receiver, kn, i, E) /\ Shifted(E, receiver, kc, j, F)
    BY <1>11, <2>7 DEF Shifted
  <2> QED
    BY <1>1, <1>10, <2>1, <2>3, <2>4, <2>6, <2>7, <2>8, DelegatedChange
<1> QED
  BY <1>9, <1>19, <1>20, <1>21, Done DEF Basis

-----------------------------------------------------------------------------
(* Maintenance by the owner                                                *)

\* A row of rexbal that changes in place.
LEMMA RowSet ==
    ASSUME NEW t, NEW gap, NEW D, NEW c, Sound(t, gap, D, c), NEW o, NEW b,
           t.ok => /\ o \in DOMAIN t.bal /\ b.rex_balance = t.bal[o].rex_balance
                   /\ Holds(b, b.rex_balance) /\ Covered(t.orders, o, b)
                   /\ LockRaised(t.bal[o].maturities, b.maturities, t.now, 0),
           NEW bal, bal = [t.bal EXCEPT ![o] = b], NEW h, h = [t EXCEPT !.bal = bal]
    PROVE  /\ Sound(h, gap, D, c) /\ Frame(t, h, {"bal"}) /\ h.ok = t.ok
           /\ t.ok => h.bal[o] = b /\ DOMAIN h.bal = DOMAIN t.bal
<1>1. IsTables(t)
  BY DEF Sound
<1>2. Frame(t, h, {"bal"}) /\ h.bal = bal /\ h.ok = t.ok
  BY <1>1, SetBal
<1>3. CASE t.ok
  <2>1. o \in DOMAIN t.bal /\ t.bal = [q \in DOMAIN t.bal |-> t.bal[q]]
    BY <1>3, OwnRow DEF Sound
  <2>2. h.bal = Put(t.bal, o, b)
    BY <1>2, <2>1, SameRow
  <2>3. Sound(h, gap, D, c)
    BY <1>2, <1>3, <2>2, RowSound
  <2> QED
    BY <1>2, <1>3, <2>1, <2>3, ZenonT(30)
<1>4. CASE ~t.ok
  BY <1>2, <1>4 DEF Sound, Frame
<1> QED
  BY <1>3, <1>4

\* What matures is not locked any more.
LEMMA LockMatured ==
    ASSUME NEW b, NEW s, Holds(b, s), NEW clock \in Nat
    PROVE  LockRaised(b.maturities, process_rex_maturities(b, clock).maturities, clock, 0)
<1>1. PICK r, m : r = process_rex_maturities(b, clock) /\ m = MaturityOf(clock)
  OBVIOUS
<1>2. ASSUME InOrder(b.maturities, m)
      PROVE  /\ InOrder(r.maturities, m)
             /\ \A time \in Nat : clock < time =>
                  LockedIn(r.maturities, time) = LockedIn(b.maturities, time)
  <2>1. PICK S : S = 0..m \cup {end_of_days}
    OBVIOUS
  <2>2. Sorted(b.maturities, S)
    BY <1>2, <2>1 DEF InOrder
  <2>3. /\ Sorted(r.maturities, S)
        /\ \A time \in Nat : clock < time =>
             LockedIn(r.maturities, time) = LockedIn(b.maturities, time)
    BY <1>1, <2>2, LockMatures
  <2> QED
    BY <2>1, <2>3 DEF InOrder
<1>3. \A time : LockedIn(b.maturities, time) \in Nat
  BY RowParts, LockedCut
<1>4. LockRaised(b.maturities, r.maturities, clock, 0)
  BY <1>1, <1>2, <1>3 DEF LockRaised
<1> QED
  BY <1>1, <1>4

\* REX of an owner that matures keeps the tables sound.
LEMMA MaturedSound ==
    ASSUME NEW t, NEW gap, NEW D, NEW c, Sound(t, gap, D, c), NEW o, t.ok => o \in DOMAIN t.bal
    PROVE  LET h == Matured(t, o)
           IN  /\ Sound(h, gap, D, c) /\ Frame(t, h, {"bal"}) /\ h.ok = t.ok
               /\ t.ok => DOMAIN h.bal = DOMAIN t.bal
<1>1. PICK b : b = process_rex_maturities(t.bal[o], t.now)
  OBVIOUS
<1>2. PICK bal : bal = [t.bal EXCEPT ![o] = b]
  OBVIOUS
<1>3. PICK h : h = [t EXCEPT !.bal = bal]
  OBVIOUS
<1>4. h = Matured(t, o)
  BY <1>1, <1>2, <1>3 DEF Matured
<1>5. t.ok => /\ o \in DOMAIN t.bal /\ b.rex_balance = t.bal[o].rex_balance
              /\ Holds(b, b.rex_balance) /\ Covered(t.orders, o, b)
              /\ LockRaised(t.bal[o].maturities, b.maturities, t.now, 0)
  <2>1. SUFFICES ASSUME t.ok
                 PROVE  /\ o \in DOMAIN t.bal /\ b.rex_balance = t.bal[o].rex_balance
                        /\ Holds(b, b.rex_balance) /\ Covered(t.orders, o, b)
                        /\ LockRaised(t.bal[o].maturities, b.maturities, t.now, 0)
    OBVIOUS
  <2>2. TablesOK(t, gap, D, c) /\ o \in DOMAIN t.bal
    BY <2>1 DEF Sound
  <2>3. Holds(t.bal[o], t.bal[o].rex_balance) /\ Covered(t.orders, o, t.bal[o])
    BY <2>2, OwnRow
  <2>4. Holds(b, t.bal[o].rex_balance) /\ Kept(t.bal[o], b)
    BY <1>1, <2>3, RowMatures
  <2>5. b.rex_balance = t.bal[o].rex_balance /\ t.bal[o].matured <= b.matured
    BY <2>4 DEF Kept
  <2>6. Covered(t.orders, o, b)
    <3>1. ASSUME o \in DOMAIN t.orders, t.orders[o].is_open
          PROVE  t.orders[o].rex_requested <= b.matured
      <4>1. t.orders[o].rex_requested <= t.bal[o].matured
        BY <2>3, <3>1 DEF Covered
      <4>2. t.orders[o].rex_requested \in Nat
        <5>1. t.orders[o] \in Order
          BY <2>2, <3>1 DEF TablesOK, OrdersOK
        <5> QED
          BY <5>1 DEF Order
      <4>3. t.bal[o].matured \in Nat /\ b.matured \in Nat
        BY <2>3, <2>4, RowParts
      <4> QED
        BY <2>5, <4>1, <4>2, <4>3
    <3> QED
      BY <3>1 DEF Covered
  <2>7. LockRaised(t.bal[o].maturities, b.maturities, t.now, 0)
    BY <1>1, <2>2, <2>3, MoneyParts, LockMatured
  <2> QED
    BY <2>2, <2>4, <2>5, <2>6, <2>7
<1>6. /\ Sound(h, gap, D, c) /\ Frame(t, h, {"bal"}) /\ h.ok = t.ok
      /\ t.ok => DOMAIN h.bal = DOMAIN t.bal
  BY <1>2, <1>3, <1>5, RowSet
<1> QED
  BY <1>4, <1>6

\* A row whose vote stake is what its REX is worth.
LEMMA ValuedSound ==
    ASSUME NEW t, NEW gap, NEW D, NEW c, Sound(t, gap, D, c), NEW o, t.ok => o \in DOMAIN t.bal,
           NEW v, t.ok => v \in Nat,
           NEW h, h = [t EXCEPT !.bal[o].vote_stake = v]
    PROVE  /\ Sound(h, gap, D, c) /\ Frame(t, h, {"bal"}) /\ h.ok = t.ok
           /\ t.ok => DOMAIN h.bal = DOMAIN t.bal
<1>1. PICK b : b = [t.bal[o] EXCEPT !.vote_stake = v]
  OBVIOUS
<1>2. PICK bal : bal = [t.bal EXCEPT ![o] = b]
  OBVIOUS
<1>3. h = [t EXCEPT !.bal = bal]
  BY <1>1, <1>2
<1>4. t.ok => /\ o \in DOMAIN t.bal /\ b.rex_balance = t.bal[o].rex_balance
              /\ Holds(b, b.rex_balance) /\ Covered(t.orders, o, b)
              /\ LockRaised(t.bal[o].maturities, b.maturities, t.now, 0)
  <2>1. SUFFICES ASSUME t.ok
                 PROVE  /\ o \in DOMAIN t.bal /\ b.rex_balance = t.bal[o].rex_balance
                        /\ Holds(b, b.rex_balance) /\ Covered(t.orders, o, b)
                        /\ LockRaised(t.bal[o].maturities, b.maturities, t.now, 0)
    OBVIOUS
  <2>2. TablesOK(t, gap, D, c) /\ o \in DOMAIN t.bal /\ v \in Nat
    BY <2>1 DEF Sound
  <2>3. PICK a : a = t.bal[o]
    OBVIOUS
  <2>4. Holds(a, a.rex_balance) /\ Covered(t.orders, o, a)
    BY <2>2, <2>3, OwnRow
  <2>5. /\ Holds(b, a.rex_balance) /\ b.rex_balance = a.rex_balance /\ b.matured = a.matured
        /\ b.maturities = a.maturities
    BY <1>1, <2>2, <2>3, <2>4, RowVoteStake
  <2>6. LockRaised(a.maturities, b.maturities, t.now, 0)
    BY <2>4, <2>5, RowParts, LockSame
  <2> QED
    BY <2>2, <2>3, <2>4, <2>5, <2>6 DEF Covered
<1> QED
  BY <1>2, <1>3, <1>4, RowSet

\* updaterex keeps the invariant.
LEMMA updaterexStep ==
    ASSUME IInv, NEW owner \in Owners, updaterex(owner)
    PROVE  IInv' /\ StepOK
<1>1. PICK t, D, c : /\ t = Tables /\ D = Del /\ Sound(t, 0, D, c) /\ Basis(c) /\ t.ok
  BY Start
<1>2. PICK r, v : /\ r = runrex(t, 2)
                     /\ v = IF rex_available(r.pool)
                            THEN StakeValue(r.pool, r.bal[owner].rex_balance) ELSE 0
  OBVIOUS
<1>3. PICK valued : valued = [r EXCEPT !.bal[owner].vote_stake = v]
  OBVIOUS
<1>4. PICK x : x = StakeDelta(r, valued, owner)
  OBVIOUS
<1>5. PICK account : account = update_rex_account(valued, owner, 0, x)
  OBVIOUS
<1>6. PICK voted : voted = force_vote_update(account, owner)
  OBVIOUS
<1>7. PICK h : h = Matured(voted, owner)
  OBVIOUS
<1>8. Commit(h) /\ UNCHANGED delband /\ owner \in DOMAIN t.bal
  BY <1>1, <1>2, <1>3, <1>4, <1>5, <1>6, <1>7, TablesFields, Zenon DEF updaterex
<1>9. 0 \in Int /\ 0 \in Nat /\ 2 \in Nat /\ 0 - 0 = 0
  OBVIOUS
<1>10. Sound(r, 0, D, c) /\ (r.ok => owner \in DOMAIN r.bal)
  BY <1>1, <1>2, <1>8, <1>9, RunSound
<1>11. ASSUME r.ok PROVE v \in Nat
  <2>1. TablesOK(r, 0, D, c) /\ owner \in DOMAIN r.bal
    BY <1>10, <1>11 DEF Sound
  <2>2. /\ Holds(r.bal[owner], r.bal[owner].rex_balance)
        /\ r.bal[owner].rex_balance <= r.pool.total_rex
    BY <2>1, OwnRow
  <2>3. PoolOK(r.pool) /\ r.bal[owner].rex_balance \in Nat
    BY <2>1, <2>2, RowParts DEF TablesOK, PoolSince
  <2>4. CASE rex_available(r.pool)
    BY <1>2, <2>2, <2>3, <2>4, StakeValueNat
  <2>5. CASE ~rex_available(r.pool)
    BY <1>2, <2>5
  <2> QED
    BY <2>4, <2>5
<1>12. /\ Sound(valued, 0, D, c) /\ Frame(r, valued, {"bal"}) /\ valued.ok = r.ok
       /\ r.ok => DOMAIN valued.bal = DOMAIN r.bal
  <2>1. r.ok => owner \in DOMAIN r.bal /\ v \in Nat
    BY <1>10, <1>11
  <2> QED
    BY <1>3, <1>10, <2>1, ValuedSound, Z3T(30)
<1>13. Sound(account, 0, D, c) /\ Frame(valued, account, {"orders", "funds", "staked"})
  <2>1. Sound(account, 0 - 0, D, c) /\ Frame(valued, account, {"orders", "funds", "staked"})
    <3>1. ASSUME valued.ok PROVE x \in Int
      <4>1. TablesOK(r, 0, D, c) /\ TablesOK(valued, 0, D, c) /\ owner \in DOMAIN valued.bal
        BY <1>10, <1>12, <3>1 DEF Sound
      <4> QED
        BY <1>4, <4>1, DeltaInt
    <3> QED
      BY <1>5, <1>9, <1>12, <3>1, AccountSound
  <2> QED
    BY <1>9, <2>1
<1>14. Sound(voted, 0, D, c) /\ Frame(account, voted, {})
  <2>1. PICK p : p = (account.staked[owner] >= 0)
    OBVIOUS
  <2>2. voted = Check(account, p) /\ p \in BOOLEAN /\ IsTables(account)
    BY <1>6, <1>13, <2>1 DEF force_vote_update, Sound
  <2> QED
    BY <1>13, <2>2, CheckSound, CheckFrame
<1>15. voted.ok => owner \in DOMAIN voted.bal
  BY <1>10, <1>12, <1>13, <1>14 DEF Frame, TableFields
<1>16. Sound(h, 0, D, c)
  BY <1>7, <1>14, <1>15, MaturedSound
<1> QED
  BY <1>1, <1>8, <1>16, DoneHere

\* What the owner's REX becomes: as much as it was, as much of it locked by the
\* clock, and what is in order matured.
Rearranged(a, r, ordered, clock) ==
    /\ r.rex_balance = a.rex_balance /\ Holds(r, r.rex_balance) /\ ordered <= r.matured
    /\ LockRaised(a.maturities, r.maturities, clock, 0)

\* What an open order asks for is matured, and covered by any row with as much matured.
LEMMA OrderedREX ==
    ASSUME NEW t, NEW gap, NEW D, NEW c, TablesOK(t, gap, D, c), NEW o \in DOMAIN t.bal
    PROVE  /\ rex_in_sell_order(t, o) \in Nat /\ rex_in_sell_order(t, o) <= t.bal[o].matured
           /\ \A r : rex_in_sell_order(t, o) <= r.matured => Covered(t.orders, o, r)
<1>1. Holds(t.bal[o], t.bal[o].rex_balance) /\ Covered(t.orders, o, t.bal[o])
  BY OwnRow
<1>2. t.bal[o].matured \in Nat
  BY <1>1, RowParts
<1>3. ASSUME IsOpen(t, o) PROVE t.orders[o].rex_requested \in Nat
  <2>1. t.orders[o] \in Order
    BY <1>3 DEF IsOpen, TablesOK, OrdersOK
  <2> QED
    BY <2>1 DEF Order
<1> QED
  BY <1>1, <1>2, <1>3 DEF rex_in_sell_order, IsOpen, Covered

\* An owner's rows once its filled order is collected.
LEMMA CoveredStill ==
    ASSUME NEW t, NEW o, NEW r, Covered(t.orders, o, r), NEW orders,
           orders = IF IsFilled(t, o) THEN Erase(t.orders, o) ELSE t.orders
    PROVE  Covered(orders, o, r)
BY DEF Covered, IsFilled, Erase

\* The row that consolidate writes holds what it held, the ordered REX matured.
LEMMA ConsolidatedRow ==
    ASSUME NEW a, Holds(a, a.rex_balance), NEW kept \in Nat, kept <= a.matured,
           NEW clock \in Nat, NEW time, time = MaturityOf(clock),
           NEW b, b = WithoutSavings(a),
           NEW total \in Int, kept + total = b.matured + InBuckets(b.maturities),
           NEW none, none = <<>>,
           NEW emptied, emptied = WithBuckets(b, kept, none),
           NEW bucket, total > 0 => bucket = AddBucket(emptied, time, total),
           total <= 0 => bucket = emptied
    PROVE  Rearranged(a, put_rex_savings(bucket, read_rex_savings(a)), kept, clock)
<1>1. PICK s, v : s = read_rex_savings(a) /\ v = a.rex_balance - s
  OBVIOUS
<1>2. time \in Nat /\ none \in Seq(Bucket) /\ InBuckets(none) = 0
  BY MaturityNat, BucketsEmpty
<1>3. /\ s \in Nat /\ Holds(b, v) /\ b.matured = a.matured /\ b.rex_balance = a.rex_balance
  BY <1>1, RowWithoutSavings DEF Kept
<1>4. /\ a.rex_balance \in Nat /\ a.matured \in Nat /\ b.matured \in Nat /\ v \in Nat
      /\ InBuckets(b.maturities) \in Nat /\ b.matured + InBuckets(b.maturities) = v
  BY <1>3, RowParts
<1>5. total \in Nat /\ kept + total = v
  <2>1. PICK m, q : m = b.matured /\ q = InBuckets(b.maturities)
    OBVIOUS
  <2>2. m \in Nat /\ q \in Nat /\ m + q = v /\ kept <= m /\ kept + total = m + q
    BY <1>3, <1>4, <2>1
  <2> QED
    BY <2>2
<1>6. Holds(emptied, kept) /\ emptied.matured = kept /\ emptied.rex_balance = a.rex_balance
  <2>1. PICK z : z = kept + InBuckets(none)
    OBVIOUS
  <2>2. z = kept
    BY <1>2, <2>1
  <2>3. Holds(emptied, z) /\ emptied.matured = kept
    BY <1>3, <1>2, <2>1, RowChange, ZenonT(30)
  <2>4. Holds(emptied, kept) /\ emptied.matured = kept
    BY <2>2, <2>3
  <2>5. emptied.rex_balance = b.rex_balance
    <3>1. b = [x \in RowFields |-> b[x]]
      BY <1>3 DEF Holds, IsRow
    <3> QED
      BY <3>1 DEF WithBuckets, RowFields
  <2> QED
    BY <1>3, <2>4, <2>5
<1>7. Holds(bucket, v) /\ bucket.matured = kept /\ bucket.rex_balance = a.rex_balance
  <2>1. CASE total > 0
    <3>1. bucket = AddBucket(emptied, time, total)
      BY <2>1
    <3>2. PICK x : x = AddBucket(emptied, time, total)
      OBVIOUS
    <3>3. time \in Nat /\ total \in Nat /\ Holds(emptied, kept)
      BY <1>5, <1>6, <1>2
    <3>4. Holds(x, kept + total) /\ x.matured = emptied.matured /\ Kept(emptied, x)
      <4>1. /\ Holds(AddBucket(emptied, time, total), kept + total)
            /\ AddBucket(emptied, time, total).matured = emptied.matured
            /\ Kept(emptied, AddBucket(emptied, time, total))
        BY <3>3, RowAddBucket, ZenonT(60)
      <4> QED
        BY <3>2, <4>1
    <3>5. /\ Holds(bucket, kept + total) /\ bucket.matured = emptied.matured
          /\ Kept(emptied, bucket)
      BY <3>1, <3>2, <3>4
    <3> QED
      BY <1>5, <1>6, <3>5 DEF Kept
  <2>2. CASE ~(total > 0)
    <3>1. v = kept
      BY <1>5, <2>2
    <3> QED
      BY <1>6, <2>2, <3>1
  <2> QED
    BY <2>1, <2>2
<1>8. PICK r : r = put_rex_savings(bucket, s)
  OBVIOUS
<1>9. Holds(r, v + s) /\ r.rex_balance = a.rex_balance /\ r.matured = kept
  BY <1>3, <1>7, <1>8, RowPutSavings DEF Kept
<1>10. v + s = r.rex_balance /\ kept <= r.matured
  BY <1>1, <1>3, <1>4, <1>9, SMTT(30)
<1>11. ASSUME time < end_of_days, InOrder(a.maturities, time)
       PROVE  /\ InOrder(r.maturities, time)
              /\ \A i \in Nat : clock < i /\ i <= time =>
                   LockedIn(a.maturities, i) + 0 <= LockedIn(r.maturities, i)
  <2>1. \A i \in Nat : i <= time => LockedIn(b.maturities, i) = LockedIn(a.maturities, i) - s
    BY <1>1, <1>2, <1>11, LockWithoutSavings DEF InOrder
  <2>2. emptied.maturities = none
    BY <1>3, RowMaturities DEF Holds
  <2>3. \A i \in Nat : LockedIn(emptied.maturities, i) = 0
    BY <2>2, LockedEmpty
  <2>4. Sorted(emptied.maturities, 0..time)
    BY <2>2, SortedEmpty
  <2>5. /\ Sorted(bucket.maturities, 0..time)
        /\ \A i \in Nat : i <= time => LockedIn(bucket.maturities, i) = total
    <3>1. CASE total > 0
      <4>1. PICK S : S = 0..time
        OBVIOUS
      <4>2. Sorted(emptied.maturities, S) /\ time \in S /\ bucket = AddBucket(emptied, time, total)
        BY <1>2, <2>4, <3>1, <4>1
      <4>3. \A i \in 1..Len(emptied.maturities) : emptied.maturities[i].time <= time
        BY <2>2
      <4>4. /\ Sorted(bucket.maturities, S)
            /\ \A i \in Nat : i <= time =>
                 LockedIn(bucket.maturities, i) = LockedIn(emptied.maturities, i) + total
        BY <1>5, <1>6, <1>2, <4>2, <4>3, LockAddBucket, Z3T(30)
      <4> QED
        BY <1>5, <2>3, <4>1, <4>4
    <3>2. CASE ~(total > 0)
      BY <1>5, <2>3, <2>4, <3>2
    <3> QED
      BY <3>1, <3>2
  <2>6. /\ Sorted(r.maturities, 0..time \cup {end_of_days})
        /\ \A i \in Nat : i <= time =>
             LockedIn(r.maturities, i) = LockedIn(bucket.maturities, i) + s
    <3>1. PICK w : w = put_rex_savings(bucket, s)
      OBVIOUS
    <3>2. Holds(bucket, v) /\ s \in Nat /\ time \in Nat /\ time < end_of_days
          /\ Sorted(bucket.maturities, 0..time)
      BY <1>3, <1>7, <1>2, <1>11, <2>5
    <3>3. /\ Sorted(w.maturities, 0..time \cup {end_of_days})
          /\ \A i \in Nat : i <= time =>
               LockedIn(w.maturities, i) = LockedIn(bucket.maturities, i) + s
      BY <3>1, <3>2, LockPutSavings, ZenonT(30)
    <3>4. r = w
      BY <1>8, <3>1
    <3> QED
      BY <3>3, <3>4
  <2>7. ASSUME NEW i \in Nat, i <= time
        PROVE  LockedIn(a.maturities, i) + 0 <= LockedIn(r.maturities, i)
    <3>1. PICK j, k, l : /\ j = LockedIn(a.maturities, i) /\ k = LockedIn(b.maturities, i)
                         /\ l = InBuckets(b.maturities)
      OBVIOUS
    <3>2. j \in Nat /\ k \in Nat /\ l \in Nat /\ k <= l
      BY <1>3, <3>1, RowParts, LockedCut, LockedPart
    <3>3. k = j - s /\ LockedIn(r.maturities, i) = total + s
      BY <2>1, <2>5, <2>6, <2>7, <3>1
    <3>4. b.matured \in Nat /\ kept <= b.matured /\ kept + total = b.matured + l
      BY <1>3, <1>4, <3>1
    <3>5. l <= total
      BY <1>5, <3>2, <3>4
    <3> QED
      BY <1>3, <1>5, <3>1, <3>2, <3>3, <3>5, SMTT(30)
  <2> QED
    BY <2>6, <2>7 DEF InOrder
<1>12. LockRaised(a.maturities, r.maturities, clock, 0)
  BY <1>11 DEF LockRaised
<1> QED
  BY <1>1, <1>8, <1>9, <1>10, <1>12 DEF Rearranged

\* What mvtosavings takes from the buckets at the back, and what it takes of
\* the matured REX too, goes to the savings.
LEMMA LockToSavings ==
    ASSUME NEW a, NEW s, Holds(a, s), NEW clock \in Nat, NEW rex \in Nat,
           NEW q, q = process_rex_maturities(WithoutSavings(a), clock).maturities,
           NEW taken, TakenFrom(taken, q, rex),
           NEW left, NEW z, Holds(left, z), left.maturities = taken.left,
           NEW put, put = read_rex_savings(a) + rex
    PROVE  LockRaised(a.maturities, put_rex_savings(left, put).maturities, clock, 0)
<1>1. PICK d, x, y, u, r : /\ d = MaturityOf(clock) /\ x = taken.left /\ y = taken.missing
                           /\ u = read_rex_savings(a) /\ r = put_rex_savings(left, put)
  OBVIOUS
<1>2. d \in Nat /\ u \in Nat /\ y \in Nat /\ put \in Nat /\ put = u + rex
  <2>1. d \in Nat
    BY <1>1, MaturityNat
  <2>2. u \in Nat
    BY <1>1, RowWithoutSavings
  <2>3. y \in Nat
    BY <1>1 DEF TakenFrom
  <2> QED
    BY <1>1, <2>1, <2>2, <2>3
<1>3. q \in Seq(Bucket) /\ x \in Seq(Bucket)
  <2>1. PICK g : Holds(WithoutSavings(a), g)
    BY RowWithoutSavings
  <2>2. Holds(process_rex_maturities(WithoutSavings(a), clock), g)
    BY <2>1, RowMatures
  <2>3. q \in Seq(Bucket)
    BY <2>2, RowParts
  <2>4. x \in Seq(Bucket)
    BY <1>1 DEF TakenFrom
  <2> QED
    BY <2>3, <2>4
<1>4. ASSUME d < end_of_days, InOrder(a.maturities, d)
      PROVE  /\ InOrder(r.maturities, d)
             /\ \A i \in Nat : clock < i /\ i <= d =>
                  LockedIn(a.maturities, i) + 0 <= LockedIn(r.maturities, i)
  <2>1. /\ Sorted(q, 0..d)
        /\ \A i \in Nat : clock < i /\ i <= d =>
             LockedIn(q, i) + u = LockedIn(a.maturities, i)
    BY <1>1, <1>2, <1>4, LockRegular
  <2>2. /\ \A i \in Nat : LockedIn(q, i) + y <= LockedIn(x, i) + rex
        /\ \A S : Sorted(q, S) => Sorted(x, S)
    BY <1>1 DEF TakenFrom
  <2>3. Sorted(left.maturities, 0..d)
    BY <1>1, <2>1, <2>2
  <2>4. /\ Sorted(r.maturities, 0..d \cup {end_of_days})
        /\ \A i \in Nat : i <= d =>
             LockedIn(r.maturities, i) = LockedIn(left.maturities, i) + put
    <3>1. Holds(left, z) /\ put \in Nat /\ d \in Nat /\ d < end_of_days
      BY <1>2, <1>4
    <3>2. LET w == put_rex_savings(left, put)
          IN  /\ Sorted(w.maturities, 0..d \cup {end_of_days})
              /\ \A i \in Nat : i <= d =>
                   LockedIn(w.maturities, i) = LockedIn(left.maturities, i) + put
      BY <2>3, <3>1, LockPutSavings, ZenonT(30)
    <3> QED
      BY <1>1, <3>2
  <2>5. ASSUME NEW i \in Nat, clock < i, i <= d
        PROVE  LockedIn(a.maturities, i) + 0 <= LockedIn(r.maturities, i)
    <3>1. PICK j, k, l : j = LockedIn(a.maturities, i) /\ k = LockedIn(q, i) /\ l = LockedIn(x, i)
      OBVIOUS
    <3>2. k \in Nat /\ l \in Nat
      BY <1>3, <3>1, LockedCut
    <3>3. k + u = j /\ k + y <= l + rex /\ LockedIn(r.maturities, i) = l + put
      BY <1>1, <2>1, <2>2, <2>4, <2>5, <3>1
    <3>4. j + 0 <= l + put
      BY <1>2, <3>2, <3>3
    <3> QED
      BY <3>1, <3>3, <3>4
  <2> QED
    BY <2>4, <2>5 DEF InOrder
<1> QED
  BY <1>1, <1>4 DEF LockRaised

\* The row that mvtosavings writes holds what it held, the ordered REX matured.
LEMMA ToSavingsRow ==
    ASSUME NEW a, Holds(a, a.rex_balance), NEW ordered \in Nat, ordered <= a.matured,
           NEW time \in Nat, NEW rex \in Nat, NEW savings, savings = read_rex_savings(a),
           NEW b, b = process_rex_maturities(WithoutSavings(a), time),
           NEW taken, taken = TakeFromBack(b.maturities, rex),
           NEW left, left = WithBuckets(b, b.matured - taken.missing, taken.left),
           taken.missing > 0 => ordered <= left.matured,
           NEW r, r = put_rex_savings(left, savings + rex)
    PROVE  Rearranged(a, r, ordered, time)
<1>1. PICK v, w, q : v = a.rex_balance - savings /\ w = WithoutSavings(a) /\ q = b.maturities
  OBVIOUS
<1>2. savings \in Nat /\ Holds(w, v) /\ w.matured = a.matured /\ w.rex_balance = a.rex_balance
  BY <1>1, RowWithoutSavings DEF Kept
<1>3. Holds(b, v) /\ w.matured <= b.matured /\ b.rex_balance = a.rex_balance
  BY <1>1, <1>2, RowMatures DEF Kept
<1>4. /\ a.rex_balance \in Nat /\ a.matured \in Nat /\ b.matured \in Nat /\ v \in Nat
      /\ InBuckets(q) \in Nat /\ b.matured + InBuckets(q) = v /\ q \in Seq(Bucket)
  BY <1>1, <1>2, <1>3, RowParts
<1>5. PICK x, y : x = taken.left /\ y = taken.missing
  OBVIOUS
<1>6. /\ y \in Nat /\ x \in Seq(Bucket) /\ InBuckets(x) \in Nat
      /\ InBuckets(x) + rex - y = InBuckets(q)
  <2>1. TakenFrom(taken, q, rex)
    BY <1>1, <1>4, TakenAll
  <2> QED
    BY <1>5, <2>1, BucketsNat DEF TakenFrom
<1>7. PICK m : m = b.matured - y
  OBVIOUS
<1>8. left = WithBuckets(b, m, x) /\ left.matured = m
  <2>1. left = WithBuckets(b, m, x)
    BY <1>5, <1>7
  <2>2. b = [f \in RowFields |-> b[f]]
    BY <1>3 DEF Holds, IsRow
  <2> QED
    BY <2>1, <2>2 DEF WithBuckets, RowFields
<1>9. m \in Nat /\ ordered <= m
  <2>1. PICK k, i, j : k = b.matured /\ i = InBuckets(x) /\ j = InBuckets(q)
    OBVIOUS
  <2>2. /\ k \in Nat /\ i \in Nat /\ j \in Nat /\ y \in Nat /\ m = k - y
        /\ i + rex - y = j /\ ordered <= k
    <3>1. k \in Nat /\ i \in Nat /\ j \in Nat /\ y \in Nat /\ m = k - y
      BY <1>4, <1>6, <1>7, <2>1
    <3>2. i + rex - y = j
      BY <1>6, <2>1
    <3>3. ordered <= k
      BY <1>2, <1>3, <1>4, <2>1
    <3> QED
      BY <3>1, <3>2, <3>3
  <2>3. CASE y > 0
    <3>1. ordered <= m
      BY <1>5, <1>8, <2>3
    <3> QED
      BY <2>2, <3>1
  <2>4. CASE ~(y > 0)
    <3>1. m = k
      BY <2>2, <2>4
    <3> QED
      BY <2>2, <3>1
  <2> QED
    BY <2>3, <2>4
<1>10. PICK z : z = m + InBuckets(x)
  OBVIOUS
<1>11. Holds(left, z)
  BY <1>3, <1>6, <1>8, <1>9, <1>10, RowChange
<1>12. left.rex_balance = a.rex_balance
  <2>1. b = [f \in RowFields |-> b[f]]
    BY <1>3 DEF Holds, IsRow
  <2> QED
    BY <1>3, <1>8, <2>1 DEF WithBuckets, RowFields
<1>13. PICK put : put = savings + rex
  OBVIOUS
<1>14. put \in Nat
  BY <1>2, <1>13
<1>15. Holds(r, z + put) /\ r.rex_balance = a.rex_balance /\ r.matured = m
  BY <1>8, <1>11, <1>12, <1>13, <1>14, RowPutSavings DEF Kept
<1>16. z + put = a.rex_balance
  <2>1. PICK i, j, k, n : /\ i = InBuckets(x) /\ j = InBuckets(q) /\ k = b.matured
                          /\ n = a.rex_balance
    OBVIOUS
  <2>2. /\ i \in Nat /\ j \in Nat /\ k \in Nat /\ n \in Nat /\ y \in Nat /\ savings \in Nat
        /\ v \in Nat /\ v = n - savings /\ k + j = v /\ i + rex - y = j /\ m = k - y
        /\ z = m + i /\ put = savings + rex
    BY <1>1, <1>2, <1>4, <1>6, <1>7, <1>10, <1>13, <2>1
  <2>3. z = v - rex
    <3>1. i = j + y - rex /\ k = v - j
      BY <2>2
    <3> QED
      BY <2>2, <3>1
  <2>4. z + put = n
    BY <2>2, <2>3
  <2> QED
    BY <2>1, <2>4
<1>17. LockRaised(a.maturities, r.maturities, time, 0)
  <2>1. left.maturities = x
    <3>1. IsRow(b) /\ left = WithBuckets(b, m, x)
      BY <1>3, <1>8 DEF Holds
    <3> QED
      BY <3>1, RowMaturities
  <2>2. r = put_rex_savings(left, put) /\ put = read_rex_savings(a) + rex
    BY <1>13
  <2>3. TakenFrom(taken, q, rex)
    BY <1>1, <1>4, TakenAll
  <2>4. q = process_rex_maturities(WithoutSavings(a), time).maturities
    BY <1>1
  <2>5. left.maturities = taken.left
    BY <1>5, <2>1
  <2>6. LockRaised(a.maturities, put_rex_savings(left, put).maturities, time, 0)
    BY <1>11, <2>2, <2>3, <2>4, <2>5, LockToSavings, SMTT(30)
  <2> QED
    BY <2>2, <2>6
<1> QED
  BY <1>9, <1>15, <1>16, <1>17 DEF Rearranged

\* The row that mvfrsavings writes holds what it held.
LEMMA FromSavingsRow ==
    ASSUME NEW a, Holds(a, a.rex_balance), NEW ordered \in Nat, ordered <= a.matured,
           NEW time \in Nat, NEW maturity, maturity = MaturityOf(time), NEW rex \in Nat,
           NEW savings, savings = read_rex_savings(a), rex <= savings,
           NEW b, b = process_rex_maturities(WithoutSavings(a), time),
           NEW moved, moved = AddBucket(b, maturity, rex),
           NEW r, r = put_rex_savings(moved, savings - rex)
    PROVE  Rearranged(a, r, ordered, time)
<1>1. maturity \in Nat
  BY MaturityNat
<1>2. PICK v, w : v = a.rex_balance - savings /\ w = WithoutSavings(a)
  OBVIOUS
<1>3. savings \in Nat /\ Holds(w, v) /\ w.matured = a.matured /\ w.rex_balance = a.rex_balance
  BY <1>2, RowWithoutSavings DEF Kept
<1>4. Holds(b, v) /\ w.matured <= b.matured /\ b.rex_balance = a.rex_balance
  BY <1>2, <1>3, RowMatures DEF Kept
<1>5. a.rex_balance \in Nat /\ a.matured \in Nat /\ b.matured \in Nat /\ v \in Nat
  BY <1>3, <1>4, RowParts
<1>6. Holds(moved, v + rex) /\ moved.matured = b.matured /\ moved.rex_balance = a.rex_balance
  <2>1. Holds(moved, v + rex) /\ moved.matured = b.matured /\ Kept(b, moved)
    BY <1>4, <1>1, RowAddBucket, ZenonT(30)
  <2> QED
    BY <1>4, <2>1 DEF Kept
<1>7. PICK x, put : x = v + rex /\ put = savings - rex
  OBVIOUS
<1>8. put \in Nat /\ x + put = a.rex_balance /\ ordered <= b.matured
  BY <1>2, <1>3, <1>4, <1>5, <1>7
<1>9. Holds(r, x + put) /\ r.rex_balance = a.rex_balance /\ r.matured = b.matured
  <2>1. PICK z : z = put_rex_savings(moved, put)
    OBVIOUS
  <2>2. Holds(moved, x) /\ put \in Nat
    BY <1>6, <1>7, <1>8
  <2>3. Holds(z, x + put) /\ Kept(moved, z) /\ z.matured = moved.matured
    BY <2>1, <2>2, RowPutSavings
  <2>4. r = z
    BY <1>7, <2>1
  <2> QED
    BY <1>6, <2>3, <2>4 DEF Kept
<1>10. LockRaised(a.maturities, r.maturities, time, 0)
  <2>1. 0 + read_rex_savings(a) = rex + put /\ 0 \in Int
    BY <1>3, <1>7
  <2>2. r = put_rex_savings(AddBucket(process_rex_maturities(WithoutSavings(a), time),
                                      MaturityOf(time), rex), put)
    BY <1>7
  <2> QED
    BY <1>8, <2>1, <2>2, LockRestored
<1> QED
  BY <1>8, <1>9, <1>10 DEF Rearranged

\* An owner that collects its filled order, and nothing else.
LEMMA Collected ==
    ASSUME NEW t, NEW D, NEW c, Sound(t, 0, D, c), NEW o \in Owners,
           NEW u, u = update_rex_account(t, o, 0, 0)
    PROVE  /\ Sound(u, 0, D, c) /\ Frame(t, u, {"orders", "funds", "staked"})
           /\ u.orders = IF IsFilled(t, o) THEN Erase(t.orders, o) ELSE t.orders
<1>1. 0 \in Int /\ 0 \in Nat /\ 0 - 0 = 0
  OBVIOUS
<1>2. /\ Sound(u, 0 - 0, D, c) /\ Frame(t, u, {"orders", "funds", "staked"})
      /\ u.orders = IF IsFilled(t, o) THEN Erase(t.orders, o) ELSE t.orders
  BY <1>1, AccountSound
<1> QED
  BY <1>1, <1>2

\* The owner's row rearranged after its filled order is collected.
LEMMA CollectSound ==
    ASSUME NEW t, NEW D, NEW c, Sound(t, 0, D, c), NEW o \in Owners, t.ok => o \in DOMAIN t.bal,
           NEW u, u = update_rex_account(t, o, 0, 0),
           NEW r, t.ok => Rearranged(t.bal[o], r, rex_in_sell_order(t, o), t.now),
           NEW bal, bal = [u.bal EXCEPT ![o] = r], NEW h, h = [u EXCEPT !.bal = bal]
    PROVE  Sound(h, 0, D, c)
<1>1. /\ Sound(u, 0, D, c) /\ Frame(t, u, {"orders", "funds", "staked"})
      /\ u.orders = IF IsFilled(t, o) THEN Erase(t.orders, o) ELSE t.orders
  BY Collected
<1>2. u.ok => t.ok /\ u.bal = t.bal /\ u.now = t.now
  BY <1>1 DEF Frame, TableFields
<1>3. ASSUME u.ok
      PROVE  /\ o \in DOMAIN u.bal /\ r.rex_balance = u.bal[o].rex_balance
             /\ Holds(r, r.rex_balance) /\ Covered(u.orders, o, r)
             /\ LockRaised(u.bal[o].maturities, r.maturities, u.now, 0)
  <2>1. TablesOK(t, 0, D, c) /\ o \in DOMAIN t.bal
    BY <1>2, <1>3 DEF Sound
  <2>2. Covered(t.orders, o, r)
    BY <1>2, <1>3, <2>1, OrderedREX DEF Rearranged
  <2>3. Covered(u.orders, o, r)
    BY <1>1, <2>2, CoveredStill
  <2> QED
    BY <1>2, <1>3, <2>1, <2>3 DEF Rearranged
<1> QED
  BY <1>1, <1>3, RowSet

\* consolidate keeps the invariant.
LEMMA consolidateStep ==
    ASSUME IInv, NEW owner \in Owners, consolidate(owner)
    PROVE  IInv' /\ StepOK
<1>1. PICK t, D, c : /\ t = Tables /\ D = Del /\ Sound(t, 0, D, c) /\ Basis(c) /\ t.ok
  BY Start
<1>2. PICK r : r = runrex(t, 2)
  OBVIOUS
<1>3. PICK a, kept, time : /\ a = r.bal[owner] /\ kept = rex_in_sell_order(r, owner)
                           /\ time = get_rex_maturity(r)
  OBVIOUS
<1>4. PICK b : b = WithoutSavings(a)
  OBVIOUS
<1>5. PICK total : total = b.matured - kept + InBuckets(b.maturities)
  OBVIOUS
<1>6. PICK none : none = <<>>
  OBVIOUS
<1>7. PICK emptied : emptied = WithBuckets(b, kept, none)
  OBVIOUS
<1>8. PICK bucket : bucket = IF total > 0 THEN AddBucket(emptied, time, total) ELSE emptied
  OBVIOUS
<1>9. PICK row : row = put_rex_savings(bucket, read_rex_savings(a))
  OBVIOUS
<1>10. PICK u : u = update_rex_account(r, owner, 0, 0)
  OBVIOUS
<1>11. PICK bal : bal = [u.bal EXCEPT ![owner] = row]
  OBVIOUS
<1>12. PICK h : h = [u EXCEPT !.bal = bal]
  OBVIOUS
<1>13. Commit(h) /\ UNCHANGED delband /\ owner \in DOMAIN t.bal
  <2>1. emptied = [b EXCEPT !.matured = kept, !.maturities = <<>>]
    BY <1>6, <1>7 DEF WithBuckets
  <2>2. h = [u EXCEPT !.bal[owner] = row]
    BY <1>11, <1>12
  <2>3. owner \in DOMAIN t.bal /\ UNCHANGED delband
    BY <1>1, TablesFields DEF consolidate
  <2> QED
    BY <1>1, <1>2, <1>3, <1>4, <1>5, <1>8, <1>9, <1>10, <2>1, <2>2, <2>3, Zenon DEF consolidate
<1>14. 0 \in Int /\ 2 \in Nat
  OBVIOUS
<1>15. Sound(r, 0, D, c) /\ (r.ok => owner \in DOMAIN r.bal)
  BY <1>1, <1>2, <1>13, <1>14, RunSound
<1>16. ASSUME r.ok PROVE Rearranged(a, row, kept, r.now)
  <2>1. TablesOK(r, 0, D, c) /\ owner \in DOMAIN r.bal
    BY <1>15, <1>16 DEF Sound
  <2>2. Holds(a, a.rex_balance) /\ kept \in Nat /\ kept <= a.matured
    BY <1>3, <2>1, OwnRow, OrderedREX
  <2>3. r.now \in Nat /\ time = MaturityOf(r.now)
    BY <1>3, <2>1, MoneyParts DEF get_rex_maturity, MaturityOf
  <2>4. none \in Seq(Bucket) /\ InBuckets(none) = 0
    BY <1>6, BucketsEmpty
  <2>5. total \in Int /\ kept + total = b.matured + InBuckets(b.maturities)
    <3>1. PICK v : Holds(b, v)
      BY <1>4, <2>2, RowWithoutSavings
    <3>2. b.matured \in Nat /\ InBuckets(b.maturities) \in Nat
      BY <3>1, RowParts
    <3> QED
      BY <1>5, <2>2, <3>2
  <2>6. /\ total > 0 => bucket = AddBucket(emptied, time, total)
        /\ total <= 0 => bucket = emptied
    BY <1>8, <2>5
  <2>7. Rearranged(a, put_rex_savings(bucket, read_rex_savings(a)), kept, r.now)
    BY <1>4, <1>6, <1>7, <2>2, <2>3, <2>4, <2>5, <2>6, ConsolidatedRow
  <2> QED
    BY <1>9, <2>7
<1>17. Sound(h, 0, D, c)
  BY <1>3, <1>10, <1>11, <1>12, <1>15, <1>16, CollectSound
<1> QED
  BY <1>1, <1>13, <1>17, DoneHere

\* mvtosavings keeps the invariant: it never takes REX that is in order.
LEMMA mvtosavingsStep ==
    ASSUME IInv, NEW owner \in Owners, NEW rex \in Nat, mvtosavings(owner, rex)
    PROVE  IInv' /\ StepOK
<1>1. PICK t, D, c : /\ t = Tables /\ D = Del /\ Sound(t, 0, D, c) /\ Basis(c) /\ t.ok
  BY Start
<1>2. PICK r : r = runrex(t, 2)
  OBVIOUS
<1>3. PICK a, ordered : a = r.bal[owner] /\ ordered = rex_in_sell_order(r, owner)
  OBVIOUS
<1>4. PICK savings : savings = read_rex_savings(a)
  OBVIOUS
<1>5. PICK b : b = process_rex_maturities(WithoutSavings(a), now)
  OBVIOUS
<1>6. PICK taken : taken = TakeFromBack(b.maturities, rex)
  OBVIOUS
<1>7. PICK left : left = WithBuckets(b, b.matured - taken.missing, taken.left)
  OBVIOUS
<1>8. PICK row : row = put_rex_savings(left, savings + rex)
  OBVIOUS
<1>9. PICK u : u = update_rex_account(r, owner, 0, 0)
  OBVIOUS
<1>10. PICK bal : bal = [u.bal EXCEPT ![owner] = row]
  OBVIOUS
<1>11. PICK h : h = [u EXCEPT !.bal = bal]
  OBVIOUS
<1>12. /\ Commit(h) /\ UNCHANGED delband /\ owner \in DOMAIN t.bal
       /\ taken.missing > 0 => ordered <= left.matured
  <2>1. h = [u EXCEPT !.bal[owner] = row]
    BY <1>10, <1>11
  <2>2. owner \in DOMAIN t.bal /\ UNCHANGED delband
    BY <1>1, TablesFields DEF mvtosavings
  <2>3. PICK old : old = [b EXCEPT !.maturities = taken.left, !.matured = @ - taken.missing]
    OBVIOUS
  <2>4. /\ taken.missing > 0 => ordered <= old.matured
        /\ Commit([u EXCEPT !.bal[owner] = put_rex_savings(old, savings + rex)])
    BY <1>1, <1>2, <1>3, <1>4, <1>5, <1>6, <1>9, <2>3, Zenon DEF mvtosavings
  <2>5. IsTables(r) /\ r.ok /\ IsRow(a)
    <3>1. PICK g : g = [u EXCEPT !.bal[owner] = put_rex_savings(old, savings + rex)]
      OBVIOUS
    <3>2. PICK x : g = [u EXCEPT !.bal = x]
      BY <3>1
    <3>3. /\ Sound(r, 0, D, c) /\ (r.ok => owner \in DOMAIN r.bal)
      BY <1>1, <1>2, <2>2, RunSound, Z3T(30)
    <3>4. Sound(u, 0, D, c) /\ Frame(r, u, {"orders", "funds", "staked"})
      BY <1>9, <3>3, Collected
    <3>5. g.ok = u.ok /\ g.ok
      <4>1. IsTables(u)
        BY <3>4 DEF Sound
      <4> QED
        BY <2>4, <3>1, <3>2, <4>1, SetBal DEF Commit
    <3>6. r.ok
      BY <3>4, <3>5 DEF Frame
    <3> QED
      BY <1>3, <3>3, <3>6, OwnRow, RowParts DEF Sound
  <2>6. IsRow(b)
    <3>1. Holds(a, a.matured + InBuckets(a.maturities))
      BY <2>5 DEF Holds
    <3>2. PICK g : Holds(WithoutSavings(a), g)
      BY <3>1, RowWithoutSavings
    <3> QED
      BY <1>5, <3>2, RowMatures, RowParts
  <2>7. old = left
    <3>1. PICK q, v : q = taken.left /\ v = b.matured - taken.missing
      OBVIOUS
    <3>2. PICK w : w = [b EXCEPT !.maturities = q]
      OBVIOUS
    <3>3. b = [x \in RowFields |-> b[x]]
      BY <2>6 DEF IsRow
    <3>4. w.matured = b.matured
      BY <3>2, <3>3 DEF RowFields
    <3>5. old = [w EXCEPT !.matured = v]
      BY <2>3, <3>1, <3>2, <3>4
    <3>6. left = [b EXCEPT !.matured = v, !.maturities = q]
      BY <1>7, <3>1 DEF WithBuckets
    <3>7. old = [x \in RowFields |-> old[x]] /\ left = [x \in RowFields |-> left[x]]
      BY <3>2, <3>3, <3>5, <3>6
    <3>8. \A x \in RowFields : old[x] = left[x]
      BY <3>2, <3>3, <3>5, <3>6 DEF RowFields
    <3> QED
      BY <3>7, <3>8
  <2> QED
    BY <1>8, <2>1, <2>2, <2>4, <2>7
<1>13. 0 \in Int /\ 2 \in Nat
  OBVIOUS
<1>14. Sound(r, 0, D, c) /\ (r.ok => owner \in DOMAIN r.bal)
  BY <1>1, <1>2, <1>12, <1>13, RunSound
<1>15. ASSUME r.ok PROVE Rearranged(a, row, ordered, r.now)
  <2>1. TablesOK(r, 0, D, c) /\ owner \in DOMAIN r.bal
    BY <1>14, <1>15 DEF Sound
  <2>2. Holds(a, a.rex_balance) /\ ordered \in Nat /\ ordered <= a.matured
    BY <1>3, <2>1, OwnRow, OrderedREX
  <2>3. r.now = now /\ now \in Nat
    <3>1. r.now = c.now /\ r.now \in Nat
      BY <2>1, MoneyParts DEF TablesOK
    <3>2. t.now = c.now
      BY <1>1 DEF Sound, TablesOK
    <3> QED
      BY <1>1, <3>1, <3>2, TablesFields
  <2>4. Rearranged(a, row, ordered, now)
    BY <1>4, <1>5, <1>6, <1>7, <1>8, <1>12, <2>2, <2>3, ToSavingsRow
  <2> QED
    BY <2>3, <2>4
<1>16. Sound(h, 0, D, c)
  BY <1>3, <1>9, <1>10, <1>11, <1>14, <1>15, CollectSound
<1> QED
  BY <1>1, <1>12, <1>16, DoneHere

\* mvfrsavings keeps the invariant.
LEMMA mvfrsavingsStep ==
    ASSUME IInv, NEW owner \in Owners, NEW rex \in Nat, mvfrsavings(owner, rex)
    PROVE  IInv' /\ StepOK
<1>1. PICK t, D, c : /\ t = Tables /\ D = Del /\ Sound(t, 0, D, c) /\ Basis(c) /\ t.ok
  BY Start
<1>2. PICK r : r = runrex(t, 2)
  OBVIOUS
<1>3. PICK a, time : a = r.bal[owner] /\ time = get_rex_maturity(r)
  OBVIOUS
<1>4. PICK savings : savings = read_rex_savings(a)
  OBVIOUS
<1>5. PICK b : b = process_rex_maturities(WithoutSavings(a), now)
  OBVIOUS
<1>6. PICK moved : moved = AddBucket(b, time, rex)
  OBVIOUS
<1>7. PICK row : row = put_rex_savings(moved, savings - rex)
  OBVIOUS
<1>8. PICK bal : bal = [r.bal EXCEPT ![owner] = row]
  OBVIOUS
<1>9. PICK u : u = [r EXCEPT !.bal = bal]
  OBVIOUS
<1>10. PICK h : h = update_rex_account(u, owner, 0, 0)
  OBVIOUS
<1>11. Commit(h) /\ UNCHANGED delband /\ owner \in DOMAIN t.bal /\ rex <= savings
  <2>1. u = [r EXCEPT !.bal[owner] = row]
    BY <1>8, <1>9
  <2>2. owner \in DOMAIN t.bal /\ UNCHANGED delband
    BY <1>1, TablesFields DEF mvfrsavings
  <2> QED
    BY <1>1, <1>2, <1>3, <1>4, <1>5, <1>6, <1>7, <1>10, <2>1, <2>2, Zenon DEF mvfrsavings
<1>12. 0 \in Int /\ 0 \in Nat /\ 2 \in Nat /\ 0 - 0 = 0
  OBVIOUS
<1>13. Sound(r, 0, D, c) /\ (r.ok => owner \in DOMAIN r.bal)
  BY <1>1, <1>2, <1>11, <1>12, RunSound
<1>14. ASSUME r.ok
       PROVE  /\ owner \in DOMAIN r.bal /\ row.rex_balance = r.bal[owner].rex_balance
              /\ Holds(row, row.rex_balance) /\ Covered(r.orders, owner, row)
              /\ LockRaised(r.bal[owner].maturities, row.maturities, r.now, 0)
  <2>1. TablesOK(r, 0, D, c) /\ owner \in DOMAIN r.bal
    BY <1>13, <1>14 DEF Sound
  <2>2. PICK ordered : ordered = rex_in_sell_order(r, owner)
    OBVIOUS
  <2>3. Holds(a, a.rex_balance) /\ ordered \in Nat /\ ordered <= a.matured
    BY <1>3, <2>1, <2>2, OwnRow, OrderedREX
  <2>4. r.now = now /\ now \in Nat /\ time = MaturityOf(now)
    <3>1. r.now = c.now /\ r.now \in Nat
      BY <2>1, MoneyParts DEF TablesOK
    <3>2. t.now = c.now
      BY <1>1 DEF Sound, TablesOK
    <3> QED
      BY <1>1, <1>3, <3>1, <3>2, TablesFields DEF get_rex_maturity, MaturityOf
  <2>5. Rearranged(a, row, ordered, now)
    BY <1>4, <1>5, <1>6, <1>7, <1>11, <2>3, <2>4, FromSavingsRow
  <2> QED
    BY <1>3, <2>1, <2>2, <2>4, <2>5, OrderedREX DEF Rearranged
<1>15. Sound(u, 0, D, c)
  BY <1>8, <1>9, <1>13, <1>14, RowSet
<1>16. Sound(h, 0, D, c)
  <2>1. Sound(h, 0 - 0, D, c)
    BY <1>10, <1>12, <1>15, AccountSound
  <2> QED
    BY <1>12, <2>1
<1> QED
  BY <1>1, <1>11, <1>16, DoneHere

\* The funds are written.
LEMMA SetFunds ==
    ASSUME NEW t, IsTables(t), NEW v, NEW h, h = [t EXCEPT !.funds = v]
    PROVE  Frame(t, h, {"funds"}) /\ h.funds = v /\ h.ok = t.ok
BY SMT DEF IsTables, TableFields, Frame

\* The stakes in the votes are written.
LEMMA SetStaked ==
    ASSUME NEW t, IsTables(t), NEW v, NEW h, h = [t EXCEPT !.staked = v]
    PROVE  Frame(t, h, {"staked"}) /\ h.staked = v /\ h.ok = t.ok
BY SMT DEF IsTables, TableFields, Frame

\* closerex keeps the invariant: rows go that hold nothing.
LEMMA closerexStep ==
    ASSUME IInv, NEW owner \in Owners, closerex(owner)
    PROVE  IInv' /\ StepOK
<1>1. PICK t, D, c : /\ t = Tables /\ D = Del /\ Sound(t, 0, D, c) /\ Basis(c) /\ t.ok
  BY Start
<1>2. PICK r : r = IF rex_system_initialized THEN runrex(t, 2) ELSE t
  OBVIOUS
<1>3. PICK u : u = update_rex_account(r, owner, 0, 0)
  OBVIOUS
<1>4. PICK indebted : indebted = (\E n \in DOMAIN u.loans : u.loans[n].from = owner)
  OBVIOUS
<1>5. PICK funds : funds = IF ~indebted /\ owner \in DOMAIN u.funds /\ u.funds[owner] = 0
                           THEN Erase(u.funds, owner) ELSE u.funds
  OBVIOUS
<1>6. PICK w : w = [u EXCEPT !.funds = funds]
  OBVIOUS
<1>7. PICK bal : bal = Erase(u.bal, owner)
  OBVIOUS
<1>8. PICK h : h = [w EXCEPT !.bal = bal]
  OBVIOUS
<1>9. 0 \in Int /\ 0 \in Nat /\ 2 \in Nat /\ 0 - 0 = 0
  OBVIOUS
<1>10. Sound(r, 0, D, c)
  <2>1. CASE rex_system_initialized
    BY <1>1, <1>2, <1>9, <2>1, RunSound
  <2>2. CASE ~rex_system_initialized
    BY <1>1, <1>2, <2>2
  <2> QED
    BY <2>1, <2>2
<1>11. Sound(u, 0, D, c) /\ IsTables(u)
  <2>1. Sound(u, 0 - 0, D, c)
    BY <1>3, <1>9, <1>10, AccountSound
  <2> QED
    BY <1>9, <2>1 DEF Sound
<1>12. Frame(u, w, {"funds"}) /\ w.funds = funds /\ w.ok = u.ok
  BY <1>6, <1>11, SetFunds
<1>13. IsTables(w) /\ w.bal = u.bal
  BY <1>12 DEF Frame, TableFields
<1>14. Frame(w, h, {"bal"}) /\ h.bal = bal /\ h.ok = w.ok
  BY <1>8, <1>13, SetBal
<1>15. /\ Commit(h) /\ UNCHANGED delband
       /\ owner \in DOMAIN u.bal => u.bal[owner].rex_balance = 0
  <2>1. h = [u EXCEPT !.funds = funds, !.bal = bal]
    BY <1>6, <1>8
  <2>2. [u EXCEPT !.funds = funds, !.bal = Erase(@, owner)]
          = [u EXCEPT !.funds = funds, !.bal = bal]
    BY <1>7
  <2> QED
    BY <1>1, <1>2, <1>3, <1>4, <1>5, <2>1, <2>2, SMTT(30) DEF closerex
<1>16. Sound(w, 0, D, c)
  <2>1. SUFFICES ASSUME u.ok PROVE TablesOK(w, 0, D, c)
    BY <1>12, <1>13 DEF Sound
  <2>2. TablesOK(u, 0, D, c)
    BY <1>11, <2>1 DEF Sound
  <2>3. IsTable(funds) /\ SumOf(funds) = SumOf(u.funds)
    <3>1. IsTable(u.funds) /\ SumOf(u.funds) \in Int
      BY <2>2, MoneyParts
    <3>2. CASE ~indebted /\ owner \in DOMAIN u.funds /\ u.funds[owner] = 0
      <4>1. BalanceOf(u.funds, owner) = 0
        BY <3>2 DEF BalanceOf
      <4>2. /\ IsTable(Erase(u.funds, owner))
            /\ SumOf(Erase(u.funds, owner)) = SumOf(u.funds) - BalanceOf(u.funds, owner)
        BY <3>1, EraseHeld
      <4> QED
        BY <1>5, <3>1, <3>2, <4>1, <4>2
    <3>3. CASE ~(~indebted /\ owner \in DOMAIN u.funds /\ u.funds[owner] = 0)
      BY <1>5, <3>1, <3>3
    <3> QED
      BY <3>2, <3>3
  <2>4. Unowed(funds, Owners)
    <3>1. Unowed(u.funds, Owners)
      BY <2>2 DEF TablesOK, MoneyOK
    <3>2. Unowed(Erase(u.funds, owner), Owners)
      BY <3>1 DEF Unowed, NoDebts, Erase
    <3> QED
      BY <1>5, <3>1, <3>2
  <2>5. MoneyOK(u.ledger, u.pool.total_lendable, funds, u.loans, u.orders, 0)
    BY <2>2, <2>3, <2>4 DEF TablesOK, MoneyOK
  <2> QED
    BY <1>12, <2>2, <2>5 DEF Frame, TableFields, TablesOK
<1>17. Sound(h, 0, D, c)
  <2>1. h.bal = Erase(w.bal, owner) /\ (owner \in DOMAIN w.bal => w.bal[owner].rex_balance = 0)
    BY <1>7, <1>13, <1>14, <1>15
  <2> QED
    BY <1>14, <1>16, <2>1, CloseSound
<1> QED
  BY <1>1, <1>15, <1>17, DoneHere

\* The revaluation before a vote keeps the invariant.
LEMMA update_rex_stakeStep ==
    ASSUME IInv, NEW voter \in Owners, update_rex_stake(voter)
    PROVE  IInv' /\ StepOK
<1>1. PICK t, D, c : /\ t = Tables /\ D = Del /\ Sound(t, 0, D, c) /\ Basis(c) /\ t.ok
                     /\ TablesOK(t, 0, D, c)
  BY Start
<1>2. PICK v : v = StakeValue(rex_pool, rexbal[voter].rex_balance)
  OBVIOUS
<1>3. PICK u : u = [t EXCEPT !.bal[voter].vote_stake = v]
  OBVIOUS
<1>4. PICK all : all = [u.staked EXCEPT ![voter] = @ + v - rexbal[voter].vote_stake]
  OBVIOUS
<1>5. PICK h : h = [u EXCEPT !.staked = all]
  OBVIOUS
<1>6. voter \in DOMAIN rexbal /\ rex_available(rex_pool) /\ UNCHANGED delband
  BY DEF update_rex_stake
<1>7. v \in Nat
  <2>1. voter \in DOMAIN t.bal /\ rex_available(t.pool) /\ t.pool = rex_pool /\ t.bal = rexbal
    BY <1>1, <1>6, TablesFields
  <2>2. /\ Holds(t.bal[voter], t.bal[voter].rex_balance)
        /\ t.bal[voter].rex_balance <= t.pool.total_rex
    BY <1>1, <2>1, OwnRow
  <2>3. PoolOK(t.pool) /\ t.bal[voter].rex_balance \in Nat
    BY <1>1, <2>2, RowParts DEF TablesOK, PoolSince
  <2> QED
    BY <1>2, <2>1, <2>2, <2>3, StakeValueNat
<1>8. Sound(u, 0, D, c) /\ Frame(t, u, {"bal"})
  <2>1. voter \in DOMAIN t.bal
    BY <1>1, <1>6, TablesFields
  <2> QED
    BY <1>1, <1>3, <1>7, <2>1, ValuedSound
<1>9. Commit(h)
  <2>1. u.staked = t.staked
    BY <1>8 DEF Frame, TableFields
  <2>2. h = [u EXCEPT !.staked[voter] = @ + v - rexbal[voter].vote_stake]
    BY <1>4, <1>5
  <2>3. h = [t EXCEPT !.bal[voter].vote_stake = v,
                      !.staked[voter] = @ + v - rexbal[voter].vote_stake]
    BY <1>3, <2>1, <2>2
  <2> QED
    BY <1>1, <1>2, <2>3 DEF update_rex_stake
<1>10. Frame(u, h, {"staked"}) /\ h.staked = all
  <2>1. IsTables(u)
    BY <1>8 DEF Sound
  <2> QED
    BY <1>5, <2>1, SetStaked
<1>11. all \in [Owners -> Int]
  <2>1. PICK f, x : f = u.staked /\ x = rexbal[voter].vote_stake
    OBVIOUS
  <2>2. f \in [Owners -> Int]
    <3>1. u.staked = t.staked
      BY <1>8 DEF Frame, TableFields
    <3> QED
      BY <1>1, <2>1, <3>1 DEF TablesOK
  <2>3. x \in Nat
    <3>1. voter \in DOMAIN t.bal /\ t.bal = rexbal
      BY <1>1, <1>6, TablesFields
    <3>2. Holds(t.bal[voter], t.bal[voter].rex_balance)
      BY <1>1, <3>1 DEF TablesOK, BalOK
    <3> QED
      BY <2>1, <3>1, <3>2, RowParts
  <2>4. all = [f EXCEPT ![voter] = @ + v - x]
    BY <1>4, <2>1
  <2> QED
    BY <1>7, <2>2, <2>3, <2>4
<1>12. Sound(h, 0, D, c)
  BY <1>8, <1>10, <1>11, StakedSound
<1> QED
  BY <1>1, <1>6, <1>9, <1>12, DoneHere

-----------------------------------------------------------------------------
(* Loans                                                                   *)

\* A shift by nothing.
LEMMA ShiftNone ==
    ASSUME NEW D, IsDelegated(D), NEW r \in Owners, NEW k \in Kinds, NEW v, v = 0
    PROVE  Shift(D, r, k, v) = D
BY DEF Shift, IsDelegated

\* A loan whose fund changes by v.
LEMMA LoanFundSound ==
    ASSUME NEW t, NEW gap \in Int, NEW D, NEW c, Sound(t, gap, D, c),
           NEW n, NEW v \in Int, t.ok => n \in DOMAIN t.loans /\ t.loans[n].balance + v >= 0,
           NEW h, h = [t EXCEPT !.loans[n].balance = @ + v]
    PROVE  Sound(h, gap - v, D, c) /\ Frame(t, h, {"loans"})
<1>1. PICK loan : loan = [t.loans[n] EXCEPT !.balance = @ + v]
  OBVIOUS
<1>2. PICK loans : loans = [t.loans EXCEPT ![n] = loan]
  OBVIOUS
<1>3. h = [t EXCEPT !.loans = loans]
  BY <1>1, <1>2
<1>4. Frame(t, h, {"loans"}) /\ h.loans = loans /\ h.ok = t.ok
  <2>1. IsTables(t)
    BY DEF Sound
  <2> QED
    BY <1>3, <2>1, SMTT(30) DEF IsTables, TableFields, Frame
<1>5. ASSUME t.ok PROVE TablesOK(h, gap - v, D, c)
  <2>1. TablesOK(t, gap, D, c) /\ n \in DOMAIN t.loans /\ t.loans[n].balance + v >= 0
    BY <1>5 DEF Sound
  <2>2. PICK old : old = t.loans[n]
    OBVIOUS
  <2>3. /\ old \in Loan /\ old.payment > 0 /\ old.total_staked > 0
        /\ old.expiration <= t.now + loan_term
        /\ LoansOK(t.loans, t.loan_num, t.now, t.pool.total_lent)
        /\ LimitsOK(t.limits, t.loans, D) /\ QueueOK(t.orders, t.loans)
    BY <2>1, <2>2 DEF TablesOK, LoansOK
  <2>4. /\ BalanceOf(StakedOf(t.loans), n) = old.total_staked
        /\ BalanceOf(BalancesOf(t.loans), n) = old.balance
        /\ n \in 1..t.loan_num /\ t.loan_num \in Nat
        /\ t.loans = [m \in DOMAIN t.loans |-> t.loans[m]]
    BY <2>1, <2>2, LoanOf
  <2>5. /\ loan \in Loan /\ loan.balance = old.balance + v
        /\ loan.kind = old.kind /\ loan.receiver = old.receiver /\ loan.payment = old.payment
        /\ loan.total_staked = old.total_staked /\ loan.expiration = old.expiration
    <3>1. old.balance \in Nat /\ old.balance + v \in Nat
      BY <2>1, <2>2, <2>3 DEF Loan
    <3> QED
      BY <1>1, <2>2, <2>3, <3>1 DEF Loan
  <2>6. LoanRow(loan, t.now)
    BY <2>3, <2>5 DEF LoanRow
  <2>7. h.loans = Put(t.loans, n, loan)
    BY <1>2, <1>4, <2>1, <2>4, SameRow
  <2>8. PICK stake : stake = loan.total_staked - BalanceOf(StakedOf(t.loans), n)
    OBVIOUS
  <2>9. stake = 0 /\ stake \in Int /\ t.loan_num <= t.loan_num /\ old.total_staked \in Int
    BY <2>3, <2>4, <2>5, <2>8 DEF Loan
  <2>10. PICK lent : lent = t.pool.total_lent
    OBVIOUS
  <2>11. /\ LoansOK(h.loans, t.loan_num, t.now, lent + stake)
         /\ LimitsOK(t.limits, h.loans, Shift(D, loan.receiver, loan.kind, -stake))
         /\ SumOf(BalancesOf(h.loans))
              = SumOf(BalancesOf(t.loans)) - BalanceOf(BalancesOf(t.loans), n) + loan.balance
         /\ SumOf(BalancesOf(t.loans)) \in Int
    <3>1. n \in DOMAIN t.loans => t.loans[n].kind = loan.kind /\ t.loans[n].receiver = loan.receiver
      BY <2>2, <2>5
    <3>2. LoansOK(t.loans, t.loan_num, t.now, lent)
      BY <2>3, <2>10
    <3> QED
      BY <2>3, <2>4, <2>6, <2>7, <2>8, <2>9, <3>1, <3>2, LoanPut
  <2>12. lent + stake = t.pool.total_lent /\ Shift(D, loan.receiver, loan.kind, -stake) = D
    <3>1. lent \in Int /\ IsDelegated(D)
      BY <2>1, <2>10, MoneyParts
    <3>2. PICK z : z = -stake
      OBVIOUS
    <3>3. z = 0 /\ loan.receiver \in Owners /\ loan.kind \in Kinds
      <4>1. z = 0
        <5>1. stake + z = 0 /\ z \in Int
          BY <2>8, <2>9, <3>2
        <5> QED
          BY <2>9, <5>1
      <4>2. loan \in Loan
        BY <2>5
      <4>3. loan.receiver \in Owners /\ loan.kind \in Kinds
        BY <4>2 DEF Loan
      <4> QED
        BY <4>1, <4>3
    <3>4. Shift(D, loan.receiver, loan.kind, z) = D
      BY <3>1, <3>3, ShiftNone
    <3> QED
      BY <2>9, <2>10, <3>1, <3>2, <3>4
  <2>13. SumOf(BalancesOf(h.loans)) = SumOf(BalancesOf(t.loans)) + v
    <3>1. old.balance \in Int
      BY <2>3 DEF Loan
    <3> QED
      BY <2>4, <2>5, <2>11, <3>1
  <2>14. MoneyOK(t.ledger, t.pool.total_lendable, t.funds, h.loans, t.orders, gap - v)
    <3>1. MoneyOK(t.ledger, t.pool.total_lendable, t.funds, t.loans, t.orders, gap)
      BY <2>1 DEF TablesOK
    <3>2. /\ t.pool.total_lendable \in Nat /\ SumOf(t.funds) \in Int
          /\ SumOf(BalancesOf(t.loans)) \in Int /\ SumOf(ProceedsOf(t.orders)) \in Int
      BY <2>1, MoneyParts
    <3> QED
      BY <2>13, <3>1, <3>2 DEF MoneyOK
  <2>15. QueueOK(t.orders, h.loans)
    BY <2>2, <2>3, <2>5, <2>7 DEF QueueOK, Put
  <2>16. LoansOK(h.loans, t.loan_num, t.now, t.pool.total_lent) /\ LimitsOK(t.limits, h.loans, D)
    BY <2>11, <2>12
  <2> QED
    BY <1>4, <2>1, <2>14, <2>15, <2>16 DEF Frame, TableFields, TablesOK
<1> QED
  BY <1>4, <1>5 DEF Sound, Frame

\* fundcpuloan and fundnetloan keep the invariant.
LEMMA fund_rex_loanStep ==
    ASSUME IInv, NEW from \in Owners, NEW num, NEW payment \in Nat, fund_rex_loan(from, num, payment)
    PROVE  IInv' /\ StepOK
<1>1. PICK t, D, c : /\ t = Tables /\ D = Del /\ Sound(t, 0, D, c) /\ Basis(c) /\ t.ok
                     /\ TablesOK(t, 0, D, c)
  BY Start
<1>2. PICK paid : paid = transfer_from_fund(t, from, payment)
  OBVIOUS
<1>3. PICK h : h = [paid EXCEPT !.loans[num].balance = @ + payment]
  OBVIOUS
<1>4. Commit(h) /\ UNCHANGED delband /\ num \in DOMAIN t.loans
  BY <1>1, <1>2, <1>3, TablesFields DEF fund_rex_loan
<1>5. 0 \in Int /\ payment \in Int /\ 0 + payment = payment /\ payment - payment = 0
  OBVIOUS
<1>6. Sound(paid, payment, D, c) /\ Frame(t, paid, {"funds"})
  <2>1. Sound(paid, 0 + payment, D, c) /\ Frame(t, paid, {"funds"})
    BY <1>1, <1>2, <1>5, FromFundSound
  <2> QED
    BY <1>5, <2>1
<1>7. num \in DOMAIN paid.loans /\ paid.loans[num].balance + payment >= 0
  <2>1. paid.loans = t.loans
    BY <1>6 DEF Frame, TableFields
  <2>2. t.loans[num].balance \in Nat
    BY <1>1, <1>4, LoanOf
  <2> QED
    BY <1>4, <2>1, <2>2
<1>8. Sound(h, 0, D, c)
  <2>1. Sound(h, payment - payment, D, c)
    BY <1>3, <1>5, <1>6, <1>7, LoanFundSound
  <2> QED
    BY <1>5, <2>1
<1> QED
  BY <1>1, <1>4, <1>8, DoneHere

\* defcpuloan and defnetloan keep the invariant.
LEMMA defund_rex_loanStep ==
    ASSUME IInv, NEW from \in Owners, NEW num, NEW amount \in Nat, defund_rex_loan(from, num, amount)
    PROVE  IInv' /\ StepOK
<1>1. PICK t, D, c : /\ t = Tables /\ D = Del /\ Sound(t, 0, D, c) /\ Basis(c) /\ t.ok
                     /\ TablesOK(t, 0, D, c)
  BY Start
<1>2. PICK less : less \in Int /\ less + amount = 0
  <2>1. 0 - amount \in Int /\ (0 - amount) + amount = 0
    OBVIOUS
  <2> QED
    BY <2>1
<1>3. PICK u : u = [t EXCEPT !.loans[num].balance = @ + less]
  OBVIOUS
<1>4. PICK h : h = transfer_to_fund(u, from, amount)
  OBVIOUS
<1>5. num \in DOMAIN t.loans /\ t.loans[num].balance >= amount /\ UNCHANGED delband
  BY <1>1, TablesFields DEF defund_rex_loan
<1>6. t.loans[num].balance \in Nat /\ t.loans[num].balance + less = t.loans[num].balance - amount
      /\ t.loans[num].balance + less >= 0
  <2>1. t.loans[num].balance \in Nat
    BY <1>1, <1>5, LoanOf
  <2> QED
    BY <1>2, <1>5, <2>1
<1>7. Commit(h)
  <2>1. u = [t EXCEPT !.loans[num].balance = t.loans[num].balance + less]
    BY <1>3
  <2>2. u = [t EXCEPT !.loans[num].balance = t.loans[num].balance - amount]
    BY <1>6, <2>1
  <2>3. u = [t EXCEPT !.loans[num].balance = @ - amount]
    BY <2>2
  <2> QED
    BY <1>1, <1>4, <2>3 DEF defund_rex_loan
<1>8. PICK gap \in Int : gap = 0 - less
  BY <1>2
<1>9. 0 \in Int /\ amount \in Int /\ gap - amount = 0
  BY <1>2, <1>8
<1>10. Sound(u, gap, D, c)
  BY <1>1, <1>2, <1>3, <1>5, <1>6, <1>8, <1>9, LoanFundSound
<1>11. Sound(h, 0, D, c)
  <2>1. Sound(h, gap - amount, D, c)
    BY <1>4, <1>9, <1>10, ToFundSound
  <2> QED
    BY <1>9, <2>1
<1> QED
  BY <1>1, <1>5, <1>7, <1>11, DoneHere

\* The number of the last loan is written.
LEMMA SetLoanNum ==
    ASSUME NEW t, IsTables(t), NEW v, NEW h, h = [t EXCEPT !.loan_num = v]
    PROVE  Frame(t, h, {"loan_num"}) /\ h.loan_num = v /\ h.ok = t.ok
BY SMT DEF IsTables, TableFields, Frame

\* A loan that is made, paid for with the gap there is.
LEMMA LentSound ==
    ASSUME NEW t, NEW gap \in Int, NEW D, NEW c, TablesOK(t, gap, D, c),
           rex_available(t.pool), \A o \in DOMAIN t.orders : ~t.orders[o].is_open,
           NEW loan \in Loan, loan.payment > 0, loan.total_staked > 0,
           loan.total_staked = rented_tokens(t.pool, loan.payment),
           loan.expiration <= t.now + loan_term,
           gap = loan.payment + loan.balance,
           NEW num \in Nat, t.loan_num < num,
           NEW h, Frame(t, h, {"pool", "loan_num", "loans"}), h.loan_num = num,
           h.pool = add_loan_to_rex_pool(t.pool, loan.payment, loan.total_staked),
           h.loans = Put(t.loans, num, loan),
           NEW back \in Int, back + loan.total_staked = 0
    PROVE  TablesOK(h, 0, Shift(D, loan.receiver, loan.kind, back), c)
<1>1. /\ loan.payment \in Nat \ {0} /\ loan.balance \in Nat /\ loan.total_staked \in Nat
      /\ loan.receiver \in Owners /\ loan.kind \in Kinds
  BY DEF Loan
<1>2. /\ LoansOK(t.loans, t.loan_num, t.now, t.pool.total_lent) /\ LimitsOK(t.limits, t.loans, D)
      /\ PoolOK(t.pool) /\ PoolSince(t.pool, c)
  BY DEF TablesOK, PoolSince
<1>3. PICK stake, lent, q : /\ stake = loan.total_staked /\ lent = t.pool.total_lent /\ q = h.pool
  OBVIOUS
<1>4. /\ PoolStep(t.pool, q) /\ q.total_rex = t.pool.total_rex
      /\ q.total_lendable = t.pool.total_lendable + loan.payment
      /\ q.total_lent = lent + stake
  BY <1>1, <1>2, <1>3, PoolLend
<1>5. PoolSince(q, c)
  BY <1>2, <1>4, PoolChain
<1>6. LoanRow(loan, t.now)
  BY DEF LoanRow
<1>7. /\ LoansOK(h.loans, num, t.now, lent + stake)
      /\ LimitsOK(t.limits, h.loans, Shift(D, loan.receiver, loan.kind, back))
      /\ SumOf(BalancesOf(h.loans)) = SumOf(BalancesOf(t.loans)) + loan.balance
  BY <1>2, <1>3, <1>6, LoanNew
<1>8. MoneyOK(t.ledger, q.total_lendable, t.funds, h.loans, t.orders, 0)
  <2>1. MoneyOK(t.ledger, t.pool.total_lendable, t.funds, t.loans, t.orders, gap)
    BY DEF TablesOK
  <2>2. /\ t.pool.total_lendable \in Nat /\ SumOf(t.funds) \in Int
        /\ SumOf(BalancesOf(t.loans)) \in Int /\ SumOf(ProceedsOf(t.orders)) \in Int
    BY MoneyParts
  <2>3. SumOf(BalancesOf(h.loans)) = SumOf(BalancesOf(t.loans)) + loan.balance
    BY <1>7
  <2>4. PICK x, y, f, p : /\ x = SumOf(BalancesOf(t.loans)) /\ y = SumOf(BalancesOf(h.loans))
                          /\ f = SumOf(t.funds) /\ p = SumOf(ProceedsOf(t.orders))
    OBVIOUS
  <2>5. /\ IsTable(t.ledger) /\ IsTable(t.funds)
        /\ Unowed(t.ledger, Accounts) /\ Unowed(t.funds, Owners)
        /\ BalanceOf(t.ledger, rex_account) = t.pool.total_lendable + f + x + p + gap
    BY <2>1, <2>4 DEF MoneyOK
  <2>6. BalanceOf(t.ledger, rex_account) = q.total_lendable + f + y + p + 0
    BY <1>1, <1>4, <2>2, <2>3, <2>4, <2>5
  <2> QED
    BY <2>4, <2>5, <2>6 DEF MoneyOK
<1>9. NamesOK(t.ledger, t.namebid_proceeds, q, c)
  BY <1>4 DEF TablesOK, NamesOK, rex_available
<1>10. BalOK(t.bal, q.total_rex)
  BY <1>4 DEF TablesOK
<1>11. QueueOK(t.orders, h.loans)
  BY DEF QueueOK
<1>12. /\ LoansOK(h.loans, num, t.now, q.total_lent)
       /\ LimitsOK(t.limits, h.loans, Shift(D, loan.receiver, loan.kind, back))
  BY <1>3, <1>4, <1>7
<1>13. /\ h.now = t.now /\ h.bal = t.bal /\ h.orders = t.orders /\ h.ledger = t.ledger
       /\ h.funds = t.funds /\ h.namebid_proceeds = t.namebid_proceeds /\ h.limits = t.limits
  BY DEF Frame, TableFields
<1>14. t.now = c.now /\ c.names \in Int /\ OrdersOK(t.orders, t.bal)
  BY DEF TablesOK
<1>15. h.staked \in [Owners -> Int]
  BY DEF Frame, TableFields, TablesOK
<1> QED
  BY <1>3, <1>5, <1>8, <1>9, <1>10, <1>11, <1>12, <1>13, <1>14, <1>15, Zenon DEF TablesOK

\* rentcpu and rentnet keep the invariant.
LEMMA rent_rexStep ==
    ASSUME IInv, NEW kind \in Kinds, NEW from \in Owners, NEW receiver \in Owners,
           NEW payment \in Nat, NEW fund \in Nat, rent_rex(kind, from, receiver, payment, fund)
    PROVE  IInv' /\ StepOK
<1>1. PICK t, D, c : /\ t = Tables /\ D = Del /\ Sound(t, 0, D, c) /\ Basis(c) /\ t.ok
                     /\ TablesOK(t, 0, D, c)
  BY Start
<1>2. PICK r, cost : r = runrex(t, 2) /\ cost = payment + fund
  OBVIOUS
<1>3. PICK paid : paid = transfer_from_fund(r, from, cost)
  OBVIOUS
<1>4. PICK rented : rented = rented_tokens(r.pool, payment)
  OBVIOUS
<1>5. PICK loan : loan = [kind |-> kind, from |-> from, receiver |-> receiver, payment |-> payment,
                          balance |-> fund, total_staked |-> rented, expiration |-> now + loan_term]
  OBVIOUS
<1>6. PICK q, num : q = add_loan_to_rex_pool(paid.pool, payment, rented) /\ num = r.loan_num + 1
  OBVIOUS
<1>7. PICK loans : loans = Put(paid.loans, num, loan)
  OBVIOUS
<1>8. PICK u : u = [paid EXCEPT !.pool = q]
  OBVIOUS
<1>9. PICK v : v = [u EXCEPT !.loan_num = num]
  OBVIOUS
<1>10. PICK w : w = [v EXCEPT !.loans = loans]
  OBVIOUS
<1>11. PICK h : h = update_resource_limits(w, receiver, kind, rented)
  OBVIOUS
<1>12. 0 \in Int /\ 2 \in Nat /\ cost \in Int /\ 0 + cost = cost
  BY <1>2
<1>13. Sound(r, 0, D, c) /\ Frame(t, r, RunFields)
  BY <1>1, <1>2, <1>12, RunSound
<1>14. Sound(paid, cost, D, c) /\ Frame(r, paid, {"funds"})
  <2>1. Sound(paid, 0 + cost, D, c) /\ Frame(r, paid, {"funds"})
    BY <1>3, <1>12, <1>13, FromFundSound
  <2> QED
    BY <1>12, <2>1
<1>15. /\ paid.pool = r.pool /\ paid.loan_num = r.loan_num /\ paid.loans = r.loans
       /\ paid.orders = r.orders /\ IsTables(paid)
  BY <1>14 DEF Frame, TableFields
<1>16. Frame(paid, u, {"pool"}) /\ u.pool = q
  BY <1>8, <1>15, SetPool
<1>17. Frame(u, v, {"loan_num"}) /\ v.loan_num = num
  <2>1. IsTables(u)
    BY <1>16 DEF Frame
  <2> QED
    BY <1>9, <2>1, SetLoanNum
<1>18. Frame(v, w, {"loans"}) /\ w.loans = loans
  <2>1. IsTables(v)
    BY <1>17 DEF Frame
  <2> QED
    BY <1>10, <2>1, SetLoans
<1>19. Frame(paid, w, {"pool", "loan_num", "loans"}) /\ w.pool = q /\ w.loan_num = num
  BY <1>16, <1>17, <1>18 DEF Frame, TableFields
<1>20. IsTables(w)
  BY <1>19 DEF Frame
<1>21. /\ Commit(h) /\ UNCHANGED delband /\ payment > 0
       /\ rex_loans_available(r) /\ payment < rented
  <2>1. w = [paid EXCEPT !.pool = q, !.loan_num = num, !.loans = loans]
    BY <1>8, <1>9, <1>10
  <2>2. [paid EXCEPT !.pool = add_loan_to_rex_pool(@, payment, rented), !.loan_num = @ + 1,
                     !.loans = Put(@, r.loan_num + 1, loan)]
          = [paid EXCEPT !.pool = q, !.loan_num = num, !.loans = loans]
    BY <1>6, <1>7, <1>15
  <2> QED
    BY <1>1, <1>2, <1>3, <1>4, <1>5, <1>11, <2>1, <2>2, Zenon DEF rent_rex
<1>22. Frame(w, h, {"limits"})
  BY <1>11, <1>20, LimitsFrame
<1>23. TablesOK(paid, cost, D, c)
  BY <1>14, <1>19, <1>21, <1>22 DEF Commit, Frame, Sound
<1>24. rex_available(paid.pool) /\ \A o \in DOMAIN paid.orders : ~paid.orders[o].is_open
  BY <1>15, <1>21 DEF rex_loans_available, IsOpen
<1>25. paid.now = now /\ now \in Nat
  <2>1. paid.now = t.now
    BY <1>13, <1>14 DEF Frame, TableFields, RunFields, LoanFields, OrderFields
  <2>2. t.now = now
    BY <1>1, TablesFields
  <2> QED
    BY <1>23, <2>1, <2>2, MoneyParts
<1>26. rented \in Nat /\ rented > 0 /\ payment \in Nat \ {0}
  <2>1. PoolOK(r.pool) /\ rex_available(r.pool)
    BY <1>15, <1>23, <1>24 DEF TablesOK, PoolSince
  <2>2. payment \in Nat \ {0}
    BY <1>21
  <2>3. rented \in Nat
    BY <1>4, <1>6, <1>15, <2>1, <2>2, PoolLend
  <2> QED
    BY <1>21, <2>2, <2>3
<1>27. /\ loan \in Loan /\ loan.payment = payment /\ loan.total_staked = rented
       /\ loan.receiver = receiver /\ loan.kind = kind /\ loan.balance = fund
       /\ loan.expiration = now + loan_term
  BY <1>5, <1>25, <1>26, RexTablesAssumption DEF Loan
<1>28. num \in Nat /\ paid.loan_num < num
  <2>1. paid.loan_num \in Nat
    BY <1>23 DEF TablesOK, LoansOK
  <2> QED
    BY <1>6, <1>15, <2>1
<1>29. PICK back : back \in Int /\ back + rented = 0
  <2>1. 0 - rented \in Int /\ (0 - rented) + rented = 0
    BY <1>26
  <2> QED
    BY <2>1
<1>30. PICK E : Shifted(D, receiver, kind, back, E)
  BY DEF Shifted
<1>31. TablesOK(w, 0, E, c)
  <2>1. loan.payment > 0 /\ loan.total_staked > 0 /\ cost = loan.payment + loan.balance
    BY <1>2, <1>21, <1>26, <1>27
  <2>2. loan.total_staked = rented_tokens(paid.pool, loan.payment)
    BY <1>4, <1>15, <1>27
  <2>3. loan.expiration <= paid.now + loan_term
    BY <1>25, <1>27, RexTablesAssumption
  <2>4. w.pool = add_loan_to_rex_pool(paid.pool, loan.payment, loan.total_staked)
    BY <1>6, <1>19, <1>27
  <2>5. w.loans = Put(paid.loans, num, loan)
    BY <1>7, <1>18
  <2>6. back \in Int /\ back + loan.total_staked = 0
    BY <1>27, <1>29
  <2>7. TablesOK(w, 0, Shift(D, loan.receiver, loan.kind, back), c)
    BY <1>12, <1>19, <1>23, <1>24, <1>27, <1>28, <2>1, <2>2, <2>3, <2>4, <2>5, <2>6, LentSound
  <2> QED
    BY <1>27, <1>30, <2>7 DEF Shifted
<1>32. Sound(w, 0, E, c)
  BY <1>20, <1>31 DEF Sound
<1>33. Sound(h, 0, Shift(E, receiver, kind, rented), c)
  BY <1>11, <1>26, <1>32, LimitsSound
<1>34. Shift(E, receiver, kind, rented) = D
  <2>1. IsDelegated(D)
    BY <1>23, MoneyParts
  <2>2. Shift(Shift(D, receiver, kind, back), receiver, kind, rented) = D
    BY <1>26, <1>29, <2>1, ShiftBack
  <2> QED
    BY <1>30, <2>2 DEF Shifted
<1>35. Sound(h, 0, D, c)
  BY <1>33, <1>34
<1> QED
  BY <1>1, <1>21, <1>35, DoneHere
\* What collecting leaves alone, sound or not.
LEMMA AccountFrame ==
    ASSUME NEW t, IsTables(t), NEW owner, NEW v, NEW x
    PROVE  Frame(t, update_rex_account(t, owner, v, x), {"orders", "funds", "staked"})
<1> DEFINE filled == IsFilled(t, owner)
           to_fund == v + IF filled THEN t.orders[owner].proceeds ELSE 0
           to_stake == x + IF filled THEN t.orders[owner].stake_change ELSE 0
           erased == IF filled THEN [t EXCEPT !.orders = Erase(@, owner)] ELSE t
           funded == IF to_fund > 0 THEN transfer_to_fund(erased, owner, to_fund) ELSE erased
           h == update_rex_account(t, owner, v, x)
<1>1. h = IF to_stake # 0 THEN update_voting_power(funded, owner, to_stake) ELSE funded
  BY DEF update_rex_account
<1>2. Frame(t, erased, {"orders"})
  <2>1. PICK o : o = Erase(t.orders, owner)
    OBVIOUS
  <2>2. Frame(t, [t EXCEPT !.orders = o], {"orders"})
    BY SMT DEF IsTables, TableFields, Frame
  <2>3. Frame(t, t, {"orders"})
    BY DEF Frame
  <2> QED
    BY <2>1, <2>2, <2>3
<1> HIDE DEF erased
<1>3. Frame(erased, funded, {"funds"})
  <2>1. IsTables(erased)
    BY <1>2 DEF Frame
  <2>2. CASE to_fund > 0
    BY <2>1, <2>2, ToFundFrame
  <2>3. CASE ~(to_fund > 0)
    BY <2>1, <2>3 DEF Frame
  <2> QED
    BY <2>2, <2>3
<1> HIDE DEF funded
<1>4. Frame(funded, h, {"staked"})
  <2>1. IsTables(funded)
    BY <1>3 DEF Frame
  <2>2. CASE to_stake # 0
    BY <1>1, <2>1, <2>2, VotingPowerFrame
  <2>3. CASE to_stake = 0
    BY <1>1, <2>1, <2>3 DEF Frame
  <2> QED
    BY <2>2, <2>3
<1> HIDE DEF h
<1> QED
  BY <1>2, <1>3, <1>4 DEF h, Frame, TableFields

-----------------------------------------------------------------------------
(* Selling REX                                                             *)

\* What is left matured covers the open order, by the last check of SellNow.
LEMMA SellNowSound ==
    ASSUME NEW t, NEW D, NEW c, Sound(t, 0, D, c), TablesOK(t, 0, D, c), t.namebid_proceeds = 0,
           NEW from \in DOMAIN t.bal, NEW rex \in Nat \ {0}, rex <= t.bal[from].matured,
           SellNow(t, from, rex)
    PROVE  \E h : Commit(h) /\ Sound(h, 0, D, c)
<1>1. PICK filled, p : filled = FillOrder(t, from, rex) /\ p = proceeds(t.pool, rex)
  OBVIOUS
<1>2. PICK x : x = StakeDelta(t, filled, from)
  OBVIOUS
<1>3. PICK h : h = update_rex_account(filled, from, p, x)
  OBVIOUS
<1>4. /\ CanFill(t.pool, rex) /\ Commit(h)
      /\ rex_in_sell_order(t, from) <= h.bal[from].matured
  BY <1>1, <1>2, <1>3, Zenon DEF SellNow
<1>5. IsTables(t)
  BY DEF Sound
<1>6. from \in DOMAIN t.bal /\ t.bal = [o \in DOMAIN t.bal |-> t.bal[o]]
  BY OwnRow
<1>7. PICK r : r = SoldRow(t, from, rex)
  OBVIOUS
<1>8. /\ Frame(t, filled, {"pool", "bal"}) /\ filled.pool = fill_rex_order(t.pool, rex)
      /\ filled.bal = Put(t.bal, from, r)
  BY <1>1, <1>5, <1>6, <1>7, FillFrame
<1>9. Frame(filled, h, {"orders", "funds", "staked"})
  BY <1>3, <1>8, AccountFrame DEF Frame
<1>10. h.bal[from] = r
  BY <1>8, <1>9 DEF Frame, TableFields, Put
<1>11. Covered(t.orders, from, r)
  BY <1>4, <1>10, OrderedREX
<1>12. OrdersOK(t.orders, t.bal) /\ QueueOK(t.orders, t.loans)
  BY DEF TablesOK
<1>13. filled.orders = t.orders
  BY <1>8 DEF Frame, TableFields
<1>14. Frame(t, filled, {"pool", "bal", "orders"})
  BY <1>8 DEF Frame
<1>15. SumOf(ProceedsOf(t.orders)) = SumOf(ProceedsOf(t.orders)) + 0
  BY <1>12, OrderColumns
<1>16. PICK g, q : g = 0 /\ q = 0
  OBVIOUS
<1>17. p \in Nat /\ TablesOK(filled, g + p - q, D, c)
  <2>1. TablesOK(t, g, D, c) /\ g \in Int /\ q \in Int
    BY <1>16
  <2>2. /\ OrdersOK(filled.orders, t.bal) /\ Covered(filled.orders, from, r)
        /\ QueueOK(filled.orders, t.loans)
        /\ SumOf(ProceedsOf(filled.orders)) = SumOf(ProceedsOf(t.orders)) + q
    BY <1>11, <1>12, <1>13, <1>15, <1>16
  <2> QED
    BY <1>1, <1>4, <1>7, <1>8, <1>14, <2>1, <2>2, FillSound
<1>18. Sound(filled, p, D, c)
  <2>1. g + p - q = p
    BY <1>16, <1>17
  <2> QED
    BY <1>8, <1>17, <2>1 DEF Sound, Frame
<1>19. Sound(h, p - p, D, c)
  <2>1. p \in Int /\ p \in Nat
    BY <1>17
  <2> QED
    <3>1. from \in DOMAIN filled.bal /\ from \in Owners
      BY <1>8 DEF Put, TablesOK, BalOK
    <3>2. x \in Int
      BY <1>2, <1>17, <3>1, DeltaInt
    <3> QED
      BY <1>3, <1>18, <2>1, <3>1, <3>2, AccountSound
<1>20. p - p = 0
  BY <1>17
<1> QED
  BY <1>4, <1>19, <1>20

\* The order that is queued: what is asked for is added to an open one.
Asked(order, rex) == [order EXCEPT !.rex_requested = @ + rex]
Fresh(rex, time) ==
    [rex_requested |-> rex, is_open |-> TRUE, proceeds |-> 0, stake_change |-> 0, order_time |-> time]

\* The row of an order that more REX is added to.
LEMMA AskedRow ==
    ASSUME NEW order \in Order, NEW rex \in Nat
    PROVE  LET r == Asked(order, rex)
           IN  /\ r \in Order /\ r.rex_requested = order.rex_requested + rex
               /\ r.is_open = order.is_open /\ r.order_time = order.order_time
BY DEF Asked, Order

\* The row of a new order.
LEMMA FreshRow ==
    ASSUME NEW rex \in Nat, NEW time \in Nat
    PROVE  LET r == Fresh(rex, time)
           IN  r \in Order /\ r.rex_requested = rex /\ r.is_open /\ r.order_time = time
BY DEF Fresh, Order

\* An open order that no loan outlives for longer than the term.
LEMMA QueuePut ==
    ASSUME NEW orders, NEW loans, QueueOK(orders, loans), NEW o, NEW row,
           \A n \in DOMAIN loans : row.is_open => loans[n].expiration <= row.order_time + loan_term
    PROVE  QueueOK(Put(orders, o, row), loans)
BY DEF QueueOK, Put

\* An open order in the queue, covered and in time, keeps the tables sound.
LEMMA QueuedSound ==
    ASSUME NEW t, NEW D, NEW c, TablesOK(t, 0, D, c), NEW o \in Owners, NEW row \in Order,
           row.is_open, o \in DOMAIN t.bal, 0 < row.rex_requested,
           row.rex_requested <= t.bal[o].matured,
           o \in DOMAIN t.orders => t.orders[o].is_open,
           \A n \in DOMAIN t.loans : t.loans[n].expiration <= row.order_time + loan_term,
           NEW h, Frame(t, h, {"orders"}), h.orders = Put(t.orders, o, row)
    PROVE  Sound(h, 0, D, c)
<1>1. OrdersOK(t.orders, t.bal) /\ QueueOK(t.orders, t.loans)
  BY DEF TablesOK
<1>2. OrdersOK(h.orders, t.bal)
  BY <1>1, OrderPut
<1>3. SumOf(ProceedsOf(h.orders)) = SumOf(ProceedsOf(t.orders))
  <2>1. /\ BalanceOf(ProceedsOf(t.orders), o) = 0
        /\ SumOf(ProceedsOf(t.orders)) \in Int
    BY <1>1, OrderColumns
  <2>2. SumOf(ProceedsOf(h.orders)) =
          SumOf(ProceedsOf(t.orders)) - BalanceOf(ProceedsOf(t.orders), o) + 0
    BY <1>1, OrderPut
  <2> QED
    BY <2>1, <2>2
<1>4. QueueOK(h.orders, t.loans)
  BY <1>1, QueuePut
<1>5. MoneyOK(t.ledger, t.pool.total_lendable, t.funds, t.loans, h.orders, 0)
  BY <1>3 DEF TablesOK, MoneyOK
<1>6. TablesOK(h, 0, D, c)
  BY <1>2, <1>4, <1>5 DEF Frame, TableFields, TablesOK
<1> QED
  BY <1>6 DEF Frame, Sound

\* An order that is still there once proceeds are collected is open.
LEMMA SellLaterSound ==
    ASSUME NEW t, NEW D, NEW c, Sound(t, 0, D, c), TablesOK(t, 0, D, c),
           NEW from \in DOMAIN t.bal, NEW rex \in Nat \ {0},
           SellLater(t, from, rex)
    PROVE  \E h : Commit(h) /\ Sound(h, 0, D, c)
<1>1. PICK d : d = update_rex_account(t, from, 0, 0)
  OBVIOUS
<1>2. PICK row : row = IF from \in DOMAIN d.orders THEN Asked(d.orders[from], rex)
                       ELSE Fresh(rex, t.now)
  OBVIOUS
<1>3. PICK orders : orders = Put(d.orders, from, row)
  OBVIOUS
<1>4. PICK h : h = [d EXCEPT !.orders = orders]
  OBVIOUS
<1>5. Commit(h) /\ row.rex_requested <= t.bal[from].matured
  <2>1. [d EXCEPT !.orders = Put(@, from, row)] = h
    BY <1>3, <1>4
  <2> QED
    BY <1>1, <1>2, <2>1, Zenon DEF SellLater, Asked, Fresh
<1>6. /\ Sound(d, 0, D, c) /\ Frame(t, d, {"orders", "funds", "staked"})
      /\ d.orders = IF IsFilled(t, from) THEN Erase(t.orders, from) ELSE t.orders
  <2>1. from \in Owners
    BY DEF TablesOK, BalOK
  <2> QED
    BY <1>1, <2>1, Collected
<1>7. Frame(d, h, {"orders"}) /\ h.orders = orders /\ h.ok = d.ok
  BY <1>4, <1>6, SetOrders DEF Sound
<1>8. TablesOK(d, 0, D, c)
  BY <1>5, <1>6, <1>7 DEF Commit, Sound
<1>9. /\ from \in DOMAIN d.bal /\ d.bal = t.bal /\ d.now = t.now
      /\ from \in Owners /\ d.now \in Nat
      /\ \A n \in DOMAIN d.loans : d.loans[n] \in Loan /\ d.loans[n].expiration <= d.now + loan_term
  BY <1>6, <1>8 DEF Frame, TableFields, TablesOK, BalOK, LoansOK
<1>10. from \in DOMAIN d.orders =>
         /\ d.orders[from] \in Order /\ d.orders[from].is_open
         /\ 0 < d.orders[from].rex_requested
         /\ \A n \in DOMAIN d.loans :
              d.loans[n].expiration <= d.orders[from].order_time + loan_term
  <2>1. from \in DOMAIN d.orders => d.orders[from].is_open
    BY <1>6 DEF IsFilled, Erase
  <2> QED
    BY <1>8, <2>1 DEF TablesOK, OrdersOK, QueueOK
<1>11. /\ row \in Order /\ row.is_open /\ 0 < row.rex_requested
       /\ \A n \in DOMAIN d.loans : d.loans[n].expiration <= row.order_time + loan_term
  <2>1. CASE from \in DOMAIN d.orders
    <3>1. PICK a : a = d.orders[from]
      OBVIOUS
    <3>2. row = Asked(a, rex) /\ a \in Order /\ a.rex_requested \in Nat /\ rex \in Nat
      BY <1>2, <1>10, <2>1, <3>1 DEF Order
    <3>3. /\ row \in Order /\ row.rex_requested = a.rex_requested + rex
          /\ row.is_open = a.is_open /\ row.order_time = a.order_time
      BY <3>2, AskedRow
    <3>4. 0 < row.rex_requested
      BY <3>2, <3>3
    <3> QED
      BY <1>10, <2>1, <3>1, <3>3, <3>4
  <2>2. CASE from \notin DOMAIN d.orders
    <3>1. row = Fresh(rex, d.now) /\ rex \in Nat
      BY <1>2, <1>9, <2>2
    <3>2. row \in Order /\ row.rex_requested = rex /\ row.is_open /\ row.order_time = d.now
      BY <1>9, <3>1, FreshRow
    <3> QED
      BY <1>9, <3>2
  <2> QED
    BY <2>1, <2>2
<1>12. Sound(h, 0, D, c)
  <2>1. row.rex_requested <= d.bal[from].matured
    BY <1>5, <1>9
  <2>2. h.orders = Put(d.orders, from, row)
    BY <1>3, <1>7
  <2>3. from \in DOMAIN d.orders => d.orders[from].is_open
    BY <1>10
  <2> QED
    BY <1>7, <1>8, <1>9, <1>11, <2>1, <2>2, <2>3, QueuedSound
<1> QED
  BY <1>5, <1>12

\* sellrex keeps the invariant, whether it fills the order or queues it.
LEMMA sellrexStep ==
    ASSUME IInv, NEW from \in Owners, NEW rex \in Nat, sellrex(from, rex)
    PROVE  IInv' /\ StepOK
<1>1. PICK u, D, c : /\ u = Tables /\ D = Del /\ Sound(u, 0, D, c) /\ Basis(c) /\ u.ok
  BY Start
<1>2. PICK r : r = runrex(u, 2)
  OBVIOUS
<1>3. PICK t : t = Matured(r, from)
  OBVIOUS
<1>4. /\ rex > 0 /\ from \in DOMAIN u.bal /\ t.ok /\ rex <= t.bal[from].matured
      /\ SellNow(t, from, rex) \/ SellLater(t, from, rex)
      /\ UNCHANGED delband
  BY <1>1, <1>2, <1>3, TablesFields, Zenon DEF sellrex
<1>5. /\ Sound(r, 0, D, c) /\ r.namebid_proceeds = 0
      /\ r.ok => from \in DOMAIN r.bal
  <2>1. 0 \in Int /\ 2 \in Nat
    OBVIOUS
  <2> QED
    BY <1>1, <1>2, <1>4, <2>1, RunSound
<1>6. /\ Sound(t, 0, D, c) /\ Frame(r, t, {"bal"}) /\ t.ok = r.ok
      /\ r.ok => DOMAIN t.bal = DOMAIN r.bal
  BY <1>3, <1>5, MaturedSound
<1>7. TablesOK(t, 0, D, c) /\ from \in DOMAIN t.bal /\ t.namebid_proceeds = 0
  BY <1>4, <1>5, <1>6 DEF Frame, TableFields, Sound
<1>8. rex \in Nat \ {0}
  BY <1>4
<1>9. PICK h : Commit(h) /\ Sound(h, 0, D, c)
  <2>1. CASE SellNow(t, from, rex)
    BY <1>4, <1>6, <1>7, <1>8, <2>1, SellNowSound
  <2>2. CASE SellLater(t, from, rex)
    BY <1>6, <1>7, <1>8, <2>2, SellLaterSound
  <2> QED
    BY <1>4, <2>1, <2>2
<1> QED
  BY <1>1, <1>4, <1>9, DoneHere

-----------------------------------------------------------------------------
(* Where it starts                                                         *)

\* The sum of a table with one row that is not zero.
LEMMA SumOnly ==
    ASSUME NEW S, IsFiniteSet(S), NEW a \in S, NEW v \in Int,
           NEW f, f = [x \in S |-> IF a = x THEN v ELSE 0]
    PROVE  SumOf(f) = v
<1>1. SumOver(f, S) = f[a] + SumOver(f, S \ {a})
  BY SumRemove
<1>2. IsFiniteSet(S \ {a}) /\ IsEven(f, 0, S \ {a})
  BY FS_RemoveElement DEF IsEven
<1>3. SumOver(f, S \ {a}) = 0
  <2>1. SumOver(f, S \ {a}) = 0 * Cardinality(S \ {a})
    BY <1>2, SumConstant
  <2>2. Cardinality(S \ {a}) \in Nat
    BY <1>2, FS_CardinalityType
  <2> QED
    BY <2>1, <2>2
<1>4. f[a] = v /\ DOMAIN f = S
  OBVIOUS
<1> QED
  BY <1>1, <1>3, <1>4 DEF SumOf

\* The empty table.
LEMMA NoRows ==
    /\ <<>> = [x \in {} |-> 0] /\ DOMAIN <<>> = {}
    /\ IsTable(<<>>) /\ SumOf(<<>>) = 0
<1>1. <<>> = [x \in {} |-> 0] /\ DOMAIN <<>> = {}
  OBVIOUS
<1> QED
  BY <1>1, EmptyTable

\* The columns of empty tables sum to nothing.
LEMMA NoColumns ==
    /\ SumOf(RexOf(<<>>)) = 0 /\ SumOf(StakedOf(<<>>)) = 0 /\ SumOf(BalancesOf(<<>>)) = 0
    /\ SumOf(ProceedsOf(<<>>)) = 0
    /\ \A r, k : SumOf(StakedTo(<<>>, r, k)) = 0
<1>1. DOMAIN <<>> = {} /\ \A f : f = [x \in {} |-> 0] => SumOf(f) = 0
  BY NoRows, EmptyTable
<1>2. /\ RexOf(<<>>) = [x \in {} |-> 0] /\ StakedOf(<<>>) = [x \in {} |-> 0]
      /\ BalancesOf(<<>>) = [x \in {} |-> 0] /\ ProceedsOf(<<>>) = [x \in {} |-> 0]
  BY <1>1 DEF RexOf, StakedOf, BalancesOf, ProceedsOf
<1>3. \A r, k : StakedTo(<<>>, r, k) = [x \in {} |-> 0]
  BY <1>1 DEF StakedTo
<1> QED
  BY <1>1, <1>2, <1>3

\* Nothing is lent or sold yet, and each owner has staked for itself.
LEMMA InitDelegated ==
    ASSUME Init
    PROVE  DelOK /\ \A r \in Owners, k \in Kinds : Del[r][k] = InitialStake[r]
<1>1. delband = [o \in Owners |-> [r \in Owners |->
                    [k \in Kinds |-> IF o = r THEN InitialStake[o] ELSE 0]]]
  BY DEF Init
<1>2. InitialStake \in [Owners -> Nat] /\ IsFiniteSet(Owners)
  BY RexAssumption, RexTablesAssumption
<1>3. DelOK
  BY <1>1, <1>2 DEF DelOK
<1>4. ASSUME NEW r \in Owners, NEW k \in Kinds PROVE Del[r][k] = InitialStake[r]
  <2>1. PICK f : f = [o \in Owners |-> IF r = o THEN InitialStake[r] ELSE 0]
    OBVIOUS
  <2>2. [o \in Owners |-> delband[o][r][k]] = f
    BY <1>1, <2>1
  <2>3. InitialStake[r] \in Int
    BY <1>2
  <2>4. SumOf(f) = InitialStake[r]
    BY <1>2, <2>1, <2>3, SumOnly
  <2> QED
    BY <2>2, <2>4 DEF Del, Delegated
<1> QED
  BY <1>3, <1>4

\* At first neither eosio.rex nor eosio.names has a balance.
LEMMA InitLedger ==
    ASSUME Init
    PROVE  /\ IsTable(ledger) /\ Unowed(ledger, Accounts)
           /\ BalanceOf(ledger, rex_account) = 0 /\ BalanceOf(ledger, names_account) = 0
<1>1. PICK S : S = Owners \cup {Others, stake_account}
  OBVIOUS
<1>2. /\ DOMAIN ledger = S
      /\ \A a \in S : ledger[a] = CASE a \in Owners -> InitialBalance[a]
                                    [] a = stake_account -> 2 * Held(InitialStake)
                                    [] OTHER -> MaxIncome
      /\ ledger = [a \in DOMAIN ledger |-> ledger[a]]
  BY <1>1 DEF Init
<1>3. IsFiniteSet(S)
  <2>1. IsFiniteSet(Owners \cup {Others}) /\ S = (Owners \cup {Others}) \cup {stake_account}
    BY <1>1, RexTablesAssumption, FS_AddElement
  <2> QED
    BY <2>1, FS_AddElement
<1>4. Held(InitialStake) \in Nat
  <2>1. IsTable(InitialStake)
    BY RexAssumption, RexTablesAssumption DEF IsTable
  <2>2. \A o \in DOMAIN InitialStake : InitialStake[o] \in Nat
    BY RexAssumption
  <2>3. SumOver(InitialStake, DOMAIN InitialStake) \in Nat
    BY <2>1, <2>2, SumNat DEF IsTable
  <2> QED
    BY <2>3 DEF Held, SumOf
<1>5. \A a \in Owners : InitialBalance[a] \in Nat
  BY RexAssumption
<1>6. MaxIncome \in Nat /\ 2 * Held(InitialStake) \in Nat
  BY <1>4, RexAssumption
<1>7. ASSUME NEW a \in S
      PROVE  ledger[a] \in Nat
  <2>1. CASE a \in Owners
    <3>1. a # stake_account
      BY <2>1, RexAssumption
    <3>2. ledger[a] = InitialBalance[a]
      BY <1>2, <2>1, <3>1, Zenon
    <3> QED
      BY <1>5, <2>1, <3>2
  <2>2. CASE a \notin Owners /\ a = stake_account
    <3>1. ledger[a] = 2 * Held(InitialStake)
      BY <1>2, <2>2, Zenon
    <3> QED
      BY <1>6, <3>1
  <2>3. CASE a \notin Owners /\ a # stake_account
    <3>1. ledger[a] = MaxIncome
      BY <1>2, <2>3, Zenon
    <3> QED
      BY <1>6, <3>1
  <2> QED
    BY <2>1, <2>2, <2>3
<1>8. rex_account \notin S /\ names_account \notin S
  BY <1>1, RexAssumption, RexTablesAssumption
<1> QED
  BY <1>1, <1>2, <1>3, <1>7, <1>8 DEF IsTable, BalanceOf, Unowed, NoDebts, Accounts

\* The invariant holds at first.
LEMMA InitSound == Init => IInv
<1> SUFFICES ASSUME Init PROVE IInv
  OBVIOUS
<1>1. PICK t, D, c : t = Tables /\ D = Del /\ c = Here
  OBVIOUS
<1>2. /\ t.now = 0 /\ t.ledger = ledger /\ t.pool = NoRex /\ t.namebid_proceeds = 0
      /\ t.loan_num = 0 /\ t.funds = <<>> /\ t.bal = <<>> /\ t.orders = <<>> /\ t.loans = <<>>
      /\ t.limits = [o \in Owners |-> [k \in Kinds |-> InitialStake[o]]]
      /\ c.now = 0 /\ c.pool = NoRex /\ c.bal = t.bal
  BY <1>1, TablesFields, HereFields DEF Init
<1>3. c.names = 0
  BY <1>1, <1>2, TablesFields, HereFields, InitLedger DEF Balance
<1>4. PoolSince(t.pool, c)
  <2>1. PoolOK(NoRex)
    BY SMT DEF PoolOK, Pool, NoRex
  <2> QED
    BY <1>2, <2>1, PoolStart
<1>5. /\ t.pool.total_rex = 0 /\ t.pool.total_lent = 0 /\ t.pool.total_lendable = 0
  BY <1>2 DEF NoRex
<1>6. DOMAIN <<>> = {} /\ <<>> = [x \in DOMAIN <<>> |-> <<>>[x]]
  BY NoRows
<1>7. BalOK(t.bal, t.pool.total_rex) /\ OrdersOK(t.orders, t.bal) /\ QueueOK(t.orders, t.loans)
  <2>1. BalOK(t.bal, t.pool.total_rex)
    BY <1>2, <1>5, <1>6, NoColumns DEF BalOK
  <2> QED
    BY <1>2, <1>6, <2>1 DEF OrdersOK, QueueOK
<1>8. LoansOK(t.loans, t.loan_num, t.now, t.pool.total_lent)
  BY <1>2, <1>5, <1>6, NoColumns DEF LoansOK
<1>9. MoneyOK(t.ledger, t.pool.total_lendable, t.funds, t.loans, t.orders, 0)
  BY <1>2, <1>5, <1>6, NoRows, NoColumns, InitLedger DEF MoneyOK, Unowed, NoDebts
<1>10. NamesOK(t.ledger, t.namebid_proceeds, t.pool, c)
  BY <1>2, <1>3, InitLedger DEF NamesOK
<1>11. LimitsOK(t.limits, t.loans, D)
  <2>1. \A r \in Owners, k \in Kinds : D[r][k] = InitialStake[r] /\ InitialStake[r] \in Int
    BY <1>1, InitDelegated, RexAssumption
  <2>2. D \in [Owners -> [Kinds -> Int]]
    BY <1>1, <2>1 DEF Del
  <2>3. \A r \in Owners, k \in Kinds : SumOf(StakedTo(t.loans, r, k)) = 0
    BY <1>2, NoColumns
  <2> QED
    BY <1>2, <2>1, <2>2, <2>3 DEF LimitsOK
<1>12. LocksOK(t.bal, t.now, c)
  <2>1. PICK x : x = t.pool.total_rex
    OBVIOUS
  <2>2. BalOK(t.bal, x) /\ DOMAIN t.bal = {} /\ c.bal = t.bal
    BY <1>2, <1>6, <1>7, <2>1
  <2> QED
    BY <2>2, LocksStart
<1>13. t.staked \in [Owners -> Int]
  <2>1. t.staked = [o \in Owners |-> 2 * InitialStake[o]]
    BY <1>1, TablesFields DEF Init
  <2>2. \A o \in Owners : 2 * InitialStake[o] \in Int
    BY RexAssumption
  <2> QED
    BY <2>1, <2>2
<1>14. TablesOK(t, 0, D, c)
  BY <1>2, <1>3, <1>4, <1>7, <1>8, <1>9, <1>10, <1>11, <1>12, <1>13 DEF TablesOK
<1> QED
  BY <1>1, <1>14, InitDelegated DEF IInv

-----------------------------------------------------------------------------
(* Every step, and what follows for every behaviour                        *)

\* Every action of an owner keeps the invariant.
LEMMA OwnerStep ==
    ASSUME IInv, NEW o \in Owners, OwnerAction(o)
    PROVE  IInv' /\ StepOK
<1>1. /\ Deposits \subseteq Nat /\ Withdrawals \subseteq Nat /\ Purchases \subseteq Nat
      /\ Unstakings \subseteq Nat /\ Sales \subseteq Nat /\ Moves \subseteq Nat
      /\ LoanPayments \subseteq Nat /\ LoanFunds \subseteq Nat
  BY RexAssumption
<1>2. CASE \E v \in Deposits : deposit(o, v)
  BY <1>1, <1>2, depositStep
<1>3. CASE \E v \in Withdrawals : withdraw(o, v)
  BY <1>1, <1>3, withdrawStep
<1>4. CASE \E v \in Purchases : buyrex(o, v)
  BY <1>1, <1>4, buyrexStep
<1>5. CASE \E r \in Owners, n \in Unstakings, m \in Unstakings : unstaketorex(o, r, n, m)
  BY <1>1, <1>5, unstaketorexStep
<1>6. CASE \E v \in Sales \cup {Holding(o)} : sellrex(o, v)
  <2>1. Holding(o) \in Nat
    <3>1. PICK t, D, c : t = Tables /\ TablesOK(t, 0, D, c)
      BY Start
    <3>2. CASE o \in DOMAIN rexbal
      <4>1. Holds(rexbal[o], rexbal[o].rex_balance)
        BY <3>1, <3>2, TablesFields, OwnRow
      <4> QED
        BY <3>2, <4>1, RowParts DEF Holding
    <3> QED
      BY <3>2 DEF Holding
  <2> QED
    BY <1>1, <1>6, <2>1, sellrexStep
<1>7. CASE cnclrexorder(o)
  BY <1>7, cnclrexorderStep
<1>8. CASE \E k \in Kinds, r \in Owners, p \in LoanPayments, f \in LoanFunds :
             rent_rex(k, o, r, p, f)
  BY <1>1, <1>8, rent_rexStep
<1>9. CASE \E n \in DOMAIN rexloans, v \in LoanFunds : fund_rex_loan(o, n, v)
  BY <1>1, <1>9, fund_rex_loanStep
<1>10. CASE \E n \in DOMAIN rexloans, v \in LoanFunds : defund_rex_loan(o, n, v)
  BY <1>1, <1>10, defund_rex_loanStep
<1>11. CASE updaterex(o)
  BY <1>11, updaterexStep
<1>12. CASE consolidate(o)
  BY <1>12, consolidateStep
<1>13. CASE \E v \in Moves : mvtosavings(o, v)
  BY <1>1, <1>13, mvtosavingsStep
<1>14. CASE \E v \in Moves : mvfrsavings(o, v)
  BY <1>1, <1>14, mvfrsavingsStep
<1>15. CASE closerex(o)
  BY <1>15, closerexStep
<1>16. CASE update_rex_stake(o)
  BY <1>16, update_rex_stakeStep
<1> QED
  BY <1>2, <1>3, <1>4, <1>5, <1>6, <1>7, <1>8, <1>9, <1>10, <1>11, <1>12, <1>13, <1>14,
     <1>15, <1>16 DEF OwnerAction

\* A step of no one changes nothing.
LEMMA StutterStep ==
    ASSUME IInv, UNCHANGED vars
    PROVE  IInv' /\ StepOK
<1>1. Tables' = Tables /\ Here' = Here /\ Del' = Del /\ DelOK' = DelOK
  BY DEF vars, Tables, Here, Balance, Del, Delegated, DelOK
<1>2. IInv'
  BY <1>1 DEF IInv
<1>3. ValueKept(rex_pool, rex_pool')
  <2>1. PICK t, D, c : t = Tables /\ TablesOK(t, 0, D, c)
    BY Start
  <2>2. PoolOK(rex_pool)
    BY <2>1, TablesFields DEF TablesOK, PoolSince
  <2>3. rex_pool' = rex_pool
    BY DEF vars
  <2> QED
    BY <2>2, <2>3, SMT DEF ValueKept, PoolOK, Pool
<1>4. StepOK
  <2>1. PICK v, b : v = namebid_proceeds /\ b = Balance(names_account)
    OBVIOUS
  <2>2. namebid_proceeds' = v /\ Balance(names_account)' = b
    BY <2>1 DEF vars, Balance
  <2>3. v \in Int
    <3>1. PICK t, D, c : t = Tables /\ TablesOK(t, 0, D, c)
      BY Start
    <3> QED
      BY <2>1, <3>1, TablesFields DEF TablesOK, NamesOK
  <2>4. ~(v < v)
    BY <2>3
  <2>5. LockKept
    <3>1. PICK t, D, c : t = Tables /\ c = Here /\ TablesOK(t, 0, D, c)
      BY Start
    <3>2. /\ BalOK(rexbal, t.pool.total_rex) /\ LocksOK(rexbal, now, c) /\ c.bal = rexbal
          /\ now \in Nat
      BY <3>1, TablesFields, HereFields, MoneyParts DEF TablesOK
    <3>3. rexbal' = rexbal /\ now' = now
      BY DEF vars
    <3>4. BalOK(rexbal', t.pool.total_rex) /\ LocksOK(rexbal', now', c)
      BY <3>2, <3>3
    <3> QED
      BY <3>2, <3>4, LockStep
  <2> QED
    BY <1>3, <2>1, <2>2, <2>4, <2>5 DEF StepOK
<1> QED
  BY <1>2, <1>4

\* Every step keeps the invariant, the value of REX and the proceeds of name bids.
LEMMA EveryStep ==
    ASSUME IInv, [Next]_vars
    PROVE  IInv' /\ StepOK
<1>1. Rents \subseteq Nat /\ RunMax \subseteq Nat /\ Incomes \subseteq Nat /\ Bids \subseteq Nat
  BY RexAssumption
<1>2. CASE \E o \in Owners : OwnerAction(o)
  BY <1>2, OwnerStep
<1>3. CASE OthersAction
  <2>1. CASE \E v \in Rents : setrex(v)
    BY <1>1, <2>1, setrexStep
  <2>2. CASE \E v \in Incomes : FeeChanneled(v)
    BY <1>1, <2>2, FeeStep
  <2>3. CASE \E v \in Bids : channel_namebid_to_rex(v)
    BY <1>1, <2>3, namebidStep
  <2> QED
    BY <1>3, <2>1, <2>2, <2>3 DEF OthersAction
<1>4. CASE Maintenance
  BY <1>1, <1>4, rexexecStep DEF Maintenance
<1>5. CASE Tick
  BY <1>5, TickStep
<1>6. CASE UNCHANGED vars
  BY <1>6, StutterStep
<1> QED
  BY <1>2, <1>3, <1>4, <1>5, <1>6 DEF Next

\* The tables are sound, and owe what they hold, after every transaction.
THEOREM TablesSound == Spec => []IInv
<1>1. Init => IInv
  BY InitSound
<1>2. IInv /\ [Next]_vars => IInv'
  BY EveryStep
<1> QED
  BY <1>1, <1>2, PTL DEF Spec

\* The REX in circulation is what the owners hold, in matured REX and in
\* buckets, and what an open order asks for is there: SharesAccounted.
THEOREM SharesAreAccounted == Spec => []SharesAccounted
<1>1. IInv => SharesAccounted
  <2>1. SUFFICES ASSUME IInv PROVE SharesAccounted
    OBVIOUS
  <2>2. PICK t, D, c : t = Tables /\ TablesOK(t, 0, D, c)
    BY <2>1, Start
  <2>3. t.pool = rex_pool /\ t.bal = rexbal
    BY <2>2, TablesFields
  <2>4. rex_pool.total_rex = RexHeld
    BY <2>2, <2>3 DEF TablesOK, BalOK, RexOf, RexHeld
  <2>5. ASSUME NEW o \in DOMAIN rexbal
        PROVE  /\ rexbal[o].rex_balance = rexbal[o].matured + InBuckets(rexbal[o].maturities)
               /\ rex_in_sell_order(Tables, o) <= rexbal[o].matured
    <3>1. Holds(t.bal[o], t.bal[o].rex_balance) /\ rex_in_sell_order(t, o) <= t.bal[o].matured
      BY <2>2, <2>3, <2>5, OwnRow, OrderedREX
    <3> QED
      BY <2>2, <2>3, <3>1, RowParts
  <2> QED
    BY <2>4, <2>5 DEF SharesAccounted
<1> QED
  BY <1>1, TablesSound, PTL

\* eosio.rex holds what it owes, to the unit: RexSolvent.
THEOREM RexIsSolvent == Spec => []RexSolvent
<1>1. IInv => RexSolvent
  <2>1. SUFFICES ASSUME IInv PROVE RexSolvent
    OBVIOUS
  <2>2. PICK t, D, c : t = Tables /\ TablesOK(t, 0, D, c)
    BY <2>1, Start
  <2>3. MoneyOK(ledger, rex_pool.total_lendable, rexfund, rexloans, rexqueue, 0)
    BY <2>2, TablesFields DEF TablesOK
  <2>4. PICK a, b, d, e : /\ a = rex_pool.total_lendable /\ b = SumOf(rexfund)
                          /\ d = SumOf(BalancesOf(rexloans)) /\ e = SumOf(ProceedsOf(rexqueue))
    OBVIOUS
  <2>5. a \in Int /\ b \in Int /\ d \in Int /\ e \in Int
    BY <2>2, <2>4, TablesFields, MoneyParts
  <2>6. BalanceOf(ledger, rex_account) = a + b + d + e
    BY <2>3, <2>4, <2>5 DEF MoneyOK
  <2> QED
    BY <2>4, <2>6 DEF RexSolvent, Balance, Held, BalancesOf, ProceedsOf, FilledOrders
<1> QED
  BY <1>1, TablesSound, PTL

\* What is lent is what the loans stake, and receivers have the resources that
\* are staked for them and no more: LoansAccounted.
THEOREM LoansAreAccounted == Spec => []LoansAccounted
<1>1. IInv => LoansAccounted
  <2>1. SUFFICES ASSUME IInv PROVE LoansAccounted
    OBVIOUS
  <2>2. PICK t, D, c : t = Tables /\ D = Del /\ TablesOK(t, 0, D, c)
    BY <2>1, Start
  <2>3. rex_pool.total_lent = SumOf(StakedOf(rexloans)) /\ LimitsOK(limits, rexloans, Del)
    BY <2>2, TablesFields DEF TablesOK, LoansOK
  <2>4. ASSUME NEW r \in Owners, NEW k \in Kinds
        PROVE  limits[r][k] = Delegated(r, k) + Lent(LoansTo(r, k))
    <3>1. limits[r][k] = Del[r][k] + SumOf(StakedTo(rexloans, r, k))
      BY <2>3 DEF LimitsOK
    <3>2. StakedTo(rexloans, r, k) = [n \in LoansTo(r, k) |-> rexloans[n].total_staked]
      BY DEF StakedTo, LoansTo
    <3> QED
      BY <3>1, <3>2 DEF Del, Lent
  <2> QED
    BY <2>3, <2>4 DEF LoansAccounted, Lent, StakedOf
<1> QED
  BY <1>1, TablesSound, PTL

\* No loan that could hold up an open order outlives the term of 30 days that
\* sellrex's header promises: QueueServedInTime.
THEOREM QueueIsServed == Spec => []QueueServedInTime
<1>1. IInv => QueueServedInTime
  BY TablesFields DEF IInv, TablesOK, QueueOK, QueueServedInTime
<1> QED
  BY <1>1, TablesSound, PTL

\* What REX is worth never falls: every rounding is in favour of those who
\* stay.  ShareValueNeverFalls.
THEOREM ShareValueIsKept == Spec => ShareValueNeverFalls
<1>1. IInv /\ [Next]_vars => ValueKept(rex_pool, rex_pool')
  BY EveryStep DEF StepOK
<1> QED
  BY <1>1, TablesSound, PTL DEF Spec, ShareValueNeverFalls

\* The proceeds of name bids that are struck off have left eosio.names:
\* NamebidsReachRex.
THEOREM NamebidsDoReachRex == Spec => NamebidsReachRex
<1>1. IInv /\ [Next]_vars =>
        (namebid_proceeds' < namebid_proceeds =>
           Balance(names_account) - Balance(names_account)' = namebid_proceeds - namebid_proceeds')
  BY EveryStep DEF StepOK
<1> QED
  BY <1>1, TablesSound, PTL DEF Spec, NamebidsReachRex

\* Savings are put in the last bucket as long as what is bought matures before
\* the end of days, time_point_sec::maximum.
BeforeEndOfDays == get_rex_maturity(Tables) < end_of_days

\* REX that is bought, or is taken out of savings, is locked for the whole of
\* the maturity period, and nothing shortens the lock of REX already held: LockHeld.
THEOREM LocksAreHeld == Spec /\ []BeforeEndOfDays => LockHeld
<1>1. IInv /\ BeforeEndOfDays /\ [Next]_vars =>
        \A o \in Owners, time \in (now + 1)..get_rex_maturity(Tables) :
          now' = now =>
            Locked(o, time)' >= Locked(o, time) + Max({0, Holding(o)' - Holding(o)})
  <2>1. SUFFICES ASSUME IInv, BeforeEndOfDays, [Next]_vars, now' = now,
                        NEW o \in Owners, NEW time \in (now + 1)..get_rex_maturity(Tables)
                 PROVE  Locked(o, time)' >= Locked(o, time) + Max({0, Holding(o)' - Holding(o)})
    OBVIOUS
  <2>2. get_rex_maturity(Tables) = MaturityOf(now)
    BY TablesFields DEF get_rex_maturity, MaturityOf
  <2>3. LockKept
    BY <2>1, EveryStep DEF StepOK
  <2> QED
    BY <2>1, <2>2, <2>3 DEF LockKept, BeforeEndOfDays
<1> QED
  BY <1>1, TablesSound, PTL DEF Spec, LockHeld

\* Buckets are in the order of their times, each time once.
LEMMA RowsAreOrdered ==
    ASSUME IInv, BeforeEndOfDays, NEW o \in DOMAIN rexbal
    PROVE  Ordered(rexbal[o].maturities)
<1>1. get_rex_maturity(Tables) = MaturityOf(now)
  BY TablesFields DEF get_rex_maturity, MaturityOf
<1>2. InOrder(rexbal[o].maturities, MaturityOf(now))
  BY <1>1, TablesFields DEF IInv, TablesOK, LocksOK, BeforeEndOfDays
<1> QED
  BY <1>1, <1>2 DEF InOrder, Sorted, Ordered

\* The limits of an owner are natural: what is staked to it, and lent to it.
LEMMA LimitsNatural == IInv => limits \in [Owners -> [Kinds -> Nat]]
<1> SUFFICES ASSUME IInv PROVE limits \in [Owners -> [Kinds -> Nat]]
  OBVIOUS
<1>1. PICK t, D, c : t = Tables /\ D = Del /\ TablesOK(t, 0, D, c)
  BY Start
<1>2. LimitsOK(limits, rexloans, Del) /\ LoansOK(rexloans, loan_num, now, rex_pool.total_lent)
  BY <1>1, TablesFields DEF TablesOK
<1>3. ASSUME NEW r \in Owners, NEW k \in Kinds
      PROVE  limits[r][k] \in Nat
  <2>1. Delegated(r, k) \in Nat
    <3> DEFINE f == [o \in Owners |-> delband[o][r][k]]
    <3>1. IsFiniteSet(Owners) /\ \A o \in Owners : f[o] \in Nat
      BY RexTablesAssumption DEF IInv, DelOK
    <3>2. SumOver(f, Owners) \in Nat
      <4> HIDE DEF f
      <4> QED
        BY <3>1, SumNat
    <3> QED
      BY <3>2 DEF Delegated, SumOf
  <2>2. SumOf(StakedTo(rexloans, r, k)) \in Nat
    <3> DEFINE S == {m \in DOMAIN rexloans : rexloans[m].kind = k /\ rexloans[m].receiver = r}
               g == [n \in S |-> rexloans[n].total_staked]
    <3>1. IsFiniteSet(S)
      <4>1. IsFiniteSet(1..loan_num) /\ S \subseteq 1..loan_num
        BY <1>2, FS_Interval DEF LoansOK
      <4> QED
        BY <4>1, FS_Subset
    <3>2. \A n \in S : g[n] \in Nat
      BY <1>2 DEF LoansOK, Loan
    <3>3. DOMAIN g = S
      OBVIOUS
    <3>4. SumOver(g, DOMAIN g) \in Nat
      <4> HIDE DEF S, g
      <4> QED
        BY <3>1, <3>2, <3>3, SumNat
    <3> QED
      BY <3>4 DEF StakedTo, SumOf
  <2>3. limits[r][k] = Delegated(r, k) + SumOf(StakedTo(rexloans, r, k))
    BY <1>2 DEF LimitsOK, Del
  <2> QED
    BY <2>1, <2>2, <2>3
<1>4. limits \in [Owners -> [Kinds -> Int]]
  BY <1>2 DEF LimitsOK
<1> QED
  BY <1>3, <1>4

\* Rows of tables of their types, none below zero, and buckets in order: TypeOK.
THEOREM TypesHold == Spec => [](BeforeEndOfDays => TypeOK)
<1>1. IInv => (BeforeEndOfDays => TypeOK)
  <2>1. SUFFICES ASSUME IInv, BeforeEndOfDays PROVE TypeOK
    OBVIOUS
  <2>2. PICK t, D, c : t = Tables /\ TablesOK(t, 0, D, c)
    BY <2>1, Start
  <2>3. /\ PoolOK(rex_pool) /\ BalOK(rexbal, rex_pool.total_rex) /\ OrdersOK(rexqueue, rexbal)
        /\ LoansOK(rexloans, loan_num, now, rex_pool.total_lent)
        /\ MoneyOK(ledger, rex_pool.total_lendable, rexfund, rexloans, rexqueue, 0)
        /\ staked \in [Owners -> Int]
    BY <2>2, TablesFields DEF TablesOK, PoolSince
  <2>4. \E S \in SUBSET (Owners \cup {rex_account, names_account, stake_account, Others}) :
          ledger \in [S -> Nat]
    <3>1. ledger \in [DOMAIN ledger -> Nat]
      BY <2>3 DEF MoneyOK, IsTable, Unowed, NoDebts
    <3> QED
      BY <2>3, <3>1 DEF MoneyOK, Unowed, Accounts
  <2>5. \E S \in SUBSET Owners : rexfund \in [S -> Nat]
    <3>1. rexfund \in [DOMAIN rexfund -> Nat]
      BY <2>3 DEF MoneyOK, IsTable, Unowed, NoDebts
    <3> QED
      BY <2>3, <3>1 DEF MoneyOK, Unowed
  <2>6. ASSUME NEW o \in DOMAIN rexbal
        PROVE  /\ {rexbal[o].vote_stake, rexbal[o].rex_balance, rexbal[o].matured} \subseteq Nat
               /\ Range(rexbal[o].maturities) \subseteq Bucket
               /\ Ordered(rexbal[o].maturities)
    <3>1. IsRow(rexbal[o])
      BY <2>3 DEF BalOK, Holds
    <3>2. Range(rexbal[o].maturities) \subseteq Bucket
      BY <3>1 DEF IsRow, Range
    <3> QED
      BY <2>1, <3>1, <3>2, RowsAreOrdered DEF IsRow
  <2>7. \E S \in SUBSET Owners : rexqueue \in [S -> Order]
    <3>1. rexqueue \in [DOMAIN rexqueue -> Order]
      BY <2>3 DEF OrdersOK
    <3> QED
      BY <2>3, <3>1 DEF OrdersOK
  <2>8. rexloans \in [DOMAIN rexloans -> Loan] /\ DOMAIN rexloans \subseteq 1..loan_num
    BY <2>3 DEF LoansOK
  <2>9. limits \in [Owners -> [Kinds -> Nat]]
    BY <2>1, LimitsNatural
  <2>10. DOMAIN rexbal \subseteq Owners
    BY <2>3 DEF BalOK
  <2> QED
    BY <2>3, <2>4, <2>5, <2>6, <2>7, <2>8, <2>9, <2>10 DEF TypeOK
<1> QED
  BY <1>1, TablesSound, PTL
=============================================================================
