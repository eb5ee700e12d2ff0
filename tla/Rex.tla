--------------------------------- MODULE Rex ---------------------------------
(***************************************************************************)
(* The resource exchange of eosio.system (rex.cpp): owners deposit tokens, *)
(* buy REX, which matures and is sold, at once or from a queue, and rent   *)
(* CPU and NET with loans that expire or renew.  Each action is the whole  *)
(* C++ action, with the maintenance (runrex) it does on the way.           *)
(***************************************************************************)
EXTENDS RexTables

CONSTANTS
    stake_account,  \* eosio.stake, which holds the tokens staked
    Others          \* fee accounts and bidders

\* What the environment does is drawn from these sets, and stops at these bounds.
CONSTANTS
    MaxTime,         \* bound: the last moment at which anyone but rexexec acts
    Deposits, Withdrawals, Purchases, Sales,  \* amounts in these actions
    Moves,           \* REX moved to and from savings
    Unstakings,      \* tokens unstaked to buy REX
    LoanPayments, LoanFunds,                  \* what a loan costs and its fund
    MaxLoans,        \* bound: the number of loans ever made
    Rents,           \* the values setrex is called with
    RunMax,          \* the bounds rexexec is called with
    Incomes,         \* fees channeled to REX
    Bids,            \* winning name bids
    MaxIncome,       \* bound: what is left to Others for fees and bids
    InitialBalance,  \* of each owner
    InitialStake     \* of each owner, for itself, in each kind

ASSUME RexAssumption ==
    /\ {stake_account, Others} \cap (Owners \cup {rex_account, names_account}) = {}
    /\ Deposits \cup Withdrawals \cup Purchases \cup Unstakings \subseteq Nat
    /\ Sales \cup Moves \cup LoanPayments \cup LoanFunds \subseteq Nat
    /\ Rents \cup RunMax \cup Incomes \cup Bids \subseteq Nat
    /\ {MaxTime, MaxLoans, MaxIncome} \subseteq Nat
    /\ InitialBalance \in [Owners -> Nat] /\ InitialStake \in [Owners -> Nat]

VARIABLES
    now, ledger, rex_pool, namebid_proceeds, loan_num, rexfund, rexbal,
    rexqueue, rexloans, staked, limits,  \* the tables: see RexTables
    delband  \* the tokens each owner has staked to each receiver

vars == <<now, ledger, rex_pool, namebid_proceeds, loan_num, rexfund, rexbal,
          rexqueue, rexloans, staked, limits, delband>>

Tables ==
    [ok |-> TRUE, now |-> now, ledger |-> ledger, pool |-> rex_pool,
     namebid_proceeds |-> namebid_proceeds, loan_num |-> loan_num, funds |-> rexfund,
     bal |-> rexbal, orders |-> rexqueue, loans |-> rexloans, staked |-> staked,
     limits |-> limits]

\* The transaction that leaves the tables t, unless it aborts.
Commit(t) ==
    /\ t.ok
    /\ now' = t.now
    /\ ledger' = t.ledger
    /\ rex_pool' = t.pool
    /\ namebid_proceeds' = t.namebid_proceeds
    /\ loan_num' = t.loan_num
    /\ rexfund' = t.funds
    /\ rexbal' = t.bal
    /\ rexqueue' = t.orders
    /\ rexloans' = t.loans
    /\ staked' = t.staked
    /\ limits' = t.limits

-----------------------------------------------------------------------------
(* The REX fund                                                            *)

deposit(owner, amount) ==
    /\ Commit(transfer_to_fund(transfer(Tables, owner, rex_account, amount), owner, amount))
    /\ UNCHANGED delband

withdraw(owner, amount) ==
    /\ LET collected == update_rex_account(Tables, owner, 0, 0)
           debited == transfer_from_fund(collected, owner, amount)
       IN  Commit(transfer(debited, rex_account, owner, amount))
    /\ UNCHANGED delband

-----------------------------------------------------------------------------
(* Buying REX                                                              *)

buyrex(from, amount) ==
    /\ CanAddToRexPool(rex_pool)
    /\ LET paid == transfer_from_fund(Tables, from, amount)
           bought == Bought(paid, from, amount)
       IN  Commit(update_rex_account(runrex(bought, 2), from, 0, StakeDelta(paid, bought, from)))
    /\ UNCHANGED delband

\* The stake counted in the vote is left alone, whatever the REX is worth.
unstaketorex(owner, receiver, from_net, from_cpu) ==
    /\ from_net + from_cpu > 0
    /\ from_net <= delband[owner][receiver]["net"]
    /\ from_cpu <= delband[owner][receiver]["cpu"]
    /\ CanAddToRexPool(rex_pool)
    /\ LET payment == from_net + from_cpu
           less_net == update_resource_limits(Tables, receiver, "net", -from_net)
           less_cpu == update_resource_limits(less_net, receiver, "cpu", -from_cpu)
           paid == transfer(less_cpu, stake_account, rex_account, payment)
           account == update_rex_account(runrex(Bought(paid, owner, payment), 2), owner, 0, 0)
       IN  Commit(force_vote_update(account, owner))
    /\ delband' = [delband EXCEPT ![owner][receiver] =
                     [net |-> @["net"] - from_net, cpu |-> @["cpu"] - from_cpu]]

-----------------------------------------------------------------------------
(* Selling REX                                                             *)

Matured(t, owner) == [t EXCEPT !.bal[owner] = process_rex_maturities(@, t.now)]

SellNow_WithoutPendingOrder(t, from, rex) ==
    LET filled == FillOrder(t, from, rex)
    IN  /\ CanFill(t.pool, rex)
        /\ proceeds(t.pool, rex) # 0
        /\ Commit(update_rex_account(filled, from, proceeds(t.pool, rex),
                                     StakeDelta(t, filled, from)))

\* Fills the order at once, and what remains matured covers the open order.
SellNow(t, from, rex) ==
    LET filled == FillOrder(t, from, rex)
        paid == update_rex_account(filled, from, proceeds(t.pool, rex), StakeDelta(t, filled, from))
    IN  /\ CanFill(t.pool, rex)
        /\ proceeds(t.pool, rex) # 0
        /\ rex_in_sell_order(t, from) <= paid.bal[from].matured
        /\ Commit(paid)

\* Adds the order to the queue, or to the order that is already there.
SellLater(t, from, rex) ==
    LET collected == update_rex_account(t, from, 0, 0)
        order == IF from \in DOMAIN collected.orders
                 THEN [collected.orders[from] EXCEPT !.rex_requested = @ + rex]
                 ELSE [rex_requested |-> rex, is_open |-> TRUE, proceeds |-> 0,
                       stake_change |-> 0, order_time |-> t.now]
    IN  /\ ~CanFill(t.pool, rex)
        /\ order.rex_requested <= t.bal[from].matured
        /\ Commit([collected EXCEPT !.orders = Put(@, from, order)])

sellrex(from, rex) ==
    /\ rex > 0
    /\ from \in DOMAIN rexbal
    /\ LET t == Matured(runrex(Tables, 2), from)
       IN  /\ t.ok
           /\ rex <= t.bal[from].matured
           /\ SellNow(t, from, rex) \/ SellLater(t, from, rex)
    /\ UNCHANGED delband

cnclrexorder(owner) ==
    /\ IsOpen(Tables, owner)
    /\ rexqueue' = Erase(rexqueue, owner)
    /\ UNCHANGED <<now, ledger, rex_pool, namebid_proceeds, loan_num, rexfund, rexbal,
                   rexloans, staked, limits, delband>>

-----------------------------------------------------------------------------
(* Loans                                                                   *)

\* rentcpu and rentnet, by kind.
rent_rex(kind, from, receiver, payment, fund) ==
    /\ loan_num < MaxLoans
    /\ payment > 0
    /\ LET t == runrex(Tables, 2)
           paid == transfer_from_fund(t, from, payment + fund)
           rented == rented_tokens(t.pool, payment)
           loan == [kind |-> kind, from |-> from, receiver |-> receiver, payment |-> payment,
                    balance |-> fund, total_staked |-> rented, expiration |-> now + loan_term]
           lent == [paid EXCEPT !.pool = add_loan_to_rex_pool(@, payment, rented),
                                !.loan_num = @ + 1,
                                !.loans = Put(@, t.loan_num + 1, loan)]
       IN  /\ rex_loans_available(t)
           /\ payment < rented
           /\ Commit(update_resource_limits(lent, receiver, kind, rented))
    /\ UNCHANGED delband

\* fundcpuloan and fundnetloan.
fund_rex_loan(from, num, payment) ==
    /\ num \in DOMAIN rexloans
    /\ rexloans[num].from = from
    /\ rexloans[num].expiration > now
    /\ LET paid == transfer_from_fund(Tables, from, payment)
       IN  Commit([paid EXCEPT !.loans[num].balance = @ + payment])
    /\ UNCHANGED delband
\* defcpuloan and defnetloan.
defund_rex_loan(from, num, amount) ==
    /\ num \in DOMAIN rexloans
    /\ rexloans[num].from = from
    /\ rexloans[num].expiration > now
    /\ rexloans[num].balance >= amount
    /\ Commit(transfer_to_fund([Tables EXCEPT !.loans[num].balance = @ - amount], from, amount))
    /\ UNCHANGED delband

-----------------------------------------------------------------------------
(* Maintenance by the owner                                                *)

\* The pool's row is there: only loans take all of total_rent away again.
rex_system_initialized == rex_pool # NoRex \/ loan_num > 0

updaterex(owner) ==
    /\ owner \in DOMAIN rexbal
    /\ LET t == runrex(Tables, 2)
           value == IF rex_available(t.pool)
                    THEN StakeValue(t.pool, t.bal[owner].rex_balance) ELSE 0
           valued == [t EXCEPT !.bal[owner].vote_stake = value]
           account == update_rex_account(valued, owner, 0, StakeDelta(t, valued, owner))
       IN  Commit(Matured(force_vote_update(account, owner), owner))
    /\ UNCHANGED delband

consolidate(owner) ==
    /\ owner \in DOMAIN rexbal
    /\ LET t == runrex(Tables, 2)
           kept == rex_in_sell_order(t, owner)
           b == WithoutSavings(t.bal[owner])
           total == b.matured - kept + InBuckets(b.maturities)
           emptied == [b EXCEPT !.matured = kept, !.maturities = <<>>]
           bucket == IF total > 0 THEN AddBucket(emptied, get_rex_maturity(t), total) ELSE emptied
           collected == update_rex_account(t, owner, 0, 0)
       IN  Commit([collected EXCEPT !.bal[owner] =
                     put_rex_savings(bucket, read_rex_savings(t.bal[owner]))])
    /\ UNCHANGED delband
mvtosavings(owner, rex) ==
    /\ owner \in DOMAIN rexbal
    /\ rex > 0
    /\ LET t == runrex(Tables, 2)
           collected == update_rex_account(t, owner, 0, 0)
           ordered == rex_in_sell_order(t, owner)
           savings == read_rex_savings(t.bal[owner])
           b == process_rex_maturities(WithoutSavings(t.bal[owner]), now)
           taken == TakeFromBack(b.maturities, rex)
           left == [b EXCEPT !.maturities = taken.left, !.matured = @ - taken.missing]
       IN  /\ rex + ordered + savings <= b.rex_balance
           /\ taken.missing > 0 => ordered <= left.matured
           /\ Commit([collected EXCEPT !.bal[owner] = put_rex_savings(left, savings + rex)])
    /\ UNCHANGED delband

mvfrsavings(owner, rex) ==
    /\ owner \in DOMAIN rexbal
    /\ rex > 0
    /\ LET t == runrex(Tables, 2)
           savings == read_rex_savings(t.bal[owner])
           b == process_rex_maturities(WithoutSavings(t.bal[owner]), now)
           moved == AddBucket(b, get_rex_maturity(t), rex)
       IN  /\ rex <= savings
           /\ Commit(update_rex_account(
                [t EXCEPT !.bal[owner] = put_rex_savings(moved, savings - rex)], owner, 0, 0))
    /\ UNCHANGED delband

closerex(owner) ==
    /\ LET t == update_rex_account(
                  IF rex_system_initialized THEN runrex(Tables, 2) ELSE Tables, owner, 0, 0)
           indebted == \E n \in DOMAIN t.loans : t.loans[n].from = owner
           funds == IF ~indebted /\ owner \in DOMAIN t.funds /\ t.funds[owner] = 0
                    THEN Erase(t.funds, owner) ELSE t.funds
       IN  /\ owner \in DOMAIN t.bal => t.bal[owner].rex_balance = 0
           /\ Commit([t EXCEPT !.funds = funds, !.bal = Erase(@, owner)])
    /\ UNCHANGED delband

-----------------------------------------------------------------------------
(* Maintenance by anyone, and the rest of the system                       *)

rexexec(max) ==
    /\ rex_system_initialized
    /\ Commit(runrex(Tables, max))
    /\ UNCHANGED delband

setrex(balance) ==
    /\ balance > 0
    /\ rex_system_initialized
    /\ Commit([Tables EXCEPT !.pool.total_rent = balance])
    /\ UNCHANGED delband

\* An owner votes: voteproducer and changebw begin with this.
update_rex_stake(voter) ==
    /\ voter \in DOMAIN rexbal
    /\ rex_available(rex_pool)
    /\ LET value == StakeValue(rex_pool, rexbal[voter].rex_balance)
       IN  Commit([Tables EXCEPT !.bal[voter].vote_stake = value,
                                 !.staked[voter] = @ + value - rexbal[voter].vote_stake])
    /\ UNCHANGED delband

\* A fee, or a payout of tedp, is channeled to REX.
FeeChanneled(amount) ==
    /\ rex_available(rex_pool)
    /\ Commit([transfer(Tables, Others, rex_account, amount) EXCEPT
                 !.pool = channel_to_rex(@, amount)])
    /\ UNCHANGED delband

\* Bids are paid to eosio.names; the highest, once the name is closed, is
\* put down to be channeled to REX.
channel_namebid_to_rex(bid) ==
    LET paid == transfer(Tables, Others, names_account, bid)
    IN  /\ Commit(IF rex_available(rex_pool)
                  THEN [paid EXCEPT !.namebid_proceeds = @ + bid] ELSE paid)
        /\ UNCHANGED delband

\* Time goes on to MaxTime, and then as far as there are loans to expire.
Tick ==
    /\ now < MaxTime \/ \E n \in DOMAIN rexloans : rexloans[n].expiration > now
    /\ now' = now + 1
    /\ UNCHANGED <<ledger, rex_pool, namebid_proceeds, loan_num, rexfund, rexbal,
                   rexqueue, rexloans, staked, limits, delband>>

-----------------------------------------------------------------------------

Init ==
    /\ now = 0
    /\ ledger = [a \in Owners \cup {Others, stake_account} |->
                   CASE a \in Owners -> InitialBalance[a]
                     [] a = stake_account -> 2 * Held(InitialStake)
                     [] OTHER -> MaxIncome]
    /\ rex_pool = NoRex
    /\ namebid_proceeds = 0
    /\ loan_num = 0
    /\ rexfund = <<>>
    /\ rexbal = <<>>
    /\ rexqueue = <<>>
    /\ rexloans = <<>>
    /\ staked = [o \in Owners |-> 2 * InitialStake[o]]
    /\ limits = [o \in Owners |-> [k \in Kinds |-> InitialStake[o]]]
    /\ delband = [o \in Owners |-> [r \in Owners |->
                    [k \in Kinds |-> IF o = r THEN InitialStake[o] ELSE 0]]]

\* The REX an owner holds: it may sell a part of it, or all.
Holding(owner) == IF owner \in DOMAIN rexbal THEN rexbal[owner].rex_balance ELSE 0

OwnerAction(o) ==
    \/ \E v \in Deposits : deposit(o, v)
    \/ \E v \in Withdrawals : withdraw(o, v)
    \/ \E v \in Purchases : buyrex(o, v)
    \/ \E r \in Owners, n \in Unstakings, c \in Unstakings : unstaketorex(o, r, n, c)
    \/ \E v \in Sales \cup {Holding(o)} : sellrex(o, v)
    \/ cnclrexorder(o)
    \/ \E k \in Kinds, r \in Owners, p \in LoanPayments, f \in LoanFunds : rent_rex(k, o, r, p, f)
    \/ \E n \in DOMAIN rexloans, v \in LoanFunds : fund_rex_loan(o, n, v)
    \/ \E n \in DOMAIN rexloans, v \in LoanFunds : defund_rex_loan(o, n, v)
    \/ updaterex(o)
    \/ consolidate(o)
    \/ \E v \in Moves : mvtosavings(o, v)
    \/ \E v \in Moves : mvfrsavings(o, v)
    \/ closerex(o)
    \/ update_rex_stake(o)

Maintenance == \E max \in RunMax : rexexec(max)

OthersAction ==
    \/ \E v \in Rents : setrex(v)
    \/ \E v \in Incomes : FeeChanneled(v)
    \/ \E v \in Bids : channel_namebid_to_rex(v)

Next ==
    \/ now <= MaxTime /\ \E o \in Owners : OwnerAction(o)
    \/ now <= MaxTime /\ OthersAction
    \/ Maintenance
    \/ Tick

Spec == Init /\ [][Next]_vars

\* Time passes, and someone runs the maintenance that anyone may run.  The
\* last conjunct is WF_vars(Maintenance), with its ENABLED written out.
MaintenanceDue ==
    \E max \in RunMax : LET t == runrex(Tables, max) IN t.ok /\ t # Tables
FairSpec ==
    /\ Spec
    /\ WF_vars(Tick)
    /\ []<>~MaintenanceDue \/ []<><<Maintenance>>_vars

-----------------------------------------------------------------------------
(* Properties                                                              *)

\* Buckets in the order of their times, each time once, so that looking at
\* the front finds all that has matured and savings are at the end.
Ordered(q) ==
    /\ \A i, j \in 1..Len(q) : i < j => q[i].time < q[j].time
    /\ \A i \in 1..Len(q) : q[i].time \in 0..get_rex_maturity(Tables) \cup {end_of_days}

\* The types of the tables, and no balance, bucket or stake below zero: but the
\* stake in a vote may be, since unstaketorex leaves it alone and
\* update_rex_stake does not check it.
TypeOK ==
    /\ PoolOK(rex_pool)
    /\ \E S \in SUBSET (Owners \cup {rex_account, names_account, stake_account, Others}) :
         ledger \in [S -> Nat]
    /\ \E S \in SUBSET Owners : rexfund \in [S -> Nat]
    /\ DOMAIN rexbal \subseteq Owners
    /\ \A o \in DOMAIN rexbal :
         /\ {rexbal[o].vote_stake, rexbal[o].rex_balance, rexbal[o].matured} \subseteq Nat
         /\ Range(rexbal[o].maturities) \subseteq Bucket
         /\ Ordered(rexbal[o].maturities)
    /\ \E S \in SUBSET Owners : rexqueue \in [S -> Order]
    /\ rexloans \in [DOMAIN rexloans -> Loan]
    /\ DOMAIN rexloans \subseteq 1..loan_num
    /\ staked \in [Owners -> Int]
    /\ limits \in [Owners -> [Kinds -> Nat]]

Balance(a) == BalanceOf(ledger, a)

\* What the rows of a table add up to: of REX, and of the loans of one kind
\* for one receiver, or all of them.
RexHeld == SumOf([o \in DOMAIN rexbal |-> rexbal[o].rex_balance])
Lent(loans) == SumOf([n \in loans |-> rexloans[n].total_staked])
LoansTo(r, k) == {n \in DOMAIN rexloans : rexloans[n].kind = k /\ rexloans[n].receiver = r}
Delegated(r, k) == SumOf([o \in Owners |-> delband[o][r][k]])

FilledOrders == {o \in DOMAIN rexqueue : ~rexqueue[o].is_open}

\* eosio.rex holds, to the unit, what it owes: the funds, the funds of the
\* loans, what the pool can lend and the proceeds not yet collected.
RexSolvent ==
    Balance(rex_account) =
      rex_pool.total_lendable + Held(rexfund)
      + SumOf([n \in DOMAIN rexloans |-> rexloans[n].balance])
      + SumOf([o \in FilledOrders |-> rexqueue[o].proceeds])

\* The REX in circulation is what the owners hold, each in matured REX and
\* in buckets, and REX in an open order is matured and still there.
SharesAccounted ==
    /\ rex_pool.total_rex = RexHeld
    /\ \A o \in DOMAIN rexbal :
         /\ rexbal[o].rex_balance = rexbal[o].matured + InBuckets(rexbal[o].maturities)
         /\ rex_in_sell_order(Tables, o) <= rexbal[o].matured

\* What is lent is what the loans stake, and receivers have the resources
\* that are staked for them and no more, through renewals too.
LoansAccounted ==
    /\ rex_pool.total_lent = Lent(DOMAIN rexloans)
    /\ \A r \in Owners, k \in Kinds : limits[r][k] = Delegated(r, k) + Lent(LoansTo(r, k))

\* The header's promise for sellrex, that an order is filled within 30 days
\* at most: no loan that could hold up an open order outlives that term.
QueueServedInTime ==
    \A o \in DOMAIN rexqueue, n \in DOMAIN rexloans :
      rexqueue[o].is_open => rexloans[n].expiration <= rexqueue[o].order_time + loan_term

\* The stake in an owner's vote is what it has staked and its REX stake, but
\* for the change that it takes in with the proceeds of a filled order.
\* (As rex_pool's header says, vote_stake is what is included in the vote.)
StakeCounted ==
    \A o \in Owners :
      staked[o] = SumOf([r \in Owners |-> delband[o][r]["net"] + delband[o][r]["cpu"]])
                  + (IF o \in DOMAIN rexbal THEN rexbal[o].vote_stake ELSE 0)
                  - (IF IsFilled(Tables, o) THEN rexqueue[o].stake_change ELSE 0)

\* What REX is worth never falls, however purchases, sales and loans are
\* interleaved: every rounding is in favour of those who stay.
ShareValueNeverFalls ==
    [][ValueKept(rex_pool, rex_pool')]_vars

\* The REX in buckets, and of an owner, that is locked until the time, at least.
LockedIn(buckets, time) ==
    SumOf([i \in DOMAIN buckets |-> IF buckets[i].time >= time THEN buckets[i].rex ELSE 0])
Locked(owner, time) ==
    IF owner \in DOMAIN rexbal THEN LockedIn(rexbal[owner].maturities, time) ELSE 0

\* REX that is bought, or is taken out of savings, is locked for the whole of
\* the maturity period, and nothing shortens the lock of REX already held.
LockHeld ==
    [][\A o \in Owners, time \in (now + 1)..get_rex_maturity(Tables) :
         now' = now =>
           Locked(o, time)' >= Locked(o, time) + Max({0, Holding(o)' - Holding(o)})]_vars

\* The proceeds of name bids that are put down for REX leave eosio.names for
\* eosio.rex when they are struck off, never into nothing.
NamebidsReachRex ==
    [][namebid_proceeds' < namebid_proceeds =>
         Balance(names_account) - Balance(names_account)' = namebid_proceeds - namebid_proceeds']_vars

\* An order in the queue is filled, unless its owner cancels it: loans that
\* lend out what it asks for are not renewed while it waits.
OpenOrderFilled == \A o \in Owners : IsOpen(Tables, o) ~> ~IsOpen(Tables, o)

\* sellrex's header: an order that is filled adds its proceeds to the fund.
\* The owner of a filled order can collect them.
ProceedsCollectable == \A o \in FilledOrders : update_rex_account(Tables, o, 0, 0).ok
=============================================================================
