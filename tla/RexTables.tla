------------------------------ MODULE RexTables ------------------------------
(***************************************************************************)
(* The tables of rex.cpp and what its helpers do to them.  A helper takes  *)
(* the tables and returns them changed, as the C++ helpers change them in  *)
(* place, so that an action reads as the sequence of the calls it makes.   *)
(* A check that fails aborts the whole transaction: it clears the field    *)
(* ok, and an action is possible only if ok is still set at its end.       *)
(*                                                                         *)
(* The fields of the tables t:                                             *)
(*   ok                no check has failed                                 *)
(*   now               current_time_point()                                *)
(*   ledger            balance rows of the core token                      *)
(*   pool              rexpool, without the next two fields of the row     *)
(*   namebid_proceeds  what is to be channeled from eosio.names            *)
(*   loan_num          the number of the last loan                         *)
(*   funds             rexfund: the REX fund of each owner that has one    *)
(*   bal               rexbal, by owner                                    *)
(*   orders            rexqueue, by owner                                  *)
(*   loans             cpuloan and netloan, by loan number                 *)
(*   staked            voters: the stake counted in the vote               *)
(*   limits            userres: the CPU and NET weight of each receiver    *)
(***************************************************************************)
EXTENDS Ledger, RexPool, SequencesExt, TLC

CONSTANTS
    Owners,         \* the accounts that use REX: names are numbers
    rex_account, names_account,
    seconds_per_day,
    num_of_maturity_buckets,  \* 5 in the code
    loan_term,                \* 30 days
    end_of_days               \* time_point_sec::maximum(), the savings bucket

ASSUME RexTablesAssumption ==
    /\ Owners \subseteq Nat /\ IsFiniteSet(Owners)
    /\ rex_account # names_account
    /\ {rex_account, names_account} \cap Owners = {}
    /\ seconds_per_day \in Nat \ {0}
    /\ num_of_maturity_buckets \in Nat \ {0}
    /\ loan_term \in Nat \ {0}
    /\ end_of_days \in Nat

Kinds == {"cpu", "net"}

\* The rows of maturities, cpuloan and netloan, and rexqueue.
Bucket == [time : Nat, rex : Nat]
Loan == [kind : Kinds, from : Owners, receiver : Owners, payment : Nat, balance : Nat,
         total_staked : Nat, expiration : Nat]
Order == [rex_requested : Nat, is_open : BOOLEAN, proceeds : Nat, stake_change : Int,
          order_time : Nat]

Check(t, condition) == [t EXCEPT !.ok = @ /\ condition]

\* An inline transfer of the core token.
transfer(t, from, to, v) ==
    IF CanTransfer(t.ledger, from, to, v)
    THEN [t EXCEPT !.ledger = Transferred(@, from, to, v)] ELSE Check(t, FALSE)

-----------------------------------------------------------------------------
(* Funds, stakes and resource limits                                       *)

transfer_from_fund(t, owner, v) ==
    IF v > 0 /\ CanSub(t.funds, owner, v)
    THEN [t EXCEPT !.funds = Sub(@, owner, v)] ELSE Check(t, FALSE)

transfer_to_fund(t, owner, v) == [Check(t, v > 0) EXCEPT !.funds = Add(@, owner, v)]

update_voting_power(t, voter, delta) ==
    Check([t EXCEPT !.staked[voter] = @ + delta], t.staked[voter] + delta >= 0)

update_resource_limits(t, receiver, kind, delta) ==
    Check([t EXCEPT !.limits[receiver][kind] = @ + delta], t.limits[receiver][kind] + delta >= 0)

IsOpen(t, owner) == owner \in DOMAIN t.orders /\ t.orders[owner].is_open
IsFilled(t, owner) == owner \in DOMAIN t.orders /\ ~t.orders[owner].is_open
rex_in_sell_order(t, owner) == IF IsOpen(t, owner) THEN t.orders[owner].rex_requested ELSE 0

update_rex_account_WithoutErase(t, owner, other_proceeds, delta_stake) ==
    LET filled == IsFilled(t, owner)
        to_fund == other_proceeds + IF filled THEN t.orders[owner].proceeds ELSE 0
        funded == IF to_fund > 0 THEN transfer_to_fund(t, owner, to_fund) ELSE t
    IN  update_voting_power(funded, owner, delta_stake)

\* The owner collects a filled order, along with other proceeds and stake.
update_rex_account(t, owner, other_proceeds, delta_stake) ==
    LET filled == IsFilled(t, owner)
        to_fund == other_proceeds + IF filled THEN t.orders[owner].proceeds ELSE 0
        to_stake == delta_stake + IF filled THEN t.orders[owner].stake_change ELSE 0
        erased == IF filled THEN [t EXCEPT !.orders = Erase(@, owner)] ELSE t
        funded == IF to_fund > 0 THEN transfer_to_fund(erased, owner, to_fund) ELSE erased
    IN  IF to_stake # 0 THEN update_voting_power(funded, owner, to_stake) ELSE funded

\* With force_vote_update the stake is checked even if it did not change.
force_vote_update(t, voter) == Check(t, t.staked[voter] >= 0)

-----------------------------------------------------------------------------
(* Maturities: a deque of buckets, the savings bucket at its end           *)

InBuckets(buckets) == SumOf([i \in DOMAIN buckets |-> buckets[i].rex])

get_rex_maturity(t) ==
    t.now - (t.now % seconds_per_day) + num_of_maturity_buckets * seconds_per_day

\* The buckets at the front whose time has come are matured.
process_rex_maturities(b, time) ==
    LET q == b.maturities
        n == Max({k \in 0..Len(q) : \A i \in 1..k : q[i].time <= time})
    IN  [b EXCEPT !.matured = @ + InBuckets(SubSeq(q, 1, n)),
                  !.maturities = SubSeq(q, n + 1, Len(q))]

HasSavings(b) == b.maturities # <<>> /\ Last(b.maturities).time = end_of_days
read_rex_savings(b) == IF HasSavings(b) THEN Last(b.maturities).rex ELSE 0
WithoutSavings_Peeked(b) == b
WithoutSavings(b) == IF HasSavings(b) THEN [b EXCEPT !.maturities = Front(@)] ELSE b

AddBucket_ToAnyBucket(b, time, rex) ==
    IF b.maturities # <<>>
    THEN [b EXCEPT !.maturities[Len(b.maturities)].rex = @ + rex]
    ELSE [b EXCEPT !.maturities = Append(@, [time |-> time, rex |-> rex])]

AddBucket_WithoutMerge(b, time, rex) ==
    [b EXCEPT !.maturities = Append(@, [time |-> time, rex |-> rex])]

\* REX added to the last bucket if that has the given time, or else to a new one.
AddBucket(b, time, rex) ==
    IF b.maturities # <<>> /\ Last(b.maturities).time = time
    THEN [b EXCEPT !.maturities[Len(b.maturities)].rex = @ + rex]
    ELSE [b EXCEPT !.maturities = Append(@, [time |-> time, rex |-> rex])]

put_rex_savings(b, rex) == IF rex = 0 THEN b ELSE AddBucket(b, end_of_days, rex)

\* Takes what is missing from the bucket at the back, which goes when empty.
TakeFromLast(s) ==
    IF s.missing = 0 \/ s.left = <<>> THEN s
    ELSE IF Last(s.left).rex <= s.missing
    THEN [missing |-> s.missing - Last(s.left).rex, left |-> Front(s.left)]
    ELSE [missing |-> 0, left |-> [s.left EXCEPT ![Len(s.left)].rex = @ - s.missing]]

\* The buckets after an amount of REX has been taken from the back, and how
\* much of the amount they did not hold.
TakeFromBack(buckets, rex) ==
    LET s[i \in 0..Len(buckets)] ==
          IF i = 0 THEN [missing |-> rex, left |-> buckets] ELSE TakeFromLast(s[i - 1])
    IN  s[Len(buckets)]

-----------------------------------------------------------------------------
(* Buying and selling                                                      *)

\* What an amount of REX is worth.
StakeValue(pool, rex) == MulDiv(rex, pool.total_lendable, pool.total_rex)

add_to_rex_balance(t, owner, payment, received) ==
    LET b == IF owner \in DOMAIN t.bal
             THEN LET rex == t.bal[owner].rex_balance + received
                  IN  [t.bal[owner] EXCEPT !.rex_balance = rex,
                                           !.vote_stake = StakeValue(t.pool, rex)]
             ELSE [vote_stake |-> payment, rex_balance |-> received,
                   matured |-> 0, maturities |-> <<>>]
        regular == process_rex_maturities(WithoutSavings(b), t.now)
        added == AddBucket(regular, get_rex_maturity(t), received)
    IN  [t EXCEPT !.bal = Put(@, owner, put_rex_savings(added, read_rex_savings(b)))]

\* The tables once payment, already in eosio.rex, has bought REX for owner.
Bought(t, owner, payment) ==
    LET received == rex_received(t.pool, payment)
    IN  add_to_rex_balance([t EXCEPT !.pool = add_to_rex_pool(@, payment)],
                           owner, payment, received)

StakeDelta_FromNothing(t, u, owner) == u.bal[owner].vote_stake

\* The change in an owner's vote stake from the tables t to the tables u.
StakeDelta(t, u, owner) ==
    u.bal[owner].vote_stake - IF owner \in DOMAIN t.bal THEN t.bal[owner].vote_stake ELSE 0

\* fill_rex_order, for an order that CanFill.
FillOrder(t, owner, rex) ==
    LET p == proceeds(t.pool, rex)
        b == t.bal[owner]
        value == StakeValue(t.pool, b.rex_balance)
    IN  [t EXCEPT !.pool = fill_rex_order(@, rex),
                  !.bal[owner] = [b EXCEPT !.vote_stake = value - p,
                                           !.rex_balance = @ - rex,
                                           !.matured = @ - rex]]

-----------------------------------------------------------------------------
(* runrex: at most max expired loans of each kind, and max orders          *)

rex_loans_available_EvenWithOrders(t) == rex_available(t.pool)
rex_loans_available(t) == rex_available(t.pool) /\ \A o \in DOMAIN t.orders : ~IsOpen(t, o)

ChannelNamebids(t) ==
    LET v == t.namebid_proceeds
        kept == [t EXCEPT !.namebid_proceeds = 0]
    IN  IF v > 0 /\ rex_available(t.pool)
        THEN [transfer(kept, names_account, rex_account, v) EXCEPT !.pool = channel_to_rex(@, v)]
        ELSE kept

delta_stake_IfNew(loan, rented) == rented
delta_stake(loan, rented) == rented - loan.total_staked

process_expired_loan(t, num) ==
    LET loan == t.loans[num]
        pool == remove_loan_from_rex_pool(t.pool, loan.total_staked)
        removed == [t EXCEPT !.pool = pool]
        rented == rented_tokens(pool, loan.payment)
        renew_loan == /\ loan.payment <= loan.balance
                      /\ loan.payment < rented
                      /\ rex_loans_available(removed)
        renewed == [t EXCEPT !.pool = add_loan_to_rex_pool(pool, loan.payment, rented),
                             !.loans[num] = [loan EXCEPT !.total_staked = rented,
                                                         !.expiration = @ + loan_term,
                                                         !.balance = @ - loan.payment]]
        refunded == IF loan.balance > 0
                    THEN transfer_to_fund(removed, loan.from, loan.balance) ELSE removed
        deleted == [refunded EXCEPT !.loans = Erase(@, num)]
    IN  IF renew_loan
        THEN update_resource_limits(renewed, loan.receiver, loan.kind, delta_stake(loan, rented))
        ELSE update_resource_limits(deleted, loan.receiver, loan.kind, -loan.total_staked)

\* Before another in an index by time: ties are in the order of the primary key.
Before(a, atime, b, btime) == atime < btime \/ (atime = btime /\ a <= b)

\* The first of a set of loans by expiration.
FirstLoan(t, S) ==
    CHOOSE n \in S : \A m \in S : Before(n, t.loans[n].expiration, m, t.loans[m].expiration)

ProcessFirstLoan(t, kind) ==
    LET loans == {n \in DOMAIN t.loans : t.loans[n].kind = kind}
    IN  IF loans # {} /\ t.loans[FirstLoan(t, loans)].expiration <= t.now
        THEN process_expired_loan(t, FirstLoan(t, loans)) ELSE t

ProcessLoans(t, kind, max) ==
    LET u[i \in 0..max] == IF i = 0 THEN t ELSE ProcessFirstLoan(u[i - 1], kind)
    IN  u[max]

\* The owners of open orders in the order of the index by time.
OpenOrders(t) ==
    SetToSortSeq({o \in DOMAIN t.orders : IsOpen(t, o)},
                 LAMBDA a, b : Before(a, t.orders[a].order_time, b, t.orders[b].order_time))

ProcessOrder(t, owner) ==
    LET rex == t.orders[owner].rex_requested
        filled == FillOrder(t, owner, rex)
    IN  IF IsOpen(t, owner) /\ CanFill(t.pool, rex)
        THEN [filled EXCEPT !.orders[owner] =
                [@ EXCEPT !.proceeds = proceeds(t.pool, rex),
                          !.stake_change = StakeDelta(t, filled, owner),
                          !.is_open = FALSE]]
        ELSE t

ProcessOrders(t, max) ==
    LET q == OpenOrders(t)
        u[i \in 0..max] == IF i = 0 THEN t
                           ELSE IF i > Len(q) THEN u[i - 1] ELSE ProcessOrder(u[i - 1], q[i])
    IN  u[max]

runrex_NamebidsLast(t, max) ==
    ChannelNamebids(ProcessOrders(ProcessLoans(ProcessLoans(t, "cpu", max), "net", max), max))

runrex(t, max) ==
    ProcessOrders(ProcessLoans(ProcessLoans(ChannelNamebids(t), "cpu", max), "net", max), max)
=============================================================================
