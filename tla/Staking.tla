------------------------------ MODULE Staking -------------------------------
(***************************************************************************)
(* Staking for bandwidth and the purchase of RAM (delegate_bandwidth.cpp), *)
(* with the limits that both give an account (eosio.system.cpp).  Of the   *)
(* tables t, beside those of Voting and RamMarket,                         *)
(*   now      the block, of half a second                                  *)
(*   ledger   balance rows of the core token                               *)
(*   delband  net and cpu that one account has delegated to another        *)
(*   userres  net, cpu and RAM of an account, in all                       *)
(*   refunds  net, cpu and request time of the refund an account waits for *)
(*   deferred the deferred refunds: the block from which each may be run   *)
(*   limits   what the chain enforces for an account                       *)
(***************************************************************************)
EXTENDS Voting, RamMarket

CONSTANTS
    stake_account, ram_account, ramfee_account, rex_account,
    rex_available,      \* whether REX takes the fees for RAM
    network_activated,  \* whether tokens may be unstaked
    refund_delay,       \* three days, in blocks
    ram_gift_bytes      \* 1400

ASSUME StakingAssumption ==
    /\ {rex_available, network_activated} \subseteq BOOLEAN
    /\ {refund_delay, ram_gift_bytes} \subseteq Nat
    /\ stake_account \notin {ram_account, ramfee_account, rex_account}
    /\ ram_account \notin {ramfee_account, rex_account}

transfer(t, from, to, v) ==
    IF CanTransfer(t.ledger, from, to, v)
    THEN [t EXCEPT !.ledger = Transferred(@, from, to, v)] ELSE Check(t, FALSE)

Kinds == {"net", "cpu"}
Weights(net, cpu) == [net |-> net, cpu |-> cpu]
NoWeights == Weights(0, 0)
Plus(w, d) == Weights(w.net + d.net, w.cpu + d.cpu)
Minus(w, d) == Weights(w.net - d.net, w.cpu - d.cpu)
Positive(w) == Weights(Max({w.net, 0}), Max({w.cpu, 0}))
Sum2(w) == w.net + w.cpu

Resources(t, a) ==
    IF a \in DOMAIN t.userres THEN t.userres[a] ELSE [weights |-> NoWeights, ram |-> 0]
Managed(t, a) == IF a \in DOMAIN t.voters THEN t.voters[a].managed ELSE {}

\* The row that an account is created with, and its limits.
NewResources == [weights |-> NoWeights, ram |-> 0]
NewLimits == [ram |-> 0, net |-> 0, cpu |-> 0]

-----------------------------------------------------------------------------
(* RAM                                                                     *)

set_ram_limit(t, a) ==
    IF "ram" \in Managed(t, a) THEN t
    ELSE [t EXCEPT !.limits[a].ram = Resources(t, a).ram + ram_gift_bytes]

channel_to_rex(t, fee) ==
    IF rex_available THEN transfer(t, ramfee_account, rex_account, fee) ELSE t

PayRamFee(t, payer, fee) == channel_to_rex(transfer(t, payer, ramfee_account, fee), fee)

OwnRam(t, a, bytes) ==
    LET row == [Resources(t, a) EXCEPT !.ram = @ + bytes] IN [t EXCEPT !.userres = Put(@, a, row)]

buyram(t, payer, receiver, quant) ==
    LET u == update_ram_supply(t)
        fee == RamFee(quant)
        rest == quant - fee
        bytes == BytesFor(u.market, rest)
        paid == PayRamFee(transfer(u, payer, ram_account, rest), payer, fee)
        bought == [paid EXCEPT !.market = BytesBought(@, rest),
                               !.ram.reserved = @ + bytes,
                               !.ram.stake = @ + rest]
    IN  IF quant <= 0 \/ rest <= 0 THEN Check(t, FALSE)
        ELSE Check(set_ram_limit(OwnRam(bought, receiver, bytes), receiver), bytes > 0)

\* The price is that before the supply of RAM is updated.
buyrambytes(t, payer, receiver, bytes) ==
    LET cost == get_bancor_input(t.market.base, t.market.quote, bytes)
    IN  buyram(t, payer, receiver, (cost * 1000) \div 995)

sellram(t, account, bytes) ==
    LET u == update_ram_supply(t)
        tokens == TokensFor(u.market, bytes)
        sold == [u EXCEPT !.market = BytesSold(@, bytes),
                          !.ram.reserved = @ - bytes,
                          !.ram.stake = @ - tokens]
        limited == set_ram_limit(OwnRam(sold, account, -bytes), account)
        fee == RamFee(tokens)
    IN  IF bytes <= 0 \/ Resources(t, account).ram < bytes THEN Check(t, FALSE)
        ELSE Check(PayRamFee(transfer(limited, ram_account, account, tokens), account, fee),
                   tokens > 1 /\ sold.ram.stake >= 0)

-----------------------------------------------------------------------------
(* Bandwidth                                                               *)

NonNegative(w) == w.net >= 0 /\ w.cpu >= 0

delegated_Unchecked(t, from, receiver, delta) ==
    LET key == <<from, receiver>>
        w == Plus(IF key \in DOMAIN t.delband THEN t.delband[key] ELSE NoWeights, delta)
    IN  [t EXCEPT !.delband = IF w = NoWeights THEN Erase(@, key) ELSE Put(@, key, w)]

delegated(t, from, receiver, delta) ==
    LET key == <<from, receiver>>
        w == Plus(IF key \in DOMAIN t.delband THEN t.delband[key] ELSE NoWeights, delta)
    IN  Check([t EXCEPT !.delband = IF w = NoWeights THEN Erase(@, key) ELSE Put(@, key, w)],
              NonNegative(w))

Limits_EvenIfManaged(t, a, row) ==
    [ram |-> Max({row.ram + ram_gift_bytes, t.limits[a].ram}),
     net |-> row.weights.net, cpu |-> row.weights.cpu]

\* The limits that a row gives, but for those that are managed.
Limits(t, a, row) ==
    LET managed == Managed(t, a)
        limits == t.limits[a]
    IN  IF Kinds \subseteq managed THEN limits
        ELSE [ram |-> IF "ram" \in managed THEN limits.ram
                      ELSE Max({row.ram + ram_gift_bytes, limits.ram}),
              net |-> IF "net" \in managed THEN limits.net ELSE row.weights.net,
              cpu |-> IF "cpu" \in managed THEN limits.cpu ELSE row.weights.cpu]

updated_totals(t, receiver, delta) ==
    LET old == Resources(t, receiver)
        row == [old EXCEPT !.weights = Plus(@, delta)]
        empty == row.weights = NoWeights /\ row.ram = 0
    IN  Check([t EXCEPT !.limits[receiver] = Limits(t, receiver, row),
                        !.userres = IF empty THEN Erase(@, receiver) ELSE Put(@, receiver, row)],
              NonNegative(row.weights))

\* A time_point_sec drops the half of a second.
Seconds(time) == time - (time % 2)

request_time_OfFirst(t, r, delta) == IF r.weights = NoWeights THEN Seconds(t.now) ELSE r.request_time

request_time(t, r, delta) ==
    IF delta.net < 0 \/ delta.cpu < 0 THEN Seconds(t.now) ELSE r.request_time

Rescheduled_IfNone(t, a) ==
    IF a \in DOMAIN t.deferred THEN t.deferred ELSE Put(t.deferred, a, t.now + refund_delay)
Rescheduled(t, a) == Put(t.deferred, a, t.now + refund_delay)

Shortfall_All(weights, delta) == Positive(delta)

\* What is left of a refund, and what it lacks for a stake.
Remaining(weights, delta) == Positive(Minus(weights, delta))
Shortfall(weights, delta) == Positive(Minus(delta, weights))

\* What is unstaked adds to the refund and what an account stakes for itself
\* is taken from it first; the rest is paid by the source.  The deferred
\* refund is sent anew if one is needed, and canceled otherwise.
updated_refund(t, source, from, delta, touched) ==
    LET r == IF from \in DOMAIN t.refunds THEN t.refunds[from]
             ELSE [request_time |-> 0, weights |-> NoWeights]
        rest == IF touched THEN Remaining(r.weights, delta) ELSE r.weights
        balance == IF touched THEN Shortfall(r.weights, delta) ELSE delta
        row == [request_time |-> IF touched THEN request_time(t, r, delta) ELSE r.request_time,
                weights |-> rest]
        needed == touched /\ rest # NoWeights
        changed == [t EXCEPT !.refunds = IF rest = NoWeights THEN Erase(@, from)
                                         ELSE Put(@, from, row),
                             !.deferred = IF needed THEN Rescheduled(t, from) ELSE Erase(@, from)]
    IN  IF Sum2(balance) > 0 THEN transfer(changed, source, stake_account, Sum2(balance)) ELSE changed

\* With transfer the stake is the receiver's own from then on.
changebw(t, source, receiver, delta, give) ==
    LET from == IF give THEN receiver ELSE source
        touched == (~give /\ from = receiver) \/ Sum2(delta) < 0
        staked == updated_totals(delegated(t, from, receiver, delta), receiver, delta)
        paid == IF source = stake_account THEN staked
                ELSE updated_refund(staked, source, from, delta, touched)
    IN  update_voting_power(paid, from, Sum2(delta))

delegatebw(t, from, receiver, delta, give) ==
    Check(changebw(t, from, receiver, delta, give),
          NonNegative(delta) /\ Sum2(delta) > 0 /\ (give => from # receiver))

undelegatebw(t, from, receiver, delta) ==
    Check(changebw(t, from, receiver, Minus(NoWeights, delta), FALSE),
          NonNegative(delta) /\ Sum2(delta) > 0 /\ network_activated)

refund(t, owner) ==
    LET r == t.refunds[owner]
    IN  IF owner \notin DOMAIN t.refunds THEN Check(t, FALSE)
        ELSE Check([transfer(t, stake_account, owner, Sum2(r.weights))
                      EXCEPT !.refunds = Erase(@, owner)],
                   r.request_time + refund_delay <= t.now)

-----------------------------------------------------------------------------
(* The administration                                                      *)

setram(t, max_ram_size) ==
    Check(MoreRam(t, max_ram_size - t.ram.max_ram_size),
          t.ram.max_ram_size < max_ram_size /\ t.ram.reserved < max_ram_size)

setramrate(t, bytes_per_block) ==
    [update_ram_supply(t) EXCEPT !.ram.new_ram_per_block = bytes_per_block]

setalimits(t, account, limits) ==
    Check([t EXCEPT !.limits[account] = limits],
          account \notin DOMAIN t.userres /\ Managed(t, account) = {})

\* setacctram, setacctnet and setacctcpu with a value,
Manage(t, account, kind, value) ==
    LET v == IF account \in DOMAIN t.voters THEN t.voters[account] ELSE NewVoter
        row == [v EXCEPT !.managed = @ \cup {kind}]
    IN  Check([t EXCEPT !.voters = Put(@, account, row), !.limits[account][kind] = value],
              value >= IF kind = "ram" THEN 0 ELSE -1)

\* and without one.
Unmanage(t, account, kind) ==
    LET r == Resources(t, account)
        value == IF kind = "ram" THEN r.ram + ram_gift_bytes ELSE r.weights[kind]
    IN  IF kind \notin Managed(t, account) THEN Check(t, FALSE)
        ELSE [t EXCEPT !.voters[account].managed = @ \ {kind}, !.limits[account][kind] = value]
=============================================================================
