------------------------------- MODULE Onblock -------------------------------
(***************************************************************************)
(* The chain produces blocks and runs onblock in each of them, while       *)
(* producers register and resign, are voted for and out, and claim their   *)
(* pay.  onblock gets the header of the block before, but asks the chain   *)
(* for the schedule of the present: a schedule that is proposed becomes    *)
(* pending and then active in blocks the contract does not choose.  When   *)
(* onblock aborts the block stands without it.                             *)
(***************************************************************************)
EXTENDS Producers

CONSTANTS
    Names,          \* the producers
    Keys, Votes,    \* the signing keys and the votes they may have
    Hours,          \* the penalties a vote may impose
    Rates,          \* the pay rates: [bpay_rate, worker_amount]
    MaxReserve,     \* eosio.tedp holds at most so much to begin with
    MaxSkips,       \* so many slots go by in all without a block
    MaxCalls,       \* so many actions are called in all
    MaxSlot         \* the last slot

ASSUME OnblockAssumption ==
    /\ Names \subseteq Nat \ {0} /\ IsFiniteSet(Names) /\ eosio \notin Names
    /\ Keys \subseteq Nat \ {0} /\ Keys # {} /\ Votes \subseteq Nat
    /\ \A rate \in Rates : rate.bpay_rate \in Nat /\ rate.worker_amount \in Nat
    /\ MaxReserve \in Nat

VARIABLES
    prods, rotation, metrics, elected, chain, pay, payments, ledger,
    head,           \* the last block: its slot and its producer
    confirmed,      \* who has produced since the schedules of the chain changed
    calls, skipped, \* how many actions were called and how many slots went by
    absent          \* who has let a slot go by, or was not a producer for a while

tables == <<prods, rotation, metrics, elected, chain, pay, payments, ledger>>
vars == <<tables, head, confirmed, calls, skipped, absent>>

Tables(now) ==
    [ok |-> TRUE, now |-> now, prods |-> prods, rotation |-> rotation, metrics |-> metrics,
     elected |-> elected, active |-> chain.active, pending |-> chain.pending,
     proposed |-> chain.proposed, pay |-> pay, payments |-> payments, ledger |-> ledger]

Write(t) ==
    /\ prods' = t.prods /\ rotation' = t.rotation /\ metrics' = t.metrics
    /\ elected' = t.elected /\ pay' = t.pay /\ payments' = t.payments /\ ledger' = t.ledger
    /\ chain' = [active |-> t.active, pending |-> t.pending, proposed |-> t.proposed]

Init ==
    /\ \E votes \in [Names -> Votes] :
         prods = [p \in Names |-> [NewProducer(Min(Keys)) EXCEPT !.total_votes = votes[p]]]
    /\ rotation = [bp_currently_out |-> 0, sbp_currently_in |-> 0,
                   bp_out_index |-> TOP_PRODUCERS, sbp_in_index |-> MAX_PRODUCERS + 1,
                   next_rotation_time |-> 0, last_rotation_time |-> 0]
    /\ metrics = [last_onblock_caller |-> 0, block_counter_correction |-> 0,
                  producers_metric |-> <<>>]
    /\ elected = [last_update |-> 0, size |-> 0]
    /\ chain = [active |-> <<[name |-> eosio, key |-> 1]>>, pending |-> <<>>, proposed |-> <<>>]
    /\ \E rate \in Rates :
         pay = [block_num |-> 0, activated |-> FALSE, last_claimrewards |-> 0,
                last_pervote_bucket_fill |-> 0, total_unpaid_blocks |-> 0,
                perblock_bucket |-> 0, bpay_rate |-> rate.bpay_rate,
                worker_amount |-> rate.worker_amount]
    /\ payments = <<>>
    /\ \E reserve \in {0, MaxReserve} :
         ledger = [tedp |-> reserve, bpay |-> 0, works |-> 0, owners |-> 0]
    /\ head = [slot |-> 1, producer |-> eosio]
    /\ confirmed = {}
    /\ calls = 0 /\ skipped = 0
    /\ absent = {}

-----------------------------------------------------------------------------
(* The chain                                                               *)

SlotProducer(slot) ==
    chain.active[((slot \div MAX_BLOCK_PER_CYCLE) % Len(chain.active)) + 1].name

\* A pending schedule becomes active, or a proposed one pending, once more
\* than two thirds of the producers have built on it.
Irreversible == 3 * Cardinality(confirmed) > 2 * Len(chain.active)
Taken(t) == [t EXCEPT !.active = t.pending, !.pending = <<>>]
Pended(t) == [t EXCEPT !.pending = t.proposed, !.proposed = <<>>]
Promotions(t) ==
    {t} \cup (IF Irreversible /\ t.pending # <<>> THEN {Taken(t)} ELSE {})
        \cup (IF Irreversible /\ t.pending = <<>> /\ t.proposed # <<>> THEN {Pended(t)} ELSE {})

\* A block, after slots that went by, with the onblock of the one before.
Produce ==
    \E slot \in head.slot + 1 .. Min({head.slot + 1 + MaxSkips - skipped, MaxSlot}) :
      \E t \in Promotions(Tables(slot)) :
        LET u == onblock(t, head.slot, head.producer)
        IN  /\ Write(IF u.ok THEN u ELSE t)
            /\ head' = [slot |-> slot, producer |-> SlotProducer(slot)]
            /\ absent' = absent \cup {SlotProducer(s) : s \in head.slot + 1 .. slot - 1}
            /\ confirmed' = {SlotProducer(slot)} \cup IF chain' = chain THEN confirmed ELSE {}
            /\ skipped' = skipped + slot - head.slot - 1
            /\ UNCHANGED calls

-----------------------------------------------------------------------------
(* The actions of the contract                                             *)

Called == calls < MaxCalls /\ calls' = calls + 1 /\ UNCHANGED <<head, confirmed, skipped>>

Now == Tables(head.slot)

\* regproducer and regproducer2.
regproducer(p, key) ==
    LET t == register_producer(Now, p, key)
    IN  Called /\ t.ok /\ Write(t) /\ UNCHANGED absent

\* unregprod, unregreason and rmvproducer.
unregprod(p) ==
    /\ Called
    /\ Registered(Now, p)
    /\ Write(deactivate(Now, p))
    /\ absent' = absent \cup {p}

votebpout(p, penalty_hours) ==
    /\ Called
    /\ Registered(Now, p)
    /\ Write(kick(Now, p, penalty_hours))
    /\ absent' = absent \cup {p}

\* update_votes changes what a producer has in votes.
update_votes(p, votes) ==
    /\ Called
    /\ Registered(Now, p)
    /\ Write([Now EXCEPT !.prods[p].total_votes = votes])
    /\ UNCHANGED absent

claimed_KeepsPayment(t, owner) ==
    Check(transfer(t, "bpay", "owners", t.payments[owner]), t.payments[owner] > 0)

\* A transfer of nothing is refused.
claimed(t, owner) ==
    Check([transfer(t, "bpay", "owners", t.payments[owner])
             EXCEPT !.payments = Erase(@, owner)],
          t.payments[owner] > 0)

claimrewards(owner) ==
    /\ Called
    /\ Active(Now, owner) /\ pay.activated /\ owner \in DOMAIN payments
    /\ claimed(Now, owner).ok
    /\ Write(claimed(Now, owner))
    /\ UNCHANGED absent

setpayrates(rate) ==
    /\ Called
    /\ Write([Now EXCEPT !.pay.bpay_rate = rate.bpay_rate,
                         !.pay.worker_amount = rate.worker_amount])
    /\ UNCHANGED absent

Next ==
    \/ Produce
    \/ \E p \in Names :
         \/ \E key \in Keys : regproducer(p, key)
         \/ unregprod(p)
         \/ \E hours \in Hours : votebpout(p, hours)
         \/ \E v \in Votes : update_votes(p, v)
         \/ claimrewards(p)
    \/ \E rate \in Rates : setpayrates(rate)

Spec == Init /\ [][Next]_vars

-----------------------------------------------------------------------------
(* Properties                                                              *)

TypeOK ==
    /\ DOMAIN prods \subseteq Names
    /\ \A p \in DOMAIN prods :
         /\ prods[p].total_votes \in Nat
         /\ IF prods[p].is_active THEN prods[p].key \in Keys ELSE prods[p].key = 0
         /\ {prods[p].unpaid_blocks, prods[p].missed_blocks_per_rotation,
             prods[p].lifetime_missed_blocks, prods[p].times_kicked} \subseteq Nat
    /\ {rotation.bp_currently_out, rotation.sbp_currently_in} \subseteq Names \cup {0}
    /\ rotation.bp_out_index \in 0..TOP_PRODUCERS
    /\ rotation.sbp_in_index \in TOP_PRODUCERS..MAX_PRODUCERS + 1
    /\ \A i \in 1..Len(metrics.producers_metric) :
         /\ metrics.producers_metric[i].bp_name \in Names
         /\ metrics.producers_metric[i].missed \in 0..uint32_range - 1
    /\ elected.size = Len(metrics.producers_metric) /\ elected.size \in 0..TOP_PRODUCERS
    /\ chain.active # <<>> /\ Len(chain.active) <= TOP_PRODUCERS
    /\ DOMAIN payments \subseteq Names /\ \A p \in DOMAIN payments : payments[p] \in Int
    /\ \A account \in DOMAIN ledger : ledger[account] \in Nat
    /\ pay.perblock_bucket \in Int /\ pay.total_unpaid_blocks \in Nat

\* The blocks that onblock counts one by one, at the producer and in the
\* global row, are paid off together: the total is that of the producers,
\* whoever is kicked, resigns or returns between two snapshots.
UnpaidBlocksAccounted ==
    pay.total_unpaid_blocks = SumOf([p \in DOMAIN prods |-> prods[p].unpaid_blocks])

\* What eosio.bpay holds is the bucket and the payments that snapshots have
\* taken out of it, which the owners may claim or leave to pile up,
BpayCovers == ledger.bpay = pay.perblock_bucket + SumOf(payments)

\* and no snapshot hands out more than there is in the bucket.
PaymentsBacked == BpayCovers /\ pay.perblock_bucket >= 0

\* Who is scheduled produces in its place, and nobody in two: the schedule
\* that the votes and the rotation now call for is one the chain accepts.
ScheduledOnce ==
    LET t == [Now EXCEPT !.now = head.slot + 1]
    IN  IsInjective([i \in 1..Len(check_rotation_state(t, Candidates(t), head.slot).top) |->
                       check_rotation_state(t, Candidates(t), head.slot).top[i].name])

\* A producer that has stayed and has filled all its slots is not charged
\* with a missed block, whatever schedules come and go and whoever else
\* misses blocks or leaves.
PunctualNotCharged ==
    \A p \in DOMAIN prods \ absent : prods[p].missed_blocks_per_rotation = 0

\* Nobody is charged with more blocks than there were slots since the last
\* rotation, though schedules start and end within a producer's turn.
ChargesWithinTime ==
    \A p \in DOMAIN prods :
      prods[p].missed_blocks_per_rotation <= head.slot - rotation.last_rotation_time

Eligible(r) == r.is_active /\ r.total_votes > 0

\* Every schedule that onblock proposes has the active producers with the
\* most votes, as many as there are places, but for one of them who may have
\* changed places with a standby.
ProposesTheMostVoted ==
    [][ LET members == {chain'.proposed[i].name : i \in 1..Len(chain'.proposed)}
            eligible == {p \in DOMAIN prods' : Eligible(prods'[p])}
        IN  chain'.proposed \notin {<<>>, chain.proposed} =>
              /\ members \subseteq eligible
              /\ Cardinality(members) = Min({TOP_PRODUCERS, Cardinality(eligible)})
              /\ \E in \in members, out \in Names :
                   \A q \in members \ {in}, p \in eligible \ (members \cup {out}) :
                     prods'[p].total_votes <= prods'[q].total_votes
      ]_vars
=============================================================================
