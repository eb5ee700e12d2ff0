------------------------------ MODULE Producers ------------------------------
(***************************************************************************)
(* What the system contract does to its block producers on every block:    *)
(* it elects and rotates them (system_rotation.cpp, voting.cpp), counts    *)
(* the blocks they miss and kicks those who miss too many                  *)
(* (system_kick.cpp), and pays them (producer_pay.cpp).  As in RexTables,  *)
(* a helper takes the tables t and returns them changed, and a check that  *)
(* fails clears t.ok.  Names are numbers, 0 is name(0), and times are      *)
(* slots of half a second, 0 the time that is not set.                     *)
(*                                                                         *)
(* The fields of the tables t:                                             *)
(*   ok, now   no check has failed; the slot of the block being produced   *)
(*   prods     producers: a record for each name that has registered       *)
(*   rotation  the rotations singleton                                     *)
(*   metrics   schedulemetr: who was last seen, the correction, and the    *)
(*             blocks each producer of the schedule is yet to produce      *)
(*   elected   last_producer_schedule_update and _size of the global row   *)
(*   active    the chain's schedule: a sequence of [name, key]             *)
(*   pending   the schedule that the chain takes up next, <<>> if none     *)
(*   proposed  the schedule that becomes the pending one, <<>> if none     *)
(*   pay       the other fields of the global row, which are about pay     *)
(*   payments  payments: what each producer may claim                      *)
(*   ledger    balances of eosio.tedp, eosio.bpay, works.decide and owners *)
(***************************************************************************)
EXTENDS Ledger, Sequences, Functions

CONSTANTS
    TOP_PRODUCERS, MAX_PRODUCERS,   \* 21 and 42
    MAX_BLOCK_PER_CYCLE,            \* 12
    kick_share,                     \* 7: at most one in so many is kicked
    missed_percent,                 \* 15
    rotation_interval,              \* twelve hours, in slots
    schedule_interval,              \* 120
    snapshot_interval,              \* 3600
    slots_per_hour,
    block_num_network_activation,
    uint32_range,                   \* 2^32
    eosio                           \* the name of the system account

ASSUME ProducersAssumption ==
    /\ TOP_PRODUCERS \in Nat \ {0} /\ MAX_PRODUCERS \in Nat /\ MAX_PRODUCERS > TOP_PRODUCERS
    /\ {MAX_BLOCK_PER_CYCLE, kick_share, rotation_interval} \subseteq Nat \ {0}
    /\ {missed_percent, schedule_interval, snapshot_interval, slots_per_hour} \subseteq Nat
    /\ block_num_network_activation \in Nat
    /\ uint32_range \in Nat /\ uint32_range > MAX_BLOCK_PER_CYCLE
    /\ eosio \in Nat \ {0}

Check(t, condition) == [t EXCEPT !.ok = @ /\ condition]

Registered(t, p) == p \in DOMAIN t.prods
Active(t, p) == Registered(t, p) /\ t.prods[p].is_active
NameOf(entry) == entry.name

-----------------------------------------------------------------------------
(* Registration and removal                                                *)

deactivate_KeepsKey(t, p) == [t EXCEPT !.prods[p].is_active = FALSE]

deactivate(t, p) == [t EXCEPT !.prods[p].is_active = FALSE, !.prods[p].key = 0]

\* Kicking adds the missed blocks to those of a lifetime.
kick(t, p, penalty) ==
    LET out == deactivate(t, p)
    IN  [out EXCEPT !.prods[p] =
           [out.prods[p] EXCEPT
              !.times_kicked = @ + 1,
              !.last_time_kicked = t.now,
              !.kick_penalty_hours = penalty,
              !.lifetime_missed_blocks = @ + t.prods[p].missed_blocks_per_rotation,
              !.missed_blocks_per_rotation = 0]]

NewProducer(key) ==
    [total_votes |-> 0, key |-> key, is_active |-> TRUE, unpaid_blocks |-> 0,
     missed_blocks_per_rotation |-> 0, lifetime_missed_blocks |-> 0,
     times_kicked |-> 0, kick_penalty_hours |-> 0, last_time_kicked |-> 0]

register_producer(t, p, key) ==
    IF Registered(t, p)
    THEN Check([t EXCEPT !.prods[p].key = key, !.prods[p].is_active = TRUE],
               t.now > t.prods[p].last_time_kicked
                         + t.prods[p].kick_penalty_hours * slots_per_hour)
    ELSE [t EXCEPT !.prods = Put(@, p, NewProducer(key))]

-----------------------------------------------------------------------------
(* Rotation: one of the top producers and one of the standbys swap places  *)

set_bps_rotation(t, out, in) ==
    [t EXCEPT !.rotation.bp_currently_out = out, !.rotation.sbp_currently_in = in]

restart_missed_blocks_per_rotation(t, schedule) ==
    LET Restarted(p, r) ==
          IF p \notin {schedule[i].name : i \in 1..Len(schedule)} THEN r
          ELSE [r EXCEPT !.times_kicked =
                           IF @ > 0 /\ r.missed_blocks_per_rotation = 0 THEN @ - 1 ELSE @,
                         !.lifetime_missed_blocks = @ + r.missed_blocks_per_rotation,
                         !.missed_blocks_per_rotation = 0]
    IN  [t EXCEPT !.prods = [p \in DOMAIN @ |-> Restarted(p, @[p])]]

\* The position of a name in a schedule, 0 if it is not there.
Position(schedule, name) ==
    Max({0} \cup {i \in 1..Len(schedule) : schedule[i].name = name})

\* The next of the top producers goes out, and the next standby comes in.
RotationDue(t, schedule, time) ==
    LET last == Len(schedule) - 1
        r == t.rotation
        out == IF r.bp_out_index >= TOP_PRODUCERS - 1 THEN 0 ELSE r.bp_out_index + 1
        in == IF r.sbp_in_index >= last THEN TOP_PRODUCERS ELSE r.sbp_in_index + 1
        swapped == [set_bps_rotation(t, schedule[out + 1].name, schedule[in + 1].name)
                      EXCEPT !.rotation.bp_out_index = out, !.rotation.sbp_in_index = in]
        timed(u) == [u EXCEPT !.rotation.last_rotation_time = time,
                              !.rotation.next_rotation_time = time + rotation_interval]
        many == Len(schedule) > TOP_PRODUCERS
    IN  [t |-> restart_missed_blocks_per_rotation(timed(IF many THEN swapped ELSE t), schedule),
         swap |-> IF many THEN <<out + 1, in + 1>> ELSE <<0, 0>>]

\* The swap that is under way goes on, if both are still in their places.
RotationHeld(t, schedule) ==
    LET r == t.rotation
        out == Position(schedule, r.bp_currently_out)
        in == Position(schedule, r.sbp_currently_in)
        cleared == set_bps_rotation(t, 0, 0)
        reset == [cleared EXCEPT !.rotation.bp_out_index = TOP_PRODUCERS,
                                 !.rotation.sbp_in_index = MAX_PRODUCERS + 1]
        inPlace == out \in 1..TOP_PRODUCERS /\ in \in TOP_PRODUCERS + 1..MAX_PRODUCERS
    IN  CASE r.bp_currently_out = 0 \/ r.sbp_currently_in = 0 -> [t |-> t, swap |-> <<0, 0>>]
          [] r.bp_currently_out # 0 /\ r.sbp_currently_in # 0 /\ (out = 0 \/ in = 0) ->
               [t |-> IF Len(schedule) < TOP_PRODUCERS THEN reset ELSE cleared,
                swap |-> <<0, 0>>]
          [] OTHER ->
               IF Len(schedule) > TOP_PRODUCERS /\ ~inPlace
               THEN [t |-> cleared, swap |-> <<0, 0>>] ELSE [t |-> t, swap |-> <<out, in>>]

\* The tables, and the producers of the schedule in the order of their votes.
check_rotation_state(t, schedule, time) ==
    LET rotated == IF t.rotation.next_rotation_time <= time
                   THEN RotationDue(t, schedule, time) ELSE RotationHeld(t, schedule)
        out == rotated.swap[1]
        in == rotated.swap[2]
        top == SubSeq(schedule, 1, Min({TOP_PRODUCERS, Len(schedule)}))
    IN  [t |-> rotated.t,
         top |-> IF rotated.swap = <<0, 0>> THEN top
                 ELSE [i \in 1..Len(top) |-> IF i = out THEN schedule[in] ELSE schedule[i]]]

-----------------------------------------------------------------------------
(* Election                                                                *)

\* The elements of S in the order of before, a set of pairs: the first has no
\* other before it.
Ranked(S, before) ==
    [i \in 1..Cardinality(S) |->
       CHOOSE x \in S : Cardinality({y \in S : <<y, x>> \in before}) = i - 1]

\* Of a sequence the elements up to the first that is not in S, max at most.
Leading(s, S, max) ==
    SubSeq(s, 1, Max({k \in 0..Min({max, Len(s)}) : \A i \in 1..k : s[i] \in S}))

by_votes_Unsigned(r) == -r.total_votes
by_votes(r) == IF r.is_active THEN -r.total_votes ELSE r.total_votes

\* Producers in the order of their votes, the inactive ones last.
ByVotes(t, S) ==
    LET before(p, q) == \/ by_votes(t.prods[p]) < by_votes(t.prods[q])
                        \/ by_votes(t.prods[p]) = by_votes(t.prods[q]) /\ p < q
    IN  Ranked(S, {e \in S \X S : before(e[1], e[2])})

Candidates(t) ==
    LET electable == {p \in DOMAIN t.prods : t.prods[p].total_votes > 0 /\ t.prods[p].is_active}
        elected == Leading(ByVotes(t, DOMAIN t.prods), electable, MAX_PRODUCERS)
    IN  [i \in 1..Len(elected) |-> [name |-> elected[i], key |-> t.prods[elected[i]].key]]

\* set_proposed_producers: the chain aborts on no producers or one twice, and
\* takes up a schedule only if it is a change and none is proposed already.
Valid(schedule) == schedule # <<>> /\ IsInjective([i \in 1..Len(schedule) |-> schedule[i].name])
IsChange(t, schedule) ==
    /\ t.proposed = <<>>
    /\ schedule # IF t.pending = <<>> THEN t.active ELSE t.pending

\* A schedule in the order of the names.
ByName(s) ==
    LET before(i, j) == s[i].name < s[j].name \/ (s[i].name = s[j].name /\ i < j)
        order == Ranked(1..Len(s), {e \in (1..Len(s)) \X (1..Len(s)) : before(e[1], e[2])})
    IN  [i \in 1..Len(s) |-> s[order[i]]]

update_elected_producers(t, block_time) ==
    LET rotated == check_rotation_state([t EXCEPT !.elected.last_update = block_time],
                                        Candidates(t), block_time)
        schedule == ByName(rotated.top)
        metrics == [i \in 1..Len(schedule) |-> [bp_name |-> schedule[i].name,
                                                missed |-> MAX_BLOCK_PER_CYCLE]]
        proposed == [rotated.t EXCEPT !.proposed = schedule,
                                      !.metrics.producers_metric = metrics,
                                      !.elected.size = Len(schedule)]
    IN  Check(IF IsChange(t, schedule) THEN proposed ELSE rotated.t, Valid(schedule))

-----------------------------------------------------------------------------
(* Missed blocks: each producer of the schedule owes MAX_BLOCK_PER_CYCLE   *)
(* blocks in a cycle, and what it still owes at the end of it is missed    *)

reset_schedule_metrics_InFull(t, producer) ==
    [t EXCEPT !.metrics.producers_metric =
       [i \in 1..Len(@) |-> [@[i] EXCEPT !.missed = MAX_BLOCK_PER_CYCLE]]]

\* 0 for everyone, or the producer that has just produced a block.
reset_schedule_metrics(t, producer) ==
    [t EXCEPT !.metrics.producers_metric =
       [i \in 1..Len(@) |-> [@[i] EXCEPT !.missed =
           IF producer # 0 /\ t.metrics.producers_metric[i].bp_name = producer
           THEN MAX_BLOCK_PER_CYCLE - 1 ELSE MAX_BLOCK_PER_CYCLE]]]

\* What a producer still owes, 0 if it is not in the schedule.
Owed(t, producer) ==
    LET q == t.metrics.producers_metric
        mine == {i \in 1..Len(q) : q[i].bp_name = producer}
    IN  IF mine = {} THEN 0 ELSE q[Min(mine)].missed

SetOwed(t, producer, missed) ==
    [t EXCEPT !.metrics.producers_metric =
       [i \in 1..Len(@) |-> IF @[i].bp_name = producer
                            THEN [@[i] EXCEPT !.missed = missed] ELSE @[i]]]

Seen(t, producer) == [t EXCEPT !.metrics.last_onblock_caller = producer]

update_producer_missed_blocks(t, producer) ==
    IF Owed(t, producer) > 0 THEN SetOwed(t, producer, Owed(t, producer) - 1) ELSE t

\* The chain has taken up the last schedule that was proposed.
ScheduleActivated(t) ==
    /\ t.elected.size = Len(t.active)
    /\ {t.active[i].name : i \in 1..Len(t.active)}
         = {t.metrics.producers_metric[i].bp_name : i \in 1..Len(t.metrics.producers_metric)}

Corrected_Once(t, producer) ==
    Seen([SetOwed(t, producer,
                  (Owed(t, producer) - t.metrics.block_counter_correction) % uint32_range)
            EXCEPT !.metrics.block_counter_correction = 0],
         producer)

\* With a new schedule three producers go by before blocks are counted.
Corrected(t, producer) ==
    LET owed == (Owed(t, producer) - t.metrics.block_counter_correction) % uint32_range
        restarted == [reset_schedule_metrics(t, 0) EXCEPT !.metrics.block_counter_correction = -3]
    IN  Seen(IF t.metrics.last_onblock_caller # eosio THEN restarted
             ELSE SetOwed(t, producer, owed),
             producer)

CountedTurn(t, producer) ==
    IF t.metrics.last_onblock_caller = producer THEN t
    ELSE Seen([t EXCEPT !.metrics.block_counter_correction = @ + 1], producer)

\* A block of a producer that is seen as it should be: over if a cycle ends with it.
Counted(t, timestamp, producer) ==
    LET last == t.metrics.last_onblock_caller
        owed == Owed(t, producer)
    IN  CASE Registered(t, producer) /\ ~Active(t, producer) ->
               [t |-> update_elected_producers(reset_schedule_metrics(t, 0), timestamp),
                over |-> FALSE]
          [] Registered(t, producer) => Active(t, producer) ->
               IF last # producer /\ owed # MAX_BLOCK_PER_CYCLE
                  /\ \E i \in 1..Len(t.metrics.producers_metric) :
                       t.metrics.producers_metric[i].bp_name = producer
               THEN [t |-> Seen(t, producer), over |-> TRUE]
               ELSE [t |-> Seen(update_producer_missed_blocks(t, producer), producer),
                     over |-> FALSE]

check_missed_blocks(t, timestamp, producer) ==
    LET m == t.metrics
        uncounted == IF producer = eosio \/ m.last_onblock_caller = producer
                     THEN m.block_counter_correction + 1 ELSE 1
        waiting == [Seen(t, producer) EXCEPT !.metrics.block_counter_correction = uncounted]
        corrected == IF m.block_counter_correction > 0 THEN Corrected(t, producer) ELSE t
        turn == IF corrected.metrics.block_counter_correction < 0
                THEN CountedTurn(corrected, producer) ELSE corrected
    IN  CASE producer = eosio \/ ~ScheduleActivated(t) -> [t |-> waiting, over |-> FALSE]
          [] producer # eosio /\ ScheduleActivated(t) ->
               IF turn.metrics.block_counter_correction < 0 THEN [t |-> turn, over |-> FALSE]
               ELSE Counted(turn, timestamp, producer)

crossed_missed_blocks_threshold(t, missed, schedule_size) ==
    LET timeframe == t.rotation.next_rotation_time - t.rotation.last_rotation_time
    IN  /\ schedule_size > 1
        /\ 100 * missed > missed_percent * (timeframe \div (schedule_size - 1))

\* Those who have missed the most are kicked, as many as the share allows.
update_missed_blocks_per_rotation(t) ==
    LET size == Len(t.metrics.producers_metric)
        counted == {p \in {t.metrics.producers_metric[i].bp_name : i \in 1..size} : Active(t, p)}
        charged == [t EXCEPT !.prods = [p \in DOMAIN @ |->
                      IF p \in counted
                      THEN [t.prods[p] EXCEPT !.missed_blocks_per_rotation = @ + Owed(t, p)]
                      ELSE t.prods[p]]]
        Missed(p) == charged.prods[p].missed_blocks_per_rotation
        VotesOf(p) == charged.prods[p].total_votes
        late == {p \in counted : Missed(p) > 0}
        worse(p, q) == \/ Missed(p) > Missed(q)
                       \/ Missed(p) = Missed(q) /\ VotesOf(p) < VotesOf(q)
                       \/ Missed(p) = Missed(q) /\ VotesOf(p) = VotesOf(q) /\ p < q
        worst == Ranked(late, {e \in late \X late : worse(e[1], e[2])})
        kicked == Leading(worst,
                          {p \in late : crossed_missed_blocks_threshold(t, Missed(p), size)},
                          size \div kick_share)
        Kicked(u, p) ==
          kick([u EXCEPT !.prods[p].lifetime_missed_blocks = @ + Missed(p)],
               p, 2 ^ (u.prods[p].times_kicked + 1))
        after[i \in 0..Len(kicked)] == IF i = 0 THEN charged ELSE Kicked(after[i - 1], kicked[i])
    IN  after[Len(kicked)]

-----------------------------------------------------------------------------
(* Pay                                                                     *)

transfer(t, from, to, v) ==
    [Check(t, t.ledger[from] >= v) EXCEPT !.ledger[from] = @ - v, !.ledger[to] = @ + v]

\* What is due since the last time, out of the reserve as far as that goes;
\* the rest is issued.
Inflation(t) ==
    LET elapsed == t.now - t.pay.last_pervote_bucket_fill
        to_producers == t.pay.bpay_rate * elapsed
        to_workers == t.pay.worker_amount * elapsed
        offset == Min({t.ledger.tedp, to_producers + to_workers})
    IN  IF elapsed > 0 /\ t.pay.last_pervote_bucket_fill > 0
        THEN [t EXCEPT
                !.ledger = [t.ledger EXCEPT !.tedp = @ - offset, !.works = @ + to_workers,
                                            !.bpay = @ + to_producers],
                !.pay = [t.pay EXCEPT !.perblock_bucket = @ + to_producers,
                                      !.last_pervote_bucket_fill = t.now]]
        ELSE t

\* Division in C++ drops the fraction.
Quotient(a, b) == IF a >= 0 THEN a \div b ELSE -((-a) \div b)

\* Two for each of the top producers and one for each standby.
shares(t) ==
    LET actives == {p \in DOMAIN t.prods : t.prods[p].is_active}
        activecount == Len(Leading(ByVotes(t, DOMAIN t.prods), actives, MAX_PRODUCERS))
    IN  IF activecount <= TOP_PRODUCERS THEN activecount * 2
        ELSE 2 * TOP_PRODUCERS + (activecount - TOP_PRODUCERS)

PayProducer_WithoutReset(t, p, amount) ==
    [t EXCEPT !.pay.perblock_bucket = @ - amount,
              !.pay.total_unpaid_blocks = @ - t.prods[p].unpaid_blocks,
              !.payments = Add(@, p, amount)]

PayProducer(t, p, amount) ==
    [t EXCEPT !.pay.perblock_bucket = @ - amount,
              !.pay.total_unpaid_blocks = @ - t.prods[p].unpaid_blocks,
              !.prods[p].unpaid_blocks = 0,
              !.payments = Add(@, p, amount)]

\* With no share at all the division traps.
claimrewards_snapshot(t) ==
    LET filled == Inflation(t)
        actives == {p \in DOMAIN t.prods : t.prods[p].is_active}
        shareValue == Quotient(filled.pay.perblock_bucket, shares(t))
        Paid(u, i) == PayProducer(u, ByVotes(t, actives)[i],
                                  IF i <= TOP_PRODUCERS THEN 2 * shareValue ELSE shareValue)
        last == Min({MAX_PRODUCERS, Cardinality(actives)})
        after[i \in 0..last] == IF i = 0 THEN filled ELSE Paid(after[i - 1], i)
    IN  CASE t.pay.total_unpaid_blocks = 0 -> t
          [] t.pay.total_unpaid_blocks > 0 /\ shares(t) = 0 -> Check(t, FALSE)
          [] t.pay.total_unpaid_blocks > 0 /\ shares(t) > 0 ->
               after[last]

-----------------------------------------------------------------------------
(* onblock, with the header of the block before                            *)

\* The network is activated after some blocks, when there are votes.
Activation(t, timestamp) ==
    LET counted == [t EXCEPT !.pay.block_num = Min({@ + 1, block_num_network_activation})]
        voted == \E p \in DOMAIN t.prods : t.prods[p].total_votes > 0
    IN  IF counted.pay.block_num >= block_num_network_activation /\ voted
        THEN [counted EXCEPT !.pay.activated = TRUE, !.pay.last_claimrewards = timestamp]
        ELSE counted

MissedBlocks(t, timestamp, producer) ==
    LET checked == check_missed_blocks(t, timestamp, producer)
    IN  IF checked.over
        THEN reset_schedule_metrics(update_missed_blocks_per_rotation(checked.t), producer)
        ELSE checked.t

CountBlock(t, producer) ==
    IF Registered(t, producer)
    THEN [t EXCEPT !.pay.total_unpaid_blocks = @ + 1, !.prods[producer].unpaid_blocks = @ + 1]
    ELSE t

Elections(t, timestamp) ==
    IF timestamp - t.elected.last_update > schedule_interval
    THEN update_elected_producers(t, timestamp) ELSE t

Snapshot(t, timestamp) ==
    IF t.pay.last_claimrewards + snapshot_interval <= timestamp
    THEN [claimrewards_snapshot(t) EXCEPT !.pay.last_claimrewards = timestamp] ELSE t

onblock(t, timestamp, producer) ==
    LET filling == [t EXCEPT !.pay.last_pervote_bucket_fill = IF @ = 0 THEN t.now ELSE @]
        counted == CountBlock(MissedBlocks(filling, timestamp, producer), producer)
    IN  IF ~t.pay.activated THEN Activation(t, timestamp)
        ELSE Snapshot(Elections(counted, timestamp), timestamp)
=============================================================================
