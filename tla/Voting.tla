------------------------------- MODULE Voting -------------------------------
(***************************************************************************)
(* How stakes become votes (voting.cpp).  A helper takes the tables t and  *)
(* returns them changed, and a check that fails clears t.ok.  Accounts are *)
(* numbers, 0 is name(0).  Of the tables it uses                           *)
(*   voters  the row of each voter                                         *)
(*   prods   the votes of each producer, and whether it is active          *)
(*   total_producer_vote_weight, of the global row                         *)
(* Weights are doubles in the code and integers here, scaled by a factor   *)
(* that makes them exact; Drift in Resources stands for rounding errors.   *)
(***************************************************************************)
EXTENDS Ledger

CONSTANTS
    MAX_VOTE_PRODUCERS,  \* 30
    weight_of            \* the scaled weight of a token for each number of producers

ASSUME VotingAssumption ==
    /\ MAX_VOTE_PRODUCERS \in Nat \ {0}
    /\ weight_of \in [0..MAX_VOTE_PRODUCERS -> Nat]
    /\ weight_of[0] = 0

Check(t, condition) == [t EXCEPT !.ok = @ /\ condition]

NewVoter == [proxy |-> 0, producers |-> {}, staked |-> 0, last_stake |-> 0,
             last_vote_weight |-> 0, proxied_vote_weight |-> 0, is_proxy |-> FALSE,
             managed |-> {}]

\* The more producers are voted for, the more a token weighs for each.
inverse_vote_weight(staked, producers) == weight_of[Cardinality(producers)] * staked

\* The stake a voter votes with: a proxy has that of others, too.
TotalStaked(v) == v.staked + IF v.is_proxy THEN v.proxied_vote_weight ELSE 0

WithVotes(r, votes) == [r EXCEPT !.total_votes = votes]

\* Votes that are added to each of a set of producers.
AddVotes(t, producers, delta) ==
    [t EXCEPT !.prods = [p \in DOMAIN @ |-> IF p \in producers
                                           THEN WithVotes(@[p], @[p].total_votes + delta) ELSE @[p]],
              !.total_producer_vote_weight = @ + delta * Cardinality(producers)]

\* The votes of an account, s.at, follow its stake.  One that uses a proxy itself
\* has resigned as one, and passes the change of its stake on to that proxy.
PassOn(s) ==
    LET v == s.t.voters[s.at]
        total == TotalStaked(v)
        weight == inverse_vote_weight(total, v.producers)
        passes == v.proxy # 0 /\ total # v.last_stake
        voted == IF v.proxy = 0 THEN AddVotes(s.t, v.producers, weight - v.last_vote_weight)
                 ELSE Check(s.t, ~v.is_proxy)
        passed == [voted EXCEPT !.voters[v.proxy].proxied_vote_weight = @ + total - v.last_stake]
    IN  IF s.at = 0 THEN s
        ELSE [t |-> [IF passes THEN passed ELSE voted
                       EXCEPT !.voters[s.at].last_vote_weight = weight,
                              !.voters[s.at].last_stake = total],
              at |-> IF passes THEN v.proxy ELSE 0]

\* A chain of proxies is no longer than there are voters, or the call does not end.
propagate_weight_change(t, a) ==
    LET turns == Cardinality(DOMAIN t.voters)
        turn[n \in 0..turns] == IF n = 0 THEN [t |-> t, at |-> a] ELSE PassOn(turn[n - 1])
    IN  Check(turn[turns].t, turn[turns].at = 0)

-----------------------------------------------------------------------------
(* Casting a vote, and counting it anew when the stake behind it changes   *)

\* A vote that is taken back from a proxy.
LeaveProxy(t, v, proxy) ==
    LET left == [t EXCEPT !.voters[v.proxy].proxied_vote_weight = @ - v.last_stake]
    IN  IF proxy # v.proxy THEN propagate_weight_change(left, v.proxy) ELSE left

Joined_WithLastStake(t, v, proxy) == [t EXCEPT !.voters[proxy].proxied_vote_weight = @ + v.last_stake]
Joined(t, v, proxy) == [t EXCEPT !.voters[proxy].proxied_vote_weight = @ + v.staked]

\* One that is given to a proxy counts at once, if the proxy's own counts.
JoinProxy(t, v, proxy, voting) ==
    LET joined == Joined(t, v, proxy)
    IN  IF proxy \notin DOMAIN t.voters THEN Check(t, FALSE)
        ELSE Check(IF t.voters[proxy].last_vote_weight > 0
                   THEN propagate_weight_change(joined, proxy) ELSE joined,
                   ~voting \/ t.voters[proxy].is_proxy)

\* The old vote is taken from its producers and the new one given to its own,
\* who must be active when it is cast.  No total falls below 0.
ChangeVotes(t, old, old_weight, new, new_weight, voting) ==
    LET changed == AddVotes(AddVotes(t, old, -old_weight), new, new_weight)
        Clamped(p, r) == IF p \in old \cup new /\ r.total_votes < 0 THEN WithVotes(r, 0) ELSE r
    IN  Check([changed EXCEPT !.prods = [p \in DOMAIN @ |-> Clamped(p, @[p])]],
              \A p \in new : p \in DOMAIN t.prods /\ (voting => t.prods[p].is_active))

ValidVote(t, voter, proxy, producers) ==
    /\ voter \in DOMAIN t.voters
    /\ Cardinality(producers) <= MAX_VOTE_PRODUCERS
    /\ proxy # 0 => producers = {} /\ voter # proxy /\ ~t.voters[voter].is_proxy

\* Producers are a set: the code wants them sorted and without duplicates.
update_votes(t, voter, proxy, producers, voting) ==
    LET v == t.voters[voter]
        total == IF voting /\ proxy = 0 /\ producers = {} THEN 0 ELSE TotalStaked(v)
        weight == inverse_vote_weight(total, producers)
        voted == v.last_stake > 0
        old == IF voted /\ v.proxy = 0 THEN v.producers ELSE {}
        left == IF voted /\ v.proxy # 0 THEN LeaveProxy(t, v, proxy) ELSE t
        joined == IF proxy # 0 THEN JoinProxy(left, v, proxy, voting) ELSE left
        changed == ChangeVotes(joined, old, v.last_vote_weight, producers, weight, voting)
    IN  IF ~ValidVote(t, voter, proxy, producers) THEN Check(t, FALSE)
        ELSE [changed EXCEPT !.voters[voter].last_vote_weight = weight,
                             !.voters[voter].last_stake = total,
                             !.voters[voter].producers = producers,
                             !.voters[voter].proxy = proxy]

\* The stake that a voter votes with has changed.
update_voting_power(t, voter, delta) ==
    LET row == IF voter \in DOMAIN t.voters THEN t.voters[voter] ELSE NewVoter
        staked == [row EXCEPT !.staked = @ + delta]
        put == Check([t EXCEPT !.voters = Put(@, voter, staked)], staked.staked >= 0)
    IN  IF row.producers # {} \/ row.proxy # 0
        THEN update_votes(put, voter, row.proxy, row.producers, FALSE) ELSE put

\* An account that is not a proxy cannot become one any more.
regproxy(t, proxy, isproxy) ==
    LET v == t.voters[proxy]
    IN  IF proxy \notin DOMAIN t.voters
        THEN Check([t EXCEPT !.voters = Put(@, proxy, NewVoter)], ~isproxy)
        ELSE Check(update_votes([t EXCEPT !.voters[proxy].is_proxy = isproxy],
                                proxy, v.proxy, v.producers, TRUE),
                   ~isproxy /\ v.is_proxy)

-----------------------------------------------------------------------------
(* All votes are counted anew when their total has become negative         *)

Forgotten(t, voter) ==
    [t EXCEPT !.voters[voter].last_vote_weight = 0, !.voters[voter].last_stake = 0,
              !.voters[voter].proxied_vote_weight = 0]

\* The turn of a voter: the accounts in done have had their old weights forgotten.
Recast(s, voter) ==
    LET proxy == s.t.voters[voter].proxy
        first == IF proxy # 0 /\ proxy \notin s.done
                 THEN [s EXCEPT !.t = Forgotten(@, proxy), !.done = @ \cup {proxy}] ELSE s
        own == IF ~s.t.voters[voter].is_proxy \/ voter \notin first.done
               THEN [first EXCEPT !.t = Forgotten(@, voter), !.done = @ \cup {voter}] ELSE first
    IN  [own EXCEPT !.t = update_votes(@, voter, proxy, own.t.voters[voter].producers, TRUE),
                    !.left = @ \ {voter}]

\* The voters in left have their turn, in the order of the table.
RecastNext(s) ==
    IF s.left = {} THEN s ELSE Recast(s, CHOOSE a \in s.left : \A b \in s.left : a <= b)
RecastAll(t) ==
    LET turns == Cardinality(DOMAIN t.voters)
        turn[n \in 0..turns] ==
          IF n = 0 THEN [t |-> t, done |-> {}, left |-> DOMAIN t.voters] ELSE RecastNext(turn[n - 1])
    IN  turn[turns].t

recalculate_votes_KeepsVotes(t) ==
    IF t.total_producer_vote_weight < 0
    THEN RecastAll([t EXCEPT !.total_producer_vote_weight = 0]) ELSE t

recalculate_votes(t) ==
    IF t.total_producer_vote_weight < 0
    THEN RecastAll([t EXCEPT !.total_producer_vote_weight = 0,
                             !.prods = [p \in DOMAIN @ |-> WithVotes(@[p], 0)]])
    ELSE t
=============================================================================
