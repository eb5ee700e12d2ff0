------------------------------ MODULE Resources ------------------------------
(***************************************************************************)
(* Accounts stake and unstake tokens for bandwidth, buy and sell RAM, and  *)
(* vote with what they have staked, while time goes by, the chain runs the *)
(* deferred refunds or drops them, producers come and go, and the          *)
(* administration sets limits and the supply of RAM.  Every action calls   *)
(* one action of the contract with the tables as they are; if a check      *)
(* fails nothing happens.                                                  *)
(***************************************************************************)
EXTENDS Staking

CONSTANTS
    Users,        \* the accounts
    Older,        \* those that are older than the contract
    Proxies,      \* those that were proxies when proxies were disabled
    Producers,
    Funds,        \* the tokens of each user
    Stakes,       \* the amounts [net, cpu] that are staked and unstaked
    Quants,       \* the tokens and bytes that RAM is bought for and sold in
    MaxRam, Supply,  \* the size of RAM and the supply of tokens at init
    RamRates,     \* bytes per block
    LimitValues,  \* the limits that are set
    MaxTime,
    Budgets       \* how many calls there may be of each kind

ASSUME ResourcesAssumption ==
    /\ Older \cup Proxies \subseteq Users /\ Users \subseteq Nat \ {0}
    /\ IsFiniteSet(Users) /\ IsFiniteSet(Producers)
    /\ {stake_account, ram_account, ramfee_account, rex_account} \cap Users = {}
    /\ {Funds, MaxRam, Supply, MaxTime} \subseteq Nat
    /\ Stakes \subseteq [net : Int, cpu : Int]
    /\ Quants \cup LimitValues \subseteq Int /\ RamRates \subseteq Nat

VARIABLES
    ledger, delband, userres, refunds, deferred, limits, voters, prods,
    total_producer_vote_weight, market, ram, now,
    unstaked,  \* history: when each user has last unstaked
    special,   \* history: whose limits were not set by stakes and purchases alone
    fixed,     \* history: what a limit that is managed was last set to
    drifted,   \* history: what the total weight has lost to rounding errors
    budget

tables == <<ledger, delband, userres, refunds, deferred, limits, voters, prods,
            total_producer_vote_weight, market, ram>>
vars == <<tables, now, unstaked, special, fixed, drifted, budget>>

Now ==
    [ok |-> TRUE, now |-> now, ledger |-> ledger, delband |-> delband, userres |-> userres,
     refunds |-> refunds, deferred |-> deferred, limits |-> limits, voters |-> voters,
     prods |-> prods, total_producer_vote_weight |-> total_producer_vote_weight,
     market |-> market, ram |-> ram]

Write(t) ==
    /\ t.ok
    /\ ledger' = t.ledger /\ delband' = t.delband /\ userres' = t.userres
    /\ refunds' = t.refunds /\ deferred' = t.deferred /\ limits' = t.limits
    /\ voters' = t.voters /\ prods' = t.prods
    /\ total_producer_vote_weight' = t.total_producer_vote_weight
    /\ market' = t.market /\ ram' = t.ram

NoRows == [x \in {} |-> 0]

Init ==
    /\ ledger = Put([a \in Users |-> Funds], stake_account, 0)
    /\ delband = NoRows /\ refunds = NoRows /\ deferred = NoRows
    /\ userres = [a \in Users \ Older |-> NewResources]
    /\ limits = [a \in Users |-> IF a \in Older THEN [ram |-> -1, net |-> -1, cpu |-> -1]
                                ELSE NewLimits]
    /\ voters = [a \in Proxies |-> [NewVoter EXCEPT !.is_proxy = TRUE]]
    /\ prods = [p \in Producers |-> [total_votes |-> 0, is_active |-> TRUE]]
    /\ total_producer_vote_weight = 0
    /\ market = NewMarket(MaxRam, Supply)
    /\ ram = [max_ram_size |-> MaxRam, reserved |-> 0, stake |-> 0,
              last_ram_increase |-> 0, new_ram_per_block |-> 0]
    /\ now = 0
    /\ unstaked = [a \in Users |-> -1]
    /\ special = Older
    /\ fixed = NoRows
    /\ drifted = 0
    /\ budget \in Budgets

Call(kind) ==
    /\ budget[kind] > 0
    /\ budget' = [budget EXCEPT ![kind] = @ - 1]
    /\ UNCHANGED now

-----------------------------------------------------------------------------
(* The actions of the contract                                             *)

Stake ==
    /\ Call("stake")
    /\ UNCHANGED <<unstaked, special, fixed, drifted>>
    /\ \E from, receiver \in Users, delta \in Stakes, give \in BOOLEAN :
         Write(delegatebw(Now, from, receiver, delta, give))

Unstake ==
    /\ Call("stake")
    /\ UNCHANGED <<special, fixed, drifted>>
    /\ \E from, receiver \in Users, delta \in Stakes :
         /\ Write(undelegatebw(Now, from, receiver, delta))
         /\ unstaked' = [unstaked EXCEPT ![from] = now]

ClaimRefund ==
    /\ Call("stake")
    /\ UNCHANGED <<unstaked, special, fixed, drifted>>
    /\ \E owner \in Users : Write(refund(Now, owner))

BuyRam ==
    /\ Call("ram")
    /\ UNCHANGED <<unstaked, special, fixed, drifted>>
    /\ \E payer, receiver \in Users, q \in Quants :
         \/ Write(buyram(Now, payer, receiver, q))
         \/ q < market.base /\ Write(buyrambytes(Now, payer, receiver, q))

SellRam ==
    /\ Call("ram")
    /\ UNCHANGED <<unstaked, special, fixed, drifted>>
    /\ \E account \in Users, q \in Quants : Write(sellram(Now, account, q))

SetLimits ==
    /\ Call("limits")
    /\ UNCHANGED <<unstaked, drifted>>
    /\ \E a \in Users :
         \/ \E value \in LimitValues :
              /\ Write(setalimits(Now, a, [ram |-> value, net |-> value, cpu |-> value]))
              /\ special' = special \cup {a}
              /\ UNCHANGED fixed
         \/ \E kind \in Kinds \cup {"ram"} :
              /\ \/ \E value \in LimitValues :
                      Write(Manage(Now, a, kind, value)) /\ fixed' = Put(fixed, <<a, kind>>, value)
                 \/ Write(Unmanage(Now, a, kind)) /\ fixed' = Erase(fixed, <<a, kind>>)
              /\ UNCHANGED special

SetRam ==
    /\ Call("supply")
    /\ UNCHANGED <<unstaked, special, fixed, drifted>>
    /\ \/ Write(setram(Now, 2 * ram.max_ram_size))
       \/ \E rate \in RamRates : Write(setramrate(Now, rate))

Vote ==
    /\ Call("vote")
    /\ UNCHANGED <<unstaked, special, fixed, drifted>>
    /\ \E a \in DOMAIN voters :
         \/ \E S \in SUBSET Producers : Write(update_votes(Now, a, 0, S, TRUE))
         \/ \E proxy \in Users : Write(update_votes(Now, a, proxy, {}, TRUE))

ResignProxy ==
    /\ Call("vote")
    /\ UNCHANGED <<unstaked, special, fixed, drifted>>
    /\ \E a \in Users : Write(regproxy(Now, a, FALSE))

\* A producer resigns or registers; its votes stay.
ChangeProducer ==
    /\ Call("producer")
    /\ UNCHANGED <<unstaked, special, fixed, drifted>>
    /\ \E p \in Producers : Write([Now EXCEPT !.prods[p].is_active = ~@])

-----------------------------------------------------------------------------
(* The chain                                                               *)

\* A deferred refund is run when it is due, or dropped.
RunDeferred ==
    /\ UNCHANGED <<now, unstaked, special, fixed, drifted, budget>>
    /\ \E a \in DOMAIN deferred :
         LET t == [Now EXCEPT !.deferred = Erase(@, a)]
         IN  deferred[a] <= now /\ (Write(t) \/ Write(refund(t, a)))

\* Rounding errors add up to less than nothing when few or no votes are left.
Drift ==
    /\ Call("drift")
    /\ UNCHANGED <<unstaked, special, fixed>>
    /\ total_producer_vote_weight \in {0, 1}
    /\ Write([Now EXCEPT !.total_producer_vote_weight = -1])
    /\ drifted' = drifted + total_producer_vote_weight + 1

\* onblock, of which only the recount matters here; it may abort.
Block ==
    /\ now < MaxTime
    /\ now' = now + 1
    /\ UNCHANGED <<unstaked, special, fixed, budget>>
    /\ LET t == recalculate_votes(Now)
       IN  /\ Write(IF t.ok THEN t ELSE Now)
           /\ drifted' = IF t.ok /\ total_producer_vote_weight < 0 THEN 0 ELSE drifted

Next ==
    \/ Stake \/ Unstake \/ ClaimRefund \/ BuyRam \/ SellRam
    \/ SetLimits \/ SetRam \/ Vote \/ ResignProxy \/ ChangeProducer
    \/ RunDeferred \/ Drift \/ Block

Spec == Init /\ [][Next]_vars

-----------------------------------------------------------------------------
(* Properties                                                              *)

WeightRows == [net : Nat, cpu : Nat]

TypeOK ==
    /\ \A a \in DOMAIN ledger : ledger[a] \in Nat
    /\ DOMAIN delband \subseteq Users \X Users
    /\ \A k \in DOMAIN delband : delband[k] \in WeightRows \ {NoWeights}
    /\ DOMAIN userres \subseteq Users
    /\ \A a \in DOMAIN userres : userres[a] \in [weights : WeightRows, ram : Nat]
    /\ DOMAIN refunds \subseteq Users
    /\ \A a \in DOMAIN refunds :
         refunds[a].request_time \in 0..now /\ refunds[a].weights \in WeightRows \ {NoWeights}
    /\ \A a \in DOMAIN deferred : deferred[a] \in 0..MaxTime + refund_delay
    /\ \A p \in Producers : prods[p].total_votes \in Nat
    /\ \A a \in DOMAIN voters :
         /\ voters[a].producers \subseteq Producers
         /\ {voters[a].staked, voters[a].last_stake, voters[a].last_vote_weight,
             voters[a].proxied_vote_weight} \subseteq Nat
         /\ voters[a].proxy # 0 => voters[a].producers = {} /\ ~voters[a].is_proxy

\* What eosio.stake holds is all that is staked and all that waits to be
\* refunded, to the unit; the stakes in delband, from whom they come and to
\* whom they go, add up to what gives the receivers their bandwidth and the
\* owners their votes.
StakesAccounted ==
    LET amounts == [k \in DOMAIN delband |-> Sum2(delband[k])]
    IN  /\ ledger[stake_account]
             = SumOf(amounts) + SumOf([a \in DOMAIN refunds |-> Sum2(refunds[a].weights)])
        /\ \A a \in Users :
             /\ Sum2(Resources(Now, a).weights)
                  = SumOver(amounts, {k \in DOMAIN delband : k[2] = a})
             /\ (IF a \in DOMAIN voters THEN voters[a].staked ELSE 0)
                  = SumOver(amounts, {k \in DOMAIN delband : k[1] = a})

\* Unstaked tokens come back only after three days in which their owner has
\* unstaked nothing more, but for the part of a second that is dropped.
RefundWaits ==
    [][ \A a \in DOMAIN refunds :
          a \notin DOMAIN refunds' /\ ledger'[stake_account] < ledger[stake_account]
            => now + 1 >= unstaked[a] + refund_delay ]_vars

\* A deferred refund that finds something to refund is never too early for it,
\* whatever has been unstaked or staked again since it was sent.
DeferredNotEarly ==
    \A a \in DOMAIN deferred \cap DOMAIN refunds :
      refunds[a].request_time + refund_delay <= deferred[a]

\* Every byte of RAM is either reserved or for sale, those reserved are those
\* of the accounts, and eosio.ram holds what was paid for them.  It suffices
\* to buy all of them back, in one go or in part, however prices moved and
\* the supply grew between: the check in sellram that "shouldn't happen"
\* does not.
RamBacked ==
    /\ market.base + ram.reserved = ram.max_ram_size
    /\ ram.reserved = SumOf([a \in DOMAIN userres |-> userres[a].ram])
    /\ market.quote = NewMarket(MaxRam, Supply).quote + ram.stake
    /\ ram.stake = BalanceOf(ledger, ram_account)
    /\ \A bytes \in 1..ram.reserved :
         TokensFor(update_ram_supply(Now).market, bytes) <= ram.stake

\* The limits of an account are what it has staked and bought.  One that the
\* administration manages stays as it was set, whatever is staked or bought,
\* and returns to what the tables say when it is no longer managed.
LimitsMatch ==
    \A a \in Users :
      LET r == Resources(Now, a)
      IN  /\ \A kind \in Managed(Now, a) : limits[a][kind] = fixed[<<a, kind>>]
          /\ a \notin special =>
               /\ \A kind \in Kinds \ Managed(Now, a) : limits[a][kind] = r.weights[kind]
               /\ "ram" \notin Managed(Now, a) =>
                    limits[a].ram \in {r.ram + ram_gift_bytes}
                                        \cup (IF r.ram = 0 THEN {0} ELSE {})

\* The votes of a producer are the weights of those who vote for it, through
\* every change of votes, proxies and stakes and every recount, and so is
\* their total, but for the rounding errors there have been.
VotesAddUp ==
    LET weights == [a \in DOMAIN voters |-> voters[a].last_vote_weight]
    IN  /\ \A p \in Producers :
             prods[p].total_votes = SumOver(weights, {a \in DOMAIN voters : p \in voters[a].producers})
        /\ SumOf([p \in Producers |-> prods[p].total_votes]) = total_producer_vote_weight + drifted

\* A vote always weighs what its voter has staked now, and a proxy's what its
\* clients have, too, unless the proxy has no stake of its own: the stake
\* that then joins it counts only when it votes again.
VotesFollowStakes ==
    \A a \in DOMAIN voters :
      LET v == voters[a]
      IN  /\ ~v.is_proxy \/ v.staked > 0 =>
               v.last_vote_weight = inverse_vote_weight(TotalStaked(v), v.producers)
          /\ v.is_proxy => v.proxied_vote_weight
                             = SumOver([c \in DOMAIN voters |-> voters[c].staked],
                                       {c \in DOMAIN voters : voters[c].proxy = a})

(* A statement of the repository that the code does not keep               *)

\* The ricardian contract of undelegatebw: after three days without further
\* unstaking the system will attempt to return the funds.  A deferred refund
\* is not withdrawn before its time while there is something to refund.
RefundAttempted ==
    [][ \A a \in DOMAIN refunds \cap DOMAIN refunds' :
          a \in DOMAIN deferred \ DOMAIN deferred' => deferred[a] <= now ]_vars
=============================================================================
