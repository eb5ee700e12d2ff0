# telos-distribute, specified

TLA+ for the distribution contract `eosio.tedp` and for the Telos system contracts it
works with: the token, REX, the election, counting and payment of block producers, votes,
staking and its refunds, RAM, the auctions of names, and `eosio.msig`.
Models are checked with TLC; the main results about `eosio.tedp`, REX, the block producers, votes,
staking, RAM, the auctions and `eosio.msig` are proved with TLAPS.

* [The system](#the-system): its components, their state and how they interact
* [The modules](#the-modules) and the code they model
* [The runs](#the-runs): what each checks, its bounds, what it shows
* [Disagreements](#disagreements) between the code and what the repository says of it
* [Fairness](#fairness), [Proofs](#proofs), [Not modelled](#not-modelled), [Plan](#plan)

Run a check with `tlc -workers 2 -config MCTedp.cfg MCTedp`, a proof with
`tlapm TedpProofs.tla`. `PROJECT.json` lists the runs, maps every definition to the lines
it models, and lists the hazards with the properties that watch them.

## The system

Everything runs on an EOSIO chain. An action is atomic: it changes tables and sends
inline actions, which run after it in the same transaction, and if anything fails
nothing has happened. There is no parallelism inside a transaction; the hard behaviours
come from the order in which strangers call public actions, from time that passes
between calls, from inline transfers that run after the totals they pay for were
changed, and from `onblock`, which the chain runs in every block.

| Component | State | Operations | Called by / calls |
|---|---|---|---|
| **eosio.tedp** (`src/src/eosio.tedp.cpp`) | `payouts` (amount, interval, last payout per payee), `config` (ratio, EVM contract) | `pay` (public), seven setters, `delpayout`, `setratio`, `setevmconfig` | transfers out of its own account; `distviarex` of eosio.system; reads the EVM's tables and `rexpool` |
| **eosio.token** | `stat`, `accounts` | create, issue, retire, transfer, open, close | by everybody, inline |
| **REX** (`rex.cpp`) | `rexpool`, `rexbal`, `rexfund`, `rexqueue`, CPU and NET loans, name-bid proceeds | deposit, withdraw, buy, unstake to buy, sell, cancel, rent, fund, save, consolidate, update, close, `rexexec`, `setrex` | fees arrive by `channel_to_rex` from staking, RAM, name auctions and `distviarex`; changes resources, staked votes, tokens |
| **Producers** (`producer_pay.cpp`, `system_rotation.cpp`, `system_kick.cpp`, part of `voting.cpp`) | `producers`, `rotations`, `schedulemetr`, `payments`, pay fields of `global` | `onblock`, regproducer(2), unregprod, unregreason, rmvproducer, votebpout, claimrewards, setpayrates | the chain calls `onblock`; `set_proposed_producers`; draws on eosio.tedp's account |
| **Voting** (`voting.cpp`) | `voters`, vote totals | voteproducer, regproxy, `update_votes`, `recalculate_votes` | staking and REX change stakes; the totals order the producers |
| **Staking** (`delegate_bandwidth.cpp`) | `delband`, `userres`, `refunds`, the limits of accounts | delegatebw, undelegatebw, refund (deferred), setalimits, setacctram / net / cpu | changes votes; unstaketorex takes from it; the chain enforces the limits |
| **RAM market** (`exchange_state.cpp`) | `rammarket`, RAM totals | buyram, buyrambytes, sellram, setram, setramrate, Bancor conversion | fees to REX; limits |
| **Name auctions** (`name_bidding.cpp`) | `namebids`, `bidrefunds` | bidname, bidrefund (deferred), daily close in `onblock`, the claim in newaccount | tokens in eosio.names; proceeds to REX |
| **eosio.msig** | proposals, approvals (old and new), invalidations | propose, approve, unapprove, invalidate, cancel, exec | sends a deferred transaction |
| **powerup**, **limit_auth_changes** | own tables | disabled on Telos: the entry actions refuse | |
| **eosio.evm headers**, vendored libraries | | included for the types of two tables | |

What makes each correct, and is hard:

* **eosio.tedp** pays each payee at its rate and never more, however it is configured and
  whoever calls `pay` and when; what it writes off a clock is what it sends; the split
  between REX and the EVM follows stakes that other contracts change.
* **Token**: the rows add up to the supply through every order of calls.
* **REX** is solvent to the unit while purchases, sales, waiting orders, expiring and
  renewed loans and fees interleave; REX is not unlocked early; rounding never takes from
  those who stay; waiting orders are served.
* **Voting**: a producer's votes are those of its voters, through proxies that resign, stakes that
  change and recounts; a vote weighs what is staked now.
* **Staking**: what eosio.stake holds is what is staked and what waits to be refunded; a refund
  waits three days after the last unstaking, though a deferred transaction and a manual call race.
* **RAM**: the market can always buy back the RAM that was sold; an account's limits are what it
  owns unless the administration manages them.
* **Name auctions**: eosio.names can pay every refund, every bid that may be outbid and the
  proceeds at once; nobody pays but for a name.
* **eosio.msig**: only approvals that stand count, by time stamps with the resolution of a block and
  through a table that has none; a transaction is sent once.
* **Producers**: schedules follow the votes; only missed blocks are charged, although
  schedules become active at a time the contract does not choose; pay adds up.

## The modules

| Module | Models | How |
|---|---|---|
| `Ledger` | the transfer of eosio.token | balances as a function; a transfer is refused when the sender has no row or too little, and opens the receiver's row |
| `Token` | eosio.token | one action per action, for one symbol |
| `RexPool` | the arithmetic of `rexpool` | pure operators on the row `[total_lent, total_unlent, total_rent, total_lendable, total_rex]`: buying, filling an order, channelling fees, lending and ending loans, the Bancor price |
| `Faucet` | what eosio.tedp promises | payees with a rate and a clock; a release pays at most the rate for the whole intervals behind |
| `Tedp` | eosio.tedp | composes `Ledger` and `RexPool`; `pay` with every call it makes; refines `Faucet` |
| `RexTables` | helpers of `rex.cpp` | each takes the tables and returns them changed; a check that fails clears `ok` |
| `Rex` | the actions of REX | tables as variables; an action applies helpers in the order of the code and happens only if `ok` |
| `Producers` | `onblock` and helpers | same style as `RexTables` |
| `Onblock` | the chain and the producers | blocks, skipped slots, schedules that become pending and active, and the actions of the contract |
| `NameAuctions` | name_bidding.cpp, the close in `onblock`, newaccount | its variables beside those of `Token`, whose actions it instantiates: both share the balance rows |
| `Voting` | voting.cpp without proposals of producers | helpers on the tables, as in `RexTables` |
| `RamMarket` | exchange_state.cpp and the supply of RAM | operators on the market and the RAM totals |
| `Staking` | delegate_bandwidth.cpp and the limits set in eosio.system.cpp | helpers on the tables of `Voting` and `RamMarket`, over `Ledger` |
| `Resources` | accounts, chain and administration | tables as variables; each action applies one action of the contract and happens only if `ok` |
| `Consent` | what eosio.msig promises | a proposal with those who stand behind it, and what it sends |
| `Msig` | eosio.msig | one action per action, and the deferred transaction; refines `Consent` |
| `MCToken`, `MCTedp`, `MCRex`, `MCOnblock`, `MCNameAuctions`, `MCResources`, `MCMsig` | instances for TLC | |
| `LedgerProofs` | sums of amounts and sequences of transfers | lemmas for those below that handle money |
| `TedpProofs`, `NameAuctionsProofs`, `ResourcesProofs`, `OnblockProofs`, `MsigProofs` | proofs about the component | `ResourcesProofs` has two parts, the books and the votes |
| `RexPoolProofs`, `RexProofs` | proofs about the pool, and about the helpers and the actions of REX | the second extends the first |

Conventions. A definition has the name of the function it models; a name with an
underscore and a capital after it (`close_WithoutZeroCheck`) is a wrong version of the
definition after it, used to show that the properties can fail. Owners, payees
and loans are small values; assets are integers in indivisible units; a time is a whole
number of the unit that the configuration names. Authorizations are left out (an action
can be called by whoever may), and so are memos, symbols but one, RAM payers and printing.

**Tedp.** Variables: `payouts`, `configuration` and the clock; what surrounds them:
`accounts` (balances), `rex_pool`, `evm_balance` and its stake. `setpayout` stands for
the seven setters, which differ in payee, bound and interval. `pay` computes what is due
from the stored rows, splits the REX row, sends all transfers through `Ledger` in order,
raises the pool as `distviarex` does, and moves the clock of every row with a whole
interval behind it. If one transfer is refused the action is not enabled, as the
transaction fails. The ratio is the code's double: a fraction in units of the smallest
part, rounded where the code converts. `InflationOffset`, `RexBought`, `RexSold`,
`EvmStaking` and `Funded` are what others do to the same state between calls.
`drawn` is history: what has left for each payee.

**Rex.** `runrex` is whole: proceeds of name bids, then expired loans of both kinds, then
orders, at most two of each, as part of every action that calls it. Loans are renewed
only if their fund covers the price and no order waits. Ownership of REX is in `matured`
and in buckets by day, the savings last. Inline transfers are applied at the end of the
action that sends them, and the action fails with them. Doubles in `update_rex_stake` and
`rent_rex` are integer divisions, as the code truncates.

**Onblock.** A block at `slot` runs `onblock` with the header of the block before (`head`)
and the schedule of the present (`chain.active`). A schedule that the contract proposes
becomes pending and later active: each step takes blocks of more than two thirds of the
producers on top (`Irreversible`), and then happens in any block. The chain needs two
rounds for it; one is enough for what the contract can see. When `onblock` aborts, the
block stands and the tables do not change. Votes are changed by `update_votes` to any
value of `Votes`. Producers with the same votes are in the order of their names, as the index
has them; `std::sort` in `update_missed_blocks_per_rotation` leaves that order open and
the model takes the same one. Pay rates are per slot, whole; the code multiplies
by supply and divides by the microseconds of a year.

**NameAuctions.** Names are numbers, in the order of the table; `Premium` are those an auction is
about. The row of an auction is `bids[n]`, a negative `high_bid` a closed one. The refund of a bidder
is a row in `refunds` and a deferred transaction in `deferred`: the chain may run it at any time,
before or after the bidder has asked by hand, or drop it, which `dropped` remembers. `Block` is the part
of `onblock` that closes an auction. The actions of `Token` run on the same rows, called by bidders.

**Voting, RamMarket, Staking, Resources.** `update_votes` is one operator for the vote that is cast
and the one that is counted again when a stake changes (`voting` tells which), as in the
code. `propagate_weight_change` calls itself when a proxy that resigned uses a proxy: `PassOn` is one
of its calls, and there are as many as it takes, at most one for each voter. `RecastAll` is the loop of a
recount, one voter after the other in the order of the table. A weight is
a double in the code, the stake times a sine of the
share of producers voted for; here it is an integer, scaled, that depends on the
number of producers as `inverse_vote_weight` does, so that it is exact. What rounding does in the code
is `Drift`: the total of all weights turns negative when few are left, which is what makes
`recalculate_votes` count all votes anew, and `drifted` remembers how much was lost. `changebw` is whole: the
two tables, the refund with its deferred transaction, the transfer and the vote. Assumed: no
REX is held (so `vote_stake_updater` adds nothing), proxies are those that registered before
`regproxy` was disabled, `eosio.stake` is not itself a source, `buyrambytes` asks for less
than the reserve. `total_activated_stake` is left out, which only gates the activation of the network.

**Msig.** A name is a proposer and a proposal. An approval is a level and the time it was given; a
row of the old table has no times, which are 0 here. `Authorized` is
`check_transaction_authorization`, any predicate on a transaction and a set of levels: the proofs
hold for every one. `consent` is history: the levels that have approved and not
withdrawn or invalidated since, with the hash they gave. Requested levels are a set: the code does not
refuse a level that is listed twice. Time is counted in blocks; expirations are in seconds.

## The runs

| Run | Instance | Shows |
|---|---|---|
| `tedp` | 2 payees, 2 seconds, ratios of 60% and 199% or uninitialized | `DrawdownBounded`, `RefinesFaucet`, `PaidInFull` (with what left the reserve and what REX can lend), `SplitProportional`, types |
| `tedp_live` | 2 payees, 2 seconds, ratios below, at and above 100, EVM stakes of nothing, of the size of the pool and far above it, a reserve that others fill and drain | `EveryDueRowPaid` |
| `rex` | 2 owners, purchases, sales, savings, days | types and the order of buckets, `SharesAccounted`, `ShareValueNeverFalls`, `LockHeld` |
| `rex_loans` | lender and renter, loans, orders, name bids | `RexSolvent`, `LoansAccounted`, `QueueServedInTime`, `StakeCounted`, `NamebidsReachRex`, `SharesAccounted` |
| `rex_queue` | one order, loans, time | `OpenOrderFilled` |
| `onblock` | 3 producers for 2 places and a standby, 12 slots, 2 calls | `ProposesTheMostVoted`, `UnpaidBlocksAccounted`, `PaymentsBacked`, types |
| `onblock_missed` | 3 places, 28 slots, 2 of them skipped, 1 call | `PunctualNotCharged`, `ChargesWithinTime` |
| `names` | 2 bidders, 2 names and one with a suffix, 4 blocks; 5 calls of tokens, 4 of auctions, or 2 and 1 | `NamesBacked`, `RefundScheduled`, `BiddersWhole`, `ClosedAsPromised`, `SupplyBacked`, types and the cap of the supply |
| `resources` | 2 accounts, one an old proxy, 2 producers, 3 blocks; six scopes of up to 6 calls | `StakesAccounted`, `RefundWaits`, `DeferredNotEarly`, `RamBacked`, `LimitsMatch`, `VotesAddUp`, `VotesFollowStakes`, types |
| `msig` | 2 accounts, 3 levels, 2 transactions, 4 blocks, an old or a new proposal | `CountedIsConsent`, `ImplementsConsent`, types |
| `rex_unstaked`, `onblock_twice` | | counterexamples, see below |

Bounds, and why they are enough.

* *Names*: the three scopes are the token alone, the auctions alone, and both. Two bidders outbid
  each other twice over one name, so that a refund is owed while one is under way, and a second
  name gives the block a choice. A day is over after two blocks, so that a bid can come
  before, between and after. Amounts reach both sides of zero and the cap. `MCToken.cfg`
  checks `Token` by itself among three accounts.
* *Resources*: each scope has the calls of the tables that interact: stakes and refunds alone, 4 calls;
  RAM with its supply, and with a stake; stakes with limits; votes with stakes, and with producers that
  resign and the recount. Four calls are enough to unstake, stake again and unstake
  before the first refund is due, and three to vote, change the stake and have the proxy resign. A
  delay of three days is 2 blocks of the 3 there are. The quotients of the market are
  not whole, so that rounding matters.
* *Msig*: no bound on the calls; three levels of two accounts, of which both must have approved, tell a
  level from its account. Times are the blocks 0 to 3 and seconds 0 and 1, so that an approval,
  an invalidation and an expiration fall in one block or one second or do not.
* *Tedp*: intervals of 1 and 2 seconds and two seconds of time give rows that are not due,
  due once and due twice, and every order of two payees. A token has one
  indivisible unit (`Unit`), and a wei is a small part of it (`WeiPerUnit`), so
  dust below the unit and rounding both occur. The setters' bounds are 1 and 5 tokens, so
  that 5 is refused for one and not for the other.
  The live run has every cause for which `pay` fails, and `EveryDueRowPaid` names them: a reserve
  that does not cover what is due, and REX squeezed out (`RexSqueezedOut`), which takes a ratio of 100 or more.
  Without either name, or with only ratios above 100 in the second, TLC finds it violated. Below 100 no
  stake blocks `pay`: REX is left at least the rest of the ratio, 1% at 99, and of the 10,000 units of a token that is
  100; the instance has 2 units and 60%, of which REX is left 0.8, which rounds to one.
* *Rex*: a day is one or two moments, REX matures after 2 buckets, a loan lasts 3 moments,
  so that orders, maturities and expirations come in every order. A purchase gives
  `rex_ratio` = 4 REX per unit, against 10,000 in the code: with 1 the rounding would give
  purchases of nothing, which the code's ratio never does. Two owners
  and two loans reach the two of each that `runrex` handles on the way, and exceed the one that
  `rexexec` is called with, so that work is left over for a later call; no run leaves work over
  after the two of another action.
* *Onblock*: the constants keep the order of those in the code. A turn is 2 blocks
  (12), 2 or 3 places (21) and one standby (21), elections every 2 to 4 slots (121), a rotation
  every 8 or 14 (86,400), a snapshot every 4 (3,600), one in 2 or 3 kicked (7). Twelve slots see the
  first schedule proposed, pending and active, a rotation, the next one due, and two snapshots;
  28 slots see one active schedule through its correction and a whole counted cycle, a kick, and a
  second schedule. A kick has been checked to occur in `onblock_missed`. The range of `uint32`
  is 256, larger than any count and small enough that an underflow shows.
  `PaymentsBacked` and `PunctualNotCharged` hold in the passing runs because all producers have votes
  and keep their keys; configurations under Disagreements take these conditions away one at a time.

`CHECK_DEADLOCK` is off where the time, slot or call bounds stop the model.

## Disagreements

Two are runs that TLC finds violated:

1. `rex_unstaked`: after `unstaketorex` the stake in the vote and `vote_stake` differ, and
   the proceeds of a filled order may not be collectable.
2. `onblock_twice`: while a swap is held and producers leave, the standby is scheduled
   twice, the chain refuses, and `onblock` aborts until the next rotation is due.

Eight more have a configuration of their own, to be run by hand, and show what the properties of
the passing runs leave out:

3. `MCTedpBlocked.cfg` (`DuePayoutsArePayable`): `setratio` takes ratios up to 199, but above 100 the
   part of REX turns negative with enough stake on the EVM, the conversion to an unsigned amount is
   undefined, and every outcome aborts: nobody is paid until the ratio is lowered or the stakes change.
4. `MCTedpRounded.cfg` (`DuePayoutsArePayable`): at a ratio of exactly 100, with far more staked on the EVM than
   a small pool lends, the part of REX rounds to zero. `distviarex` is called with it all the same
   (`eosio.tedp.cpp:118-125`), the transfer of zero in `channel_to_rex` (`rex.cpp:939-953`) is refused, and `pay` aborts
   for every payee, until more REX is bought, EVM stake leaves, more falls due or the ratio is lowered.
5. `MCTedpRexEmpty.cfg` (`RexRewardSent`): with no REX and no EVM stake the clock of the REX row
   moves and nothing is sent (`eosio.tedp.cpp:121`, `rex.cpp:939`).
6. `MCTedpAccrual.cfg` (`AccruedTimeKept`): README line 13 says payouts accrue; the part of an
   interval that has accrued is lost at every call (`eosio.tedp.cpp:98`, `104`).
7. `MCTedpRatio.cfg` (`RatioInRange`): `setevmconfig` as the first call stores a ratio nobody
   initialized (`eosio.tedp.cpp:161-168`).
8. `MCOnblockKeys.cfg` (`PunctualNotCharged`): a new signing key of one producer restarts the count
   within a turn, and others are charged for blocks they produced.
9. `MCOnblockShares.cfg` (`PaymentsBacked`): a resigned producer without votes ends the count of
   shares early, and the snapshot overdraws the bucket (`producer_pay.cpp:347-363`).
10. `MCResourcesCanceled.cfg` (`RefundAttempted`): an account that stakes for somebody else while its refund waits
   cancels the deferred refund (`delegate_bandwidth.cpp:334`). The ricardian contract (line 599) has the system
   attempt to return the funds by itself; here nothing attempts it. They are not lost: `refund` by hand pays them.

Seen while reading, without a run:

* The ricardian contract of undelegatebw (line 599) takes the stake from the vote weight of the receiver; the code takes it from that of `from`.
* The comment on `buyrambytes` (`delegate_bandwidth.cpp:23`) says an exact amount of RAM is bought. Prices are
  rounded, and taken before `update_ram_supply` moves them.
* The documentation of `exec` (`eosio.msig.hpp:90-99`) asks for all requested approvals and no
  invalidation; the code asks for the authority the transaction needs, from those that count, and
  lets an approval later than the invalidation count. Both times are of the block, so
  an approval in the block of an invalidation does not count, whichever came first.
* An account with a name under auction that `eosio` creates leaves the auction where it is:
  it may close, its proceeds go to REX, and nobody can claim the name.
* `recalculate_votes` counts votes as if they were cast now: one voter for a producer that has
  resigned, or one client of a proxy that has, makes it fail, and with it `onblock`.
* A proxy whose own vote weighs nothing does not pass on the stake of clients that join
  it (`voting.cpp`, the guard on `last_vote_weight`) until it votes again.
* `deploy.sh` line 1 sets an amount above `max_tf_amount`, which the contract refuses.
* `getbalanceratio` looks accounts up by a 20-byte key where the table's index pads to 32.
* `lifetime_missed_blocks` grows twice by the same number at a kick
  (`system_rotation.cpp:81`, `eosio.system.hpp:410`).

## Fairness

`tedp_live` assumes weak fairness of `pay`: the action is public and the README says that it is called
periodically. `rex_queue` assumes that time passes and that someone calls `rexexec` when maintenance
is due; it too is public, and every other REX action runs the same maintenance. No fairness is
assumed of owners, payees, funders or administrators, nor of the chain's queue of deferred
transactions, which may drop what it holds: what must be true of refunds is therefore safety
(`RefundScheduled`, `DeferredNotEarly`, `RefundWaits`).

## Proofs

`LedgerProofs` has what the others need about money. A sum (`SumOf`) and a list of inline transfers
are recursions, and what they do for every set or list is argued with the least counterexample: if a
fact about the sums over the parts of a set failed, it would fail for one of least size, and taking an element out of
that gives a smaller one. From it: a sum changes with a row by the change of the row, rows of zero can be
left out, a sum of naturals is natural and at least each of its terms, a transfer moves what it says and
keeps the total, and so does a list of them.

`TedpProofs` proves, for every set of payees, every maximum, interval and bound:

* `ContractTypes`, `Types`: the tables keep their types, amounts within their maxima, clocks not
  ahead of the time; so do balances and the pool of REX.
* `DrawdownIsBounded`: `Spec => []DrawdownBounded`. The invariant says that what was drawn for a
  payee is at most its maximum for the time so far; alone it is not inductive, since a step that pays
  must know that the time paid for was not paid before. `IInv` adds `DrawnByClock`: what was
  drawn is within the maximum for the time *up to the row's clock* while it has a row, and up to now otherwise.
  A payment moves the clock to now and draws at most the maximum for the whole intervals between
  (`ReleaseBound`); setting and deleting rows keep the bound because a new row's clock is now.
* `TimeIsPaidInFull`: `Spec => PaidInFull`, an action property: whenever `pay` moves clocks, what they write off is
  what the payees, the EVM and the pool receive. Rows are paid in a loop; the lemma about it is that
  after each row the transfers queued so far are what the rows so far owe.
* `SplitIsProportional`: `Spec => SplitProportional`, from the arithmetic of the two truncations.
* `Refinement`: `Spec => RefinesFaucet`, step by step under `IInv`: `pay` is a release, a new row an
  enrolment, deletion a removal, everything else a stutter or a tick.

`RexPoolProofs` proves facts about truncating division; that buying, filling, channelling, lending and
ending a loan leave the totals of the pool in agreement (`PoolOK`); and that none of them lowers the
value of a unit of REX (`PurchaseKeepsValue`, `SaleKeepsValue`, `IncomeKeepsValue`). `TedpProofs` uses it where
others trade REX between calls.

`RexProofs` proves about REX, for every set of owners, term, ratio and amounts,
`SharesAreAccounted`, `RexIsSolvent`, `LoansAreAccounted`, `QueueIsServed`, `ShareValueIsKept` and `NamebidsDoReachRex`:
each is `Spec =>` the property of the runs that its name recalls. `LocksAreHeld` and `TypesHold` are about
`LockHeld` and `TypeOK` as long as `BeforeEndOfDays`: what is bought now matures before `time_point_sec::maximum`, the
time that the bucket of savings carries. From then on that bucket would not be the last.

* The invariant is `TablesOK(t, gap, D, c)`, about a record of tables in the middle of a transaction. The total of
  the pool is the REX of the balances, each balance is its matured REX and its buckets, and covers
  its order; what is lent is what the loans hold; the limits of an account are what is delegated to it (`D`)
  and its loans; no loan outlives an open order by its term; and eosio.rex holds what it owes *plus `gap`*.
  None of these is inductive alone: an order is filled from the balance that covers it, and pays what the pool
  has gained since it was made.
* The `gap` is what makes the proof compositional. A helper that changes a table before, or after, the
  inline transfer that goes with it moves the gap by the amount, and a whole action leaves it where it was, at 0.
  `c` is what the transaction started from, so that "the value of REX has not fallen" and
  "what has been struck off has left eosio.names" can be said in the middle.
* Each helper has one lemma (`...Sound`): it keeps `TablesOK`, with the gap it leaves, and a frame: the fields
  it may change. The loops of `runrex`, over loans and over orders, keep it by the least
  number of turns after which it would fail; `RunSound` is the whole of the maintenance, for any number of turns. Each
  action then has one step lemma.
* `LockHeld` is about a step, yet a step is several changes to a row: matured buckets go, a bucket is added,
  buckets are merged, savings move. `LocksOK` therefore compares, in the middle of the transaction, the rows with those in `c`:
  for every moment before new REX matures, what an owner has in buckets that mature later is no less than what
  it had, plus what it has more of REX. Each helper that changes a row has a lemma `LockRaised` about it. It
  rests on the order of buckets (`InOrder`), since the code finds what has matured at the front and savings
  at the end; the order rests on `MaturityOf` not falling with time.
* That no balance, fund or bucket falls below zero is in `IInv` with the rest (`Unowed`, `IsRow`). That no limit
  does follows: a limit is what is delegated and what is lent, and neither is negative (`LimitsNatural`).
* `IInv` is `TablesOK` for the variables, gap 0 (`TablesSound`), and the type of `delband`.

`ResourcesProofs` proves, for every set of users and producers, every delay, rate and amount, every weight
of votes and any number of calls:

* `StakesAreAccounted`, `RefundsWait`, `DeferredIsNotEarly`, `RamIsBacked`, `LimitsDoMatch`: each is `Spec =>` the
  property of `resources` that its name recalls.
* The invariant, `BooksInv`, is the conjunction of four parts about a record of tables, and each part is
  about few of them. `StakesOK`: the sum over `delband` by receiver is the bandwidth, by source the votable stake,
  and its whole with the refunds what eosio.stake has. `RefundsOK`: no refund is older than its
  owner's last unstaking, and a deferred one is not before it. `RamOK`: the RAM totals, and that the product of the
  reserves is at least what it would be if all RAM had been bought back (`MarketOK`); from
  that alone follows that what was paid in is enough (`BuyBack`), although every trade is rounded. `LimitsOK`.
* Each helper has a lemma with its frame, the fields it may change (`Frame`), and what it does to them; each action
  of the contract one that it keeps the books (`...Books`), and each step of the specification one on top.
* Voting matters to the books only by what it does not do: a vote, the chain of proxies and the recount
  leave every stake and managed limit alone (`Polling`). The two loops keep that by the least number
  of turns after which it would fail.

The second part of `ResourcesProofs` proves, with the same generality, `VotesDoAddUp`, `VotesDoFollowStakes` and `ResourcesTypeCorrect`
(`TypeOK`; the stakes in it come from the books, the votes from what follows).

* A row of a voter is seen as a ballot: the stake, the weight, the proxy or the producers that have been counted for
  it. `Tallied(t, c, e)` says that the tables have counted the ballots `c`: each proxy has been given what `c` gives it,
  each producer has what `c` casts for it, and the total is theirs but for `e`. `VotesAddUp` is that, with `c` read off
  the rows, but it is not inductive: a vote takes an old ballot back and casts a new one in several steps, and a proxy's
  ballot changes because of somebody else's.
* So between actions every row is also `Counted` (the weight is that of the stake it was counted for, which is the
  owner's stake if it votes or has a proxy) and `Fresh` (a proxy's weight is that of its own stake and of what it has been
  given); that is `AllCounted`. In the middle (`Open`) one voter's ballot may differ from its row, and one proxy, whose
  stake has just changed, need not be fresh; `propagate_weight_change` then makes it so.
* A weight of 0 is the hard case: the code takes it for "has not voted", in `last_vote_weight` and `last_stake`. `Counted`
  says for whom that is harmless.
* The recount starts the tallies from nothing and votes for one row after another; `Counting(t, S, D, e)` says that
  those of `S` have voted among `D`, whose other rows are blank. Its loop is done by the least number of turns after which
  that would fail.

`OnblockProofs` proves, for every set of producers, keys, votes and rates, every number of places and standbys, every
length of a turn, and any number of blocks, calls and skipped slots:

* `BlocksAccounted`, `BpayCoversPayments`, `ProducersTypeCorrect`. The invariant `IInv` is `TablesOK(Now)`: the types of
  all tables, that the total of unpaid blocks is the sum over the producers (`BlocksOK`), and that eosio.bpay holds the
  bucket and the payments (`Covers`). Each of them needs the types: a helper adds to and subtracts from rows
  that must be there, a correction must stay a number of 32 bits, and the rotation indexes a list by numbers that it kept from another.
  Each helper has a lemma with its frame (`MetricsOnly`, `ProdsOnly`, `RotationOnly`, `Settles`), and the two loops, of
  kicks and of payments, keep the invariant by the least number of turns after which it would fail.
* `PaymentsAreBacked`: `[]PaymentsBacked` under `0 \notin Votes`. `BpayCovers`, its first half, holds for all
  constants; that the bucket stays at or above zero is proved where every producer has votes, since without them it is
  false, as `MCOnblockShares.cfg` shows. The argument: with votes the active producers are a front of the index, so the shares
  that are counted are at least those that are paid (`BucketKept`), and a share is rounded down.
* `MostVotedAreProposed`: `Spec => ProposesTheMostVoted`, an action property. `RankedLists` is the lemma about orders: `Ranked`
  lists every element of a set once, in its order. Hence those who may be elected are first in the index by votes
  (`ElectableFirst`), the election takes a front of them (`LeadingFirst`, `IsElection`), the rotation puts one standby in
  one of its places (`IsTop`), and sorting by name moves nobody in or out (`MostVoted`). It needs the types of
  the rotation, and that what `onblock` does after an election leaves votes and who is active as they are (`Continues`).

A proof attempt corrected the model here: `Quotient`, the division of the bucket by the shares, rounded a negative bucket down
instead of towards zero, as the code does; the lemma about it could not be proved before.

`NameAuctionsProofs` proves, for every set of bidders, names and bids:

* `Types`, and `RefundsUnderWay`: `Spec => []RefundScheduled`, which is inductive as it stands.
* `ClosesAsPromised`: `Spec => ClosedAsPromised`, an action property, from the types of the rows (`BidsOK`):
  only a block ends an open auction (`OnlyBlocksClose`), and the index orders bids
  by their negative, so that the first is the greatest.
* `SupplyIsBacked`, `NamesAreBacked`, `BiddersStayWhole`: balances add up to the supply; eosio.names holds at
  least the refunds, standing bids and proceeds; a bidder pays but for a name. Each needs the
  types, and that a refund is owed to a bidder, not to the contract itself.

`MsigProofs` proves, for every set of proposals, accounts, levels and transactions, every delay and
expiration, and every rule of authority:

* `TablesTyped`: `Spec => []TypeOK`.
* `OnlyConsentCounts`: `Spec => []CountedIsConsent`. Not inductive alone: that an
  invalidation reaches every approval needs `TimesPast` (no time on record is later than now), and that
  a new approval is the only one of its level needs `Apart` (a level is not requested and provided at
  once). `IInv` is the conjunction with the types.
* `MsigImplements`: `Spec => ImplementsConsent`. Under `IInv` an approval is a join, or a stutter
  if it does not count; a withdrawal and an invalidation are leaves, an execution a send.

Assumptions are the named ASSUMEs on constants: in `RexPool` that the ratio and the first rent are
positive; in `Tedp` that the accounts are distinct, REX is one of finitely many payees, intervals and units are
positive, and maxima, ratios and inputs are natural; in `RexTables` and `Rex` that owners are finite and none of them
is a contract, the contracts are distinct, periods, amounts, stakes and balances at the start are natural; in
`Voting`, `Staking` and `Resources` that users and producers are finite, users are numbers above 0 and none is a contract,
eosio.stake and eosio.ram are accounts of their own, and weights, delays and rates are natural; in
`Producers` and `Onblock` that there are finitely many producers, whose names are positive numbers other than that of eosio, some key,
places for standbys behind those at the top (`MAX_PRODUCERS > TOP_PRODUCERS > 0`), positive turns, shares and intervals of rotation, a range of
integers above the blocks of a turn, and natural votes and rates; in `Msig`
that every name has a proposer, every level an
account and every transaction a delay and an expiration, and that the values for "none" are not among
the others; in `NameAuctions` that names are positive numbers, bids integers, bidders finite, and their
funds within the cap of the supply.

Only model-checked:

* Liveness: `EveryDueRowPaid`, `OpenOrderFilled`.
* In `Rex`: `StakeCounted`, which is not true for all constants: with unstaketorex it is `rex_unstaked`, and a
  purchase so small that it yields no REX leaves a vote stake on an empty row.
* In `Onblock`: `PunctualNotCharged`, which is not true for all constants (`MCOnblockKeys.cfg`), and whose truth
  in `onblock_missed` rests on the order of slots, corrections and activations over several turns; `ChargesWithinTime`, which
  rests on when the last cycle ended and which schedule was in force since then, of which no table keeps a record; and `ScheduledOnce`, which is false (`onblock_twice`).

## Not modelled

* The REX return pool (`rex.cpp:631-731`, `1096-1125`): nothing on Telos funds it.
* Between REX and the rest: the vote stake of REX holdings in `Staking` (`vote_stake_updater`), and the votes
  required before buying REX in `Rex`. `Rex` has stakes of its own, and so has no composition with `Resources`.
* The refusal of eosio.token to issue inflation beyond the maximum supply (`eosio.token.cpp:47`): at the cap `onblock`
  would abort in `Producers`, leaving its tables as they are. `Token` and `NameAuctions` have the cap.
* `total_activated_stake` and the activation of the network (`voting.cpp`, `producer_pay.cpp`).
* Floating point: weights of votes are scaled integers, the Bancor formulas divisions of integers. The
  sine in `inverse_vote_weight` is a table of constants.
* Administration without a state of its own: `setpriv`, `setparams`, `setabi`, `updtrevision`, `setinflation`
  and the like; and the chain's native actions but `newaccount`.
* powerup and limit_auth_changes (disabled), the EVM interpreter (never called), vendored code.

## Plan

Done: every module above, and the proofs listed.

Left, in this order:

1. `ChargesWithinTime` for `Onblock`, with a history of the cycles and schedules; it may need that onblock does not
   abort between the proposal of a schedule and its activation.
2. REX and staking together: `vote_stake_updater` and `unstaketorex` on the tables of `Resources`.
3. The elections of `Onblock` with the votes of `Voting` instead of a set of values.
