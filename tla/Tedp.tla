-------------------------------- MODULE Tedp --------------------------------
(***************************************************************************)
(* eosio.tedp, the contract that pays rewards from the reserves it holds   *)
(* to a list of payees.  One action per contract action; a transaction is  *)
(* atomic, its inline actions included, so each check, of an inline action *)
(* too, is a guard.  The state other contracts keep and tedp reads or      *)
(* changes is here as far as tedp depends on it: the core token's balance  *)
(* rows, the totals of the REX pool and the stake counted on the EVM.      *)
(***************************************************************************)
EXTENDS Ledger, RexPool

CONSTANTS
    Payees,        \* the accounts that the set... actions name
    REX_ACCOUNT,   \* eosio.rex, the payee whose payout is split with the EVM
    EVM_ACCOUNT,   \* eosio.evm
    Self,          \* eosio.tedp
    Others,        \* every other holder of the token
    Accounts,      \* the accounts that exist on the chain
    max_amount,    \* the largest amount that may be set for each payee
    interval,      \* the seconds in each payee's interval
    Unit,          \* 10000 indivisible units in one TLOS
    WeiPerUnit,    \* 10^14 wei in one indivisible unit
    NoConfig,      \* the config singleton does not exist
    AnyRatio       \* what the uninitialized ratio field may hold

Row == [amount : Nat, interval : Nat, last_payout : Nat]
Config == [ratio : Nat, evm : BOOLEAN]

ASSUME TedpAssumption ==
    /\ IsFiniteSet(Payees) /\ REX_ACCOUNT \in Payees
    /\ {Self, EVM_ACCOUNT, Others} \cap Payees = {}
    /\ Self # EVM_ACCOUNT /\ Self # Others /\ EVM_ACCOUNT # Others
    /\ max_amount \in [Payees -> Nat]
    /\ interval \in [Payees -> Nat \ {0}]
    /\ Unit \in Nat \ {0}
    /\ WeiPerUnit \in Nat \ {0}
    /\ AnyRatio \subseteq Nat
    /\ NoConfig \notin Config

\* What the environment does is drawn from these sets, and stops at these bounds.
CONSTANTS
    MaxTime,       \* bound: the last second
    AmountInputs,  \* the amounts the set... actions are called with
    RatioInputs,   \* the ratios setratio is called with
    EvmBalances,   \* the stakes, in wei, that the EVM tables may show
    RexPurchases,  \* the amounts with which REX is bought
    Fundings,      \* the amounts others move into tedp, or inflation takes out
    InitialReserve, InitialOthers  \* the balances at the beginning

VARIABLES
    now,            \* current_time_point().sec_since_epoch()
    payouts,        \* the payouts table, by payee
    configuration,  \* the config singleton, or NoConfig
    evm_balance,    \* the wei that the EVM tables hold for sTLOS
    rex_pool,       \* the rexpool row of the system contract
    accounts,       \* the balance rows of the core token
    drawn           \* history: what has left tedp for each payee

vars == <<now, payouts, configuration, evm_balance, rex_pool, accounts, drawn>>

ASSUME TedpInputsAssumption ==
    /\ MaxTime \in Nat
    /\ AmountInputs \cup RatioInputs \cup EvmBalances \subseteq Nat
    /\ RexPurchases \cup Fundings \subseteq Nat \ {0}
    /\ InitialReserve \in Nat /\ InitialOthers \in Nat

-----------------------------------------------------------------------------
(* The share of the EVM                                                    *)

\* The fields the EVM tables are searched with are there once setevmconfig
\* ran: before that nothing is found and the balance is 0.
EvmStake == IF configuration.evm THEN evm_balance ELSE 0

\* A mutant: the share of the EVM taken of the REX stake alone.
getbalanceratio_OfRexOnly ==
    LET evm_total == EvmStake \div WeiPerUnit
        rex_total == rex_pool.total_lendable
    IN  CASE EvmStake = 0 -> [num |-> 0, den |-> 1]
          [] EvmStake # 0 /\ rex_total = 0 -> [num |-> -1, den |-> 1]
          [] OTHER -> [num |-> evm_total * configuration.ratio, den |-> 100 * rex_total]

\* getbalanceratio, as a fraction: 0 when nothing is staked on the EVM, a
\* negative number when REX lends nothing.
getbalanceratio ==
    LET evm_total == EvmStake \div WeiPerUnit
        rex_total == rex_pool.total_lendable
    IN  CASE EvmStake = 0 -> [num |-> 0, den |-> 1]
          [] EvmStake # 0 /\ rex_total = 0 -> [num |-> -1, den |-> 1]
          [] OTHER -> [num |-> evm_total * configuration.ratio,
                       den |-> 100 * (rex_total + evm_total)]

\* round(num / den), for 0 <= num and 0 < den; not positive when num < 0.
Round(num, den) == (2 * num + den) \div (2 * den)

-----------------------------------------------------------------------------
(* What one row is due, and the transfers that pay it                      *)

payouts_due_RoundedUp(p) ==
    (now - payouts[p].last_payout + payouts[p].interval - 1) \div payouts[p].interval
payouts_due(p) == (now - payouts[p].last_payout) \div payouts[p].interval
total_due(p) == payouts_due(p) * payouts[p].amount * Unit

\* The part of a REX payout for distviarex, 0 if it is not called.
payout_amount(p) ==
    LET r == getbalanceratio
    IN  IF r.num >= 0 THEN Round(total_due(p) * (r.den - r.num), r.den) ELSE 0

\* channel_to_rex ignores the call when there is no REX to pay the holders of.
ViaRex(p) == getbalanceratio.num >= 0 /\ rex_available(rex_pool)
ViaEvm_PositiveRatio(p) == getbalanceratio.num > 0 /\ payout_amount(p) < total_due(p)
ViaEvm_EvenIfNothing(p) == getbalanceratio.num # 0
ViaEvm(p) == getbalanceratio.num # 0 /\ payout_amount(p) < total_due(p)

RexPart(p) == IF ViaRex(p) THEN payout_amount(p) ELSE 0
EvmPart(p) == IF ViaEvm(p) THEN total_due(p) - payout_amount(p) ELSE 0

\* What leaves tedp when the row of p is paid.
Outflow(p) == IF p = REX_ACCOUNT THEN RexPart(p) + EvmPart(p) ELSE total_due(p)
InlineTransfers(p) ==
    IF p # REX_ACCOUNT
    THEN {[to |-> p, quantity |-> total_due(p)]}
    ELSE (IF ViaRex(p) THEN {[to |-> REX_ACCOUNT, quantity |-> RexPart(p)]} ELSE {})
         \cup (IF ViaEvm(p) THEN {[to |-> EVM_ACCOUNT, quantity |-> EvmPart(p)]} ELSE {})

Due == {p \in DOMAIN payouts : payouts_due(p) > 0}
DueWithAmount == {p \in Due : payouts[p].amount > 0}
AllTransfers == UNION {InlineTransfers(p) : p \in DueWithAmount}

-----------------------------------------------------------------------------
(* The actions of eosio.tedp; the set... actions differ in payee and bounds *)

setpayout_Unbounded(to, amount) ==
    /\ to \in Accounts
    /\ payouts' =
         [p \in DOMAIN payouts \cup {to} |->
            IF p # to THEN payouts[p]
            ELSE [amount |-> amount, interval |-> interval[to],
                  last_payout |-> IF to \in DOMAIN payouts
                                  THEN payouts[to].last_payout ELSE now]]
    /\ UNCHANGED <<now, configuration, evm_balance, rex_pool, accounts, drawn>>

setpayout_ClockFromZero(to, amount) ==
    /\ amount <= max_amount[to]
    /\ to \in Accounts
    /\ payouts' =
         [p \in DOMAIN payouts \cup {to} |->
            IF p # to THEN payouts[p]
            ELSE [amount |-> amount, interval |-> interval[to],
                  last_payout |-> IF to \in DOMAIN payouts
                                  THEN payouts[to].last_payout ELSE 0]]
    /\ UNCHANGED <<now, configuration, evm_balance, rex_pool, accounts, drawn>>

setpayout(to, amount) ==
    /\ amount <= max_amount[to]
    /\ to \in Accounts
    /\ payouts' =
         [p \in DOMAIN payouts \cup {to} |->
            IF p # to THEN payouts[p]
            ELSE [amount |-> amount, interval |-> interval[to],
                  last_payout |-> IF to \in DOMAIN payouts
                                  THEN payouts[to].last_payout ELSE now]]
    /\ UNCHANGED <<now, configuration, evm_balance, rex_pool, accounts, drawn>>

delpayout(to) ==
    /\ to \in DOMAIN payouts
    /\ payouts' = [p \in DOMAIN payouts \ {to} |-> payouts[p]]
    /\ UNCHANGED <<now, configuration, evm_balance, rex_pool, accounts, drawn>>

pay ==
    /\ configuration # NoConfig
    /\ DueWithAmount # {}
    /\ \A t \in AllTransfers : t.to \in Accounts
    /\ CanTransferAll(accounts, Self, AllTransfers)
    /\ payouts' = [p \in DOMAIN payouts |->
                     IF p \in Due THEN [payouts[p] EXCEPT !.last_payout = now] ELSE payouts[p]]
    /\ accounts' = TransferredAll(accounts, Self, AllTransfers)
    /\ rex_pool' =
         IF REX_ACCOUNT \in DueWithAmount
         THEN channel_to_rex(rex_pool, RexPart(REX_ACCOUNT)) ELSE rex_pool
    /\ drawn' = [p \in Payees |->
                   IF p \in DueWithAmount THEN drawn[p] + Outflow(p) ELSE drawn[p]]
    /\ UNCHANGED <<now, configuration, evm_balance>>

\* get_or_create hands out config_row, whose ratio nothing has initialized.
StoredConfig ==
    IF configuration # NoConfig THEN {configuration}
    ELSE {[ratio |-> r, evm |-> FALSE] : r \in AnyRatio}

setratio(ratio_value) ==
    /\ ratio_value < 200 /\ ratio_value > 0
    /\ \E entry_stored \in StoredConfig :
         configuration' = [entry_stored EXCEPT !.ratio = ratio_value]
    /\ UNCHANGED <<now, payouts, evm_balance, rex_pool, accounts, drawn>>

setevmconfig ==
    /\ \E entry_stored \in StoredConfig :
         configuration' = [entry_stored EXCEPT !.evm = TRUE]
    /\ UNCHANGED <<now, payouts, evm_balance, rex_pool, accounts, drawn>>

-----------------------------------------------------------------------------
(* The rest of the chain, as far as tedp depends on it                     *)

Tick ==
    /\ now < MaxTime
    /\ now' = now + 1
    /\ UNCHANGED <<payouts, configuration, evm_balance, rex_pool, accounts, drawn>>

\* Staking and unstaking of sTLOS on the EVM.
EvmStaking ==
    /\ evm_balance' \in EvmBalances \ {evm_balance}
    /\ UNCHANGED <<now, payouts, configuration, rex_pool, accounts, drawn>>

\* Tokens move into the reserve.
Funded ==
    /\ \E v \in Fundings :
         /\ CanTransfer(accounts, Others, Self, v)
         /\ accounts' = Transferred(accounts, Others, Self, v)
    /\ UNCHANGED <<now, payouts, configuration, evm_balance, rex_pool, drawn>>

\* claimrewards_snapshot takes newly due inflation out of the reserve, as
\* far as the reserve goes.
InflationOffset ==
    /\ \E new_tokens \in Fundings :
         LET transfer_tokens == Min({new_tokens, accounts[Self]})
         IN  /\ CanTransfer(accounts, Self, Others, transfer_tokens)
             /\ accounts' = Transferred(accounts, Self, Others, transfer_tokens)
    /\ UNCHANGED <<now, payouts, configuration, evm_balance, rex_pool, drawn>>

\* The holders of REX, together: REX is bought, or sold and paid out.
RexBought ==
    /\ CanAddToRexPool(rex_pool)
    /\ \E payment \in RexPurchases :
         /\ CanTransfer(accounts, Others, REX_ACCOUNT, payment)
         /\ accounts' = Transferred(accounts, Others, REX_ACCOUNT, payment)
         /\ rex_pool' = add_to_rex_pool(rex_pool, payment)
    /\ UNCHANGED <<now, payouts, configuration, evm_balance, drawn>>

RexSold ==
    /\ \E rex \in 1..rex_pool.total_rex :
         /\ CanFill(rex_pool, rex)
         /\ CanTransfer(accounts, REX_ACCOUNT, Others, proceeds(rex_pool, rex))
         /\ accounts' = Transferred(accounts, REX_ACCOUNT, Others, proceeds(rex_pool, rex))
         /\ rex_pool' = fill_rex_order(rex_pool, rex)
    /\ UNCHANGED <<now, payouts, configuration, evm_balance, drawn>>

-----------------------------------------------------------------------------

Init ==
    /\ now = 0
    /\ payouts = [p \in {} |-> 0]
    /\ configuration = NoConfig
    /\ evm_balance \in EvmBalances
    /\ rex_pool = NoRex
    /\ accounts = [a \in {Self, Others} |-> IF a = Self THEN InitialReserve ELSE InitialOthers]
    /\ drawn = [p \in Payees |-> 0]

Next ==
    \/ \E p \in Payees, amount \in AmountInputs : setpayout(p, amount)
    \/ \E p \in Payees : delpayout(p)
    \/ pay
    \/ \E r \in RatioInputs : setratio(r)
    \/ setevmconfig
    \/ Tick
    \/ EvmStaking
    \/ Funded
    \/ InflationOffset
    \/ RexBought
    \/ RexSold

Spec == Init /\ [][Next]_vars

\* Any account may call pay, and someone who is owed does.
FairSpec == Spec /\ WF_vars(pay)

-----------------------------------------------------------------------------
(* Properties                                                              *)

\* The contract's tables: amounts within the maximum of the payee, the
\* interval of the payee, and no clock ahead of the time, so that the
\* unsigned subtraction in pay does not wrap.
ContractOK ==
    /\ now \in Nat
    /\ \E S \in SUBSET Payees : payouts \in [S -> Row]
    /\ \A p \in DOMAIN payouts :
         /\ payouts[p].amount <= max_amount[p]
         /\ payouts[p].interval = interval[p]
         /\ payouts[p].last_payout <= now
    /\ configuration \in Config \cup {NoConfig}
    /\ drawn \in [Payees -> Nat]

\* The state of other contracts that tedp reads and changes.
ChainOK ==
    /\ evm_balance \in Nat
    /\ PoolOK(rex_pool)

BalancesOK ==
    \E S \in SUBSET (Payees \cup {Self, EVM_ACCOUNT, Others}) : accounts \in [S -> Nat]

TypeOK == ContractOK /\ ChainOK /\ BalancesOK

Balance(a) == BalanceOf(accounts, a)
Received(a) == Balance(a)' - Balance(a)

\* In this step the row of p is paid up to the present.
ClockMoves(p) ==
    /\ p \in DOMAIN payouts \cap DOMAIN payouts'
    /\ payouts'[p].last_payout # payouts[p].last_payout

\* The reserve is never asked for more than the maxima allow for the time
\* that has passed, whatever rows are set, deleted and set again, and
\* however amounts are raised over time that has already accrued.
DrawdownBounded ==
    \A p \in Payees : drawn[p] * interval[p] <= max_amount[p] * Unit * now

\* tedp implements the rate-limited faucet.
Promise == INSTANCE Faucet WITH
    clock <- [p \in DOMAIN payouts |-> payouts[p].last_payout]
RefinesFaucet == Promise!Spec

\* Time is written off a payee's clock only against the full payment for
\* it: a row's clock moves in the very step in which its payee, or REX and
\* the EVM between them, receive all that was due, to the unit.  A REX row
\* is excepted while there is neither REX nor a stake on the EVM.  REX can
\* lend what it received, and what the history says was drawn is what left
\* the reserve.
PaidInFull ==
    [][LET total(d) == SumOver(d, Payees)
       IN  /\ \A p \in Payees : ClockMoves(p) =>
                IF p # REX_ACCOUNT THEN Received(p) = total_due(p)
                ELSE /\ rex_pool'.total_lendable - rex_pool.total_lendable = Received(REX_ACCOUNT)
                     /\ rex_available(rex_pool) \/ EvmStake > 0 =>
                          Received(REX_ACCOUNT) + Received(EVM_ACCOUNT) = total_due(p)
           /\ drawn' # drawn => total(drawn') - total(drawn) = -Received(Self)]_vars

\* The EVM's part of a REX payout is its part of all the TLOS staked, times
\* the configured percentage, to within the rounding of one unit, as the
\* stakes were when pay was called.
SplitProportional ==
    [][LET E == EvmStake \div WeiPerUnit
           all == 100 * (rex_pool.total_lendable + E)
           error == Received(EVM_ACCOUNT) * all - total_due(REX_ACCOUNT) * E * configuration.ratio
       IN  ClockMoves(REX_ACCOUNT) /\ rex_available(rex_pool) /\ EvmStake > 0 =>
             2 * error \in -all..all]_vars

IsDue(p) == p \in DOMAIN payouts /\ p \in DueWithAmount

\* The reserve holds all that is due.
ReserveCovers == CanSub(accounts, Self, MapThenSumSet(total_due, DueWithAmount))

\* With a ratio of 100 or more, REX is left less than half a unit of what is
\* due to it and the EVM: nothing, or less than nothing.
RexSqueezedOut ==
    LET E == EvmStake \div WeiPerUnit
        all == 100 * (rex_pool.total_lendable + E)
    IN  /\ configuration # NoConfig /\ REX_ACCOUNT \in DueWithAmount
        /\ configuration.ratio >= 100
        /\ E > 0 /\ rex_pool.total_lendable > 0
        /\ 2 * total_due(REX_ACCOUNT) * (all - E * configuration.ratio) < all

\* Once tedp is configured, a payee that is due an amount is paid, unless its
\* row is changed first.  Two things can hold it up, and all others with it:
\* a reserve that does not cover what is due, and a ratio of 100 or more with
\* so much staked on the EVM that REX is squeezed out.  Below 100 no stakes
\* do, however large or small the EVM's is against the pool, and no other payee.
EveryDueRowPaid ==
    \A p \in Payees :
      (IsDue(p) /\ configuration # NoConfig) ~> (~IsDue(p) \/ ~ReserveCovers \/ RexSqueezedOut)

(* Statements of the repository that the code does not keep                *)

\* README: payouts are sent by calling pay.  With a configuration and with
\* enough in the reserve, pay is possible whenever something is due.
DuePayoutsArePayable ==
    /\ configuration # NoConfig
    /\ DueWithAmount # {}
    /\ ReserveCovers
    => ENABLED pay

\* README: rewards are sent to receivers such as REX and STLOS on EVM.
\* Whenever the clock of the REX row moves, what was due is sent.
RexRewardSent ==
    [][ClockMoves(REX_ACCOUNT) =>
         Received(REX_ACCOUNT) + Received(EVM_ACCOUNT) = total_due(REX_ACCOUNT)]_vars

\* README: payouts accrue over time until pay is called.  The clock moves by
\* the time that is paid for, so that no accrued time is lost.
AccruedTimeKept ==
    [][\A p \in Payees : ClockMoves(p) =>
         payouts'[p].last_payout =
           payouts[p].last_payout + payouts_due(p) * payouts[p].interval]_vars

\* setratio's message: the ratio must be between 0 and 200%.
RatioInRange == configuration # NoConfig => configuration.ratio \in 1..199
=============================================================================
