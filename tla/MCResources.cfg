SPECIFICATION Spec

CONSTANTS
    MAX_VOTE_PRODUCERS = 2
    weight_of <- MCWeightOf
    stake_account = 11
    ram_account = 12
    ramfee_account = 13
    rex_account = 14
    rex_available = TRUE
    network_activated = TRUE
    refund_delay = 2
    ram_gift_bytes = 1
    Users = {1, 2}
    Older = {2}
    Proxies = {2}
    Producers = {21, 22}
    Funds = 20
    Stakes <- MCStakes
    Quants = {2, 6}
    MaxRam = 20
    Supply = 10000
    RamRates = {3}
    LimitValues = {0, 5}
    MaxTime = 3
    Budgets <- MCBudgets

INVARIANTS
    TypeOK
    StakesAccounted
    DeferredNotEarly
    RamBacked
    LimitsMatch
    VotesAddUp
    VotesFollowStakes

PROPERTIES
    RefundWaits

CHECK_DEADLOCK FALSE
