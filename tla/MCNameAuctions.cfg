SPECIFICATION Spec

CONSTANTS
    alice = alice
    bob = bob
    Bidders <- MCBidders
    Accounts <- MCAccounts
    Quantities <- MCQuantities
    MaxAmount = 40
    NoStat = NoStat
    names_account = names_account
    rex_account = rex_account
    eosio = eosio
    Premium = {1, 2}
    Others = {3}
    Suffix <- MCSuffix
    Bids = {8, 9, 10, 12}
    Funds = 20
    day = 1
    activation = 0
    MaxTime = 4
    Budgets <- MCBudgets

SYMMETRY Symmetry

INVARIANTS
    TypeOK
    SupplyBacked
    NamesBacked
    RefundScheduled

PROPERTIES
    BiddersWhole
    ClosedAsPromised

CHECK_DEADLOCK FALSE
