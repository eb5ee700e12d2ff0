CONSTANTS
    rex_ratio = 4
    init_total_rent = 1
    rex_account = eosio_rex
    names_account = eosio_names
    seconds_per_day = 1
    num_of_maturity_buckets = 2
    loan_term = 3
    end_of_days = 100
    Owners = {1,2}
    stake_account = eosio_stake
    Others = others
    MaxTime = 4
    Deposits = {2,4}
    Withdrawals = {1}
    Purchases = {4}
    Sales = {8}
    Moves = {}
    Unstakings = {}
    LoanPayments = {1}
    LoanFunds = {0,1}
    MaxLoans = 2
    Rents = {3}
    RunMax = {1}
    Incomes = {}
    Bids = {1}
    MaxIncome = 1
    InitialBalance <- LenderAndRenter
    InitialStake <- NoStake
    eosio_rex = eosio_rex
    eosio_names = eosio_names
    eosio_stake = eosio_stake
    others = others
SPECIFICATION Spec
INVARIANTS
    RexSolvent
    SharesAccounted
    LoansAccounted
    QueueServedInTime
    StakeCounted
PROPERTIES
    NamebidsReachRex
CHECK_DEADLOCK FALSE
