CONSTANTS
    rex_ratio = 4
    init_total_rent = 1
    rex_account = eosio_rex
    names_account = eosio_names
    seconds_per_day = 1
    num_of_maturity_buckets = 2
    loan_term = 3
    end_of_days = 100
    Owners = {1,2}
    stake_account = eosio_stake
    Others = others
    MaxTime = 2
    Deposits = {2,4}
    Withdrawals = {}
    Purchases = {2,4}
    Sales = {8}
    Moves = {}
    Unstakings = {}
    LoanPayments = {1}
    LoanFunds = {0,1}
    MaxLoans = 2
    Rents = {}
    RunMax = {1}
    Incomes = {}
    Bids = {}
    MaxIncome = 0
    InitialBalance <- LenderAndRenter
    InitialStake <- NoStake
    eosio_rex = eosio_rex
    eosio_names = eosio_names
    eosio_stake = eosio_stake
    others = others
SPECIFICATION FairSpec
PROPERTIES
    OpenOrderFilled
CHECK_DEADLOCK FALSE
