CONSTANTS
    rex_ratio = 4
    init_total_rent = 1
    rex_account = eosio_rex
    names_account = eosio_names
    seconds_per_day = 1
    num_of_maturity_buckets = 2
    loan_term = 3
    end_of_days = 100
    Owners = {1}
    stake_account = eosio_stake
    Others = others
    MaxTime = 3
    Deposits = {1}
    Withdrawals = {}
    Purchases = {1}
    Sales = {}
    Moves = {}
    Unstakings = {0,1}
    LoanPayments = {1}
    LoanFunds = {0}
    MaxLoans = 1
    Rents = {}
    RunMax = {1}
    Incomes = {4}
    Bids = {}
    MaxIncome = 4
    InitialBalance <- One
    InitialStake <- One
    eosio_rex = eosio_rex
    eosio_names = eosio_names
    eosio_stake = eosio_stake
    others = others
SPECIFICATION Spec
INVARIANTS
    ProceedsCollectable
CHECK_DEADLOCK FALSE
