CONSTANTS
    rex_ratio = 4
    init_total_rent = 1
    rex_account = eosio_rex
    names_account = eosio_names
    seconds_per_day = 2
    num_of_maturity_buckets = 2
    loan_term = 3
    end_of_days = 100
    Owners = {1,2}
    stake_account = eosio_stake
    Others = others
    MaxTime = 4
    Deposits = {2}
    Withdrawals = {1}
    Purchases = {1,2}
    Sales = {3}
    Moves = {3}
    Unstakings = {1}
    LoanPayments = {}
    LoanFunds = {}
    MaxLoans = 0
    Rents = {}
    RunMax = {1}
    Incomes = {1}
    Bids = {}
    MaxIncome = 1
    InitialBalance <- OnlySecond
    InitialStake <- OnlyFirst
    eosio_rex = eosio_rex
    eosio_names = eosio_names
    eosio_stake = eosio_stake
    others = others
SPECIFICATION Spec
INVARIANTS
    TypeOK
    SharesAccounted
PROPERTIES
    ShareValueNeverFalls
    LockHeld
CHECK_DEADLOCK FALSE
