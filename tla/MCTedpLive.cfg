SPECIFICATION FairSpec
CONSTANTS
    tf = tf
    rex = rex
    evm = evm
    tedp = tedp
    others = others
    Payees = {tf, rex}
    REX_ACCOUNT = rex
    EVM_ACCOUNT = evm
    Self = tedp
    Others = others
    Accounts <- MCAccounts
    max_amount <- MCmax_amount
    interval <- MCinterval
    Unit = 2
    WeiPerUnit = 2
    NoConfig = NoConfig
    AnyRatio = {0}
    MaxTime = 2
    AmountInputs = {1}
    RatioInputs = {60, 100, 199}
    EvmBalances = {0, 4, 60}
    RexPurchases = {2}
    Fundings = {3}
    InitialReserve = 5
    InitialOthers = 3
    rex_ratio = 1
    init_total_rent = 1
PROPERTIES
    EveryDueRowPaid
CHECK_DEADLOCK FALSE
