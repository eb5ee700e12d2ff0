SPECIFICATION Spec
CONSTANTS
    tf = tf
    rex = rex
    evm = evm
    tedp = tedp
    others = others
    Payees = {tf, rex}
    REX_ACCOUNT = rex
    EVM_ACCOUNT = evm
    Self = tedp
    Others = others
    Accounts <- MCAccounts
    max_amount <- MCmax_amount
    interval <- MCinterval
    Unit = 1
    WeiPerUnit = 2
    NoConfig = NoConfig
    AnyRatio = {500}
    MaxTime = 3
    AmountInputs = {0, 1, 2, 3}
    RatioInputs = {60, 150, 200}
    EvmBalances = {0, 6}
    RexPurchases = {2}
    Fundings = {3}
    InitialReserve = 5
    InitialOthers = 3
    rex_ratio = 1
    init_total_rent = 1
PROPERTIES
    RexRewardSent
CHECK_DEADLOCK FALSE
