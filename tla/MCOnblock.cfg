SPECIFICATION Spec

CONSTANTS
    TOP_PRODUCERS = 2
    MAX_PRODUCERS = 3
    MAX_BLOCK_PER_CYCLE = 2
    kick_share = 2
    missed_percent = 15
    rotation_interval = 8
    schedule_interval = 1
    snapshot_interval = 4
    slots_per_hour = 1
    block_num_network_activation = 1
    uint32_range = 256
    eosio = 9
    Names = {1, 2, 3}
    Keys = {1}
    Votes = {1, 2}
    Hours = {1}
    Rates <- TwoRates
    MaxReserve = 20
    MaxSkips = 0
    MaxCalls = 2
    MaxSlot = 12

INVARIANTS
    TypeOK
    UnpaidBlocksAccounted
    PaymentsBacked

PROPERTIES
    ProposesTheMostVoted

CHECK_DEADLOCK FALSE
