SPECIFICATION Spec

CONSTANTS
    ann = ann
    bo = bo
    ann_active = ann_active
    ann_owner = ann_owner
    bo_active = bo_active
    now_due = now_due
    late_due = late_due
    Names = {p}
    Accounts <- MCAccounts
    Proposer <- MCProposer
    Levels <- MCLevels
    Actor <- MCActor
    Trxs <- MCTrxs
    Expiration <- MCExpiration
    Delay <- MCDelay
    Authorized <- Both
    NoTrx = NoTrx
    NoTime = NoTime
    MaxTime = 3

INVARIANTS
    TypeOK
    CountedIsConsent

PROPERTIES
    ImplementsConsent

CHECK_DEADLOCK FALSE
