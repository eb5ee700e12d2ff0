SPECIFICATION Spec
CONSTANTS
    alice = alice
    bob = bob
    carol = carol
    Accounts <- MCAccounts
    Quantities <- MCQuantities
    MaxAmount = 4
    NoStat = NoStat
SYMMETRY Symmetry
INVARIANTS
    TypeOK
    SupplyBacked
