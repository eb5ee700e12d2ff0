------------------------------ MODULE MCToken -------------------------------
EXTENDS Token, TLC

CONSTANTS alice, bob, carol

MCAccounts == {alice, bob, carol}
MCQuantities == -1..5
Symmetry == Permutations(MCAccounts)
=============================================================================
