--------------------------- MODULE MCNameAuctions ---------------------------
(***************************************************************************)
(* Two bidders, two names to be auctioned and a third with the suffix of   *)
(* the first.  A day is over after two blocks.  Either only the actions of *)
(* eosio.token are called, or bids and other calls with one of them.       *)
(***************************************************************************)
EXTENDS NameAuctions, TLC

CONSTANTS alice, bob

MCBidders == {alice, bob}
MCAccounts == MCBidders \cup {names_account, rex_account}
MCQuantities == {-1, 0, 1, 2, 4, 41}
MCSuffix == 3 :> 1
MCBudgets == {[token |-> 5, auction |-> 0], [token |-> 1, auction |-> 2], [token |-> 0, auction |-> 4]}
Symmetry == Permutations(MCBidders)
=============================================================================
