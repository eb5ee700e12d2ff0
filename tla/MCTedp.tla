------------------------------- MODULE MCTedp -------------------------------
(***************************************************************************)
(* Instances of Tedp.  Times are scaled: rex is paid every second and tf   *)
(* every two; maxima are 5 and 1 tokens.                                   *)
(***************************************************************************)
EXTENDS Tedp, TLC

CONSTANTS tf, rex, evm, tedp, others

MCAccounts == {tf, rex, evm, tedp, others}
MCinterval == tf :> 2 @@ rex :> 1
MCmax_amount == tf :> 1 @@ rex :> 5
=============================================================================
