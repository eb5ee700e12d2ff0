-------------------------------- MODULE MCRex --------------------------------
(***************************************************************************)
(* Instances of Rex.  Time is scaled: a day is one or two moments long,    *)
(* REX matures after one day more than that of the purchase, and a loan    *)
(* lasts three moments.                                                    *)
(***************************************************************************)
EXTENDS Rex

CONSTANTS eosio_rex, eosio_names, eosio_stake, others  \* model values

\* Balances and stakes of the owners.
NoStake == 1 :> 0 @@ 2 :> 0
TwoLenders == 1 :> 2 @@ 2 :> 2
LenderAndRenter == 1 :> 4 @@ 2 :> 2
OnlySecond == 1 :> 0 @@ 2 :> 2
OnlyFirst == 1 :> 1 @@ 2 :> 0
One == 1 :> 1
=============================================================================
