---------------------------- MODULE MCResources -----------------------------
(***************************************************************************)
(* Two accounts, one of them a proxy, and two producers: a token weighs    *)
(* one half for each if one is voted for, and one if both are, here scaled *)
(* by two.  A delay of three days is two blocks.  A run is made of scopes, *)
(* each with calls of some kinds.                                          *)
(***************************************************************************)
EXTENDS Resources, TLC

MCWeightOf == 0 :> 0 @@ 1 :> 1 @@ 2 :> 2
MCStakes == {Weights(1, 0), Weights(2, 1)}

Scope(stake, buys, lim, supply, vote, producer, drift) ==
    [stake |-> stake, ram |-> buys, limits |-> lim, supply |-> supply,
     vote |-> vote, producer |-> producer, drift |-> drift]

MCBudgets ==
    {Scope(4, 0, 0, 0, 0, 0, 0),
     Scope(0, 3, 0, 1, 0, 0, 0),
     Scope(1, 2, 0, 1, 0, 0, 0),
     Scope(2, 1, 1, 0, 0, 0, 0),
     Scope(2, 0, 0, 0, 3, 0, 1),
     Scope(2, 0, 0, 0, 2, 1, 1)}

\* Stakes and refunds alone.
MCStakesAlone == {Scope(3, 0, 0, 0, 0, 0, 0)}
=============================================================================
