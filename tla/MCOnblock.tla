------------------------------ MODULE MCOnblock ------------------------------
(***************************************************************************)
(* Small producer economies.  The constants of the code are scaled down:   *)
(* two or three top producers and one or two standbys, turns of two slots, *)
(* and intervals of a few slots, in the order of those in the code.        *)
(***************************************************************************)
EXTENDS Onblock

NoPay == {[bpay_rate |-> 0, worker_amount |-> 0]}
OneRate == {[bpay_rate |-> 3, worker_amount |-> 1]}
TwoRates == {[bpay_rate |-> 3, worker_amount |-> 1], [bpay_rate |-> 5, worker_amount |-> 0]}
=============================================================================
