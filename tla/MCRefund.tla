------------------------------ MODULE MCRefund ------------------------------
(* Small instances of Refund: a payment of two units, returned in whole or  *)
(* in part by requests and events that race.                                *)
EXTENDS Refund, TLC

Symmetry == Permutations(Callers)
=============================================================================
