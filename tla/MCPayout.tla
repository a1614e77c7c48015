------------------------------ MODULE MCPayout ------------------------------
(* Small instances of Payout: a settlement of two units, paid by requests  *)
(* that race.                                                              *)
EXTENDS Payout, TLC

Symmetry == Permutations(Callers)
=============================================================================
