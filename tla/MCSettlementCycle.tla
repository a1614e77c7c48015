-------------------------- MODULE MCSettlementCycle --------------------------
(* Small instances of SettlementCycle for TLC. *)
EXTENDS SettlementCycle, TLC

\* Settlements and requests are interchangeable.
Symmetry == Permutations(Settlements) \cup Permutations(Requests)
=============================================================================
