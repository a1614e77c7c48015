----------------------- MODULE MCPromoReservation -----------------------
(* Small instances of PromoReservation: two or three checkouts compete for *)
(* the one use of a code.                                                  *)
EXTENDS PromoReservation, TLC

Symmetry == Permutations(Transactions) \cup Permutations(Callers)
=============================================================================
