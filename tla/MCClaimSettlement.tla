------------------------ MODULE MCClaimSettlement ------------------------
(* Small instances of ClaimSettlement: checkouts of one customer for the  *)
(* same once-per-user offer, paid once or twice.                          *)
EXTENDS ClaimSettlement, TLC

CONSTANTS o1, o2, p1, p2, slot

MCSlotOf == [o \in Orders |-> slot]

\* Two attempts to pay one order, and one attempt for each order.
SameOrder == [p \in Payments |-> o1]
OwnOrders == [p \in Payments |-> IF p = p1 THEN o1 ELSE o2]

Symmetry == Permutations(Payments) \cup Permutations(Handlers)
=============================================================================
