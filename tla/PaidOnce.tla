------------------------------ MODULE PaidOnce ------------------------------
(***************************************************************************)
(* What settling a claim payment promises: an order is paid for once, by   *)
(* one captured payment made against it, for ever; it is delivered (its    *)
(* redemption, ledger rows and invoice exist) only when paid; and only a   *)
(* second payment of a paid order is ever reported as a double charge.     *)
(***************************************************************************)
EXTENDS Naturals

CONSTANTS Orders, Payments, OrderOf, None

VARIABLES payer,      \* the payment each order was settled with
          delivered,  \* the orders whose records are all there
          reported    \* the payments reported as a second capture

vars == <<payer, delivered, reported>>

Init ==
  /\ payer = [o \in Orders |-> None]
  /\ delivered = {}
  /\ reported = {}

Settle(o, p) ==
  /\ payer[o] = None
  /\ OrderOf[p] = o
  /\ payer' = [payer EXCEPT ![o] = p]
  /\ UNCHANGED <<delivered, reported>>

Deliver(o) ==
  /\ payer[o] # None
  /\ delivered' = delivered \cup {o}
  /\ UNCHANGED <<payer, reported>>

Report(p) ==
  /\ payer[OrderOf[p]] \notin {None, p}
  /\ reported' = reported \cup {p}
  /\ UNCHANGED <<payer, delivered>>

Next ==
  \/ \E o \in Orders : Deliver(o)
  \/ \E p \in Payments : Report(p)
  \/ \E o \in Orders, p \in Payments : Settle(o, p)

Spec == Init /\ [][Next]_vars
=============================================================================
