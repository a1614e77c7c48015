----------------------------- MODULE MCCheckout -----------------------------
(* Small instances of Checkout: a double tap, and one from another tab.    *)
EXTENDS Checkout, TLC

CONSTANTS t1, t2, t3, k1

\* The first two taps carry one key, the third none.
DoubleTap == [t \in Taps |-> IF t = t3 THEN NoKey ELSE k1]
=============================================================================
