--------------------------- MODULE MCSubscription ---------------------------
(* Small instances of Subscription: a few orders of one brand.             *)
EXTENDS Subscription, TLC
=============================================================================
