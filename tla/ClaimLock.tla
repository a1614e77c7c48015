----------------------------- MODULE ClaimLock -----------------------------
(***************************************************************************)
(* What a settlement promises about the payments it has claimed: they are  *)
(* locked while it is open or paid, and let go, once and for all, only     *)
(* after it has closed.                                                    *)
(***************************************************************************)

VARIABLES phase,  \* "open", "paid" or "closed"
          held    \* do its payments still carry its id?

vars == <<phase, held>>

Init == phase = "open" /\ held = TRUE

Pay == phase = "open" /\ phase' = "paid" /\ UNCHANGED held

Close == phase # "closed" /\ phase' = "closed" /\ UNCHANGED held

Release == phase = "closed" /\ held' = FALSE /\ UNCHANGED phase

Next == Pay \/ Close \/ Release

Spec == Init /\ [][Next]_vars
=============================================================================
