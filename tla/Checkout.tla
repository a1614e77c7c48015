------------------------------ MODULE Checkout ------------------------------
(***************************************************************************)
(* Opening the payment order of a voucher claim                            *)
(* (services/voucherClaims/createVoucherClaimOrder.js): one customer taps, *)
(* taps again, retries with the same idempotency key, and every tap makes  *)
(* a claim, a transaction and a promo reservation before the gateway is    *)
(* asked, or is handed what another tap made.  Any of the calls may fail,  *)
(* and what was made is then unwound; a process that dies leaves it to the *)
(* sweep of stale claims (claimJobs.js).  The taps are for one bill with a *)
(* promo code.  A claim, its transaction and its reservation go by the tap *)
(* that made them; what a payment sets off is in ClaimSettlement, and what *)
(* a reservation does to its code in PromoReservation.                     *)
(***************************************************************************)
EXTENDS Integers, Sequences

CONSTANTS Taps,         \* requests to open an order
          Keys, KeyOf,  \* their idempotency keys
          NoKey, None,
          MaxFaults     \* bound: crashes and failed calls

ASSUME ConstantsAssumption ==
  /\ KeyOf \in [Taps -> Keys \cup {NoKey}]
  /\ NoKey \notin Keys /\ None \notin Taps
  /\ Taps \cap {"none", "refused", "blank"} = {}
  /\ MaxFaults \in Nat

VARIABLES
  once,    \* the offer may be used once per user
  claim,   \* VoucherClaim.status, NONE before it is made
  made,    \* the claims in the order of their creation
  slots,   \* claims with holdsUsageSlot
  linked,  \* claims with a transactionId
  tx,      \* Transaction: NONE, OPEN, or DELETED for isDeleted
  order,   \* transactions with a razorpayOrderId
  promo,   \* PromoCodeUsage.status of each transaction
  aged,    \* claims past their quoteTtlMinutes and promoQuotedUntil
  answer,  \* what a tap was answered: an order, "blank" for one without its id,
           \* "refused", or nothing yet
  pc, found,  \* locals of a tap: the transaction it read, and if that had an order
  sweep,   \* releaseStaleClaimHolds: where it is, and the claim it is at
  faults

rows == <<claim, made, slots, linked, tx, order, promo>>
vars == <<once, rows, aged, answer, pc, found, sweep, faults>>

NotFound == [tx |-> None, order |-> FALSE]

Labels == {"new", "key", "keyclaim", "window", "claim", "transaction", "lost",
           "winner", "winnerclaim", "promo", "order", "link",
           "release", "delete", "undo", "done"}

TypeOK ==
  /\ once \in BOOLEAN
  /\ claim \in [Taps -> {"NONE", "PENDING", "REDEEMED", "CANCELLED"}]
  /\ made \in Seq(Taps)
  /\ slots \subseteq Taps
  /\ linked \subseteq Taps
  /\ tx \in [Taps -> {"NONE", "OPEN", "DELETED"}]
  /\ order \subseteq Taps
  /\ promo \in [Taps -> {"NONE", "RESERVED", "CONSUMED", "RELEASED"}]
  /\ aged \subseteq Taps
  /\ answer \in [Taps -> Taps \cup {"none", "refused", "blank"}]
  /\ pc \in [Taps -> Labels]
  /\ found \in [Taps -> [tx : Taps \cup {None}, order : BOOLEAN]]
  /\ sweep \in [at : {"idle", "promo", "delete"}, claim : Taps \cup {None}]
  /\ faults \in 0..MaxFaults

Init ==
  /\ once \in BOOLEAN
  /\ claim = [t \in Taps |-> "NONE"]
  /\ made = <<>>
  /\ slots = {} /\ linked = {} /\ order = {} /\ aged = {}
  /\ tx = [t \in Taps |-> "NONE"]
  /\ promo = [t \in Taps |-> "NONE"]
  /\ answer = [t \in Taps |-> "none"]
  /\ pc = [t \in Taps |-> "new"]
  /\ found = [t \in Taps |-> NotFound]
  /\ sweep = [at |-> "idle", claim |-> None]
  /\ faults = 0

Goto(t, label) == pc' = [pc EXCEPT ![t] = label]

Answer(t, what) ==
  /\ answer' = [answer EXCEPT ![t] = what]
  /\ Goto(t, "done")
  /\ found' = [found EXCEPT ![t] = NotFound]

\* The next step of a tap that has not ended.
Continue(t, label) ==
  /\ Goto(t, label)
  /\ found' = [found EXCEPT ![t] = NotFound]
  /\ UNCHANGED answer

SameKey(t, u) == KeyOf[t] # NoKey /\ KeyOf[u] = KeyOf[t]

-----------------------------------------------------------------------------
(* The idempotency key and the reuse window.                               *)

StartTap(t) ==
  /\ pc[t] = "new"
  /\ Continue(t, IF KeyOf[t] = NoKey THEN "window" ELSE "key")
  /\ UNCHANGED <<once, rows, aged, sweep, faults>>

\* findByIdempotencyKey, which skips what was deleted ...
OfKey(t) == {u \in Taps : SameKey(t, u) /\ tx[u] = "OPEN"}

FindByKey(t, from, next) ==
  /\ pc[t] = from
  /\ OfKey(t) # {}
  /\ \E u \in OfKey(t) : found' = [found EXCEPT ![t] = [tx |-> u, order |-> u \in order]]
  /\ Goto(t, next)
  /\ UNCHANGED <<once, rows, aged, answer, sweep, faults>>

FindExisting(t) == FindByKey(t, "key", "keyclaim")

NoExisting(t) ==
  /\ pc[t] = "key"
  /\ OfKey(t) = {}
  /\ Continue(t, "window")
  /\ UNCHANGED <<once, rows, aged, sweep, faults>>

\* The answer is made of the transaction as it was read, with an order or none.
AsRead(t) == IF found[t].order THEN found[t].tx ELSE "blank"

\* ... and the claim that names it, in whatever status.
HandExisting(t) ==
  /\ pc[t] = "keyclaim"
  /\ IF found[t].tx \in linked THEN Answer(t, AsRead(t)) ELSE Continue(t, "window")
  /\ UNCHANGED <<once, rows, aged, sweep, faults>>

\* Mutant: a claim whose quote has lapsed is handed back.
ReusableLapsed(u) == claim[u] = "PENDING"

Reusable(u) == claim[u] = "PENDING" /\ u \notin aged

\* The newest of the customer's own open claims, if it got as far as an order.
Reuse(t) ==
  /\ pc[t] = "window"
  /\ \E n \in DOMAIN made :
       /\ Reusable(made[n]) /\ \A m \in DOMAIN made : Reusable(made[m]) => m <= n
       /\ made[n] \in linked \cap order
       /\ Answer(t, made[n])
  /\ UNCHANGED <<once, rows, aged, sweep, faults>>

\* There is none, or it is older than pendingOrderReuseMinutes, a setting.
NotReused(t) ==
  /\ pc[t] = "window"
  /\ Continue(t, "claim")
  /\ UNCHANGED <<once, rows, aged, sweep, faults>>

-----------------------------------------------------------------------------
(* Making the claim, the transaction, the reservation and the order.       *)

\* The slot of a once-per-user offer is a unique index.
MakeClaim(t) ==
  /\ pc[t] = "claim"
  /\ ~once \/ slots = {}
  /\ claim' = [claim EXCEPT ![t] = "PENDING"]
  /\ made' = Append(made, t)
  /\ slots' = IF once THEN slots \cup {t} ELSE slots
  /\ Continue(t, "transaction")
  /\ UNCHANGED <<once, linked, tx, order, promo, aged, sweep, faults>>

SlotTaken(t) ==
  /\ pc[t] = "claim"
  /\ once /\ slots # {}
  /\ Answer(t, "refused")
  /\ UNCHANGED <<once, rows, aged, sweep, faults>>

\* Mutant: the key is only looked up, as the header says would not be enough.
KeyFreeUnlessSeen(t) == TRUE

\* The index on the key does not ask whether its transaction was deleted.
KeyFree(t) == \A u \in Taps : SameKey(t, u) => tx[u] = "NONE"

MakeTransaction(t) ==
  /\ pc[t] = "transaction"
  /\ KeyFree(t)
  /\ tx' = [tx EXCEPT ![t] = "OPEN"]
  /\ Continue(t, "promo")
  /\ UNCHANGED <<once, claim, made, slots, linked, order, promo, aged, sweep, faults>>

\* Another tap has the key: this one unwinds its claim ...
LoseKey(t) ==
  /\ pc[t] = "transaction"
  /\ ~KeyFree(t)
  /\ Continue(t, "lost")
  /\ UNCHANGED <<once, rows, aged, sweep, faults>>

DropClaim(t) ==
  /\ claim' = [claim EXCEPT ![t] = "CANCELLED"]
  /\ slots' = slots \ {t}
  /\ UNCHANGED <<made, linked, tx, order, promo>>

UnwindLoser(t) ==
  /\ pc[t] = "lost"
  /\ DropClaim(t)
  /\ Continue(t, "winner")
  /\ UNCHANGED <<once, aged, sweep, faults>>

\* ... and is handed the order of the other, if that one's claim is linked.
FindWinner(t) == FindByKey(t, "winner", "winnerclaim")

NoWinner(t) ==
  /\ pc[t] = "winner"
  /\ OfKey(t) = {}
  /\ Answer(t, "refused")
  /\ UNCHANGED <<once, rows, aged, sweep, faults>>

HandWinner(t) ==
  /\ pc[t] = "winnerclaim"
  /\ Answer(t, IF found[t].tx \in linked THEN AsRead(t) ELSE "refused")
  /\ UNCHANGED <<once, rows, aged, sweep, faults>>

Reserve(t) ==
  /\ pc[t] = "promo"
  /\ promo' = [promo EXCEPT ![t] = "RESERVED"]
  /\ Continue(t, "order")
  /\ UNCHANGED <<once, claim, made, slots, linked, tx, order, aged, sweep, faults>>

\* The last use of the code has gone since the price was made.
RunOut(t) ==
  /\ pc[t] = "promo"
  /\ Continue(t, "release")
  /\ UNCHANGED <<once, rows, aged, sweep, faults>>

\* The gateway opens an order, and the transaction keeps its id.
OpenOrder(t) ==
  /\ pc[t] = "order"
  /\ order' = order \cup {t}
  /\ Continue(t, "link")
  /\ UNCHANGED <<once, claim, made, slots, linked, tx, promo, aged, sweep, faults>>

\* The claim is named its transaction last, and the order is handed out.
Link(t) ==
  /\ pc[t] = "link"
  /\ linked' = linked \cup {t}
  /\ Answer(t, t)
  /\ UNCHANGED <<once, claim, made, slots, tx, order, promo, aged, sweep, faults>>

-----------------------------------------------------------------------------
(* Unwinding.                                                              *)

\* A call throws: only the claim is there to unwind, or all three.
Fails(t) ==
  /\ pc[t] \in {"transaction", "promo", "order", "link"}
  /\ faults < MaxFaults
  /\ faults' = faults + 1
  /\ Continue(t, IF pc[t] = "transaction" THEN "undo" ELSE "release")
  /\ UNCHANGED <<once, rows, aged, sweep>>

\* releasePromoCode.
LetUseGo(t) ==
  promo' = [promo EXCEPT ![t] = IF @ = "RESERVED" THEN "RELEASED" ELSE @]

ReleaseUse(t) ==
  /\ pc[t] = "release"
  /\ LetUseGo(t)
  /\ Continue(t, "delete")
  /\ UNCHANGED <<once, claim, made, slots, linked, tx, order, aged, sweep, faults>>

\* Mutant: the transaction is left as it is.
UnwoundLeft == "OPEN"

Unwound == "DELETED"

DeleteTransaction(t) ==
  /\ pc[t] = "delete"
  /\ tx' = [tx EXCEPT ![t] = Unwound]
  /\ Continue(t, "undo")
  /\ UNCHANGED <<once, claim, made, slots, linked, order, promo, aged, sweep, faults>>

UndoClaim(t) ==
  /\ pc[t] = "undo"
  /\ DropClaim(t)
  /\ Answer(t, "refused")
  /\ UNCHANGED <<once, aged, sweep, faults>>

Crash(t) ==
  /\ pc[t] \notin {"new", "done"}
  /\ faults < MaxFaults
  /\ faults' = faults + 1
  /\ Continue(t, "done")
  /\ UNCHANGED <<once, rows, aged, sweep>>

-----------------------------------------------------------------------------
(* Time, payment, and the sweeps.                                          *)

\* No request outlives the quote it made itself.
Age(t) ==
  /\ claim[t] # "NONE" /\ t \notin aged /\ pc[t] = "done"
  /\ aged' = aged \cup {t}
  /\ UNCHANGED <<once, rows, answer, pc, found, sweep, faults>>

\* An order that was handed out is paid and its claim settled.
Settle(t) ==
  /\ \E u \in Taps : answer[u] = t
  /\ claim[t] = "PENDING" /\ tx[t] = "OPEN"
  /\ claim' = [claim EXCEPT ![t] = "REDEEMED"]
  /\ promo' = [promo EXCEPT ![t] = "CONSUMED"]
  /\ UNCHANGED <<once, made, slots, linked, tx, order, aged, answer, pc, found, sweep, faults>>

\* releaseStalePromoReservations.
LapseUse(t) ==
  /\ t \in aged /\ promo[t] = "RESERVED"
  /\ promo' = [promo EXCEPT ![t] = "RELEASED"]
  /\ UNCHANGED <<once, claim, made, slots, linked, tx, order, aged, answer, pc, found,
                 sweep, faults>>

\* Mutant: the sweep takes the claims that have a transaction.
StaleIfLinked(t) == claim[t] = "PENDING" /\ t \in aged \cap linked

Stale(t) == claim[t] = "PENDING" /\ t \in aged

\* The claim is cancelled while it is pending, and its slot comes free ...
SweepClaim(t) ==
  /\ sweep.at = "idle"
  /\ Stale(t)
  /\ DropClaim(t)
  /\ sweep' = [at |-> "promo", claim |-> t]
  /\ UNCHANGED <<once, aged, answer, pc, found, faults>>

\* ... then the use and the transaction, for a claim that knows its own.
SweepUse ==
  /\ sweep.at = "promo"
  /\ IF sweep.claim \in linked THEN LetUseGo(sweep.claim) ELSE UNCHANGED promo
  /\ sweep' = [sweep EXCEPT !.at = "delete"]
  /\ UNCHANGED <<once, claim, made, slots, linked, tx, order, aged, answer, pc, found, faults>>

SweepTransaction ==
  /\ sweep.at = "delete"
  /\ tx' = [tx EXCEPT ![sweep.claim] = IF sweep.claim \in linked THEN "DELETED" ELSE @]
  /\ sweep' = [at |-> "idle", claim |-> None]
  /\ UNCHANGED <<once, claim, made, slots, linked, order, promo, aged, answer, pc, found,
                 faults>>

CrashSweep ==
  /\ sweep.at # "idle"
  /\ faults < MaxFaults
  /\ faults' = faults + 1
  /\ sweep' = [at |-> "idle", claim |-> None]
  /\ UNCHANGED <<once, rows, aged, answer, pc, found>>

-----------------------------------------------------------------------------
Step(t) ==
  \/ FindExisting(t) \/ NoExisting(t) \/ HandExisting(t) \/ Reuse(t) \/ NotReused(t)
  \/ MakeClaim(t) \/ SlotTaken(t) \/ MakeTransaction(t) \/ LoseKey(t)
  \/ UnwindLoser(t) \/ FindWinner(t) \/ NoWinner(t) \/ HandWinner(t)
  \/ Reserve(t) \/ RunOut(t) \/ OpenOrder(t) \/ Link(t)
  \/ ReleaseUse(t) \/ DeleteTransaction(t) \/ UndoClaim(t)

Sweep == (\E t \in Taps : SweepClaim(t)) \/ SweepUse \/ SweepTransaction

Next ==
  \/ \E t \in Taps : \/ StartTap(t) \/ Step(t) \/ Fails(t) \/ Crash(t)
                     \/ Age(t) \/ Settle(t) \/ LapseUse(t)
  \/ Sweep \/ CrashSweep

\* A request goes on, time passes, and the sweep of stale claims is scheduled
\* for ever.  Nothing makes a customer tap or pay.
Fairness ==
  /\ \A t \in Taps : WF_vars(Step(t)) /\ WF_vars(Age(t))
  /\ WF_vars(Sweep)

Spec == Init /\ [][Next]_vars /\ Fairness

-----------------------------------------------------------------------------
(* Properties.                                                             *)

\* However often a customer taps or retries, one key opens one gateway order:
\* they never see two payment sheets for one bill (createVoucherClaimOrder.js,
\* "the unique index decides, not the timing").
OneOrderPerKey == \A t, u \in order : SameKey(t, u) => t = u

\* What the customer may pay: an open claim or one already redeemed, and the
\* discount of its price still on record.
Whole(t) ==
  /\ claim[t] \in {"PENDING", "REDEEMED"} /\ tx[t] = "OPEN" /\ t \in order
  /\ promo[t] \in {"RESERVED", "CONSUMED"}

\* The order of another tap, looked up by the key after its quote.
LateByKey(t, u) == t # u /\ SameKey(t, u) /\ u \in aged

\* A tap is never handed an order that is being unwound or was never opened, nor
\* one that was swept or whose discount has lapsed, whichever tap made it: but
\* for a key that is used after its quote, whose lookup asks neither.  A tap
\* that read the row of another before its order was there is answered without
\* an order, and then one stands that a retry with the key can have.
HandsOutWholeOrders ==
  [][\A t, u \in Taps :
       /\ answer[t] = "none"
       /\ answer'[t] = u \/ (answer'[t] = "blank" /\ found[t].tx = u)
       => Whole(u)' \/ LateByKey(t, u)]_vars

\* A tap that got no order leaves nothing behind, wherever it failed: the
\* customer can try again, and the code has its use back.
RefusedHoldsNothing ==
  \A t \in Taps : answer[t] \in {"refused", "blank"} =>
    /\ claim[t] # "PENDING" /\ t \notin slots
    /\ tx[t] # "OPEN" /\ promo[t] # "RESERVED"

\* A once-per-user offer is never locked by a checkout that nobody pays, not
\* even one whose process died half way.
SlotComesBack ==
  \A t \in Taps : t \in slots ~> t \notin slots \/ claim[t] = "REDEEMED"
=============================================================================
