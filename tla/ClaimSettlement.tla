-------------------------- MODULE ClaimSettlement --------------------------
(***************************************************************************)
(* The life of a voucher-claim payment after its checkout is open: the     *)
(* gateway captures money, the browser callback and the webhook both try   *)
(* to settle it, a sweep resumes a settle that died half way, and another  *)
(* sweep cancels the checkouts nobody finished.                            *)
(*                                                                         *)
(* An order stands for a VoucherClaim and its Transaction, which the code  *)
(* always creates as a pair.  Every await of a handler is a step of its    *)
(* own.  The clock is nondeterministic: a sweep may find any row old       *)
(* enough, and a slow request may still be running when it does.           *)
(* The promo calls of these handlers (releasePromoCode, commitPromoCode)   *)
(* are the actions of PromoReservation: no step here reads what they write.*)
(***************************************************************************)
EXTENDS Integers, FiniteSets

CONSTANTS Orders,      \* checkouts opened by createVoucherClaimOrder
          Payments,    \* Razorpay payment ids
          OrderOf,     \* the order each payment is made against
          Handlers,    \* concurrent requests: verify calls and webhook deliveries
          Resumer,     \* the one run of resumeIncompleteSettlements
          Slots,       \* (voucher, customer, offer) triples of once-per-user offers
          NoSlot,      \* the slot of an order whose offer is not once-per-user
          SlotOf,      \* the slot each order's claim asks for
          Entries,     \* the ledger rows one capture produces
          SlowRequests,  \* may a request still run when its row is old enough to resume?
          None,
          MaxFaults    \* bound: crashes and failed document writes

ASSUME ConstantsAssumption ==
  /\ SlotOf \in [Orders -> Slots \cup {NoSlot}]
  /\ NoSlot \notin Slots
  /\ OrderOf \in [Payments -> Orders]
  /\ Resumer \notin Handlers
  /\ None \notin Orders \cup Payments
  /\ Entries # {}
  /\ SlowRequests \in BOOLEAN
  /\ MaxFaults \in Nat

Workers == Handlers \cup {Resumer}

VARIABLES
  claim,        \* VoucherClaim.status
  slotHeld,     \* VoucherClaim.holdsUsageSlot
  verified,     \* Transaction.verified
  deleted,      \* Transaction.isDeleted
  settledBy,    \* Transaction.razorpayPaymentId
  stage,        \* Transaction.settlementStage
  invoice,      \* Transaction.invoiceId, 0 while it has none
  duplicates,   \* Transaction.duplicateCapturePaymentIds
  usage,        \* the VoucherUsage row of the claim
  ledger,       \* the capture rows posted for the transaction
  counter,      \* Counter.sequence of the claim invoice series
  payState,     \* gateway: the state of a payment
  event,        \* WebhookEvent.status of the payment's captured event
  unlogged,     \* second captures whose record failed, only on the console
  pc, kind, ord, pmt, captured, numbered, number,   \* locals of a request
  sweep,        \* the order releaseStaleClaimHolds is cancelling, and where
  faults

records == <<claim, slotHeld, verified, deleted, settledBy, stage, invoice,
             duplicates, usage, ledger, counter>>
locals == <<kind, ord, pmt, captured, numbered, number>>
vars == <<records, payState, event, unlogged, pc, locals, sweep, faults>>

ClaimStatus == {"NONE", "PENDING", "REDEEMED", "FAILED", "CANCELLED"}
Stages == {"NONE", "CLAIMED", "RECORDED", "INVOICED", "COMPLETE"}
Labels == {"idle", "fetch", "take", "double", "usage", "insert", "flag",
           "redeem", "ledger", "allot", "attach", "invoiced", "complete",
           "answer", "fail"}

TypeOK ==
  /\ claim \in [Orders -> ClaimStatus]
  /\ slotHeld \in [Orders -> BOOLEAN]
  /\ verified \in [Orders -> BOOLEAN]
  /\ deleted \in [Orders -> BOOLEAN]
  /\ settledBy \in [Orders -> Payments \cup {None}]
  /\ stage \in [Orders -> Stages]
  /\ invoice \in [Orders -> Nat]
  /\ duplicates \in [Orders -> SUBSET Payments]
  /\ usage \in [Orders -> {"NONE", "ROW", "FLAGGED"}]
  /\ ledger \in [Orders -> SUBSET Entries]
  /\ counter \in Nat
  /\ payState \in [Payments -> {"none", "authorized", "captured"}]
  /\ event \in [Payments -> {"NONE", "RECEIVED", "PROCESSED", "IGNORED", "FAILED"}]
  /\ unlogged \subseteq Payments
  /\ pc \in [Workers -> Labels]
  /\ kind \in [Workers -> {"verify", "webhook", "resume"}]
  /\ ord \in [Workers -> Orders \cup {None}]
  /\ pmt \in [Workers -> Payments \cup {None}]
  /\ captured \in [Workers -> BOOLEAN]
  /\ numbered \in [Workers -> BOOLEAN]
  /\ number \in [Workers -> Nat]
  /\ sweep \in [order : Orders \cup {None}, at : {"idle", "cancel", "tx"}]
  /\ faults \in 0..MaxFaults

Init ==
  /\ claim = [o \in Orders |-> "NONE"]
  /\ slotHeld = [o \in Orders |-> FALSE]
  /\ verified = [o \in Orders |-> FALSE]
  /\ deleted = [o \in Orders |-> FALSE]
  /\ settledBy = [o \in Orders |-> None]
  /\ stage = [o \in Orders |-> "NONE"]
  /\ invoice = [o \in Orders |-> 0]
  /\ duplicates = [o \in Orders |-> {}]
  /\ usage = [o \in Orders |-> "NONE"]
  /\ ledger = [o \in Orders |-> {}]
  /\ counter = 0
  /\ payState = [p \in Payments |-> "none"]
  /\ event = [p \in Payments |-> "NONE"]
  /\ unlogged = {}
  /\ pc = [w \in Workers |-> "idle"]
  /\ kind = [w \in Workers |-> "verify"]
  /\ ord = [w \in Workers |-> None]
  /\ pmt = [w \in Workers |-> None]
  /\ captured = [w \in Workers |-> FALSE]
  /\ numbered = [w \in Workers |-> FALSE]
  /\ number = [w \in Workers |-> 0]
  /\ sweep = [order |-> None, at |-> "idle"]
  /\ faults = 0

Goto(w, label) == pc' = [pc EXCEPT ![w] = label]

\* A request that ends forgets its locals.
Done(w) ==
  /\ Goto(w, "idle")
  /\ kind' = [kind EXCEPT ![w] = "verify"]
  /\ ord' = [ord EXCEPT ![w] = None]
  /\ pmt' = [pmt EXCEPT ![w] = None]
  /\ captured' = [captured EXCEPT ![w] = FALSE]
  /\ numbered' = [numbered EXCEPT ![w] = FALSE]
  /\ number' = [number EXCEPT ![w] = 0]

-----------------------------------------------------------------------------
(* Unique indexes.                                                         *)

\* VoucherClaim's usage-slot index: unique where holdsUsageSlot is true.
SlotFree(o) ==
  \/ SlotOf[o] = NoSlot
  \/ \A x \in Orders : ~(slotHeld[x] /\ SlotOf[x] = SlotOf[o])

\* VoucherUsage's once-per-user index: unique where isOncePerUser is true,
\* which a flagged row is not.
OncePerUserFree(o) ==
  \/ SlotOf[o] = NoSlot
  \/ \A x \in Orders : ~(usage[x] = "ROW" /\ SlotOf[x] = SlotOf[o])

-----------------------------------------------------------------------------
(* Checkout and gateway.                                                   *)

\* createVoucherClaimOrder as one step: the claim takes its slot, the order is
\* open and linked.  The preview has refused an offer the customer has used.
OpenOrder(o) ==
  /\ claim[o] = "NONE"
  /\ SlotFree(o)
  /\ OncePerUserFree(o)
  /\ claim' = [claim EXCEPT ![o] = "PENDING"]
  /\ slotHeld' = [slotHeld EXCEPT ![o] = SlotOf[o] # NoSlot]
  /\ UNCHANGED <<verified, deleted, settledBy, stage, invoice, duplicates, usage,
                 ledger, counter, payState, event, unlogged, pc, locals, sweep, faults>>

\* The customer pays the order, however late: the gateway order stays open,
\* and a second attempt on it is allowed.
Pay(p) ==
  /\ payState[p] = "none"
  /\ claim[OrderOf[p]] # "NONE"
  /\ payState' = [payState EXCEPT ![p] = "authorized"]
  /\ UNCHANGED <<records, event, unlogged, pc, locals, sweep, faults>>

Capture(p) ==
  /\ payState[p] = "authorized"
  /\ payState' = [payState EXCEPT ![p] = "captured"]
  /\ UNCHANGED <<records, event, unlogged, pc, locals, sweep, faults>>

-----------------------------------------------------------------------------
(* The three ways into a settle.                                           *)

\* POST /voucher-claims/verify, called by the checkout callback: load the
\* transaction, take the fast path when it is settled already.
StartVerify(w, p) ==
  LET o == OrderOf[p] IN
  /\ pc[w] = "idle"
  /\ payState[p] # "none"
  /\ ~deleted[o]
  /\ ~verified[o]
  /\ Goto(w, "fetch")
  /\ kind' = [kind EXCEPT ![w] = "verify"]
  /\ ord' = [ord EXCEPT ![w] = o]
  /\ pmt' = [pmt EXCEPT ![w] = p]
  /\ UNCHANGED <<records, payState, event, unlogged, captured, numbered, number,
                 sweep, faults>>

\* getPaymentDetails: the state the settle will act on is the one the gateway
\* reports now.  A failed lookup is a Crash: 503, nothing written.
FetchPayment(w) ==
  /\ pc[w] = "fetch"
  /\ captured' = [captured EXCEPT ![w] = payState[pmt[w]] = "captured"]
  /\ Goto(w, "take")
  /\ UNCHANGED <<records, payState, event, unlogged, kind, ord, pmt, numbered,
                 number, sweep, faults>>

\* A captured event is stored and processed.  A redelivery goes ahead when the
\* stored row is FAILED or was abandoned in RECEIVED, and an admin may replay
\* an IGNORED one.
StartCapturedEvent(w, p) ==
  LET o == OrderOf[p] IN
  /\ pc[w] = "idle"
  /\ payState[p] = "captured"
  /\ event[p] # "PROCESSED"
  /\ ~deleted[o]
  /\ event' = [event EXCEPT ![p] = "RECEIVED"]
  /\ Goto(w, "take")
  /\ kind' = [kind EXCEPT ![w] = "webhook"]
  /\ ord' = [ord EXCEPT ![w] = o]
  /\ pmt' = [pmt EXCEPT ![w] = p]
  /\ captured' = [captured EXCEPT ![w] = TRUE]
  /\ UNCHANGED <<records, payState, unlogged, numbered, number, sweep, faults>>

\* The event of a transaction that was deleted finds nothing to settle.
IgnoreCapturedEvent(p) ==
  /\ payState[p] = "captured"
  /\ event[p] # "PROCESSED"
  /\ deleted[OrderOf[p]]
  /\ event' = [event EXCEPT ![p] = "IGNORED"]
  /\ UNCHANGED <<records, payState, unlogged, pc, locals, sweep, faults>>

\* Mutant: only a settle that never got past its first stage is resumed.
StrandedEarly(o) == verified[o] /\ ~deleted[o] /\ stage[o] = "CLAIMED"

\* resumeIncompleteSettlements picks a settle that was claimed and not
\* finished, and hands it back its own payment.  It waits five minutes, which
\* only a request that outlives them can race.
InFlight(o) == \E w \in Handlers : ord[w] = o /\ pc[w] \notin {"idle", "fetch"}
Stranded(o) == /\ verified[o] /\ ~deleted[o] /\ stage[o] # "COMPLETE"
               /\ SlowRequests \/ ~InFlight(o)

StartResume(o) ==
  /\ pc[Resumer] = "idle"
  /\ Stranded(o)
  /\ Goto(Resumer, "take")
  /\ kind' = [kind EXCEPT ![Resumer] = "resume"]
  /\ ord' = [ord EXCEPT ![Resumer] = o]
  /\ pmt' = [pmt EXCEPT ![Resumer] = settledBy[o]]
  /\ captured' = [captured EXCEPT ![Resumer] = TRUE]
  /\ UNCHANGED <<records, payState, event, unlogged, numbered, number, sweep, faults>>

-----------------------------------------------------------------------------
(* settleVoucherClaimPayment.                                              *)

\* How a worker leaves: a webhook records its answer, a verify call and the
\* resume sweep return.
Return(w) == IF kind[w] = "webhook" THEN Goto(w, "answer") /\ UNCHANGED locals
                                    ELSE Done(w)
Throw(w) == IF kind[w] = "webhook" THEN Goto(w, "fail") /\ UNCHANGED locals
                                   ELSE Done(w)

\* Mutant: the claim without its condition.
UnclaimedAlways(o) == TRUE

\* The conditional claim { verified: false }.
Unclaimed(o) == ~verified[o]

\* A payment that is authorized and no more settles nothing: the claim is let
\* go, and the customer told to try again.
FailClaim(w) ==
  LET o == ord[w] IN
  /\ pc[w] = "take"
  /\ ~captured[w]
  /\ claim' = [claim EXCEPT ![o] = IF @ = "PENDING" THEN "FAILED" ELSE @]
  /\ slotHeld' = [slotHeld EXCEPT ![o] = @ /\ claim[o] # "PENDING"]
  /\ Throw(w)
  /\ UNCHANGED <<verified, deleted, settledBy, stage, invoice, duplicates, usage,
                 ledger, counter, payState, event, unlogged, sweep, faults>>

\* Stage 0.  The first request to claim the transaction settles it.
Take(w) ==
  LET o == ord[w] IN
  /\ pc[w] = "take"
  /\ kind[w] # "resume" /\ captured[w] /\ Unclaimed(o)
  /\ verified' = [verified EXCEPT ![o] = TRUE]
  /\ settledBy' = [settledBy EXCEPT ![o] = pmt[w]]
  /\ stage' = [stage EXCEPT ![o] = "CLAIMED"]
  /\ numbered' = [numbered EXCEPT ![w] = invoice[o] # 0]
  /\ Goto(w, "usage")
  /\ UNCHANGED <<claim, slotHeld, deleted, invoice, duplicates, usage, ledger,
                 counter, payState, event, unlogged, kind, ord, pmt, captured, number,
                 sweep, faults>>

\* The loser of the claim goes to look for a second capture.
LoseTake(w) ==
  /\ pc[w] = "take"
  /\ kind[w] # "resume" /\ captured[w] /\ ~Unclaimed(ord[w])
  /\ Goto(w, "double")
  /\ UNCHANGED <<records, payState, event, unlogged, locals, sweep, faults>>

\* A resume skips the claim and reads the row back.
TakeBack(w) ==
  /\ pc[w] = "take"
  /\ kind[w] = "resume"
  /\ numbered' = [numbered EXCEPT ![w] = invoice[ord[w]] # 0]
  /\ Goto(w, "usage")
  /\ UNCHANGED <<records, payState, event, unlogged, kind, ord, pmt, captured, number,
                 sweep, faults>>

\* Mutant: a second capture passes for the first one delivered again.
SecondCaptureMissed(w) == FALSE

\* detectDoubleCapture: a different payment on a settled order is recorded for
\* an admin ...
SecondCapture(w) == settledBy[ord[w]] # pmt[w]

RecordSecondCapture(w) ==
  /\ pc[w] = "double"
  /\ SecondCapture(w)
  /\ duplicates' = [duplicates EXCEPT ![ord[w]] = @ \cup {pmt[w]}]
  /\ Return(w)
  /\ UNCHANGED <<claim, slotHeld, verified, deleted, settledBy, stage, invoice, usage,
                 ledger, counter, payState, event, unlogged, sweep, faults>>

\* ... a failure to record it is swallowed, and only logged ...
RecordSecondCaptureFails(w) ==
  /\ pc[w] = "double"
  /\ SecondCapture(w)
  /\ faults < MaxFaults
  /\ faults' = faults + 1
  /\ unlogged' = unlogged \cup {pmt[w]}
  /\ Return(w)
  /\ UNCHANGED <<records, payState, event, sweep>>

\* ... and the payment that settled the order is only being reported again.
SameCaptureAgain(w) ==
  /\ pc[w] = "double"
  /\ ~SecondCapture(w)
  /\ Return(w)
  /\ UNCHANGED <<records, payState, event, unlogged, sweep, faults>>

\* Stage 1.  The redemption row, unless one is there already ...
FindUsage(w) ==
  /\ pc[w] = "usage"
  /\ Goto(w, IF usage[ord[w]] = "NONE" THEN "insert" ELSE "redeem")
  /\ UNCHANGED <<records, payState, event, unlogged, locals, sweep, faults>>

\* ... whose insert can lose to either of two unique indexes ...
InsertUsage(w) ==
  LET o == ord[w] IN
  /\ pc[w] = "insert"
  /\ usage[o] = "NONE" /\ OncePerUserFree(o)
  /\ usage' = [usage EXCEPT ![o] = "ROW"]
  /\ Goto(w, "redeem")
  /\ UNCHANGED <<claim, slotHeld, verified, deleted, settledBy, stage, invoice,
                 duplicates, ledger, counter, payState, event, unlogged, locals,
                 sweep, faults>>

InsertRefused(w) ==
  /\ pc[w] = "insert"
  /\ ~(usage[ord[w]] = "NONE" /\ OncePerUserFree(ord[w]))
  /\ Goto(w, "flag")
  /\ UNCHANGED <<records, payState, event, unlogged, locals, sweep, faults>>

\* Mutant: the second row reads like any other one.
InsertUnflaggedUsage(w) ==
  LET o == ord[w] IN
  /\ pc[w] = "flag"
  /\ usage[o] = "NONE"
  /\ usage' = [usage EXCEPT ![o] = "ROW"]
  /\ Goto(w, "redeem")
  /\ UNCHANGED <<claim, slotHeld, verified, deleted, settledBy, stage, invoice,
                 duplicates, ledger, counter, payState, event, unlogged, locals,
                 sweep, faults>>

\* ... and is then retried outside the once-per-user index.
InsertFlaggedUsage(w) ==
  LET o == ord[w] IN
  /\ pc[w] = "flag"
  /\ usage[o] = "NONE"
  /\ usage' = [usage EXCEPT ![o] = "FLAGGED"]
  /\ Goto(w, "redeem")
  /\ UNCHANGED <<claim, slotHeld, verified, deleted, settledBy, stage, invoice,
                 duplicates, ledger, counter, payState, event, unlogged, locals,
                 sweep, faults>>

\* When it was the claim's own index that refused, this one throws too.
FlaggedRefused(w) ==
  /\ pc[w] = "flag"
  /\ usage[ord[w]] # "NONE"
  /\ Throw(w)
  /\ UNCHANGED <<records, payState, event, unlogged, sweep, faults>>

\* The claim is redeemed only from PENDING.
Redeemable(o) == claim[o] = "PENDING"

RedeemClaim(w) ==
  LET o == ord[w] IN
  /\ pc[w] = "redeem"
  /\ claim' = [claim EXCEPT ![o] = IF Redeemable(o) THEN "REDEEMED" ELSE @]
  /\ Goto(w, "ledger")
  /\ UNCHANGED <<slotHeld, verified, deleted, settledBy, stage, invoice, duplicates,
                 usage, ledger, counter, payState, event, unlogged, locals, sweep,
                 faults>>

SetStage(w, s) == stage' = [stage EXCEPT ![ord[w]] = s]

\* postCaptureEntries posts the rows one by one; a row that is there is a
\* duplicate, and skipped.
PostCaptureEntry(w) ==
  LET o == ord[w] IN
  /\ pc[w] = "ledger"
  /\ \E e \in Entries \ ledger[o] : ledger' = [ledger EXCEPT ![o] = @ \cup {e}]
  /\ UNCHANGED <<claim, slotHeld, verified, deleted, settledBy, stage, invoice,
                 duplicates, usage, counter, payState, event, unlogged, pc, locals,
                 sweep, faults>>

Record(w) ==
  /\ pc[w] = "ledger"
  /\ ledger[ord[w]] = Entries
  /\ SetStage(w, "RECORDED")
  /\ Goto(w, IF numbered[w] THEN "invoiced" ELSE "allot")
  /\ UNCHANGED <<claim, slotHeld, verified, deleted, settledBy, invoice, duplicates,
                 usage, ledger, counter, payState, event, unlogged, locals, sweep,
                 faults>>

\* Mutant: the number is read, and the increment not stored.
AllotNumberUnstored(w) ==
  /\ pc[w] = "allot"
  /\ number' = [number EXCEPT ![w] = counter + 1]
  /\ Goto(w, "attach")
  /\ UNCHANGED <<records, payState, event, unlogged, kind, ord, pmt, captured,
                 numbered, sweep, faults>>

\* Stage 2.  generateDocumentNumber increments the counter of the series and
\* returns it in one operation ...
NextNumber == counter + 1

AllotNumber(w) ==
  /\ pc[w] = "allot"
  /\ counter' = NextNumber
  /\ number' = [number EXCEPT ![w] = NextNumber]
  /\ Goto(w, "attach")
  /\ UNCHANGED <<claim, slotHeld, verified, deleted, settledBy, stage, invoice,
                 duplicates, usage, ledger, payState, event, unlogged, kind, ord,
                 pmt, captured, numbered, sweep, faults>>

\* Mutant: the number is written whether or not there is one.
NoInvoiceYetIgnored(o) == TRUE

\* ... and the number is attached if the order has none yet: another settle
\* may have attached its own meanwhile, and then this one is lost.
NoInvoiceYet(o) == invoice[o] = 0

AttachInvoice(w) ==
  LET o == ord[w] IN
  /\ pc[w] = "attach"
  /\ invoice' = [invoice EXCEPT ![o] = IF NoInvoiceYet(o) THEN number[w] ELSE @]
  /\ Goto(w, "invoiced")
  /\ UNCHANGED <<claim, slotHeld, verified, deleted, settledBy, stage, duplicates, usage,
                 ledger, counter, payState, event, unlogged, locals, sweep, faults>>

\* Mutant: the settle marches past a failed document.
DocumentFailsUnnoticed(w) ==
  /\ pc[w] \in {"allot", "attach"}
  /\ faults < MaxFaults
  /\ faults' = faults + 1
  /\ Goto(w, "invoiced")
  /\ UNCHANGED <<records, payState, event, unlogged, locals, sweep>>

\* A failed document is caught: the settle returns, its stage stays behind.
DocumentFails(w) ==
  /\ pc[w] \in {"allot", "attach"}
  /\ faults < MaxFaults
  /\ faults' = faults + 1
  /\ Return(w)
  /\ UNCHANGED <<records, payState, event, unlogged, sweep>>

RecordInvoiced(w) ==
  /\ pc[w] = "invoiced"
  /\ SetStage(w, "INVOICED")
  /\ Goto(w, "complete")
  /\ UNCHANGED <<claim, slotHeld, verified, deleted, settledBy, invoice, duplicates,
                 usage, ledger, counter, payState, event, unlogged, locals, sweep,
                 faults>>

\* Stage 3, after the notifications.
Complete(w) ==
  /\ pc[w] = "complete"
  /\ SetStage(w, "COMPLETE")
  /\ Return(w)
  /\ UNCHANGED <<claim, slotHeld, verified, deleted, settledBy, invoice, duplicates,
                 usage, ledger, counter, payState, event, unlogged, sweep, faults>>

\* processWebhookEvent stores how the delivery ended.
AnswerEvent(w) ==
  /\ pc[w] \in {"answer", "fail"}
  /\ event' = [event EXCEPT ![pmt[w]] = IF pc[w] = "answer" THEN "PROCESSED" ELSE "FAILED"]
  /\ Done(w)
  /\ UNCHANGED <<records, payState, unlogged, sweep, faults>>

-----------------------------------------------------------------------------
(* Sweeps and failures.                                                    *)

\* releaseStaleClaimHolds looks at a pending claim: it asks the gateway only
\* about a payment id the transaction already carries, and keeps the claim
\* when that payment was captured.
GatewaySaysCaptured(o) ==
  settledBy[o] # None /\ payState[settledBy[o]] = "captured"

LookAtStaleClaim(o) ==
  /\ sweep.at = "idle"
  /\ claim[o] = "PENDING"
  /\ ~GatewaySaysCaptured(o)
  /\ sweep' = [order |-> o, at |-> "cancel"]
  /\ UNCHANGED <<records, payState, event, unlogged, pc, locals, faults>>

StillPending(o) == claim[o] = "PENDING"

CancelStaleClaim ==
  LET o == sweep.order IN
  /\ sweep.at = "cancel"
  /\ StillPending(o)
  /\ claim' = [claim EXCEPT ![o] = "CANCELLED"]
  /\ slotHeld' = [slotHeld EXCEPT ![o] = FALSE]
  /\ sweep' = [sweep EXCEPT !.at = "tx"]
  /\ UNCHANGED <<verified, deleted, settledBy, stage, invoice, duplicates, usage,
                 ledger, counter, payState, event, unlogged, pc, locals, faults>>

SkipMovedClaim ==
  /\ sweep.at = "cancel"
  /\ ~StillPending(sweep.order)
  /\ sweep' = [order |-> None, at |-> "idle"]
  /\ UNCHANGED <<records, payState, event, unlogged, pc, locals, faults>>

DeleteStaleTransaction ==
  LET o == sweep.order IN
  /\ sweep.at = "tx"
  /\ deleted' = [deleted EXCEPT ![o] = @ \/ ~verified[o]]
  /\ sweep' = [order |-> None, at |-> "idle"]
  /\ UNCHANGED <<claim, slotHeld, verified, settledBy, stage, invoice, duplicates, usage,
                 ledger, counter, payState, event, unlogged, pc, locals, faults>>

\* A request dies with its process, or with an error from the database: what
\* it wrote stays, and a stored webhook row stays RECEIVED.
Crash(w) ==
  /\ pc[w] # "idle"
  /\ faults < MaxFaults
  /\ faults' = faults + 1
  /\ Done(w)
  /\ UNCHANGED <<records, payState, event, unlogged, sweep>>

CrashSweep ==
  /\ sweep.at # "idle"
  /\ faults < MaxFaults
  /\ faults' = faults + 1
  /\ sweep' = [order |-> None, at |-> "idle"]
  /\ UNCHANGED <<records, payState, event, unlogged, pc, locals>>

-----------------------------------------------------------------------------
Step(w) ==
  \/ FetchPayment(w) \/ FailClaim(w) \/ Take(w) \/ LoseTake(w) \/ TakeBack(w)
  \/ RecordSecondCapture(w) \/ RecordSecondCaptureFails(w) \/ SameCaptureAgain(w)
  \/ FindUsage(w) \/ InsertUsage(w) \/ InsertRefused(w)
  \/ InsertFlaggedUsage(w) \/ FlaggedRefused(w) \/ RedeemClaim(w)
  \/ PostCaptureEntry(w) \/ Record(w) \/ AllotNumber(w) \/ AttachInvoice(w)
  \/ RecordInvoiced(w) \/ Complete(w) \/ AnswerEvent(w)

Sweep == \/ \E o \in Orders : LookAtStaleClaim(o)
         \/ CancelStaleClaim \/ SkipMovedClaim \/ DeleteStaleTransaction

Next ==
  \/ \E o \in Orders : OpenOrder(o) \/ StartResume(o)
  \/ \E p \in Payments : Pay(p) \/ Capture(p) \/ IgnoreCapturedEvent(p)
  \/ \E w \in Handlers, p \in Payments :
       StartVerify(w, p) \/ StartCapturedEvent(w, p)
  \/ \E w \in Workers : Step(w) \/ DocumentFails(w) \/ Crash(w)
  \/ Sweep \/ CrashSweep

\* A running request runs on, and the resume sweep is scheduled for ever.
\* Nothing makes a customer pay, a gateway deliver or a callback arrive.
Fairness == /\ \A w \in Workers : WF_vars(Step(w))
            /\ \A o \in Orders : WF_vars(StartResume(o))

Spec == Init /\ [][Next]_vars /\ Fairness

-----------------------------------------------------------------------------
(* Properties.                                                             *)

\* An offer counts as redeemed by a claim that says so, and by a redemption row
\* even when its claim had been let go before the payment landed.
Redeemed(o) == claim[o] = "REDEEMED" \/ usage[o] # "NONE"
SameSlot(a, b) == a # b /\ SlotOf[a] # NoSlot /\ SlotOf[a] = SlotOf[b]

\* A once-per-user offer can be redeemed twice, when a payment lands after its
\* claim was let go and the slot was taken again.  Then the second redemption is
\* a flagged row, the one an admin is told of; and nobody is told of a second
\* redemption where no row holds the slot.
SecondRedemptionIsFlagged ==
  \A a \in Orders :
    /\ \A b \in Orders :
         SameSlot(a, b) /\ Redeemed(a) /\ Redeemed(b) => "FLAGGED" \in {usage[a], usage[b]}
    /\ usage[a] = "FLAGGED" => \E b \in Orders : SameSlot(a, b) /\ usage[b] = "ROW"

\* The records a settle leaves behind.
Whole(o) == usage[o] # "NONE" /\ ledger[o] = Entries /\ invoice[o] # 0

\* A settle marked COMPLETE has nothing left to resume: the redemption row,
\* every ledger row and the invoice number are there, although retries and
\* racing requests may have written them.
CompleteIsWhole == \A o \in Orders : stage[o] = "COMPLETE" => verified[o] /\ Whole(o)

\* No two orders carry the same invoice number.
InvoiceNumbersUnique ==
  \A a, b \in Orders : invoice[a] # 0 /\ invoice[a] = invoice[b] => a = b

\* A captured payment whose delivery was answered PROCESSED is the one its
\* order was settled with, or on record as a second capture (or, when that
\* record could not be written, on the console).
AnsweredPaymentIsAccounted ==
  \A p \in Payments : event[p] = "PROCESSED" =>
    LET o == OrderOf[p] IN
    verified[o] /\ (settledBy[o] = p \/ p \in duplicates[o] \cup unlogged)

\* What a customer and a vendor have been told stays told: an invoice number
\* never changes, a redeemed claim stays redeemed, and a settled transaction
\* is not swept away as an abandoned checkout.
SettlementIsFinal ==
  [][\A o \in Orders :
       /\ invoice[o] # 0 => invoice'[o] = invoice[o]
       /\ claim[o] = "REDEEMED" => claim'[o] = "REDEEMED"
       /\ verified[o] /\ ~deleted[o] => ~deleted'[o]]_vars

\* A settle that was started on a transaction no sweep had deleted ends
\* COMPLETE and stays so, through every crash and failed document.
StrandedSettleCompletes ==
  \A o \in Orders : verified[o] /\ ~deleted[o] ~> [](stage[o] = "COMPLETE")

\* However the callback, the webhook and the resume sweep interleave, an order
\* is paid for by one payment, and its records are delivered once paid.
Delivered == {o \in Orders : Whole(o)}
Reported == unlogged \cup UNION {duplicates[o] : o \in Orders}

Promise == INSTANCE PaidOnce WITH
             payer <- settledBy, delivered <- Delivered, reported <- Reported

PaidOnceSpec == Promise!Spec

-----------------------------------------------------------------------------
(* What the comments of the code say, and the code does not do.            *)

\* claimJobs.js: "a claim is only cancelled once Razorpay confirms nothing was
\* captured".  The sweep does not go on to cancel an order while a payment of
\* it stands captured.
SweepSparesCaptured ==
  [][\A o \in Orders :
       LookAtStaleClaim(o) =>
         \A p \in Payments : ~(OrderOf[p] = o /\ payState[p] = "captured")]_vars
=============================================================================
