--------------------------- MODULE SettlementCycle ---------------------------
(***************************************************************************)
(* The settlements of one brand: a build claims the payments, refunds,     *)
(* lost disputes and matured reserves that belong to the cycle and counts  *)
(* exactly what it has claimed (services/settlements/buildSettlements.js,  *)
(* helpers/settlements/settlementClaims.js); admins approve, hold,         *)
(* rebuild, cancel and pay; meanwhile refunds and chargebacks land on the  *)
(* same payments, hold them and flag the settlement they are in            *)
(* (taintSettlement.js, handleRazorpayWebhook.js).  Amounts are sets: the  *)
(* total of a settlement is the set of rows it was computed from.  The     *)
(* legs of a payout are in Payout.                                         *)
(***************************************************************************)
EXTENDS Integers, FiniteSets

CONSTANTS Payments,     \* captured payments of the brand
          Refundable,   \* bound: the payments of which a part is refunded
          Disputable,   \* bound: the payments that are disputed
          Late,         \* bound: the payments that a build may come too early for
          Settlements,  \* one per period that is built
          Requests,     \* webhooks and admins' requests in flight
          Overlaps,     \* which of OverlapKinds may happen (see below)
          None,
          MaxFaults     \* bound: crashes

\* What the handlers do not guard against, and the run may exclude:
\*   writeoff  a debt is written off while a build runs
\*   verdict   the loss of a dispute is handled during or after its win
OverlapKinds == {"writeoff", "verdict"}

ASSUME ConstantsAssumption ==
  /\ Overlaps \subseteq OverlapKinds
  /\ Refundable \subseteq Payments /\ Disputable \subseteq Payments
  /\ Late \subseteq Payments
  /\ None \notin Payments \cup Settlements
  /\ MaxFaults \in Nat

VARIABLES
  status, flagged, tainted,  \* Settlement.status, needsRevalidation, taintedTransactionIds
  counted,                   \* the rows its totals were computed from
  claimed,                   \* Transaction.settlementId
  hold,                      \* Transaction.settlementHold
  refund, refundIn,          \* RefundRequest.status, settlementId: one partial refund each
  dispute, lossIn,           \* Dispute.status, recoverySettlementId: one dispute each
  forgiven,                  \* writtenOffAt: the refunds and disputes written off
  booked,                    \* the chargeback rows in the ledger
  reserveIn,                 \* Settlement.reserveReleaseSettlementId
  build,                     \* buildForBrand: where it is and its locals
  pc, job,                   \* where each request is, and its locals
  reported,                  \* history: the payments each settlement was to be flagged for
  faults

settlementVars == <<status, flagged, tainted, counted, reserveIn>>
rowVars == <<claimed, hold, refund, refundIn, dispute, lossIn, forgiven, booked>>
vars == <<settlementVars, rowVars, build, pc, job, reported, faults>>

Statuses == {"NONE", "DRAFT", "PENDING_APPROVAL", "APPROVED", "ON_HOLD", "PAID",
             "CANCELLED", "CARRIED_FORWARD"}
\* SETTLEMENT_RELEASING_STATUSES that are reached here
Closed == {"CANCELLED", "CARRIED_FORWARD"}
PrePayout == {"DRAFT", "PENDING_APPROVAL", "APPROVED"}

Kinds == {"REFUND", "OPEN", "LOST", "WON"}
Counted == [payments : SUBSET Payments, refunds : SUBSET Payments,
            losses : SUBSET Payments, reserves : SUBSET Settlements]
Nothing == [payments |-> {}, refunds |-> {}, losses |-> {}, reserves |-> {}]
NoJob == [s |-> None, p |-> None, kind |-> "NONE", rows |-> {}]
NoBuild == [at |-> "idle", s |-> None, found |-> {}, got |-> Nothing]

TypeOK ==
  /\ status \in [Settlements -> Statuses]
  /\ flagged \in [Settlements -> BOOLEAN]
  /\ tainted \in [Settlements -> SUBSET Payments]
  /\ counted \in [Settlements -> Counted]
  /\ claimed \in [Payments -> Settlements \cup {None}]
  /\ hold \in [Payments -> BOOLEAN]
  /\ refund \in [Payments -> {"NONE", "REQUESTED", "COMPLETED"}]
  /\ refundIn \in [Payments -> Settlements \cup {None}]
  /\ dispute \in [Payments -> {"NONE", "OPEN", "LOST", "WON"}]
  /\ lossIn \in [Payments -> Settlements \cup {None}]
  /\ forgiven \in [refunds : SUBSET Payments, losses : SUBSET Payments]
  /\ booked \in [Payments -> SUBSET {"CHARGEBACK", "CHARGEBACK_REVERSAL"}]
  /\ reserveIn \in [Settlements -> Settlements \cup {None}]
  /\ build \in [at : {"idle", "payments", "findrefunds", "refunds", "findlosses",
                      "losses", "reserves", "submit"},
                s : Settlements \cup {None}, found : SUBSET Payments, got : Counted]
  /\ pc \in [Requests -> {"idle", "record", "hold", "taint", "book", "unhold",
                          "drop", "recount", "resubmit", "pay", "stamp"}]
  /\ job \in [Requests -> [s : Settlements \cup {None}, p : Payments \cup {None},
                           kind : Kinds \cup {"NONE"}, rows : SUBSET Payments]]
  /\ reported \in [Settlements -> SUBSET Payments]
  /\ faults \in 0..MaxFaults

Init ==
  /\ status = [s \in Settlements |-> "NONE"]
  /\ flagged = [s \in Settlements |-> FALSE]
  /\ tainted = [s \in Settlements |-> {}]
  /\ counted = [s \in Settlements |-> Nothing]
  /\ claimed = [p \in Payments |-> None]
  /\ hold = [p \in Payments |-> FALSE]
  /\ refund = [p \in Payments |-> "NONE"]
  /\ refundIn = [p \in Payments |-> None]
  /\ dispute = [p \in Payments |-> "NONE"]
  /\ lossIn = [p \in Payments |-> None]
  /\ forgiven = [refunds |-> {}, losses |-> {}]
  /\ booked = [p \in Payments |-> {}]
  /\ reserveIn = [s \in Settlements |-> None]
  /\ build = NoBuild
  /\ pc = [c \in Requests |-> "idle"]
  /\ job = [c \in Requests |-> NoJob]
  /\ reported = [s \in Settlements |-> {}]
  /\ faults = 0

Goto(c, label) == pc' = [pc EXCEPT ![c] = label]
Begin(c, label, j) == Goto(c, label) /\ job' = [job EXCEPT ![c] = j]
Done(c) == Begin(c, "idle", NoJob)

\* The handlers that hold a payment.
Holding(c) == pc[c] \in {"record", "hold", "taint", "book"}
Handled(p) == \E c \in Requests : Holding(c) /\ job[c].p = p

-----------------------------------------------------------------------------
(* buildForBrand, one step per await.  The job lock runs one at a time.    *)

\* The unique idempotency key gives a period one settlement.
StartBuild(s) ==
  /\ build.at = "idle"
  /\ status[s] = "NONE"
  /\ "writeoff" \in Overlaps \/ \A c \in Requests : pc[c] # "stamp"
  /\ status' = [status EXCEPT ![s] = "DRAFT"]
  /\ build' = [NoBuild EXCEPT !.at = "payments", !.s = s]
  /\ UNCHANGED <<flagged, tainted, counted, reserveIn, rowVars, pc, job, reported, faults>>

\* Mutant: claims a payment that is already in a settlement.
EligibleTwice(p) == ~hold[p]

\* buildEligibilityFilter
Eligible(p) == claimed[p] = None /\ ~hold[p]

\* The eligible payments, but for some that have not matured.
ClaimPayments ==
  /\ build.at = "payments"
  /\ \E early \in SUBSET Late :
       claimed' = [p \in Payments |->
                     IF Eligible(p) /\ p \notin early THEN build.s ELSE claimed[p]]
  /\ build' = [build EXCEPT !.at = "findrefunds",
                            !.got.payments = {p \in Payments : claimed'[p] = build.s}]
  /\ UNCHANGED <<settlementVars, hold, refund, refundIn, dispute, lossIn, forgiven,
                 booked, pc, job, reported, faults>>

\* Mutant: a refund deducted once is found again.
RefundOwedAgain(p) == refund[p] = "COMPLETED" /\ p \notin forgiven.refunds

\* A refund of a payment that some settlement covers.
RefundOwed(p) ==
  /\ refund[p] = "COMPLETED"
  /\ refundIn[p] = None
  /\ p \notin forgiven.refunds

RefundsOwed == {p \in Payments : RefundOwed(p) /\ claimed[p] # None}

\* With none to claim, the settlement has those it holds.
FindRefunds ==
  /\ build.at = "findrefunds"
  /\ build' = IF RefundsOwed = {}
                THEN [build EXCEPT !.at = "findlosses",
                                   !.got.refunds = {p \in Payments : refundIn[p] = build.s}]
                ELSE [build EXCEPT !.at = "refunds", !.found = RefundsOwed]
  /\ UNCHANGED <<settlementVars, rowVars, pc, job, reported, faults>>

\* Claimed by id alone.
ClaimRefunds ==
  /\ build.at = "refunds"
  /\ refundIn' = [p \in Payments |-> IF p \in build.found THEN build.s ELSE refundIn[p]]
  /\ build' = [build EXCEPT !.at = "findlosses", !.found = {},
                            !.got.refunds = {p \in Payments : refundIn'[p] = build.s}]
  /\ UNCHANGED <<settlementVars, claimed, hold, refund, dispute, lossIn, forgiven,
                 booked, pc, job, reported, faults>>

\* A lost dispute whose chargeback stands in the ledger.
LossOwed(p) ==
  /\ dispute[p] = "LOST"
  /\ lossIn[p] = None
  /\ p \notin forgiven.losses
  /\ booked[p] = {"CHARGEBACK"}

LossesOwed == {p \in Payments : LossOwed(p) /\ claimed[p] # None}

FindLosses ==
  /\ build.at = "findlosses"
  /\ build' = IF LossesOwed = {} THEN [build EXCEPT !.at = "reserves"]
                ELSE [build EXCEPT !.at = "losses", !.found = LossesOwed]
  /\ UNCHANGED <<settlementVars, rowVars, pc, job, reported, faults>>

ClaimLosses ==
  /\ build.at = "losses"
  /\ lossIn' = [p \in Payments |->
                  IF p \in build.found /\ lossIn[p] = None THEN build.s ELSE lossIn[p]]
  /\ build' = [build EXCEPT !.at = "reserves", !.found = {},
                            !.got.losses = {p \in Payments : lossIn'[p] = build.s}]
  /\ UNCHANGED <<settlementVars, claimed, hold, refund, refundIn, dispute, forgiven,
                 booked, pc, job, reported, faults>>

\* claimMaturedReserves: any reserve of a paid settlement may be due.
ClaimReserves ==
  /\ build.at = "reserves"
  /\ \E due \in SUBSET {t \in Settlements : status[t] = "PAID" /\ reserveIn[t] = None} :
       reserveIn' = [t \in Settlements |-> IF t \in due THEN build.s ELSE reserveIn[t]]
  /\ build' = [build EXCEPT !.at = "submit",
                            !.got.reserves = {t \in Settlements : reserveIn'[t] = build.s}]
  /\ UNCHANGED <<status, flagged, tainted, counted, rowVars, pc, job, reported, faults>>

\* A settlement moves, with its new totals; nobody reads the figures of a closed
\* one again.
Move(s, to, totals) ==
  /\ status' = [status EXCEPT ![s] = to]
  /\ counted' = [counted EXCEPT ![s] = IF to \in Closed THEN Nothing ELSE totals]
  /\ IF to \in Closed
       THEN /\ flagged' = [flagged EXCEPT ![s] = FALSE]
            /\ tainted' = [tainted EXCEPT ![s] = {}]
            /\ reported' = [reported EXCEPT ![s] = {}]
       ELSE UNCHANGED <<flagged, tainted, reported>>

\* Nothing to pay carries forward; less than the minimum may.
Outcomes(rows, open) ==
  {"CARRIED_FORWARD"} \cup (IF rows.payments \cup rows.reserves = {} THEN {} ELSE open)

\* computeTotals over what was claimed, and the transition from DRAFT: a draft
\* the sweep has cancelled stays so.
Submit ==
  /\ build.at = "submit"
  /\ IF status[build.s] = "DRAFT"
       THEN \E to \in Outcomes(build.got, {"PENDING_APPROVAL", "APPROVED"}) :
              Move(build.s, to, build.got)
       ELSE UNCHANGED <<status, flagged, tainted, counted, reported>>
  /\ build' = NoBuild
  /\ UNCHANGED <<reserveIn, rowVars, pc, job, faults>>

-----------------------------------------------------------------------------
(* Letting go: releaseSettlementClaims, and the two sweeps behind it.      *)

HeldRows(s) ==
  [payments |-> {p \in Payments : claimed[p] = s}, refunds |-> {p \in Payments : refundIn[p] = s},
   losses |-> {p \in Payments : lossIn[p] = s}, reserves |-> {t \in Settlements : reserveIn[t] = s}]

\* By whoever closed the settlement, right away or never, or by
\* sweepStrandedClaims later.
LetGo(s) ==
  /\ status[s] \in Closed
  /\ HeldRows(s) # Nothing
  /\ claimed' = [p \in Payments |-> IF claimed[p] = s THEN None ELSE claimed[p]]
  /\ refundIn' = [p \in Payments |-> IF refundIn[p] = s THEN None ELSE refundIn[p]]
  /\ lossIn' = [p \in Payments |-> IF lossIn[p] = s THEN None ELSE lossIn[p]]
  /\ reserveIn' = [t \in Settlements |-> IF reserveIn[t] = s THEN None ELSE reserveIn[t]]
  /\ UNCHANGED <<status, flagged, tainted, counted, hold, refund, dispute, forgiven,
                 booked, build, pc, job, reported, faults>>

\* sweepAbandonedDrafts: three hours old, dead or only slow.
SweepDraft(s) ==
  /\ status[s] = "DRAFT"
  /\ Move(s, "CANCELLED", counted[s])
  /\ UNCHANGED <<reserveIn, rowVars, build, pc, job, faults>>

-----------------------------------------------------------------------------
(* Admins.                                                                 *)

Approvable(s) == status[s] = "PENDING_APPROVAL" /\ ~flagged[s]

Approve(s) ==
  /\ Approvable(s)
  /\ Move(s, "APPROVED", counted[s])
  /\ UNCHANGED <<reserveIn, rowVars, build, pc, job, faults>>

\* By an admin, by refuseAndHold, or by startPayout of a flagged settlement.
HoldSettlement(s) ==
  /\ status[s] \in {"PENDING_APPROVAL", "APPROVED"}
  /\ Move(s, "ON_HOLD", counted[s])
  /\ UNCHANGED <<reserveIn, rowVars, build, pc, job, faults>>

Cancel(s) ==
  /\ status[s] \in PrePayout \cup {"ON_HOLD"}
  /\ Move(s, "CANCELLED", counted[s])
  /\ UNCHANGED <<reserveIn, rowVars, build, pc, job, faults>>

\* rebuildSettlement, one at a time: the tainted payments as loaded ...
StartRebuild(c, s) ==
  /\ pc[c] = "idle"
  /\ status[s] = "ON_HOLD"
  /\ \A d \in Requests : pc[d] \notin {"drop", "recount", "resubmit"}
  /\ Begin(c, "drop", [NoJob EXCEPT !.s = s, !.rows = tainted[s]])
  /\ UNCHANGED <<settlementVars, rowVars, build, reported, faults>>

\* ... go back ...
DropTainted(c) ==
  /\ pc[c] = "drop"
  /\ claimed' = [p \in Payments |->
                   IF p \in job[c].rows /\ claimed[p] = job[c].s THEN None ELSE claimed[p]]
  /\ Goto(c, "recount")
  /\ UNCHANGED <<settlementVars, hold, refund, refundIn, dispute, lossIn, forgiven, booked,
                 build, job, reported, faults>>

\* Payments and refunds only: losses and reserves stay claimed, not counted.
Recounted(s) == [HeldRows(s) EXCEPT !.losses = {}, !.reserves = {}]

\* ... the rest is counted again, and the flag cleared ...
Recount(c) ==
  /\ pc[c] = "recount"
  /\ LET s == job[c].s IN
     IF status[s] \in Closed
       THEN UNCHANGED <<counted, flagged, tainted>>
       ELSE /\ counted' = [counted EXCEPT ![s] = Recounted(s)]
            /\ flagged' = [flagged EXCEPT ![s] = FALSE]
            /\ tainted' = [tainted EXCEPT ![s] = {}]
  /\ Goto(c, "resubmit")
  /\ UNCHANGED <<status, reserveIn, rowVars, build, job, reported, faults>>

\* ... and it waits for approval again, unless it was cancelled meanwhile.
Resubmit(c) ==
  /\ pc[c] = "resubmit"
  /\ LET s == job[c].s IN
     IF status[s] = "ON_HOLD"
       THEN \E to \in Outcomes(counted[s], {"PENDING_APPROVAL"}) :
              Move(s, to, counted[s])
       ELSE UNCHANGED <<status, flagged, tainted, counted, reported>>
  /\ Done(c)
  /\ UNCHANGED <<reserveIn, rowVars, build, faults>>

\* startPayout checks the settlement it has loaded ...
CheckPayout(c, s) ==
  /\ pc[c] = "idle"
  /\ status[s] = "APPROVED"
  /\ ~flagged[s]
  /\ Begin(c, "pay", [NoJob EXCEPT !.s = s])
  /\ UNCHANGED <<settlementVars, rowVars, build, reported, faults>>

\* ... and the bank is paid if it is still approved.
PaySettlement(c) ==
  /\ pc[c] = "pay"
  /\ status' = IF status[job[c].s] = "APPROVED"
                 THEN [status EXCEPT ![job[c].s] = "PAID"] ELSE status
  /\ Done(c)
  /\ UNCHANGED <<flagged, tainted, counted, reserveIn, rowVars, build, reported, faults>>

-----------------------------------------------------------------------------
(* writeOffVendorDebt: what the brand owes is read, credited, then stamped *)
(* by id.                                                                  *)

StartWriteOff(c, kind) ==
  /\ pc[c] = "idle"
  /\ build.at = "idle" \/ "writeoff" \in Overlaps
  /\ LET owed == IF kind = "REFUND" THEN {p \in Payments : RefundOwed(p)}
                                    ELSE {p \in Payments : LossOwed(p)} IN
     /\ {p \in owed : claimed[p] # None} # {}
     /\ Begin(c, "stamp", [NoJob EXCEPT !.kind = kind,
                                        !.rows = {p \in owed : claimed[p] # None}])
  /\ UNCHANGED <<settlementVars, rowVars, build, reported, faults>>

StampWriteOff(c) ==
  /\ pc[c] = "stamp"
  /\ forgiven' = IF job[c].kind = "REFUND"
                   THEN [forgiven EXCEPT !.refunds = @ \cup job[c].rows]
                   ELSE [forgiven EXCEPT !.losses = @ \cup job[c].rows]
  /\ Done(c)
  /\ UNCHANGED <<settlementVars, claimed, hold, refund, refundIn, dispute, lossIn, booked,
                 build, reported, faults>>

-----------------------------------------------------------------------------
(* Refunds and chargebacks.                                                *)

MayHandle(c, p, kind) ==
  "verdict" \in Overlaps \/ kind \notin {"LOST", "WON"}
    \/ /\ kind = "LOST" => dispute[p] # "WON"
       /\ ~\E d \in Requests \ {c} : Holding(d) /\ job[d].p = p /\ job[d].kind \in {"LOST", "WON"}

\* A customer asks for a part back; or the bank has opened a dispute, decided it,
\* or won it back on appeal, and its events arrive in any order and any number of
\* times.  The payment is loaded, with the settlement it is in.
StartEvent(c, p, kind) ==
  /\ pc[c] = "idle"
  /\ IF kind = "REFUND" THEN p \in Refundable /\ refund[p] = "NONE" ELSE p \in Disputable
  /\ MayHandle(c, p, kind)
  /\ Begin(c, "record", [NoJob EXCEPT !.p = p, !.kind = kind, !.s = claimed[p]])
  /\ UNCHANGED <<settlementVars, rowVars, build, reported, faults>>

Newer(kind, old) ==
  LET rank == [k \in {"NONE", "OPEN", "LOST", "WON"} |->
                 CASE k = "NONE" -> 0 [] k = "OPEN" -> 1 [] k = "LOST" -> 2 [] OTHER -> 3]
  IN rank[kind] >= rank[old]

\* An event whose handler dies, or fails, is delivered again, and its payment is
\* loaded again.
Redeliver(c) ==
  /\ Holding(c)
  /\ job[c].kind # "REFUND"
  /\ faults < MaxFaults
  /\ MayHandle(c, job[c].p, job[c].kind)
  /\ faults' = faults + 1
  /\ Begin(c, "record", [job[c] EXCEPT !.s = claimed[job[c].p]])
  /\ UNCHANGED <<settlementVars, rowVars, build, reported>>

\* recordDispute, conditional on the event being newer; or the request row,
\* which the unique index of open requests gives to one of two requests.
Record(c) ==
  /\ pc[c] = "record"
  /\ LET p == job[c].p IN
     IF job[c].kind = "REFUND"
       THEN /\ UNCHANGED dispute
            /\ refund' = [refund EXCEPT ![p] = IF @ = "NONE" THEN "REQUESTED" ELSE @]
            /\ IF refund[p] = "NONE" THEN Goto(c, "hold") /\ UNCHANGED job ELSE Done(c)
       ELSE /\ dispute' = [dispute EXCEPT ![p] = IF Newer(job[c].kind, @) THEN job[c].kind ELSE @]
            /\ UNCHANGED <<refund, job>>
            /\ Goto(c, "hold")
  /\ UNCHANGED <<settlementVars, claimed, hold, refundIn, lossIn, forgiven, booked,
                 build, reported, faults>>

\* repairMissingHolds, of reconcileRefunds: an open refund whose handler died before
\* it held the payment, read with the settlement the payment is in.  One that died
\* after that is not found again.
StartRepair(c, p) ==
  /\ pc[c] = "idle"
  /\ refund[p] = "REQUESTED"
  /\ ~hold[p]
  /\ Begin(c, "hold", [NoJob EXCEPT !.p = p, !.kind = "REFUND", !.s = claimed[p]])
  /\ UNCHANGED <<settlementVars, rowVars, build, reported, faults>>

HoldPayment(c) ==
  /\ pc[c] = "hold"
  /\ hold' = [hold EXCEPT ![job[c].p] = TRUE]
  /\ Goto(c, "taint")
  /\ UNCHANGED <<settlementVars, claimed, refund, refundIn, dispute, lossIn, forgiven,
                 booked, build, job, reported, faults>>

\* Mutant: an approved settlement is past flagging.
TaintableUnapproved(s) == s # None /\ status[s] \in PrePayout \ {"APPROVED"}

\* taintSettlement, of the settlement the payment was in when it was loaded.
Taintable(s) == s # None /\ status[s] \in PrePayout

Taint(c) ==
  /\ pc[c] = "taint"
  /\ IF Taintable(job[c].s)
       THEN /\ flagged' = [flagged EXCEPT ![job[c].s] = TRUE]
            /\ tainted' = [tainted EXCEPT ![job[c].s] = @ \cup {job[c].p}]
       ELSE UNCHANGED <<flagged, tainted>>
  /\ IF job[c].s # None /\ status[job[c].s] \notin Closed \cup {"PAID", "ON_HOLD"}
       THEN reported' = [reported EXCEPT ![job[c].s] = @ \cup {job[c].p}]
       ELSE UNCHANGED reported
  /\ IF job[c].kind \in {"LOST", "WON"}
       THEN Goto(c, "book") /\ UNCHANGED job
       ELSE Done(c)
  /\ UNCHANGED <<status, counted, reserveIn, rowVars, build, faults>>

\* Mutant: a win credits nothing.
BookingNoReversal(kind, rows) == IF kind = "LOST" THEN {"CHARGEBACK"} ELSE {}

\* Mutant: a verdict is booked under its own name.
BookingByVerdict(kind, rows) == {kind} \cap {"LOST", "WON"}

\* postChargebackLoss, or postChargebackReversal of a booked loss.
Booking(kind, rows) ==
  CASE kind = "LOST" -> {"CHARGEBACK"}
    [] kind = "WON" /\ "CHARGEBACK" \in rows -> {"CHARGEBACK_REVERSAL"}
    [] OTHER -> {}

Book(c) ==
  /\ pc[c] = "book"
  /\ booked' = [booked EXCEPT ![job[c].p] = @ \cup Booking(job[c].kind, @)]
  /\ Done(c)
  /\ UNCHANGED <<settlementVars, claimed, hold, refund, refundIn, dispute, lossIn, forgiven,
                 build, reported, faults>>

\* The refund lands, and takes its hold off unless a dispute keeps it.
CompleteRefund(c, p) ==
  /\ pc[c] = "idle"
  /\ refund[p] = "REQUESTED"
  /\ refund' = [refund EXCEPT ![p] = "COMPLETED"]
  /\ hold' = [hold EXCEPT ![p] = TRUE]
  /\ IF dispute[p] \in {"NONE", "WON"}
       THEN Begin(c, "unhold", [NoJob EXCEPT !.p = p])
       ELSE UNCHANGED <<pc, job>>
  /\ UNCHANGED <<settlementVars, claimed, refundIn, dispute, lossIn, forgiven, booked,
                 build, reported, faults>>

\* releaseTransactionHold: an admin decides who bears a resolved dispute.
LookAtHold(c, p) ==
  /\ pc[c] = "idle"
  /\ hold[p]
  /\ dispute[p] # "OPEN"
  /\ refund[p] # "REQUESTED"
  /\ Begin(c, "unhold", [NoJob EXCEPT !.p = p])
  /\ UNCHANGED <<settlementVars, rowVars, build, reported, faults>>

Unhold(c) ==
  /\ pc[c] = "unhold"
  /\ hold' = [hold EXCEPT ![job[c].p] = FALSE]
  /\ Done(c)
  /\ UNCHANGED <<settlementVars, claimed, refund, refundIn, dispute, lossIn, forgiven,
                 booked, build, reported, faults>>

-----------------------------------------------------------------------------
\* A request dies anywhere; only events are delivered again.
Crash(c) ==
  /\ pc[c] # "idle"
  /\ Holding(c) => job[c].kind = "REFUND"
  /\ faults < MaxFaults
  /\ faults' = faults + 1
  /\ Done(c)
  /\ UNCHANGED <<settlementVars, rowVars, build, reported>>

CrashBuild ==
  /\ build.at # "idle"
  /\ faults < MaxFaults
  /\ faults' = faults + 1
  /\ build' = NoBuild
  /\ UNCHANGED <<settlementVars, rowVars, pc, job, reported>>

BuildStep ==
  \/ ClaimPayments \/ FindRefunds \/ ClaimRefunds \/ FindLosses \/ ClaimLosses
  \/ ClaimReserves \/ Submit

Step(c) ==
  \/ DropTainted(c) \/ Recount(c) \/ Resubmit(c) \/ PaySettlement(c) \/ StampWriteOff(c)
  \/ Record(c) \/ HoldPayment(c) \/ Taint(c) \/ Book(c) \/ Unhold(c)

Next ==
  \/ BuildStep \/ CrashBuild
  \/ \E s \in Settlements :
       \/ StartBuild(s) \/ LetGo(s) \/ SweepDraft(s)
       \/ Approve(s) \/ HoldSettlement(s) \/ Cancel(s)
  \/ \E c \in Requests : Step(c) \/ Crash(c) \/ Redeliver(c)
  \/ \E c \in Requests, s \in Settlements : StartRebuild(c, s) \/ CheckPayout(c, s)
  \/ \E c \in Requests, kind \in {"REFUND", "LOST"} : StartWriteOff(c, kind)
  \/ \E c \in Requests, p \in Payments :
       CompleteRefund(c, p) \/ LookAtHold(c, p) \/ StartRepair(c, p)
  \/ \E c \in Requests, p \in Payments, kind \in Kinds : StartEvent(c, p, kind)

Spec == Init /\ [][Next]_vars

-----------------------------------------------------------------------------
(* Properties.                                                             *)

Payable == {s \in Settlements : status[s] \in {"APPROVED", "PAID"}}

\* What a vendor is paid for is what the settlement has locked: a payment or a
\* refund that went back to the next cycle is not counted in this one any more.
PaidForWhatItHolds ==
  \A s \in Payable : /\ counted[s].payments = HeldRows(s).payments
                     /\ counted[s].refunds = HeldRows(s).refunds

\* A refund or a lost dispute is taken from the vendor by one settlement, or by
\* none once it was written off.
DeductedOnce ==
  \A p \in Payments :
    /\ Cardinality({s \in Payable : p \in counted[s].refunds})
         + (IF p \in forgiven.refunds THEN 1 ELSE 0) <= 1
    /\ Cardinality({s \in Payable : p \in counted[s].losses})
         + (IF p \in forgiven.losses THEN 1 ELSE 0) <= 1

\* approveSettlement.js: "the last point at which exclusion is free".  No payout
\* starts for a settlement that still counts a payment it was to be flagged for:
\* whatever admins, rebuilds and crashes did since, the payment is out of it, or it
\* waits.
PayoutStartsClean ==
  [][\A c \in Requests, s \in Settlements :
       CheckPayout(c, s) => counted[s].payments \cap reported[s] = {}]_vars

\* A dispute that was won leaves nothing charged to the vendor in the books,
\* whatever was charged when it was lost first.
BooksFollowVerdict ==
  \A p \in Payments : ~Handled(p) /\ dispute[p] = "WON" => booked[p] # {"CHARGEBACK"}

\* A recovery is marked on a dispute only with the money taken for it.
RecoveredMeansDeducted ==
  \A p \in Payments, s \in Payable : lossIn[p] = s => p \in counted[s].losses
=============================================================================
