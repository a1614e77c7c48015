------------------------------- MODULE Payout -------------------------------
(***************************************************************************)
(* Paying one settlement out (services/settlements/paySettlement.js, with  *)
(* the decisions of approveSettlement.js and the one function that moves a *)
(* status, transitionSettlement.js).  Money leaves in legs: an admin opens *)
(* one, sends a bank transfer, and confirms what the bank moved, which may *)
(* be less than the leg was opened for.  A handler reads the settlement    *)
(* when it starts and writes conditionally later, so every await after a   *)
(* read that is used again is a step.  A read whose only use is repeated   *)
(* by the condition of the write is one step with it.                      *)
(***************************************************************************)
EXTENDS Integers, FiniteSets, Functions

CONSTANTS Callers,   \* concurrent requests of admins, and the draft sweep
          Net,       \* bound: the most a settlement is for, in units
          MaxLegs,   \* bound: legs ever opened
          MaxFaults  \* bound: crashes

ASSUME ConstantsAssumption ==
  /\ Net \in Nat \ {0} /\ MaxLegs \in Nat \ {0} /\ MaxFaults \in Nat

VARIABLES
  status,   \* Settlement.status
  held,     \* do payments still carry the settlement's id?
  payable,  \* Settlement.netPayable
  leg,      \* PayoutLeg.status and amount, by legNumber
  ledger,   \* rows <<legNumber, entryType>>
  pc, continues, num, net, owed, legs,  \* locals of a request; net is the payable it read
  missed,     \* history: a leg was confirmed after the request had read the total
  basis,      \* history: the payable a leg was opened against, 0 if its start missed a leg
  closedFor,  \* history: the payable that the request which closed the settlement had read
  faults

locals == <<continues, num, net, owed, legs, missed>>
history == <<basis, closedFor>>
vars == <<status, held, payable, leg, ledger, pc, locals, faults, history>>

LegNumbers == 1..MaxLegs

Statuses == {"DRAFT", "PENDING_APPROVAL", "APPROVED", "PROCESSING", "PAID", "FAILED",
             "ON_HOLD", "REVERSED", "CANCELLED", "ABANDONED", "CARRIED_FORWARD"}
LegStatuses == {"NONE", "INITIATED", "PAID", "FAILED", "REVERSED"}
EntryTypes == {"PAYOUT", "RESERVE", "PAYOUT_REVERSAL"}
Labels == {"idle", "look", "check", "owed", "open", "move",
           "find", "pay", "sum", "book", "bookfinal", "reserve", "finish", "heal",
           "findbounced", "bounce", "failed",
           "reverse", "unbook", "retotal", "rebuild", "release"}

TypeOK ==
  /\ status \in Statuses
  /\ held \in BOOLEAN
  /\ payable \in 0..Net
  /\ leg \in [LegNumbers -> [status : LegStatuses, amount : 0..Net]]
  /\ ledger \subseteq LegNumbers \X EntryTypes
  /\ pc \in [Callers -> Labels]
  /\ continues \in [Callers -> BOOLEAN]
  /\ num \in [Callers -> 0..MaxLegs]
  /\ net \in [Callers -> 0..Net]
  /\ owed \in [Callers -> 0..Net]
  /\ legs \in [Callers -> SUBSET LegNumbers]
  /\ missed \in [Callers -> BOOLEAN]
  /\ basis \in [LegNumbers -> 0..Net]
  /\ closedFor \in 0..Net
  /\ faults \in 0..MaxFaults

Init ==
  /\ status = "DRAFT"
  /\ held = TRUE
  /\ payable \in 1..Net
  /\ leg = [n \in LegNumbers |-> [status |-> "NONE", amount |-> 0]]
  /\ ledger = {}
  /\ pc = [c \in Callers |-> "idle"]
  /\ continues = [c \in Callers |-> FALSE]
  /\ num = [c \in Callers |-> 0]
  /\ net = [c \in Callers |-> 0]
  /\ owed = [c \in Callers |-> 0]
  /\ legs = [c \in Callers |-> {}]
  /\ missed = [c \in Callers |-> FALSE]
  /\ basis = [n \in LegNumbers |-> 0]
  /\ closedFor = 0
  /\ faults = 0

Goto(c, label) == pc' = [pc EXCEPT ![c] = label]

\* A request that ends forgets its locals.
Done(c) ==
  /\ Goto(c, "idle")
  /\ continues' = [continues EXCEPT ![c] = FALSE]
  /\ num' = [num EXCEPT ![c] = 0]
  /\ net' = [net EXCEPT ![c] = 0]
  /\ owed' = [owed EXCEPT ![c] = 0]
  /\ legs' = [legs EXCEPT ![c] = {}]
  /\ missed' = [missed EXCEPT ![c] = FALSE]

LegsIn(s) == {n \in LegNumbers : leg[n].status = s}
Amounts == [n \in LegNumbers |-> leg[n].amount]
PaidTotal == SumFunctionOnSet(Amounts, LegsIn("PAID"))

\* Mutant: a split is complete with its first leg.
PaidSomething(c) == PaidTotal > 0

\* The legs add up to the payable the request has read.
PaidUp(c) == PaidTotal >= net[c]

-----------------------------------------------------------------------------
(* The status machine.                                                     *)

Allowed ==
  [s \in Statuses |->
     CASE s = "DRAFT" -> {"PENDING_APPROVAL", "APPROVED", "CARRIED_FORWARD", "CANCELLED"}
       [] s = "PENDING_APPROVAL" -> {"APPROVED", "CARRIED_FORWARD", "ON_HOLD", "CANCELLED"}
       [] s = "APPROVED" -> {"PROCESSING", "ON_HOLD", "CANCELLED"}
       [] s = "PROCESSING" -> {"PAID", "FAILED"}
       [] s = "PAID" -> {"REVERSED"}
       [] s = "FAILED" -> {"APPROVED", "ABANDONED"}
       [] s = "ON_HOLD" -> {"PENDING_APPROVAL", "CARRIED_FORWARD", "CANCELLED"}
       [] OTHER -> {}]

\* Mutant: a bounce releases the payments at once.
ReleasingOnBounce == {"CANCELLED", "ABANDONED", "REVERSED", "CARRIED_FORWARD", "FAILED"}

Releasing == {"CANCELLED", "ABANDONED", "REVERSED", "CARRIED_FORWARD"}

\* transitionSettlement for a caller that saw the settlement in "from": the
\* update is conditional on it, and 409 otherwise.
CanMove(from, to) == status = from /\ to \in Allowed[from]

\* A whole handler up to the release of the payments, which the transition
\* itself goes on to do.
Decide(c, from, to) ==
  /\ pc[c] = "idle"
  /\ CanMove(from, to)
  /\ status' = to
  /\ Goto(c, IF to \in Releasing THEN "release" ELSE "idle")
  /\ UNCHANGED <<held, payable, leg, ledger, locals, faults, history>>

\* The end of buildSettlements, and sweepAbandonedDrafts.
Build(c) == \E to \in Allowed["DRAFT"] : Decide(c, "DRAFT", to)
Approve(c) == Decide(c, "PENDING_APPROVAL", "APPROVED")
\* holdSettlement, and the approval of a settlement that was flagged.
Hold(c) == \E from \in {"PENDING_APPROVAL", "APPROVED"} : Decide(c, from, "ON_HOLD")
Cancel(c) ==
  \E from \in {"PENDING_APPROVAL", "APPROVED", "ON_HOLD"} : Decide(c, from, "CANCELLED")
Abandon(c) == Decide(c, "FAILED", "ABANDONED")
\* retryPayout.
Retry(c) == Decide(c, "FAILED", "APPROVED")

\* rebuildSettlement drops the rows that went bad and adds the rest up again, to
\* less or, with nothing deducted any more, to more.  What has been paid out by
\* then is not looked at.  The new payable is written whatever the status is now ...
StartRebuild(c) ==
  /\ pc[c] = "idle"
  /\ status = "ON_HOLD"
  /\ Goto(c, "retotal")
  /\ UNCHANGED <<status, held, payable, leg, ledger, locals, faults, history>>

Retotal(c) ==
  /\ pc[c] = "retotal"
  /\ \E total \in 0..Net :
       /\ payable' = total
       /\ net' = [net EXCEPT ![c] = total]
  /\ Goto(c, "rebuild")
  /\ UNCHANGED <<status, held, leg, ledger, continues, num, owed, legs, missed, faults,
                 history>>

\* ... and the settlement, read again, goes back to approval, or away with nothing
\* or too little left to pay.
Rebuild(c) ==
  /\ pc[c] = "rebuild"
  /\ \E to \in {"PENDING_APPROVAL", "CARRIED_FORWARD"} :
       /\ net[c] = 0 => to = "CARRIED_FORWARD"
       /\ IF CanMove(status, to) /\ to \in Releasing
            THEN status' = to /\ Goto(c, "release") /\ UNCHANGED locals
            ELSE status' = (IF CanMove(status, to) THEN to ELSE status) /\ Done(c)
  /\ UNCHANGED <<held, payable, leg, ledger, faults, history>>

\* releaseSettlementClaims.
Release(c) ==
  /\ pc[c] = "release"
  /\ held' = FALSE
  /\ Done(c)
  /\ UNCHANGED <<status, payable, leg, ledger, faults, history>>

\* Mutant: the sweep knows two of the four releasing states.
StrandedTwo == {"CANCELLED", "ABANDONED"}

Strandable == Releasing

\* sweepStrandedClaims, an hour after: it does not meet a running request.
SweepStranded ==
  /\ status \in Strandable
  /\ held
  /\ \A c \in Callers : pc[c] \notin {"unbook", "release"}
  /\ held' = FALSE
  /\ UNCHANGED <<status, payable, leg, ledger, pc, locals, faults, history>>

-----------------------------------------------------------------------------
(* startPayout.                                                            *)

\* Load: a first leg from APPROVED, the next one of a split from PROCESSING.
StartPayout(c) ==
  /\ pc[c] = "idle"
  /\ status \in {"APPROVED", "PROCESSING"}
  /\ continues' = [continues EXCEPT ![c] = status = "PROCESSING"]
  /\ net' = [net EXCEPT ![c] = payable]
  /\ Goto(c, IF status = "PROCESSING" THEN "look" ELSE "check")
  /\ UNCHANGED <<status, held, payable, leg, ledger, num, owed, legs, missed, faults, history>>

\* A continuation is refused while a leg is in flight.
LookForLeg(c) ==
  /\ pc[c] = "look"
  /\ IF LegsIn("INITIATED") = {}
       THEN Goto(c, "check") /\ UNCHANGED locals
       ELSE Done(c)
  /\ UNCHANGED <<status, held, payable, leg, ledger, faults, history>>

\* The settlement was flagged, or the bank account is not the one approved:
\* it is parked, unless it is PROCESSING, which cannot be.
Park(c) ==
  /\ pc[c] = "check"
  /\ LET seen == IF continues[c] THEN "PROCESSING" ELSE "APPROVED" IN
     status' = IF CanMove(seen, "ON_HOLD") THEN "ON_HOLD" ELSE status
  /\ Done(c)
  /\ UNCHANGED <<held, payable, leg, ledger, faults, history>>

CountLegs(c) ==
  /\ pc[c] = "check"
  /\ LegsIn("NONE") # {}
  /\ num' = [num EXCEPT ![c] = Cardinality(LegNumbers \ LegsIn("NONE")) + 1]
  /\ Goto(c, "owed")
  /\ UNCHANGED <<status, held, payable, leg, ledger, continues, net, owed, legs, missed, faults,
                 history>>

\* Mutant: every leg is opened for the whole payable.
OutstandingWhole(c) == net[c]

\* What is still owed, and never the whole payable again.
Outstanding(c) == net[c] - PaidTotal

\* Mutant: a settlement paid in full is not refused.
NothingOwedIgnored(c) == FALSE

NothingOwed(c) == Outstanding(c) <= 0

TotalPaid(c) ==
  /\ pc[c] = "owed"
  /\ IF NothingOwed(c)
       THEN Done(c)
       ELSE /\ owed' = [owed EXCEPT ![c] = Outstanding(c)]
            /\ Goto(c, "open")
            /\ UNCHANGED <<continues, num, net, legs, missed>>
  /\ UNCHANGED <<status, held, payable, leg, ledger, faults, history>>

\* The two unique indexes: one leg per number, one leg in flight.
LegFree(n) == leg[n].status = "NONE" /\ LegsIn("INITIATED") = {}

OpenLeg(c) ==
  /\ pc[c] = "open"
  /\ LegFree(num[c])
  /\ leg' = [leg EXCEPT ![num[c]] = [status |-> "INITIATED", amount |-> owed[c]]]
  /\ basis' = [basis EXCEPT ![num[c]] = IF missed[c] THEN 0 ELSE net[c]]
  /\ Goto(c, "move")
  /\ UNCHANGED <<status, held, payable, ledger, locals, faults, closedFor>>

OpenRefused(c) ==
  /\ pc[c] = "open"
  /\ ~LegFree(num[c])
  /\ Done(c)
  /\ UNCHANGED <<status, held, payable, leg, ledger, faults, history>>

\* The status moves after the leg exists; a continuation has none to move.
MoveToProcessing(c) ==
  /\ pc[c] = "move"
  /\ status' = IF ~continues[c] /\ CanMove("APPROVED", "PROCESSING")
                 THEN "PROCESSING" ELSE status
  /\ Done(c)
  /\ UNCHANGED <<held, payable, leg, ledger, faults, history>>

-----------------------------------------------------------------------------
(* confirmPayout.                                                          *)

StartConfirm(c) ==
  /\ pc[c] = "idle"
  /\ status = "PROCESSING"
  /\ net' = [net EXCEPT ![c] = payable]
  /\ Goto(c, "find")
  /\ UNCHANGED <<status, held, payable, leg, ledger, continues, num, owed, legs, missed,
                 faults, history>>

\* currentLeg.
FindLeg(c) ==
  /\ pc[c] = "find"
  /\ IF LegsIn("INITIATED") = {}
       THEN Goto(c, "heal") /\ UNCHANGED num
       ELSE /\ \E n \in LegsIn("INITIATED") : num' = [num EXCEPT ![c] = n]
            /\ Goto(c, "pay")
  /\ UNCHANGED <<status, held, payable, leg, ledger, continues, net, owed, legs, missed, faults,
                 history>>

\* The leg takes the amount the bank moved, all of it or less, if it is still
\* in flight.
PayLeg(c) ==
  /\ pc[c] = "pay"
  /\ leg[num[c]].status = "INITIATED"
  /\ \E amount \in 1..leg[num[c]].amount :
       leg' = [leg EXCEPT ![num[c]] = [status |-> "PAID", amount |-> amount]]
  /\ missed' = [s \in Callers |-> missed[s] \/ pc[s] = "open"]
  /\ Goto(c, "sum")
  /\ UNCHANGED <<status, held, payable, ledger, continues, num, net, owed, legs, faults,
                 history>>

PayRefused(c) ==
  /\ pc[c] = "pay"
  /\ leg[num[c]].status # "INITIATED"
  /\ Done(c)
  /\ UNCHANGED <<status, held, payable, leg, ledger, faults, history>>

\* Is this the leg that completes the settlement?
SumLegs(c) ==
  /\ pc[c] = "sum"
  /\ Goto(c, IF PaidUp(c) THEN "bookfinal" ELSE "book")
  /\ UNCHANGED <<status, held, payable, leg, ledger, locals, faults, history>>

\* postPayoutEntries: what this leg carried ...
PostPayout(c) ==
  /\ pc[c] \in {"book", "bookfinal"}
  /\ ledger' = ledger \cup {<<num[c], "PAYOUT">>}
  /\ IF pc[c] = "bookfinal" THEN Goto(c, "reserve") /\ UNCHANGED locals
                            ELSE Done(c)
  /\ UNCHANGED <<status, held, payable, leg, faults, history>>

\* ... and with the final leg the reserve held back or handed back.
PostReserve(c) ==
  /\ pc[c] = "reserve"
  /\ ledger' = ledger \cup {<<num[c], "RESERVE">>}
  /\ Goto(c, "finish")
  /\ UNCHANGED <<status, held, payable, leg, locals, faults, history>>

\* With no leg in flight, a confirmation completes the settlement an earlier
\* one left paid up and PROCESSING.
Heal(c) ==
  /\ pc[c] = "heal"
  /\ IF PaidUp(c) THEN Goto(c, "finish") /\ UNCHANGED locals ELSE Done(c)
  /\ UNCHANGED <<status, held, payable, leg, ledger, faults, history>>

Finish(c) ==
  /\ pc[c] = "finish"
  /\ status' = IF CanMove("PROCESSING", "PAID") THEN "PAID" ELSE status
  /\ closedFor' = IF CanMove("PROCESSING", "PAID") THEN net[c] ELSE closedFor
  /\ Done(c)
  /\ UNCHANGED <<held, payable, leg, ledger, faults, basis>>

-----------------------------------------------------------------------------
(* failPayout.                                                             *)

StartFail(c) ==
  /\ pc[c] = "idle"
  /\ status = "PROCESSING"
  /\ Goto(c, "findbounced")
  /\ UNCHANGED <<status, held, payable, leg, ledger, locals, faults, history>>

FindBounced(c) ==
  /\ pc[c] = "findbounced"
  /\ IF LegsIn("INITIATED") = {}
       THEN Goto(c, "failed") /\ UNCHANGED num
       ELSE /\ \E n \in LegsIn("INITIATED") : num' = [num EXCEPT ![c] = n]
            /\ Goto(c, "bounce")
  /\ UNCHANGED <<status, held, payable, leg, ledger, continues, net, owed, legs, missed, faults,
                 history>>

\* Mutant: a leg confirmed meanwhile is overwritten.
BouncesAnyway(n) == TRUE

\* The leg fails if it is still in flight ...
Bounces(n) == leg[n].status = "INITIATED"

BounceLeg(c) ==
  /\ pc[c] = "bounce"
  /\ leg' = [leg EXCEPT ![num[c]].status = IF Bounces(num[c]) THEN "FAILED" ELSE @]
  /\ Goto(c, "failed")
  /\ UNCHANGED <<status, held, payable, ledger, locals, faults, history>>

\* ... and the settlement either way.
MarkFailed(c) ==
  /\ pc[c] = "failed"
  /\ status' = IF CanMove("PROCESSING", "FAILED") THEN "FAILED" ELSE status
  /\ Done(c)
  /\ UNCHANGED <<held, payable, leg, ledger, faults, history>>

-----------------------------------------------------------------------------
(* reversePayout.                                                          *)

\* The paid legs are read first ...
StartReverse(c) ==
  /\ pc[c] = "idle"
  /\ status = "PAID"
  /\ legs' = [legs EXCEPT ![c] = LegsIn("PAID")]
  /\ Goto(c, "reverse")
  /\ UNCHANGED <<status, held, payable, leg, ledger, continues, num, net, owed, missed, faults,
                 history>>

MarkReversed(c) ==
  /\ pc[c] = "reverse"
  /\ CanMove("PAID", "REVERSED")
  /\ status' = "REVERSED"
  /\ Goto(c, "unbook")
  /\ UNCHANGED <<held, payable, leg, ledger, locals, faults, history>>

ReverseRefused(c) ==
  /\ pc[c] = "reverse"
  /\ ~CanMove("PAID", "REVERSED")
  /\ Done(c)
  /\ UNCHANGED <<status, held, payable, leg, ledger, faults, history>>

\* ... their reversals booked one by one ...
Unbooked(c) == {n \in legs[c] : <<n, "PAYOUT_REVERSAL">> \notin ledger}

PostReversal(c) ==
  /\ pc[c] = "unbook"
  /\ \E n \in Unbooked(c) : ledger' = ledger \cup {<<n, "PAYOUT_REVERSAL">>}
  /\ UNCHANGED <<status, held, payable, leg, pc, locals, faults, history>>

\* ... and the legs marked, before the payments are released.
MarkLegsReversed(c) ==
  /\ pc[c] = "unbook"
  /\ Unbooked(c) = {}
  /\ leg' = [n \in LegNumbers |->
               IF n \in legs[c] THEN [leg[n] EXCEPT !.status = "REVERSED"] ELSE leg[n]]
  /\ Goto(c, "release")
  /\ UNCHANGED <<status, held, payable, ledger, locals, faults, history>>

-----------------------------------------------------------------------------
\* A request dies with its process, or with an error from the database.
Crash(c) ==
  /\ pc[c] # "idle"
  /\ faults < MaxFaults
  /\ faults' = faults + 1
  /\ Done(c)
  /\ UNCHANGED <<status, held, payable, leg, ledger, history>>

Begin(c) ==
  \/ Build(c) \/ Approve(c) \/ Hold(c) \/ StartRebuild(c) \/ Cancel(c) \/ Abandon(c)
  \/ Retry(c) \/ StartPayout(c) \/ StartConfirm(c) \/ StartFail(c) \/ StartReverse(c)

Step(c) ==
  \/ Retotal(c) \/ Rebuild(c) \/ Release(c)
  \/ LookForLeg(c) \/ Park(c) \/ CountLegs(c) \/ TotalPaid(c)
  \/ OpenLeg(c) \/ OpenRefused(c) \/ MoveToProcessing(c)
  \/ FindLeg(c) \/ PayLeg(c) \/ PayRefused(c) \/ SumLegs(c)
  \/ PostPayout(c) \/ PostReserve(c) \/ Heal(c) \/ Finish(c)
  \/ FindBounced(c) \/ BounceLeg(c) \/ MarkFailed(c)
  \/ MarkReversed(c) \/ ReverseRefused(c) \/ PostReversal(c) \/ MarkLegsReversed(c)

Next == \/ \E c \in Callers : Begin(c) \/ Step(c) \/ Crash(c)
        \/ SweepStranded

\* A request that runs runs on, and the sweep is scheduled for ever.  Nothing
\* makes an admin act.
Fairness == WF_vars(SweepStranded) /\ \A c \in Callers : WF_vars(Step(c))

Spec == Init /\ [][Next]_vars /\ Fairness

-----------------------------------------------------------------------------
(* Properties.                                                             *)

\* A settlement is PAID only when its legs carried all that the request which
\* closed it took it to be for, however it was split, bounced, retried, rebuilt
\* and healed.
PaidInFull == status = "PAID" => PaidTotal >= closedFor

\* paySettlement.js: "so this cannot be used to open two NEFTs for the same
\* money".  When a leg is confirmed, what has gone out with it stays within the
\* payable the leg was opened against, however starts race, payments split and
\* rebuilds change the payable; only a start that read the total before another
\* leg was confirmed opens its own beyond it.
NeverOverpaid ==
  [][\A n \in LegNumbers :
       leg[n].status # "PAID" /\ leg'[n].status = "PAID" /\ basis[n] # 0
         => PaidTotal' <= basis[n]]_vars

Booked(n, type) == <<n, type>> \in ledger

\* The ledger follows the bank: it books a payout only of a leg that was paid, and
\* a reversal only of a settlement that was reversed.  As long as no request has
\* died it books every leg that was paid; after a confirmation died between its
\* leg and its row, the heal that closes the settlement books no row for it.
BooksFollowLegs ==
  \A n \in LegNumbers :
    /\ Booked(n, "PAYOUT") => leg[n].status \in {"PAID", "REVERSED"}
    /\ Booked(n, "PAYOUT_REVERSAL") => status = "REVERSED"
    /\ leg[n].status \in {"PAID", "REVERSED"} /\ faults = 0 =>
         Booked(n, "PAYOUT") \/ \E c \in Callers :
           num[c] = n /\ pc[c] \in {"sum", "book", "bookfinal"}

\* The payments of a settlement that will not be paid come back to the next
\* cycle, whatever died on the way.
ReleasedRowsComeBack == status \in Releasing ~> ~held

\* The payments stay locked until the settlement has closed, and a settlement
\* never reopens.
phase == IF status = "PAID" THEN "paid" ELSE IF Allowed[status] = {} THEN "closed" ELSE "open"

Lock == INSTANCE ClaimLock
ClaimLockSpec == Lock!Spec

-----------------------------------------------------------------------------
(* What the comments of the code say, and the code does not do.            *)

\* constants/settlement.js: "rather than money that is both paid and
\* claimable".  Payments come back only from a settlement that paid nothing, or
\* whose payout was reversed.
PaidMoneyIsNotClaimable ==
  ~held => \A n \in LegNumbers :
    leg[n].status \in {"PAID", "REVERSED"} => Booked(n, "PAYOUT_REVERSAL")
=============================================================================
