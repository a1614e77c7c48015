------------------------------- MODULE Refund -------------------------------
(***************************************************************************)
(* Returning one captured payment to its customer, through the gateway or  *)
(* by a transfer a person makes to a bank account: services/refunds        *)
(* (request, decide, execute, manual bank, the sweeps), the refund         *)
(* events of handleRazorpayWebhook.js, and what a landed refund changes    *)
(* (helpers/refunds).  A payment may be refunded in parts, by several      *)
(* requests one after the other, and by hand in the gateway's dashboard.   *)
(* Every await after a read that is used again is a step.  isOpen is       *)
(* written by every update of a status, always to Open of that status, so  *)
(* it is not a variable.                                                   *)
(***************************************************************************)
EXTENDS Integers, FiniteSets, FiniteSetsExt, Sequences

CONSTANTS MaxRequests,   \* bound: requests ever filed on the payment
          Callers,       \* requests of people, and webhook deliveries, in flight
          Sweeper,       \* reconcileRefunds, one at a time by its job lock
          Paid,          \* Transaction.paidAmount, in units
          MaxRefunds,    \* bound: refunds the gateway ever makes of the payment
          MaxByHand,     \* bound: those of them made in the dashboard
          ConcurrentPay, \* may two callers work at paying one request?
          SweepDue,      \* does the sweep come due while they are?
          UnknownTotals, \* may the sweep fail to fetch the payment?
          BankOverlaps,  \* may the gateway still act on a request that went to a bank?
          MaxLegs,       \* bound: transfers tried for a request, 0 for no bank route
          MaxFaults      \* bound: requests that die

ASSUME ConstantsAssumption ==
  /\ Sweeper \notin Callers
  /\ Paid \in Nat \ {0} /\ MaxRequests \in Nat /\ MaxRefunds \in Nat
  /\ MaxByHand \in Nat /\ MaxLegs \in Nat /\ MaxFaults \in Nat
  /\ ConcurrentPay \in BOOLEAN /\ SweepDue \in BOOLEAN /\ UnknownTotals \in BOOLEAN
  /\ BankOverlaps \in BOOLEAN

Workers == Callers \cup {Sweeper}
Requests == 1..MaxRequests
NoRequest == 0
Refunds == 1..MaxRefunds

VARIABLES
  status,    \* RefundRequest.status, "NONE" before it is filed
  amount,    \* its approvedAmount, or requestedAmount
  attempts,  \* its attemptCount, 1 standing for any more
  linked,    \* its razorpayRefundId
  refunded,  \* Transaction.amountRefunded
  full,      \* Transaction.isRefunded
  held,      \* Transaction.settlementHold
  undone,    \* what a full refund took back: the claim, its usage
  ledger,    \* requests whose ledger rows are posted
  gateway,   \* the gateway's refunds of the payment
  toBank,    \* requests whose method is MANUAL_BANK
  account,   \* requests with a customerBankAccountId
  legs,      \* PayoutLeg.status of a request's transfers, by legNumber
  misread,   \* history: requests the sweep failed while a transfer was under way
  pc, req, sum, gid, landed,  \* locals of a worker
  faults

request == <<status, amount, attempts, linked>>
payment == <<refunded, full, held>>
bank == <<toBank, account, legs, misread>>
locals == <<req, sum, gid, landed>>
vars == <<request, payment, undone, ledger, gateway, pc, locals, bank, faults>>

OpenStatuses == {"REQUESTED", "VENDOR_APPROVED", "VENDOR_TIMEOUT", "ADMIN_APPROVED",
                 "ADMIN_OVERRIDE", "PROCESSING", "AWAITING_BANK_DETAILS", "FAILED"}
ClosedStatuses == {"VENDOR_REJECTED", "ADMIN_REJECTED", "CANCELLED", "COMPLETED"}
Labels == {"idle", "create", "hold", "approve", "look", "count", "unhold",
           "claim", "lookup", "send", "fail", "adopt",
           "raise", "close", "apply", "readback", "redeemed", "usage", "book",
           "repair", "inflight", "fetch", "bounced",
           "leg", "move", "confirm", "total", "bounce", "unpaid"}

TypeOK ==
  /\ status \in [Requests -> OpenStatuses \cup ClosedStatuses \cup {"NONE"}]
  /\ amount \in [Requests -> 0..Paid]
  /\ \A r \in Requests : amount[r] = 0 <=> status[r] = "NONE"
  /\ attempts \in [Requests -> 0..1]
  /\ linked \in [Requests -> 0..MaxRefunds]
  /\ refunded \in Nat
  /\ full \in BOOLEAN /\ held \in BOOLEAN
  /\ undone \subseteq {"claim", "usage"}
  /\ ledger \subseteq Requests
  /\ gateway \in [Refunds -> [status : {"NONE", "CREATED", "PROCESSED", "FAILED"},
                              request : 0..MaxRequests,
                              amount : 0..Paid, total : Nat]]
  /\ toBank \subseteq Requests /\ account \subseteq toBank
  /\ DOMAIN legs = Requests
  /\ \A r \in Requests : /\ legs[r] \in Seq({"INITIATED", "PAID", "FAILED"})
                         /\ Len(legs[r]) <= MaxLegs
  /\ misread \subseteq Requests
  /\ pc \in [Workers -> Labels]
  /\ req \in [Workers -> 0..MaxRequests]
  /\ sum \in [Workers -> Nat]
  /\ gid \in [Workers -> 0..Max({MaxRefunds, MaxLegs})]
  /\ landed \in [Workers -> BOOLEAN]
  /\ faults \in 0..MaxFaults

Init ==
  /\ status = [r \in Requests |-> "NONE"]
  /\ amount = [r \in Requests |-> 0]
  /\ attempts = [r \in Requests |-> 0]
  /\ linked = [r \in Requests |-> 0]
  /\ refunded = 0 /\ full = FALSE /\ held = FALSE
  /\ undone = {} /\ ledger = {}
  /\ gateway = [g \in Refunds |->
       [status |-> "NONE", request |-> NoRequest, amount |-> 0, total |-> 0]]
  /\ toBank = {} /\ account = {}
  /\ legs = [r \in Requests |-> <<>>] /\ misread = {}
  /\ pc = [w \in Workers |-> "idle"]
  /\ req = [w \in Workers |-> NoRequest]
  /\ sum = [w \in Workers |-> 0]
  /\ gid = [w \in Workers |-> 0]
  /\ landed = [w \in Workers |-> FALSE]
  /\ faults = 0

Goto(w, label) == pc' = [pc EXCEPT ![w] = label]

\* A worker that ends forgets its locals, and a sum once it is used.
Done(w) ==
  /\ Goto(w, "idle")
  /\ req' = [req EXCEPT ![w] = NoRequest]
  /\ sum' = [sum EXCEPT ![w] = 0]
  /\ gid' = [gid EXCEPT ![w] = 0]
  /\ landed' = [landed EXCEPT ![w] = FALSE]

\* A unique index on the transaction of the open requests: a write that would
\* open a second one throws.
MayOpen(r) == \A s \in Requests \ {r} : status[s] \notin OpenStatuses
SomeOpen == \E r \in Requests : status[r] \in OpenStatuses

SetStatus(r, s) == status' = [status EXCEPT ![r] = s]

GatewayIs(s) == {g \in Refunds : gateway[g].status = s}
Amounts == [g \in Refunds |-> gateway[g].amount]
AmountOf(gs) == SumFunctionOnSet(Amounts, gs)
NextRefund == Min(GatewayIs("NONE"))
Sent == AmountOf(GatewayIs("PROCESSED"))

\* The transfers of a request that are on their way, or arrived.
Legs(r, s) == {n \in DOMAIN legs[r] : legs[r][n] = s}
Transfers == [r \in Requests |-> Cardinality(Legs(r, "PAID")) * amount[r]]
Transferred == SumFunctionOnSet(Transfers, Requests)
Returned == Sent + Transferred

-----------------------------------------------------------------------------
(* requestRefund.                                                          *)

Fresh == {r \in Requests : status[r] = "NONE"}

\* The request is sized against what the payment read now says is left.
StartRequest(c) ==
  /\ pc[c] = "idle"
  /\ Fresh # {} /\ "claim" \notin undone /\ refunded < Paid
  /\ sum' = [sum EXCEPT ![c] = Paid - refunded]
  /\ Goto(c, "create")
  /\ UNCHANGED <<request, payment, undone, ledger, gateway, req, gid, landed, bank, faults>>

\* Mutant: a request for nothing is taken.
AskableOrNothing(left) == 0..left

\* calculateRefundSplit throws on nothing, and over the ceiling.
Askable(left) == 1..left

\* With a request already open, the customer is handed that one.
CreateRequest(c) ==
  /\ pc[c] = "create"
  /\ IF SomeOpen \/ Fresh = {}
       THEN Done(c) /\ UNCHANGED request
       ELSE /\ SetStatus(Min(Fresh), "REQUESTED")
            /\ \E a \in Askable(sum[c]) : amount' = [amount EXCEPT ![Min(Fresh)] = a]
            /\ Goto(c, "hold")
            /\ sum' = [sum EXCEPT ![c] = 0]
            /\ UNCHANGED <<attempts, linked, req, gid, landed>>
  /\ UNCHANGED <<payment, undone, ledger, gateway, bank, faults>>

HoldPayment(c) ==
  /\ pc[c] = "hold"
  /\ held' = TRUE
  /\ Done(c)
  /\ UNCHANGED <<request, refunded, full, undone, ledger, gateway, bank, faults>>

-----------------------------------------------------------------------------
(* Decisions: decideRefund.js, the first half of executeRefund.js, and the *)
(* escalation of refundJobs.js.                                            *)

AdminCanDecide == {"VENDOR_APPROVED", "VENDOR_REJECTED", "VENDOR_TIMEOUT"}
OverrideFrom == {"VENDOR_REJECTED", "VENDOR_TIMEOUT"}
Cancellable == {"REQUESTED", "VENDOR_APPROVED", "VENDOR_TIMEOUT"}

\* The vendor approves what was asked or less, under the ceiling read now.
StartApprove(c) ==
  /\ pc[c] = "idle"
  /\ \E r \in Requests :
       /\ status[r] = "REQUESTED"
       /\ \E a \in Askable(Min({amount[r], Paid - refunded})) :
            sum' = [sum EXCEPT ![c] = a]
       /\ req' = [req EXCEPT ![c] = r]
  /\ Goto(c, "approve")
  /\ UNCHANGED <<request, payment, undone, ledger, gateway, gid, landed, bank, faults>>

ApproveAsVendor(c) ==
  /\ pc[c] = "approve"
  /\ IF status[req[c]] = "REQUESTED"
       THEN SetStatus(req[c], "VENDOR_APPROVED")
            /\ amount' = [amount EXCEPT ![req[c]] = sum[c]]
       ELSE UNCHANGED <<status, amount>>
  /\ Done(c)
  /\ UNCHANGED <<attempts, linked, payment, undone, ledger, gateway, bank, faults>>

EscalateStale ==
  /\ \E r \in Requests, s \in {"VENDOR_TIMEOUT", "VENDOR_APPROVED"} :
       status[r] = "REQUESTED" /\ SetStatus(r, s)
  /\ UNCHANGED <<amount, attempts, linked, payment, undone, ledger, gateway, pc, locals,
                 bank, faults>>

\* An admin may bring back a request the vendor declined, unless a newer one is
\* open.
ApproveAsAdmin ==
  /\ \E r \in Requests :
       /\ status[r] \in AdminCanDecide /\ MayOpen(r)
       /\ SetStatus(r, IF status[r] \in OverrideFrom THEN "ADMIN_OVERRIDE"
                                                     ELSE "ADMIN_APPROVED")
  /\ UNCHANGED <<amount, attempts, linked, payment, undone, ledger, gateway, pc, locals,
                 bank, faults>>

\* The vendor or the admin declines it, or the customer withdraws it, and the
\* hold is released.
Close(c, from, to) ==
  /\ pc[c] = "idle"
  /\ \E r \in Requests :
       /\ status[r] \in from
       /\ SetStatus(r, to)
       /\ req' = [req EXCEPT ![c] = r]
  /\ Goto(c, "look")
  /\ UNCHANGED <<amount, attempts, linked, payment, undone, ledger, gateway, sum, gid,
                 landed, bank, faults>>

RejectAsVendor(c) == Close(c, {"REQUESTED"}, "VENDOR_REJECTED")
RejectAsAdmin(c) == Close(c, AdminCanDecide, "ADMIN_REJECTED")
CancelRefund(c) == Close(c, Cancellable, "CANCELLED")

-----------------------------------------------------------------------------
(* releaseSettlementHold, for a request that closed, or a part that landed *)
(* and goes on to its ledger rows.                                         *)

Released(w) == IF landed[w] THEN Goto(w, "book") /\ UNCHANGED locals ELSE Done(w)

LookAtHold(w) ==
  /\ pc[w] = "look"
  /\ IF held THEN Goto(w, "count") /\ UNCHANGED locals ELSE Released(w)
  /\ UNCHANGED <<request, payment, undone, ledger, gateway, bank, faults>>

CountOthers(w) ==
  /\ pc[w] = "count"
  /\ IF MayOpen(req[w]) THEN Goto(w, "unhold") /\ UNCHANGED locals ELSE Released(w)
  /\ UNCHANGED <<request, payment, undone, ledger, gateway, bank, faults>>

Unhold(w) ==
  /\ pc[w] = "unhold"
  /\ held' = FALSE
  /\ Released(w)
  /\ UNCHANGED <<request, refunded, full, undone, ledger, gateway, bank, faults>>

-----------------------------------------------------------------------------
(* executeRefund.                                                          *)

Ready == {"ADMIN_APPROVED", "ADMIN_OVERRIDE", "FAILED", "PROCESSING"}

\* Assumed of the admins, and checked by no handler: one at a time pays a request,
\* by either route.
Paying(w) == pc[w] \in {"claim", "lookup", "send", "fail", "adopt",
                       "leg", "move", "confirm", "bounce", "unpaid"}
MayPay(r) == ConcurrentPay \/ ~\E w \in Callers : Paying(w) /\ req[w] = r

\* Mutant: the frozen amount is sent as it is.
StillOwedAtFiling(r) == TRUE

\* Checked again against what has already gone back.
StillOwed(r) == amount[r] <= Paid - refunded

StartExecute(c) ==
  /\ pc[c] = "idle"
  /\ \E r \in Requests :
       /\ status[r] \in Ready /\ r \notin toBank /\ StillOwed(r)
       /\ MayPay(r)
       /\ req' = [req EXCEPT ![c] = r]
  /\ Goto(c, "claim")
  /\ UNCHANGED <<request, payment, undone, ledger, gateway, sum, gid, landed, bank, faults>>

\* Mutant: every attempt is taken for the first.
NeverAsks(r) == FALSE

\* An earlier attempt may have reached the gateway.
AsksFirst(r) == attempts[r] > 0

\* The claim and the count, before anything leaves.
ClaimExecution(c) ==
  /\ pc[c] = "claim"
  /\ LET r == req[c] IN
     IF status[r] \in Ready /\ MayOpen(r)
       THEN /\ SetStatus(r, "PROCESSING")
            /\ attempts' = [attempts EXCEPT ![r] = 1]
            /\ Goto(c, IF AsksFirst(r) THEN "lookup" ELSE "send")
            /\ UNCHANGED <<amount, linked, locals>>
       ELSE Done(c) /\ UNCHANGED request
  /\ UNCHANGED <<payment, undone, ledger, gateway, bank, faults>>

\* findOurRefund: one that carries our note and is not dead.
OurRefunds(r) == {g \in GatewayIs("CREATED") \cup GatewayIs("PROCESSED") :
                    gateway[g].request = r}

LookUp(c) ==
  /\ pc[c] = "lookup"
  /\ IF OurRefunds(req[c]) = {}
       THEN Goto(c, "send") /\ UNCHANGED gid
       ELSE /\ \E g \in OurRefunds(req[c]) : gid' = [gid EXCEPT ![c] = g]
            /\ Goto(c, "adopt")
  /\ UNCHANGED <<request, payment, undone, ledger, gateway, req, sum, landed, bank, faults>>

\* payments.refund: the gateway makes it, and answers or not ...
SendRefund(c) ==
  /\ pc[c] = "send"
  /\ GatewayIs("NONE") # {}
  /\ gateway' = [gateway EXCEPT ![NextRefund].status = "CREATED",
                                ![NextRefund].request = req[c],
                                ![NextRefund].amount = amount[req[c]]]
  /\ \/ Goto(c, "adopt") /\ gid' = [gid EXCEPT ![c] = NextRefund]
     \/ Goto(c, "fail") /\ UNCHANGED gid
  /\ UNCHANGED <<request, payment, undone, ledger, req, sum, landed, bank, faults>>

\* ... or does not.
SendFails(c) ==
  /\ pc[c] = "send"
  /\ Goto(c, "fail")
  /\ UNCHANGED <<request, payment, undone, ledger, gateway, locals, bank, faults>>

\* By id alone, whatever has happened to the request since.
MarkFailed(c) ==
  /\ pc[c] = "fail"
  /\ IF MayOpen(req[c]) THEN SetStatus(req[c], "FAILED") ELSE UNCHANGED status
  /\ Done(c)
  /\ UNCHANGED <<amount, attempts, linked, payment, undone, ledger, gateway, bank, faults>>

Adopt(c) ==
  /\ pc[c] = "adopt"
  /\ IF MayOpen(req[c])
       THEN /\ SetStatus(req[c], "PROCESSING")
            /\ linked' = [linked EXCEPT ![req[c]] = gid[c]]
       ELSE UNCHANGED <<status, linked>>
  /\ Done(c)
  /\ UNCHANGED <<amount, attempts, payment, undone, ledger, gateway, bank, faults>>

-----------------------------------------------------------------------------
(* manualBankRefund.js: the customer is asked for an account, an admin     *)
(* makes the transfer and types in what the bank said.                     *)

\* What no handler checks: the gateway has done with a request before it goes
\* to a bank account, and its events of it have all been handled.
GatewayActsOn(r) == BankOverlaps \/ r \notin toBank
MayGoToBank(r) ==
  BankOverlaps \/ (OurRefunds(r) = {} /\ \A w \in Workers : req[w] # r)

RequestBankDetails ==
  /\ MaxLegs > 0
  /\ \E r \in Requests :
       /\ status[r] = "FAILED" /\ MayGoToBank(r)
       /\ SetStatus(r, "AWAITING_BANK_DETAILS")
       /\ toBank' = toBank \cup {r}
  /\ UNCHANGED <<amount, attempts, linked, payment, undone, ledger, gateway, account, legs,
                 misread, pc, locals, faults>>

AttachBank ==
  /\ \E r \in Requests :
       /\ status[r] = "AWAITING_BANK_DETAILS"
       /\ SetStatus(r, "ADMIN_APPROVED")
       /\ account' = account \cup {r}
  /\ UNCHANGED <<amount, attempts, linked, payment, undone, ledger, gateway, toBank, legs,
                 misread, pc, locals, faults>>

BankReady == {"ADMIN_APPROVED", "ADMIN_OVERRIDE", "FAILED"}

\* payRefundToBank counts the legs and opens the next one, unless one is in
\* flight by the unique index, and then moves the request.
StartTransfer(c) ==
  /\ pc[c] = "idle"
  /\ \E r \in account :
       /\ status[r] \in BankReady /\ Len(legs[r]) < MaxLegs /\ MayPay(r)
       /\ req' = [req EXCEPT ![c] = r]
  /\ Goto(c, "leg")
  /\ UNCHANGED <<request, payment, undone, ledger, gateway, sum, gid, landed, bank, faults>>

OpenLeg(c) ==
  /\ pc[c] = "leg"
  /\ LET r == req[c] IN
     IF Legs(r, "INITIATED") = {} /\ Len(legs[r]) < MaxLegs
       THEN /\ legs' = [legs EXCEPT ![r] = Append(@, "INITIATED")]
            /\ Goto(c, "move") /\ UNCHANGED locals
       ELSE Done(c) /\ UNCHANGED legs
  /\ UNCHANGED <<request, payment, undone, ledger, gateway, toBank, account, misread, faults>>

MoveTransfer(c) ==
  /\ pc[c] = "move"
  /\ IF status[req[c]] \in BankReady
       THEN SetStatus(req[c], "PROCESSING") /\ attempts' = [attempts EXCEPT ![req[c]] = 1]
       ELSE UNCHANGED <<status, attempts>>
  /\ Done(c)
  /\ UNCHANGED <<amount, linked, payment, undone, ledger, gateway, bank, faults>>

\* confirmRefundPayout and failRefundPayout find the leg in flight.
FindTransfer(c, next) ==
  /\ pc[c] = "idle"
  /\ \E r \in Requests :
       /\ status[r] = "PROCESSING" /\ Legs(r, "INITIATED") # {} /\ MayPay(r)
       /\ req' = [req EXCEPT ![c] = r]
       /\ gid' = [gid EXCEPT ![c] = Max(Legs(r, "INITIATED"))]
  /\ Goto(c, next)
  /\ UNCHANGED <<request, payment, undone, ledger, gateway, sum, landed, bank, faults>>

StartConfirm(c) == FindTransfer(c, "confirm")
StartBounce(c) == FindTransfer(c, "bounce")

InitiatedLeg(c) == legs[req[c]][gid[c]] = "INITIATED"
MoveLeg(c, s) == legs' = [legs EXCEPT ![req[c]][gid[c]] = s]

ConfirmLeg(c) ==
  /\ pc[c] = "confirm"
  /\ IF InitiatedLeg(c)
       THEN MoveLeg(c, "PAID") /\ Goto(c, "total") /\ UNCHANGED locals
       ELSE Done(c) /\ UNCHANGED legs
  /\ UNCHANGED <<request, payment, undone, ledger, gateway, toBank, account, misread, faults>>

\* There is no gateway total: the leg is added to what is read now.
AddTransfer(c) ==
  /\ pc[c] = "total"
  /\ sum' = [sum EXCEPT ![c] = refunded + amount[req[c]]]
  /\ gid' = [gid EXCEPT ![c] = 0]
  /\ Goto(c, "raise")
  /\ UNCHANGED <<request, payment, undone, ledger, gateway, req, landed, bank, faults>>

\* The answer to the leg's update is not looked at.
BounceLeg(c) ==
  /\ pc[c] = "bounce"
  /\ IF InitiatedLeg(c) THEN MoveLeg(c, "FAILED") ELSE UNCHANGED legs
  /\ Goto(c, "unpaid")
  /\ UNCHANGED <<request, payment, undone, ledger, gateway, toBank, account, misread, locals,
                 faults>>

FailTransfer(c) ==
  /\ pc[c] = "unpaid"
  /\ IF status[req[c]] = "PROCESSING" THEN SetStatus(req[c], "FAILED") ELSE UNCHANGED status
  /\ Done(c)
  /\ UNCHANGED <<amount, attempts, linked, payment, undone, ledger, gateway, bank, faults>>

\* releaseTransactionHold, when the customer has long not answered.
ReleaseStaleHold ==
  /\ held
  /\ \E r \in Requests : status[r] = "AWAITING_BANK_DETAILS"
  /\ held' = FALSE
  /\ UNCHANGED <<request, refunded, full, undone, ledger, gateway, pc, locals, bank, faults>>

-----------------------------------------------------------------------------
(* The gateway, and the events it reports, in any order and any number of  *)
(* times.  An event carries the payment as it was, with its running total. *)

Process(g) ==
  /\ gateway[g].status = "CREATED"
  /\ gateway' = [gateway EXCEPT ![g].status = "PROCESSED",
                                ![g].total = Sent + gateway[g].amount]
  /\ UNCHANGED <<request, payment, undone, ledger, pc, locals, bank, faults>>

Bounce(g) ==
  /\ gateway[g].status = "CREATED"
  /\ gateway' = [gateway EXCEPT ![g].status = "FAILED"]
  /\ UNCHANGED <<request, payment, undone, ledger, pc, locals, bank, faults>>

\* Somebody refunds in the dashboard what the gateway has left.
RefundByHand ==
  /\ GatewayIs("NONE") # {}
  /\ Cardinality({h \in Refunds \ GatewayIs("NONE") : gateway[h].request = NoRequest})
       < MaxByHand
  /\ \E a \in 1..Paid :
       /\ a + AmountOf(GatewayIs("CREATED") \cup GatewayIs("PROCESSED")) <= Paid
       /\ gateway' = [gateway EXCEPT ![NextRefund].status = "CREATED",
                                     ![NextRefund].amount = a]
  /\ UNCHANGED <<request, payment, undone, ledger, pc, locals, bank, faults>>

\* refund.created.
CreatedEvent(g) ==
  /\ gateway[g].status # "NONE" /\ gateway[g].request # NoRequest
  /\ GatewayActsOn(gateway[g].request)
  /\ LET r == gateway[g].request IN
     /\ status[r] # "COMPLETED" /\ MayOpen(r)
     /\ SetStatus(r, "PROCESSING")
     /\ linked' = [linked EXCEPT ![r] = g]
  /\ UNCHANGED <<amount, attempts, payment, undone, ledger, gateway, pc, locals, bank, faults>>

\* refund.failed, for a request the money of which has not landed.
FailedEvent(g) ==
  /\ gateway[g].status = "FAILED" /\ gateway[g].request # NoRequest
  /\ GatewayActsOn(gateway[g].request)
  /\ status[gateway[g].request] \in Ready /\ MayOpen(gateway[g].request)
  /\ SetStatus(gateway[g].request, "FAILED")
  /\ UNCHANGED <<amount, attempts, linked, payment, undone, ledger, gateway, pc, locals,
                 bank, faults>>

\* refund.processed of a request.
ProcessedEvent(c, g) ==
  /\ pc[c] = "idle"
  /\ gateway[g].status = "PROCESSED" /\ gateway[g].request # NoRequest
  /\ req' = [req EXCEPT ![c] = gateway[g].request]
  /\ sum' = [sum EXCEPT ![c] = gateway[g].total]
  /\ Goto(c, "raise")
  /\ UNCHANGED <<request, payment, undone, ledger, gateway, gid, landed, bank, faults>>

\* Mutant: the flag is computed from what this delivery carries.
FlagOfDelivery(total) == total >= Paid

\* One pipeline: the flag follows the stored total, which only rises.
FlagOf(total) == Max({refunded, total}) >= Paid

\* refund.processed of a refund made by hand.
ByHandEvent(g) ==
  /\ gateway[g].status = "PROCESSED" /\ gateway[g].request = NoRequest
  /\ refunded' = Max({refunded, gateway[g].total})
  /\ full' = FlagOf(gateway[g].total)
  /\ held' = TRUE
  /\ UNCHANGED <<request, undone, ledger, gateway, pc, locals, bank, faults>>

-----------------------------------------------------------------------------
(* applyRefundCompletion.                                                  *)

\* Without the gateway's total (sum 0), this refund is added to the stored one.
Cumulative(w) == IF sum[w] = 0 THEN refunded + amount[req[w]] ELSE sum[w]

\* The total is raised before the request closes and another can be sized.
RaiseTotal(w) ==
  /\ pc[w] = "raise"
  /\ refunded' = Max({refunded, Cumulative(w)})
  /\ Goto(w, "close")
  /\ UNCHANGED <<request, full, held, undone, ledger, gateway, locals, bank, faults>>

Completable == {"PROCESSING", "ADMIN_APPROVED", "ADMIN_OVERRIDE", "FAILED"}

CloseCompleted(w) ==
  /\ pc[w] = "close"
  /\ status[req[w]] \in Completable
  /\ SetStatus(req[w], "COMPLETED")
  /\ Goto(w, "apply")
  /\ UNCHANGED <<amount, attempts, linked, payment, undone, ledger, gateway, locals, bank,
                 faults>>

\* A redelivery finds it closed, and posts again what a crash may have lost.
AlreadyCompleted(w) ==
  /\ pc[w] = "close"
  /\ status[req[w]] \notin Completable
  /\ ledger' = IF status[req[w]] = "COMPLETED" THEN ledger \cup {req[w]} ELSE ledger
  /\ Done(w)
  /\ UNCHANGED <<request, payment, undone, gateway, bank, faults>>

ApplyTotal(w) ==
  /\ pc[w] = "apply"
  /\ refunded' = Max({refunded, Cumulative(w)})
  /\ full' = FlagOf(Cumulative(w))
  /\ held' = TRUE
  /\ sum' = [sum EXCEPT ![w] = 0]
  /\ Goto(w, "readback")
  /\ UNCHANGED <<request, undone, ledger, gateway, req, gid, landed, bank, faults>>

\* Mutant: any refund takes the claim back.
AnyRefund == TRUE

FullyRefunded == full

\* A partial refund releases the rest of the sale; a full one takes back the
\* claim with its usage slot.
ReadBack(w) ==
  /\ pc[w] = "readback"
  /\ Goto(w, IF FullyRefunded THEN "redeemed" ELSE "look")
  /\ landed' = [landed EXCEPT ![w] = TRUE]
  /\ UNCHANGED <<request, payment, undone, ledger, gateway, req, sum, gid, bank, faults>>

RefundClaim(w) ==
  /\ pc[w] = "redeemed"
  /\ undone' = undone \cup {"claim"}
  /\ Goto(w, "usage")
  /\ UNCHANGED <<request, payment, ledger, gateway, locals, bank, faults>>

ReverseUsage(w) ==
  /\ pc[w] = "usage"
  /\ undone' = undone \cup {"usage"}
  /\ Goto(w, "book")
  /\ UNCHANGED <<request, payment, ledger, gateway, locals, bank, faults>>

PostRefund(w) ==
  /\ pc[w] = "book"
  /\ ledger' = ledger \cup {req[w]}
  /\ Done(w)
  /\ UNCHANGED <<request, payment, undone, gateway, bank, faults>>

-----------------------------------------------------------------------------
(* reconcileRefunds.                                                       *)

\* Mutant: only requests that wait for a decision are looked at.
MissingHoldOfRequested == ~held /\ \E r \in Requests : status[r] = "REQUESTED"

MissingHold == ~held /\ SomeOpen
InFlight == {r \in Requests : status[r] = "PROCESSING" /\ linked[r] # 0}

StartSweep ==
  /\ SweepDue /\ pc[Sweeper] = "idle"
  /\ MissingHold \/ InFlight # {}
  /\ Goto(Sweeper, IF MissingHold THEN "repair" ELSE "inflight")
  /\ UNCHANGED <<request, payment, undone, ledger, gateway, locals, bank, faults>>

RepairHold ==
  /\ pc[Sweeper] = "repair"
  /\ held' = TRUE
  /\ Goto(Sweeper, "inflight")
  /\ UNCHANGED <<request, refunded, full, undone, ledger, gateway, locals, bank, faults>>

PickInFlight ==
  /\ pc[Sweeper] = "inflight"
  /\ IF InFlight = {}
       THEN Done(Sweeper)
       ELSE /\ \E r \in InFlight : /\ req' = [req EXCEPT ![Sweeper] = r]
                                   /\ gid' = [gid EXCEPT ![Sweeper] = linked[r]]
            /\ Goto(Sweeper, "fetch")
            /\ UNCHANGED <<sum, landed>>
  /\ UNCHANGED <<request, payment, undone, ledger, gateway, bank, faults>>

\* The gateway's answer, and the payment's total when that can be fetched.
FetchRefund ==
  /\ pc[Sweeper] = "fetch"
  /\ LET answer == gateway[gid[Sweeper]].status IN
     \/ /\ answer = "PROCESSED"
        /\ \E total \in {Sent} \cup IF UnknownTotals THEN {0} ELSE {} :
             sum' = [sum EXCEPT ![Sweeper] = total]
        /\ Goto(Sweeper, "raise")
        /\ UNCHANGED <<req, gid, landed>>
     \/ answer = "FAILED" /\ Goto(Sweeper, "bounced") /\ UNCHANGED locals
     \/ answer = "CREATED" /\ Done(Sweeper)
  /\ UNCHANGED <<request, payment, undone, ledger, gateway, bank, faults>>

\* Mutant: the sweep leaves it to the webhook.
LeftProcessing(r) == FALSE

SweptAsFailed(r) == status[r] = "PROCESSING"

SweepFailed ==
  /\ pc[Sweeper] = "bounced"
  /\ IF SweptAsFailed(req[Sweeper])
       THEN /\ SetStatus(req[Sweeper], "FAILED")
            /\ misread' = misread \cup ({req[Sweeper]} \cap toBank)
       ELSE UNCHANGED <<status, misread>>
  /\ Done(Sweeper)
  /\ UNCHANGED <<amount, attempts, linked, payment, undone, ledger, gateway, toBank, account,
                 legs, faults>>

-----------------------------------------------------------------------------
\* A worker dies with its process, or with an error nothing catches.
Crash(w) ==
  /\ pc[w] # "idle"
  /\ faults < MaxFaults
  /\ faults' = faults + 1
  /\ Done(w)
  /\ UNCHANGED <<request, payment, undone, ledger, gateway, bank>>

Begin(c) ==
  \/ StartRequest(c) \/ StartApprove(c) \/ StartExecute(c)
  \/ RejectAsVendor(c) \/ RejectAsAdmin(c) \/ CancelRefund(c)
  \/ StartTransfer(c) \/ StartConfirm(c) \/ StartBounce(c)
  \/ \E g \in Refunds : ProcessedEvent(c, g)

Step(c) ==
  \/ CreateRequest(c) \/ HoldPayment(c) \/ ApproveAsVendor(c)
  \/ ClaimExecution(c) \/ LookUp(c) \/ SendRefund(c) \/ SendFails(c)
  \/ MarkFailed(c) \/ Adopt(c)
  \/ OpenLeg(c) \/ MoveTransfer(c) \/ ConfirmLeg(c) \/ AddTransfer(c)
  \/ BounceLeg(c) \/ FailTransfer(c)

Land(w) ==
  \/ RaiseTotal(w) \/ CloseCompleted(w) \/ AlreadyCompleted(w) \/ ApplyTotal(w)
  \/ ReadBack(w) \/ RefundClaim(w) \/ ReverseUsage(w) \/ PostRefund(w)
  \/ LookAtHold(w) \/ CountOthers(w) \/ Unhold(w)

Sweep == RepairHold \/ PickInFlight \/ FetchRefund \/ SweepFailed \/ Land(Sweeper)

Outside ==
  \/ EscalateStale \/ ApproveAsAdmin \/ RefundByHand
  \/ RequestBankDetails \/ AttachBank \/ ReleaseStaleHold
  \/ \E g \in Refunds : \/ Process(g) \/ Bounce(g)
                        \/ CreatedEvent(g) \/ FailedEvent(g) \/ ByHandEvent(g)

Next ==
  \/ \E c \in Callers : Begin(c) \/ Step(c) \/ Land(c)
  \/ \E w \in Workers : Crash(w)
  \/ StartSweep \/ Sweep \/ Outside

\* The sweep is scheduled for ever, and runs on once it runs.
Fairness == WF_vars(StartSweep) /\ WF_vars(Sweep)

Spec == Init /\ [][Next]_vars /\ Fairness

-----------------------------------------------------------------------------
(* Properties.                                                             *)

\* The gateway is never asked for more than was paid, whatever it would refuse
\* itself: a request is sized, sent and closed against what has gone back.
RequestsWithinPaid ==
  AmountOf(UNION {OurRefunds(r) : r \in Requests}) <= Paid

\* A retry, after a crash or an answer that never came, or a bounced transfer,
\* sends no money twice, as long as one admin at a time pays a request (MayPay)
\* and the gateway is done with it before it goes to a bank (MayGoToBank).  The
\* sweep itself breaks it: it does not ask by which route a request is paid, and
\* fails one whose transfer is under way, or landed and is not yet on the books,
\* on the word of the dead refund the request still carries.
MoneyLeavesOnce ==
  \A r \in Requests \ misread :
    Cardinality(OurRefunds(r)) + Cardinality(Legs(r, "INITIATED") \cup Legs(r, "PAID")) <= 1

\* A request that is completed or booked has had its money.
BookedWasReturned ==
  \A r \in Requests :
    status[r] = "COMPLETED" \/ r \in ledger =>
      \/ \E g \in GatewayIs("PROCESSED") : gateway[g].request = r
      \/ Legs(r, "PAID") # {}

\* The claim with its usage slot is taken back only when all of the payment shows as
\* returned.
UndoneWhenFull == undone # {} => full /\ refunded >= Paid

\* The books follow the gateway and the bank: the payment never shows more returned than
\* was, and what is completed, booked or taken back rests on money that went back.
BooksMatchGateway == refunded <= Returned /\ BookedWasReturned /\ UndoneWhenFull

\* A payment fully refunded never reads as partly refunded again, in whatever
\* order its refunds are reported.
FullIsFinal == [][full => full']_vars

\* A payment with an open request is held in the end, whatever died on the way.
OpenRefundIsHeld == SomeOpen /\ ~held ~> held \/ ~SomeOpen

\* A refund the gateway has finished with does not stay PROCESSING, unless its
\* request goes to a bank account instead.
Finished(r) == /\ r \notin toBank /\ linked[r] # 0
               /\ gateway[linked[r]].status \in {"PROCESSED", "FAILED"}
ProcessingEnds ==
  \A r \in Requests :
    status[r] = "PROCESSING" /\ Finished(r) ~> status[r] # "PROCESSING" \/ ~Finished(r)
=============================================================================
