# Verification of the Backend2.0 money paths

Backend2.0 is a Node.js / MongoDB server for a voucher marketplace. Customers
claim vouchers and pay through Razorpay; vendors are paid out on a cycle;
promo codes, refunds, disputes and ledgers sit in between. There are no
multi-document transactions: every handler is a chain of single-document
updates, each conditional on what the previous read saw, and the safety of the
money rests on unique indexes, conditional updates and background sweeps that
repair what a crash left behind. This directory holds TLA+ models of those
chains, the model-checking runs over them, and machine-checked proofs about
each of the eight.

All paths below are relative to `src/server/`.

## Inventory

| Component | State it keeps | Operations | What is hard | What makes it correct |
|---|---|---|---|---|
| Voucher claim settlement (`helpers/voucherClaims/settleVoucherClaimPayment.js`) | `Transaction.verified`, `settlementStage`, `razorpayPaymentId`, `invoiceId`, `duplicateCapturePaymentIds`; `VoucherClaim.status`; `VoucherUsage`; capture `LedgerEntry` rows | settle (stages 0-3), resume | callback, webhook and resume sweep settle the same order at once; a crash between any two stages; two payments of one order | one payer per order; a COMPLETE settle has all its records; no second capture is lost; a begun settle completes |
| Claim checkout (`services/voucherClaims/`) | `VoucherClaim` with its usage slot, `Transaction` with its idempotency key | create order, verify | unique-index races on the usage slot and on the idempotency key; unwinding a half-made checkout; taps and retries that are handed what another tap made | a second redemption of a once-per-user offer is flagged; one order per key; a refused or abandoned checkout holds nothing; what is handed out can be paid |
| Webhook deliveries (`services/transactions/handleRazorpayWebhook.js`) | `WebhookEvent.status` | store, process, take over a stale row, replay | redelivery, concurrent takeover, out-of-order events | an answered capture is accounted for |
| Sweeps (`services/transactions/settlementJobs.js`, `services/voucherClaims/claimJobs.js`) | none of their own | resume incomplete settles, cancel stale claims, delete their transactions | they act on rows read some time before | a settled transaction is never swept |
| Promo code uses (`helpers/promoCodes/promoReservation.js`) | `PromoCode.usedCount`, `PromoCodeUsage` rows | reserve, commit, release, release on refund, stale sweep | counter and row move in separate calls; late payments after the reservation lapsed | the code is not oversold; the counter never falls behind the rows; abandoned uses come back |
| Refunds (`services/refunds/`, `helpers/refunds/`) | `RefundRequest.status`, payout legs, `Transaction.refundedAmount`, settlement hold | request, decide, execute, retry, adopt, manual bank refund, complete by webhook | gateway timeouts with unknown outcome, webhook overtaking the call's own answer | money returned once; a completed refund has had its money; a full refund stays full; the payment of an open request is held |
| Vendor payout (`services/settlements/paySettlement.js`, `helpers/settlements/transitionSettlement.js`) | `Settlement.status`, `PayoutLeg`, ledger | start, confirm, fail, retry, reverse, heal | partial payment, bounce, crash between leg and ledger, split confirmation | payments are released only once the settlement has closed; PAID means paid; what goes out stays within the payable; the ledger matches the legs |
| Settlement build and approval (`services/settlements/buildSettlements.js`, `approveSettlement.js`, `helpers/settlements/settlementClaims.js`) | `settlementId` on payments, refunds, disputes, reserves; totals; `needsRevalidation` | build, approve, hold, rebuild, cancel, abandon, taint | a refund or dispute landing between build and payout | every row is in at most one live settlement; a tainted settlement is not paid unrevalidated |
| Disputes (`handleRazorpayWebhook.js`, `services/transactions/disputeJobs.js`) | `Dispute.status`, settlement hold, ledger | created, under review, won, lost | events out of order | the ledger agrees with the final verdict |
| Ledger (`helpers/ledger/`) | `LedgerEntry` rows, unique per source and kind | post capture, refund, chargeback, payout rows | a crash between rows; reposting | each row once, all rows in the end |
| Subscriptions (`services/subscribeds/`, `helpers/subscribeds/`, `helpers/transactions/`) | `Subscribed` rows, `Transaction.settlementStage`, the copy of the plan on `Brand` | settle, activate, grant, cancel, expire, resume, resync the brand | a settle that dies or is slow and is resumed; a plan deleted between order and capture; a copy written from an earlier read | one plan per payment, superseded only by a later one; a brand with time left on a plan is never without one; the copy follows the plans |
| Job lock (`helpers/jobs/jobLock.js`, `jobs/index.js`) | `JobLock` lease, the process's `inFlight` set | acquire, heartbeat, release, write health | a lease that lapses under a run; a process with two runs; a lost answer | no two runs whose leases have not lapsed; only its holder gives a lease back; a job always runs again |
| OTPs (`helpers/otps/`) | `OtpThrottle` counters, codes | send, verify | concurrent sends and checks | limits hold, a code is used once |
| Voucher lifecycle, catalogue, accounts, brands, notifications, documents | single documents | create, read, update, delete | little: one document per request | - |

They interact through shared documents. A checkout opens a claim and a
transaction and reserves a promo use; the gateway calls back (browser) and
reports (webhook); the settle redeems the claim, commits the promo, posts the
ledger and allots the invoice; the resume sweep re-enters the same function
when it died; the claim sweep cancels checkouts nobody paid; the settlement
build later claims the captured payments for a vendor payout, which refunds and
disputes may taint.

## Modules

**`PaidOnce`** is the promise, in terms a customer would use: an order has at
most one payer, for ever, and it is a payment made against that order; its
records are delivered only when it is paid; only a second payment of a paid
order is ever reported as a double charge.

**`ClaimSettlement`** is the code that must keep it. One order stands for a
`VoucherClaim` with its `Transaction` (created as a pair). Its variables are the
fields the handlers read and write; its workers are the requests in flight, with
a program counter and the locals that survive an await. Correspondence:

| Actions | Code |
|---|---|
| `OpenOrder` | `createVoucherClaimOrder`, as one step (its own steps are in `Checkout`) |
| `Pay`, `Capture` | the gateway (outside `src/`) |
| `StartVerify`, `FetchPayment` | `verifyVoucherClaimPayment`: load, fast path, gateway lookup |
| `StartCapturedEvent`, `IgnoreCapturedEvent`, `AnswerEvent` | `handleRazorpayWebhook`, captured branch, and how the stored event ends |
| `StartResume` | `resumeIncompleteSettlements` |
| `FailClaim`, `Take`, `LoseTake`, `TakeBack` | stage 0 of `settleVoucherClaimPayment`: the conditional claim of the transaction |
| `RecordSecondCapture`, `RecordSecondCaptureFails`, `SameCaptureAgain` | `detectDoubleCapture` |
| `FindUsage` .. `FlaggedRefused`, `RedeemClaim`, `PostCaptureEntry`, `Record` | stage 1: redemption row with both unique indexes, claim, ledger |
| `AllotNumber`, `AttachInvoice`, `DocumentFails`, `RecordInvoiced`, `Complete` | stages 2 and 3 |
| `LookAtStaleClaim` .. `DeleteStaleTransaction` | `releaseStaleClaimHolds`, one step per database call |
| `Crash`, `CrashSweep` | the process dies, or a call throws where nothing catches it |

Each action is what happens between two awaits. The clock is
nondeterministic: a sweep may find any row old enough at any time. The resume
sweep waits five minutes, which only a request that outlives them can race;
`SlowRequests` says whether such requests exist, and the theorems hold for
both answers.

**`ClaimSettlementProofs`** holds the theorems about it (below).

**`Checkout`** is what comes before: the taps of one customer on one bill, each of
which makes a claim, a transaction and a reservation before the gateway is asked,
or is handed what another tap made, and whose calls may fail at any of these.
Claim, transaction and reservation go by the tap that made them. Correspondence:

| Actions | Code |
|---|---|
| `StartTap` | `createVoucherClaimOrder` up to the key: the price, the refusals that write nothing |
| `FindExisting`, `NoExisting`, `HandExisting` | the lookup of the idempotency key, then of the claim that names the transaction, and the answer from the transaction as it was read first (`found`, `AsRead`) |
| `Reuse`, `NotReused` | the reuse window: the newest open claim, if it got as far as an order |
| `MakeClaim`, `SlotTaken` | the claim, and the unique index on the slot of a once-per-user offer |
| `MakeTransaction`, `LoseKey` | the transaction, and the unique index on the key |
| `UnwindLoser`, `FindWinner`, `NoWinner`, `HandWinner` | the loser of the key unwinds and looks for the winner, and is answered in the same way |
| `Reserve`, `RunOut` | `reservePromoCode`, in one step |
| `OpenOrder`, `Link` | the gateway's order with its id, and the claim that is named its transaction, last |
| `Fails`, `ReleaseUse`, `DeleteTransaction`, `UndoClaim` | a call throws, and the unwinding in its order |
| `SweepClaim`, `SweepUse`, `SweepTransaction`, `LapseUse` | `releaseStaleClaimHolds` and `releaseStalePromoReservations`, for what they do to a checkout |
| `Age`, `Settle`, `Crash`, `CrashSweep` | the quote lapses; a payment is settled, in one step; a process dies |

A tap that read another's transaction before its order was opened is answered
without one (`"blank"`). A key may be used again at any time, also after the quote
of an earlier tap has lapsed (`LateByKey`). **`CheckoutProofs`** holds the theorems
about it.

**`PromoReservation`** is one promo code with a limit: `usedCount` on the code
and one row per transaction, each function the sequence of database calls it
makes. Those calls are not repeated in `ClaimSettlement`, whose steps neither
read nor write what they change. `SweepRaces` says whether a call may change a
row between the two calls of the stale sweep (its find and its update by id).
**`PromoReservationProofs`** holds the theorems about it.

**`ClaimLock`** is what a settlement promises about the payments it has claimed:
locked while it is open or paid, and let go only after it has closed, for good.

**`Payout`** is the code that must keep it: one settlement from its draft to
its end, with the bank's legs and the ledger rows, handled by admins' requests
that overlap. Correspondence:

| Actions | Code |
|---|---|
| `Build`, `Approve`, `Hold`, `Cancel`, `Abandon`, `Retry` | the decisions of `buildSettlements`, `sweepAbandonedDrafts`, `approveSettlement.js`, `abandonSettlement`, `retryPayout`, each through `transitionSettlement` (`CanMove`) |
| `StartRebuild`, `Retotal`, `Rebuild` | `rebuildSettlement`: the status is checked, the new `netPayable` is written whatever the status is by then, and the settlement goes back to approval or away |
| `StartPayout` .. `MoveToProcessing`, `Park` | `startPayout`: load, leg in flight, flags and bank account, number, sum, create the leg, move the status |
| `StartConfirm`, `FindLeg`, `PayLeg`, `PayRefused`, `SumLegs` | `confirmPayout`: the leg takes what the bank moved |
| `PostPayout`, `PostReserve`, `Finish`, `Heal` | its ledger rows and the final status, and the repair of a confirmation that died |
| `StartFail`, `FindBounced`, `BounceLeg`, `MarkFailed` | `failPayout` |
| `StartReverse` .. `MarkLegsReversed` | `reversePayout` |
| `Release`, `SweepStranded` | `releaseSettlementClaims` and `sweepStrandedClaims` |
| `Crash` | the process dies, or a database call throws |

A request keeps the payable it read (`net`). Three history variables compare the
two: `basis` is the payable a leg was opened against, or nothing when its start had
read the total before another leg was confirmed (`missed`), and `closedFor` is the
payable the request that closed the settlement had read. **`PayoutProofs`** holds the theorems about it.

**`Refund`** is one captured payment and the requests to return it, in parts, one
after the other, while somebody may also refund it by hand in the gateway's
dashboard. The gateway's own refunds of the payment are part of the model (they
are what the books must agree with); their events are delivered in any order and
any number of times. Correspondence:

| Actions | Code |
|---|---|
| `StartRequest`, `CreateRequest`, `HoldPayment` | `requestRefund`: eligibility and ceiling, the insert under the unique index of open requests, the settlement hold |
| `StartApprove`, `ApproveAsVendor`, `RejectAsVendor`, `CancelRefund`, `EscalateStale` | `decideRefund.js`, and the two outcomes of `escalateStaleRefunds` |
| `ApproveAsAdmin`, `RejectAsAdmin` | the decisions in `executeRefund.js` |
| `StartExecute`, `ClaimExecution`, `LookUp`, `SendRefund`, `SendFails`, `MarkFailed`, `Adopt` | `executeRefund`: checks, claim and count, `findOurRefund` on a retry, the gateway call with its lost answer, the failure, the adoption |
| `CreatedEvent`, `FailedEvent`, `ProcessedEvent`, `ByHandEvent` | `handleRefundEvent` |
| `RaiseTotal` .. `PostRefund` | `applyRefundCompletion`: total raised, request closed, total and flags, claim and usage taken back, ledger rows |
| `LookAtHold`, `CountOthers`, `Unhold` | `releaseSettlementHold`, for a declined request and for a part that landed |
| `RequestBankDetails`, `AttachBank` | `requestRefundBankDetails`, `attachRefundBankAccount` (`manualBankRefund.js`, the bank route) |
| `StartTransfer`, `OpenLeg`, `MoveTransfer` | `payRefundToBank`: checks, the leg under the index of legs in flight, the move to PROCESSING |
| `StartConfirm`, `ConfirmLeg`, `AddTransfer` | `confirmRefundPayout`: the leg is PAID, then the completion with the total it computed |
| `StartBounce`, `BounceLeg`, `FailTransfer` | `failRefundPayout` |
| `ReleaseStaleHold` | `releaseTransactionHold.js`, for a request that waits for bank details |
| `StartSweep`, `RepairHold`, `PickInFlight`, `FetchRefund`, `SweepFailed` | `reconcileRefunds` with `repairMissingHolds` |
| `Crash` | the process dies, or a database call throws |

`RefundRequest.isOpen` is not a variable: every update of a status writes it as a
function of that status, and what it is for is the unique index, `MayOpen`.
Its assumptions: `ConcurrentPay` (two callers execute, transfer, confirm or bounce
one request at once), `SweepDue` (the sweep comes due while the requests are handled),
`UnknownTotals` (the sweep may fail to fetch the payment whose running total it
passes on; events always carry it) and `BankOverlaps` (the gateway may still act
on a request that went to the bank). `MayPay` and `MayGoToBank`, where the first and
the last are guards, are assumptions about admins and the gateway which no handler
checks. `InFlight` takes a request by whichever route it is paid, as the sweep does;
the history variable `misread` collects the requests the sweep has failed although
they had gone to a bank. **`RefundProofs`** holds the theorems about it.

**`SettlementCycle`** is one brand's settlements, one after the other: which
payments, refunds, lost disputes and reserves a build claims and counts, what
the admins do with the settlement, and the refunds and disputes that land on the
same payments meanwhile. Amounts are sets: the total of a settlement is the set
of rows it was computed from, so that a row paid or deducted twice is a row in
two totals. Correspondence:

| Actions | Code |
|---|---|
| `StartBuild`, `ClaimPayments` .. `ClaimReserves`, `Submit` | `buildForBrand`: draft, one step per database call of `settlementClaims.js`, the totals, carried forward or submitted |
| `SweepDraft` | `sweepAbandonedDrafts` |
| `Approve`, `HoldSettlement`, `Cancel` | the decisions of `approveSettlement.js` |
| `StartRebuild`, `DropTainted`, `Recount`, `Resubmit` | its rebuild: the tainted payments let go, the totals made again, back to approval |
| `CheckPayout`, `PaySettlement` | `startPayout`: its checks, and the payout after them |
| `StartWriteOff`, `StampWriteOff` | `writeOffVendorDebt`: what is owed, then the rows |
| `StartEvent`, `Record`, `HoldPayment`, `Taint`, `Book` | a refund request, or a dispute event of `handleRazorpayWebhook.js`: the row, the hold, `taintSettlement`, the chargeback rows |
| `CompleteRefund`, `LookAtHold`, `Unhold` | a refund that completed, and `releaseSettlementHold` |
| `StartRepair` | `repairMissingHolds`: an open refund whose payment is not held, then its hold and flag |
| `Crash`, `CrashBuild`, `Redeliver` | the process dies, or a database call throws, between any two steps; a dispute event that dies is delivered again, a refund request is not |

`Overlaps` names what a run may exclude: a debt written off while a build runs
(`"writeoff"`), and the loss of a dispute handled during or after its win
(`"verdict"`). Events and requests land at any time, during a build and a hold too.
The history variable `reported` has the payments each settlement was to be flagged
for: those whose `taintSettlement` was called while the settlement was not on hold,
paid or closed. **`SettlementCycleProofs`** holds the theorems about it.

**`Subscription`** is the plans of one brand: the paid orders that are settled
into plans, an admin's grants and cancellations, the expiry of plans, and the
copy of all this that the brand carries. Correspondence:

| Actions | Code |
|---|---|
| `Claim`, `Resume` | `settleSubscriptionPayment`, run by a callback or webhook, and by the resume sweep |
| `Grant` | the admin's subscription, whose transaction is born verified |
| `PlanGone` | the 404 of a settle whose brand or plan was deleted, on every run of it |
| `Existing` .. `RetirePrevious` | `activateSubscription`: is there a plan of this payment, which one is live, the new row, the end of the one before it |
| `SyncReads`, `SyncWrites`, `SyncBrand` | `syncBrandSubscriptionState` and the read it rests on, which ends lapsed plans by itself |
| `Record`, `Invoice`, `InvoiceFails`, `Complete` | the later stages of the settle |
| `StartCancel`, `Cancel` | an admin cancels the plan |
| `Expire`, `ResyncByHand`, `DayPasses` | the expiry job, an admin's repair, and time |
| `Withdraw` | an admin deletes the plan some orders are for, which `deleteSubscription` does not ask about |
| `Crash` | the process dies: in a run without `SyncLost`, only in a settle that the sweep runs again |

`SyncRaces` says whether two resyncs of the brand may overlap, `SyncLost` whether
a request may die before its resync when nothing runs it again.
**`SubscriptionProofs`** holds the theorems about it.

**`JobLock`** is the lock of one background job and the runs that take it, on
several instances of the server. Correspondence:

| Actions | Code |
|---|---|
| `Tick`, `TakeLock`, `Acquire`, `AcquireUnanswered`, `LockedOut` | `runJob` up to the answer of `acquireLock`, which may be lost |
| `Heartbeat` | `renewLock` on its timer |
| `Finish`, `WriteHealth`, `Release`, `ReleaseFails` | the end of a run and `releaseLock`, conditional on the name of the process |
| `Lapse`, `Stall`, `Crash` | the lease of a dead or stalled process passes its time; a run outlives its lease; the process dies |

`HandoverRaces` says whether a process may take the lock anew before its own run
that lost it has ended. **`JobLockProofs`** holds the theorems about it.

The **`MC...`** modules give the constants their small values and the symmetry
sets.

## Runs

| Run | Instance | Question |
|---|---|---|
| `claim_races` | 1 order, 2 payments, 2 requests and the resume sweep, 1 fault, slow requests | do the callback, the webhook and the resume ever settle an order twice, mark it complete with a record missing, change an invoice, or lose a second capture? |
| `claim_slots` | 2 orders for the same once-per-user slot, a payment each, 1 request and the resume sweep, 1 fault | is the second redemption, of a claim that was cancelled and paid late, always the flagged one; are invoice numbers distinct; does every begun settle complete? |
| `checkout_taps` | 3 taps, 2 of them with one key, offers of both kinds, 1 fault | does one key open one order; is a tap ever handed an order that was unwound, swept or never opened, or answered without one that then does not stand; does a refused tap leave anything behind; does the slot of an abandoned checkout come free? |
| `promo_uses` | 2 checkouts, 2 callers, limit 1, 1 fault, no sweep race | counter against rows, overselling, lost discounts, uses that come back |
| `payout_legs` | 2 requests, 2 units, 2 legs, 1 fault | is PAID always paid in full, does the ledger follow the legs, can racing starts, split confirmations, retries and rebuilds after a paid leg pay more than is owed, do the payments of a closed settlement come back, and only then? |
| `payout_abandoned` | 1 request, 3 legs, no fault; violation | can money be paid and claimable? |
| `refund_money` | 2 refund requests, 2 callers, 2 units, 2 gateway refunds, 1 fault, no sweep due | can racing requests, approvals and completions ask the gateway for more than was paid; does a full refund ever read as a partial one again? |
| `refund_repair` | 1 refund request, 1 caller, 1 refund by hand, 2 bank legs, 1 fault | does a retry, or a transfer after a failed gateway refund, pay twice, unless the sweep has failed the transfer; do total, requests, claim and usage agree with what was returned; does the sweep restore holds and end what the gateway ended? |
| `cycle_claims` | 2 payments (one of them refundable and disputable, and perhaps too late for a build), 2 settlements, 1 request beside the build, 1 fault | is a settlement paid exactly for what it holds, is every row deducted in one settlement only, does no payout start with a payment the settlement was to be flagged for, do the chargeback rows follow the verdict? |
| `rebuild_forgets` | 2 payments, 2 settlements, no fault; violation | is a debt a paid settlement still holds one that was taken from it? |
| `subscription_plans` | 1 paid order whose plan may be deleted, 1 grant, 1 request and the resume sweep, 3 days, 2 faults | can a payment buy two plans or lose the one it bought, can a brand be left without a plan, does the copy on the brand follow, does a paid plan go live? |
| `job_lock` | 3 instances with a timer and a button each, 1 stall, 1 fault | can two runs overlap whose leases have not lapsed, can a lease be given back by another, does the job run again after any crash? |

Why the bounds are enough. Two units are the smallest payable that can be
split; two legs are a split, a bounce with its retry, and a leg that follows a
rebuild, and a third would only be one more of these; two requests are every pair of
handlers. Three taps are a double tap with one key and a tap that
knows of no key, which finds what they left. Two
units are also the smallest payment with a partial refund, and two gateway
refunds are a send and its resend, or two parts. The questions about what a
request may ask for need two requests and racing callers; the questions about
repair need the sweep and a refund by hand: the two runs keep apart what would
multiply, and a completion by the sweep takes the steps of one by an event. Two payments of one order are what a double capture needs, and two requests plus the resume sweep give every pair of handlers that
can meet on a document; a third request of the same kind adds no new pair. One
fault kills a request or fails a document at any step; more faults only
lengthen the retry. Two orders are what a slot conflict and an invoice
collision need. Two checkouts on a limit of one exercise the boundary: a use
given back twice already shows as a counter behind the rows. Two settlements are
a build and the next one that would take the same rows, and one payment
that is refunded and disputed beside one that is neither is enough because no handler
looks at two payments at once; that other one is due whenever a build comes (`Late`),
so that a rebuild which drops the first has something left to pay. Two orders of
a subscription are a plan and the one that supersedes it, with three days for
one to lapse before the other; two faults let both the settle and its resume
die. Three instances are a holder, one that takes over, and one that would be
the second. `MaxFaults`, `MaxStalls`, `MaxDate`, `MaxLegs` and `MaxByHand` bound
counters, `Refundable`, `Disputable` and `Late` name the payments something may happen to; the invoice counter is bounded because every settle draws at most one
number per run of its stage, and runs are bounded by faults and requests ending.

`CHECK_DEADLOCK FALSE` is given because the system may stop: when every order is
settled or swept and no one pays, nothing has to happen.

### Assumptions a run makes, and what breaks without them

Where the code leaves a window open that a property cannot survive, the window
is a constant, off in the passing run. Turning it on gives the counterexample.

| Constant | Off means | On breaks |
|---|---|---|
| `PromoReservation!SweepRaces` | no call changes a row between the find and the update by id of the promo sweep (`promoReservation.js:327`-`341`) | `NotOversold`, with 3 checkouts: a use is given back twice |
| `Refund!ConcurrentPay` | one admin at a time pays a refund | `MoneyLeavesOnce`, with 2 callers: PROCESSING is accepted by the claim of an execution, and the second looks before the first has sent; on the bank route a slow second click opens a leg after the first was confirmed, or a confirmation meets a failure whose update is not looked at |
| `Refund!UnknownTotals` | the gateway's running total is known at completion | `BooksMatchGateway`: without it the refund is added to a total just raised (`applyRefundCompletion.js:207`), and half of a payment returned reads as all of it |
| `Refund!BankOverlaps` | the gateway is done with a request that goes to the bank | `MoneyLeavesOnce`, without any fault: a refund whose answer was lost is FAILED, the bank details are asked for without asking the gateway, and the customer is paid both ways |
| `SettlementCycle!Overlaps` `"writeoff"` | no debt is written off while a build runs | `DeductedOnce`: forgiven and deducted |
| `SettlementCycle!Overlaps` `"verdict"` | the loss of a dispute is not handled during or after its win | `BooksFollowVerdict`: a late loss books a chargeback the dispute row refused |
| `Subscription!SyncRaces`, `SyncLost` | resyncs do not overlap, and one that died is run again | `CopyFollowsPlans`: an older read is written last, or nobody writes |
| `JobLock!HandoverRaces` | a process does not take the lock again while its lapsed run goes on | `UnlapsedRunsAlone`: the old run gives back the lease of the new one, which has the same name |

Three properties name instead, in their own text, the case that the code does not
cover: `NeverOverpaid` (a start that read the total before another leg was confirmed),
`HandsOutWholeOrders` (a key used after its quote) and `MoneyLeavesOnce` (a request the
sweep has failed during its bank transfer). What the code does then is listed below,
under "Where the code does not do what it says".

### Fairness

A request that runs makes its next step (weak fairness per worker); the resume
sweep is on a timer for ever and takes any stranded settle (weak fairness of
`StartResume`); the promo sweep likewise, and each of its runs takes every row
that has gone stale, so a row that is stale for ever is taken (strong fairness
of a find that includes it). Nothing makes a customer pay, a gateway capture or a
webhook arrive, and no action of failure is fair. In `Payout` a running request
runs on and the sweep of stranded claims is scheduled for ever; nothing makes
an admin act. In `Refund` only the sweep is fair: it is scheduled for ever (`SweepDue`, in the
run that checks liveness) and a run of it goes on; that a person, the gateway or an event comes is not assumed.
In `JobLock` every step of a running process is fair and so are its timers and
the passing of a lease's time; nothing crashes or stalls by fairness. In
`Subscription` a request goes on, and the self-healing read of a request that reaches
it again and again is taken in the end (strong fairness). So is every stranded order
by the resume sweep, which runs for ever and begins with those it has tried least
(`settlementJobs.js:112`-`130`), so that one whose plan is gone, and fails on every
run, does not keep it from the others. In `Checkout` a tap that runs runs
on, quotes lapse, and the sweep of stale claims is scheduled for ever; nobody has
to tap or pay. `SettlementCycle` has no liveness
property and states no fairness.

## What is proved

`ClaimSettlementProofs` proves, for every set of orders, payments, requests,
slots and ledger rows and every number of faults:

- `TypeCorrect`: `Spec => []TypeOK`
- `SecondRedemptionFlagged`: `[]SecondRedemptionIsFlagged`
- `CompleteMeansWhole`: `[]CompleteIsWhole`
- `InvoicesDistinct`: `[]InvoiceNumbersUnique`
- `AnsweredAccounted`: `[]AnsweredPaymentIsAccounted`
- `SettlementStaysFinal`: the action property `SettlementIsFinal`
- `Refinement`: `Spec => PaidOnceSpec`

The only assumption is `ConstantsAssumption`, which TLC evaluates in every run.

None of the properties is inductive. `Inv` adds what a request knows at each
label, and the argument is this. A running request works on the payment of its
own order, and a resume on the payment that settled it (`LocalsInv`); an order
has a settling payment exactly when it is verified (`SettledInv`). A request
past the conditional claim knows the transaction is taken, and at each later
label which records exist already, because every write of a record only adds to
it (`ProgressInv`): that is why racing and resumed settles do not undo each
other, and it gives `CompleteIsWhole`. Slots: the index lets one unflagged row to a
slot through, a flagged row is only written beside it, and a redeemed claim has its
row (`RedeemInv`); so of two redemptions one is flagged, though the claim's own hold of
the slot was let go long before. Invoices: the counter is ahead of every number drawn or attached, and a drawn
number is in one hand only (`NumberInv`). Answers: a webhook about to answer has
settled its order or seen it settled by another payment and reported its own
(`AnswerInv`). Sweep: between its two calls the swept claim is no longer
PENDING, and the conditional delete spares a transaction that was taken
meanwhile (`SweepInv`). The refinement follows because only `Take` changes the
payer, from none, and only to a payment of that order.

`JobLockProofs` proves, for any instances, triggers and bounds:

- `TypeCorrect`: `Spec => []TypeOK`
- `UnlapsedRunsAloneCorrect`: `[]UnlapsedRunsAlone`, when not `HandoverRaces`
- `LeaseIsKeptCorrect`: the action property `LeaseIsKept`, when not `HandoverRaces`

`UnlapsedRunsAlone` compares two runs and says nothing of the row, so it is not
inductive. The invariant ties each run to the row: a run under way whose lease
has not lapsed is named by the row, and the lease is live. With a row that names
one process, and one run of a process at a time, two such runs are one; and a
lease that is live is taken by nobody else.

`CheckoutProofs` proves, for any taps, keys and number of faults:

- `TypeCorrect`: `Spec => []TypeOK`
- `OneOrderPerKeyCorrect`: `[]OneOrderPerKey`
- `RefusedHoldsNothingCorrect`: `[]RefusedHoldsNothing`
- `HandsOutWholeOrdersCorrect`: the action property `HandsOutWholeOrders`

The invariant says what a tap has made at each of its steps and that nobody else
touches it before it ends (`ProgressInv`: the sweeps take only what has aged, and
what has not been handed out is not paid); that only one transaction was ever
made for a key (`KeyInv`: the index counts the deleted ones); that what is linked is
whole until its quote lapses (`HandedInv`: the link comes last); and that what a tap has
read goes by its own key (`FoundInv`). A tap answers from what it read, but only once a
claim names that transaction, and so it stands whatever the tap had read of it.

`PromoReservationProofs` proves, for any checkouts, callers, limit and number of
faults, `TypeCorrect`, and when not `SweepRaces`:

- `CounterCoversLiveCorrect`: `[]CounterCoversLive`
- `NotOversoldCorrect`: `[]NotOversold`
- `GivenDiscountIsConsumedCorrect`: `[]GivenDiscountIsConsumed`

The counter alone does not bound the rows. It covers the live rows together with
the uses of the calls that stand between their two database calls and of the
rows the sweep has marked (`CountInv`); a use is taken only under the limit, so
the uses so taken, in rows or on their way to one, stay within it (`HeldInv`).

`SubscriptionProofs` proves, for any orders, grants, requests, days and faults,
with overlapping resyncs and lost ones:

- `TypeCorrect`: `Spec => []TypeOK`
- `PurchaseStandsCorrect`: `[]PurchaseStands`
- `NeverWithoutPlanCorrect`: the action property `NeverWithoutPlan`

Rows are numbered without gaps and are of different orders, because the unique
index refuses the second of an order (`RowsInv`); a settle goes past its plan only
when it is there (`SettledInv`); and what a request is about to supersede is an
earlier row, of another order than the one it has made (`ByInv`). The plan a
request has made may itself be superseded, or cancelled, before the request
retires the one before it; but then it was superseded by a still later one, so
the last of that chain is live or was cancelled (`LaterInv`). With three plans of
which two are being superseded at once this shows that `NeverWithoutPlan` must
speak of a cancellation of any plan since, not of the request's own only; the run,
with two plans, cannot tell the two apart, the theorem covers any number.

`PayoutProofs` proves, for any payable, requests, number of legs and faults:

- `TypeCorrect`: `Spec => []TypeOK`
- `PaidInFullCorrect`: `[]PaidInFull`
- `BooksFollowLegsCorrect`: `[]BooksFollowLegs`
- `NeverOverpaidCorrect`: the action property `NeverOverpaid`
- `Refinement`: `Spec => ClaimLockSpec`

What was paid is a fold over the legs. A confirmation that found the settlement paid
up still finds it so when it closes it, unless the payout was reversed meanwhile
(`PaidInv`); what a request is about to book or to reverse are legs that were paid
(`BooksInv`), and as long as nothing has died every paid leg is booked or about to be,
which the heal of a dead confirmation does not make good. One leg is in flight at a
time, by its index, and what was paid, with the leg in flight or the one about to be
opened, stays within the payable that its start read, if no leg was confirmed since
(`CoveredInv`): whatever rebuilds do to the payable meanwhile. Only a settlement that has
closed lets its payments go (`LockInv`), and it never reopens, which is the
refinement.

`SettlementCycleProofs` proves, for any payments, settlements, requests and faults:

- `TypeCorrect`: `Spec => []TypeOK`, and `Core`, for any `Overlaps`
- `PaidForWhatItHoldsCorrect`: `[]PaidForWhatItHolds`, for any `Overlaps`
- `PayoutStartsCleanCorrect`: the action property `PayoutStartsClean`, for any `Overlaps`
- `DeductedOnceCorrect`: `[]DeductedOnce`, without `"writeoff"`

A rebuild works alone, on a settlement that is on hold or has closed meanwhile
(`RebuildInv`); a build has got, at each of its steps, what its draft holds, or the
sweep has closed the draft (`BuildInv`); and what was counted is what is held from
the submission to the payout, and again when a rebuild submits (`CountInv`), which
gives the first property. What was written off was not deducted, and what a
write-off has read will not be, because no build runs meanwhile (`DeductInv`). A
payment that a settlement was to be flagged for is on its list as long as it is in it,
and a rebuild drops all that is on the list before it takes the flag off; nothing is
put on the list of a settlement on hold, which is why the list the rebuild has read is
the list it clears (`ReportInv`). The module also has `BooksFollowVerdictCorrect`, a
conditional result: without `"verdict"` the chargeback rows follow the verdict
(`VerdictInv`). It says that the late loss is the only way they can go wrong, not that
they do not.

`RefundProofs` proves, for any requests, callers, amounts, gateway refunds, legs
and faults, and whether or not the sweep comes due:

- `TypeCorrect`: `Spec => []TypeOK`
- `FullIsFinalCorrect`: the action property `FullIsFinal`, whatever overlaps
- `OneOpenInvariance`: one request of a payment is open at a time, whatever overlaps
- `BookedWasReturnedCorrect`, `UndoneWhenFullCorrect`: `[]BookedWasReturned` and
  `[]UndoneWhenFull`, two of the three parts of `BooksMatchGateway`, whatever overlaps

None of these has a condition: they hold for racing admins, unknown totals, and a
gateway that acts on a request which went to the bank. The invariants rest on each
other in this order. `TypeInv`: types, and what each worker knows at each of its
steps. `FullInv`: a payment that is flagged shows all of it as refunded, and that
total only rises. `OneOpen`: the unique index on open requests, which every change of
a status keeps. `LandedInv`: a worker that lands a request, or has, holds a refund
the gateway processed or a leg that was paid, and neither is ever taken back. `UndoneInv`:
a claim is taken back last, of a payment that is flagged, which with `FullInv` shows
all of it as returned. That money leaves once, that the requests stay within what was
paid, and that the stored total stays within what was returned hold only under the
assumptions of the table above, which nothing in the code enforces; they are checked
under them and not proved.

The sums of `Payout` and `Refund` are folds. What they need of a fold (what it
gives when its set gains or loses an element, that it is monotone, that it is
zero over nothing) is proved in these modules, by induction over the subsets of a
finite set; the cases that hold are a set, and the induction is a minimal
counterexample under the well-founded order of strict subsets.

Every safety property that a passing run checks is so proved, and both refinements, but
for `MoneyLeavesOnce`, `RequestsWithinPaid`, the part `refunded <= Returned` of
`BooksMatchGateway`, and `CopyFollowsPlans`: they rest on assumptions that the code does
not justify, and a theorem under these would say little more than the run. Theorems with
an assumption are `DeductedOnceCorrect`, those of `PromoReservationProofs` when not
`SweepRaces`, and those of `JobLockProofs` when not `HandoverRaces`. Only model-checked
are also the liveness properties `StrandedSettleCompletes`, `SlotComesBack`,
`AbandonedUseReturns`, `ReleasedRowsComeBack`, `OpenRefundIsHeld`, `ProcessingEnds`,
`JobRunsAgain` and `PaidPlanGoesLive`, which are out of the prover's reach. The proofs
assume of the constants what the modules' `ConstantsAssumption` says, which TLC
evaluates in every run, and what is stated with each theorem. The type invariants of
`ClaimSettlement`, `Checkout`, `PromoReservation`, `Subscription` and `JobLock` are
proved and not checked again in the runs.

## Where the code does not do what it says

Two are runs in which TLC finds the counterexample.

1. `payout_abandoned`: `constants/settlement.js` keeps a failed settlement's
   payments locked so that money is never "both paid and claimable", but a
   settlement one of whose legs was paid before the next one bounced can be
   abandoned, and then all of its payments go into the next cycle.
2. `rebuild_forgets`: a rebuild (`approveSettlement.js:205`) totals payments and
   refunds only, so the chargebacks and reserves the settlement still holds stay
   marked as recovered and returned although nothing was taken or given.

The rows of the table of assumptions above are others, each found the same way.
Limits of the code that no run states, first those the properties exclude in their text:

- A once-per-user offer is redeemed twice when a claim is cancelled, its slot is taken
  again and the first payment lands late: the settle writes a second redemption row,
  completes and tells an admin (`settleVoucherClaimPayment.js:222`-`303`).
  `SecondRedemptionIsFlagged` says that it is the flagged row, not that there is none.
  The notice itself is sent after the row, and a process that dies in between
  never sends it, since the resume finds the row.
- A start that totals what was paid and sleeps while another leg is confirmed opens its
  leg on the old total and pays beyond the payable; the bank transfer a person makes
  in between is all that keeps the two apart. `NeverOverpaid` excuses that leg, and
  only that one.
- A rebuild does not ask what was paid already (`approveSettlement.js:205`-`216`). After a
  paid leg, a bounce, a retry and a hold it may put the payable below what has gone out,
  and when nothing is left it carries the settlement forward and lets its payments go. A
  rebuild that is slow may write the payable after the settlement went on, so that a PAID
  settlement reads as paid less than its payable: `PaidInFull` speaks of the payable the
  closing request had read.
- Nothing keeps two rebuilds of one settlement apart: the second may clear the flag for a
  payment that was put on the list after it had read it, and `PayoutStartsClean` then
  fails. The model has one at a time.
- A refund request that dies between its hold and its flag is not found by
  `repairMissingHolds`, which looks for a missing hold, and one that dies before
  its hold is flagged only when the sweep gets there; meanwhile the settlement may be
  approved and paid. A dispute event that loads its payment before the build claims it
  flags nothing (`handleRazorpayWebhook.js:538`), nor does any event while the settlement is
  on hold (`taintSettlement.js:45`), whose payment the rebuild then keeps.
  `PayoutStartsClean` speaks of the flags that were due, of which none is lost.
- A subscription that is paid after its plan (or brand) was deleted, or that dies before
  its plan is created and has it deleted then, gets neither plan nor invoice: each run
  throws 404 after the conditional claim (`settleSubscriptionPayment.js:213`-`220`), the
  sweep resumes it for ever and can only alert. `PaidPlanGoesLive` says so. A settle
  that died after its plan was created and before the brand was resynced is in the same
  way never resynced: `CopyFollowsPlans` speaks of a brand without such an order.
- A tap that reads the transaction of another before its order is opened, and its claim
  after it was linked, is answered with the order id `undefined`, though the comment at
  `createVoucherClaimOrder.js:193`-`196` says that it is handed the winner's order; a
  retry with the key gets the order. A key that is used after its quote is handed
  an order that was swept, or whose promo use has lapsed, since the lookup by key
  asks for neither.
- `reconcileRefunds` (`refundJobs.js:255`) does not ask by which route a request is paid:
  one that went to the bank after its gateway refund failed is set to FAILED, on the word
  of that dead refund, while its transfer is under way, or was confirmed and is not yet on
  the books. The first leaves a leg that can be neither confirmed nor replaced by the bank
  route; both let an admin pay the request again. `MoneyLeavesOnce` leaves out the
  requests of which this has happened (`misread`).

And others:

- The claim sweep asks the gateway only about a payment id that the settle itself
  writes (`claimJobs.js:106`), so it cancels a claim whose capture's callback and
  webhook are both late, against its comment at line 59. `SweepSparesCaptured` of
  `ClaimSettlement` says that; with one order and no fault TLC refutes it.
- A tap that loses its idempotency key to another is to be handed the winner's
  order (`createVoucherClaimOrder.js:193`), but the claim of the winner is named its
  transaction last, so that a loser close behind finds no claim and is refused;
  for a once-per-user offer it is refused before, by the slot (`SlotTaken`).
- The lookup of a key skips deleted transactions and the unique index on it
  (`models/Transaction.js:479`) does not: after a checkout that was unwound or
  swept, and after one that died before its claim was linked, every retry with
  the same key is refused, for ever.
- The sweep of a claim that died before it was linked frees the slot and leaves
  its transaction open, since the claim does not know it.
- A completion of a refund that dies after closing its request leaves a fully
  refunded payment without its flags, and its claim and usage not taken back; a
  redelivered event repairs the ledger rows only. `BooksMatchGateway` therefore
  says that nothing is taken back too early, not that it always is in the end.
- A bank refund that dies between opening its leg and moving the request, or
  between marking the leg PAID and the completion, is refused by every handler
  afterwards, though the comment at `manualBankRefund.js:199` calls the first
  "recoverable".
- `payRefundToBank` does not ask again what is still owed, and the gateway's
  running total, which the completion takes, knows nothing of bank transfers: a
  payment returned partly by each route never reads as fully refunded.
- `repairMissingHolds` puts back the hold that an admin released for a request
  that waits for bank details (`releaseTransactionHold.js:135`).

## Abstractions

- The redemption modes of a claim that the code distinguishes after payment are
  one status, REDEEMED: none of the properties tells them apart.
- In `ClaimSettlement` creating an order is one step, and in `Checkout` settling a
  payment is one, which only an open claim gets; each is in full in the other.
- In `Checkout` there is one customer with one bill, whose taps all carry a promo
  code; reserving a use is one step, and so are the gateway's order and saving its
  id; a write whose answer is lost did not happen; the two settings of thirty
  minutes, of a claim's quote and of a reservation, lapse together.
- Notifications, frozen document snapshots and rendering are left out.
- Amounts are left out of the claim model: each order has its price, and every
  payment made against it is for that price.
- A settle that takes a transaction the sweep has just deleted is in the model;
  the resume query skips deleted rows, so `StrandedSettleCompletes` speaks only of
  transactions that were not deleted.
- In `Payout` a rebuild gives any payable up to `Net`, the payments, refunds, disputes and
  reserves of the settlement are one lock, a flag or a changed bank account is the choice
  to `Park`, and the reserve held and handed back are one row.
- In `Refund` the split of an amount between vendor and platform and its ledger
  rows are one row, the refund document, the time window and the allowance of a
  plan are left out, and disputes, which also keep a hold, are not there. The
  reads with which a decision checks a request before its conditional update are
  one step with that update, which repeats their condition. The gateway does not
  check the amount (it would refuse some of what the model lets through), and a
  call that timed out has arrived before the retry looks for it, or never does.
  On the bank route a leg is for the whole amount of its request, and finding
  the request and releasing its hold, in the admin's release of a stale hold, is
  one step.
- In `SettlementCycle` a payment has at most one partial refund and one dispute,
  whether a reserve has matured is left open, a closed settlement drops its
  figures, letting the rows of a settlement go is one step (its own order is in
  `Payout`), and one rebuild runs at a time. A build, an
  admin's request and a refund request die between any two steps; a dispute event
  that dies is delivered again, and a refund request only looked for by the sweep for
  missing holds.
- In `Subscription` there is one brand, the promo use of an order is in
  `PromoReservation`, a plan is ACTIVE, RETIRED or CANCELLED, the two writes of a
  resync to the brand and two reads of the live plan in a row are one step each,
  no day passes between the new row and the end of the old one, the link from the
  transaction to its plan is left out, and a deleted plan or brand is a set of orders
  whose settle finds none.
- In `JobLock` a lease is live or lapsed instead of carrying a time, and taking
  the lock and entering the `inFlight` set are one step.
- One `Resumer`: the job lock gives the sweep to one instance at a time.

## Not modelled, and why

`PROJECT.json` lists every component. Notifications are best effort and never
read back. Catalogue, banners, search, showcase, accounts and verification of
brands are single-document requests with no protocol between them. Reserve rates
and settlement amounts are arithmetic over history. Much of the repository's text
is outside the protocols altogether: collections for API clients, scripts, seeds,
listings, validators and models. The per-owner promo limit and OTPs are in
the plan.

## Plan

Done: `ClaimSettlement` with `PaidOnce`, `Checkout`, `PromoReservation`, `Payout` with
`ClaimLock`, `Refund` with both routes, `SettlementCycle`, `Subscription` and
`JobLock`: runs, and proofs of the safety properties that need no assumption the code
does not justify. To come, in this order:

1. The per-owner limit of a promo code, which is counted before the reservation
   and not checked again, composed with `Checkout`.
2. OTP throttling: sends and checks against the counters.
3. The document of a refund and the hold of an open dispute inside `Refund`.
4. Proofs about each of these as they come.
