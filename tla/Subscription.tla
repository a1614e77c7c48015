---------------------------- MODULE Subscription ----------------------------
(***************************************************************************)
(* The plans of one brand: a paid order settled into a plan                *)
(* (helpers/subscribeds/settleSubscriptionPayment.js and                   *)
(* activateSubscription.js), grants, cancellations, the expiry job and the *)
(* self-healing read, and the copy of all this that the brand carries      *)
(* (syncBrandSubscriptionState.js).  A settle can die anywhere and is run  *)
(* again by the resume sweep, beside the first run if that one was slow.   *)
(***************************************************************************)
EXTENDS Integers, FiniteSets

CONSTANTS Orders,     \* subscription transactions of the brand, each paid once
          Grants,     \* those an admin creates, already verified
          Requests,   \* callbacks, webhook events, admins, the expiry job
          Resumer,    \* the resume sweep
          None,
          SyncRaces,  \* may two resyncs of the brand overlap?
          SyncLost,   \* may a request die before its resync when no sweep runs it again?
          Grace,      \* days a lapsed plan is left to the expiry job's next runs
          MaxDate,    \* bound: days
          MaxFaults   \* bound: crashes and failed invoices

ASSUME ConstantsAssumption ==
  /\ Grants \subseteq Orders /\ IsFiniteSet(Orders)
  /\ Resumer \notin Requests /\ None \notin Orders
  /\ SyncRaces \in BOOLEAN /\ SyncLost \in BOOLEAN
  /\ Grace \in Nat /\ MaxDate \in Nat /\ MaxFaults \in Nat

VARIABLES
  today,
  withdrawn, \* orders to be paid whose plan (or brand) is deleted
  rows,      \* the Subscribed rows in the order of their creation, by number
  verified,  \* Transaction.verified, by order
  stage,     \* Transaction.settlementStage
  invoiced,  \* orders whose transaction has an invoiceId
  brand,     \* Brand.isSubscribed, subscribedId and the plan its limits are of, 0 for none
  pc, job, ord, prev, new, seen,  \* locals of a request
  faults

locals == <<job, ord, prev, new, seen>>
vars == <<today, withdrawn, rows, verified, stage, invoiced, brand, pc, locals, faults>>

Workers == Requests \cup {Resumer}
Dates == 0..(MaxDate + 1)

\* One number more than the orders, for a row that should not be.
Numbers == 1..(Cardinality(Orders) + 1)
NoRow == [status |-> "NONE", order |-> None, endDate |-> 0, by |-> 0]

Stages == {"NONE", "CLAIMED", "RECORDED", "COMPLETE"}
Jobs == {"none", "settle", "grant", "cancel", "refresh"}
Labels == {"idle", "existing", "previous", "create", "retire", "cancel",
           "heal", "healed", "sync", "brand", "record", "invoice", "complete"}

TypeOK ==
  /\ today \in 0..MaxDate
  /\ withdrawn \subseteq Orders \ Grants
  /\ rows \in [Numbers -> [status : {"NONE", "ACTIVE", "RETIRED", "CANCELLED"},
                           order : Orders \cup {None}, endDate : Dates,
                           by : Numbers \cup {0}]]
  /\ verified \in [Orders -> BOOLEAN]
  /\ stage \in [Orders -> Stages]
  /\ invoiced \subseteq Orders
  /\ brand \in [isSubscribed : BOOLEAN, plan : Numbers \cup {0}, limits : Numbers \cup {0}]
  /\ pc \in [Workers -> Labels]
  /\ job \in [Workers -> Jobs]
  /\ ord \in [Workers -> Orders \cup {None}]
  /\ prev \in [Workers -> Numbers \cup {0}]
  /\ new \in [Workers -> Numbers \cup {0}]
  /\ seen \in [Workers -> Numbers \cup {0}]
  /\ faults \in 0..MaxFaults

Init ==
  /\ today = 0
  /\ withdrawn = {}
  /\ rows = [n \in Numbers |-> NoRow]
  /\ verified = [o \in Orders |-> FALSE]
  /\ stage = [o \in Orders |-> "NONE"]
  /\ invoiced = {}
  /\ brand = [isSubscribed |-> FALSE, plan |-> 0, limits |-> 0]
  /\ pc = [w \in Workers |-> "idle"]
  /\ job = [w \in Workers |-> "none"]
  /\ ord = [w \in Workers |-> None]
  /\ prev = [w \in Workers |-> 0]
  /\ new = [w \in Workers |-> 0]
  /\ seen = [w \in Workers |-> 0]
  /\ faults = 0

Goto(w, label) == pc' = [pc EXCEPT ![w] = label]

\* A request that ends forgets its locals.
Done(w) ==
  /\ Goto(w, "idle")
  /\ job' = [job EXCEPT ![w] = "none"]
  /\ ord' = [ord EXCEPT ![w] = None]
  /\ prev' = [prev EXCEPT ![w] = 0]
  /\ new' = [new EXCEPT ![w] = 0]
  /\ seen' = [seen EXCEPT ![w] = 0]

-----------------------------------------------------------------------------
(* The rows.                                                               *)

Used == {n \in Numbers : rows[n].status # "NONE"}
RowsOf(o) == {n \in Used : rows[n].order = o}
Active == {n \in Used : rows[n].status = "ACTIVE"}
Live == {n \in Active : rows[n].endDate > today}
Lapsed == Active \ Live

\* The live plan that ends last, or 0.
Latest == IF Live = {} THEN {0}
          ELSE {n \in Live : \A k \in Live : rows[k].endDate <= rows[n].endDate}

\* The date of a row that ended is not kept: its status decides.
Ended(row, status) == [row EXCEPT !.status = status, !.endDate = 0]

Expired(S) == [n \in Numbers |-> IF n \in S THEN Ended(rows[n], "RETIRED") ELSE rows[n]]

\* Mutant: the plans of the brand are superseded, not the one that was read.
SupersedesAll(w) == Active

Superseded(w) == {prev[w]}

-----------------------------------------------------------------------------
(* What begins a request.                                                  *)

\* The conditional claim of a payment the checks have passed; a request that
\* loses it writes nothing more.
Claim(w, o) ==
  /\ w \in Requests /\ pc[w] = "idle"
  /\ o \notin Grants /\ ~verified[o]
  /\ verified' = [verified EXCEPT ![o] = TRUE]
  /\ stage' = [stage EXCEPT ![o] = "CLAIMED"]
  /\ job' = [job EXCEPT ![w] = "settle"]
  /\ ord' = [ord EXCEPT ![w] = o]
  /\ Goto(w, "existing")
  /\ UNCHANGED <<today, withdrawn, rows, invoiced, brand, prev, new, seen, faults>>

\* resumeIncompleteSettlements takes a row and settles it past the claim.
Stranded(o) == verified[o] /\ stage[o] \notin {"NONE", "COMPLETE"}

\* Mutant: a settle that died before its plan was recorded is not found.
ResumableOnceRecorded(o) == verified[o] /\ stage[o] = "RECORDED"

Resumable(o) == Stranded(o)

Resume(o) ==
  /\ pc[Resumer] = "idle"
  /\ Resumable(o)
  /\ job' = [job EXCEPT ![Resumer] = "settle"]
  /\ ord' = [ord EXCEPT ![Resumer] = o]
  /\ Goto(Resumer, "existing")
  /\ UNCHANGED <<today, withdrawn, rows, verified, stage, invoiced, brand, prev,
                 new, seen, faults>>

\* adminGrantSubscription creates a verified transaction without a stage, after
\* it has found the plan: one of a deleted plan is refused and does nothing.
Grant(w, o) ==
  /\ w \in Requests /\ pc[w] = "idle"
  /\ o \in Grants /\ ~verified[o]
  /\ verified' = [verified EXCEPT ![o] = TRUE]
  /\ invoiced' = invoiced \cup {o}
  /\ job' = [job EXCEPT ![w] = "grant"]
  /\ ord' = [ord EXCEPT ![w] = o]
  /\ Goto(w, "existing")
  /\ UNCHANGED <<today, withdrawn, rows, stage, brand, prev, new, seen, faults>>

-----------------------------------------------------------------------------
(* getActiveSubscription: the live plan, or a heal of what has lapsed.     *)

\* Where the request goes on, with the plan it read in "prev".
Reads(w, found, nothing) ==
  /\ \/ \E n \in Latest \ {0} :
          /\ prev' = [prev EXCEPT ![w] = n]
          /\ Goto(w, found)
          /\ UNCHANGED rows
     \/ /\ Live = {} /\ Lapsed = {}
        /\ Goto(w, nothing)
        /\ UNCHANGED <<rows, prev>>
     \/ /\ Live = {} /\ Lapsed # {}
        /\ rows' = Expired(Lapsed)
        /\ Goto(w, "heal")
        /\ UNCHANGED prev
  /\ UNCHANGED <<today, withdrawn, verified, stage, invoiced, brand, ord, new,
                 seen, faults>>

-----------------------------------------------------------------------------
(* activateSubscription.                                                   *)

\* Mutant: the plan is there, so the brand is believed to know it.
ResyncSkipped == "record"

\* A transaction that has its plan gets it back and only resyncs.
Resync == "sync"

\* deleteSubscription asks for no open order, and nothing restores a plan.
Withdraw(S) ==
  /\ S # {} /\ S \cap withdrawn = {}
  /\ withdrawn' = withdrawn \cup S
  /\ UNCHANGED <<today, rows, verified, stage, invoiced, brand, pc, locals, faults>>

\* A settle loads the plan after its claim, and again whenever it is resumed.
PlanMissing(w) == ord[w] \in withdrawn

\* The settle throws; the stage stays, and the sweep will run it again.
PlanGone(w) ==
  /\ pc[w] = "existing" /\ PlanMissing(w)
  /\ Done(w)
  /\ UNCHANGED <<today, withdrawn, rows, verified, stage, invoiced, brand, faults>>

Existing(w) ==
  /\ pc[w] = "existing" /\ ~PlanMissing(w)
  /\ Goto(w, IF RowsOf(ord[w]) = {} THEN "previous" ELSE Resync)
  /\ UNCHANGED <<today, withdrawn, rows, verified, stage, invoiced, brand, locals,
                 faults>>

Previous(w) ==
  /\ pc[w] = "previous"
  /\ Reads(w, "create", "create")
  /\ UNCHANGED job

\* Mutant: uniq_subscribed_transactionId is not there.
NotTakenEver(o) == TRUE

NotTaken(o) == RowsOf(o) = {}

\* The unique index picks one of two settles that both found nothing.
Create(w) ==
  /\ pc[w] = "create"
  /\ LET n == Cardinality(Used) + 1 IN
     \/ /\ NotTaken(ord[w]) /\ n \in Numbers
        /\ \E d \in Dates :
             /\ d > today
             /\ rows' = [rows EXCEPT ![n] = [status |-> "ACTIVE", order |-> ord[w],
                                             endDate |-> d, by |-> 0]]
        /\ IF prev[w] = 0 THEN Goto(w, "sync") /\ UNCHANGED new
           ELSE Goto(w, "retire") /\ new' = [new EXCEPT ![w] = n]
        /\ UNCHANGED prev
     \/ /\ ~NotTaken(ord[w])
        /\ prev' = [prev EXCEPT ![w] = 0]
        /\ Goto(w, Resync)
        /\ UNCHANGED <<rows, new>>
  /\ UNCHANGED <<today, withdrawn, verified, stage, invoiced, brand, job, ord,
                 seen, faults>>

\* The plan that was read is superseded by its id, whatever it is by now.
RetirePrevious(w) ==
  /\ pc[w] = "retire"
  /\ rows' = [n \in Numbers |->
                IF n \in Superseded(w)
                THEN [Ended(rows[n], "RETIRED") EXCEPT !.by = new[w]] ELSE rows[n]]
  /\ prev' = [prev EXCEPT ![w] = 0]
  /\ new' = [new EXCEPT ![w] = 0]
  /\ Goto(w, "sync")
  /\ UNCHANGED <<today, withdrawn, verified, stage, invoiced, brand, job, ord,
                 seen, faults>>

-----------------------------------------------------------------------------
(* syncBrandSubscriptionState: a read, and two writes in a row that are    *)
(* one step here.  The resync of a heal goes on to the request that healed.*)

SyncReads(w) ==
  /\ pc[w] \in {"sync", "heal"}
  /\ SyncRaces \/ \A x \in Workers : pc[x] \notin {"brand", "healed"}
  /\ \E n \in Latest : seen' = [seen EXCEPT ![w] = n]
  /\ Goto(w, IF pc[w] = "sync" THEN "brand" ELSE "healed")
  /\ UNCHANGED <<today, withdrawn, rows, verified, stage, invoiced, brand, job,
                 ord, prev, new, faults>>

\* applyPlanEntitlements and the brand; subscribedId keeps the last plan when
\* there is none.
SyncWrites(w) ==
  brand' = [isSubscribed |-> seen[w] # 0,
            plan |-> IF seen[w] = 0 THEN brand.plan ELSE seen[w],
            limits |-> seen[w]]

SyncBrand(w) ==
  /\ pc[w] \in {"brand", "healed"}
  /\ SyncWrites(w)
  /\ LET after == CASE pc[w] = "brand" /\ job[w] = "settle" -> "record"
                    [] pc[w] = "healed" /\ job[w] \in {"settle", "grant"} -> "create"
                    [] OTHER -> "idle"
     IN IF after = "idle" THEN Done(w)
        ELSE /\ Goto(w, after)
             /\ seen' = [seen EXCEPT ![w] = 0]
             /\ UNCHANGED <<job, ord, prev, new>>
  /\ UNCHANGED <<today, withdrawn, rows, verified, stage, invoiced, faults>>

-----------------------------------------------------------------------------
(* The rest of a settle.  The promo code is committed with "record".       *)

Record(w) ==
  /\ pc[w] = "record"
  /\ stage' = [stage EXCEPT ![ord[w]] = "RECORDED"]
  /\ Goto(w, "invoice")
  /\ UNCHANGED <<today, withdrawn, rows, verified, invoiced, brand, locals, faults>>

\* A number drawn in vain leaves a gap, and the one on the row stands.
Invoice(w) ==
  /\ pc[w] = "invoice"
  /\ invoiced' = invoiced \cup {ord[w]}
  /\ Goto(w, "complete")
  /\ UNCHANGED <<today, withdrawn, rows, verified, stage, brand, locals, faults>>

\* The document stage fails: the settle ends and its stage stays.
InvoiceFails(w) ==
  /\ pc[w] = "invoice" /\ ord[w] \notin invoiced
  /\ faults < MaxFaults
  /\ faults' = faults + 1
  /\ Done(w)
  /\ UNCHANGED <<today, withdrawn, rows, verified, stage, invoiced, brand>>

\* Through INVOICED, which nothing asks for.
Complete(w) ==
  /\ pc[w] = "complete"
  /\ stage' = [stage EXCEPT ![ord[w]] = "COMPLETE"]
  /\ Done(w)
  /\ UNCHANGED <<today, withdrawn, rows, verified, invoiced, brand, faults>>

-----------------------------------------------------------------------------
(* Cancelling, expiring and resyncing by hand.                             *)

StartCancel(w) ==
  /\ w \in Requests /\ pc[w] = "idle" /\ Active # {}
  /\ job' = [job EXCEPT ![w] = "cancel"]
  /\ Reads(w, "cancel", "idle")

\* By id, whatever became of the row since it was read.
Cancel(w) ==
  /\ pc[w] = "cancel"
  /\ rows' = [rows EXCEPT ![prev[w]] = Ended(@, "CANCELLED")]
  /\ prev' = [prev EXCEPT ![w] = 0]
  /\ Goto(w, "sync")
  /\ UNCHANGED <<today, withdrawn, verified, stage, invoiced, brand, job, ord, new,
                 seen, faults>>

\* expireSubscriptions: what has lapsed, and the brand of it.
Expire(w) ==
  /\ w \in Requests /\ pc[w] = "idle"
  /\ LET due == {n \in Lapsed : rows[n].endDate + Grace <= today} IN
     /\ due # {}
     /\ rows' = Expired(due)
  /\ job' = [job EXCEPT ![w] = "refresh"]
  /\ Goto(w, "sync")
  /\ UNCHANGED <<today, withdrawn, verified, stage, invoiced, brand, ord, prev,
                 new, seen, faults>>

ResyncByHand(w) ==
  /\ w \in Requests /\ pc[w] = "idle"
  /\ job' = [job EXCEPT ![w] = "refresh"]
  /\ Goto(w, "sync")
  /\ UNCHANGED <<today, withdrawn, rows, verified, stage, invoiced, brand, ord,
                 prev, new, seen, faults>>

\* A plan outlasts the one call between its creation and the retiring write.
DayPasses ==
  /\ today < MaxDate
  /\ \A w \in Workers : pc[w] # "retire"
  /\ today' = today + 1
  /\ UNCHANGED <<withdrawn, rows, verified, stage, invoiced, brand, pc, locals, faults>>

\* A settle the sweep runs again, and that no other request is finishing.
RunAgain(w) ==
  /\ job[w] = "settle" /\ Stranded(ord[w])
  /\ \A x \in Workers \ {w} : ord[x] # ord[w]

Crash(w) ==
  /\ pc[w] # "idle"
  /\ SyncLost \/ RunAgain(w)
  /\ faults < MaxFaults
  /\ faults' = faults + 1
  /\ Done(w)
  /\ UNCHANGED <<today, withdrawn, rows, verified, stage, invoiced, brand>>

-----------------------------------------------------------------------------
Step(w) ==
  \/ PlanGone(w) \/ Existing(w) \/ Previous(w) \/ Create(w) \/ RetirePrevious(w)
  \/ SyncReads(w) \/ SyncBrand(w)
  \/ Record(w) \/ Invoice(w) \/ Complete(w) \/ Cancel(w)

Next ==
  \/ \E w \in Requests :
       \/ \E o \in Orders : Claim(w, o) \/ Grant(w, o)
       \/ StartCancel(w) \/ Expire(w) \/ ResyncByHand(w)
  \/ \E o \in Orders : Resume(o)
  \/ \E w \in Workers : Step(w) \/ InvoiceFails(w) \/ Crash(w)
  \/ \E S \in SUBSET (Orders \ Grants) : Withdraw(S)
  \/ DayPasses

(* Calls are answered, a resync that waits for the others gets its turn, and *)
(* so does every stranded row with the sweep, which begins with those it has *)
(* tried least: one that fails on every run does not keep it from the rest.  *)
Fairness ==
  /\ \A w \in Workers : WF_vars(Step(w)) /\ SF_vars(SyncReads(w))
  /\ \A o \in Orders \ Grants : SF_vars(Resume(o))

Spec == Init /\ [][Next]_vars /\ Fairness

-----------------------------------------------------------------------------
(* Properties.                                                             *)

\* A payment buys one plan, however often it is settled and resumed, and a
\* plan is superseded by a later purchase, never by its own payment run again
\* (activateSubscription.js: "the vendor's just-purchased plan would be marked
\* UPGRADED with its end date moved to now").
PurchaseStands ==
  /\ \A o \in Orders : Cardinality(RowsOf(o)) <= 1
  /\ \A o \in Orders : stage[o] = "COMPLETE" => RowsOf(o) # {}
  /\ \A n \in Used : rows[n].by # 0 =>
       rows[n].by > n /\ rows[rows[n].by].order # rows[n].order

\* The plan or one created after it has been cancelled.
CancelledSince(plan) == \E n \in Used : n >= plan /\ rows[n].status = "CANCELLED"

\* Only time and an admin's cancellation take the last live plan of a brand:
\* a plan is retired for a later one that is live, or was until one of those
\* that succeeded it was cancelled, wherever a settle stops ("a crash in between
\* leaves the brand with a valid plan rather than none at all").
NeverWithoutPlan ==
  [][Live # {} /\ Live' = {} =>
       \/ today' # today
       \/ \E w \in Workers : Cancel(w)
       \/ \E w \in Workers : RetirePrevious(w) /\ CancelledSince(new[w])]_vars

\* When no request is under way and no settle is to be resumed, the brand's
\* copy and its limits are those of its live plan, and it has none if it has no
\* plan ("so the limits can never disagree with the live plan").
Quiet ==
  /\ \A w \in Workers : pc[w] = "idle"
  /\ \A o \in Orders : ~Stranded(o)

CopyFollowsPlans ==
  Quiet =>
    /\ Live # {} => brand.isSubscribed /\ brand.plan \in Latest /\ brand.limits \in Latest
    /\ Active = {} => ~brand.isSubscribed /\ brand.limits = 0

\* A paid order is settled to the end: its plan is created and its invoice
\* issued, whatever stage a crash left it at, unless the plan was deleted first.
\* Then it may have neither, for ever: every run throws before it has done
\* anything, and the sweep can only tell an admin.
PaidPlanGoesLive ==
  \A o \in Orders \ Grants :
    verified[o] ~> \/ stage[o] = "COMPLETE" /\ RowsOf(o) # {} /\ o \in invoiced
                   \/ o \in withdrawn
=============================================================================
