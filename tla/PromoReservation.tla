-------------------------- MODULE PromoReservation --------------------------
(***************************************************************************)
(* One limited promo code (helpers/promoCodes/promoReservation.js): a use  *)
(* is reserved when a checkout opens, consumed when its payment settles,   *)
(* put back when the checkout fails, goes stale or is refunded.  The code  *)
(* keeps the count of uses on the promo code and a row per transaction,    *)
(* and moves the two in separate database calls, so every function is a    *)
(* sequence of steps here.                                                 *)
(***************************************************************************)
EXTENDS Integers, FiniteSets

CONSTANTS Transactions,  \* checkouts priced with this promo code
          Callers,       \* concurrent callers of the functions below
          Limit,         \* PromoCode.totalUsageLimit
          SweepRaces,    \* may a call change a row between the sweep's two calls?
          None,
          MaxFaults      \* bound: crashes and failed database calls

ASSUME ConstantsAssumption ==
  /\ IsFiniteSet(Transactions) /\ IsFiniteSet(Callers)
  /\ Limit \in Nat \ {0}
  /\ SweepRaces \in BOOLEAN
  /\ None \notin Transactions
  /\ MaxFaults \in Nat

VARIABLES
  usedCount,  \* PromoCode.usedCount
  row,        \* PromoCodeUsage.status of each transaction, NONE without a row
  asked,      \* the checkouts that have tried to reserve
  paid,       \* the transactions whose payment was captured
  committed,  \* the transactions whose commit has returned
  refunded,   \* the transactions whose use a refund gave back
  late,       \* history: rows a commit has flipped back to CONSUMED
  pc, tx,     \* locals of a call
  sweep,      \* releaseStalePromoReservations: where it is, and the rows it found
  faults

vars == <<usedCount, row, asked, paid, committed, refunded, late, pc, tx, sweep, faults>>

Labels == {"idle", "insert", "giveback", "lookup", "count", "flip"}

TypeOK ==
  /\ usedCount \in Nat
  /\ row \in [Transactions -> {"NONE", "RESERVED", "CONSUMED", "RELEASED"}]
  /\ asked \subseteq Transactions
  /\ paid \subseteq Transactions
  /\ committed \subseteq Transactions
  /\ refunded \subseteq Transactions
  /\ late \subseteq Transactions
  /\ pc \in [Callers -> Labels]
  /\ tx \in [Callers -> Transactions \cup {None}]
  /\ sweep \in [at : {"idle", "mark", "decrement"}, rows : SUBSET Transactions]
  /\ faults \in 0..MaxFaults

Init ==
  /\ usedCount = 0
  /\ row = [t \in Transactions |-> "NONE"]
  /\ asked = {} /\ paid = {} /\ committed = {} /\ refunded = {} /\ late = {}
  /\ pc = [c \in Callers |-> "idle"]
  /\ tx = [c \in Callers |-> None]
  /\ sweep = [at |-> "idle", rows |-> {}]
  /\ faults = 0

Goto(c, label, t) == pc' = [pc EXCEPT ![c] = label] /\ tx' = [tx EXCEPT ![c] = t]
Done(c) == Goto(c, "idle", None)

SetRow(t, status) == row' = [row EXCEPT ![t] = status]

\* { usedCount: { $gt: 0 } }, { $inc: { usedCount: -1 } }
Decremented == IF usedCount > 0 THEN usedCount - 1 ELSE 0

\* The rows the sweep has found and not yet marked.
Found(t) == sweep.at = "mark" /\ t \in sweep.rows

-----------------------------------------------------------------------------
(* reservePromoCode.                                                       *)

\* Mutant: the limit is compared the wrong way round at the boundary.
UseLeftOrLast == usedCount <= Limit

UseLeft == usedCount < Limit

\* One conditional increment takes the use ...
TakeUse(c, t) ==
  /\ pc[c] = "idle"
  /\ t \notin asked
  /\ UseLeft
  /\ usedCount' = usedCount + 1
  /\ asked' = asked \cup {t}
  /\ Goto(c, "insert", t)
  /\ UNCHANGED <<row, paid, committed, refunded, late, sweep, faults>>

\* ... and the row records it ...
InsertRow(c) ==
  /\ pc[c] = "insert"
  /\ SetRow(tx[c], "RESERVED")
  /\ Done(c)
  /\ UNCHANGED <<usedCount, asked, paid, committed, refunded, late, sweep, faults>>

\* ... or the use is handed back when the row cannot be written.
InsertFails(c) ==
  /\ pc[c] = "insert"
  /\ faults < MaxFaults
  /\ faults' = faults + 1
  /\ usedCount' = Decremented
  /\ Done(c)
  /\ UNCHANGED <<row, asked, paid, committed, refunded, late, sweep>>

\* The customer pays the open order, however late.
Pay(t) ==
  /\ row[t] # "NONE"
  /\ t \notin paid
  /\ paid' = paid \cup {t}
  /\ UNCHANGED <<usedCount, row, asked, committed, refunded, late, pc, tx, sweep, faults>>

-----------------------------------------------------------------------------
(* releasePromoCode: a failed payment, a failed order, a swept checkout.   *)

\* Mutant: the row is released whatever its status.
ReleasableAlways(t) == row[t] # "NONE"

Releasable(t) == row[t] = "RESERVED"

ReleaseRow(c, t) ==
  /\ pc[c] = "idle"
  /\ Releasable(t)
  /\ ~Found(t) \/ SweepRaces
  /\ SetRow(t, "RELEASED")
  /\ Goto(c, "giveback", t)
  /\ UNCHANGED <<usedCount, asked, paid, committed, refunded, late, sweep, faults>>

\* The second call of releasePromoCode and releaseConsumedPromoOnRefund.
GiveBack(c) ==
  /\ pc[c] = "giveback"
  /\ usedCount' = Decremented
  /\ Done(c)
  /\ UNCHANGED <<row, asked, paid, committed, refunded, late, sweep, faults>>

\* releaseConsumedPromoOnRefund, when the settings ask for it.
RefundRow(c, t) ==
  /\ pc[c] = "idle"
  /\ row[t] = "CONSUMED"
  /\ t \in committed \ refunded
  /\ SetRow(t, "RELEASED")
  /\ refunded' = refunded \cup {t}
  /\ Goto(c, "giveback", t)
  /\ UNCHANGED <<usedCount, asked, paid, committed, late, sweep, faults>>

-----------------------------------------------------------------------------
(* commitPromoCode: the settle of a payment, and its resume.               *)

ConsumeReserved(c, t) ==
  /\ pc[c] = "idle"
  /\ t \in paid
  /\ row[t] = "RESERVED"
  /\ ~Found(t) \/ SweepRaces
  /\ SetRow(t, "CONSUMED")
  /\ committed' = committed \cup {t}
  /\ UNCHANGED <<usedCount, asked, paid, refunded, late, pc, tx, sweep, faults>>

\* The reservation is gone.
MissReserved(c, t) ==
  /\ pc[c] = "idle"
  /\ t \in paid
  /\ row[t] \in {"CONSUMED", "RELEASED"}
  /\ Goto(c, "lookup", t)
  /\ UNCHANGED <<usedCount, row, asked, paid, committed, refunded, late, sweep, faults>>

AlreadyConsumed(c) ==
  /\ pc[c] = "lookup"
  /\ row[tx[c]] = "CONSUMED"
  /\ committed' = committed \cup {tx[c]}
  /\ Done(c)
  /\ UNCHANGED <<usedCount, row, asked, paid, refunded, late, sweep, faults>>

FindNoneConsumed(c) ==
  /\ pc[c] = "lookup"
  /\ row[tx[c]] # "CONSUMED"
  /\ pc' = [pc EXCEPT ![c] = "count"]
  /\ UNCHANGED <<usedCount, row, asked, paid, committed, refunded, late, tx, sweep, faults>>

\* Mutant: a lapsed reservation is honoured and not counted.
CountedAgainNot == usedCount

CountedAgain == usedCount + 1

\* The discount was given, so the use is counted again, over the limit if need
\* be ...
CountAgain(c) ==
  /\ pc[c] = "count"
  /\ usedCount' = CountedAgain
  /\ pc' = [pc EXCEPT ![c] = "flip"]
  /\ UNCHANGED <<row, asked, paid, committed, refunded, late, tx, sweep, faults>>

\* ... and the released row flipped back.
FlipRow(c) ==
  /\ pc[c] = "flip"
  /\ row[tx[c]] = "RELEASED"
  /\ SetRow(tx[c], "CONSUMED")
  /\ committed' = committed \cup {tx[c]}
  /\ late' = late \cup {tx[c]}
  /\ Done(c)
  /\ UNCHANGED <<usedCount, asked, paid, refunded, sweep, faults>>

\* Another commit flipped it first: the insert that follows is refused by the
\* index on transactionId, and the commit throws.
FlipRefused(c) ==
  /\ pc[c] = "flip"
  /\ row[tx[c]] # "RELEASED"
  /\ Done(c)
  /\ UNCHANGED <<usedCount, row, asked, paid, committed, refunded, late, sweep, faults>>

-----------------------------------------------------------------------------
(* releaseStalePromoReservations, one run at a time.                       *)

\* Any reservation may have outlived its thirty minutes.
SweepFind ==
  /\ sweep.at = "idle"
  /\ \E rows \in SUBSET {t \in Transactions : row[t] = "RESERVED"} :
       /\ rows # {}
       /\ sweep' = [at |-> "mark", rows |-> rows]
  /\ UNCHANGED <<usedCount, row, asked, paid, committed, refunded, late, pc, tx, faults>>

\* The update names the rows by id alone.
SweepMark ==
  /\ sweep.at = "mark"
  /\ row' = [t \in Transactions |-> IF t \in sweep.rows THEN "RELEASED" ELSE row[t]]
  /\ sweep' = [sweep EXCEPT !.at = "decrement"]
  /\ UNCHANGED <<usedCount, asked, paid, committed, refunded, late, pc, tx, faults>>

\* Mutant: the uses of swept reservations are not put back.
SweptNothing == usedCount

\* The count falls by the number of rows found, or not at all.
Swept == LET n == Cardinality(sweep.rows) IN
         IF usedCount >= n THEN usedCount - n ELSE usedCount

SweepDecrement ==
  /\ sweep.at = "decrement"
  /\ usedCount' = Swept
  /\ sweep' = [at |-> "idle", rows |-> {}]
  /\ UNCHANGED <<row, asked, paid, committed, refunded, late, pc, tx, faults>>

-----------------------------------------------------------------------------
\* A call ends where it stands: its process died, or the database refused.
Crash(c) ==
  /\ pc[c] # "idle"
  /\ faults < MaxFaults
  /\ faults' = faults + 1
  /\ Done(c)
  /\ UNCHANGED <<usedCount, row, asked, paid, committed, refunded, late, sweep>>

CrashSweep ==
  /\ sweep.at # "idle"
  /\ faults < MaxFaults
  /\ faults' = faults + 1
  /\ sweep' = [at |-> "idle", rows |-> {}]
  /\ UNCHANGED <<usedCount, row, asked, paid, committed, refunded, late, pc, tx>>

Step(c) ==
  \/ InsertRow(c) \/ GiveBack(c) \/ AlreadyConsumed(c) \/ FindNoneConsumed(c)
  \/ CountAgain(c) \/ FlipRow(c) \/ FlipRefused(c)

Sweep == SweepFind \/ SweepMark \/ SweepDecrement

Next ==
  \/ \E c \in Callers, t \in Transactions :
       \/ TakeUse(c, t) \/ ReleaseRow(c, t) \/ RefundRow(c, t)
       \/ ConsumeReserved(c, t) \/ MissReserved(c, t)
  \/ \E c \in Callers : Step(c) \/ InsertFails(c) \/ Crash(c)
  \/ \E t \in Transactions : Pay(t)
  \/ Sweep \/ CrashSweep

\* A call that runs runs on; the sweep is scheduled for ever, and each of its
\* runs takes every row that has gone stale.
Fairness ==
  /\ \A c \in Callers : WF_vars(Step(c))
  /\ WF_vars(Sweep)
  /\ \A t \in Transactions : SF_vars(SweepFind /\ t \in sweep'.rows)

Spec == Init /\ [][Next]_vars /\ Fairness

-----------------------------------------------------------------------------
(* Properties.                                                             *)

Live == {t \in Transactions : row[t] \in {"RESERVED", "CONSUMED"}}

\* The fast counter never falls behind the rows that hold a use: it is what the
\* next reservation is granted against.
CounterCoversLive == usedCount >= Cardinality(Live)

\* Reservations never hold more uses than the code has; only a payment that
\* came in after its reservation had lapsed may go over.
NotOversold == Cardinality(Live \ late) <= Limit

\* A discount that was given stays on record as consumed, until a refund gives
\* it back.
GivenDiscountIsConsumed ==
  \A t \in committed \ refunded : row[t] = "CONSUMED"

\* Checkouts that are opened and abandoned do not lock the code for ever: as
\* long as no one has paid and nothing has failed, a use comes free again.
AbandonedUseReturns ==
  []<>(usedCount < Limit \/ paid # {} \/ faults > 0)
=============================================================================
