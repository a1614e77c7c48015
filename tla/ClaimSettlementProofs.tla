----------------------- MODULE ClaimSettlementProofs -----------------------
(***************************************************************************)
(* Proofs about ClaimSettlement, for any number of orders, payments and    *)
(* concurrent requests.  Inv is the inductive invariant: what every request*)
(* knows at each of its program points, and how the unique indexes and the *)
(* invoice counter keep the rows apart.                                    *)
(***************************************************************************)
EXTENDS ClaimSettlement, TLAPS

-----------------------------------------------------------------------------
(* The inductive invariant, in named parts.                                *)

Settling == {"usage", "insert", "flag", "redeem", "ledger", "allot", "attach",
             "invoiced", "complete"}

\* A payment that settled its order, or is on record beside it.
Accounted(p) ==
  LET o == OrderOf[p] IN
  verified[o] /\ (settledBy[o] = p \/ p \in duplicates[o] \cup unlogged)

\* A running request works on a payment of its order; a resume on the payment
\* that settled it.
LocalsInv ==
  \A w \in Workers : pc[w] # "idle" =>
    /\ ord[w] \in Orders /\ pmt[w] \in Payments /\ OrderOf[pmt[w]] = ord[w]
    /\ kind[w] = "resume" => verified[ord[w]] /\ settledBy[ord[w]] = pmt[w]

\* A settled order is settled with a payment of its own.
SettledInv ==
  \A o \in Orders :
    /\ verified[o] <=> settledBy[o] # None
    /\ verified[o] => OrderOf[settledBy[o]] = o

\* What a request that got past the conditional claim knows of its order.
Progress(w) ==
  /\ pc[w] \in Settling => verified[ord[w]] /\ settledBy[ord[w]] = pmt[w]
  /\ pc[w] = "double" => verified[ord[w]]
  /\ pc[w] \in {"redeem", "ledger", "allot", "attach", "invoiced", "complete"} =>
       usage[ord[w]] # "NONE"
  /\ pc[w] \in {"allot", "attach", "invoiced", "complete"} => ledger[ord[w]] = Entries
  /\ pc[w] \in {"invoiced", "complete"} => invoice[ord[w]] # 0
  /\ numbered[w] => pc[w] # "idle" /\ invoice[ord[w]] # 0

ProgressInv == \A w \in Workers : Progress(w)

\* Another order's row holds the once-per-user slot.
Conflicted(o) == \E x \in Orders : SameSlot(o, x) /\ usage[x] = "ROW"

\* The redemption rows: one unflagged row to a slot, a flagged one only beside
\* it, and none of a redeemed claim missing.
RedeemInv ==
  /\ \A a, b \in Orders : SameSlot(a, b) /\ usage[a] = "ROW" => usage[b] # "ROW"
  /\ \A o \in Orders : usage[o] = "FLAGGED" => Conflicted(o)
  /\ \A w \in Workers : pc[w] = "flag" /\ usage[ord[w]] = "NONE" => Conflicted(ord[w])
  /\ \A o \in Orders : claim[o] = "REDEEMED" => usage[o] # "NONE"

\* The counter is ahead of every number drawn from it, and a drawn number is
\* in one hand only: on an order, or with the request about to attach it.
NumberInv ==
  /\ \A o \in Orders : invoice[o] <= counter
  /\ \A w \in Workers : pc[w] = "attach" => number[w] \in 1..counter
  /\ \A w \in Workers, o \in Orders : pc[w] = "attach" => number[w] # invoice[o]
  /\ \A w, x \in Workers :
       pc[w] = "attach" /\ pc[x] = "attach" /\ number[w] = number[x] => w = x

AnswerInv == \A w \in Workers : pc[w] = "answer" => Accounted(pmt[w])

SweepInv == sweep.at # "idle" => sweep.order \in Orders

Inv ==
  /\ TypeOK /\ LocalsInv /\ SettledInv /\ ProgressInv /\ RedeemInv /\ NumberInv
  /\ AnswerInv /\ SweepInv
  /\ CompleteIsWhole /\ InvoiceNumbersUnique /\ AnsweredPaymentIsAccounted

(* TypeOK in three parts.                                                  *)

RecordsTyped ==
  /\ claim \in [Orders -> ClaimStatus]
  /\ slotHeld \in [Orders -> BOOLEAN]
  /\ verified \in [Orders -> BOOLEAN]
  /\ deleted \in [Orders -> BOOLEAN]
  /\ settledBy \in [Orders -> Payments \cup {None}]
  /\ stage \in [Orders -> Stages]
  /\ invoice \in [Orders -> Nat]
  /\ duplicates \in [Orders -> SUBSET Payments]
  /\ usage \in [Orders -> {"NONE", "ROW", "FLAGGED"}]
  /\ ledger \in [Orders -> SUBSET Entries]
  /\ counter \in Nat

RestTyped ==
  /\ payState \in [Payments -> {"none", "authorized", "captured"}]
  /\ event \in [Payments -> {"NONE", "RECEIVED", "PROCESSED", "IGNORED", "FAILED"}]
  /\ unlogged \subseteq Payments
  /\ sweep \in [order : Orders \cup {None}, at : {"idle", "cancel", "tx"}]
  /\ faults \in 0..MaxFaults

LocalsTyped ==
  /\ pc \in [Workers -> Labels]
  /\ kind \in [Workers -> {"verify", "webhook", "resume"}]
  /\ ord \in [Workers -> Orders \cup {None}]
  /\ pmt \in [Workers -> Payments \cup {None}]
  /\ captured \in [Workers -> BOOLEAN]
  /\ numbered \in [Workers -> BOOLEAN]
  /\ number \in [Workers -> Nat]

\* The three parts make up TypeOK.
LEMMA TypeParts == TypeOK <=> RecordsTyped /\ RestTyped /\ LocalsTyped
PROOF
  BY DEF TypeOK, RecordsTyped, RestTyped, LocalsTyped

-----------------------------------------------------------------------------
(* Lemmas.                                                                 *)

USE DEF Workers, records, locals, vars, Goto, SetStage

\* What a request that leaves may do to its own locals, and that it leaves the
\* others' alone: Done, Return and Throw are these steps.
LEMMA Leaves ==
  ASSUME LocalsTyped, NEW w \in Workers, Done(w) \/ Return(w) \/ Throw(w)
  PROVE  /\ LocalsTyped'
         /\ pc'[w] \in {"idle", "answer", "fail"}
         /\ Done(w) => pc'[w] = "idle"
         /\ pc'[w] = "idle" => ~numbered'[w]
         /\ Throw(w) => pc'[w] # "answer"
         /\ pc'[w] # "idle" => UNCHANGED locals
         /\ \A x \in Workers : x # w =>
              /\ pc'[x] = pc[x] /\ kind'[x] = kind[x] /\ ord'[x] = ord[x]
              /\ pmt'[x] = pmt[x] /\ captured'[x] = captured[x]
              /\ numbered'[x] = numbered[x] /\ number'[x] = number[x]
PROOF
<1>1. CASE Done(w)
  BY <1>1 DEF LocalsTyped, Labels, Done, Throw
<1>2. CASE Goto(w, "answer") /\ UNCHANGED locals /\ Return(w) /\ kind[w] = "webhook"
  BY <1>2 DEF LocalsTyped, Labels, Done, Throw
<1>3. CASE Goto(w, "fail") /\ UNCHANGED locals /\ Throw(w)
  BY <1>3 DEF LocalsTyped, Labels, Done
<1>4. QED
  BY <1>1, <1>2, <1>3 DEF Return, Throw

\* A running request has an order and a payment.
Working == \A w \in Workers : pc[w] # "idle" => ord[w] \in Orders /\ pmt[w] \in Payments

\* The records keep their types.
LEMMA RecordsStep ==
  ASSUME RecordsTyped, RestTyped, LocalsTyped, Working, [Next]_vars
  PROVE  RecordsTyped'
PROOF
<1> USE ConstantsAssumption DEF RecordsTyped, LocalsTyped, Working
<1>1. ASSUME NEW o \in Orders, OpenOrder(o)
      PROVE  RecordsTyped'
  BY <1>1 DEF OpenOrder, SlotFree, OncePerUserFree, ClaimStatus, Stages
<1>2. ASSUME NEW w \in Workers, FailClaim(w)
      PROVE  RecordsTyped'
  BY <1>2, Leaves DEF FailClaim, ClaimStatus, Stages
<1>3. ASSUME NEW w \in Workers, Take(w)
      PROVE  RecordsTyped'
  BY <1>3 DEF Take, Unclaimed, ClaimStatus, Stages
<1>4. ASSUME NEW w \in Workers, RecordSecondCapture(w)
      PROVE  RecordsTyped'
  BY <1>4, Leaves DEF RecordSecondCapture, SecondCapture, ClaimStatus, Stages
<1>5. ASSUME NEW w \in Workers, InsertUsage(w)
      PROVE  RecordsTyped'
  BY <1>5 DEF InsertUsage, OncePerUserFree, ClaimStatus, Stages
<1>6. ASSUME NEW w \in Workers, InsertFlaggedUsage(w)
      PROVE  RecordsTyped'
  BY <1>6 DEF InsertFlaggedUsage, ClaimStatus, Stages
<1>7. ASSUME NEW w \in Workers, RedeemClaim(w)
      PROVE  RecordsTyped'
  BY <1>7 DEF RedeemClaim, Redeemable, ClaimStatus, Stages
<1>8. ASSUME NEW w \in Workers, PostCaptureEntry(w)
      PROVE  RecordsTyped'
  BY <1>8 DEF PostCaptureEntry, ClaimStatus, Stages
<1>9. ASSUME NEW w \in Workers, Record(w)
      PROVE  RecordsTyped'
  BY <1>9 DEF Record, ClaimStatus, Stages
<1>10. ASSUME NEW w \in Workers, AllotNumber(w)
      PROVE  RecordsTyped'
  BY <1>10 DEF AllotNumber, NextNumber, ClaimStatus, Stages
<1>11. ASSUME NEW w \in Workers, AttachInvoice(w)
      PROVE  RecordsTyped'
  BY <1>11 DEF AttachInvoice, NoInvoiceYet, ClaimStatus, Stages
<1>12. ASSUME NEW w \in Workers, RecordInvoiced(w)
      PROVE  RecordsTyped'
  BY <1>12 DEF RecordInvoiced, ClaimStatus, Stages
<1>13. ASSUME NEW w \in Workers, Complete(w)
      PROVE  RecordsTyped'
  BY <1>13, Leaves DEF Complete, ClaimStatus, Stages
<1>14. CASE CancelStaleClaim
  BY <1>14 DEF CancelStaleClaim, StillPending, ClaimStatus, Stages
<1>15. CASE DeleteStaleTransaction
  BY <1>15 DEF DeleteStaleTransaction, ClaimStatus, Stages
<1>16. CASE UNCHANGED <<records>>
  BY <1>16 DEF ClaimStatus, Stages
<1>17. QED
  BY <1>1, <1>2, <1>3, <1>4, <1>5, <1>6, <1>7, <1>8, <1>9, <1>10, <1>11,
        <1>12, <1>13, <1>14, <1>15, <1>16
  DEF Next, Step, Sweep, StartResume, Pay, Capture, IgnoreCapturedEvent,
        StartVerify, StartCapturedEvent, FetchPayment, LoseTake, TakeBack,
        RecordSecondCaptureFails, SameCaptureAgain, FindUsage,
        InsertRefused, FlaggedRefused, AnswerEvent, DocumentFails, Crash,
        LookAtStaleClaim, SkipMovedClaim, CrashSweep

\* The gateway, the events and the sweep keep their types.
LEMMA RestStep ==
  ASSUME RecordsTyped, RestTyped, LocalsTyped, Working, SweepInv, [Next]_vars
  PROVE  RestTyped'
PROOF
<1> USE ConstantsAssumption DEF RestTyped, Working
<1>1. ASSUME NEW p \in Payments, Pay(p)
      PROVE  RestTyped'
  BY <1>1 DEF Pay
<1>2. ASSUME NEW p \in Payments, Capture(p)
      PROVE  RestTyped'
  BY <1>2 DEF Capture
<1>3. ASSUME NEW p \in Payments, IgnoreCapturedEvent(p)
      PROVE  RestTyped'
  BY <1>3 DEF IgnoreCapturedEvent
<1>4. ASSUME NEW w \in Handlers, NEW p \in Payments, StartCapturedEvent(w, p)
      PROVE  RestTyped'
  BY <1>4 DEF StartCapturedEvent
<1>5. ASSUME NEW w \in Workers, RecordSecondCaptureFails(w)
      PROVE  RestTyped'
  BY <1>5, Leaves DEF RecordSecondCaptureFails, SecondCapture
<1>6. ASSUME NEW w \in Workers, AnswerEvent(w)
      PROVE  RestTyped'
  BY <1>6, Leaves DEF AnswerEvent
<1>7. ASSUME NEW w \in Workers, DocumentFails(w)
      PROVE  RestTyped'
  BY <1>7, Leaves DEF DocumentFails
<1>8. ASSUME NEW w \in Workers, Crash(w)
      PROVE  RestTyped'
  BY <1>8, Leaves DEF Crash
<1>9. ASSUME NEW o \in Orders, LookAtStaleClaim(o)
      PROVE  RestTyped'
  BY <1>9 DEF LookAtStaleClaim
<1>10. CASE CancelStaleClaim
  BY <1>10 DEF CancelStaleClaim, StillPending
<1>11. CASE SkipMovedClaim
  BY <1>11 DEF SkipMovedClaim, StillPending
<1>12. CASE DeleteStaleTransaction
  BY <1>12 DEF DeleteStaleTransaction
<1>13. CASE CrashSweep
  BY <1>13 DEF CrashSweep
<1>14. CASE UNCHANGED <<payState, event, unlogged, sweep, faults>>
  BY <1>14
<1>15. QED
  BY <1>1, <1>2, <1>3, <1>4, <1>5, <1>6, <1>7, <1>8, <1>9, <1>10, <1>11,
        <1>12, <1>13, <1>14, ZenonT(30)
  DEF Next, Step, Sweep, OpenOrder, StartResume, StartVerify, FetchPayment,
        FailClaim, Take, LoseTake, TakeBack, RecordSecondCapture,
        SameCaptureAgain, FindUsage, InsertUsage, InsertRefused,
        InsertFlaggedUsage, FlaggedRefused, RedeemClaim, PostCaptureEntry,
        Record, AllotNumber, AttachInvoice, RecordInvoiced, Complete

\* The locals keep their types.
LEMMA LocalsStep ==
  ASSUME RecordsTyped, RestTyped, LocalsTyped, Working, [Next]_vars
  PROVE  LocalsTyped'
PROOF
<1> USE ConstantsAssumption DEF LocalsTyped, RecordsTyped
<1>1. ASSUME NEW o \in Orders, StartResume(o)
      PROVE  LocalsTyped'
  BY <1>1 DEF StartResume, Stranded, Labels
<1>2. ASSUME NEW w \in Handlers, NEW p \in Payments, StartVerify(w, p)
      PROVE  LocalsTyped'
  BY <1>2 DEF StartVerify, Labels
<1>3. ASSUME NEW w \in Handlers, NEW p \in Payments, StartCapturedEvent(w, p)
      PROVE  LocalsTyped'
  BY <1>3 DEF StartCapturedEvent, Labels
<1>4. ASSUME NEW w \in Workers, FetchPayment(w)
      PROVE  LocalsTyped'
  BY <1>4 DEF FetchPayment, Labels
<1>5. ASSUME NEW w \in Workers, FailClaim(w)
      PROVE  LocalsTyped'
  BY <1>5, Leaves DEF FailClaim, Labels
<1>6. ASSUME NEW w \in Workers, Take(w)
      PROVE  LocalsTyped'
  BY <1>6 DEF Take, Unclaimed, Labels
<1>7. ASSUME NEW w \in Workers, LoseTake(w)
      PROVE  LocalsTyped'
  BY <1>7 DEF LoseTake, Unclaimed, Labels
<1>8. ASSUME NEW w \in Workers, TakeBack(w)
      PROVE  LocalsTyped'
  BY <1>8 DEF TakeBack, Labels
<1>9. ASSUME NEW w \in Workers, RecordSecondCapture(w)
      PROVE  LocalsTyped'
  BY <1>9, Leaves DEF RecordSecondCapture, SecondCapture, Labels
<1>10. ASSUME NEW w \in Workers, RecordSecondCaptureFails(w)
      PROVE  LocalsTyped'
  BY <1>10, Leaves DEF RecordSecondCaptureFails, SecondCapture, Labels
<1>11. ASSUME NEW w \in Workers, SameCaptureAgain(w)
      PROVE  LocalsTyped'
  BY <1>11, Leaves DEF SameCaptureAgain, SecondCapture, Labels
<1>12. ASSUME NEW w \in Workers, FindUsage(w)
      PROVE  LocalsTyped'
  BY <1>12 DEF FindUsage, Labels
<1>13. ASSUME NEW w \in Workers, InsertUsage(w)
      PROVE  LocalsTyped'
  BY <1>13 DEF InsertUsage, OncePerUserFree, Labels
<1>14. ASSUME NEW w \in Workers, InsertRefused(w)
      PROVE  LocalsTyped'
  BY <1>14 DEF InsertRefused, Labels
<1>15. ASSUME NEW w \in Workers, InsertFlaggedUsage(w)
      PROVE  LocalsTyped'
  BY <1>15 DEF InsertFlaggedUsage, Labels
<1>16. ASSUME NEW w \in Workers, FlaggedRefused(w)
      PROVE  LocalsTyped'
  BY <1>16, Leaves DEF FlaggedRefused, Labels
<1>17. ASSUME NEW w \in Workers, RedeemClaim(w)
      PROVE  LocalsTyped'
  BY <1>17 DEF RedeemClaim, Redeemable, Labels
<1>18. ASSUME NEW w \in Workers, Record(w)
      PROVE  LocalsTyped'
  BY <1>18 DEF Record, Labels
<1>19. ASSUME NEW w \in Workers, AllotNumber(w)
      PROVE  LocalsTyped'
  BY <1>19 DEF AllotNumber, NextNumber, Labels
<1>20. ASSUME NEW w \in Workers, AttachInvoice(w)
      PROVE  LocalsTyped'
  BY <1>20 DEF AttachInvoice, NoInvoiceYet, Labels
<1>21. ASSUME NEW w \in Workers, RecordInvoiced(w)
      PROVE  LocalsTyped'
  BY <1>21 DEF RecordInvoiced, Labels
<1>22. ASSUME NEW w \in Workers, Complete(w)
      PROVE  LocalsTyped'
  BY <1>22, Leaves DEF Complete, Labels
<1>23. ASSUME NEW w \in Workers, AnswerEvent(w)
      PROVE  LocalsTyped'
  BY <1>23, Leaves DEF AnswerEvent, Labels
<1>24. ASSUME NEW w \in Workers, DocumentFails(w)
      PROVE  LocalsTyped'
  BY <1>24, Leaves DEF DocumentFails, Labels
<1>25. ASSUME NEW w \in Workers, Crash(w)
      PROVE  LocalsTyped'
  BY <1>25, Leaves DEF Crash, Labels
<1>26. CASE UNCHANGED <<pc, locals>>
  BY <1>26 DEF Labels
<1>27. QED
  BY <1>1, <1>2, <1>3, <1>4, <1>5, <1>6, <1>7, <1>8, <1>9, <1>10, <1>11,
        <1>12, <1>13, <1>14, <1>15, <1>16, <1>17, <1>18, <1>19, <1>20,
        <1>21, <1>22, <1>23, <1>24, <1>25, <1>26
  DEF Next, Step, Sweep, OpenOrder, Pay, Capture, IgnoreCapturedEvent,
        PostCaptureEntry, LookAtStaleClaim, CancelStaleClaim,
        SkipMovedClaim, DeleteStaleTransaction, CrashSweep

\* The sweep cancels an order of the system.
LEMMA SweepStep ==
  ASSUME SweepInv, RestTyped, [Next]_vars
  PROVE  SweepInv'
PROOF
<1> USE ConstantsAssumption DEF SweepInv
<1>1. ASSUME NEW o \in Orders, LookAtStaleClaim(o)
      PROVE  SweepInv'
  BY <1>1 DEF LookAtStaleClaim, RestTyped
<1>2. CASE CancelStaleClaim
  BY <1>2 DEF CancelStaleClaim, StillPending, RestTyped
<1>3. CASE SkipMovedClaim
  BY <1>3 DEF SkipMovedClaim, StillPending, RestTyped
<1>4. CASE DeleteStaleTransaction
  BY <1>4 DEF DeleteStaleTransaction, RestTyped
<1>5. CASE CrashSweep
  BY <1>5 DEF CrashSweep, RestTyped
<1>6. CASE UNCHANGED <<sweep>>
  BY <1>6 DEF RestTyped
<1>7. QED
  BY <1>1, <1>2, <1>3, <1>4, <1>5, <1>6, ZenonT(30)
  DEF Next, Step, Sweep, OpenOrder, StartResume, Pay, Capture,
        IgnoreCapturedEvent, StartVerify, StartCapturedEvent, FetchPayment,
        FailClaim, Take, LoseTake, TakeBack, RecordSecondCapture,
        RecordSecondCaptureFails, SameCaptureAgain, FindUsage, InsertUsage,
        InsertRefused, InsertFlaggedUsage, FlaggedRefused, RedeemClaim,
        PostCaptureEntry, Record, AllotNumber, AttachInvoice,
        RecordInvoiced, Complete, AnswerEvent, DocumentFails, Crash

\* Only the conditional claim makes an order settled.
LEMMA SettledStep ==
  ASSUME SettledInv, RecordsTyped, LocalsTyped, LocalsInv, [Next]_vars
  PROVE  SettledInv'
PROOF
<1> USE ConstantsAssumption DEF SettledInv, RecordsTyped, LocalsTyped, LocalsInv
<1>1. ASSUME NEW w \in Workers, Take(w)
      PROVE  SettledInv'
  BY <1>1 DEF Take, Unclaimed
<1>2. CASE UNCHANGED <<verified, settledBy>>
  BY <1>2
<1>3. QED
  BY <1>1, <1>2, ZenonT(30)
  DEF Next, Step, Sweep, OpenOrder, StartResume, Pay, Capture,
        IgnoreCapturedEvent, StartVerify, StartCapturedEvent, FetchPayment,
        FailClaim, LoseTake, TakeBack, RecordSecondCapture,
        RecordSecondCaptureFails, SameCaptureAgain, FindUsage, InsertUsage,
        InsertRefused, InsertFlaggedUsage, FlaggedRefused, RedeemClaim,
        PostCaptureEntry, Record, AllotNumber, AttachInvoice,
        RecordInvoiced, Complete, AnswerEvent, DocumentFails, Crash,
        LookAtStaleClaim, CancelStaleClaim, SkipMovedClaim,
        DeleteStaleTransaction, CrashSweep

\* The records of a settle only grow.
Grow ==
  /\ unlogged \subseteq unlogged'
  /\ \A o \in Orders :
       /\ verified[o] => verified'[o] /\ settledBy'[o] = settledBy[o]
       /\ usage[o] # "NONE" => usage'[o] = usage[o]
       /\ ledger[o] = Entries => ledger'[o] = Entries
       /\ invoice[o] # 0 => invoice'[o] = invoice[o]
       /\ duplicates[o] \subseteq duplicates'[o]

\* No step takes back what a settle wrote.
LEMMA Grows ==
  ASSUME SettledInv, RecordsTyped, LocalsTyped, Working, [Next]_vars
  PROVE  Grow
PROOF
<1> USE ConstantsAssumption DEF Grow, RecordsTyped, LocalsTyped, Working
<1>1. ASSUME NEW w \in Workers, Take(w)
      PROVE  Grow
  BY <1>1 DEF Take, Unclaimed
<1>2. ASSUME NEW w \in Workers, RecordSecondCapture(w)
      PROVE  Grow
  BY <1>2, Leaves DEF RecordSecondCapture, SecondCapture
<1>3. ASSUME NEW w \in Workers, RecordSecondCaptureFails(w)
      PROVE  Grow
  BY <1>3, Leaves DEF RecordSecondCaptureFails, SecondCapture
<1>4. ASSUME NEW w \in Workers, InsertUsage(w)
      PROVE  Grow
  BY <1>4 DEF InsertUsage, OncePerUserFree
<1>5. ASSUME NEW w \in Workers, InsertFlaggedUsage(w)
      PROVE  Grow
  BY <1>5 DEF InsertFlaggedUsage
<1>6. ASSUME NEW w \in Workers, PostCaptureEntry(w)
      PROVE  Grow
  BY <1>6 DEF PostCaptureEntry
<1>7. ASSUME NEW w \in Workers, AttachInvoice(w)
      PROVE  Grow
  BY <1>7 DEF AttachInvoice, NoInvoiceYet
<1>8. CASE UNCHANGED <<verified, settledBy, usage, ledger, invoice, duplicates, unlogged>>
  BY <1>8
<1>9. QED
  BY <1>1, <1>2, <1>3, <1>4, <1>5, <1>6, <1>7, <1>8, ZenonT(30)
  DEF Next, Step, Sweep, OpenOrder, StartResume, Pay, Capture,
        IgnoreCapturedEvent, StartVerify, StartCapturedEvent, FetchPayment,
        FailClaim, LoseTake, TakeBack, SameCaptureAgain, FindUsage,
        InsertRefused, FlaggedRefused, RedeemClaim, Record, AllotNumber,
        RecordInvoiced, Complete, AnswerEvent, DocumentFails, Crash,
        LookAtStaleClaim, CancelStaleClaim, SkipMovedClaim,
        DeleteStaleTransaction, CrashSweep

\* Only a refused insert brings a request to the retry.
LEMMA FlagEntered ==
  ASSUME LocalsTyped, Working, [Next]_vars, NEW x \in Workers, pc'[x] = "flag"
  PROVE  (pc[x] = "flag" /\ ord'[x] = ord[x]) \/ InsertRefused(x)
PROOF
<1> USE ConstantsAssumption DEF LocalsTyped, Working
<1>1. ASSUME NEW w \in Workers, Done(w) \/ Return(w) \/ Throw(w)
      PROVE  pc[x] = "flag" /\ ord'[x] = ord[x]
  BY <1>1, Leaves
<1>2. ASSUME NEW o \in Orders, StartResume(o)
      PROVE  pc[x] = "flag" /\ ord'[x] = ord[x]
  BY <1>2 DEF StartResume
<1>3. ASSUME NEW w \in Handlers, NEW p \in Payments,
             StartVerify(w, p) \/ StartCapturedEvent(w, p)
      PROVE  pc[x] = "flag" /\ ord'[x] = ord[x]
  BY <1>3 DEF StartVerify, StartCapturedEvent
<1>4. ASSUME NEW w \in Workers,
             FetchPayment(w) \/ Take(w) \/ LoseTake(w) \/ TakeBack(w) \/ FindUsage(w)
      PROVE  pc[x] = "flag" /\ ord'[x] = ord[x]
  BY <1>4 DEF FetchPayment, Take, LoseTake, TakeBack, FindUsage
<1>5. ASSUME NEW w \in Workers, InsertUsage(w) \/ InsertFlaggedUsage(w) \/ RedeemClaim(w)
      PROVE  pc[x] = "flag" /\ ord'[x] = ord[x]
  BY <1>5 DEF InsertUsage, InsertFlaggedUsage, RedeemClaim
<1>6. ASSUME NEW w \in Workers,
             Record(w) \/ AllotNumber(w) \/ AttachInvoice(w) \/ RecordInvoiced(w)
      PROVE  pc[x] = "flag" /\ ord'[x] = ord[x]
  BY <1>6 DEF Record, AllotNumber, AttachInvoice, RecordInvoiced
<1>7. ASSUME NEW w \in Workers, InsertRefused(w)
      PROVE  (pc[x] = "flag" /\ ord'[x] = ord[x]) \/ InsertRefused(x)
  BY <1>7 DEF InsertRefused
<1>8. CASE UNCHANGED <<pc, ord>>
  BY <1>8
<1>9. QED
  BY <1>1, <1>2, <1>3, <1>4, <1>5, <1>6, <1>7, <1>8, ZenonT(30)
  DEF Next, Step, Sweep, OpenOrder, Pay, Capture, IgnoreCapturedEvent, FailClaim,
        RecordSecondCapture, RecordSecondCaptureFails, SameCaptureAgain, FlaggedRefused,
        PostCaptureEntry, Complete, AnswerEvent, DocumentFails, Crash, LookAtStaleClaim,
        CancelStaleClaim, SkipMovedClaim, DeleteStaleTransaction, CrashSweep

\* A row is inserted where the slot is free, and a flagged one where another
\* order's row refused the insert.
LEMMA RowsStep ==
  ASSUME RedeemInv, RecordsTyped, Working, Grow, [Next]_vars
  PROVE  /\ \A a, b \in Orders : SameSlot(a, b) /\ usage'[a] = "ROW" => usage'[b] # "ROW"
         /\ \A o \in Orders : usage'[o] = "FLAGGED" => Conflicted(o)'
PROOF
<1> DEFINE Rows == /\ \A a, b \in Orders :
                        SameSlot(a, b) /\ usage[a] = "ROW" => usage[b] # "ROW"
                   /\ \A o \in Orders : usage[o] = "FLAGGED" => Conflicted(o)
<1> USE ConstantsAssumption DEF RecordsTyped, Working
<1>1. \A o \in Orders : Conflicted(o) => Conflicted(o)'
  BY DEF Conflicted, SameSlot, Grow
<1>2. ASSUME NEW w \in Workers, InsertUsage(w)
      PROVE  Rows'
  BY <1>1, <1>2 DEF InsertUsage, OncePerUserFree, SameSlot, RedeemInv
<1>3. ASSUME NEW w \in Workers, InsertFlaggedUsage(w)
      PROVE  Rows'
  BY <1>1, <1>3 DEF InsertFlaggedUsage, SameSlot, RedeemInv
<1>4. CASE UNCHANGED usage
  BY <1>1, <1>4 DEF SameSlot, RedeemInv
<1>5. Rows'
  BY <1>2, <1>3, <1>4, ZenonT(30)
  DEF Next, Step, Sweep, OpenOrder, StartResume, Pay, Capture, IgnoreCapturedEvent,
        StartVerify, StartCapturedEvent, FetchPayment, FailClaim, Take, LoseTake,
        TakeBack, RecordSecondCapture, RecordSecondCaptureFails, SameCaptureAgain,
        FindUsage, InsertRefused, FlaggedRefused, RedeemClaim, PostCaptureEntry, Record,
        AllotNumber, AttachInvoice, RecordInvoiced, Complete, AnswerEvent,
        DocumentFails, Crash, LookAtStaleClaim, CancelStaleClaim, SkipMovedClaim,
        DeleteStaleTransaction, CrashSweep
<1>6. QED
  BY <1>5 DEF SameSlot

\* A claim is redeemed after its row is there.
LEMMA RedeemedStep ==
  ASSUME RedeemInv, ProgressInv, RecordsTyped, Working, SweepInv, Grow, [Next]_vars
  PROVE  \A o \in Orders : claim'[o] = "REDEEMED" => usage'[o] # "NONE"
PROOF
<1> DEFINE HasRow == \A o \in Orders : claim[o] = "REDEEMED" => usage[o] # "NONE"
<1> USE ConstantsAssumption DEF RecordsTyped, Working, SweepInv
<1>1. \A o \in Orders : usage[o] # "NONE" => usage'[o] # "NONE"
  BY DEF Grow
<1>2. ASSUME NEW o \in Orders, OpenOrder(o)
      PROVE  HasRow'
  BY <1>1, <1>2 DEF OpenOrder, RedeemInv
<1>3. ASSUME NEW w \in Workers, FailClaim(w)
      PROVE  HasRow'
  BY <1>1, <1>3 DEF FailClaim, RedeemInv
<1>4. ASSUME NEW w \in Workers, RedeemClaim(w)
      PROVE  HasRow'
  BY <1>1, <1>4 DEF RedeemClaim, Redeemable, ProgressInv, Progress, RedeemInv
<1>5. CASE CancelStaleClaim
  BY <1>1, <1>5 DEF CancelStaleClaim, StillPending, RedeemInv
<1>6. CASE UNCHANGED claim
  BY <1>1, <1>6 DEF RedeemInv
<1>7. HasRow'
  BY <1>2, <1>3, <1>4, <1>5, <1>6, ZenonT(30)
  DEF Next, Step, Sweep, StartResume, Pay, Capture, IgnoreCapturedEvent,
        StartVerify, StartCapturedEvent, FetchPayment, Take, LoseTake,
        TakeBack, RecordSecondCapture, RecordSecondCaptureFails, SameCaptureAgain,
        FindUsage, InsertUsage, InsertRefused, InsertFlaggedUsage, FlaggedRefused,
        PostCaptureEntry, Record, AllotNumber, AttachInvoice, RecordInvoiced, Complete,
        AnswerEvent, DocumentFails, Crash, LookAtStaleClaim, SkipMovedClaim,
        DeleteStaleTransaction, CrashSweep
<1>8. QED
  BY <1>7

\* The rows of the redemptions stay as RedeemInv says.
LEMMA RedeemStep ==
  ASSUME RedeemInv, ProgressInv, RecordsTyped, LocalsTyped, Working, SweepInv, Grow,
         [Next]_vars
  PROVE  RedeemInv'
PROOF
<1>1. \A o \in Orders : Conflicted(o) => Conflicted(o)'
  BY DEF Conflicted, SameSlot, Grow
<1>2. ASSUME NEW w \in Workers, pc'[w] = "flag"
      PROVE  /\ ord'[w] = ord[w] /\ ord[w] \in Orders
             /\ usage'[ord[w]] = "NONE" => Conflicted(ord[w])'
  <2>1. CASE pc[w] = "flag" /\ ord'[w] = ord[w]
    <3>1. ord[w] \in Orders
      BY <2>1 DEF Working
    <3>2. usage'[ord[w]] = "NONE" => usage[ord[w]] = "NONE"
      BY <3>1 DEF Grow
    <3>3. usage[ord[w]] = "NONE" => Conflicted(ord[w])
      BY <2>1 DEF RedeemInv
    <3>4. QED
      BY <1>1, <2>1, <3>1, <3>2, <3>3
  <2>2. CASE InsertRefused(w)
    <3>1. ord'[w] = ord[w] /\ usage' = usage /\ ord[w] \in Orders
      BY <2>2 DEF InsertRefused, Working
    <3>2. usage[ord[w]] = "NONE" => Conflicted(ord[w])
      BY <2>2, <3>1 DEF InsertRefused, OncePerUserFree, Conflicted, SameSlot
    <3>3. QED
      BY <1>1, <3>1, <3>2
  <2>3. QED
    BY <1>2, <2>1, <2>2, FlagEntered
<1>3. \A w \in Workers :
        pc'[w] = "flag" /\ usage'[ord'[w]] = "NONE" => Conflicted(ord[w])' /\ ord'[w] = ord[w]
  BY <1>2
<1>4. QED
  BY <1>3, RowsStep, RedeemedStep DEF RedeemInv, SameSlot, Conflicted

\* A request that starts is given an order and a payment of it; one that runs on
\* keeps them.
LEMMA LocalsInvStep ==
  ASSUME LocalsInv, SettledInv, RecordsTyped, LocalsTyped, Grow, [Next]_vars
  PROVE  LocalsInv'
PROOF
<1> USE ConstantsAssumption DEF LocalsInv, LocalsTyped, Grow
<1>1. ASSUME NEW o \in Orders, StartResume(o)
      PROVE  LocalsInv'
  BY <1>1 DEF StartResume, Stranded, SettledInv, RecordsTyped
<1>2. ASSUME NEW w \in Handlers, NEW p \in Payments, StartVerify(w, p)
      PROVE  LocalsInv'
  BY <1>2 DEF StartVerify
<1>3. ASSUME NEW w \in Handlers, NEW p \in Payments, StartCapturedEvent(w, p)
      PROVE  LocalsInv'
  BY <1>3 DEF StartCapturedEvent
<1>4. ASSUME NEW w \in Workers, FetchPayment(w)
      PROVE  LocalsInv'
  BY <1>4 DEF FetchPayment
<1>5. ASSUME NEW w \in Workers, FailClaim(w)
      PROVE  LocalsInv'
  BY <1>5, Leaves DEF FailClaim
<1>6. ASSUME NEW w \in Workers, Take(w)
      PROVE  LocalsInv'
  BY <1>6 DEF Take, Unclaimed
<1>7. ASSUME NEW w \in Workers, LoseTake(w)
      PROVE  LocalsInv'
  BY <1>7 DEF LoseTake, Unclaimed
<1>8. ASSUME NEW w \in Workers, TakeBack(w)
      PROVE  LocalsInv'
  BY <1>8 DEF TakeBack
<1>9. ASSUME NEW w \in Workers, RecordSecondCapture(w)
      PROVE  LocalsInv'
  BY <1>9, Leaves DEF RecordSecondCapture, SecondCapture
<1>10. ASSUME NEW w \in Workers, RecordSecondCaptureFails(w)
      PROVE  LocalsInv'
  BY <1>10, Leaves DEF RecordSecondCaptureFails, SecondCapture
<1>11. ASSUME NEW w \in Workers, SameCaptureAgain(w)
      PROVE  LocalsInv'
  BY <1>11, Leaves DEF SameCaptureAgain, SecondCapture
<1>12. ASSUME NEW w \in Workers, FindUsage(w)
      PROVE  LocalsInv'
  BY <1>12 DEF FindUsage
<1>13. ASSUME NEW w \in Workers, InsertUsage(w)
      PROVE  LocalsInv'
  BY <1>13 DEF InsertUsage, OncePerUserFree
<1>14. ASSUME NEW w \in Workers, InsertRefused(w)
      PROVE  LocalsInv'
  BY <1>14 DEF InsertRefused
<1>15. ASSUME NEW w \in Workers, InsertFlaggedUsage(w)
      PROVE  LocalsInv'
  BY <1>15 DEF InsertFlaggedUsage
<1>16. ASSUME NEW w \in Workers, FlaggedRefused(w)
      PROVE  LocalsInv'
  BY <1>16, Leaves DEF FlaggedRefused
<1>17. ASSUME NEW w \in Workers, RedeemClaim(w)
      PROVE  LocalsInv'
  BY <1>17 DEF RedeemClaim, Redeemable
<1>18. ASSUME NEW w \in Workers, Record(w)
      PROVE  LocalsInv'
  BY <1>18 DEF Record
<1>19. ASSUME NEW w \in Workers, AllotNumber(w)
      PROVE  LocalsInv'
  BY <1>19 DEF AllotNumber, NextNumber
<1>20. ASSUME NEW w \in Workers, AttachInvoice(w)
      PROVE  LocalsInv'
  BY <1>20 DEF AttachInvoice, NoInvoiceYet
<1>21. ASSUME NEW w \in Workers, RecordInvoiced(w)
      PROVE  LocalsInv'
  BY <1>21 DEF RecordInvoiced
<1>22. ASSUME NEW w \in Workers, Complete(w)
      PROVE  LocalsInv'
  BY <1>22, Leaves DEF Complete
<1>23. ASSUME NEW w \in Workers, AnswerEvent(w)
      PROVE  LocalsInv'
  BY <1>23, Leaves DEF AnswerEvent
<1>24. ASSUME NEW w \in Workers, DocumentFails(w)
      PROVE  LocalsInv'
  BY <1>24, Leaves DEF DocumentFails
<1>25. ASSUME NEW w \in Workers, Crash(w)
      PROVE  LocalsInv'
  BY <1>25, Leaves DEF Crash
<1>26. CASE UNCHANGED <<pc, locals>>
  BY <1>26
<1>27. QED
  BY <1>1, <1>2, <1>3, <1>4, <1>5, <1>6, <1>7, <1>8, <1>9, <1>10, <1>11,
        <1>12, <1>13, <1>14, <1>15, <1>16, <1>17, <1>18, <1>19, <1>20,
        <1>21, <1>22, <1>23, <1>24, <1>25, <1>26
  DEF Next, Step, Sweep, OpenOrder, Pay, Capture, IgnoreCapturedEvent,
        PostCaptureEntry, LookAtStaleClaim, CancelStaleClaim,
        SkipMovedClaim, DeleteStaleTransaction, CrashSweep

\* A request that leaves knows nothing any more, and takes nothing from others.
LEMMA LeaveProgress ==
  ASSUME ProgressInv, LocalsInv, LocalsTyped, Grow,
         NEW w \in Workers, pc[w] # "idle", Done(w) \/ Return(w) \/ Throw(w)
  PROVE  ProgressInv'
PROOF
<1> SUFFICES ASSUME NEW x \in Workers PROVE Progress(x)'
  BY DEF ProgressInv
<1>1. Progress(x)
  BY DEF ProgressInv
<1>2. CASE x = w
  BY <1>1, <1>2, Leaves DEF Progress, Settling, Grow, LocalsInv
<1>3. CASE x # w
  BY <1>1, <1>3, Leaves DEF Progress, Settling, Grow, LocalsInv
<1>4. QED
  BY <1>2, <1>3

\* Every label of the settle is reached with the writes of the labels before it
\* done, by this request or by another.
LEMMA ProgressStep ==
  ASSUME ProgressInv, LocalsInv, RecordsTyped, LocalsTyped, NumberInv, Grow, [Next]_vars
  PROVE  ProgressInv'
PROOF
<1> USE ConstantsAssumption DEF ProgressInv, Progress, LocalsInv, LocalsTyped, Grow
<1>1. ASSUME NEW o \in Orders, StartResume(o)
      PROVE  ProgressInv'
  BY <1>1 DEF StartResume, Stranded, RecordsTyped, Settling
<1>2. ASSUME NEW w \in Handlers, NEW p \in Payments, StartVerify(w, p)
      PROVE  ProgressInv'
  BY <1>2 DEF StartVerify, RecordsTyped, Settling
<1>3. ASSUME NEW w \in Handlers, NEW p \in Payments, StartCapturedEvent(w, p)
      PROVE  ProgressInv'
  BY <1>3 DEF StartCapturedEvent, RecordsTyped, Settling
<1>4. ASSUME NEW w \in Workers, FetchPayment(w)
      PROVE  ProgressInv'
  BY <1>4 DEF FetchPayment, RecordsTyped, Settling
<1>5. ASSUME NEW w \in Workers, FailClaim(w)
      PROVE  ProgressInv'
  BY <1>5, LeaveProgress DEF FailClaim
<1>6. ASSUME NEW w \in Workers, Take(w)
      PROVE  ProgressInv'
  BY <1>6 DEF Take, Unclaimed, RecordsTyped, Settling
<1>7. ASSUME NEW w \in Workers, LoseTake(w)
      PROVE  ProgressInv'
  BY <1>7 DEF LoseTake, Unclaimed, RecordsTyped, Settling
<1>8. ASSUME NEW w \in Workers, TakeBack(w)
      PROVE  ProgressInv'
  BY <1>8 DEF TakeBack, RecordsTyped, Settling
<1>9. ASSUME NEW w \in Workers, RecordSecondCapture(w)
      PROVE  ProgressInv'
  BY <1>9, LeaveProgress DEF RecordSecondCapture
<1>10. ASSUME NEW w \in Workers, RecordSecondCaptureFails(w)
      PROVE  ProgressInv'
  BY <1>10, LeaveProgress DEF RecordSecondCaptureFails
<1>11. ASSUME NEW w \in Workers, SameCaptureAgain(w)
      PROVE  ProgressInv'
  BY <1>11, LeaveProgress DEF SameCaptureAgain
<1>12. ASSUME NEW w \in Workers, FindUsage(w)
      PROVE  ProgressInv'
  BY <1>12 DEF FindUsage, RecordsTyped, Settling
<1>13. ASSUME NEW w \in Workers, InsertUsage(w)
      PROVE  ProgressInv'
  BY <1>13 DEF InsertUsage, OncePerUserFree, RecordsTyped, Settling
<1>14. ASSUME NEW w \in Workers, InsertRefused(w)
      PROVE  ProgressInv'
  BY <1>14 DEF InsertRefused, RecordsTyped, Settling
<1>15. ASSUME NEW w \in Workers, InsertFlaggedUsage(w)
      PROVE  ProgressInv'
  BY <1>15 DEF InsertFlaggedUsage, RecordsTyped, Settling
<1>16. ASSUME NEW w \in Workers, FlaggedRefused(w)
      PROVE  ProgressInv'
  BY <1>16, LeaveProgress DEF FlaggedRefused
<1>17. ASSUME NEW w \in Workers, RedeemClaim(w)
      PROVE  ProgressInv'
  BY <1>17 DEF RedeemClaim, Redeemable, RecordsTyped, Settling
<1>18. ASSUME NEW w \in Workers, Record(w)
      PROVE  ProgressInv'
  BY <1>18 DEF Record, RecordsTyped, Settling
<1>19. ASSUME NEW w \in Workers, AllotNumber(w)
      PROVE  ProgressInv'
  BY <1>19 DEF AllotNumber, NextNumber, RecordsTyped, Settling
<1>20. ASSUME NEW w \in Workers, AttachInvoice(w)
      PROVE  ProgressInv'
  BY <1>20 DEF AttachInvoice, NoInvoiceYet, NumberInv, RecordsTyped, Settling
<1>21. ASSUME NEW w \in Workers, RecordInvoiced(w)
      PROVE  ProgressInv'
  BY <1>21 DEF RecordInvoiced, RecordsTyped, Settling
<1>22. ASSUME NEW w \in Workers, Complete(w)
      PROVE  ProgressInv'
  BY <1>22, LeaveProgress DEF Complete
<1>23. ASSUME NEW w \in Workers, AnswerEvent(w)
      PROVE  ProgressInv'
  BY <1>23, LeaveProgress DEF AnswerEvent
<1>24. ASSUME NEW w \in Workers, DocumentFails(w)
      PROVE  ProgressInv'
  BY <1>24, LeaveProgress DEF DocumentFails
<1>25. ASSUME NEW w \in Workers, Crash(w)
      PROVE  ProgressInv'
  BY <1>25, LeaveProgress DEF Crash
<1>26. CASE UNCHANGED <<pc, locals>>
  BY <1>26 DEF RecordsTyped, Settling
<1>27. QED
  BY <1>1, <1>2, <1>3, <1>4, <1>5, <1>6, <1>7, <1>8, <1>9, <1>10, <1>11,
        <1>12, <1>13, <1>14, <1>15, <1>16, <1>17, <1>18, <1>19, <1>20,
        <1>21, <1>22, <1>23, <1>24, <1>25, <1>26
  DEF Next, Step, Sweep, OpenOrder, Pay, Capture, IgnoreCapturedEvent,
        PostCaptureEntry, LookAtStaleClaim, CancelStaleClaim,
        SkipMovedClaim, DeleteStaleTransaction, CrashSweep

\* A number is drawn once, and attached or lost.
LEMMA NumberStep ==
  ASSUME NumberInv, RecordsTyped, LocalsTyped, LocalsInv, [Next]_vars
  PROVE  NumberInv'
PROOF
<1> USE ConstantsAssumption DEF NumberInv, LocalsTyped
<1>1. ASSUME NEW o \in Orders, StartResume(o)
      PROVE  NumberInv'
  BY <1>1 DEF StartResume, Stranded
<1>2. ASSUME NEW w \in Handlers, NEW p \in Payments, StartVerify(w, p)
      PROVE  NumberInv'
  BY <1>2 DEF StartVerify
<1>3. ASSUME NEW w \in Handlers, NEW p \in Payments, StartCapturedEvent(w, p)
      PROVE  NumberInv'
  BY <1>3 DEF StartCapturedEvent
<1>4. ASSUME NEW w \in Workers, FetchPayment(w)
      PROVE  NumberInv'
  BY <1>4 DEF FetchPayment
<1>5. ASSUME NEW w \in Workers, FailClaim(w)
      PROVE  NumberInv'
  BY <1>5, Leaves DEF FailClaim
<1>6. ASSUME NEW w \in Workers, Take(w)
      PROVE  NumberInv'
  BY <1>6 DEF Take, Unclaimed
<1>7. ASSUME NEW w \in Workers, LoseTake(w)
      PROVE  NumberInv'
  BY <1>7 DEF LoseTake, Unclaimed
<1>8. ASSUME NEW w \in Workers, TakeBack(w)
      PROVE  NumberInv'
  BY <1>8 DEF TakeBack
<1>9. ASSUME NEW w \in Workers, RecordSecondCapture(w)
      PROVE  NumberInv'
  BY <1>9, Leaves DEF RecordSecondCapture, SecondCapture
<1>10. ASSUME NEW w \in Workers, RecordSecondCaptureFails(w)
      PROVE  NumberInv'
  BY <1>10, Leaves DEF RecordSecondCaptureFails, SecondCapture
<1>11. ASSUME NEW w \in Workers, SameCaptureAgain(w)
      PROVE  NumberInv'
  BY <1>11, Leaves DEF SameCaptureAgain, SecondCapture
<1>12. ASSUME NEW w \in Workers, FindUsage(w)
      PROVE  NumberInv'
  BY <1>12 DEF FindUsage
<1>13. ASSUME NEW w \in Workers, InsertUsage(w)
      PROVE  NumberInv'
  BY <1>13 DEF InsertUsage, OncePerUserFree
<1>14. ASSUME NEW w \in Workers, InsertRefused(w)
      PROVE  NumberInv'
  BY <1>14 DEF InsertRefused
<1>15. ASSUME NEW w \in Workers, InsertFlaggedUsage(w)
      PROVE  NumberInv'
  BY <1>15 DEF InsertFlaggedUsage
<1>16. ASSUME NEW w \in Workers, FlaggedRefused(w)
      PROVE  NumberInv'
  BY <1>16, Leaves DEF FlaggedRefused
<1>17. ASSUME NEW w \in Workers, RedeemClaim(w)
      PROVE  NumberInv'
  BY <1>17 DEF RedeemClaim, Redeemable
<1>18. ASSUME NEW w \in Workers, Record(w)
      PROVE  NumberInv'
  BY <1>18 DEF Record
<1>19. ASSUME NEW w \in Workers, AllotNumber(w)
      PROVE  NumberInv'
  BY <1>19 DEF AllotNumber, NextNumber, RecordsTyped
<1>20. ASSUME NEW w \in Workers, AttachInvoice(w)
      PROVE  NumberInv'
  BY <1>20 DEF AttachInvoice, NoInvoiceYet, RecordsTyped, LocalsInv
<1>21. ASSUME NEW w \in Workers, RecordInvoiced(w)
      PROVE  NumberInv'
  BY <1>21 DEF RecordInvoiced
<1>22. ASSUME NEW w \in Workers, Complete(w)
      PROVE  NumberInv'
  BY <1>22, Leaves DEF Complete
<1>23. ASSUME NEW w \in Workers, AnswerEvent(w)
      PROVE  NumberInv'
  BY <1>23, Leaves DEF AnswerEvent
<1>24. ASSUME NEW w \in Workers, DocumentFails(w)
      PROVE  NumberInv'
  BY <1>24, Leaves, SMTT(30) DEF DocumentFails
<1>25. ASSUME NEW w \in Workers, Crash(w)
      PROVE  NumberInv'
  BY <1>25, Leaves DEF Crash
<1>26. CASE UNCHANGED <<invoice, counter, pc, number>>
  BY <1>26
<1>27. QED
  BY <1>1, <1>2, <1>3, <1>4, <1>5, <1>6, <1>7, <1>8, <1>9, <1>10, <1>11,
        <1>12, <1>13, <1>14, <1>15, <1>16, <1>17, <1>18, <1>19, <1>20,
        <1>21, <1>22, <1>23, <1>24, <1>25, <1>26
  DEF Next, Step, Sweep, OpenOrder, Pay, Capture, IgnoreCapturedEvent,
        PostCaptureEntry, LookAtStaleClaim, CancelStaleClaim,
        SkipMovedClaim, DeleteStaleTransaction, CrashSweep

\* A delivery that is about to be answered is accounted for.
LEMMA AnswerStep ==
  ASSUME AnswerInv, ProgressInv, LocalsInv, RecordsTyped, LocalsTyped, Grow, [Next]_vars
  PROVE  AnswerInv'
PROOF
<1> USE ConstantsAssumption DEF AnswerInv, Accounted, LocalsInv, LocalsTyped, Grow
<1>1. ASSUME NEW o \in Orders, StartResume(o)
      PROVE  AnswerInv'
  BY <1>1 DEF StartResume, Stranded
<1>2. ASSUME NEW w \in Handlers, NEW p \in Payments, StartVerify(w, p)
      PROVE  AnswerInv'
  BY <1>2 DEF StartVerify
<1>3. ASSUME NEW w \in Handlers, NEW p \in Payments, StartCapturedEvent(w, p)
      PROVE  AnswerInv'
  BY <1>3 DEF StartCapturedEvent
<1>4. ASSUME NEW w \in Workers, FetchPayment(w)
      PROVE  AnswerInv'
  BY <1>4 DEF FetchPayment
<1>5. ASSUME NEW w \in Workers, FailClaim(w)
      PROVE  AnswerInv'
  BY <1>5, Leaves DEF FailClaim
<1>6. ASSUME NEW w \in Workers, Take(w)
      PROVE  AnswerInv'
  BY <1>6 DEF Take, Unclaimed
<1>7. ASSUME NEW w \in Workers, LoseTake(w)
      PROVE  AnswerInv'
  BY <1>7 DEF LoseTake, Unclaimed
<1>8. ASSUME NEW w \in Workers, TakeBack(w)
      PROVE  AnswerInv'
  BY <1>8 DEF TakeBack
<1>9. ASSUME NEW w \in Workers, RecordSecondCapture(w)
      PROVE  AnswerInv'
  <2> SUFFICES ASSUME NEW x \in Workers, pc'[x] = "answer" PROVE Accounted(pmt[x])'
    OBVIOUS
  <2>1. CASE x = w
    <3>1. pmt' = pmt /\ pmt[w] \in Payments /\ ord[w] \in Orders /\ OrderOf[pmt[w]] = ord[w]
      BY <1>9, <2>1, Leaves DEF RecordSecondCapture
    <3>2. verified'[ord[w]] /\ pmt[w] \in duplicates'[ord[w]]
      BY <1>9, <3>1 DEF RecordSecondCapture, ProgressInv, Progress, RecordsTyped
    <3>3. QED
      BY <2>1, <3>1, <3>2
  <2>2. CASE x # w
    BY <1>9, <2>2, Leaves DEF RecordSecondCapture
  <2>3. QED
    BY <2>1, <2>2
<1>10. ASSUME NEW w \in Workers, RecordSecondCaptureFails(w)
      PROVE  AnswerInv'
  BY <1>10, Leaves DEF RecordSecondCaptureFails, SecondCapture, ProgressInv, Progress, Settling, RecordsTyped
<1>11. ASSUME NEW w \in Workers, SameCaptureAgain(w)
      PROVE  AnswerInv'
  BY <1>11, Leaves DEF SameCaptureAgain, SecondCapture, ProgressInv, Progress, Settling, RecordsTyped
<1>12. ASSUME NEW w \in Workers, FindUsage(w)
      PROVE  AnswerInv'
  BY <1>12 DEF FindUsage
<1>13. ASSUME NEW w \in Workers, InsertUsage(w)
      PROVE  AnswerInv'
  BY <1>13 DEF InsertUsage, OncePerUserFree
<1>14. ASSUME NEW w \in Workers, InsertRefused(w)
      PROVE  AnswerInv'
  BY <1>14 DEF InsertRefused
<1>15. ASSUME NEW w \in Workers, InsertFlaggedUsage(w)
      PROVE  AnswerInv'
  BY <1>15 DEF InsertFlaggedUsage
<1>16. ASSUME NEW w \in Workers, FlaggedRefused(w)
      PROVE  AnswerInv'
  BY <1>16, Leaves DEF FlaggedRefused
<1>17. ASSUME NEW w \in Workers, RedeemClaim(w)
      PROVE  AnswerInv'
  BY <1>17 DEF RedeemClaim, Redeemable
<1>18. ASSUME NEW w \in Workers, Record(w)
      PROVE  AnswerInv'
  BY <1>18 DEF Record
<1>19. ASSUME NEW w \in Workers, AllotNumber(w)
      PROVE  AnswerInv'
  BY <1>19 DEF AllotNumber, NextNumber
<1>20. ASSUME NEW w \in Workers, AttachInvoice(w)
      PROVE  AnswerInv'
  BY <1>20 DEF AttachInvoice, NoInvoiceYet
<1>21. ASSUME NEW w \in Workers, RecordInvoiced(w)
      PROVE  AnswerInv'
  BY <1>21 DEF RecordInvoiced
<1>22. ASSUME NEW w \in Workers, Complete(w)
      PROVE  AnswerInv'
  <2> SUFFICES ASSUME NEW x \in Workers, pc'[x] = "answer" PROVE Accounted(pmt[x])'
    OBVIOUS
  <2>1. CASE x = w
    <3>1. pmt'[w] = pmt[w] /\ pmt[w] \in Payments /\ OrderOf[pmt[w]] = ord[w]
      BY <1>22, <2>1, Leaves DEF Complete
    <3>2. /\ verified'[ord[w]] = verified[ord[w]] /\ settledBy'[ord[w]] = settledBy[ord[w]]
          /\ verified[ord[w]] /\ settledBy[ord[w]] = pmt[w]
      BY <1>22 DEF Complete, ProgressInv, Progress, Settling
    <3>3. QED
      BY <2>1, <3>1, <3>2
  <2>2. CASE x # w
    BY <1>22, <2>2, Leaves DEF Complete
  <2>3. QED
    BY <2>1, <2>2
<1>23. ASSUME NEW w \in Workers, AnswerEvent(w)
      PROVE  AnswerInv'
  BY <1>23, Leaves DEF AnswerEvent
<1>24. ASSUME NEW w \in Workers, DocumentFails(w)
      PROVE  AnswerInv'
  BY <1>24, Leaves, SMTT(30) DEF DocumentFails, SecondCapture, ProgressInv, Progress, Settling, RecordsTyped
<1>25. ASSUME NEW w \in Workers, Crash(w)
      PROVE  AnswerInv'
  BY <1>25, Leaves DEF Crash
<1>26. CASE UNCHANGED <<pc, locals>>
  BY <1>26
<1>27. QED
  BY <1>1, <1>2, <1>3, <1>4, <1>5, <1>6, <1>7, <1>8, <1>9, <1>10, <1>11,
        <1>12, <1>13, <1>14, <1>15, <1>16, <1>17, <1>18, <1>19, <1>20,
        <1>21, <1>22, <1>23, <1>24, <1>25, <1>26
  DEF Next, Step, Sweep, OpenOrder, Pay, Capture, IgnoreCapturedEvent,
        PostCaptureEntry, LookAtStaleClaim, CancelStaleClaim,
        SkipMovedClaim, DeleteStaleTransaction, CrashSweep

\* What was answered PROCESSED stays accounted for.
LEMMA AnsweredStep ==
  ASSUME AnsweredPaymentIsAccounted, AnswerInv, LocalsInv, RecordsTyped, RestTyped, Grow, [Next]_vars
  PROVE  AnsweredPaymentIsAccounted'
PROOF
<1> USE ConstantsAssumption DEF AnsweredPaymentIsAccounted, Accounted, Grow
<1>1. ASSUME NEW p \in Payments, IgnoreCapturedEvent(p)
      PROVE  AnsweredPaymentIsAccounted'
  BY <1>1 DEF IgnoreCapturedEvent, RestTyped
<1>2. ASSUME NEW w \in Handlers, NEW p \in Payments, StartCapturedEvent(w, p)
      PROVE  AnsweredPaymentIsAccounted'
  BY <1>2 DEF StartCapturedEvent, RestTyped
<1>3. ASSUME NEW w \in Workers, AnswerEvent(w)
      PROVE  AnsweredPaymentIsAccounted'
  BY <1>3 DEF AnswerEvent, AnswerInv, LocalsInv, RestTyped
<1>4. CASE UNCHANGED <<event>>
  BY <1>4 DEF RestTyped
<1>5. QED
  BY <1>1, <1>2, <1>3, <1>4, ZenonT(30)
  DEF Next, Step, Sweep, OpenOrder, StartResume, Pay, Capture, StartVerify,
        FetchPayment, FailClaim, Take, LoseTake, TakeBack,
        RecordSecondCapture, RecordSecondCaptureFails, SameCaptureAgain,
        FindUsage, InsertUsage, InsertRefused, InsertFlaggedUsage,
        FlaggedRefused, RedeemClaim, PostCaptureEntry, Record, AllotNumber,
        AttachInvoice, RecordInvoiced, Complete, DocumentFails, Crash,
        LookAtStaleClaim, CancelStaleClaim, SkipMovedClaim,
        DeleteStaleTransaction, CrashSweep

\* Only a settle that passed every stage writes COMPLETE.
LEMMA CompleteStep ==
  ASSUME CompleteIsWhole, ProgressInv, LocalsInv, RecordsTyped, Grow, [Next]_vars
  PROVE  CompleteIsWhole'
PROOF
<1> USE ConstantsAssumption DEF CompleteIsWhole, Whole, Grow, RecordsTyped
<1>1. ASSUME NEW w \in Workers, Take(w)
      PROVE  CompleteIsWhole'
  BY <1>1 DEF Take, Unclaimed
<1>2. ASSUME NEW w \in Workers, Record(w)
      PROVE  CompleteIsWhole'
  BY <1>2 DEF Record
<1>3. ASSUME NEW w \in Workers, RecordInvoiced(w)
      PROVE  CompleteIsWhole'
  BY <1>3 DEF RecordInvoiced
<1>4. ASSUME NEW w \in Workers, Complete(w)
      PROVE  CompleteIsWhole'
  BY <1>4 DEF Complete, ProgressInv, Progress, Settling, LocalsInv
<1>5. CASE UNCHANGED <<stage>>
  BY <1>5
<1>6. QED
  BY <1>1, <1>2, <1>3, <1>4, <1>5, ZenonT(30)
  DEF Next, Step, Sweep, OpenOrder, StartResume, Pay, Capture,
        IgnoreCapturedEvent, StartVerify, StartCapturedEvent, FetchPayment,
        FailClaim, LoseTake, TakeBack, RecordSecondCapture,
        RecordSecondCaptureFails, SameCaptureAgain, FindUsage, InsertUsage,
        InsertRefused, InsertFlaggedUsage, FlaggedRefused, RedeemClaim,
        PostCaptureEntry, AllotNumber, AttachInvoice, AnswerEvent,
        DocumentFails, Crash, LookAtStaleClaim, CancelStaleClaim,
        SkipMovedClaim, DeleteStaleTransaction, CrashSweep

\* Attaching a number that is on no order keeps the numbers apart.
LEMMA InvoiceStep ==
  ASSUME InvoiceNumbersUnique, NumberInv, RecordsTyped, [Next]_vars
  PROVE  InvoiceNumbersUnique'
PROOF
<1> USE ConstantsAssumption DEF InvoiceNumbersUnique, NumberInv, RecordsTyped
<1>1. ASSUME NEW w \in Workers, AttachInvoice(w)
      PROVE  InvoiceNumbersUnique'
  BY <1>1 DEF AttachInvoice, NoInvoiceYet
<1>2. CASE UNCHANGED <<invoice>>
  BY <1>2
<1>3. QED
  BY <1>1, <1>2, ZenonT(30)
  DEF Next, Step, Sweep, OpenOrder, StartResume, Pay, Capture,
        IgnoreCapturedEvent, StartVerify, StartCapturedEvent, FetchPayment,
        FailClaim, Take, LoseTake, TakeBack, RecordSecondCapture,
        RecordSecondCaptureFails, SameCaptureAgain, FindUsage, InsertUsage,
        InsertRefused, InsertFlaggedUsage, FlaggedRefused, RedeemClaim,
        PostCaptureEntry, Record, AllotNumber, RecordInvoiced, Complete,
        AnswerEvent, DocumentFails, Crash, LookAtStaleClaim,
        CancelStaleClaim, SkipMovedClaim, DeleteStaleTransaction,
        CrashSweep


-----------------------------------------------------------------------------
(* Theorems.                                                               *)

\* Inv holds before the first checkout.
LEMMA InvInit == Init => Inv
PROOF
<1> SUFFICES ASSUME Init PROVE Inv
  OBVIOUS
<1> USE ConstantsAssumption DEF Init
<1>1. TypeOK
  BY DEF TypeOK, ClaimStatus, Stages, Labels
<1>2. LocalsInv /\ SettledInv /\ ProgressInv /\ AnswerInv /\ SweepInv
  BY DEF LocalsInv, SettledInv, ProgressInv, Progress, Settling, AnswerInv, SweepInv
<1>3. RedeemInv /\ NumberInv
  BY DEF RedeemInv, NumberInv
<1>4. CompleteIsWhole /\ InvoiceNumbersUnique /\ AnsweredPaymentIsAccounted
  BY DEF CompleteIsWhole, InvoiceNumbersUnique, AnsweredPaymentIsAccounted
<1>5. QED
  BY <1>1, <1>2, <1>3, <1>4 DEF Inv

\* Grow follows from the invariant.
LEMMA InvGrow == Inv /\ [Next]_vars => Grow
PROOF
<1> SUFFICES ASSUME Inv, [Next]_vars PROVE Grow
  OBVIOUS
<1>1. Working
  BY DEF Inv, LocalsInv, Working
<1>2. QED
  BY <1>1, TypeParts, Grows DEF Inv

\* Inv is inductive.
LEMMA InvStep == Inv /\ [Next]_vars => Inv'
PROOF
<1> SUFFICES ASSUME Inv, [Next]_vars PROVE Inv'
  OBVIOUS
<1>1. RecordsTyped /\ RestTyped /\ LocalsTyped /\ Working
  BY TypeParts DEF Inv, LocalsInv, Working
<1>2. Grow
  BY InvGrow
<1>3. TypeOK'
  <2>1. RecordsTyped' /\ RestTyped' /\ LocalsTyped'
    BY <1>1, RecordsStep, RestStep, LocalsStep DEF Inv
  <2>2. QED
    BY <2>1 DEF TypeOK, RecordsTyped, RestTyped, LocalsTyped
<1>4. LocalsInv' /\ SettledInv' /\ ProgressInv' /\ AnswerInv'
  BY <1>1, <1>2, LocalsInvStep, SettledStep, ProgressStep, AnswerStep DEF Inv
<1>5. RedeemInv' /\ NumberInv' /\ SweepInv'
  BY <1>1, <1>2, RedeemStep, NumberStep, SweepStep DEF Inv
<1>6. CompleteIsWhole' /\ InvoiceNumbersUnique' /\ AnsweredPaymentIsAccounted'
  BY <1>1, <1>2, CompleteStep, InvoiceStep, AnsweredStep DEF Inv
<1>7. QED
  BY <1>3, <1>4, <1>5, <1>6 DEF Inv

\* Inv holds of every reachable state.
THEOREM Invariance == Spec => []Inv
PROOF
  BY InvInit, InvStep, PTL DEF Spec

\* The records, the locals of the requests and the sweep keep their types.
THEOREM TypeCorrect == Spec => []TypeOK
PROOF
<1>1. Inv => TypeOK
  BY DEF Inv
<1>2. QED
  BY <1>1, Invariance, PTL

\* However many checkouts, sweeps and late payments there are, all but one of the
\* redemptions of a once-per-user offer are flagged rows, and a flagged row always
\* stands beside the one that holds the slot: settleVoucherClaimPayment tells an
\* admin of every second redemption and of nothing else.
THEOREM SecondRedemptionFlagged == Spec => []SecondRedemptionIsFlagged
PROOF
<1>1. Inv => SecondRedemptionIsFlagged
  <2> SUFFICES ASSUME Inv, NEW a \in Orders
               PROVE  /\ \A b \in Orders : SameSlot(a, b) /\ Redeemed(a) /\ Redeemed(b)
                            => "FLAGGED" \in {usage[a], usage[b]}
                      /\ usage[a] = "FLAGGED" =>
                            \E b \in Orders : SameSlot(a, b) /\ usage[b] = "ROW"
    BY DEF SecondRedemptionIsFlagged
  <2>1. \A o \in Orders : usage[o] \in {"NONE", "ROW", "FLAGGED"}
    BY DEF Inv, TypeOK
  <2>2. \A o \in Orders : Redeemed(o) => usage[o] # "NONE"
    BY DEF Inv, RedeemInv, Redeemed
  <2>3. QED
    BY <2>1, <2>2 DEF Inv, RedeemInv, Conflicted
<1>2. QED
  BY <1>1, Invariance, PTL

\* Any number of racing and resumed settles leave COMPLETE only on an order
\* whose redemption row, ledger rows and invoice are there.
THEOREM CompleteMeansWhole == Spec => []CompleteIsWhole
PROOF
<1>1. Inv => CompleteIsWhole
  BY DEF Inv
<1>2. QED
  BY <1>1, Invariance, PTL

\* Numbers drawn by requests that race, crash or lose the attach are never
\* found on two orders.
THEOREM InvoicesDistinct == Spec => []InvoiceNumbersUnique
PROOF
<1>1. Inv => InvoiceNumbersUnique
  BY DEF Inv
<1>2. QED
  BY <1>1, Invariance, PTL

\* A delivery is answered PROCESSED only when its payment settled the order or
\* is recorded beside the one that did.
THEOREM AnsweredAccounted == Spec => []AnsweredPaymentIsAccounted
PROOF
<1>1. Inv => AnsweredPaymentIsAccounted
  BY DEF Inv
<1>2. QED
  BY <1>1, Invariance, PTL

\* One step takes back none of the three facts of SettlementIsFinal.
LEMMA FinalStep ==
  ASSUME RecordsTyped, Working, SweepInv, Grow, [Next]_vars, NEW o \in Orders
  PROVE  /\ invoice[o] # 0 => invoice'[o] = invoice[o]
         /\ claim[o] = "REDEEMED" => claim'[o] = "REDEEMED"
         /\ verified[o] /\ ~deleted[o] => ~deleted'[o]
PROOF
<1> DEFINE Final == /\ claim[o] = "REDEEMED" => claim'[o] = "REDEEMED"
                    /\ verified[o] /\ ~deleted[o] => ~deleted'[o]
<1> USE DEF RecordsTyped, Working, SweepInv
<1>1. ASSUME NEW x \in Orders, OpenOrder(x) PROVE Final
  BY <1>1 DEF OpenOrder
<1>2. ASSUME NEW w \in Workers, FailClaim(w) PROVE Final
  BY <1>2 DEF FailClaim
<1>3. ASSUME NEW w \in Workers, RedeemClaim(w) PROVE Final
  BY <1>3 DEF RedeemClaim, Redeemable
<1>4. CASE CancelStaleClaim
  BY <1>4 DEF CancelStaleClaim, StillPending
<1>5. CASE DeleteStaleTransaction
  BY <1>5 DEF DeleteStaleTransaction
<1>6. ASSUME claim' = claim, deleted' = deleted PROVE Final
  BY <1>6, Zenon
<1>7. Final
  BY <1>1, <1>2, <1>3, <1>4, <1>5, <1>6, ZenonT(30)
  DEF Next, Step, Sweep, StartResume, Pay, Capture, IgnoreCapturedEvent,
        StartVerify, StartCapturedEvent, FetchPayment, Take, LoseTake,
        TakeBack, RecordSecondCapture, RecordSecondCaptureFails,
        SameCaptureAgain, FindUsage, InsertUsage, InsertRefused,
        InsertFlaggedUsage, FlaggedRefused, PostCaptureEntry, Record,
        AllotNumber, AttachInvoice, RecordInvoiced, Complete, AnswerEvent,
        DocumentFails, Crash, LookAtStaleClaim, SkipMovedClaim, CrashSweep
<1>8. QED
  BY <1>7 DEF Grow

\* An invoice number never changes, a redeemed claim stays redeemed and a settled
\* transaction is not swept away.
THEOREM SettlementStaysFinal == Spec => SettlementIsFinal
PROOF
<1> DEFINE Final == \A o \in Orders :
       /\ invoice[o] # 0 => invoice'[o] = invoice[o]
       /\ claim[o] = "REDEEMED" => claim'[o] = "REDEEMED"
       /\ verified[o] /\ ~deleted[o] => ~deleted'[o]
<1>1. Inv /\ [Next]_vars => [Final]_vars
  <2> SUFFICES ASSUME Inv, [Next]_vars, NEW o \in Orders
               PROVE  /\ invoice[o] # 0 => invoice'[o] = invoice[o]
                      /\ claim[o] = "REDEEMED" => claim'[o] = "REDEEMED"
                      /\ verified[o] /\ ~deleted[o] => ~deleted'[o]
    OBVIOUS
  <2>1. RecordsTyped /\ Working /\ SweepInv /\ Grow
    BY TypeParts, InvGrow DEF Inv, LocalsInv, Working
  <2>2. QED
    BY <2>1, FinalStep
<1>2. QED
  BY <1>1, Invariance, PTL DEF Spec, SettlementIsFinal

-----------------------------------------------------------------------------
(* The refinement of PaidOnce.                                             *)

\* Nothing is paid, delivered or reported at first.
LEMMA PromiseInit == Init => Promise!Init
PROOF
<1> SUFFICES ASSUME Init PROVE Promise!Init
  OBVIOUS
<1>1. Delivered = {}
  BY DEF Init, Delivered, Whole
<1>2. Reported = {}
  BY DEF Init, Reported
<1>3. QED
  BY <1>1, <1>2 DEF Init, Promise!Init

\* Reported, element by element, now and after the step.
LEMMA ReportedMembers ==
  \A x : x \in Reported <=> x \in unlogged \/ \E o \in Orders : x \in duplicates[o]
PROOF
<1> DEFINE U == UNION {duplicates[o] : o \in Orders}
<1>1. \A x : x \in U <=> \E o \in Orders : x \in duplicates[o]
  BY Zenon
<1>2. Reported = U \cup unlogged
  BY DEF Reported
<1> HIDE DEF U
<1>3. QED
  BY <1>1, <1>2

\* The same of the next state: what is reported is unlogged, or a duplicate of an order.
LEMMA ReportedMembersNext ==
  \A x : x \in Reported' <=> x \in unlogged' \/ \E o \in Orders : x \in duplicates'[o]
PROOF
<1> DEFINE U == UNION {duplicates'[o] : o \in Orders}
<1>1. \A x : x \in U <=> \E o \in Orders : x \in duplicates'[o]
  BY Zenon
<1>2. Reported' = U \cup unlogged'
  BY DEF Reported
<1> HIDE DEF U
<1>3. QED
  BY <1>1, <1>2

\* A step that settles nothing, delivers nothing and reports nothing.
Unseen == UNCHANGED <<settledBy, Delivered, Reported>>

\* Rows that are written, but belong to the same sets: what Delivered and
\* Reported read is unchanged.
LEMMA UnseenStep ==
  ASSUME UNCHANGED <<settledBy, usage, ledger, invoice, duplicates, unlogged>>
  PROVE  Unseen
PROOF
  BY DEF Unseen, Delivered, Whole, Reported

\* A step that writes a record of one paid order delivers it, or nothing.
LEMMA DeliverStep ==
  ASSUME Grow, RecordsTyped, NEW w \in Workers, ord[w] \in Orders,
         SettledInv, verified[ord[w]],
         UNCHANGED <<settledBy, duplicates, unlogged>>,
         \A o \in Orders : o # ord[w] =>
           usage'[o] = usage[o] /\ ledger'[o] = ledger[o] /\ invoice'[o] = invoice[o]
  PROVE  [Promise!Next]_Promise!vars
PROOF
<1>1. UNCHANGED Reported
  BY DEF Reported
<1>2. \A o \in Orders : o # ord[w] => (o \in Delivered' <=> o \in Delivered)
  BY DEF Delivered, Whole
<1>3. Delivered \subseteq Delivered'
  BY DEF Delivered, Whole, Grow
<1>4. CASE ord[w] \in Delivered'
  <2>1. Delivered' = Delivered \cup {ord[w]}
    BY <1>2, <1>3, <1>4 DEF Delivered
  <2>2. Promise!Deliver(ord[w])
    BY <1>1, <2>1 DEF Promise!Deliver, SettledInv
  <2>3. QED
    BY <2>2 DEF Promise!Next
<1>5. CASE ord[w] \notin Delivered'
  <2>1. UNCHANGED Delivered
    BY <1>2, <1>3, <1>5 DEF Delivered
  <2>2. QED
    BY <1>1, <2>1 DEF Promise!vars
<1>6. QED
  BY <1>4, <1>5

\* Each step settles, delivers or reports in PaidOnce, or stutters there.
LEMMA PromiseStep == Inv /\ [Next]_vars => [Promise!Next]_Promise!vars
PROOF
<1> SUFFICES ASSUME Inv, [Next]_vars PROVE [Promise!Next]_Promise!vars
  OBVIOUS
<1>0. /\ RecordsTyped /\ LocalsTyped /\ RestTyped /\ Working /\ Grow
      /\ LocalsInv /\ ProgressInv /\ SettledInv
  BY TypeParts, InvGrow DEF Inv, LocalsInv, Working
<1> USE ConstantsAssumption
<1>1. ASSUME NEW w \in Workers, Take(w)
      PROVE  Promise!Next
  <2>1. Delivered' = Delivered /\ Reported' = Reported
    BY <1>1 DEF Take, Delivered, Whole, Reported
  <2>2. Promise!Settle(ord[w], pmt[w])
    BY <1>0, <1>1, <2>1 DEF Take, Unclaimed, Promise!Settle, SettledInv, LocalsInv
  <2>3. QED
    BY <1>0, <1>1, <2>2 DEF Take, Working, Promise!Next
<1>2. ASSUME NEW w \in Workers, RecordSecondCapture(w)
      PROVE  Promise!Next
  <2>1. Delivered' = Delivered
    BY <1>2 DEF RecordSecondCapture, Delivered, Whole
  <2>2. Reported' = Reported \cup {pmt[w]}
    <3>1. /\ \A o \in Orders : o # ord[w] => duplicates'[o] = duplicates[o]
          /\ duplicates'[ord[w]] = duplicates[ord[w]] \cup {pmt[w]}
          /\ ord[w] \in Orders
      BY <1>0, <1>2 DEF RecordSecondCapture, Working, RecordsTyped
    <3>2. unlogged' = unlogged
      BY <1>2 DEF RecordSecondCapture
    <3>3. \A x : x \in Reported' <=> x \in Reported \/ x = pmt[w]
      BY <3>1, <3>2, ReportedMembers, ReportedMembersNext
    <3>4. QED
      BY <3>3
  <2>3. Promise!Report(pmt[w])
    BY <1>0, <1>2, <2>1, <2>2 DEF RecordSecondCapture, SecondCapture, Promise!Report,
       LocalsInv, ProgressInv, Progress, SettledInv
  <2>4. QED
    BY <1>0, <1>2, <2>3 DEF RecordSecondCapture, Working, Promise!Next
<1>3. ASSUME NEW w \in Workers, RecordSecondCaptureFails(w)
      PROVE  Promise!Next
  <2>1. Delivered' = Delivered
    BY <1>3 DEF RecordSecondCaptureFails, Delivered, Whole
  <2>2. Reported' = Reported \cup {pmt[w]}
    <3>1. duplicates' = duplicates /\ unlogged' = unlogged \cup {pmt[w]}
      BY <1>3 DEF RecordSecondCaptureFails
    <3>2. \A x : x \in Reported' <=> x \in Reported \/ x = pmt[w]
      BY <3>1, ReportedMembers, ReportedMembersNext
    <3>3. QED
      BY <3>2
  <2>3. Promise!Report(pmt[w])
    BY <1>0, <1>3, <2>1, <2>2 DEF RecordSecondCaptureFails, SecondCapture,
       Promise!Report, LocalsInv, ProgressInv, Progress, SettledInv
  <2>4. QED
    BY <1>0, <1>3, <2>3 DEF RecordSecondCaptureFails, Working, Promise!Next
<1>4. ASSUME NEW w \in Workers,
             InsertUsage(w) \/ InsertFlaggedUsage(w) \/ PostCaptureEntry(w) \/ AttachInvoice(w)
      PROVE  [Promise!Next]_Promise!vars
  <2>1. ord[w] \in Orders /\ verified[ord[w]]
    BY <1>0, <1>4 DEF InsertUsage, InsertFlaggedUsage, PostCaptureEntry, AttachInvoice,
       Working, ProgressInv, Progress, Settling
  <2>2. UNCHANGED <<settledBy, duplicates, unlogged>>
    BY <1>4 DEF InsertUsage, InsertFlaggedUsage, PostCaptureEntry, AttachInvoice
  <2>3. \A o \in Orders : o # ord[w] =>
          usage'[o] = usage[o] /\ ledger'[o] = ledger[o] /\ invoice'[o] = invoice[o]
    BY <1>0, <1>4 DEF InsertUsage, InsertFlaggedUsage, PostCaptureEntry, AttachInvoice,
       RecordsTyped
  <2>4. QED
    BY <1>0, <2>1, <2>2, <2>3, DeliverStep
<1>5. CASE UNCHANGED <<settledBy, usage, ledger, invoice, duplicates, unlogged>>
  BY <1>5, UnseenStep DEF Unseen, Promise!vars
<1>6. QED
  BY <1>1, <1>2, <1>3, <1>4, <1>5
  DEF Next, Step, Sweep, OpenOrder, StartResume, Pay, Capture,
        IgnoreCapturedEvent, StartVerify, StartCapturedEvent, FetchPayment,
        FailClaim, LoseTake, TakeBack, SameCaptureAgain, FindUsage,
        InsertRefused, FlaggedRefused, RedeemClaim, Record, AllotNumber,
        RecordInvoiced, Complete, AnswerEvent, DocumentFails, Crash,
        LookAtStaleClaim, CancelStaleClaim, SkipMovedClaim,
        DeleteStaleTransaction, CrashSweep

\* However requests, retries, crashes and sweeps interleave, the settlement
\* machinery implements PaidOnce.
THEOREM Refinement == Spec => PaidOnceSpec
PROOF
<1>1. PaidOnceSpec <=> Promise!Init /\ [][Promise!Next]_Promise!vars
  BY DEF PaidOnceSpec, Promise!Spec
<1>2. QED
  BY <1>1, PromiseInit, PromiseStep, Invariance, PTL DEF Spec
=============================================================================
