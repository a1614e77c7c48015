----------------------- MODULE SettlementCycleProofs -----------------------
(***************************************************************************)
(* Proofs about SettlementCycle, for any number of payments, settlements,  *)
(* requests and faults: a settlement is paid for what it holds, no payout  *)
(* starts over a payment its settlement was to be flagged for, a refund or *)
(* a loss is deducted once while no debt is written off under a build, and *)
(* the books follow the last verdict while losses are handled in order.    *)
(***************************************************************************)
EXTENDS SettlementCycle, FiniteSetTheorems, TLAPS

-----------------------------------------------------------------------------
(* Types.                                                                  *)

Job == [s : Settlements \cup {None}, p : Payments \cup {None},
        kind : Kinds \cup {"NONE"}, rows : SUBSET Payments]
Stages == {"idle", "payments", "findrefunds", "refunds", "findlosses", "losses",
           "reserves", "submit"}
Building == [at : Stages, s : Settlements \cup {None}, found : SUBSET Payments, got : Counted]
Labels == {"idle", "record", "hold", "taint", "book", "unhold", "drop", "recount",
           "resubmit", "pay", "stamp"}

\* A request and a build know what they work on.
Knows(label, j) ==
  /\ label \in {"record", "hold", "taint", "book", "unhold"} => j.p \in Payments
  /\ label \in {"record", "hold", "taint", "book"} => j.kind \in Kinds
  /\ label \in {"drop", "recount", "resubmit", "pay"} => j.s \in Settlements

RequestsTyped ==
  /\ pc \in [Requests -> Labels] /\ job \in [Requests -> Job]
  /\ \A c \in Requests : Knows(pc[c], job[c])

BuildTyped == build \in Building /\ (build.at # "idle" => build.s \in Settlements)

SettlementsTyped ==
  /\ status \in [Settlements -> Statuses] /\ flagged \in [Settlements -> BOOLEAN]
  /\ tainted \in [Settlements -> SUBSET Payments]
  /\ counted \in [Settlements -> Counted]
  /\ reserveIn \in [Settlements -> Settlements \cup {None}]
  /\ reported \in [Settlements -> SUBSET Payments]

RowsTyped ==
  /\ claimed \in [Payments -> Settlements \cup {None}]
  /\ hold \in [Payments -> BOOLEAN]
  /\ refund \in [Payments -> {"NONE", "REQUESTED", "COMPLETED"}]
  /\ refundIn \in [Payments -> Settlements \cup {None}]
  /\ dispute \in [Payments -> {"NONE", "OPEN", "LOST", "WON"}]
  /\ lossIn \in [Payments -> Settlements \cup {None}]
  /\ forgiven \in [refunds : SUBSET Payments, losses : SUBSET Payments]
  /\ booked \in [Payments -> SUBSET {"CHARGEBACK", "CHARGEBACK_REVERSAL"}]

TypeInv ==
  SettlementsTyped /\ RowsTyped /\ BuildTyped /\ RequestsTyped /\ faults \in 0..MaxFaults

\* The type the runs check is part of the one the proofs carry, which also says what
\* a request knows at each of its steps.
LEMMA TypeInvIsTypeOK == TypeInv => TypeOK
BY DEF TypeInv, TypeOK, SettlementsTyped, RowsTyped, BuildTyped, RequestsTyped, Building,
       Stages, Labels, Job

\* A request that begins a stage, and one that goes on to it.
LEMMA BeginTyped ==
  ASSUME RequestsTyped, NEW c \in Requests, NEW label \in Labels, NEW j \in Job,
         Begin(c, label, j), Knows(label, j)
  PROVE  RequestsTyped'
<1>1. pc' = [pc EXCEPT ![c] = label] /\ job' = [job EXCEPT ![c] = j]
  BY DEF Begin, Goto
<1>2. pc' \in [Requests -> Labels] /\ job' \in [Requests -> Job]
  BY <1>1 DEF RequestsTyped
<1>3. ASSUME NEW d \in Requests PROVE Knows(pc'[d], job'[d])
  BY <1>1 DEF RequestsTyped
<1> QED
  BY <1>2, <1>3 DEF RequestsTyped, Knows

\* A request that goes on to its next stage with the locals it has.
LEMMA GotoTyped ==
  ASSUME RequestsTyped, NEW c \in Requests, NEW label \in Labels,
         Goto(c, label), job' = job, Knows(label, job[c])
  PROVE  RequestsTyped'
<1>1. pc' = [pc EXCEPT ![c] = label] /\ job' = job
  BY DEF Goto
<1>2. pc' \in [Requests -> Labels] /\ job' \in [Requests -> Job]
  BY <1>1 DEF RequestsTyped
<1>3. ASSUME NEW d \in Requests PROVE Knows(pc'[d], job'[d])
  BY <1>1 DEF RequestsTyped
<1> QED
  BY <1>2, <1>3 DEF RequestsTyped, Knows

\* A request that answers forgets its locals.
LEMMA DoneTyped == ASSUME RequestsTyped, NEW c \in Requests, Done(c) PROVE RequestsTyped'
<1>1. NoJob \in Job /\ "idle" \in Labels /\ Knows("idle", NoJob)
  BY DEF NoJob, Job, Labels, Knows
<1> QED
  BY <1>1, BeginTyped DEF Done

\* Only a build and its crash change the locals of the build.
LEMMA BuildMoves ==
  ASSUME [Next]_vars
  PROVE  \/ build' = build
         \/ ClaimPayments \/ FindRefunds \/ ClaimRefunds \/ FindLosses \/ ClaimLosses
         \/ ClaimReserves \/ Submit \/ CrashBuild
         \/ \E s \in Settlements : StartBuild(s)
BY DEF Next, BuildStep, Step, vars, settlementVars, rowVars, LetGo, SweepDraft,
       Approve, HoldSettlement, Cancel, DropTainted, Recount, Resubmit, PaySettlement,
       StampWriteOff, Record, HoldPayment, Taint, Book, Unhold, Crash, Redeliver,
       StartRebuild, CheckPayout, StartWriteOff, CompleteRefund, LookAtHold, StartRepair, StartEvent

\* The steps that change a settlement ...
LEMMA SettlementsMove ==
  ASSUME [Next]_vars
  PROVE  \/ /\ status' = status /\ flagged' = flagged /\ tainted' = tainted
            /\ counted' = counted /\ reported' = reported
         \/ Submit
         \/ \E s \in Settlements :
              StartBuild(s) \/ SweepDraft(s) \/ Approve(s) \/ HoldSettlement(s) \/ Cancel(s)
         \/ \E c \in Requests :
              Recount(c) \/ Resubmit(c) \/ PaySettlement(c) \/ Taint(c)
BY ZenonT(30) DEF Next, BuildStep, Step, vars, settlementVars, rowVars, ClaimPayments,
       FindRefunds, ClaimRefunds, FindLosses, ClaimLosses, ClaimReserves, CrashBuild,
       LetGo, DropTainted, StampWriteOff, Record, HoldPayment, Book, Unhold, Crash,
       Redeliver, StartRebuild, CheckPayout, StartWriteOff, CompleteRefund, LookAtHold, StartRepair,
       StartEvent

\* ... and what a settlement has claimed.
LEMMA ClaimsMove ==
  ASSUME [Next]_vars
  PROVE  \/ claimed' = claimed /\ refundIn' = refundIn /\ lossIn' = lossIn
         \/ ClaimPayments \/ ClaimRefunds \/ ClaimLosses
         \/ \E s \in Settlements : LetGo(s)
         \/ \E c \in Requests : DropTainted(c)
BY ZenonT(30) DEF Next, BuildStep, Step, vars, settlementVars, rowVars, FindRefunds, FindLosses,
       ClaimReserves, Submit, CrashBuild, StartBuild, SweepDraft, Approve,
       HoldSettlement, Cancel, Recount, Resubmit, PaySettlement, StampWriteOff, Record,
       HoldPayment, Taint, Book, Unhold, Crash, Redeliver, StartRebuild, CheckPayout,
       StartWriteOff, CompleteRefund, LookAtHold, StartRepair, StartEvent

\* The reserves are claimed and let go with the rest.
LEMMA ReservesMove ==
  ASSUME [Next]_vars
  PROVE  \/ reserveIn' = reserveIn
         \/ ClaimReserves
         \/ \E s \in Settlements : LetGo(s)
BY DEF Next, BuildStep, Step, vars, settlementVars, rowVars, ClaimPayments,
       FindRefunds, ClaimRefunds, FindLosses, ClaimLosses, Submit, CrashBuild,
       StartBuild, SweepDraft, Approve, HoldSettlement, Cancel, DropTainted, Recount,
       Resubmit, PaySettlement, StampWriteOff, Record, HoldPayment, Taint, Book, Unhold,
       Crash, Redeliver, StartRebuild, CheckPayout, StartWriteOff, CompleteRefund,
       LookAtHold, StartRepair, StartEvent

\* The steps that change what is known of a payment.
LEMMA RowsMove ==
  ASSUME [Next]_vars
  PROVE  \/ /\ hold' = hold /\ refund' = refund /\ dispute' = dispute
            /\ forgiven' = forgiven /\ booked' = booked
         \/ \E c \in Requests :
              StampWriteOff(c) \/ Record(c) \/ HoldPayment(c) \/ Book(c) \/ Unhold(c)
         \/ \E c \in Requests, p \in Payments : CompleteRefund(c, p)
BY ZenonT(30) DEF Next, BuildStep, Step, vars, settlementVars, rowVars, ClaimPayments,
       FindRefunds, ClaimRefunds, FindLosses, ClaimLosses, ClaimReserves, Submit,
       CrashBuild, StartBuild, LetGo, SweepDraft, Approve, HoldSettlement, Cancel,
       DropTainted, Recount, Resubmit, PaySettlement, Taint, Crash, Redeliver,
       StartRebuild, CheckPayout, StartWriteOff, LookAtHold, StartRepair, StartEvent

\* What dies counts.
LEMMA FaultsMove ==
  ASSUME [Next]_vars
  PROVE  \/ faults' = faults
         \/ CrashBuild
         \/ \E c \in Requests : Crash(c) \/ Redeliver(c)
BY DEF Next, BuildStep, Step, vars, settlementVars, rowVars, ClaimPayments,
       FindRefunds, ClaimRefunds, FindLosses, ClaimLosses, ClaimReserves, Submit,
       StartBuild, LetGo, SweepDraft, Approve, HoldSettlement, Cancel, DropTainted,
       Recount, Resubmit, PaySettlement, StampWriteOff, Record, HoldPayment, Taint,
       Book, Unhold, StartRebuild, CheckPayout, StartWriteOff, CompleteRefund,
       LookAtHold, StartRepair, StartEvent

\* The steps of a request move that request.
LEMMA RequestsMove ==
  ASSUME [Next]_vars
  PROVE  \/ pc' = pc /\ job' = job
         \/ \E c \in Requests :
              DropTainted(c) \/ Recount(c) \/ Resubmit(c) \/ PaySettlement(c) \/ StampWriteOff(c) \/ Record(c) \/ HoldPayment(c) \/ Taint(c) \/ Book(c) \/ Unhold(c) \/ Crash(c) \/ Redeliver(c)
         \/ \E c \in Requests, s \in Settlements : StartRebuild(c, s)
         \/ \E c \in Requests, s \in Settlements : CheckPayout(c, s)
         \/ \E c \in Requests, kind \in {"REFUND", "LOST"} :
              StartWriteOff(c, kind)
         \/ \E c \in Requests, p \in Payments : CompleteRefund(c, p)
         \/ \E c \in Requests, p \in Payments : LookAtHold(c, p)
         \/ \E c \in Requests, p \in Payments : StartRepair(c, p)
         \/ \E c \in Requests, p \in Payments, kind \in Kinds :
              StartEvent(c, p, kind)
BY DEF Next, BuildStep, Step, vars, settlementVars, rowVars, ClaimPayments,
       FindRefunds, ClaimRefunds, FindLosses, ClaimLosses, ClaimReserves, Submit,
       CrashBuild, StartBuild, LetGo, SweepDraft, Approve, HoldSettlement, Cancel

\* The steps that move a settlement or its totals.
LEMMA TotalsMove ==
  ASSUME [Next]_vars
  PROVE  \/ status' = status /\ counted' = counted
         \/ Submit
         \/ \E s \in Settlements :
              StartBuild(s) \/ SweepDraft(s) \/ Approve(s) \/ HoldSettlement(s) \/ Cancel(s)
         \/ \E c \in Requests : Recount(c) \/ Resubmit(c) \/ PaySettlement(c)
BY ZenonT(30) DEF Next, BuildStep, Step, vars, settlementVars, rowVars, ClaimPayments,
       FindRefunds, ClaimRefunds, FindLosses, ClaimLosses, ClaimReserves, CrashBuild,
       LetGo, DropTainted, StampWriteOff, Record, HoldPayment, Taint, Book, Unhold,
       Crash, Redeliver, StartRebuild, CheckPayout, StartWriteOff, CompleteRefund,
       LookAtHold, StartRepair, StartEvent

\* The steps that flag a settlement, and those that take a flag off.
LEMMA FlagsMove ==
  ASSUME [Next]_vars
  PROVE  \/ flagged' = flagged /\ tainted' = tainted
         \/ Submit
         \/ \E s \in Settlements :
              SweepDraft(s) \/ Approve(s) \/ HoldSettlement(s) \/ Cancel(s)
         \/ \E c \in Requests : Recount(c) \/ Resubmit(c) \/ Taint(c)
BY DEF Next, BuildStep, Step, vars, settlementVars, rowVars, ClaimPayments,
       FindRefunds, ClaimRefunds, FindLosses, ClaimLosses, ClaimReserves, CrashBuild,
       StartBuild, LetGo, DropTainted, PaySettlement, StampWriteOff, Record,
       HoldPayment, Book, Unhold, Crash, Redeliver, StartRebuild, CheckPayout,
       StartWriteOff, CompleteRefund, LookAtHold, StartRepair, StartEvent

\* Every step keeps the types of the requests ...
LEMMA RequestsStep == TypeInv /\ [Next]_vars => RequestsTyped'
<1> SUFFICES ASSUME TypeInv, [Next]_vars PROVE RequestsTyped'
  OBVIOUS
<1>1. CASE ClaimPayments
  BY <1>1 DEF ClaimPayments, TypeInv, RequestsTyped
<1>2. CASE FindRefunds
  BY <1>2 DEF FindRefunds, TypeInv, RequestsTyped
<1>3. CASE ClaimRefunds
  BY <1>3 DEF ClaimRefunds, TypeInv, RequestsTyped
<1>4. CASE FindLosses
  BY <1>4 DEF FindLosses, TypeInv, RequestsTyped
<1>5. CASE ClaimLosses
  BY <1>5 DEF ClaimLosses, TypeInv, RequestsTyped
<1>6. CASE ClaimReserves
  BY <1>6 DEF ClaimReserves, TypeInv, RequestsTyped
<1>7. CASE Submit
  BY <1>7 DEF Submit, TypeInv, RequestsTyped
<1>8. CASE CrashBuild
  BY <1>8 DEF CrashBuild, TypeInv, RequestsTyped
<1>9. ASSUME NEW s \in Settlements, StartBuild(s) PROVE RequestsTyped'
  BY <1>9 DEF StartBuild, TypeInv, RequestsTyped
<1>10. ASSUME NEW s \in Settlements, LetGo(s) PROVE RequestsTyped'
  BY <1>10 DEF LetGo, TypeInv, RequestsTyped
<1>11. ASSUME NEW s \in Settlements, SweepDraft(s) PROVE RequestsTyped'
  BY <1>11 DEF SweepDraft, TypeInv, RequestsTyped
<1>12. ASSUME NEW s \in Settlements, Approve(s) PROVE RequestsTyped'
  BY <1>12 DEF Approve, TypeInv, RequestsTyped
<1>13. ASSUME NEW s \in Settlements, HoldSettlement(s) PROVE RequestsTyped'
  BY <1>13 DEF HoldSettlement, TypeInv, RequestsTyped
<1>14. ASSUME NEW s \in Settlements, Cancel(s) PROVE RequestsTyped'
  BY <1>14 DEF Cancel, TypeInv, RequestsTyped
<1>15. ASSUME NEW c \in Requests, DropTainted(c) PROVE RequestsTyped'
  <2>1. "recount" \in Labels /\ Knows("recount", job[c])
    BY <1>15 DEF DropTainted, Labels, Knows, TypeInv, RequestsTyped
  <2> QED
    BY <1>15, <2>1, GotoTyped DEF DropTainted, TypeInv
<1>16. ASSUME NEW c \in Requests, Recount(c) PROVE RequestsTyped'
  <2>1. "resubmit" \in Labels /\ Knows("resubmit", job[c])
    BY <1>16 DEF Recount, Labels, Knows, TypeInv, RequestsTyped
  <2> QED
    BY <1>16, <2>1, GotoTyped DEF Recount, TypeInv
<1>17. ASSUME NEW c \in Requests, Resubmit(c) PROVE RequestsTyped'
  BY <1>17, DoneTyped DEF Resubmit, TypeInv
<1>18. ASSUME NEW c \in Requests, PaySettlement(c) PROVE RequestsTyped'
  BY <1>18, DoneTyped DEF PaySettlement, TypeInv
<1>19. ASSUME NEW c \in Requests, StampWriteOff(c) PROVE RequestsTyped'
  BY <1>19, DoneTyped DEF StampWriteOff, TypeInv
<1>20. ASSUME NEW c \in Requests, Record(c) PROVE RequestsTyped'
  <2>1. "hold" \in Labels /\ Knows("hold", job[c])
    BY <1>20 DEF Record, Labels, Knows, TypeInv, RequestsTyped
  <2>2. CASE Done(c)
    BY <2>2, DoneTyped DEF TypeInv
  <2>3. CASE Goto(c, "hold") /\ job' = job
    BY <2>1, <2>3, GotoTyped DEF TypeInv
  <2> QED
    BY <1>20, <2>2, <2>3 DEF Record
<1>21. ASSUME NEW c \in Requests, HoldPayment(c) PROVE RequestsTyped'
  <2>1. "taint" \in Labels /\ Knows("taint", job[c])
    BY <1>21 DEF HoldPayment, Labels, Knows, TypeInv, RequestsTyped
  <2> QED
    BY <1>21, <2>1, GotoTyped DEF HoldPayment, TypeInv
<1>22. ASSUME NEW c \in Requests, Taint(c) PROVE RequestsTyped'
  <2>1. "book" \in Labels /\ Knows("book", job[c])
    BY <1>22 DEF Taint, Labels, Knows, TypeInv, RequestsTyped
  <2>2. CASE Done(c)
    BY <2>2, DoneTyped DEF TypeInv
  <2>3. CASE Goto(c, "book") /\ job' = job
    BY <2>1, <2>3, GotoTyped DEF TypeInv
  <2> QED
    BY <1>22, <2>2, <2>3 DEF Taint
<1>23. ASSUME NEW c \in Requests, Book(c) PROVE RequestsTyped'
  BY <1>23, DoneTyped DEF Book, TypeInv
<1>24. ASSUME NEW c \in Requests, Unhold(c) PROVE RequestsTyped'
  BY <1>24, DoneTyped DEF Unhold, TypeInv
<1>25. ASSUME NEW c \in Requests, Crash(c) PROVE RequestsTyped'
  BY <1>25, DoneTyped DEF Crash, TypeInv
<1>26. ASSUME NEW c \in Requests, Redeliver(c) PROVE RequestsTyped'
  <2>1. [job[c] EXCEPT !.s = claimed[job[c].p]] \in Job /\ "record" \in Labels /\ Knows("record", [job[c] EXCEPT !.s = claimed[job[c].p]])
    BY <1>26, ZenonT(30) DEF Redeliver, Job, Labels, NoJob, Knows, TypeInv, RequestsTyped, RowsTyped, SettlementsTyped, Kinds, Holding
  <2> QED
    BY <1>26, <2>1, BeginTyped DEF Redeliver, TypeInv
<1>27. ASSUME NEW c \in Requests, NEW s \in Settlements, StartRebuild(c, s) PROVE RequestsTyped'
  <2>1. [NoJob EXCEPT !.s = s, !.rows = tainted[s]] \in Job /\ "drop" \in Labels /\ Knows("drop", [NoJob EXCEPT !.s = s, !.rows = tainted[s]])
    BY <1>27 DEF StartRebuild, Job, Labels, NoJob, Knows, TypeInv, RequestsTyped, RowsTyped, SettlementsTyped, Kinds
  <2> QED
    BY <1>27, <2>1, BeginTyped DEF StartRebuild, TypeInv
<1>28. ASSUME NEW c \in Requests, NEW s \in Settlements, CheckPayout(c, s) PROVE RequestsTyped'
  <2>1. [NoJob EXCEPT !.s = s] \in Job /\ "pay" \in Labels /\ Knows("pay", [NoJob EXCEPT !.s = s])
    BY <1>28 DEF CheckPayout, Job, Labels, NoJob, Knows, TypeInv, RequestsTyped, RowsTyped, SettlementsTyped, Kinds
  <2> QED
    BY <1>28, <2>1, BeginTyped DEF CheckPayout, TypeInv
<1>29. ASSUME NEW c \in Requests, NEW kind \in {"REFUND", "LOST"}, StartWriteOff(c, kind) PROVE RequestsTyped'
  <2>1. PICK rows \in SUBSET Payments :
          Begin(c, "stamp", [NoJob EXCEPT !.kind = kind, !.rows = rows])
    BY <1>29 DEF StartWriteOff
  <2>2. [NoJob EXCEPT !.kind = kind, !.rows = rows] \in Job /\ "stamp" \in Labels
        /\ Knows("stamp", [NoJob EXCEPT !.kind = kind, !.rows = rows])
    BY DEF Job, Labels, NoJob, Knows, Kinds
  <2> QED
    BY <2>1, <2>2, BeginTyped DEF TypeInv
<1>30. ASSUME NEW c \in Requests, NEW p \in Payments, CompleteRefund(c, p) PROVE RequestsTyped'
  <2>1. [NoJob EXCEPT !.p = p] \in Job /\ "unhold" \in Labels /\ Knows("unhold", [NoJob EXCEPT !.p = p])
    BY <1>30 DEF CompleteRefund, Job, Labels, NoJob, Knows, TypeInv, RequestsTyped, RowsTyped, SettlementsTyped, Kinds
  <2> QED
    BY <1>30, <2>1, BeginTyped DEF CompleteRefund, TypeInv, RequestsTyped
<1>31. ASSUME NEW c \in Requests, NEW p \in Payments, LookAtHold(c, p) PROVE RequestsTyped'
  <2>1. [NoJob EXCEPT !.p = p] \in Job /\ "unhold" \in Labels /\ Knows("unhold", [NoJob EXCEPT !.p = p])
    BY <1>31 DEF LookAtHold, Job, Labels, NoJob, Knows, TypeInv, RequestsTyped, RowsTyped, SettlementsTyped, Kinds
  <2> QED
    BY <1>31, <2>1, BeginTyped DEF LookAtHold, TypeInv
<1>32. ASSUME NEW c \in Requests, NEW p \in Payments, NEW kind \in Kinds, StartEvent(c, p, kind) PROVE RequestsTyped'
  <2>1. [NoJob EXCEPT !.p = p, !.kind = kind, !.s = claimed[p]] \in Job /\ "record" \in Labels /\ Knows("record", [NoJob EXCEPT !.p = p, !.kind = kind, !.s = claimed[p]])
    BY <1>32 DEF StartEvent, Job, Labels, NoJob, Knows, TypeInv, RequestsTyped, RowsTyped, SettlementsTyped, Kinds
  <2> QED
    BY <1>32, <2>1, BeginTyped DEF StartEvent, TypeInv
<1>33. ASSUME NEW c \in Requests, NEW p \in Payments, StartRepair(c, p) PROVE RequestsTyped'
  <2> DEFINE j == [NoJob EXCEPT !.p = p, !.kind = "REFUND", !.s = claimed[p]]
  <2>1. j \in Job /\ "hold" \in Labels /\ Knows("hold", j)
    BY DEF Job, Labels, NoJob, Knows, TypeInv, RowsTyped, Kinds
  <2> QED
    BY <1>33, <2>1, BeginTyped DEF StartRepair, TypeInv
<1>34. CASE UNCHANGED vars
  BY <1>34 DEF vars, TypeInv, RequestsTyped
<1> QED
  BY <1>1, <1>2, <1>3, <1>4, <1>5, <1>6, <1>7, <1>8, <1>9, <1>10, <1>11, <1>12, <1>13,
     <1>14, <1>15, <1>16, <1>17, <1>18, <1>19, <1>20, <1>21, <1>22, <1>23, <1>24, <1>25,
     <1>26, <1>27, <1>28, <1>29, <1>30, <1>31, <1>32, <1>33, <1>34
  DEF Next, BuildStep, Step

\* ... of the build ...
LEMMA BuildStepTyped == TypeInv /\ [Next]_vars => BuildTyped'
<1> SUFFICES ASSUME TypeInv, [Next]_vars PROVE BuildTyped'
  OBVIOUS
<1> USE DEF BuildTyped
<1>0. build \in Building /\ (build.at # "idle" => build.s \in Settlements) /\ NoBuild \in Building
      /\ NoBuild.at = "idle"
  BY DEF TypeInv, NoBuild, Nothing, Building, Stages, Counted
<1>1. CASE ClaimPayments
  BY <1>0, <1>1 DEF ClaimPayments, Building, Stages, Counted
<1>2. CASE FindRefunds
  <2>1. RefundsOwed \subseteq Payments
    BY DEF RefundsOwed
  <2> QED
    BY <1>0, <1>2, <2>1 DEF FindRefunds, Building, Stages, Counted
<1>3. CASE ClaimRefunds
  BY <1>0, <1>3 DEF ClaimRefunds, Building, Stages, Counted
<1>4. CASE FindLosses
  <2>1. LossesOwed \subseteq Payments
    BY DEF LossesOwed
  <2> QED
    BY <1>0, <1>4, <2>1 DEF FindLosses, Building, Stages, Counted
<1>5. CASE ClaimLosses
  BY <1>0, <1>5 DEF ClaimLosses, Building, Stages, Counted
<1>6. CASE ClaimReserves
  BY <1>0, <1>6 DEF ClaimReserves, Building, Stages, Counted
<1>7. CASE Submit
  BY <1>0, <1>7 DEF Submit
<1>8. CASE CrashBuild
  BY <1>0, <1>8 DEF CrashBuild
<1>9. ASSUME NEW s \in Settlements, StartBuild(s) PROVE BuildTyped'
  BY <1>0, <1>9 DEF StartBuild, NoBuild, Building, Stages
<1>10. CASE build' = build
  BY <1>0, <1>10 DEF BuildTyped
<1> QED
  BY <1>1, <1>2, <1>3, <1>4, <1>5, <1>6, <1>7, <1>8, <1>9, <1>10, BuildMoves
  DEF BuildStep

\* A settlement that moves stays one.
LEMMA MoveTyped ==
  ASSUME TypeInv, NEW s \in Settlements, NEW to \in Statuses, NEW totals \in Counted,
         Move(s, to, totals)
  PROVE  /\ status' \in [Settlements -> Statuses] /\ flagged' \in [Settlements -> BOOLEAN]
         /\ tainted' \in [Settlements -> SUBSET Payments]
         /\ counted' \in [Settlements -> Counted]
         /\ reported' \in [Settlements -> SUBSET Payments]
<1>1. Nothing \in Counted
  BY DEF Nothing, Counted
<1> QED
  BY <1>1 DEF Move, TypeInv, SettlementsTyped

\* ... of the settlements ...
LEMMA SettlementsStep == TypeInv /\ [Next]_vars => SettlementsTyped'
<1> SUFFICES ASSUME TypeInv, [Next]_vars PROVE SettlementsTyped'
  OBVIOUS
<1> DEFINE Goal == /\ status' \in [Settlements -> Statuses] /\ flagged' \in [Settlements -> BOOLEAN]
                   /\ tainted' \in [Settlements -> SUBSET Payments]
                   /\ counted' \in [Settlements -> Counted]
                   /\ reported' \in [Settlements -> SUBSET Payments]
<1>0. /\ status \in [Settlements -> Statuses] /\ flagged \in [Settlements -> BOOLEAN]
      /\ reported \in [Settlements -> SUBSET Payments]
      /\ tainted \in [Settlements -> SUBSET Payments]
      /\ counted \in [Settlements -> Counted]
      /\ {"PENDING_APPROVAL", "APPROVED", "ON_HOLD", "CANCELLED"} \subseteq Statuses
  BY DEF TypeInv, SettlementsTyped, Statuses
<1>1. ASSUME Submit PROVE Goal
  <2>1. build.s \in Settlements /\ build.got \in Counted
    BY <1>1 DEF Submit, TypeInv, BuildTyped, Building
  <2>2. Outcomes(build.got, {"PENDING_APPROVAL", "APPROVED"}) \subseteq Statuses
    BY DEF Outcomes, Statuses
  <2>4. ASSUME UNCHANGED <<status, flagged, tainted, counted, reported>> PROVE Goal
    BY <1>0, <2>4
  <2>5. \/ UNCHANGED <<status, flagged, tainted, counted, reported>>
        \/ \E to \in Statuses : Move(build.s, to, build.got)
    BY <1>1, <2>2 DEF Submit
  <2> QED
    BY <2>1, <2>4, <2>5, MoveTyped
<1>2. ASSUME NEW s \in Settlements, StartBuild(s) PROVE Goal
  BY <1>0, <1>2 DEF StartBuild, Statuses
<1>3. ASSUME NEW s \in Settlements, SweepDraft(s) PROVE Goal
  BY <1>0, <1>3, MoveTyped DEF SweepDraft
<1>4. ASSUME NEW s \in Settlements, Approve(s) PROVE Goal
  BY <1>0, <1>4, MoveTyped DEF Approve
<1>5. ASSUME NEW s \in Settlements, HoldSettlement(s) PROVE Goal
  BY <1>0, <1>5, MoveTyped DEF HoldSettlement
<1>6. ASSUME NEW s \in Settlements, Cancel(s) PROVE Goal
  BY <1>0, <1>6, MoveTyped DEF Cancel
<1>7. ASSUME NEW c \in Requests, Recount(c) PROVE Goal
  <2>1. job[c].s \in Settlements /\ Recounted(job[c].s) \in Counted
    <3>1. HeldRows(job[c].s) \in Counted
      BY DEF HeldRows, Counted
    <3>2. job[c].s \in Settlements
      BY <1>7 DEF Recount, TypeInv, RequestsTyped, Knows
    <3> QED
      BY <3>1, <3>2 DEF Recounted, Counted
  <2> QED
    BY <1>0, <1>7, <2>1 DEF Recount
<1>8. ASSUME NEW c \in Requests, Resubmit(c) PROVE Goal
  <2>1. job[c].s \in Settlements /\ counted[job[c].s] \in Counted
    BY <1>0, <1>8 DEF Resubmit, TypeInv, RequestsTyped, Knows
  <2>2. Outcomes(counted[job[c].s], {"PENDING_APPROVAL"}) \subseteq Statuses
    BY DEF Outcomes, Statuses
  <2> QED
    BY <1>0, <1>8, <2>1, <2>2, MoveTyped DEF Resubmit, TypeInv
<1>9. ASSUME NEW c \in Requests, PaySettlement(c) PROVE Goal
  BY <1>0, <1>9 DEF PaySettlement, Statuses
<1>10. ASSUME NEW c \in Requests, Taint(c) PROVE Goal
  <2>1. job[c].p \in Payments
    BY <1>10 DEF Taint, TypeInv, RequestsTyped, Knows
  <2>2. /\ flagged' \in [Settlements -> BOOLEAN]
        /\ tainted' \in [Settlements -> SUBSET Payments]
    <3>1. CASE Taintable(job[c].s)
      <4>1. /\ flagged' = [flagged EXCEPT ![job[c].s] = TRUE]
            /\ tainted' = [tainted EXCEPT ![job[c].s] = tainted[job[c].s] \cup {job[c].p}]
        BY <1>10, <3>1 DEF Taint
      <4> QED
        BY <1>0, <2>1, <4>1
    <3>2. CASE ~Taintable(job[c].s)
      BY <1>0, <1>10, <3>2 DEF Taint
    <3> QED
      BY <3>1, <3>2
  <2>3. reported' \in [Settlements -> SUBSET Payments]
    BY <1>0, <1>10, <2>1 DEF Taint
  <2>4. status' = status /\ counted' = counted
    BY <1>10 DEF Taint
  <2> QED
    BY <1>0, <2>2, <2>3, <2>4
<1>11. ASSUME /\ status' = status /\ flagged' = flagged /\ tainted' = tainted
            /\ counted' = counted /\ reported' = reported
      PROVE  Goal
  BY <1>0, <1>11
<1>12. Goal
  BY <1>1, <1>2, <1>3, <1>4, <1>5, <1>6, <1>7, <1>8, <1>9, <1>10, <1>11, SettlementsMove
<1>13. reserveIn' \in [Settlements -> Settlements \cup {None}]
  <2>1. reserveIn \in [Settlements -> Settlements \cup {None}]
    BY DEF TypeInv, SettlementsTyped
  <2>2. CASE ClaimReserves
    BY <2>1, <2>2 DEF ClaimReserves, TypeInv, BuildTyped
  <2>3. ASSUME NEW s \in Settlements, LetGo(s)
        PROVE reserveIn' \in [Settlements -> Settlements \cup {None}]
    BY <2>1, <2>3 DEF LetGo
  <2> QED
    BY <2>1, <2>2, <2>3, ReservesMove
<1> QED
  BY <1>12, <1>13 DEF SettlementsTyped

\* ... and of the rows.
LEMMA RowsStep == TypeInv /\ [Next]_vars => RowsTyped'
<1> SUFFICES ASSUME TypeInv, [Next]_vars PROVE RowsTyped'
  OBVIOUS
<1> DEFINE Goal == /\ hold' \in [Payments -> BOOLEAN]
                   /\ refund' \in [Payments -> {"NONE", "REQUESTED", "COMPLETED"}]
                   /\ dispute' \in [Payments -> {"NONE", "OPEN", "LOST", "WON"}]
                   /\ forgiven' \in [refunds : SUBSET Payments, losses : SUBSET Payments]
                   /\ booked' \in [Payments -> SUBSET {"CHARGEBACK", "CHARGEBACK_REVERSAL"}]
<1>0. /\ hold \in [Payments -> BOOLEAN]
      /\ refund \in [Payments -> {"NONE", "REQUESTED", "COMPLETED"}]
      /\ dispute \in [Payments -> {"NONE", "OPEN", "LOST", "WON"}]
      /\ forgiven \in [refunds : SUBSET Payments, losses : SUBSET Payments]
      /\ booked \in [Payments -> SUBSET {"CHARGEBACK", "CHARGEBACK_REVERSAL"}]
  BY DEF TypeInv, RowsTyped
<1>1. ASSUME NEW c \in Requests, StampWriteOff(c) PROVE Goal
  <2>1. job[c].rows \subseteq Payments
    BY DEF TypeInv, RequestsTyped, Job
  <2> QED
    BY <1>0, <1>1, <2>1 DEF StampWriteOff
<1>2. ASSUME NEW c \in Requests, Record(c) PROVE Goal
  <2>1. job[c].p \in Payments /\ job[c].kind \in {"REFUND", "OPEN", "LOST", "WON"}
    BY <1>2 DEF Record, TypeInv, RequestsTyped, Knows, Kinds
  <2> QED
    BY <1>0, <1>2, <2>1 DEF Record
<1>3. ASSUME NEW c \in Requests, HoldPayment(c) PROVE Goal
  BY <1>0, <1>3 DEF HoldPayment
<1>4. ASSUME NEW c \in Requests, Book(c) PROVE Goal
  BY <1>0, <1>4 DEF Book, Booking
<1>5. ASSUME NEW c \in Requests, Unhold(c) PROVE Goal
  BY <1>0, <1>5 DEF Unhold
<1>6. ASSUME NEW c \in Requests, NEW p \in Payments, CompleteRefund(c, p) PROVE Goal
  BY <1>0, <1>6 DEF CompleteRefund
<1>7. ASSUME /\ hold' = hold /\ refund' = refund /\ dispute' = dispute
           /\ forgiven' = forgiven /\ booked' = booked
      PROVE  Goal
  BY <1>0, <1>7
<1>8. Goal
  BY <1>1, <1>2, <1>3, <1>4, <1>5, <1>6, <1>7, RowsMove
<1>9. /\ claimed' \in [Payments -> Settlements \cup {None}]
      /\ refundIn' \in [Payments -> Settlements \cup {None}]
      /\ lossIn' \in [Payments -> Settlements \cup {None}]
  <2>1. /\ claimed \in [Payments -> Settlements \cup {None}]
        /\ refundIn \in [Payments -> Settlements \cup {None}]
        /\ lossIn \in [Payments -> Settlements \cup {None}]
        /\ build.at # "idle" => build.s \in Settlements
    BY DEF TypeInv, RowsTyped, BuildTyped
  <2> DEFINE Claims == /\ claimed' \in [Payments -> Settlements \cup {None}]
                      /\ refundIn' \in [Payments -> Settlements \cup {None}]
                      /\ lossIn' \in [Payments -> Settlements \cup {None}]
  <2>2. CASE ClaimPayments
    BY <2>1, <2>2 DEF ClaimPayments
  <2>3. CASE ClaimRefunds
    BY <2>1, <2>3 DEF ClaimRefunds
  <2>4. CASE ClaimLosses
    BY <2>1, <2>4 DEF ClaimLosses
  <2>5. ASSUME NEW s \in Settlements, LetGo(s) PROVE Claims
    BY <2>1, <2>5 DEF LetGo
  <2>6. ASSUME NEW c \in Requests, DropTainted(c) PROVE Claims
    BY <2>1, <2>6 DEF DropTainted
  <2> QED
    BY <2>1, <2>2, <2>3, <2>4, <2>5, <2>6, ClaimsMove
<1> QED
  BY <1>8, <1>9 DEF RowsTyped

\* No step leaves the types, whichever handler, sweep or build takes it.
LEMMA TypeStep == TypeInv /\ [Next]_vars => TypeInv'
<1> SUFFICES ASSUME TypeInv, [Next]_vars PROVE TypeInv'
  OBVIOUS
<1>1. faults' \in 0..MaxFaults
  <2>1. faults \in 0..MaxFaults /\ MaxFaults \in Nat
    BY ConstantsAssumption DEF TypeInv
  <2>2. faults' = faults \/ (faults < MaxFaults /\ faults' = faults + 1)
    BY FaultsMove DEF CrashBuild, Crash, Redeliver
  <2> QED
    BY <2>1, <2>2
<1> QED
  BY <1>1, RequestsStep, BuildStepTyped, SettlementsStep, RowsStep DEF TypeInv

\* The program starts with nothing filed.
LEMMA TypeInit == Init => TypeInv
BY ConstantsAssumption
DEF Init, TypeInv, SettlementsTyped, RowsTyped, BuildTyped, RequestsTyped, Statuses, Counted,
    Nothing, NoBuild, Building, Stages, NoJob, Job, Labels, Knows

\* The records, the locals of the build and those of the requests keep their types.
THEOREM TypeCorrect == Spec => []TypeOK
<1> QED
  BY TypeInit, TypeStep, TypeInvIsTypeOK, PTL DEF Spec

-----------------------------------------------------------------------------
(* What a settlement is paid for.                                          *)

\* What a request that begins a stage, or goes on to it, leaves of the others.
LEMMA BeginEffect ==
  ASSUME TypeInv, NEW c \in Requests, NEW label, NEW j, Begin(c, label, j)
  PROVE  /\ pc'[c] = label /\ job'[c] = j
         /\ \A d \in Requests \ {c} : pc'[d] = pc[d] /\ job'[d] = job[d]
BY DEF Begin, Goto, TypeInv, RequestsTyped

\* Going on to a label moves that request, and no other.
LEMMA GotoEffect ==
  ASSUME TypeInv, NEW c \in Requests, NEW label, Goto(c, label), job' = job
  PROVE  /\ pc'[c] = label /\ job'[c] = job[c]
         /\ \A d \in Requests \ {c} : pc'[d] = pc[d] /\ job'[d] = job[d]
BY DEF Goto, TypeInv, RequestsTyped

\* A request stays, ends, goes on to its next stage or begins.
LEMMA RequestGoesOn ==
  ASSUME TypeInv, [Next]_vars, NEW d \in Requests
  PROVE  \/ pc'[d] = pc[d] /\ job'[d] = job[d]
         \/ pc'[d] = "idle"
         \/ DropTainted(d) \/ Recount(d) \/ HoldPayment(d) \/ Redeliver(d)
         \/ Record(d) /\ pc'[d] = "hold" /\ job'[d] = job[d]
         \/ Taint(d) /\ pc'[d] = "book" /\ job'[d] = job[d]
         \/ \E s \in Settlements : StartRebuild(d, s) \/ CheckPayout(d, s)
         \/ \E kind \in {"REFUND", "LOST"} : StartWriteOff(d, kind)
         \/ \E p \in Payments : CompleteRefund(d, p) \/ LookAtHold(d, p) \/ StartRepair(d, p)
         \/ \E p \in Payments, kind \in Kinds : StartEvent(d, p, kind)
<1> DEFINE Goal ==
         \/ pc'[d] = pc[d] /\ job'[d] = job[d]
         \/ pc'[d] = "idle"
         \/ DropTainted(d) \/ Recount(d) \/ HoldPayment(d) \/ Redeliver(d)
         \/ Record(d) /\ pc'[d] = "hold" /\ job'[d] = job[d]
         \/ Taint(d) /\ pc'[d] = "book" /\ job'[d] = job[d]
         \/ \E s \in Settlements : StartRebuild(d, s) \/ CheckPayout(d, s)
         \/ \E kind \in {"REFUND", "LOST"} : StartWriteOff(d, kind)
         \/ \E p \in Payments : CompleteRefund(d, p) \/ LookAtHold(d, p) \/ StartRepair(d, p)
         \/ \E p \in Payments, kind \in Kinds : StartEvent(d, p, kind)
<1>1. ASSUME NEW c \in Requests, DropTainted(c) PROVE Goal
  BY <1>1, GotoEffect DEF DropTainted
<1>2. ASSUME NEW c \in Requests, Recount(c) PROVE Goal
  BY <1>2, GotoEffect DEF Recount
<1>3. ASSUME NEW c \in Requests, Resubmit(c) PROVE Goal
  BY <1>3, BeginEffect DEF Resubmit, Done
<1>4. ASSUME NEW c \in Requests, PaySettlement(c) PROVE Goal
  BY <1>4, BeginEffect DEF PaySettlement, Done
<1>5. ASSUME NEW c \in Requests, StampWriteOff(c) PROVE Goal
  BY <1>5, BeginEffect DEF StampWriteOff, Done
<1>6. ASSUME NEW c \in Requests, Record(c) PROVE Goal
  BY <1>6, GotoEffect, BeginEffect DEF Record, Done
<1>7. ASSUME NEW c \in Requests, HoldPayment(c) PROVE Goal
  BY <1>7, GotoEffect DEF HoldPayment
<1>8. ASSUME NEW c \in Requests, Taint(c) PROVE Goal
  BY <1>8, GotoEffect, BeginEffect DEF Taint, Done
<1>9. ASSUME NEW c \in Requests, Book(c) PROVE Goal
  BY <1>9, BeginEffect DEF Book, Done
<1>10. ASSUME NEW c \in Requests, Unhold(c) PROVE Goal
  BY <1>10, BeginEffect DEF Unhold, Done
<1>11. ASSUME NEW c \in Requests, Crash(c) PROVE Goal
  BY <1>11, BeginEffect DEF Crash, Done
<1>12. ASSUME NEW c \in Requests, Redeliver(c) PROVE Goal
  BY <1>12, BeginEffect DEF Redeliver
<1>13. ASSUME NEW c \in Requests, NEW s \in Settlements, StartRebuild(c, s) PROVE Goal
  BY <1>13, BeginEffect, ZenonT(30) DEF StartRebuild
<1>14. ASSUME NEW c \in Requests, NEW s \in Settlements, CheckPayout(c, s) PROVE Goal
  BY <1>14, BeginEffect DEF CheckPayout
<1>15. ASSUME NEW c \in Requests, NEW kind \in {"REFUND", "LOST"}, StartWriteOff(c, kind) PROVE Goal
  BY <1>15, BeginEffect DEF StartWriteOff
<1>16. ASSUME NEW c \in Requests, NEW p \in Payments, CompleteRefund(c, p) PROVE Goal
  BY <1>16, BeginEffect DEF CompleteRefund
<1>17. ASSUME NEW c \in Requests, NEW p \in Payments, LookAtHold(c, p) PROVE Goal
  BY <1>17, BeginEffect DEF LookAtHold
<1>18. ASSUME NEW c \in Requests, NEW p \in Payments, NEW kind \in Kinds, StartEvent(c, p, kind) PROVE Goal
  <2>1. CASE c = d
    BY <1>18, <2>1
  <2>2. CASE c # d
    <3>1. PICK j : Begin(c, "record", j)
      BY <1>18 DEF StartEvent
    <3> QED
      BY <2>2, <3>1, BeginEffect
  <2> QED
    BY <2>1, <2>2
<1>19. ASSUME NEW c \in Requests, NEW p \in Payments, StartRepair(c, p) PROVE Goal
  <2>1. CASE c = d
    BY <1>19, <2>1
  <2>2. CASE c # d
    <3>1. PICK j : Begin(c, "hold", j)
      BY <1>19 DEF StartRepair
    <3> QED
      BY <2>2, <3>1, BeginEffect
  <2> QED
    BY <2>1, <2>2
<1>20. ASSUME pc' = pc /\ job' = job PROVE Goal
  BY <1>20
<1> QED
  BY <1>1, <1>2, <1>3, <1>4, <1>5, <1>6, <1>7, <1>8, <1>9, <1>10, <1>11, <1>12, <1>13,
     <1>14, <1>15, <1>16, <1>17, <1>18, <1>19, <1>20, RequestsMove

\* A request that rebuilds: begins, goes on stage by stage, or stays.
Rebuilding(c) == pc[c] \in {"drop", "recount", "resubmit"}

\* A request that is rebuilding was already there, or took one of the three steps
\* that get there.
LEMMA RebuildGoesOn ==
  ASSUME TypeInv, [Next]_vars, NEW d \in Requests, Rebuilding(d)'
  PROVE  \/ pc'[d] = pc[d] /\ job'[d] = job[d]
         \/ DropTainted(d) \/ Recount(d)
         \/ \E s \in Settlements : StartRebuild(d, s)
<1>1. HoldPayment(d) => pc'[d] = "taint"
  BY GotoEffect DEF HoldPayment
<1>2. Redeliver(d) => pc'[d] = "record"
  BY BeginEffect DEF Redeliver
<1>3. ASSUME NEW s \in Settlements, CheckPayout(d, s) PROVE pc'[d] = "pay"
  BY <1>3, BeginEffect DEF CheckPayout
<1>4. ASSUME NEW kind, StartWriteOff(d, kind) PROVE pc'[d] = "stamp"
  BY <1>4, BeginEffect DEF StartWriteOff
<1>5. ASSUME NEW p, CompleteRefund(d, p) \/ LookAtHold(d, p)
      PROVE  pc'[d] \in {"idle", "unhold"}
  BY <1>5, BeginEffect DEF CompleteRefund, LookAtHold
<1>6. ASSUME NEW p, NEW kind, StartEvent(d, p, kind) PROVE pc'[d] = "record"
  BY <1>6, BeginEffect DEF StartEvent
<1>7. ASSUME NEW p, StartRepair(d, p) PROVE pc'[d] = "hold"
  BY <1>7, BeginEffect DEF StartRepair
<1> QED
  BY <1>1, <1>2, <1>3, <1>4, <1>5, <1>6, <1>7, RequestGoesOn DEF Rebuilding

\* So does a write-off ...
LEMMA StampGoesOn ==
  ASSUME TypeInv, [Next]_vars, NEW d \in Requests, pc'[d] = "stamp"
  PROVE  \/ pc[d] = "stamp" /\ job'[d] = job[d]
         \/ \E kind \in {"REFUND", "LOST"} : StartWriteOff(d, kind)
<1>1. HoldPayment(d) \/ DropTainted(d) \/ Recount(d) => pc'[d] \in {"taint", "recount", "resubmit"}
  BY GotoEffect DEF HoldPayment, DropTainted, Recount
<1>2. Redeliver(d) => pc'[d] = "record"
  BY BeginEffect DEF Redeliver
<1>3. ASSUME NEW s \in Settlements, CheckPayout(d, s) \/ StartRebuild(d, s)
      PROVE  pc'[d] \in {"pay", "drop"}
  BY <1>3, BeginEffect DEF CheckPayout, StartRebuild
<1>4. ASSUME NEW p, CompleteRefund(d, p) \/ LookAtHold(d, p)
      PROVE  pc'[d] \in {"idle", "unhold"} \/ (pc'[d] = pc[d] /\ job'[d] = job[d])
  BY <1>4, BeginEffect DEF CompleteRefund, LookAtHold
<1>5. ASSUME NEW p, NEW kind, StartEvent(d, p, kind) PROVE pc'[d] = "record"
  BY <1>5, BeginEffect DEF StartEvent
<1>6. ASSUME NEW p, StartRepair(d, p) PROVE pc'[d] = "hold"
  BY <1>6, BeginEffect DEF StartRepair
<1> QED
  BY <1>1, <1>2, <1>3, <1>4, <1>5, <1>6, RequestGoesOn

\* ... and what handles a refund or an event of a dispute, with the payment it
\* has loaded: a redelivery loads its settlement again.
LEMMA HandlingGoesOn ==
  ASSUME TypeInv, [Next]_vars, NEW d \in Requests, Holding(d)'
  PROVE  \/ /\ Holding(d) /\ job'[d].p = job[d].p /\ job'[d].kind = job[d].kind
            /\ \/ pc'[d] = pc[d] /\ job'[d] = job[d]
               \/ Record(d) /\ pc'[d] = "hold" /\ job'[d] = job[d]
               \/ HoldPayment(d) /\ pc'[d] = "taint" /\ job'[d] = job[d]
               \/ Taint(d) /\ pc'[d] = "book" /\ job'[d] = job[d]
               \/ /\ Redeliver(d) /\ pc'[d] = "record"
                  /\ job'[d].s = claimed[job[d].p]
         \/ \E p \in Payments, kind \in Kinds :
              /\ StartEvent(d, p, kind) /\ pc'[d] = "record"
              /\ job'[d].p = p /\ job'[d].kind = kind /\ job'[d].s = claimed[p]
         \/ \E p \in Payments :
              /\ StartRepair(d, p) /\ pc'[d] = "hold"
              /\ job'[d].p = p /\ job'[d].kind = "REFUND" /\ job'[d].s = claimed[p]
<1>1. DropTainted(d) \/ Recount(d) => pc'[d] \in {"recount", "resubmit"}
  BY GotoEffect DEF DropTainted, Recount
<1>2. ASSUME NEW s \in Settlements, CheckPayout(d, s) \/ StartRebuild(d, s)
      PROVE  pc'[d] \in {"pay", "drop"}
  BY <1>2, BeginEffect DEF CheckPayout, StartRebuild
<1>3. ASSUME NEW kind, StartWriteOff(d, kind) PROVE pc'[d] = "stamp"
  BY <1>3, BeginEffect DEF StartWriteOff
<1>4. ASSUME NEW p, CompleteRefund(d, p) \/ LookAtHold(d, p)
      PROVE  pc'[d] \in {"idle", "unhold"} \/ (pc'[d] = pc[d] /\ job'[d] = job[d])
  BY <1>4, BeginEffect DEF CompleteRefund, LookAtHold
<1>5. ASSUME NEW p, NEW kind, StartEvent(d, p, kind)
      PROVE  /\ pc'[d] = "record"
             /\ job'[d].p = p /\ job'[d].kind = kind /\ job'[d].s = claimed[p]
  <2> DEFINE j == [NoJob EXCEPT !.p = p, !.kind = kind, !.s = claimed[p]]
  <2>1. Begin(d, "record", j)
    BY <1>5 DEF StartEvent
  <2>2. j.p = p /\ j.kind = kind /\ j.s = claimed[p]
    BY DEF NoJob
  <2> HIDE DEF j
  <2> QED
    BY <2>1, <2>2, BeginEffect
<1>6. ASSUME Redeliver(d)
      PROVE  /\ pc'[d] = "record" /\ Holding(d)
             /\ job'[d].p = job[d].p /\ job'[d].kind = job[d].kind
             /\ job'[d].s = claimed[job[d].p]
  <2> DEFINE j == [job[d] EXCEPT !.s = claimed[job[d].p]]
  <2>1. Begin(d, "record", j) /\ Holding(d)
    BY <1>6 DEF Redeliver
  <2>2. j.p = job[d].p /\ j.kind = job[d].kind /\ j.s = claimed[job[d].p]
    BY DEF TypeInv, RequestsTyped, Job
  <2> HIDE DEF j
  <2> QED
    BY <2>1, <2>2, BeginEffect
<1>7. HoldPayment(d) => pc[d] = "hold" /\ pc'[d] = "taint" /\ job'[d] = job[d]
  BY GotoEffect DEF HoldPayment
<1>8. (Record(d) => pc[d] = "record") /\ (Taint(d) => pc[d] = "taint")
  BY DEF Record, Taint
<1>9. ASSUME NEW p, StartRepair(d, p)
      PROVE  /\ pc'[d] = "hold"
             /\ job'[d].p = p /\ job'[d].kind = "REFUND" /\ job'[d].s = claimed[p]
  <2> DEFINE j == [NoJob EXCEPT !.p = p, !.kind = "REFUND", !.s = claimed[p]]
  <2>1. Begin(d, "hold", j)
    BY <1>9 DEF StartRepair
  <2>2. j.p = p /\ j.kind = "REFUND" /\ j.s = claimed[p]
    BY DEF NoJob
  <2> HIDE DEF j
  <2> QED
    BY <2>1, <2>2, BeginEffect
<1> QED
  BY <1>1, <1>2, <1>3, <1>4, <1>5, <1>6, <1>7, <1>8, <1>9, RequestGoesOn DEF Holding

\* Rebuilds run one at a time, on a settlement that is on hold or has closed.
RebuildInv ==
  /\ \A c, d \in Requests : Rebuilding(c) /\ Rebuilding(d) => c = d
  /\ \A c \in Requests : Rebuilding(c) => status[job[c].s] \in {"ON_HOLD"} \cup Closed

\* A build works on its draft, or on what the sweep has made of it, and has got
\* what the draft holds; of the losses it counts none that it does not hold.
PaymentsOf(s) == {p \in Payments : claimed[p] = s}
RefundsOf(s) == {p \in Payments : refundIn[p] = s}
LossesOf(s) == {p \in Payments : lossIn[p] = s}

BuildInv ==
  /\ build.at # "idle" =>
       /\ status[build.s] \in {"DRAFT"} \cup Closed
       /\ status[build.s] = "DRAFT" =>
            /\ build.at # "payments" => build.got.payments = PaymentsOf(build.s)
            /\ build.at \in {"findlosses", "losses", "reserves", "submit"} =>
                 build.got.refunds = RefundsOf(build.s)
            /\ build.got.losses \subseteq LossesOf(build.s)
       /\ build.at \notin {"reserves", "submit"} => build.got.losses = {}
  /\ build.at = "refunds" => \A p \in build.found : refundIn[p] = None

\* What was counted is what is held, from the submission to the payout, and again
\* when a rebuild submits.
Matches(s) == /\ counted[s].payments = PaymentsOf(s)
              /\ counted[s].refunds = RefundsOf(s)

CountInv ==
  /\ \A c \in Requests :
       pc[c] = "resubmit" /\ status[job[c].s] = "ON_HOLD" => Matches(job[c].s)
  /\ \A s \in Settlements :
       /\ status[s] \in {"PENDING_APPROVAL", "APPROVED", "PAID"} => Matches(s)
       /\ status[s] \in Closed => counted[s].losses = {}
       /\ counted[s].losses \subseteq LossesOf(s)

\* A settlement leaves its draft by the submission, and a hold by a rebuild; a
\* closed one stays closed.
LEMMA StatusMoves ==
  ASSUME TypeInv, [Next]_vars, NEW r \in Settlements
  PROVE  \/ status'[r] = status[r]
         \/ status'[r] \in Closed
         \/ status[r] = "NONE" /\ status'[r] = "DRAFT"
         \/ status[r] \in {"PENDING_APPROVAL", "APPROVED"}
         \/ Submit /\ r = build.s
         \/ \E c \in Requests : Resubmit(c) /\ r = job[c].s
<1> DEFINE Goal ==
      \/ status'[r] = status[r]
      \/ status'[r] \in Closed
      \/ status[r] = "NONE" /\ status'[r] = "DRAFT"
      \/ status[r] \in {"PENDING_APPROVAL", "APPROVED"}
      \/ Submit /\ r = build.s
      \/ \E c \in Requests : Resubmit(c) /\ r = job[c].s
<1>0. status \in [Settlements -> Statuses]
  BY DEF TypeInv, SettlementsTyped
<1>1. ASSUME Submit PROVE Goal
  BY <1>0, <1>1 DEF Submit, Move
<1>2. ASSUME NEW s \in Settlements, StartBuild(s) PROVE Goal
  BY <1>0, <1>2 DEF StartBuild
<1>3. ASSUME NEW s \in Settlements, SweepDraft(s) PROVE Goal
  BY <1>0, <1>3 DEF SweepDraft, Approvable, PrePayout, Move, Closed
<1>4. ASSUME NEW s \in Settlements, Approve(s) PROVE Goal
  BY <1>0, <1>4 DEF Approve, Approvable, PrePayout, Move, Closed
<1>5. ASSUME NEW s \in Settlements, HoldSettlement(s) PROVE Goal
  BY <1>0, <1>5 DEF HoldSettlement, Approvable, PrePayout, Move, Closed
<1>6. ASSUME NEW s \in Settlements, Cancel(s) PROVE Goal
  BY <1>0, <1>6 DEF Cancel, Approvable, PrePayout, Move, Closed
<1>7. ASSUME NEW c \in Requests, Recount(c) PROVE Goal
  BY <1>0, <1>7 DEF Recount
<1>8. ASSUME NEW c \in Requests, Resubmit(c) PROVE Goal
  BY <1>0, <1>8 DEF Resubmit, Move
<1>9. ASSUME NEW c \in Requests, PaySettlement(c) PROVE Goal
  BY <1>0, <1>9 DEF PaySettlement
<1>10. ASSUME status' = status PROVE Goal
  BY <1>10
<1> QED
  BY <1>1, <1>2, <1>3, <1>4, <1>5, <1>6, <1>7, <1>8, <1>9, <1>10, TotalsMove

\* A settlement that was cancelled or carried forward is never opened again.
LEMMA ClosedStaysClosed ==
  ASSUME TypeInv, [Next]_vars, NEW s \in Settlements, status[s] \in Closed
  PROVE  status'[s] \in Closed
<1>1. ASSUME Submit, s = build.s PROVE status'[s] = status[s]
  BY <1>1 DEF Submit, Closed
<1>2. ASSUME NEW c \in Requests, Resubmit(c), s = job[c].s PROVE status'[s] = status[s]
  BY <1>2 DEF Resubmit, Closed
<1> QED
  BY <1>1, <1>2, StatusMoves DEF Closed

\* The handling of an event ends when it has flagged the settlement, and that of a
\* verdict when it has booked it; only a customer's request dies before.
LEMMA HandlerEnds ==
  ASSUME TypeInv, [Next]_vars, NEW d \in Requests, Holding(d), ~Holding(d)'
  PROVE  \/ Book(d)
         \/ Taint(d) /\ job[d].kind \notin {"LOST", "WON"}
         \/ Record(d) /\ job[d].kind = "REFUND" /\ refund[job[d].p] # "NONE"
         \/ Crash(d) /\ job[d].kind = "REFUND"
<1> DEFINE Goal == \/ Book(d)
                   \/ Taint(d) /\ job[d].kind \notin {"LOST", "WON"}
                   \/ Record(d) /\ job[d].kind = "REFUND" /\ refund[job[d].p] # "NONE"
                   \/ Crash(d) /\ job[d].kind = "REFUND"
<1>0. pc[d] \in {"record", "hold", "taint", "book"} /\ pc'[d] \notin {"record", "hold", "taint", "book"}
  BY DEF Holding
<1>1. ASSUME NEW c \in Requests, DropTainted(c) PROVE Goal
  BY <1>0, <1>1, GotoEffect DEF DropTainted, Holding
<1>2. ASSUME NEW c \in Requests, Recount(c) PROVE Goal
  BY <1>0, <1>2, GotoEffect DEF Recount, Holding
<1>3. ASSUME NEW c \in Requests, Resubmit(c) PROVE Goal
  BY <1>0, <1>3, BeginEffect DEF Resubmit, Done, Holding
<1>4. ASSUME NEW c \in Requests, PaySettlement(c) PROVE Goal
  BY <1>0, <1>4, BeginEffect DEF PaySettlement, Done, Holding
<1>5. ASSUME NEW c \in Requests, StampWriteOff(c) PROVE Goal
  BY <1>0, <1>5, BeginEffect DEF StampWriteOff, Done, Holding
<1>6. ASSUME NEW c \in Requests, Record(c) PROVE Goal
  <2>1. CASE c = d
    BY <1>0, <1>6, <2>1, GotoEffect DEF Record
  <2>2. CASE c # d
    <3>1. pc'[d] = pc[d]
      <4>1. CASE Done(c)
        BY <2>2, <4>1, BeginEffect DEF Done
      <4>2. ASSUME NEW label, Goto(c, label), job' = job PROVE pc'[d] = pc[d]
        BY <2>2, <4>2, GotoEffect
      <4> QED
        BY <1>6, <4>1, <4>2 DEF Record
    <3> QED
      BY <1>0, <3>1
  <2> QED
    BY <2>1, <2>2
<1>7. ASSUME NEW c \in Requests, HoldPayment(c) PROVE Goal
  BY <1>0, <1>7, GotoEffect DEF HoldPayment, Holding
<1>8. ASSUME NEW c \in Requests, Taint(c) PROVE Goal
  <2>1. CASE c = d
    BY <1>0, <1>8, <2>1, GotoEffect DEF Taint
  <2>2. CASE c # d
    <3>1. pc'[d] = pc[d]
      <4>1. CASE Done(c)
        BY <2>2, <4>1, BeginEffect DEF Done
      <4>2. ASSUME NEW label, Goto(c, label), job' = job PROVE pc'[d] = pc[d]
        BY <2>2, <4>2, GotoEffect
      <4> QED
        BY <1>8, <4>1, <4>2 DEF Taint
    <3> QED
      BY <1>0, <3>1
  <2> QED
    BY <2>1, <2>2
<1>9. ASSUME NEW c \in Requests, Book(c) PROVE Goal
  BY <1>0, <1>9, BeginEffect DEF Book, Done
<1>10. ASSUME NEW c \in Requests, Unhold(c) PROVE Goal
  BY <1>0, <1>10, BeginEffect DEF Unhold, Done, Holding
<1>11. ASSUME NEW c \in Requests, Crash(c) PROVE Goal
  <2>1. CASE c = d
    BY <1>0, <1>11, <2>1 DEF Crash, Holding
  <2>2. CASE c # d
    BY <1>0, <1>11, <2>2, BeginEffect DEF Crash, Done
  <2> QED
    BY <2>1, <2>2
<1>12. ASSUME NEW c \in Requests, Redeliver(c) PROVE Goal
  BY <1>0, <1>12, BeginEffect DEF Redeliver, Holding
<1>13. ASSUME NEW c \in Requests, NEW s \in Settlements, StartRebuild(c, s) PROVE Goal
  BY <1>0, <1>13, BeginEffect DEF StartRebuild, Holding
<1>14. ASSUME NEW c \in Requests, NEW s \in Settlements, CheckPayout(c, s) PROVE Goal
  BY <1>0, <1>14, BeginEffect DEF CheckPayout, Holding
<1>15. ASSUME NEW c \in Requests, NEW kind \in {"REFUND", "LOST"}, StartWriteOff(c, kind) PROVE Goal
  BY <1>0, <1>15, BeginEffect DEF StartWriteOff, Holding
<1>16. ASSUME NEW c \in Requests, NEW p \in Payments, CompleteRefund(c, p) PROVE Goal
  BY <1>0, <1>16, BeginEffect DEF CompleteRefund, Holding
<1>17. ASSUME NEW c \in Requests, NEW p \in Payments, LookAtHold(c, p) PROVE Goal
  BY <1>0, <1>17, BeginEffect DEF LookAtHold, Holding
<1>18. ASSUME NEW c \in Requests, NEW p \in Payments, NEW kind \in Kinds, StartEvent(c, p, kind) PROVE Goal
  BY <1>0, <1>18, BeginEffect DEF StartEvent, Holding
<1>19. ASSUME NEW c \in Requests, NEW p \in Payments, StartRepair(c, p) PROVE Goal
  BY <1>0, <1>19, BeginEffect DEF StartRepair, Holding
<1>20. ASSUME pc' = pc /\ job' = job PROVE Goal
  BY <1>0, <1>20
<1> QED
  BY <1>1, <1>2, <1>3, <1>4, <1>5, <1>6, <1>7, <1>8, <1>9, <1>10, <1>11, <1>12, <1>13,
     <1>14, <1>15, <1>16, <1>17, <1>18, <1>19, <1>20, RequestsMove

\* The totals of a settlement are those of its build or of a rebuild, or nothing.
LEMMA TotalsGoOn ==
  ASSUME TypeInv, [Next]_vars, NEW r \in Settlements
  PROVE  \/ counted'[r] = counted[r] /\ (status'[r] \in Closed => status[r] \in Closed)
         \/ status'[r] \in Closed /\ counted'[r] = Nothing
         \/ Submit /\ r = build.s /\ status[r] = "DRAFT" /\ counted'[r] = build.got
         \/ \E c \in Requests : /\ Recount(c) /\ r = job[c].s
                               /\ status[r] \notin Closed /\ counted'[r] = Recounted(r)
<1> DEFINE Goal ==
      \/ counted'[r] = counted[r] /\ (status'[r] \in Closed => status[r] \in Closed)
      \/ status'[r] \in Closed /\ counted'[r] = Nothing
      \/ Submit /\ r = build.s /\ status[r] = "DRAFT" /\ counted'[r] = build.got
      \/ \E c \in Requests : /\ Recount(c) /\ r = job[c].s
                            /\ status[r] \notin Closed /\ counted'[r] = Recounted(r)
<1>0. status \in [Settlements -> Statuses] /\ counted \in [Settlements -> Counted]
  BY DEF TypeInv, SettlementsTyped
<1>1. ASSUME Submit PROVE Goal
  BY <1>0, <1>1 DEF Submit, Move
<1>2. ASSUME NEW s \in Settlements, StartBuild(s) PROVE Goal
  BY <1>0, <1>2 DEF StartBuild, Closed
<1>3. ASSUME NEW s \in Settlements, SweepDraft(s) PROVE Goal
  BY <1>0, <1>3 DEF SweepDraft, Move
<1>4. ASSUME NEW s \in Settlements, Approve(s) PROVE Goal
  BY <1>0, <1>4 DEF Approve, Move
<1>5. ASSUME NEW s \in Settlements, HoldSettlement(s) PROVE Goal
  BY <1>0, <1>5 DEF HoldSettlement, Move
<1>6. ASSUME NEW s \in Settlements, Cancel(s) PROVE Goal
  BY <1>0, <1>6 DEF Cancel, Move
<1>7. ASSUME NEW c \in Requests, Recount(c) PROVE Goal
  BY <1>0, <1>7 DEF Recount
<1>8. ASSUME NEW c \in Requests, Resubmit(c) PROVE Goal
  BY <1>0, <1>8 DEF Resubmit, Move
<1>9. ASSUME NEW c \in Requests, PaySettlement(c) PROVE Goal
  BY <1>0, <1>9 DEF PaySettlement, Closed
<1>10. ASSUME status' = status /\ counted' = counted PROVE Goal
  BY <1>10
<1> QED
  BY <1>1, <1>2, <1>3, <1>4, <1>5, <1>6, <1>7, <1>8, <1>9, <1>10, TotalsMove

\* Rebuilds stay alone with their settlement.
LEMMA RebuildStep == TypeInv /\ RebuildInv /\ [Next]_vars => RebuildInv'
<1> SUFFICES ASSUME TypeInv, RebuildInv, [Next]_vars PROVE RebuildInv'
  OBVIOUS
<1>1. ASSUME NEW d \in Requests, NEW s \in Settlements, StartRebuild(d, s)
      PROVE  /\ \A e \in Requests \ {d} : ~Rebuilding(e)'
             /\ status'[job'[d].s] = "ON_HOLD"
  <2>1. \A e \in Requests : ~Rebuilding(e)
    BY <1>1 DEF StartRebuild, Rebuilding
  <2> DEFINE j == [NoJob EXCEPT !.s = s, !.rows = tainted[s]]
  <2>2. Begin(d, "drop", j)
        /\ status[s] = "ON_HOLD" /\ status' = status
    BY <1>1 DEF StartRebuild, settlementVars
  <2>3. /\ job'[d].s = s
        /\ \A e \in Requests \ {d} : pc'[e] = pc[e]
    <3>1. j.s = s
      BY DEF NoJob
    <3> HIDE DEF j
    <3> QED
      BY <2>2, <3>1, BeginEffect
  <2> QED
    BY <2>1, <2>2, <2>3 DEF Rebuilding
<1>2. ASSUME NEW d \in Requests, Rebuilding(d)', Rebuilding(d)
      PROVE job'[d] = job[d]
  <2>1. ASSUME NEW s \in Settlements PROVE ~StartRebuild(d, s)
    BY <1>2 DEF StartRebuild, Rebuilding
  <2>2. DropTainted(d) \/ Recount(d) => job' = job
    BY DEF DropTainted, Recount
  <2> QED
    BY <1>2, <2>1, <2>2, RebuildGoesOn
<1>3. ASSUME NEW d \in Requests, Rebuilding(d)'
      PROVE Rebuilding(d) \/ \E s \in Settlements : StartRebuild(d, s)
  BY <1>3, RebuildGoesOn DEF DropTainted, Recount, Rebuilding
<1>4. ASSUME NEW d \in Requests, NEW e \in Requests, Rebuilding(d)', Rebuilding(e)'
      PROVE d = e
  BY <1>1, <1>3, <1>4 DEF RebuildInv
<1>5. ASSUME NEW d \in Requests, Rebuilding(d)', Rebuilding(d)
      PROVE status'[job'[d].s] \in {"ON_HOLD"} \cup Closed
  <2> DEFINE s == job[d].s
  <2>1. s \in Settlements /\ status[s] \in {"ON_HOLD"} \cup Closed
    BY <1>5 DEF RebuildInv, Rebuilding, TypeInv, RequestsTyped, Knows
  <2>2. CASE status[s] \in Closed
    BY <1>2, <1>5, <2>1, <2>2, ClosedStaysClosed
  <2>3. CASE status[s] = "ON_HOLD"
    <3>1. ~(Submit /\ s = build.s /\ status'[s] # status[s])
      BY <2>3 DEF Submit
    <3>2. ASSUME NEW c \in Requests, Resubmit(c), s = job[c].s PROVE FALSE
      <4>1. c = d
        BY <1>5, <3>2 DEF RebuildInv, Rebuilding, Resubmit
      <4>2. Done(d)
        BY <3>2, <4>1 DEF Resubmit
      <4>3. pc'[d] = "idle"
        BY <4>2, BeginEffect DEF Done
      <4> QED
        BY <1>5, <4>3 DEF Rebuilding
    <3> QED
      BY <1>2, <1>5, <2>1, <2>3, <3>1, <3>2, StatusMoves
  <2> QED
    BY <2>1, <2>2, <2>3
<1> QED
  BY <1>1, <1>3, <1>4, <1>5 DEF RebuildInv

\* The build keeps what it got of a draft.
LEMMA BuildInvStep == TypeInv /\ RebuildInv /\ BuildInv /\ [Next]_vars => BuildInv'
<1> SUFFICES ASSUME TypeInv, RebuildInv, BuildInv, [Next]_vars PROVE BuildInv'
  OBVIOUS
<1>0. /\ status \in [Settlements -> Statuses] /\ build.at \in Stages
      /\ build \in Building
      /\ build.at # "idle" => build.s \in Settlements
      /\ claimed \in [Payments -> Settlements \cup {None}]
      /\ refundIn \in [Payments -> Settlements \cup {None}]
      /\ lossIn \in [Payments -> Settlements \cup {None}]
  BY DEF TypeInv, SettlementsTyped, RowsTyped, BuildTyped, Building
<1> USE DEF BuildInv, PaymentsOf, RefundsOf, LossesOf
<1>1. CASE ClaimPayments
  <2>1. /\ build'.at = "findrefunds" /\ build'.s = build.s
        /\ build'.got.payments = {p \in Payments : claimed'[p] = build.s}
        /\ build'.got.losses = build.got.losses
    BY <1>0, <1>1 DEF ClaimPayments, Building, Counted
  <2>2. status' = status /\ build.at = "payments" /\ lossIn' = lossIn
    BY <1>1 DEF ClaimPayments, settlementVars
  <2> QED
    BY <2>1, <2>2
<1>2. CASE FindRefunds
  <2>1. \A p \in RefundsOwed : p \in Payments /\ refundIn[p] = None
    BY DEF RefundsOwed, RefundOwed
  <2>2. /\ build.at = "findrefunds" /\ status' = status
        /\ claimed' = claimed /\ refundIn' = refundIn /\ lossIn' = lossIn
    BY <1>2 DEF FindRefunds, settlementVars, rowVars
  <2>3. CASE RefundsOwed = {}
    BY <1>0, <1>2, <2>2, <2>3 DEF FindRefunds, Building, Counted
  <2>4. CASE RefundsOwed # {}
    BY <1>0, <1>2, <2>1, <2>2, <2>4 DEF FindRefunds, Building
  <2> QED
    BY <2>3, <2>4
<1>3. CASE ClaimRefunds
  BY <1>0, <1>3 DEF ClaimRefunds, settlementVars, Building, Counted
<1>4. CASE FindLosses
  BY <1>0, <1>4 DEF FindLosses, settlementVars, rowVars, Building
<1>5. CASE ClaimLosses
  BY <1>0, <1>5 DEF ClaimLosses, settlementVars, Building, Counted
<1>6. CASE ClaimReserves
  BY <1>0, <1>6 DEF ClaimReserves, rowVars, Building, Counted
<1>7. CASE Submit \/ CrashBuild
  BY <1>0, <1>7 DEF Submit, CrashBuild, NoBuild
<1>8. ASSUME NEW s \in Settlements, StartBuild(s) PROVE BuildInv'
  BY <1>0, <1>8 DEF StartBuild, NoBuild, Nothing
<1>9. CASE build' = build /\ ~BuildStep /\ ~CrashBuild /\ \A s \in Settlements : ~StartBuild(s)
  <2> DEFINE s == build.s
  <2>1. CASE build.at = "idle"
    BY <1>9, <2>1
  <2>2. CASE build.at # "idle"
    <3>1. s \in Settlements /\ status[s] \in {"DRAFT"} \cup Closed
      BY <1>0, <2>2
    <3>2. /\ status'[s] \in {"DRAFT"} \cup Closed
          /\ status'[s] = "DRAFT" => status[s] = "DRAFT"
      <4>1. CASE status[s] \in Closed
        BY <3>1, <4>1, ClosedStaysClosed DEF Closed
      <4>2. CASE status[s] = "DRAFT"
        <5>1. ASSUME NEW c \in Requests, Resubmit(c), s = job[c].s PROVE FALSE
          BY <4>2, <5>1 DEF Resubmit, Rebuilding, RebuildInv, Closed
        <5> QED
          BY <1>9, <3>1, <4>2, <5>1, StatusMoves DEF BuildStep
      <4> QED
        BY <3>1, <4>1, <4>2
    <3>3. ASSUME status[s] = "DRAFT"
          PROVE  PaymentsOf(s)' = PaymentsOf(s) /\ RefundsOf(s)' = RefundsOf(s)
                 /\ LossesOf(s)' = LossesOf(s)
      <4>1. ASSUME NEW r \in Settlements, LetGo(r) PROVE r # s
        BY <3>3, <4>1 DEF LetGo, Closed
      <4>2. ASSUME NEW c \in Requests, DropTainted(c) PROVE job[c].s # s
        BY <3>3, <4>2 DEF DropTainted, RebuildInv, Rebuilding, Closed
      <4>3. ASSUME NEW r \in Settlements, LetGo(r)
            PROVE  PaymentsOf(s)' = PaymentsOf(s) /\ RefundsOf(s)' = RefundsOf(s)
                   /\ LossesOf(s)' = LossesOf(s)
        BY <1>0, <1>9, <3>1, <4>1, <4>3, ConstantsAssumption DEF LetGo
      <4>4. ASSUME NEW c \in Requests, DropTainted(c)
            PROVE  PaymentsOf(s)' = PaymentsOf(s) /\ RefundsOf(s)' = RefundsOf(s)
                   /\ LossesOf(s)' = LossesOf(s)
        BY <1>0, <1>9, <3>1, <4>2, <4>4, ConstantsAssumption DEF DropTainted
      <4>5. ASSUME claimed' = claimed, refundIn' = refundIn, lossIn' = lossIn
            PROVE  PaymentsOf(s)' = PaymentsOf(s) /\ RefundsOf(s)' = RefundsOf(s)
                   /\ LossesOf(s)' = LossesOf(s)
        BY <1>9, <4>5
      <4> QED
        BY <1>9, <4>3, <4>4, <4>5, ClaimsMove DEF BuildStep
    <3>4. build.at = "refunds" => \A p \in build.found : refundIn'[p] = None
      <4>1. build.found \subseteq Payments
        BY <1>0 DEF Building
      <4>2. ASSUME NEW p \in Payments, refundIn[p] = None PROVE refundIn'[p] = None
        <5>1. ASSUME NEW r \in Settlements, LetGo(r) PROVE refundIn'[p] = None
          BY <1>0, <4>2, <5>1 DEF LetGo
        <5>2. ASSUME NEW c \in Requests, DropTainted(c) PROVE refundIn' = refundIn
          BY <5>2 DEF DropTainted
        <5> QED
          BY <1>9, <4>2, <5>1, <5>2, ClaimsMove DEF BuildStep
      <4> QED
        BY <4>1, <4>2
    <3>5. build' = build /\ s' = s
      BY <1>9
    <3> QED
      BY <3>1, <3>2, <3>3, <3>4, <3>5
  <2> QED
    BY <2>1, <2>2
<1> QED
  BY <1>1, <1>2, <1>3, <1>4, <1>5, <1>6, <1>7, <1>8, <1>9, BuildMoves DEF BuildStep

\* Of what a settlement holds from its submission on, only a rebuild of it lets go.
LEMMA HeldStays ==
  ASSUME TypeInv, RebuildInv, BuildInv, [Next]_vars, NEW s \in Settlements,
         status[s] \notin {"NONE", "DRAFT"} \cup Closed,
         \A c \in Requests : ~(DropTainted(c) /\ job[c].s = s)
  PROVE  PaymentsOf(s)' = PaymentsOf(s) /\ RefundsOf(s)' = RefundsOf(s)
<1> DEFINE Goal == PaymentsOf(s)' = PaymentsOf(s) /\ RefundsOf(s)' = RefundsOf(s)
<1> USE ConstantsAssumption DEF PaymentsOf, RefundsOf
<1>0. /\ claimed \in [Payments -> Settlements \cup {None}]
      /\ refundIn \in [Payments -> Settlements \cup {None}]
      /\ build.at # "idle" => build.s # s
  BY DEF TypeInv, RowsTyped, BuildInv, Closed
<1>1. ASSUME ClaimPayments PROVE Goal
  BY <1>0, <1>1 DEF ClaimPayments, Eligible
<1>2. ASSUME ClaimRefunds PROVE Goal
  BY <1>0, <1>2 DEF ClaimRefunds, BuildInv
<1>3. ASSUME ClaimLosses PROVE Goal
  BY <1>3 DEF ClaimLosses
<1>4. ASSUME NEW r \in Settlements, LetGo(r) PROVE Goal
  BY <1>0, <1>4 DEF LetGo
<1>5. ASSUME NEW c \in Requests, DropTainted(c) PROVE Goal
  BY <1>0, <1>5 DEF DropTainted
<1>6. ASSUME claimed' = claimed, refundIn' = refundIn PROVE Goal
  BY <1>6
<1> QED
  BY <1>1, <1>2, <1>3, <1>4, <1>5, <1>6, ClaimsMove

\* A loss that a settlement has claimed stays with it until it has closed.
LEMMA LossesStay ==
  ASSUME TypeInv, [Next]_vars, NEW s \in Settlements, status[s] \notin Closed
  PROVE  LossesOf(s) \subseteq LossesOf(s)'
<1> DEFINE Goal == LossesOf(s) \subseteq LossesOf(s)'
<1> USE ConstantsAssumption DEF LossesOf
<1>1. ASSUME ClaimLosses PROVE Goal
  BY <1>1 DEF ClaimLosses
<1>2. ASSUME NEW r \in Settlements, LetGo(r) PROVE Goal
  BY <1>2 DEF LetGo
<1>3. ASSUME lossIn' = lossIn PROVE Goal
  BY <1>3
<1>4. ASSUME NEW c \in Requests, DropTainted(c) PROVE lossIn' = lossIn
  BY <1>4 DEF DropTainted
<1>5. ASSUME ClaimPayments \/ ClaimRefunds PROVE lossIn' = lossIn
  BY <1>5 DEF ClaimPayments, ClaimRefunds
<1> QED
  BY <1>1, <1>2, <1>3, <1>4, <1>5, ClaimsMove

\* What was counted stays what is held.
LEMMA CountStep ==
  TypeInv /\ RebuildInv /\ BuildInv /\ CountInv /\ [Next]_vars => CountInv'
<1> SUFFICES ASSUME TypeInv, RebuildInv, BuildInv, CountInv, [Next]_vars PROVE CountInv'
  OBVIOUS
<1>0. /\ \A c \in Requests : Rebuilding(c) =>
           job[c].s \in Settlements /\ status[job[c].s] \in {"ON_HOLD"} \cup Closed
      /\ \A c, d \in Requests : Rebuilding(c) /\ Rebuilding(d) => c = d
      /\ build.at # "idle" => build.s \in Settlements
      /\ status \in [Settlements -> Statuses]
  BY DEF TypeInv, RequestsTyped, Knows, BuildTyped, SettlementsTyped, Rebuilding, RebuildInv
<1>1. ASSUME NEW c \in Requests, Recount(c)
      PROVE  /\ Rebuilding(c) /\ Recounted(job[c].s).payments = PaymentsOf(job[c].s)'
             /\ Recounted(job[c].s).refunds = RefundsOf(job[c].s)'
             /\ Recounted(job[c].s).losses = {}
             /\ status' = status
  <2>1. /\ claimed' = claimed /\ refundIn' = refundIn /\ status' = status
        /\ pc[c] = "recount" /\ job' = job
    BY <1>1 DEF Recount, rowVars
  <2>2. /\ Recounted(job[c].s).payments = HeldRows(job[c].s).payments
        /\ Recounted(job[c].s).refunds = HeldRows(job[c].s).refunds
        /\ Recounted(job[c].s).losses = {}
    BY DEF Recounted, HeldRows
  <2> QED
    BY <2>1, <2>2 DEF HeldRows, PaymentsOf, RefundsOf, Rebuilding
<1>2. ASSUME Submit
      PROVE  /\ status[build.s] = "DRAFT" =>
                  /\ build.got.payments = PaymentsOf(build.s)
                  /\ build.got.refunds = RefundsOf(build.s)
                  /\ build.got.losses \subseteq LossesOf(build.s)
             /\ claimed' = claimed /\ refundIn' = refundIn /\ lossIn' = lossIn
             /\ status[build.s] # "DRAFT" => status' = status
  <2>1. /\ build.at = "submit" /\ claimed' = claimed /\ refundIn' = refundIn /\ lossIn' = lossIn
        /\ status[build.s] # "DRAFT" => status' = status
    BY <1>2 DEF Submit, rowVars
  <2> QED
    BY <2>1 DEF BuildInv
<1>3. ASSUME NEW c \in Requests, DropTainted(c) \/ Recount(c) \/ Resubmit(c)
      PROVE  Rebuilding(c)
  BY <1>3 DEF DropTainted, Recount, Resubmit, Rebuilding
<1>4. ASSUME NEW c \in Requests, pc'[c] = "resubmit", status'[job'[c].s] = "ON_HOLD"
      PROVE  Matches(job[c].s)' /\ job'[c] = job[c]
  <2> DEFINE s == job[c].s
  <2>1. CASE Recount(c)
    <3>1. s \in Settlements /\ job'[c] = job[c]
      BY <1>0, <1>1, <2>1 DEF Recount
    <3>2. status[s] = "ON_HOLD"
      BY <1>1, <1>4, <2>1, <3>1
    <3>3. counted' = [counted EXCEPT ![s] = Recounted(s)]
      BY <2>1, <3>2 DEF Recount, Closed
    <3>4. counted'[s] = Recounted(s)
      BY <3>1, <3>3 DEF TypeInv, SettlementsTyped
    <3> QED
      BY <1>1, <2>1, <3>1, <3>4 DEF Matches, PaymentsOf, RefundsOf
  <2>2. CASE pc'[c] = pc[c] /\ job'[c] = job[c]
    <3>1. /\ pc[c] = "resubmit" /\ Rebuilding(c) /\ s \in Settlements
          /\ job'[c] = job[c] /\ status'[s] = "ON_HOLD"
      BY <1>0, <1>4, <2>2 DEF Rebuilding
    <3>2. status[s] = "ON_HOLD"
      BY <1>0, <3>1, ClosedStaysClosed DEF Closed
    <3>3. \A d \in Requests : ~(DropTainted(d) \/ Recount(d))
      BY <1>0, <1>3, <3>1 DEF DropTainted, Recount
    <3>4. counted'[s] = counted[s]
      BY <3>1, <3>2, <3>3, TotalsGoOn DEF Closed
    <3>5. PaymentsOf(s)' = PaymentsOf(s) /\ RefundsOf(s)' = RefundsOf(s)
      BY <3>1, <3>2, <3>3, HeldStays DEF Closed
    <3>6. Matches(s)
      BY <3>1, <3>2 DEF CountInv
    <3> QED
      BY <3>1, <3>4, <3>5, <3>6 DEF Matches, PaymentsOf, RefundsOf
  <2>3. Rebuilding(c)' /\ ~DropTainted(c) /\ \A r \in Settlements : ~StartRebuild(c, r)
    <3>1. DropTainted(c) => pc'[c] = "recount"
      BY GotoEffect DEF DropTainted
    <3>2. ASSUME NEW r \in Settlements, StartRebuild(c, r) PROVE pc'[c] = "drop"
      BY <3>2, BeginEffect DEF StartRebuild
    <3> QED
      BY <1>4, <3>1, <3>2 DEF Rebuilding
  <2> QED
    BY <2>1, <2>2, <2>3, RebuildGoesOn
<1>5. ASSUME NEW s \in Settlements, status'[s] \in {"PENDING_APPROVAL", "APPROVED", "PAID"}
      PROVE  Matches(s)'
  <2>0. status[s] \notin Closed /\ status'[s] \notin Closed
    BY <1>5, ClosedStaysClosed DEF Closed
  <2>1. CASE Submit /\ s = build.s /\ status[s] = "DRAFT"
    <3>1. counted'[s] = build.got
      BY <2>0, <2>1, TotalsGoOn DEF Submit, Move, TypeInv, SettlementsTyped
    <3> QED
      BY <1>2, <2>1, <3>1 DEF Matches, PaymentsOf, RefundsOf
  <2>2. CASE \E c \in Requests : Resubmit(c) /\ s = job[c].s /\ status[s] = "ON_HOLD"
    <3>1. PICK c \in Requests : Resubmit(c) /\ s = job[c].s /\ status[s] = "ON_HOLD"
      BY <2>2
    <3>2. Matches(s) /\ claimed' = claimed /\ refundIn' = refundIn
      BY <3>1 DEF CountInv, Resubmit, rowVars
    <3>3. \A d \in Requests : ~Recount(d)
      BY <1>0, <1>3, <3>1 DEF Resubmit, Recount
    <3>4. counted'[s] = counted[s]
      BY <2>0, <3>1, <3>3, TotalsGoOn
    <3> QED
      BY <3>2, <3>4 DEF Matches, PaymentsOf, RefundsOf
  <2>3. CASE status[s] \in {"PENDING_APPROVAL", "APPROVED", "PAID"}
    <3>1. \A c \in Requests : ~((DropTainted(c) \/ Recount(c)) /\ job[c].s = s)
      BY <1>0, <1>3, <2>3 DEF Closed
    <3>2. counted'[s] = counted[s]
      BY <2>0, <2>3, <3>1, TotalsGoOn
    <3>3. PaymentsOf(s)' = PaymentsOf(s) /\ RefundsOf(s)' = RefundsOf(s)
      BY <2>3, <3>1, HeldStays DEF Closed
    <3>4. Matches(s)
      BY <2>3 DEF CountInv
    <3> QED
      BY <3>2, <3>3, <3>4 DEF Matches, PaymentsOf, RefundsOf
  <2>4. ASSUME Submit, s = build.s, status[s] # "DRAFT" PROVE status'[s] = status[s]
    BY <1>2, <2>4
  <2>5. ASSUME NEW c \in Requests, Resubmit(c), s = job[c].s, status[s] # "ON_HOLD"
        PROVE  status'[s] = status[s]
    BY <2>5 DEF Resubmit
  <2> QED
    BY <1>5, <2>0, <2>1, <2>2, <2>3, <2>4, <2>5, StatusMoves
<1>6. ASSUME NEW s \in Settlements
      PROVE  /\ status'[s] \in Closed => counted'[s].losses = {}
             /\ counted'[s].losses \subseteq LossesOf(s)'
  <2>1. CASE counted'[s] = counted[s] /\ (status'[s] \in Closed => status[s] \in Closed)
    <3>1. /\ counted[s].losses \subseteq LossesOf(s)
          /\ status[s] \in Closed => counted[s].losses = {}
      BY DEF CountInv
    <3> QED
      BY <2>1, <3>1, LossesStay
  <2>2. CASE counted'[s] = Nothing
    BY <2>2 DEF Nothing
  <2>3. CASE Submit /\ s = build.s /\ status[s] = "DRAFT" /\ counted'[s] = build.got /\ status'[s] \notin Closed
    BY <1>2, <2>3 DEF LossesOf
  <2>4. CASE \E c \in Requests : Recount(c) /\ s = job[c].s /\ counted'[s] = Recounted(s)
    BY <1>1, <2>4
  <2>5. ASSUME Submit, s = build.s, status[s] = "DRAFT", status'[s] \in Closed
        PROVE  counted'[s] = Nothing
    <3>1. PICK to : Move(s, to, build.got)
      BY <2>5 DEF Submit
    <3>2. status'[s] = to /\ counted'[s] = IF to \in Closed THEN Nothing ELSE build.got
      BY <3>1 DEF Move, TypeInv, SettlementsTyped
    <3> QED
      BY <2>5, <3>2
  <2> QED
    BY <2>1, <2>2, <2>3, <2>4, <2>5, TotalsGoOn
<1>7. \A c \in Requests : pc'[c] = "resubmit" /\ status'[job'[c].s] = "ON_HOLD" =>
        Matches(job[c].s)' /\ job'[c] = job[c]
  BY <1>4
<1> QED
  BY <1>5, <1>6, <1>7 DEF CountInv, Matches

-----------------------------------------------------------------------------
(* What is deducted, once.                                                 *)

\* What was written off was not deducted, and neither will be what a write-off
\* has read: no build runs meanwhile.
DeductInv ==
  /\ \A p \in forgiven.refunds : refundIn[p] = None
  /\ \A p \in forgiven.losses : lossIn[p] = None
  /\ build.at = "refunds" => build.found \cap forgiven.refunds = {}
  /\ build.at = "losses" => build.found \cap forgiven.losses = {}
  /\ \A c \in Requests : pc[c] = "stamp" =>
       /\ build.at = "idle"
       /\ \A p \in job[c].rows :
            IF job[c].kind = "REFUND" THEN refundIn[p] = None ELSE lossIn[p] = None

\* Every step keeps what was written off apart from what is deducted.
LEMMA DeductStep ==
  ASSUME "writeoff" \notin Overlaps
  PROVE  TypeInv /\ DeductInv /\ [Next]_vars => DeductInv'
<1> SUFFICES ASSUME TypeInv, DeductInv, [Next]_vars PROVE DeductInv'
  OBVIOUS
<1>0. /\ refundIn \in [Payments -> Settlements \cup {None}]
      /\ lossIn \in [Payments -> Settlements \cup {None}]
      /\ forgiven \in [refunds : SUBSET Payments, losses : SUBSET Payments]
      /\ build \in Building
      /\ \A c \in Requests : job[c].rows \subseteq Payments
  BY DEF TypeInv, RowsTyped, BuildTyped, RequestsTyped, Job
<1>1. /\ build.at # "idle" => build'.at \in Stages
      /\ build'.at # "idle" => \A c \in Requests : pc'[c] # "stamp"
  <2>1. build' \in Building
    BY BuildStepTyped DEF BuildTyped
  <2>2. ASSUME NEW c \in Requests, pc'[c] = "stamp" PROVE build'.at = "idle"
    <3>1. CASE pc[c] = "stamp"
      <4>1. build.at = "idle"
        BY <3>1 DEF DeductInv
      <4>2. \A s \in Settlements : ~StartBuild(s)
        BY <3>1 DEF StartBuild
      <4>3. ~BuildStep /\ ~CrashBuild
        BY <4>1 DEF BuildStep, CrashBuild, ClaimPayments, FindRefunds, ClaimRefunds, FindLosses,
               ClaimLosses, ClaimReserves, Submit
      <4> QED
        BY <4>1, <4>2, <4>3, BuildMoves DEF BuildStep
    <3>2. ASSUME NEW kind, StartWriteOff(c, kind) PROVE build'.at = "idle"
      BY <3>2 DEF StartWriteOff
    <3> QED
      BY <2>2, <3>1, <3>2, StampGoesOn
  <2> QED
    BY <2>1, <2>2 DEF Building
<1>2. ASSUME NEW p \in Payments, refundIn[p] = None,
             build.at = "refunds" => p \notin build.found
      PROVE  refundIn'[p] = None
  <2>1. ASSUME ClaimRefunds PROVE refundIn'[p] = None
    BY <1>0, <1>2, <2>1 DEF ClaimRefunds
  <2>2. ASSUME NEW s \in Settlements, LetGo(s) PROVE refundIn'[p] = None
    BY <1>0, <1>2, <2>2 DEF LetGo
  <2>3. ASSUME NEW c \in Requests, DropTainted(c) PROVE refundIn' = refundIn
    BY <2>3 DEF DropTainted
  <2>4. ASSUME ClaimPayments \/ ClaimLosses PROVE refundIn' = refundIn
    BY <2>4 DEF ClaimPayments, ClaimLosses
  <2> QED
    BY <1>2, <2>1, <2>2, <2>3, <2>4, ClaimsMove
<1>3. ASSUME NEW p \in Payments, lossIn[p] = None,
             build.at = "losses" => p \notin build.found
      PROVE  lossIn'[p] = None
  <2>1. ASSUME ClaimLosses PROVE lossIn'[p] = None
    BY <1>0, <1>3, <2>1 DEF ClaimLosses
  <2>2. ASSUME NEW s \in Settlements, LetGo(s) PROVE lossIn'[p] = None
    BY <1>0, <1>3, <2>2 DEF LetGo
  <2>3. ASSUME NEW c \in Requests, DropTainted(c) PROVE lossIn' = lossIn
    BY <2>3 DEF DropTainted
  <2>4. ASSUME ClaimPayments \/ ClaimRefunds PROVE lossIn' = lossIn
    BY <2>4 DEF ClaimPayments, ClaimRefunds
  <2> QED
    BY <1>3, <2>1, <2>2, <2>3, <2>4, ClaimsMove
<1>4. ASSUME NEW c \in Requests, pc'[c] = "stamp"
      PROVE  \A p \in job'[c].rows :
               IF job'[c].kind = "REFUND" THEN refundIn'[p] = None ELSE lossIn'[p] = None
  <2>1. CASE pc[c] = "stamp" /\ job'[c] = job[c]
    BY <1>0, <1>2, <1>3, <2>1 DEF DeductInv
  <2>2. ASSUME NEW kind \in {"REFUND", "LOST"}, StartWriteOff(c, kind)
        PROVE  \A p \in job'[c].rows :
                 IF job'[c].kind = "REFUND" THEN refundIn'[p] = None ELSE lossIn'[p] = None
    <3> DEFINE owed == IF kind = "REFUND" THEN {p \in Payments : RefundOwed(p)}
                                         ELSE {p \in Payments : LossOwed(p)}
               j == [NoJob EXCEPT !.kind = kind, !.rows = {p \in owed : claimed[p] # None}]
    <3>1. Begin(c, "stamp", j) /\ refundIn' = refundIn /\ lossIn' = lossIn
      BY <2>2 DEF StartWriteOff, rowVars
    <3>2. j.kind = kind /\ j.rows \subseteq owed
      BY DEF NoJob
    <3>3. job'[c] = j
      <4> HIDE DEF j
      <4> QED
        BY <3>1, BeginEffect
    <3>4. job'[c].kind = kind /\ job'[c].rows \subseteq owed
      BY <3>2, <3>3
    <3> QED
      BY <3>1, <3>4 DEF RefundOwed, LossOwed
  <2> QED
    BY <1>4, <2>1, <2>2, StampGoesOn
<1>5. ASSUME NEW p \in Payments, p \in forgiven'.refunds PROVE refundIn'[p] = None
  <2>1. CASE p \in forgiven.refunds
    BY <1>2, <2>1 DEF DeductInv
  <2>2. ASSUME NEW c \in Requests, StampWriteOff(c), p \notin forgiven.refunds
        PROVE  refundIn'[p] = None
    BY <1>0, <1>5, <2>2 DEF StampWriteOff, DeductInv
  <2>3. forgiven' = forgiven \/ \E c \in Requests : StampWriteOff(c)
    BY RowsMove DEF Record, HoldPayment, Book, Unhold, CompleteRefund
  <2> QED
    BY <1>5, <2>1, <2>2, <2>3
<1>6. ASSUME NEW p \in Payments, p \in forgiven'.losses PROVE lossIn'[p] = None
  <2>1. CASE p \in forgiven.losses
    BY <1>3, <2>1 DEF DeductInv
  <2>2. ASSUME NEW c \in Requests, StampWriteOff(c), p \notin forgiven.losses
        PROVE  lossIn'[p] = None
    BY <1>0, <1>6, <2>2 DEF StampWriteOff, DeductInv
  <2>3. forgiven' = forgiven \/ \E c \in Requests : StampWriteOff(c)
    BY RowsMove DEF Record, HoldPayment, Book, Unhold, CompleteRefund
  <2> QED
    BY <1>6, <2>1, <2>2, <2>3
<1>7. /\ build'.at = "refunds" => build'.found \cap forgiven'.refunds = {}
      /\ build'.at = "losses" => build'.found \cap forgiven'.losses = {}
  <2>1. ASSUME FindRefunds \/ FindLosses
        PROVE  /\ build'.at = "refunds" => build'.found \cap forgiven'.refunds = {}
               /\ build'.at = "losses" => build'.found \cap forgiven'.losses = {}
    <3>1. RefundsOwed \cap forgiven.refunds = {} /\ LossesOwed \cap forgiven.losses = {}
      BY DEF RefundsOwed, RefundOwed, LossesOwed, LossOwed
    <3>2. forgiven' = forgiven
      BY <2>1 DEF FindRefunds, FindLosses, rowVars
    <3>3. /\ build'.at = "refunds" => build'.found = RefundsOwed
          /\ build'.at = "losses" => build'.found = LossesOwed
      BY <1>0, <2>1 DEF FindRefunds, FindLosses, Building
    <3> QED
      BY <3>1, <3>2, <3>3
  <2>2. ASSUME ClaimPayments \/ ClaimRefunds \/ ClaimLosses \/ ClaimReserves
        PROVE  build'.at \notin {"refunds", "losses"}
    BY <1>0, <2>2 DEF ClaimPayments, ClaimRefunds, ClaimLosses, ClaimReserves, Building
  <2>3. ASSUME Submit \/ CrashBuild \/ \E s \in Settlements : StartBuild(s)
        PROVE  build'.at \notin {"refunds", "losses"}
    <3>1. ASSUME Submit \/ CrashBuild PROVE build'.at = "idle"
      BY <3>1 DEF Submit, CrashBuild, NoBuild
    <3>2. ASSUME NEW s \in Settlements, StartBuild(s) PROVE build'.at = "payments"
      BY <3>2 DEF StartBuild, NoBuild
    <3> QED
      BY <2>3, <3>1, <3>2
  <2>4. ASSUME build' = build, build.at # "idle" PROVE forgiven' = forgiven
    <3>1. \A c \in Requests : ~StampWriteOff(c)
      BY <2>4 DEF StampWriteOff, DeductInv
    <3> QED
      BY <3>1, RowsMove DEF Record, HoldPayment, Book, Unhold, CompleteRefund
  <2> QED
    BY <2>1, <2>2, <2>3, <2>4, BuildMoves DEF DeductInv
<1>8. forgiven' \in [refunds : SUBSET Payments, losses : SUBSET Payments]
  BY RowsStep DEF RowsTyped
<1> QED
  BY <1>1, <1>4, <1>5, <1>6, <1>7, <1>8 DEF DeductInv

-----------------------------------------------------------------------------
(* What the books say of a verdict.                                        *)

\* One verdict of a dispute is handled at a time, never a loss after the win,
\* and a charge that stands against a win is on its way to be reversed.
Verdict(c) == Holding(c) /\ job[c].kind \in {"LOST", "WON"}

VerdictInv ==
  /\ \A c, d \in Requests : Verdict(c) /\ Verdict(d) /\ job[c].p = job[d].p => c = d
  /\ \A c \in Requests : Verdict(c) /\ job[c].kind = "LOST" => dispute[job[c].p] # "WON"
  /\ \A p \in Payments : dispute[p] = "WON" /\ booked[p] = {"CHARGEBACK"} =>
       \E c \in Requests : Holding(c) /\ job[c].kind = "WON" /\ job[c].p = p

\* Every step keeps the verdicts of a dispute in order.
LEMMA VerdictStep ==
  ASSUME "verdict" \notin Overlaps
  PROVE  TypeInv /\ VerdictInv /\ [Next]_vars => VerdictInv'
<1> SUFFICES ASSUME TypeInv, VerdictInv, [Next]_vars PROVE VerdictInv'
  OBVIOUS
<1>0. /\ \A c \in Requests : Holding(c) => job[c].p \in Payments
      /\ dispute \in [Payments -> {"NONE", "OPEN", "LOST", "WON"}]
      /\ booked \in [Payments -> SUBSET {"CHARGEBACK", "CHARGEBACK_REVERSAL"}]
  BY DEF TypeInv, RequestsTyped, RowsTyped, Knows, Holding
\* A verdict goes on, or begins.
<1>1. ASSUME NEW c \in Requests, Verdict(c)'
      PROVE  \/ Verdict(c) /\ job'[c].p = job[c].p /\ job'[c].kind = job[c].kind
             \/ \E p \in Payments, kind \in {"LOST", "WON"} :
                  /\ StartEvent(c, p, kind)
                  /\ job'[c].p = p /\ job'[c].kind = kind
  BY <1>1, HandlingGoesOn DEF Verdict
<1>2. ASSUME NEW c \in Requests, NEW p \in Payments, NEW kind \in {"LOST", "WON"},
             StartEvent(c, p, kind)
      PROVE  /\ kind = "LOST" => dispute[p] # "WON"
             /\ \A d \in Requests \ {c} : ~(Verdict(d) /\ job[d].p = p)
             /\ \A d \in Requests \ {c} : pc'[d] = pc[d] /\ job'[d] = job[d]
             /\ dispute' = dispute /\ booked' = booked
  <2>1. /\ kind = "LOST" => dispute[p] # "WON"
        /\ \A d \in Requests \ {c} : ~(Verdict(d) /\ job[d].p = p)
    BY <1>2 DEF StartEvent, MayHandle, Verdict
  <2>2. PICK j : Begin(c, "record", j)
    BY <1>2 DEF StartEvent
  <2>3. dispute' = dispute /\ booked' = booked
    BY <1>2 DEF StartEvent, rowVars
  <2> QED
    BY <2>1, <2>2, <2>3, BeginEffect
\* What changes a dispute and its books.
<1>3. ASSUME NEW p \in Payments, dispute'[p] # dispute[p]
      PROVE  \E c \in Requests :
               /\ Holding(c) /\ job[c].p = p /\ job[c].kind = dispute'[p]
               /\ Holding(c)' /\ job'[c] = job[c]
  <2>1. PICK c \in Requests : Record(c)
    BY <1>3, RowsMove DEF StampWriteOff, HoldPayment, Book, Unhold, CompleteRefund
  <2>2. job[c].kind # "REFUND"
    BY <1>3, <2>1 DEF Record
  <2>3. /\ dispute' = [dispute EXCEPT ![job[c].p] =
                         IF Newer(job[c].kind, dispute[job[c].p]) THEN job[c].kind
                         ELSE dispute[job[c].p]]
        /\ Goto(c, "hold") /\ job' = job /\ pc[c] = "record"
    BY <2>1, <2>2 DEF Record
  <2>4. pc'[c] = "hold" /\ job'[c] = job[c]
    BY <2>3, GotoEffect
  <2> QED
    BY <1>0, <1>3, <2>3, <2>4 DEF Holding
<1>4. ASSUME NEW p \in Payments, booked'[p] # booked[p]
      PROVE  \E c \in Requests :
               /\ Verdict(c) /\ job[c].p = p
               /\ job[c].kind = "WON" => "CHARGEBACK_REVERSAL" \in booked'[p]
  <2>1. PICK c \in Requests : Book(c)
    BY <1>4, RowsMove DEF StampWriteOff, HoldPayment, Record, Unhold, CompleteRefund
  <2>2. /\ booked' = [booked EXCEPT ![job[c].p] =
                        booked[job[c].p] \cup Booking(job[c].kind, booked[job[c].p])]
        /\ pc[c] = "book"
    BY <2>1 DEF Book
  <2>3. job[c].p = p /\ Booking(job[c].kind, booked[p]) # {}
    BY <1>0, <1>4, <2>2
  <2> QED
    BY <1>0, <2>2, <2>3 DEF Booking, Verdict, Holding
<1>5. ASSUME NEW c \in Requests, NEW d \in Requests, Verdict(c)', Verdict(d)',
             job'[c].p = job'[d].p
      PROVE  c = d
  BY <1>1, <1>2, <1>5 DEF VerdictInv, Verdict, Holding
<1>6. ASSUME NEW c \in Requests, Verdict(c)', job'[c].kind = "LOST"
      PROVE  dispute'[job'[c].p] # "WON"
  <2> DEFINE p == job'[c].p
  <2>1. p \in Payments /\ dispute[p] # "WON"
    BY <1>0, <1>1, <1>2, <1>6 DEF VerdictInv, Verdict
  <2>2. CASE dispute'[p] = dispute[p]
    BY <2>1, <2>2
  <2>3. CASE dispute'[p] # dispute[p] /\ dispute'[p] = "WON"
    <3>1. PICK d \in Requests : /\ Holding(d) /\ job[d].p = p /\ job[d].kind = "WON"
                                /\ Holding(d)' /\ job'[d] = job[d]
      BY <1>3, <2>1, <2>3
    <3>2. Verdict(d)' /\ job'[d].p = p
      BY <3>1 DEF Verdict
    <3>3. d = c
      BY <1>5, <1>6, <3>2
    <3> QED
      BY <1>6, <3>1, <3>3
  <2> QED
    BY <2>1, <2>2, <2>3
<1>7. ASSUME NEW p \in Payments, dispute'[p] = "WON", booked'[p] = {"CHARGEBACK"}
      PROVE  \E c \in Requests : Holding(c)' /\ job'[c].kind = "WON" /\ job'[c].p = p
  <2>1. CASE dispute'[p] # dispute[p]
    BY <1>3, <1>7, <2>1
  <2>2. CASE dispute'[p] = dispute[p]
    <3>1. booked'[p] = booked[p]
      <4>1. ASSUME booked'[p] # booked[p] PROVE FALSE
        <5>1. PICK c \in Requests : /\ Verdict(c) /\ job[c].p = p
                                    /\ job[c].kind # "WON"
          BY <1>4, <1>7, <4>1
        <5> QED
          BY <1>7, <2>2, <5>1 DEF VerdictInv, Verdict
      <4> QED
        BY <4>1
    <3>2. PICK c \in Requests : Holding(c) /\ job[c].kind = "WON" /\ job[c].p = p
      BY <1>7, <2>2, <3>1 DEF VerdictInv
    <3>3. CASE Holding(c)'
      <4>1. ASSUME NEW q, NEW kind PROVE ~StartEvent(c, q, kind) /\ ~StartRepair(c, q)
        BY <3>2 DEF StartEvent, StartRepair, Holding
      <4> QED
        BY <3>2, <3>3, <4>1, HandlingGoesOn
    <3>4. CASE ~Holding(c)'
      <4>1. Book(c)
        BY <3>2, <3>4, HandlerEnds
      <4>2. booked'[p] = booked[p] \cup Booking("WON", booked[p])
        BY <1>0, <3>2, <4>1 DEF Book
      <4> QED
        BY <1>7, <3>1, <4>2 DEF Booking
    <3> QED
      BY <3>3, <3>4
  <2> QED
    BY <2>1, <2>2
<1> QED
  BY <1>5, <1>6, <1>7 DEF VerdictInv, Verdict

-----------------------------------------------------------------------------
(* No payout over a payment the settlement was to be flagged for.          *)

\* A flag stays until the settlement has closed or was counted again.
LEMMA FlagsGoOn ==
  ASSUME TypeInv, [Next]_vars, NEW r \in Settlements
  PROVE  \/ flagged'[r] = flagged[r] /\ tainted'[r] = tainted[r]
         \/ status'[r] \in Closed
         \/ \E c \in Requests : Recount(c) /\ r = job[c].s
         \/ Taintable(r) /\ flagged'[r] = TRUE /\ tainted[r] \subseteq tainted'[r]
<1> DEFINE Goal == \/ flagged'[r] = flagged[r] /\ tainted'[r] = tainted[r]
                   \/ status'[r] \in Closed
                   \/ \E c \in Requests : Recount(c) /\ r = job[c].s
                   \/ Taintable(r) /\ flagged'[r] = TRUE /\ tainted[r] \subseteq tainted'[r]
<1>0. /\ flagged \in [Settlements -> BOOLEAN] /\ tainted \in [Settlements -> SUBSET Payments]
      /\ status \in [Settlements -> Statuses]
  BY DEF TypeInv, SettlementsTyped
<1>1. ASSUME Submit PROVE Goal
  BY <1>0, <1>1 DEF Submit, Move
<1>2. ASSUME NEW s \in Settlements, SweepDraft(s) PROVE Goal
  BY <1>0, <1>2 DEF SweepDraft, Move
<1>3. ASSUME NEW s \in Settlements, Approve(s) PROVE Goal
  BY <1>0, <1>3 DEF Approve, Move
<1>4. ASSUME NEW s \in Settlements, HoldSettlement(s) PROVE Goal
  BY <1>0, <1>4 DEF HoldSettlement, Move
<1>5. ASSUME NEW s \in Settlements, Cancel(s) PROVE Goal
  BY <1>0, <1>5 DEF Cancel, Move
<1>6. ASSUME NEW c \in Requests, Recount(c) PROVE Goal
  BY <1>0, <1>6 DEF Recount
<1>7. ASSUME NEW c \in Requests, Resubmit(c) PROVE Goal
  BY <1>0, <1>7 DEF Resubmit, Move
<1>8. ASSUME NEW c \in Requests, Taint(c) PROVE Goal
  <2>1. CASE Taintable(job[c].s) /\ r = job[c].s
    BY <1>0, <1>8, <2>1 DEF Taint
  <2>2. CASE ~(Taintable(job[c].s) /\ r = job[c].s)
    BY <1>0, <1>8, <2>2 DEF Taint
  <2> QED
    BY <2>1, <2>2
<1>9. ASSUME flagged' = flagged /\ tainted' = tainted PROVE Goal
  BY <1>9
<1> QED
  BY <1>1, <1>2, <1>3, <1>4, <1>5, <1>6, <1>7, <1>8, <1>9, FlagsMove

\* A payment is claimed by a build, and let go.
LEMMA ClaimsGoOn ==
  ASSUME TypeInv, [Next]_vars, NEW p \in Payments
  PROVE  \/ claimed'[p] = claimed[p]
         \/ claimed'[p] = None
         \/ ClaimPayments /\ claimed'[p] = build.s /\ ~hold[p]
<1> DEFINE Goal == \/ claimed'[p] = claimed[p]
                   \/ claimed'[p] = None
                   \/ ClaimPayments /\ claimed'[p] = build.s /\ ~hold[p]
<1>1. ASSUME ClaimPayments PROVE Goal
  BY <1>1 DEF ClaimPayments, Eligible
<1>2. ASSUME NEW s \in Settlements, LetGo(s) PROVE Goal
  BY <1>2 DEF LetGo
<1>3. ASSUME NEW c \in Requests, DropTainted(c) PROVE Goal
  BY <1>3 DEF DropTainted
<1>4. ASSUME ClaimRefunds \/ ClaimLosses PROVE Goal
  BY <1>4 DEF ClaimRefunds, ClaimLosses
<1> QED
  BY <1>1, <1>2, <1>3, <1>4, ClaimsMove

\* What a settlement was to be flagged for is forgotten when it closes, and grows
\* by what a handler reports of it before its payout.
LEMMA ReportsGoOn ==
  ASSUME TypeInv, [Next]_vars, NEW r \in Settlements
  PROVE  \/ reported'[r] = reported[r] /\ (status'[r] \in Closed => status[r] \in Closed)
         \/ status'[r] \in Closed /\ reported'[r] = {}
         \/ \E c \in Requests :
              /\ Taint(c) /\ job[c].s = r /\ status[r] \notin Closed \cup {"PAID", "ON_HOLD"}
              /\ reported'[r] = reported[r] \cup {job[c].p} /\ status' = status
<1> DEFINE Goal ==
      \/ reported'[r] = reported[r] /\ (status'[r] \in Closed => status[r] \in Closed)
      \/ status'[r] \in Closed /\ reported'[r] = {}
      \/ \E c \in Requests :
           /\ Taint(c) /\ job[c].s = r /\ status[r] \notin Closed \cup {"PAID", "ON_HOLD"}
           /\ reported'[r] = reported[r] \cup {job[c].p} /\ status' = status
<1>0. /\ status \in [Settlements -> Statuses]
      /\ reported \in [Settlements -> SUBSET Payments]
  BY DEF TypeInv, SettlementsTyped
<1>1. ASSUME Submit PROVE Goal
  BY <1>0, <1>1 DEF Submit, Move
<1>2. ASSUME NEW s \in Settlements, StartBuild(s) PROVE Goal
  BY <1>0, <1>2 DEF StartBuild, Closed
<1>3. ASSUME NEW s \in Settlements, SweepDraft(s) PROVE Goal
  BY <1>0, <1>3 DEF SweepDraft, Move
<1>4. ASSUME NEW s \in Settlements, Approve(s) PROVE Goal
  BY <1>0, <1>4 DEF Approve, Move
<1>5. ASSUME NEW s \in Settlements, HoldSettlement(s) PROVE Goal
  BY <1>0, <1>5 DEF HoldSettlement, Move
<1>6. ASSUME NEW s \in Settlements, Cancel(s) PROVE Goal
  BY <1>0, <1>6 DEF Cancel, Move
<1>7. ASSUME NEW c \in Requests, Recount(c) PROVE Goal
  BY <1>0, <1>7 DEF Recount
<1>8. ASSUME NEW c \in Requests, Resubmit(c) PROVE Goal
  BY <1>0, <1>8 DEF Resubmit, Move
<1>9. ASSUME NEW c \in Requests, PaySettlement(c) PROVE Goal
  BY <1>0, <1>9 DEF PaySettlement, Closed
<1>10. ASSUME NEW c \in Requests, Taint(c) PROVE Goal
  BY <1>0, <1>10 DEF Taint
<1>11. ASSUME status' = status /\ reported' = reported PROVE Goal
  BY <1>11
<1> QED
  BY <1>1, <1>2, <1>3, <1>4, <1>5, <1>6, <1>7, <1>8, <1>9, <1>10, <1>11, SettlementsMove

\* Until its build claims payments, nobody knows a settlement: no payment is in it,
\* no handler has loaded it, nothing was reported of it.
Fresh(s) ==
  /\ \A p \in Payments : claimed[p] # s
  /\ \A c \in Requests : Holding(c) => job[c].s # s
  /\ reported[s] = {}

\* A payment that a settlement was to be flagged for is on its list, unless it is out
\* of it, and a rebuild drops all the list has before it takes the flag off.  What is
\* closed has no list; on hold it does not grow.
ReportInv ==
  /\ \A s \in Settlements :
       /\ status[s] = "NONE" \/ (build.at = "payments" /\ build.s = s) => Fresh(s)
       /\ status[s] \in Closed => reported[s] = {}
       /\ \A p \in reported[s] : claimed[p] = s => flagged[s] /\ p \in tainted[s]
  /\ \A c \in Requests : status[job[c].s] = "ON_HOLD" =>
       /\ pc[c] = "drop" => job[c].rows = tainted[job[c].s]
       /\ pc[c] = "recount" => \A p \in reported[job[c].s] : claimed[p] # job[c].s

\* A settlement that is filed stays filed.
LEMMA NeverUnfiled ==
  ASSUME TypeInv, [Next]_vars, NEW r \in Settlements, status'[r] = "NONE"
  PROVE  status[r] = "NONE"
<1>0. status \in [Settlements -> Statuses] /\ status'[r] = "NONE"
  BY DEF TypeInv, SettlementsTyped
<1>1. ASSUME NEW s \in Settlements, NEW to, NEW totals, Move(s, to, totals), to # "NONE"
      PROVE  status[r] = "NONE"
  BY <1>0, <1>1 DEF Move
<1>2. ASSUME Submit PROVE status[r] = "NONE"
  <2>1. build.s \in Settlements
    BY <1>2 DEF Submit, TypeInv, BuildTyped
  <2>2. \A to \in Outcomes(build.got, {"PENDING_APPROVAL", "APPROVED"}) : to # "NONE"
    BY DEF Outcomes
  <2> QED
    BY <1>0, <1>1, <1>2, <2>1, <2>2 DEF Submit
<1>3. ASSUME NEW s \in Settlements, StartBuild(s) PROVE status[r] = "NONE"
  BY <1>0, <1>3 DEF StartBuild
<1>4. ASSUME NEW s \in Settlements,
             SweepDraft(s) \/ Approve(s) \/ HoldSettlement(s) \/ Cancel(s)
      PROVE  status[r] = "NONE"
  BY <1>1, <1>4 DEF SweepDraft, Approve, HoldSettlement, Cancel
<1>5. ASSUME NEW c \in Requests, Recount(c) PROVE status[r] = "NONE"
  BY <1>0, <1>5 DEF Recount
<1>6. ASSUME NEW c \in Requests, Resubmit(c) PROVE status[r] = "NONE"
  <2>1. job[c].s \in Settlements
    BY <1>6 DEF Resubmit, TypeInv, RequestsTyped, Knows
  <2>2. \A to \in Outcomes(counted[job[c].s], {"PENDING_APPROVAL"}) : to # "NONE"
    BY DEF Outcomes
  <2> QED
    BY <1>0, <1>1, <1>6, <2>1, <2>2 DEF Resubmit
<1>7. ASSUME NEW c \in Requests, PaySettlement(c) PROVE status[r] = "NONE"
  BY <1>0, <1>7 DEF PaySettlement
<1> QED
  BY <1>0, <1>2, <1>3, <1>4, <1>5, <1>6, <1>7, TotalsMove

\* A settlement that is not filed yet was not before; one whose build has just begun
\* was not filed.
LEMMA FreshBefore ==
  ASSUME TypeInv, BuildInv, [Next]_vars, NEW s \in Settlements,
         status'[s] = "NONE" \/ (build'.at = "payments" /\ build'.s = s)
  PROVE  /\ status[s] = "NONE" \/ (build.at = "payments" /\ build.s = s)
         /\ ~(ClaimPayments /\ build.s = s)
<1>1. CASE status'[s] = "NONE"
  <2>1. status[s] = "NONE"
    BY <1>1, NeverUnfiled
  <2> QED
    BY <2>1 DEF ClaimPayments, BuildInv, Closed
<1>2. CASE build'.at = "payments" /\ build'.s = s
  <2>1. ASSUME NEW r \in Settlements, StartBuild(r) PROVE status[s] = "NONE" /\ ~ClaimPayments
    <3>1. build'.s = r
      BY <2>1 DEF StartBuild, NoBuild
    <3> QED
      BY <1>2, <2>1, <3>1 DEF StartBuild, ClaimPayments
  <2>2. ASSUME BuildStep \/ CrashBuild PROVE build'.at # "payments"
    <3>1. build \in Building
      BY DEF TypeInv, BuildTyped
    <3>2. ASSUME ClaimPayments \/ ClaimRefunds \/ ClaimLosses \/ ClaimReserves
          PROVE  build'.at # "payments"
      BY <3>1, <3>2 DEF ClaimPayments, ClaimRefunds, ClaimLosses, ClaimReserves, Building
    <3>3. ASSUME FindRefunds \/ FindLosses PROVE build'.at # "payments"
      BY <3>1, <3>3 DEF FindRefunds, FindLosses, Building
    <3>4. ASSUME Submit \/ CrashBuild PROVE build'.at # "payments"
      BY <3>4 DEF Submit, CrashBuild, NoBuild
    <3> QED
      BY <2>2, <3>2, <3>3, <3>4 DEF BuildStep
  <2> QED
    BY <1>2, <2>1, <2>2, BuildMoves DEF BuildStep
<1> QED
  BY <1>1, <1>2

\* Nobody gets to know a settlement that has no payments.
LEMMA FreshStays ==
  ASSUME TypeInv, [Next]_vars, NEW s \in Settlements, Fresh(s),
         ~(ClaimPayments /\ build.s = s)
  PROVE  /\ \A p \in Payments : claimed'[p] # s
         /\ \A c \in Requests : Holding(c)' => job'[c].s # s
         /\ reported'[s] = {}
<1>1. ASSUME NEW p \in Payments PROVE claimed'[p] # s
  BY <1>1, ClaimsGoOn, ConstantsAssumption DEF Fresh
<1>2. ASSUME NEW c \in Requests, Holding(c)' PROVE job'[c].s # s
  <2>1. Holding(c) => job[c].p \in Payments
    BY DEF TypeInv, RequestsTyped, Knows, Holding
  <2> QED
    BY <1>2, <2>1, HandlingGoesOn DEF Fresh
<1>3. reported'[s] = {}
  <2>1. ASSUME NEW c \in Requests, Taint(c) PROVE job[c].s # s
    BY <2>1 DEF Fresh, Taint, Holding
  <2> QED
    BY <2>1, ReportsGoOn DEF Fresh
<1> QED
  BY <1>1, <1>2, <1>3

\* Every step keeps what a settlement was to be flagged for on its list.
LEMMA ReportStep ==
  TypeInv /\ RebuildInv /\ BuildInv /\ ReportInv /\ [Next]_vars => ReportInv'
<1> SUFFICES ASSUME TypeInv, RebuildInv, BuildInv, ReportInv, [Next]_vars PROVE ReportInv'
  OBVIOUS
<1>0. /\ \A c \in Requests : Rebuilding(c) =>
           job[c].s \in Settlements /\ status[job[c].s] \in {"ON_HOLD"} \cup Closed
      /\ \A c, d \in Requests : Rebuilding(c) /\ Rebuilding(d) => c = d
      /\ claimed \in [Payments -> Settlements \cup {None}]
      /\ reported \in [Settlements -> SUBSET Payments]
      /\ reported' \in [Settlements -> SUBSET Payments]
      /\ \A c \in Requests : Holding(c) => job[c].p \in Payments
  BY SettlementsStep DEF TypeInv, RequestsTyped, Knows, RowsTyped, SettlementsTyped, Rebuilding,
     RebuildInv, Holding
<1>1. ASSUME NEW s \in Settlements,
             status'[s] = "NONE" \/ (build'.at = "payments" /\ build'.s = s)
      PROVE  Fresh(s)'
  <2>1. Fresh(s) /\ ~(ClaimPayments /\ build.s = s)
    BY <1>1, FreshBefore DEF ReportInv
  <2> QED
    BY <2>1, FreshStays DEF Fresh
<1>2. ASSUME NEW s \in Settlements, status'[s] \in Closed PROVE reported'[s] = {}
  BY <1>2, ReportsGoOn DEF ReportInv
<1>3. ASSUME NEW s \in Settlements, NEW p \in reported'[s], claimed'[p] = s
      PROVE  flagged'[s] /\ p \in tainted'[s]
  <2>0. p \in Payments /\ status'[s] \notin Closed
    BY <1>0, <1>2, <1>3
  <2>1. CASE \E c \in Requests : /\ Taint(c) /\ job[c].s = s /\ job[c].p = p
                                 /\ status[s] \notin Closed \cup {"PAID", "ON_HOLD"}
    <3>1. PICK c \in Requests : /\ Taint(c) /\ job[c].s = s /\ job[c].p = p
                                /\ status[s] \notin Closed \cup {"PAID", "ON_HOLD"}
      BY <2>1
    <3>2. status[s] # "NONE"
      BY <3>1 DEF ReportInv, Fresh, Taint, Holding
    <3>3. Taintable(s)
      BY <3>1, <3>2, ConstantsAssumption
         DEF Taintable, PrePayout, Closed, TypeInv, SettlementsTyped, Statuses
    <3> QED
      BY <3>1, <3>3 DEF Taint, TypeInv, SettlementsTyped
  <2>2. CASE p \in reported[s]
    <3>1. claimed[p] = s
      <4>1. ~(ClaimPayments /\ build.s = s)
        BY <2>2 DEF ReportInv, Fresh, ClaimPayments
      <4> QED
        BY <1>3, <2>0, <4>1, ClaimsGoOn, ConstantsAssumption
    <3>2. flagged[s] /\ p \in tainted[s]
      BY <2>2, <3>1 DEF ReportInv
    <3>3. ASSUME NEW c \in Requests, Recount(c), s = job[c].s PROVE FALSE
      <4>1. pc[c] = "recount" /\ Rebuilding(c) /\ status[s] \notin Closed
        BY <2>2, <3>3 DEF Recount, Rebuilding, ReportInv
      <4> QED
        BY <1>0, <2>2, <3>1, <3>3, <4>1 DEF ReportInv
    <3> QED
      BY <2>0, <3>2, <3>3, FlagsGoOn
  <2> QED
    BY <1>3, <2>0, <2>1, <2>2, ReportsGoOn
<1>4. ASSUME NEW c \in Requests, pc'[c] = "drop", status'[job'[c].s] = "ON_HOLD"
      PROVE  job'[c].rows = tainted'[job'[c].s]
  <2>1. Rebuilding(c)'
    BY <1>4 DEF Rebuilding
  <2>2. ASSUME NEW s \in Settlements, StartRebuild(c, s)
        PROVE  job'[c].rows = tainted'[job'[c].s]
    <3> DEFINE j == [NoJob EXCEPT !.s = s, !.rows = tainted[s]]
    <3>1. Begin(c, "drop", j) /\ tainted' = tainted
      BY <2>2 DEF StartRebuild, settlementVars
    <3>2. j.s = s /\ j.rows = tainted[s]
      BY DEF NoJob
    <3> HIDE DEF j
    <3> QED
      BY <3>1, <3>2, BeginEffect
  <2>3. CASE pc'[c] = pc[c] /\ job'[c] = job[c]
    <3> DEFINE s == job[c].s
    <3>1. Rebuilding(c) /\ pc[c] = "drop" /\ s \in Settlements
      BY <1>0, <1>4, <2>3 DEF Rebuilding
    <3>2. status[s] = "ON_HOLD" /\ status'[s] = "ON_HOLD"
      BY <1>0, <1>4, <2>3, <3>1, ClosedStaysClosed DEF Closed
    <3>3. \A d \in Requests : ~(Recount(d) /\ s = job[d].s)
      BY <1>0, <3>1 DEF Recount, Rebuilding
    <3>4. tainted'[s] = tainted[s]
      BY <3>1, <3>2, <3>3, FlagsGoOn DEF Taintable, PrePayout, Closed
    <3> QED
      BY <2>3, <3>1, <3>2, <3>4 DEF ReportInv
  <2>4. ~DropTainted(c) /\ ~Recount(c)
    BY <1>4, GotoEffect DEF DropTainted, Recount
  <2> QED
    BY <2>1, <2>2, <2>3, <2>4, RebuildGoesOn
<1>5. ASSUME NEW c \in Requests, pc'[c] = "recount", status'[job'[c].s] = "ON_HOLD",
             NEW p \in reported'[job'[c].s]
      PROVE  claimed'[p] # job'[c].s
  <2> DEFINE s == job[c].s
  <2>1. Rebuilding(c)'
    BY <1>5 DEF Rebuilding
  <2>2. CASE DropTainted(c)
    <3>1. /\ pc[c] = "drop" /\ job' = job /\ status' = status /\ reported' = reported
          /\ claimed' = [q \in Payments |-> IF q \in job[c].rows /\ claimed[q] = s THEN None
                                           ELSE claimed[q]]
      BY <2>2 DEF DropTainted, settlementVars
    <3>2. s \in Settlements /\ status[s] = "ON_HOLD" /\ s # None
      BY <1>0, <1>5, <3>1, ConstantsAssumption DEF Rebuilding
    <3>3. p \in Payments /\ p \in reported[s]
      BY <1>0, <1>5, <3>1, <3>2
    <3>4. claimed[p] = s => p \in job[c].rows
      BY <3>1, <3>2, <3>3 DEF ReportInv
    <3> QED
      BY <3>1, <3>2, <3>3, <3>4
  <2>3. CASE pc'[c] = pc[c] /\ job'[c] = job[c]
    <3>1. Rebuilding(c) /\ pc[c] = "recount" /\ s \in Settlements
      BY <1>0, <1>5, <2>3 DEF Rebuilding
    <3>2. status[s] = "ON_HOLD" /\ s # None
      BY <1>0, <1>5, <2>3, <3>1, ClosedStaysClosed, ConstantsAssumption DEF Closed
    <3>3. reported'[s] = reported[s]
      BY <1>5, <2>3, <3>1, <3>2, ReportsGoOn DEF Closed
    <3>4. p \in Payments /\ claimed[p] # s
      BY <1>0, <1>5, <2>3, <3>1, <3>2, <3>3 DEF ReportInv
    <3>5. ~(ClaimPayments /\ s = build.s)
      BY <3>2 DEF ClaimPayments, BuildInv, Closed
    <3> QED
      BY <2>3, <3>2, <3>4, <3>5, ClaimsGoOn
  <2>4. ~Recount(c) /\ \A r \in Settlements : ~StartRebuild(c, r)
    <3>1. Recount(c) => pc'[c] = "resubmit"
      BY GotoEffect DEF Recount
    <3>2. ASSUME NEW r \in Settlements, StartRebuild(c, r) PROVE pc'[c] = "drop"
      BY <3>2, BeginEffect DEF StartRebuild
    <3> QED
      BY <1>5, <3>1, <3>2
  <2> QED
    BY <2>1, <2>2, <2>3, <2>4, RebuildGoesOn
<1> QED
  BY <1>1, <1>2, <1>3, <1>4, <1>5 DEF ReportInv, Fresh

-----------------------------------------------------------------------------
(* What holds of every behaviour.                                          *)

CoreInv == TypeInv /\ RebuildInv /\ BuildInv /\ CountInv

\* Nothing is built, rebuilt or counted at the start.
LEMMA CoreInit == Init => CoreInv
<1> SUFFICES ASSUME Init PROVE CoreInv
  OBVIOUS
<1>1. TypeInv
  BY TypeInit
<1> QED
  BY <1>1 DEF Init, CoreInv, RebuildInv, Rebuilding, BuildInv, CountInv, NoBuild, Nothing, Closed

\* The four parts of the invariant carry one another.
LEMMA CoreStep == CoreInv /\ [Next]_vars => CoreInv'
BY TypeStep, RebuildStep, BuildInvStep, CountStep DEF CoreInv

\* In every behaviour the records are typed, a rebuild owns its settlement, the
\* build owns its draft, and what was counted is what is held.
THEOREM Core == Spec => []CoreInv
<1> QED
  BY CoreInit, CoreStep, PTL DEF Spec

\* The rows a rebuild reads are the payments and refunds the settlement locks.
LEMMA RowsHeld ==
  ASSUME NEW s \in Settlements
  PROVE  HeldRows(s).payments = PaymentsOf(s) /\ HeldRows(s).refunds = RefundsOf(s)
BY DEF HeldRows, PaymentsOf, RefundsOf

\* A vendor is paid for what the settlement has locked, whatever overlaps and
\* whatever dies.
THEOREM PaidForWhatItHoldsCorrect == Spec => []PaidForWhatItHolds
<1>1. CoreInv => PaidForWhatItHolds
  BY RowsHeld DEF CoreInv, CountInv, Matches, PaidForWhatItHolds, Payable
<1> QED
  BY <1>1, Core, PTL

\* A set of at most one member, or none when the other count has the one.
LEMMA AtMostOne ==
  ASSUME NEW S, NEW t, NEW b, S \subseteq {t}, b => S = {}
  PROVE  Cardinality(S) + (IF b THEN 1 ELSE 0) <= 1
<1>1. CASE S = {}
  <2>1. Cardinality(S) = 0
    BY <1>1, FS_EmptySet
  <2> QED
    BY <2>1
<1>2. CASE S = {t}
  <2>1. Cardinality(S) = 1
    BY <1>2, FS_Singleton
  <2>2. ~b
    BY <1>2
  <2> QED
    BY <2>1, <2>2
<1> QED
  BY <1>1, <1>2

\* A refund or a lost dispute is taken from the vendor by one settlement, or by
\* none once it was written off, as long as no debt is written off while a build
\* runs.
THEOREM DeductedOnceCorrect ==
  ASSUME "writeoff" \notin Overlaps
  PROVE  Spec => []DeductedOnce
<1>1. Init => DeductInv
  BY DEF Init, DeductInv, NoBuild
<1>2. ASSUME CoreInv, DeductInv PROVE DeductedOnce
  <2>1. ASSUME NEW p \in Payments
        PROVE  Cardinality({s \in Payable : p \in counted[s].refunds})
                 + (IF p \in forgiven.refunds THEN 1 ELSE 0) <= 1
    <3>1. \A s \in Payable : counted[s].refunds = RefundsOf(s)
      BY <1>2 DEF CoreInv, CountInv, Matches, Payable
    <3>2. {s \in Payable : p \in counted[s].refunds} \subseteq {refundIn[p]}
      BY <3>1 DEF RefundsOf
    <3>3. p \in forgiven.refunds => {s \in Payable : p \in counted[s].refunds} = {}
      BY <1>2, <3>1, ConstantsAssumption DEF DeductInv, RefundsOf, Payable
    <3> QED
      BY <3>2, <3>3, AtMostOne
  <2>2. ASSUME NEW p \in Payments
        PROVE  Cardinality({s \in Payable : p \in counted[s].losses})
                 + (IF p \in forgiven.losses THEN 1 ELSE 0) <= 1
    <3>1. \A s \in Payable : counted[s].losses \subseteq LossesOf(s)
      BY <1>2 DEF CoreInv, CountInv, Payable
    <3>2. {s \in Payable : p \in counted[s].losses} \subseteq {lossIn[p]}
      BY <3>1 DEF LossesOf
    <3>3. p \in forgiven.losses => {s \in Payable : p \in counted[s].losses} = {}
      BY <1>2, <3>1, ConstantsAssumption DEF DeductInv, LossesOf, Payable
    <3> QED
      BY <3>2, <3>3, AtMostOne
  <2> QED
    BY <2>1, <2>2 DEF DeductedOnce
<1>3. CoreInv /\ DeductInv /\ [Next]_vars => DeductInv'
  BY DeductStep DEF CoreInv
<1> QED
  BY <1>1, <1>2, <1>3, Core, PTL DEF Spec

\* A dispute that was won leaves nothing charged in the books, as long as its loss
\* is not handled during or after its win.
THEOREM BooksFollowVerdictCorrect ==
  ASSUME "verdict" \notin Overlaps
  PROVE  Spec => []BooksFollowVerdict
<1>1. Init => VerdictInv
  BY DEF Init, VerdictInv, Verdict, Holding
<1>2. CoreInv /\ VerdictInv => BooksFollowVerdict
  BY DEF VerdictInv, BooksFollowVerdict, Handled
<1>3. CoreInv /\ VerdictInv /\ [Next]_vars => VerdictInv'
  BY VerdictStep DEF CoreInv
<1> QED
  BY <1>1, <1>2, <1>3, Core, PTL DEF Spec

\* No payout starts for a settlement that still counts a payment it was to be flagged
\* for, however many builds, admins, rebuilds and handlers are at work and whatever
\* dies: the flag and the list stand until a rebuild has dropped all that is on it.
THEOREM PayoutStartsCleanCorrect == Spec => PayoutStartsClean
<1> DEFINE Clean == \A c \in Requests, s \in Settlements :
                      CheckPayout(c, s) => counted[s].payments \cap reported[s] = {}
<1>1. ASSUME Init PROVE ReportInv
  <2>1. \A s \in Settlements : Fresh(s)
    BY <1>1, ConstantsAssumption DEF Init, Fresh, Holding
  <2>2. \A s \in Settlements : status[s] \notin Closed /\ reported[s] = {}
    BY <1>1 DEF Init, Closed
  <2>3. \A c \in Requests : pc[c] = "idle"
    BY <1>1 DEF Init
  <2> QED
    BY <2>1, <2>2, <2>3 DEF ReportInv
<1>2. CoreInv /\ ReportInv /\ [Next]_vars => ReportInv'
  BY ReportStep DEF CoreInv
<1>3. ASSUME CoreInv, ReportInv, NEW c \in Requests, NEW s \in Settlements,
             CheckPayout(c, s), NEW p \in counted[s].payments, p \in reported[s]
      PROVE  FALSE
  <2>1. status[s] = "APPROVED" /\ ~flagged[s]
    BY <1>3 DEF CheckPayout
  <2>2. claimed[p] = s
    BY <1>3, <2>1 DEF CoreInv, CountInv, Matches, PaymentsOf
  <2> QED
    BY <1>3, <2>1, <2>2 DEF ReportInv
<1>4. CoreInv /\ ReportInv => Clean
  BY <1>3
<1>5. Spec => [](CoreInv /\ ReportInv)
  BY <1>1, <1>2, Core, PTL DEF Spec
<1>6. PayoutStartsClean <=> [][Clean]_vars
  BY PTL DEF PayoutStartsClean
<1> QED
  BY <1>4, <1>5, <1>6, PTL
=============================================================================
