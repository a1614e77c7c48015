--------------------------- MODULE CheckoutProofs ---------------------------
(***************************************************************************)
(* Proofs about Checkout, for any taps, keys and number of faults: one key *)
(* opens one order, a tap without one leaves nothing behind, and what is   *)
(* handed out is whole, but for a key that is used after its quote.        *)
(***************************************************************************)
EXTENDS Checkout, SequenceTheorems, TLAPS

\* The type invariant, of every step of a tap, of time and of the sweeps.
THEOREM TypeCorrect == Spec => []TypeOK
<1>1. Init => TypeOK
  BY ConstantsAssumption DEF Init, TypeOK, Labels, NotFound
<1>2. TypeOK /\ [Next]_vars => TypeOK'
  <2> SUFFICES ASSUME TypeOK, [Next]_vars PROVE TypeOK'
    OBVIOUS
  <2> USE ConstantsAssumption DEF TypeOK, Labels, Goto, Continue, Answer, NotFound, rows
  <2>1. ASSUME NEW t \in Taps, StartTap(t) PROVE TypeOK'
    BY <2>1 DEF StartTap
  <2>2. ASSUME NEW t \in Taps, FindExisting(t) \/ FindWinner(t) PROVE TypeOK'
    <3>1. PICK u \in Taps : found' = [found EXCEPT ![t] = [tx |-> u, order |-> u \in order]]
      BY <2>2 DEF FindExisting, FindWinner, FindByKey, OfKey
    <3>2. [tx |-> u, order |-> u \in order] \in [tx : Taps \cup {None}, order : BOOLEAN]
      OBVIOUS
    <3>3. found' \in [Taps -> [tx : Taps \cup {None}, order : BOOLEAN]]
      BY <3>1, <3>2
    <3>4. CASE FindExisting(t)
      BY <3>3, <3>4 DEF FindExisting, FindByKey
    <3>5. CASE FindWinner(t)
      BY <3>3, <3>5 DEF FindWinner, FindByKey
    <3> QED
      BY <2>2, <3>4, <3>5
  <2>3. ASSUME NEW t \in Taps, NoExisting(t) \/ NoWinner(t) PROVE TypeOK'
    <3>1. CASE NoExisting(t)
      BY <3>1 DEF NoExisting
    <3>2. CASE NoWinner(t)
      BY <3>2 DEF NoWinner
    <3> QED
      BY <2>3, <3>1, <3>2
  <2>4. ASSUME NEW t \in Taps, HandExisting(t) \/ HandWinner(t) PROVE TypeOK'
    <3>0. [found EXCEPT ![t] = NotFound] \in [Taps -> [tx : Taps \cup {None}, order : BOOLEAN]]
      OBVIOUS
    <3>1. CASE HandExisting(t)
      <4>1. answer' \in [Taps -> Taps \cup {"none", "refused", "blank"}]
        BY <3>1 DEF HandExisting, AsRead
      <4>2. found' = [found EXCEPT ![t] = NotFound] /\ pc' \in [Taps -> Labels]
        BY <3>1 DEF HandExisting
      <4>3. UNCHANGED <<once, rows, aged, sweep, faults>>
        BY <3>1 DEF HandExisting
      <4> QED
        BY <3>0, <4>1, <4>2, <4>3
    <3>2. CASE HandWinner(t)
      <4>1. AsRead(t) \in Taps \cup {"blank"} \/ found[t].tx \notin linked
        BY DEF AsRead
      <4> QED
        BY <3>2, <4>1 DEF HandWinner
    <3> QED
      BY <2>4, <3>1, <3>2
  <2>5. ASSUME NEW t \in Taps, Reuse(t) PROVE TypeOK'
    <3>1. PICK u \in Taps : Answer(t, u)
      BY <2>5 DEF Reuse
    <3> QED
      BY <2>5, <3>1 DEF Reuse
  <2>6. ASSUME NEW t \in Taps, NotReused(t) \/ SlotTaken(t) \/ LoseKey(t) \/ RunOut(t)
        PROVE  TypeOK'
    <3>1. CASE NotReused(t)
      BY <3>1 DEF NotReused
    <3>2. CASE SlotTaken(t)
      BY <3>2 DEF SlotTaken
    <3>3. CASE LoseKey(t)
      BY <3>3 DEF LoseKey
    <3>4. CASE RunOut(t)
      BY <3>4 DEF RunOut
    <3> QED
      BY <2>6, <3>1, <3>2, <3>3, <3>4
  <2>7. ASSUME NEW t \in Taps, MakeClaim(t) PROVE TypeOK'
    <3>1. made' \in Seq(Taps)
      BY <2>7, AppendProperties DEF MakeClaim
    <3> QED
      BY <2>7, <3>1 DEF MakeClaim
  <2>8. ASSUME NEW t \in Taps, MakeTransaction(t) PROVE TypeOK'
    BY <2>8 DEF MakeTransaction
  <2>9. ASSUME NEW t \in Taps, UnwindLoser(t) \/ UndoClaim(t) PROVE TypeOK'
    <3>1. CASE UnwindLoser(t)
      BY <3>1 DEF UnwindLoser, DropClaim
    <3>2. CASE UndoClaim(t)
      BY <3>2 DEF UndoClaim, DropClaim
    <3> QED
      BY <2>9, <3>1, <3>2
  <2>10. ASSUME NEW t \in Taps, Reserve(t) \/ OpenOrder(t) \/ Link(t)
        PROVE  TypeOK'
    <3>1. CASE Reserve(t)
      BY <3>1 DEF Reserve
    <3>2. CASE OpenOrder(t)
      BY <3>2 DEF OpenOrder
    <3>3. CASE Link(t)
      BY <3>3 DEF Link
    <3> QED
      BY <2>10, <3>1, <3>2, <3>3
  <2>11. ASSUME NEW t \in Taps, ReleaseUse(t) PROVE TypeOK'
    BY <2>11 DEF ReleaseUse, LetUseGo
  <2>12. ASSUME NEW t \in Taps, DeleteTransaction(t) PROVE TypeOK'
    BY <2>12 DEF DeleteTransaction, Unwound
  <2>13. ASSUME NEW t \in Taps, Fails(t) \/ Crash(t) PROVE TypeOK'
    <3>1. CASE Fails(t)
      BY <3>1 DEF Fails
    <3>2. CASE Crash(t)
      BY <3>2 DEF Crash
    <3> QED
      BY <2>13, <3>1, <3>2
  <2>14. ASSUME NEW t \in Taps, Age(t) \/ Settle(t) \/ LapseUse(t)
        PROVE  TypeOK'
    <3>1. CASE Age(t)
      BY <3>1 DEF Age
    <3>2. CASE Settle(t)
      BY <3>2 DEF Settle
    <3>3. CASE LapseUse(t)
      BY <3>3 DEF LapseUse
    <3> QED
      BY <2>14, <3>1, <3>2, <3>3
  <2>15. ASSUME NEW t \in Taps, SweepClaim(t) PROVE TypeOK'
    BY <2>15 DEF SweepClaim, DropClaim
  <2>16. CASE SweepUse
    <3>1. promo' \in [Taps -> {"NONE", "RESERVED", "CONSUMED", "RELEASED"}]
      BY <2>16 DEF SweepUse, LetUseGo
    <3> QED
      BY <2>16, <3>1 DEF SweepUse
  <2>17. CASE SweepTransaction \/ CrashSweep
    BY <2>17 DEF SweepTransaction, CrashSweep
  <2>18. CASE UNCHANGED vars
    BY <2>18 DEF vars
  <2> QED
    BY <2>1, <2>2, <2>3, <2>4, <2>5, <2>6, <2>7, <2>8, <2>9, <2>10, <2>11, <2>12, <2>13,
       <2>14, <2>15, <2>16, <2>17, <2>18 DEF Next, Step, Sweep
<1> QED
  BY <1>1, <1>2, PTL DEF Spec

-----------------------------------------------------------------------------
(* The invariant.                                                          *)

\* What a tap has made at each of its steps, and that nothing but the tap
\* itself touches it until it has ended.
ProgressInv ==
  \A t \in Taps :
    /\ pc[t] \in {"new", "key", "keyclaim", "window", "claim"} => claim[t] = "NONE"
    /\ pc[t] \in {"transaction", "promo", "order", "link"} => claim[t] = "PENDING"
    /\ pc[t] \in {"new", "key", "keyclaim", "window", "claim", "winner", "winnerclaim"} =>
         claim[t] # "PENDING" /\ t \notin slots
    /\ pc[t] \in {"new", "key", "keyclaim", "window", "claim", "transaction", "lost",
                  "winner", "winnerclaim"} => tx[t] = "NONE" /\ promo[t] = "NONE"
    /\ pc[t] \in {"promo", "order", "link", "release"} => tx[t] = "OPEN"
    /\ pc[t] \in {"order", "link"} => promo[t] = "RESERVED"
    /\ pc[t] = "link" => t \in order
    /\ pc[t] \in {"delete", "undo"} => promo[t] # "RESERVED"
    /\ pc[t] = "delete" => tx[t] = "OPEN"
    /\ pc[t] = "undo" => tx[t] # "OPEN"
    /\ pc[t] # "done" => t \notin aged /\ t \notin linked /\ answer[t] = "none"

\* A transaction has the only order, and the only transaction, of its key.
KeyInv ==
  /\ linked \subseteq order
  /\ \A t \in order : tx[t] # "NONE"
  /\ \A t, u \in Taps : SameKey(t, u) /\ tx[t] # "NONE" /\ tx[u] # "NONE" => t = u

\* What is handed out was linked, what is linked is whole until its quote has
\* lapsed, and the sweep is at a claim whose quote has.
HandedInv ==
  /\ \A t \in Taps : answer[t] \in Taps => answer[t] \in linked
  /\ \A t \in linked \ aged : Whole(t)
  /\ sweep.at # "idle" => sweep.claim \in aged

\* What a tap has found goes by its own key.
FoundInv ==
  \A t \in Taps :
    pc[t] \in {"keyclaim", "winnerclaim"} =>
      found[t].tx \in Taps /\ SameKey(t, found[t].tx)

Inv == TypeOK /\ ProgressInv /\ KeyInv /\ HandedInv /\ FoundInv /\ RefusedHoldsNothing

\* The steps of a tap, the payment of what was handed out, and the sweeps of what
\* is past its quote keep it.
LEMMA ProgressStep ==
  ASSUME Inv, [Next]_vars
  PROVE  ProgressInv'
<1> USE DEF Inv, TypeOK, Labels, Goto, Continue, Answer, AsRead, NotFound, rows, ProgressInv
<1>1. ASSUME NEW x \in Taps, StartTap(x) PROVE ProgressInv'
  BY <1>1 DEF StartTap
<1>2. ASSUME NEW x \in Taps, FindExisting(x) PROVE ProgressInv'
  BY <1>2 DEF FindExisting, FindByKey, OfKey
<1>3. ASSUME NEW x \in Taps, NoExisting(x) PROVE ProgressInv'
  BY <1>3 DEF NoExisting
<1>4. ASSUME NEW x \in Taps, HandExisting(x) PROVE ProgressInv'
  BY <1>4 DEF HandExisting
<1>5. ASSUME NEW x \in Taps, Reuse(x) PROVE ProgressInv'
  BY <1>5 DEF Reuse
<1>6. ASSUME NEW x \in Taps, NotReused(x) PROVE ProgressInv'
  BY <1>6 DEF NotReused
<1>7. ASSUME NEW x \in Taps, MakeClaim(x) PROVE ProgressInv'
  BY <1>7 DEF MakeClaim
<1>8. ASSUME NEW x \in Taps, SlotTaken(x) PROVE ProgressInv'
  BY <1>8 DEF SlotTaken
<1>9. ASSUME NEW x \in Taps, MakeTransaction(x) PROVE ProgressInv'
  BY <1>9 DEF MakeTransaction
<1>10. ASSUME NEW x \in Taps, LoseKey(x) PROVE ProgressInv'
  BY <1>10 DEF LoseKey
<1>11. ASSUME NEW x \in Taps, UnwindLoser(x) PROVE ProgressInv'
  BY <1>11 DEF UnwindLoser, DropClaim
<1>12. ASSUME NEW x \in Taps, FindWinner(x) PROVE ProgressInv'
  BY <1>12 DEF FindWinner, FindByKey, OfKey
<1>13. ASSUME NEW x \in Taps, NoWinner(x) PROVE ProgressInv'
  BY <1>13 DEF NoWinner
<1>14. ASSUME NEW x \in Taps, HandWinner(x) PROVE ProgressInv'
  BY <1>14 DEF HandWinner
<1>15. ASSUME NEW x \in Taps, Reserve(x) PROVE ProgressInv'
  BY <1>15 DEF Reserve
<1>16. ASSUME NEW x \in Taps, RunOut(x) PROVE ProgressInv'
  BY <1>16 DEF RunOut
<1>17. ASSUME NEW x \in Taps, OpenOrder(x) PROVE ProgressInv'
  BY <1>17 DEF OpenOrder
<1>18. ASSUME NEW x \in Taps, Link(x) PROVE ProgressInv'
  BY <1>18 DEF Link
<1>19. ASSUME NEW x \in Taps, ReleaseUse(x) PROVE ProgressInv'
  BY <1>19 DEF ReleaseUse, LetUseGo
<1>20. ASSUME NEW x \in Taps, DeleteTransaction(x) PROVE ProgressInv'
  BY <1>20 DEF DeleteTransaction, Unwound
<1>21. ASSUME NEW x \in Taps, UndoClaim(x) PROVE ProgressInv'
  BY <1>21 DEF UndoClaim, DropClaim
<1>22. ASSUME NEW x \in Taps, Fails(x) PROVE ProgressInv'
  BY <1>22 DEF Fails
<1>23. ASSUME NEW x \in Taps, Crash(x) PROVE ProgressInv'
  BY <1>23 DEF Crash
<1>24. ASSUME NEW x \in Taps, Age(x) PROVE ProgressInv'
  BY <1>24 DEF Age
<1>25. ASSUME NEW x \in Taps, Settle(x) PROVE ProgressInv'
  BY <1>25 DEF Settle, HandedInv
<1>26. ASSUME NEW x \in Taps, LapseUse(x) PROVE ProgressInv'
  BY <1>26 DEF LapseUse
<1>27. ASSUME NEW x \in Taps, SweepClaim(x) PROVE ProgressInv'
  BY <1>27 DEF SweepClaim, DropClaim, Stale
<1>28. CASE SweepUse
  BY <1>28 DEF SweepUse, LetUseGo
<1>29. CASE SweepTransaction
  BY <1>29 DEF SweepTransaction
<1>30. CASE CrashSweep
  BY <1>30 DEF CrashSweep
<1>31. CASE UNCHANGED vars
  BY <1>31 DEF vars
<1> QED
  BY <1>1, <1>2, <1>3, <1>4, <1>5, <1>6, <1>7, <1>8, <1>9, <1>10, <1>11, <1>12,
     <1>13, <1>14, <1>15, <1>16, <1>17, <1>18, <1>19, <1>20, <1>21, <1>22, <1>23,
     <1>24, <1>25, <1>26, <1>27, <1>28, <1>29, <1>30, <1>31
  DEF Next, Step, Sweep

\* Only a key that is free everywhere gets a transaction.
LEMMA KeyStep ==
  ASSUME Inv, [Next]_vars
  PROVE  KeyInv'
<1> USE DEF Inv, TypeOK, Labels, Goto, Continue, Answer, AsRead, NotFound, rows, KeyInv, SameKey
<1>1. ASSUME NEW x \in Taps, StartTap(x) PROVE KeyInv'
  BY <1>1 DEF StartTap
<1>2. ASSUME NEW x \in Taps, FindExisting(x) PROVE KeyInv'
  BY <1>2 DEF FindExisting, FindByKey, OfKey
<1>3. ASSUME NEW x \in Taps, NoExisting(x) PROVE KeyInv'
  BY <1>3 DEF NoExisting
<1>4. ASSUME NEW x \in Taps, HandExisting(x) PROVE KeyInv'
  BY <1>4 DEF HandExisting
<1>5. ASSUME NEW x \in Taps, Reuse(x) PROVE KeyInv'
  BY <1>5 DEF Reuse
<1>6. ASSUME NEW x \in Taps, NotReused(x) PROVE KeyInv'
  BY <1>6 DEF NotReused
<1>7. ASSUME NEW x \in Taps, MakeClaim(x) PROVE KeyInv'
  BY <1>7 DEF MakeClaim
<1>8. ASSUME NEW x \in Taps, SlotTaken(x) PROVE KeyInv'
  BY <1>8 DEF SlotTaken
<1>9. ASSUME NEW x \in Taps, MakeTransaction(x) PROVE KeyInv'
  BY <1>9 DEF MakeTransaction, KeyFree, ProgressInv
<1>10. ASSUME NEW x \in Taps, LoseKey(x) PROVE KeyInv'
  BY <1>10 DEF LoseKey
<1>11. ASSUME NEW x \in Taps, UnwindLoser(x) PROVE KeyInv'
  BY <1>11 DEF UnwindLoser, DropClaim
<1>12. ASSUME NEW x \in Taps, FindWinner(x) PROVE KeyInv'
  BY <1>12 DEF FindWinner, FindByKey, OfKey
<1>13. ASSUME NEW x \in Taps, NoWinner(x) PROVE KeyInv'
  BY <1>13 DEF NoWinner
<1>14. ASSUME NEW x \in Taps, HandWinner(x) PROVE KeyInv'
  BY <1>14 DEF HandWinner
<1>15. ASSUME NEW x \in Taps, Reserve(x) PROVE KeyInv'
  BY <1>15 DEF Reserve
<1>16. ASSUME NEW x \in Taps, RunOut(x) PROVE KeyInv'
  BY <1>16 DEF RunOut
<1>17. ASSUME NEW x \in Taps, OpenOrder(x) PROVE KeyInv'
  BY <1>17 DEF OpenOrder, ProgressInv
<1>18. ASSUME NEW x \in Taps, Link(x) PROVE KeyInv'
  BY <1>18 DEF Link, ProgressInv
<1>19. ASSUME NEW x \in Taps, ReleaseUse(x) PROVE KeyInv'
  BY <1>19 DEF ReleaseUse, LetUseGo
<1>20. ASSUME NEW x \in Taps, DeleteTransaction(x) PROVE KeyInv'
  BY <1>20 DEF DeleteTransaction, Unwound, ProgressInv
<1>21. ASSUME NEW x \in Taps, UndoClaim(x) PROVE KeyInv'
  BY <1>21 DEF UndoClaim, DropClaim
<1>22. ASSUME NEW x \in Taps, Fails(x) PROVE KeyInv'
  BY <1>22 DEF Fails
<1>23. ASSUME NEW x \in Taps, Crash(x) PROVE KeyInv'
  BY <1>23 DEF Crash
<1>24. ASSUME NEW x \in Taps, Age(x) PROVE KeyInv'
  BY <1>24 DEF Age
<1>25. ASSUME NEW x \in Taps, Settle(x) PROVE KeyInv'
  BY <1>25 DEF Settle
<1>26. ASSUME NEW x \in Taps, LapseUse(x) PROVE KeyInv'
  BY <1>26 DEF LapseUse
<1>27. ASSUME NEW x \in Taps, SweepClaim(x) PROVE KeyInv'
  BY <1>27 DEF SweepClaim, DropClaim, Stale
<1>28. CASE SweepUse
  BY <1>28 DEF SweepUse, LetUseGo
<1>29. CASE SweepTransaction
  BY <1>29 DEF SweepTransaction, HandedInv
<1>30. CASE CrashSweep
  BY <1>30 DEF CrashSweep
<1>31. CASE UNCHANGED vars
  BY <1>31 DEF vars
<1> QED
  BY <1>1, <1>2, <1>3, <1>4, <1>5, <1>6, <1>7, <1>8, <1>9, <1>10, <1>11, <1>12,
     <1>13, <1>14, <1>15, <1>16, <1>17, <1>18, <1>19, <1>20, <1>21, <1>22, <1>23,
     <1>24, <1>25, <1>26, <1>27, <1>28, <1>29, <1>30, <1>31
  DEF Next, Step, Sweep

\* A claim is linked last, and swept only past its quote.
LEMMA HandedStep ==
  ASSUME Inv, [Next]_vars
  PROVE  HandedInv'
<1> USE DEF Inv, TypeOK, Labels, Goto, Continue, Answer, AsRead, NotFound, rows, HandedInv, Whole
<1>1. ASSUME NEW x \in Taps, StartTap(x) PROVE HandedInv'
  BY <1>1 DEF StartTap
<1>2. ASSUME NEW x \in Taps, FindExisting(x) PROVE HandedInv'
  BY <1>2 DEF FindExisting, FindByKey, OfKey
<1>3. ASSUME NEW x \in Taps, NoExisting(x) PROVE HandedInv'
  BY <1>3 DEF NoExisting
<1>4. ASSUME NEW x \in Taps, HandExisting(x) PROVE HandedInv'
  <2>1. CASE found[x].tx \in linked
    <3>1. answer' = [answer EXCEPT ![x] = AsRead(x)] /\ AsRead(x) \in linked \cup {"blank"}
      BY <1>4, <2>1 DEF HandExisting
    <3> QED
      BY <1>4, <3>1, ConstantsAssumption DEF HandExisting
  <2>2. CASE found[x].tx \notin linked
    BY <1>4, <2>2 DEF HandExisting
  <2> QED
    BY <2>1, <2>2
<1>5. ASSUME NEW x \in Taps, Reuse(x) PROVE HandedInv'
  BY <1>5 DEF Reuse
<1>6. ASSUME NEW x \in Taps, NotReused(x) PROVE HandedInv'
  BY <1>6 DEF NotReused
<1>7. ASSUME NEW x \in Taps, MakeClaim(x) PROVE HandedInv'
  BY <1>7 DEF MakeClaim
<1>8. ASSUME NEW x \in Taps, SlotTaken(x) PROVE HandedInv'
  BY <1>8, ConstantsAssumption DEF SlotTaken, ProgressInv
<1>9. ASSUME NEW x \in Taps, MakeTransaction(x) PROVE HandedInv'
  BY <1>9 DEF MakeTransaction
<1>10. ASSUME NEW x \in Taps, LoseKey(x) PROVE HandedInv'
  BY <1>10 DEF LoseKey
<1>11. ASSUME NEW x \in Taps, UnwindLoser(x) PROVE HandedInv'
  BY <1>11, ConstantsAssumption DEF UnwindLoser, DropClaim, ProgressInv
<1>12. ASSUME NEW x \in Taps, FindWinner(x) PROVE HandedInv'
  BY <1>12 DEF FindWinner, FindByKey, OfKey
<1>13. ASSUME NEW x \in Taps, NoWinner(x) PROVE HandedInv'
  BY <1>13, ConstantsAssumption DEF NoWinner, ProgressInv
<1>14. ASSUME NEW x \in Taps, HandWinner(x) PROVE HandedInv'
  BY <1>14, ConstantsAssumption DEF HandWinner, ProgressInv
<1>15. ASSUME NEW x \in Taps, Reserve(x) PROVE HandedInv'
  BY <1>15 DEF Reserve
<1>16. ASSUME NEW x \in Taps, RunOut(x) PROVE HandedInv'
  BY <1>16 DEF RunOut
<1>17. ASSUME NEW x \in Taps, OpenOrder(x) PROVE HandedInv'
  BY <1>17 DEF OpenOrder
<1>18. ASSUME NEW x \in Taps, Link(x) PROVE HandedInv'
  BY <1>18, ConstantsAssumption DEF Link, ProgressInv
<1>19. ASSUME NEW x \in Taps, ReleaseUse(x) PROVE HandedInv'
  BY <1>19, ConstantsAssumption DEF ReleaseUse, LetUseGo, ProgressInv
<1>20. ASSUME NEW x \in Taps, DeleteTransaction(x) PROVE HandedInv'
  BY <1>20, ConstantsAssumption DEF DeleteTransaction, Unwound, ProgressInv
<1>21. ASSUME NEW x \in Taps, UndoClaim(x) PROVE HandedInv'
  BY <1>21, ConstantsAssumption DEF UndoClaim, DropClaim, ProgressInv
<1>22. ASSUME NEW x \in Taps, Fails(x) PROVE HandedInv'
  BY <1>22 DEF Fails
<1>23. ASSUME NEW x \in Taps, Crash(x) PROVE HandedInv'
  BY <1>23 DEF Crash
<1>24. ASSUME NEW x \in Taps, Age(x) PROVE HandedInv'
  BY <1>24 DEF Age
<1>25. ASSUME NEW x \in Taps, Settle(x) PROVE HandedInv'
  BY <1>25 DEF Settle
<1>26. ASSUME NEW x \in Taps, LapseUse(x) PROVE HandedInv'
  BY <1>26 DEF LapseUse
<1>27. ASSUME NEW x \in Taps, SweepClaim(x) PROVE HandedInv'
  BY <1>27 DEF SweepClaim, DropClaim, Stale
<1>28. CASE SweepUse
  BY <1>28 DEF SweepUse, LetUseGo
<1>29. CASE SweepTransaction
  BY <1>29 DEF SweepTransaction
<1>30. CASE CrashSweep
  BY <1>30 DEF CrashSweep
<1>31. CASE UNCHANGED vars
  BY <1>31 DEF vars
<1> QED
  BY <1>1, <1>2, <1>3, <1>4, <1>5, <1>6, <1>7, <1>8, <1>9, <1>10, <1>11, <1>12,
     <1>13, <1>14, <1>15, <1>16, <1>17, <1>18, <1>19, <1>20, <1>21, <1>22, <1>23,
     <1>24, <1>25, <1>26, <1>27, <1>28, <1>29, <1>30, <1>31
  DEF Next, Step, Sweep

\* What a tap looks up, it looks up by its key.
LEMMA FoundStep ==
  ASSUME Inv, [Next]_vars
  PROVE  FoundInv'
<1> USE DEF Inv, TypeOK, Labels, Goto, Continue, Answer, AsRead, NotFound, rows, FoundInv, SameKey
<1>1. ASSUME NEW x \in Taps, StartTap(x) PROVE FoundInv'
  BY <1>1 DEF StartTap
<1>2. ASSUME NEW x \in Taps, FindExisting(x) PROVE FoundInv'
  BY <1>2 DEF FindExisting, FindByKey, OfKey
<1>3. ASSUME NEW x \in Taps, NoExisting(x) PROVE FoundInv'
  BY <1>3 DEF NoExisting
<1>4. ASSUME NEW x \in Taps, HandExisting(x) PROVE FoundInv'
  BY <1>4 DEF HandExisting
<1>5. ASSUME NEW x \in Taps, Reuse(x) PROVE FoundInv'
  BY <1>5 DEF Reuse
<1>6. ASSUME NEW x \in Taps, NotReused(x) PROVE FoundInv'
  BY <1>6 DEF NotReused
<1>7. ASSUME NEW x \in Taps, MakeClaim(x) PROVE FoundInv'
  BY <1>7 DEF MakeClaim
<1>8. ASSUME NEW x \in Taps, SlotTaken(x) PROVE FoundInv'
  BY <1>8 DEF SlotTaken
<1>9. ASSUME NEW x \in Taps, MakeTransaction(x) PROVE FoundInv'
  BY <1>9 DEF MakeTransaction
<1>10. ASSUME NEW x \in Taps, LoseKey(x) PROVE FoundInv'
  BY <1>10 DEF LoseKey
<1>11. ASSUME NEW x \in Taps, UnwindLoser(x) PROVE FoundInv'
  BY <1>11 DEF UnwindLoser, DropClaim
<1>12. ASSUME NEW x \in Taps, FindWinner(x) PROVE FoundInv'
  BY <1>12 DEF FindWinner, FindByKey, OfKey
<1>13. ASSUME NEW x \in Taps, NoWinner(x) PROVE FoundInv'
  BY <1>13 DEF NoWinner
<1>14. ASSUME NEW x \in Taps, HandWinner(x) PROVE FoundInv'
  BY <1>14 DEF HandWinner
<1>15. ASSUME NEW x \in Taps, Reserve(x) PROVE FoundInv'
  BY <1>15 DEF Reserve
<1>16. ASSUME NEW x \in Taps, RunOut(x) PROVE FoundInv'
  BY <1>16 DEF RunOut
<1>17. ASSUME NEW x \in Taps, OpenOrder(x) PROVE FoundInv'
  BY <1>17 DEF OpenOrder
<1>18. ASSUME NEW x \in Taps, Link(x) PROVE FoundInv'
  BY <1>18 DEF Link
<1>19. ASSUME NEW x \in Taps, ReleaseUse(x) PROVE FoundInv'
  BY <1>19 DEF ReleaseUse, LetUseGo
<1>20. ASSUME NEW x \in Taps, DeleteTransaction(x) PROVE FoundInv'
  BY <1>20 DEF DeleteTransaction, Unwound
<1>21. ASSUME NEW x \in Taps, UndoClaim(x) PROVE FoundInv'
  BY <1>21 DEF UndoClaim, DropClaim
<1>22. ASSUME NEW x \in Taps, Fails(x) PROVE FoundInv'
  BY <1>22 DEF Fails
<1>23. ASSUME NEW x \in Taps, Crash(x) PROVE FoundInv'
  BY <1>23 DEF Crash
<1>24. ASSUME NEW x \in Taps, Age(x) PROVE FoundInv'
  BY <1>24 DEF Age
<1>25. ASSUME NEW x \in Taps, Settle(x) PROVE FoundInv'
  BY <1>25 DEF Settle
<1>26. ASSUME NEW x \in Taps, LapseUse(x) PROVE FoundInv'
  BY <1>26 DEF LapseUse
<1>27. ASSUME NEW x \in Taps, SweepClaim(x) PROVE FoundInv'
  BY <1>27 DEF SweepClaim, DropClaim, Stale
<1>28. CASE SweepUse
  BY <1>28 DEF SweepUse, LetUseGo
<1>29. CASE SweepTransaction
  BY <1>29 DEF SweepTransaction
<1>30. CASE CrashSweep
  BY <1>30 DEF CrashSweep
<1>31. CASE UNCHANGED vars
  BY <1>31 DEF vars
<1> QED
  BY <1>1, <1>2, <1>3, <1>4, <1>5, <1>6, <1>7, <1>8, <1>9, <1>10, <1>11, <1>12,
     <1>13, <1>14, <1>15, <1>16, <1>17, <1>18, <1>19, <1>20, <1>21, <1>22, <1>23,
     <1>24, <1>25, <1>26, <1>27, <1>28, <1>29, <1>30, <1>31
  DEF Next, Step, Sweep

\* A tap that is refused has unwound what it made, and nothing makes it again.
LEMMA RefusedStep ==
  ASSUME Inv, [Next]_vars
  PROVE  RefusedHoldsNothing'
<1> USE DEF Inv, TypeOK, Labels, Goto, Continue, Answer, AsRead, NotFound, rows, RefusedHoldsNothing
<1>1. ASSUME NEW x \in Taps, StartTap(x) PROVE RefusedHoldsNothing'
  BY <1>1 DEF StartTap
<1>2. ASSUME NEW x \in Taps, FindExisting(x) PROVE RefusedHoldsNothing'
  BY <1>2 DEF FindExisting, FindByKey, OfKey
<1>3. ASSUME NEW x \in Taps, NoExisting(x) PROVE RefusedHoldsNothing'
  BY <1>3 DEF NoExisting
<1>4. ASSUME NEW x \in Taps, HandExisting(x) PROVE RefusedHoldsNothing'
  BY <1>4, ConstantsAssumption DEF HandExisting, ProgressInv
<1>5. ASSUME NEW x \in Taps, Reuse(x) PROVE RefusedHoldsNothing'
  BY <1>5, ConstantsAssumption DEF Reuse, ProgressInv
<1>6. ASSUME NEW x \in Taps, NotReused(x) PROVE RefusedHoldsNothing'
  BY <1>6 DEF NotReused
<1>7. ASSUME NEW x \in Taps, MakeClaim(x) PROVE RefusedHoldsNothing'
  BY <1>7, ConstantsAssumption DEF MakeClaim, ProgressInv
<1>8. ASSUME NEW x \in Taps, SlotTaken(x) PROVE RefusedHoldsNothing'
  BY <1>8, ConstantsAssumption DEF SlotTaken, ProgressInv
<1>9. ASSUME NEW x \in Taps, MakeTransaction(x) PROVE RefusedHoldsNothing'
  BY <1>9, ConstantsAssumption DEF MakeTransaction, ProgressInv
<1>10. ASSUME NEW x \in Taps, LoseKey(x) PROVE RefusedHoldsNothing'
  BY <1>10 DEF LoseKey
<1>11. ASSUME NEW x \in Taps, UnwindLoser(x) PROVE RefusedHoldsNothing'
  BY <1>11 DEF UnwindLoser, DropClaim
<1>12. ASSUME NEW x \in Taps, FindWinner(x) PROVE RefusedHoldsNothing'
  BY <1>12 DEF FindWinner, FindByKey, OfKey
<1>13. ASSUME NEW x \in Taps, NoWinner(x) PROVE RefusedHoldsNothing'
  BY <1>13, ConstantsAssumption DEF NoWinner, ProgressInv
<1>14. ASSUME NEW x \in Taps, HandWinner(x) PROVE RefusedHoldsNothing'
  BY <1>14, ConstantsAssumption DEF HandWinner, ProgressInv
<1>15. ASSUME NEW x \in Taps, Reserve(x) PROVE RefusedHoldsNothing'
  BY <1>15, ConstantsAssumption DEF Reserve, ProgressInv
<1>16. ASSUME NEW x \in Taps, RunOut(x) PROVE RefusedHoldsNothing'
  BY <1>16 DEF RunOut
<1>17. ASSUME NEW x \in Taps, OpenOrder(x) PROVE RefusedHoldsNothing'
  BY <1>17 DEF OpenOrder
<1>18. ASSUME NEW x \in Taps, Link(x) PROVE RefusedHoldsNothing'
  BY <1>18, ConstantsAssumption DEF Link, ProgressInv
<1>19. ASSUME NEW x \in Taps, ReleaseUse(x) PROVE RefusedHoldsNothing'
  BY <1>19 DEF ReleaseUse, LetUseGo
<1>20. ASSUME NEW x \in Taps, DeleteTransaction(x) PROVE RefusedHoldsNothing'
  BY <1>20 DEF DeleteTransaction, Unwound
<1>21. ASSUME NEW x \in Taps, UndoClaim(x) PROVE RefusedHoldsNothing'
  BY <1>21, ConstantsAssumption DEF UndoClaim, DropClaim, ProgressInv
<1>22. ASSUME NEW x \in Taps, Fails(x) PROVE RefusedHoldsNothing'
  BY <1>22 DEF Fails
<1>23. ASSUME NEW x \in Taps, Crash(x) PROVE RefusedHoldsNothing'
  BY <1>23 DEF Crash
<1>24. ASSUME NEW x \in Taps, Age(x) PROVE RefusedHoldsNothing'
  BY <1>24 DEF Age
<1>25. ASSUME NEW x \in Taps, Settle(x) PROVE RefusedHoldsNothing'
  BY <1>25 DEF Settle
<1>26. ASSUME NEW x \in Taps, LapseUse(x) PROVE RefusedHoldsNothing'
  BY <1>26 DEF LapseUse
<1>27. ASSUME NEW x \in Taps, SweepClaim(x) PROVE RefusedHoldsNothing'
  BY <1>27 DEF SweepClaim, DropClaim, Stale
<1>28. CASE SweepUse
  BY <1>28 DEF SweepUse, LetUseGo
<1>29. CASE SweepTransaction
  BY <1>29 DEF SweepTransaction
<1>30. CASE CrashSweep
  BY <1>30 DEF CrashSweep
<1>31. CASE UNCHANGED vars
  BY <1>31 DEF vars
<1> QED
  BY <1>1, <1>2, <1>3, <1>4, <1>5, <1>6, <1>7, <1>8, <1>9, <1>10, <1>11, <1>12,
     <1>13, <1>14, <1>15, <1>16, <1>17, <1>18, <1>19, <1>20, <1>21, <1>22, <1>23,
     <1>24, <1>25, <1>26, <1>27, <1>28, <1>29, <1>30, <1>31
  DEF Next, Step, Sweep

-----------------------------------------------------------------------------
(* The theorems.                                                           *)

\* The parts hold together in every reachable state.
LEMMA InvAlways == Spec => []Inv
<1>1. Init => TypeOK
  BY ConstantsAssumption DEF Init, TypeOK, Labels, NotFound
<1>2. TypeOK /\ Init => Inv
  <2> SUFFICES ASSUME TypeOK, Init PROVE Inv
    OBVIOUS
  <2> USE ConstantsAssumption DEF Init, TypeOK
  <2>1. ProgressInv
    BY DEF ProgressInv
  <2>2. KeyInv
    BY DEF KeyInv
  <2>3. HandedInv
    BY DEF HandedInv
  <2>4. FoundInv
    BY DEF FoundInv
  <2>5. RefusedHoldsNothing
    BY DEF RefusedHoldsNothing
  <2> QED
    BY <2>1, <2>2, <2>3, <2>4, <2>5 DEF Inv
<1>3. Inv /\ TypeOK' /\ [Next]_vars => Inv'
  BY ProgressStep, KeyStep, HandedStep, FoundStep, RefusedStep DEF Inv
<1> QED
  BY <1>1, <1>2, <1>3, TypeCorrect, PTL DEF Spec

\* However often a customer taps or retries, one key opens one gateway order.
THEOREM OneOrderPerKeyCorrect == Spec => []OneOrderPerKey
<1>1. Inv => OneOrderPerKey
  BY DEF Inv, TypeOK, KeyInv, OneOrderPerKey
<1> QED
  BY <1>1, InvAlways, PTL

\* A tap that got no order leaves nothing behind, wherever it failed.
THEOREM RefusedHoldsNothingCorrect == Spec => []RefusedHoldsNothing
<1>1. Inv => RefusedHoldsNothing
  BY DEF Inv
<1> QED
  BY <1>1, InvAlways, PTL

\* What a tap is handed, its own or that of another tap, may be paid, and an
\* answer without an order is about one that may: but for a key used again after
\* its quote.
THEOREM HandsOutWholeOrdersCorrect == Spec => HandsOutWholeOrders
<1>1. ASSUME Inv, HandedInv', [Next]_vars, NEW t \in Taps, NEW u \in Taps,
             answer[t] = "none",
             answer'[t] = u \/ (answer'[t] = "blank" /\ found[t].tx = u)
      PROVE  Whole(u)' \/ LateByKey(t, u)
  <2> USE <1>1, ConstantsAssumption
      DEF Inv, TypeOK, Goto, Continue, Answer, AsRead, NotFound, rows
  <2>1. SUFFICES u \in linked' /\ (u \notin aged' \/ LateByKey(t, u))
    BY DEF HandedInv
  <2>3. ASSUME NEW x \in Taps, HandExisting(x)
        PROVE  u \in linked' /\ (u \notin aged' \/ LateByKey(t, u))
    <3>1. x = t /\ u = found[x].tx /\ u \in linked /\ linked' = linked /\ aged' = aged
      BY <2>3 DEF HandExisting
    <3>2. SameKey(t, u) /\ t \notin linked
      BY <2>3, <3>1 DEF FoundInv, ProgressInv, HandExisting
    <3> QED
      BY <3>1, <3>2 DEF LateByKey
  <2>4. ASSUME NEW x \in Taps, HandWinner(x)
        PROVE  u \in linked' /\ (u \notin aged' \/ LateByKey(t, u))
    <3>1. x = t /\ u = found[x].tx /\ u \in linked /\ linked' = linked /\ aged' = aged
      BY <2>4 DEF HandWinner
    <3>2. SameKey(t, u) /\ t \notin linked
      BY <2>4, <3>1 DEF FoundInv, ProgressInv, HandWinner
    <3> QED
      BY <3>1, <3>2 DEF LateByKey
  <2>5. ASSUME NEW x \in Taps, Reuse(x) PROVE u \in linked' /\ u \notin aged'
    BY <2>5 DEF Reuse, Reusable
  <2>6. ASSUME NEW x \in Taps, Link(x) PROVE u \in linked' /\ u \notin aged'
    BY <2>6 DEF Link, ProgressInv
  <2>7. ASSUME NEW x \in Taps, SlotTaken(x) \/ NoWinner(x) \/ UndoClaim(x) PROVE FALSE
    <3>1. answer'[t] \in {answer[t], "refused"}
      BY <2>7 DEF SlotTaken, NoWinner, UndoClaim
    <3> QED
      BY <3>1
  <2>8. ASSUME NEW x \in Taps,
               StartTap(x) \/ FindExisting(x) \/ NoExisting(x) \/ NotReused(x)
               \/ MakeClaim(x) \/ MakeTransaction(x) \/ LoseKey(x)
        PROVE  FALSE
    <3>1. CASE StartTap(x)
      BY <3>1 DEF StartTap
    <3>2. CASE FindExisting(x)
      BY <3>2 DEF FindExisting, FindByKey
    <3>3. CASE NoExisting(x)
      BY <3>3 DEF NoExisting
    <3>4. CASE NotReused(x)
      BY <3>4 DEF NotReused
    <3>5. CASE MakeClaim(x)
      BY <3>5 DEF MakeClaim
    <3>6. CASE MakeTransaction(x)
      BY <3>6 DEF MakeTransaction
    <3>7. CASE LoseKey(x)
      BY <3>7 DEF LoseKey
    <3> QED
      BY <2>8, <3>1, <3>2, <3>3, <3>4, <3>5, <3>6, <3>7
  <2>9. ASSUME NEW x \in Taps,
               UnwindLoser(x) \/ FindWinner(x) \/ Reserve(x) \/ RunOut(x)
               \/ OpenOrder(x) \/ ReleaseUse(x) \/ DeleteTransaction(x)
        PROVE  FALSE
    <3>1. CASE UnwindLoser(x)
      BY <3>1 DEF UnwindLoser
    <3>2. CASE FindWinner(x)
      BY <3>2 DEF FindWinner, FindByKey
    <3>3. CASE Reserve(x)
      BY <3>3 DEF Reserve
    <3>4. CASE RunOut(x)
      BY <3>4 DEF RunOut
    <3>5. CASE OpenOrder(x)
      BY <3>5 DEF OpenOrder
    <3>6. CASE ReleaseUse(x)
      BY <3>6 DEF ReleaseUse
    <3>7. CASE DeleteTransaction(x)
      BY <3>7 DEF DeleteTransaction
    <3> QED
      BY <2>9, <3>1, <3>2, <3>3, <3>4, <3>5, <3>6, <3>7
  <2>10. ASSUME NEW x \in Taps,
               Fails(x) \/ Crash(x) \/ Age(x) \/ Settle(x) \/ LapseUse(x)
               \/ SweepClaim(x)
        PROVE  FALSE
    <3>1. CASE Fails(x)
      BY <3>1 DEF Fails
    <3>2. CASE Crash(x)
      BY <3>2 DEF Crash
    <3>3. CASE Age(x)
      BY <3>3 DEF Age
    <3>4. CASE Settle(x)
      BY <3>4 DEF Settle
    <3>5. CASE LapseUse(x)
      BY <3>5 DEF LapseUse
    <3>6. CASE SweepClaim(x)
      BY <3>6 DEF SweepClaim
    <3> QED
      BY <2>10, <3>1, <3>2, <3>3, <3>4, <3>5, <3>6
  <2>11. CASE SweepUse \/ SweepTransaction \/ CrashSweep \/ UNCHANGED vars
    BY <2>11 DEF SweepUse, SweepTransaction, CrashSweep, vars
  <2> QED
    BY <2>3, <2>4, <2>5, <2>6, <2>7, <2>8, <2>9, <2>10, <2>11
    DEF Next, Step, Sweep
<1>2. Inv /\ Inv' /\ [Next]_vars =>
        [\A t, u \in Taps :
           /\ answer[t] = "none"
           /\ answer'[t] = u \/ (answer'[t] = "blank" /\ found[t].tx = u)
           => Whole(u)' \/ LateByKey(t, u)]_vars
  BY <1>1 DEF Inv
<1> QED
  BY <1>2, InvAlways, PTL DEF Spec, HandsOutWholeOrders
=============================================================================
