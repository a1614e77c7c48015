----------------------- MODULE PromoReservationProofs -----------------------
(***************************************************************************)
(* Proofs about PromoReservation, for any number of checkouts and callers  *)
(* and any limit: the counter covers the rows, the code is not oversold,   *)
(* and a discount that was given stays consumed, as long as no call moves  *)
(* a row between the sweep's two calls.  Inv says what the counter holds   *)
(* beside the rows: the uses of the calls that are between their two       *)
(* database calls, and of the rows the sweep has marked.                   *)
(***************************************************************************)
EXTENDS PromoReservation, FiniteSetTheorems, TLAPS

-----------------------------------------------------------------------------
(* Types.                                                                  *)

\* A call under way knows its transaction.
TypeInv ==
  /\ TypeOK
  /\ \A c \in Callers : pc[c] # "idle" => tx[c] \in Transactions

\* Every step keeps the types, and every call its transaction.
LEMMA TypeStep == TypeInv /\ [Next]_vars => TypeInv'
<1> SUFFICES ASSUME TypeInv, [Next]_vars PROVE TypeInv'
  OBVIOUS
<1> USE ConstantsAssumption DEF TypeInv, TypeOK, Labels, Goto, Done, SetRow, Decremented
<1>1. ASSUME NEW c \in Callers, NEW t \in Transactions, TakeUse(c, t)
      PROVE  TypeInv'
  BY <1>1 DEF TakeUse
<1>2. ASSUME NEW c \in Callers, NEW t \in Transactions, ReleaseRow(c, t)
      PROVE  TypeInv'
  BY <1>2 DEF ReleaseRow, Releasable, Found
<1>3. ASSUME NEW c \in Callers, NEW t \in Transactions, RefundRow(c, t)
      PROVE  TypeInv'
  BY <1>3 DEF RefundRow
<1>4. ASSUME NEW c \in Callers, NEW t \in Transactions, ConsumeReserved(c, t)
      PROVE  TypeInv'
  BY <1>4 DEF ConsumeReserved, Found
<1>5. ASSUME NEW c \in Callers, NEW t \in Transactions, MissReserved(c, t)
      PROVE  TypeInv'
  BY <1>5 DEF MissReserved
<1>6. ASSUME NEW c \in Callers, InsertRow(c) PROVE TypeInv'
  BY <1>6 DEF InsertRow
<1>7. ASSUME NEW c \in Callers, GiveBack(c) PROVE TypeInv'
  BY <1>7 DEF GiveBack
<1>8. ASSUME NEW c \in Callers, AlreadyConsumed(c) PROVE TypeInv'
  BY <1>8 DEF AlreadyConsumed
<1>9. ASSUME NEW c \in Callers, FindNoneConsumed(c) PROVE TypeInv'
  BY <1>9 DEF FindNoneConsumed
<1>10. ASSUME NEW c \in Callers, CountAgain(c) PROVE TypeInv'
  BY <1>10 DEF CountAgain, CountedAgain
<1>11. ASSUME NEW c \in Callers, FlipRow(c) PROVE TypeInv'
  BY <1>11 DEF FlipRow
<1>12. ASSUME NEW c \in Callers, FlipRefused(c) PROVE TypeInv'
  BY <1>12 DEF FlipRefused
<1>13. ASSUME NEW c \in Callers, InsertFails(c) PROVE TypeInv'
  BY <1>13 DEF InsertFails
<1>14. ASSUME NEW c \in Callers, Crash(c) PROVE TypeInv'
  BY <1>14 DEF Crash
<1>15. ASSUME NEW t \in Transactions, Pay(t) PROVE TypeInv'
  BY <1>15 DEF Pay
<1>16. CASE SweepFind
  BY <1>16 DEF SweepFind
<1>17. CASE SweepMark
  BY <1>17 DEF SweepMark
<1>18. CASE SweepDecrement
  <2>1. IsFiniteSet(sweep.rows)
    BY FS_Subset
  <2>2. Cardinality(sweep.rows) \in Nat
    BY <2>1, FS_CardinalityType
  <2> QED
    BY <1>18, <2>2 DEF SweepDecrement, Swept
<1>19. CASE CrashSweep
  BY <1>19 DEF CrashSweep
<1>20. CASE UNCHANGED vars
  BY <1>20 DEF vars
<1> QED
  BY <1>1, <1>2, <1>3, <1>4, <1>5, <1>6, <1>7, <1>8, <1>9, <1>10, <1>11, <1>12,
     <1>13, <1>14, <1>15, <1>16, <1>17, <1>18, <1>19, <1>20
  DEF Next, Step, Sweep

\* The records of the promo, its reservations and the workers keep their types.
THEOREM TypeCorrect == Spec => []TypeOK
<1>1. Init => TypeInv
  BY ConstantsAssumption DEF Init, TypeInv, TypeOK, Labels
<1>2. TypeInv => TypeOK
  BY DEF TypeInv
<1> QED
  BY <1>1, <1>2, TypeStep, PTL DEF Spec

-----------------------------------------------------------------------------
(* The invariant.                                                          *)

\* The calls that hold a use no row shows: taken and not yet written, given
\* up and not yet put back, or counted again and not yet flipped.
Pending == {c \in Callers : pc[c] \in {"insert", "giveback", "flip"}}

\* The rows the sweep has released, whose uses are not put back yet.
Marked == IF sweep.at = "decrement" THEN sweep.rows ELSE {}

CountInv ==
  usedCount >= Cardinality(Live) + Cardinality(Pending) + Cardinality(Marked)

\* A row is written once, by the one call that took the use, and the rows the
\* sweep has found are still reserved.
RowInv ==
  /\ \A t \in Transactions \ asked : row[t] = "NONE"
  /\ \A c \in Callers : pc[c] = "insert" => tx[c] \in asked /\ row[tx[c]] = "NONE"
  /\ \A c, d \in Callers :
       pc[c] = "insert" /\ pc[d] = "insert" /\ tx[c] = tx[d] => c = d
  /\ sweep.at = "mark" => \A t \in sweep.rows : row[t] = "RESERVED"

\* The uses that were taken under the limit.
Held == (Live \ late) \cup {tx[c] : c \in {d \in Callers : pc[d] = "insert"}}

HeldInv == Cardinality(Held) <= Limit

Inv == TypeInv /\ RowInv /\ CountInv /\ GivenDiscountIsConsumed /\ HeldInv

\* Only TakeUse starts a row, for a checkout that never asked; a row the sweep
\* has found is left alone until it is marked.
LEMMA RowStep ==
  ASSUME SweepRaces = FALSE, Inv, TypeInv', [Next]_vars
  PROVE  RowInv'
<1> USE ConstantsAssumption DEF Inv, TypeInv, TypeOK, Labels, Goto, Done,
               SetRow, RowInv
<1>1. ASSUME NEW c \in Callers, NEW t \in Transactions, TakeUse(c, t)
      PROVE  RowInv'
  BY <1>1 DEF TakeUse
<1>2. ASSUME NEW c \in Callers, NEW t \in Transactions, ReleaseRow(c, t)
      PROVE  RowInv'
  BY <1>2 DEF ReleaseRow, Releasable, Found
<1>3. ASSUME NEW c \in Callers, NEW t \in Transactions, RefundRow(c, t)
      PROVE  RowInv'
  BY <1>3 DEF RefundRow
<1>4. ASSUME NEW c \in Callers, NEW t \in Transactions, ConsumeReserved(c, t)
      PROVE  RowInv'
  BY <1>4 DEF ConsumeReserved, Found
<1>5. ASSUME NEW c \in Callers, NEW t \in Transactions, MissReserved(c, t)
      PROVE  RowInv'
  BY <1>5 DEF MissReserved
<1>6. ASSUME NEW c \in Callers, InsertRow(c) PROVE RowInv'
  BY <1>6 DEF InsertRow
<1>7. ASSUME NEW c \in Callers, GiveBack(c) PROVE RowInv'
  BY <1>7 DEF GiveBack
<1>8. ASSUME NEW c \in Callers, AlreadyConsumed(c) PROVE RowInv'
  BY <1>8 DEF AlreadyConsumed
<1>9. ASSUME NEW c \in Callers, FindNoneConsumed(c) PROVE RowInv'
  BY <1>9 DEF FindNoneConsumed
<1>10. ASSUME NEW c \in Callers, CountAgain(c) PROVE RowInv'
  BY <1>10 DEF CountAgain, CountedAgain
<1>11. ASSUME NEW c \in Callers, FlipRow(c) PROVE RowInv'
  BY <1>11 DEF FlipRow
<1>12. ASSUME NEW c \in Callers, FlipRefused(c) PROVE RowInv'
  BY <1>12 DEF FlipRefused
<1>13. ASSUME NEW c \in Callers, InsertFails(c) PROVE RowInv'
  BY <1>13 DEF InsertFails
<1>14. ASSUME NEW c \in Callers, Crash(c) PROVE RowInv'
  BY <1>14 DEF Crash
<1>15. ASSUME NEW t \in Transactions, Pay(t) PROVE RowInv'
  BY <1>15 DEF Pay
<1>16. CASE SweepFind
  BY <1>16 DEF SweepFind
<1>17. CASE SweepMark
  BY <1>17 DEF SweepMark
<1>18. CASE SweepDecrement
  BY <1>18 DEF SweepDecrement
<1>19. CASE CrashSweep
  BY <1>19 DEF CrashSweep
<1>20. CASE UNCHANGED vars
  BY <1>20 DEF vars
<1> QED
  BY <1>1, <1>2, <1>3, <1>4, <1>5, <1>6, <1>7, <1>8, <1>9, <1>10, <1>11, <1>12,
     <1>13, <1>14, <1>15, <1>16, <1>17, <1>18, <1>19, <1>20
  DEF Next, Step, Sweep

\* Only a refund moves a consumed row: a release asks for RESERVED, and the
\* sweep holds no other.
LEMMA GivenStep ==
  ASSUME SweepRaces = FALSE, Inv, TypeInv', [Next]_vars
  PROVE  GivenDiscountIsConsumed'
<1> USE ConstantsAssumption DEF Inv, TypeInv, TypeOK, Labels, Goto, Done,
               SetRow, RowInv, GivenDiscountIsConsumed
<1>1. ASSUME NEW c \in Callers, NEW t \in Transactions, TakeUse(c, t)
      PROVE  GivenDiscountIsConsumed'
  BY <1>1 DEF TakeUse
<1>2. ASSUME NEW c \in Callers, NEW t \in Transactions, ReleaseRow(c, t)
      PROVE  GivenDiscountIsConsumed'
  BY <1>2 DEF ReleaseRow, Releasable, Found
<1>3. ASSUME NEW c \in Callers, NEW t \in Transactions, RefundRow(c, t)
      PROVE  GivenDiscountIsConsumed'
  BY <1>3 DEF RefundRow
<1>4. ASSUME NEW c \in Callers, NEW t \in Transactions, ConsumeReserved(c, t)
      PROVE  GivenDiscountIsConsumed'
  BY <1>4 DEF ConsumeReserved, Found
<1>5. ASSUME NEW c \in Callers, NEW t \in Transactions, MissReserved(c, t)
      PROVE  GivenDiscountIsConsumed'
  BY <1>5 DEF MissReserved
<1>6. ASSUME NEW c \in Callers, InsertRow(c) PROVE GivenDiscountIsConsumed'
  BY <1>6 DEF InsertRow
<1>7. ASSUME NEW c \in Callers, GiveBack(c) PROVE GivenDiscountIsConsumed'
  BY <1>7 DEF GiveBack
<1>8. ASSUME NEW c \in Callers, AlreadyConsumed(c) PROVE GivenDiscountIsConsumed'
  BY <1>8 DEF AlreadyConsumed
<1>9. ASSUME NEW c \in Callers, FindNoneConsumed(c) PROVE GivenDiscountIsConsumed'
  BY <1>9 DEF FindNoneConsumed
<1>10. ASSUME NEW c \in Callers, CountAgain(c) PROVE GivenDiscountIsConsumed'
  BY <1>10 DEF CountAgain, CountedAgain
<1>11. ASSUME NEW c \in Callers, FlipRow(c) PROVE GivenDiscountIsConsumed'
  BY <1>11 DEF FlipRow
<1>12. ASSUME NEW c \in Callers, FlipRefused(c) PROVE GivenDiscountIsConsumed'
  BY <1>12 DEF FlipRefused
<1>13. ASSUME NEW c \in Callers, InsertFails(c) PROVE GivenDiscountIsConsumed'
  BY <1>13 DEF InsertFails
<1>14. ASSUME NEW c \in Callers, Crash(c) PROVE GivenDiscountIsConsumed'
  BY <1>14 DEF Crash
<1>15. ASSUME NEW t \in Transactions, Pay(t) PROVE GivenDiscountIsConsumed'
  BY <1>15 DEF Pay
<1>16. CASE SweepFind
  BY <1>16 DEF SweepFind
<1>17. CASE SweepMark
  BY <1>17 DEF SweepMark
<1>18. CASE SweepDecrement
  BY <1>18 DEF SweepDecrement
<1>19. CASE CrashSweep
  BY <1>19 DEF CrashSweep
<1>20. CASE UNCHANGED vars
  BY <1>20 DEF vars
<1> QED
  BY <1>1, <1>2, <1>3, <1>4, <1>5, <1>6, <1>7, <1>8, <1>9, <1>10, <1>11, <1>12,
     <1>13, <1>14, <1>15, <1>16, <1>17, <1>18, <1>19, <1>20
  DEF Next, Step, Sweep

\* The sets that are counted are finite.
LEMMA FiniteSets ==
  ASSUME TypeOK
  PROVE  /\ IsFiniteSet(Live) /\ Cardinality(Live) \in Nat
         /\ IsFiniteSet(Pending) /\ Cardinality(Pending) \in Nat
         /\ IsFiniteSet(Marked) /\ Cardinality(Marked) \in Nat
         /\ IsFiniteSet(sweep.rows) /\ Cardinality(sweep.rows) \in Nat
<1> USE ConstantsAssumption DEF TypeOK
<1>1. IsFiniteSet(Live)
  BY FS_Subset DEF Live
<1>2. IsFiniteSet(Pending)
  BY FS_Subset DEF Pending
<1>3. IsFiniteSet(sweep.rows)
  BY FS_Subset
<1>4. IsFiniteSet(Marked)
  BY <1>3, FS_EmptySet DEF Marked
<1> QED
  BY <1>1, <1>2, <1>3, <1>4, FS_CardinalityType

\* The counter goes up before a use is shown and down after it is gone.
LEMMA CountStep ==
  ASSUME SweepRaces = FALSE, Inv, TypeInv', [Next]_vars
  PROVE  CountInv'
<1> USE ConstantsAssumption DEF Inv, TypeInv, TypeOK, Labels, Goto, Done,
               SetRow, CountInv, Decremented
<1>1. ASSUME NEW c \in Callers, NEW t \in Transactions, TakeUse(c, t)
      PROVE  CountInv'
  <2>1. Live' = Live /\ Pending' = Pending \cup {c} /\ Marked' = Marked
    BY <1>1 DEF TakeUse, Live, Pending, Marked
  <2>2. c \notin Pending
    BY <1>1 DEF TakeUse, Pending
  <2>3. Cardinality(Pending)' = Cardinality(Pending) + 1
    BY <2>1, <2>2, FiniteSets, FS_AddElement
  <2> QED
    BY <1>1, <2>1, <2>3, FiniteSets DEF TakeUse
<1>2. ASSUME NEW c \in Callers, NEW t \in Transactions, ReleaseRow(c, t)
      PROVE  CountInv'
  <2>1. Live' = Live \ {t} /\ Pending' = Pending \cup {c} /\ Marked' = Marked
    BY <1>2 DEF ReleaseRow, Releasable, Live, Pending, Marked
  <2>2. t \in Live
    BY <1>2 DEF ReleaseRow, Releasable, Live
  <2>3. Cardinality(Live)' = Cardinality(Live) - 1
    BY <2>1, <2>2, FiniteSets, FS_RemoveElement
  <2>4. c \notin Pending
    BY <1>2 DEF ReleaseRow, Releasable, Pending
  <2>5. Cardinality(Pending)' = Cardinality(Pending) + 1
    BY <2>1, <2>4, FiniteSets, FS_AddElement
  <2> QED
    BY <1>2, <2>1, <2>3, <2>5, FiniteSets DEF ReleaseRow, Releasable
<1>3. ASSUME NEW c \in Callers, NEW t \in Transactions, RefundRow(c, t)
      PROVE  CountInv'
  <2>1. Live' = Live \ {t} /\ Pending' = Pending \cup {c} /\ Marked' = Marked
    BY <1>3 DEF RefundRow, Live, Pending, Marked
  <2>2. t \in Live
    BY <1>3 DEF RefundRow, Live
  <2>3. Cardinality(Live)' = Cardinality(Live) - 1
    BY <2>1, <2>2, FiniteSets, FS_RemoveElement
  <2>4. c \notin Pending
    BY <1>3 DEF RefundRow, Pending
  <2>5. Cardinality(Pending)' = Cardinality(Pending) + 1
    BY <2>1, <2>4, FiniteSets, FS_AddElement
  <2> QED
    BY <1>3, <2>1, <2>3, <2>5, FiniteSets DEF RefundRow
<1>4. ASSUME NEW c \in Callers, NEW t \in Transactions, ConsumeReserved(c, t)
      PROVE  CountInv'
  <2>1. Live' = Live /\ Pending' = Pending /\ Marked' = Marked
    BY <1>4 DEF ConsumeReserved, Live, Pending, Marked
  <2> QED
    BY <1>4, <2>1, FiniteSets DEF ConsumeReserved
<1>5. ASSUME NEW c \in Callers, NEW t \in Transactions, MissReserved(c, t)
      PROVE  CountInv'
  <2>1. Live' = Live /\ Pending' = Pending /\ Marked' = Marked
    BY <1>5 DEF MissReserved, Live, Pending, Marked
  <2> QED
    BY <1>5, <2>1, FiniteSets DEF MissReserved
<1>6. ASSUME NEW c \in Callers, InsertRow(c) PROVE CountInv'
  <2>1. Live' = Live \cup {tx[c]} /\ Pending' = Pending \ {c} /\ Marked' = Marked
    BY <1>6 DEF InsertRow, RowInv, Live, Pending, Marked
  <2>2. tx[c] \notin Live
    BY <1>6 DEF InsertRow, RowInv, Live
  <2>3. Cardinality(Live)' = Cardinality(Live) + 1
    BY <2>1, <2>2, FiniteSets, FS_AddElement
  <2>4. c \in Pending
    BY <1>6 DEF InsertRow, RowInv, Pending
  <2>5. Cardinality(Pending)' = Cardinality(Pending) - 1
    BY <2>1, <2>4, FiniteSets, FS_RemoveElement
  <2> QED
    BY <1>6, <2>1, <2>3, <2>5, FiniteSets DEF InsertRow, RowInv
<1>7. ASSUME NEW c \in Callers, GiveBack(c) PROVE CountInv'
  <2>1. Live' = Live /\ Pending' = Pending \ {c} /\ Marked' = Marked
    BY <1>7 DEF GiveBack, Live, Pending, Marked
  <2>2. c \in Pending
    BY <1>7 DEF GiveBack, Pending
  <2>3. Cardinality(Pending)' = Cardinality(Pending) - 1
    BY <2>1, <2>2, FiniteSets, FS_RemoveElement
  <2> QED
    BY <1>7, <2>1, <2>3, FiniteSets DEF GiveBack
<1>8. ASSUME NEW c \in Callers, AlreadyConsumed(c) PROVE CountInv'
  <2>1. Live' = Live /\ Pending' = Pending /\ Marked' = Marked
    BY <1>8 DEF AlreadyConsumed, Live, Pending, Marked
  <2> QED
    BY <1>8, <2>1, FiniteSets DEF AlreadyConsumed
<1>9. ASSUME NEW c \in Callers, FindNoneConsumed(c) PROVE CountInv'
  <2>1. Live' = Live /\ Pending' = Pending /\ Marked' = Marked
    BY <1>9 DEF FindNoneConsumed, Live, Pending, Marked
  <2> QED
    BY <1>9, <2>1, FiniteSets DEF FindNoneConsumed
<1>10. ASSUME NEW c \in Callers, CountAgain(c) PROVE CountInv'
  <2>1. Live' = Live /\ Pending' = Pending \cup {c} /\ Marked' = Marked
    BY <1>10 DEF CountAgain, CountedAgain, Live, Pending, Marked
  <2>2. c \notin Pending
    BY <1>10 DEF CountAgain, CountedAgain, Pending
  <2>3. Cardinality(Pending)' = Cardinality(Pending) + 1
    BY <2>1, <2>2, FiniteSets, FS_AddElement
  <2> QED
    BY <1>10, <2>1, <2>3, FiniteSets DEF CountAgain, CountedAgain
<1>11. ASSUME NEW c \in Callers, FlipRow(c) PROVE CountInv'
  <2>1. Live' = Live \cup {tx[c]} /\ Pending' = Pending \ {c} /\ Marked' = Marked
    BY <1>11 DEF FlipRow, Live, Pending, Marked
  <2>2. tx[c] \notin Live
    BY <1>11 DEF FlipRow, Live
  <2>3. Cardinality(Live)' = Cardinality(Live) + 1
    BY <2>1, <2>2, FiniteSets, FS_AddElement
  <2>4. c \in Pending
    BY <1>11 DEF FlipRow, Pending
  <2>5. Cardinality(Pending)' = Cardinality(Pending) - 1
    BY <2>1, <2>4, FiniteSets, FS_RemoveElement
  <2> QED
    BY <1>11, <2>1, <2>3, <2>5, FiniteSets DEF FlipRow
<1>12. ASSUME NEW c \in Callers, FlipRefused(c) PROVE CountInv'
  <2>1. Live' = Live /\ Pending' = Pending \ {c} /\ Marked' = Marked
    BY <1>12 DEF FlipRefused, Live, Pending, Marked
  <2>2. c \in Pending
    BY <1>12 DEF FlipRefused, Pending
  <2>3. Cardinality(Pending)' = Cardinality(Pending) - 1
    BY <2>1, <2>2, FiniteSets, FS_RemoveElement
  <2> QED
    BY <1>12, <2>1, <2>3, FiniteSets DEF FlipRefused
<1>13. ASSUME NEW c \in Callers, InsertFails(c) PROVE CountInv'
  <2>1. Live' = Live /\ Pending' = Pending \ {c} /\ Marked' = Marked
    BY <1>13 DEF InsertFails, Live, Pending, Marked
  <2>2. c \in Pending
    BY <1>13 DEF InsertFails, Pending
  <2>3. Cardinality(Pending)' = Cardinality(Pending) - 1
    BY <2>1, <2>2, FiniteSets, FS_RemoveElement
  <2> QED
    BY <1>13, <2>1, <2>3, FiniteSets DEF InsertFails
<1>14. ASSUME NEW c \in Callers, Crash(c) PROVE CountInv'
  <2>1. Live' = Live /\ Pending' \subseteq Pending /\ Marked' = Marked
    BY <1>14 DEF Crash, Live, Pending, Marked
  <2>2. Cardinality(Pending)' <= Cardinality(Pending) /\ Cardinality(Pending)' \in Nat
    BY <2>1, FiniteSets, FS_Subset, FS_CardinalityType
  <2> QED
    BY <1>14, <2>1, <2>2, FiniteSets DEF Crash
<1>15. ASSUME NEW t \in Transactions, Pay(t) PROVE CountInv'
  <2>1. Live' = Live /\ Pending' = Pending /\ Marked' = Marked
    BY <1>15 DEF Pay, Live, Pending, Marked
  <2> QED
    BY <1>15, <2>1 DEF Pay
<1>16. CASE SweepFind
  <2>1. Live' = Live /\ Pending' = Pending /\ Marked' = Marked
    BY <1>16 DEF SweepFind, Live, Pending, Marked
  <2> QED
    BY <1>16, <2>1 DEF SweepFind
<1>17. CASE SweepMark
  <2>1. Live' = Live \ sweep.rows /\ Pending' = Pending /\ Marked' = sweep.rows
    BY <1>17 DEF SweepMark, Live, Pending, Marked
  <2>2. sweep.rows \subseteq Live /\ Marked = {}
    BY <1>17 DEF SweepMark, RowInv, Live, Marked
  <2>3. Live = (Live \ sweep.rows) \cup sweep.rows /\ (Live \ sweep.rows) \cap sweep.rows = {}
    BY <2>2
  <2>4. IsFiniteSet(Live \ sweep.rows) /\ Cardinality(Live \ sweep.rows) \in Nat
    BY FiniteSets, FS_Subset, FS_CardinalityType
  <2>5. Cardinality(Live) = Cardinality(Live \ sweep.rows) + Cardinality(sweep.rows)
    <3> DEFINE rest == Live \ sweep.rows
    <3>1. Cardinality(rest \cup sweep.rows)
          = Cardinality(rest) + Cardinality(sweep.rows) - Cardinality(rest \cap sweep.rows)
      <4> HIDE DEF rest
      <4>1. IsFiniteSet(rest)
        BY <2>4 DEF rest
      <4> QED
        BY <4>1, FiniteSets, FS_Union
    <3>2. Cardinality(rest \cap sweep.rows) = 0 /\ rest \cup sweep.rows = Live
      BY <2>3, FS_EmptySet
    <3>3. Cardinality(rest) \in Nat
      BY <2>4
    <3> HIDE DEF rest
    <3>4. Cardinality(Live) = Cardinality(rest) + Cardinality(sweep.rows)
      <4>1. Cardinality(Live) = Cardinality(rest) + Cardinality(sweep.rows) - 0
        BY <3>1, <3>2
      <4>2. Cardinality(sweep.rows) \in Nat
        BY FiniteSets
      <4> QED
        BY <3>3, <4>1, <4>2
    <3> QED
      BY <3>4 DEF rest
  <2> QED
    BY <1>17, <2>1, <2>2, <2>4, <2>5, FiniteSets, FS_EmptySet DEF SweepMark
<1>18. CASE SweepDecrement
  <2>1. Live' = Live /\ Pending' = Pending /\ Marked' = {} /\ Marked = sweep.rows
    BY <1>18 DEF SweepDecrement, Live, Pending, Marked
  <2> QED
    BY <1>18, <2>1, FiniteSets, FS_EmptySet DEF SweepDecrement, Swept
<1>19. CASE CrashSweep
  <2>1. Live' = Live /\ Pending' = Pending /\ Marked' = {}
    BY <1>19 DEF CrashSweep, Live, Pending, Marked
  <2> QED
    BY <1>19, <2>1, FiniteSets, FS_EmptySet DEF CrashSweep
<1>20. CASE UNCHANGED vars
  <2>1. Live' = Live /\ Pending' = Pending /\ Marked' = Marked
    BY <1>20 DEF vars, Live, Pending, Marked
  <2> QED
    BY <1>20, <2>1 DEF vars
<1> QED
  BY <1>1, <1>2, <1>3, <1>4, <1>5, <1>6, <1>7, <1>8, <1>9, <1>10, <1>11, <1>12,
     <1>13, <1>14, <1>15, <1>16, <1>17, <1>18, <1>19, <1>20
  DEF Next, Step, Sweep

\* The uses that are held are those of some checkouts.
LEMMA HeldFinite ==
  ASSUME TypeInv
  PROVE  IsFiniteSet(Held) /\ Cardinality(Held) \in Nat
<1>1. Held \subseteq Transactions
  BY DEF TypeInv, Held, Live
<1> QED
  BY <1>1, ConstantsAssumption, FS_Subset, FS_CardinalityType

\* A step that takes no use adds nothing to what is held.
LEMMA Shrinks ==
  ASSUME TypeInv, HeldInv, Held' \subseteq Held
  PROVE  HeldInv'
<1>1. Cardinality(Held') <= Cardinality(Held) /\ Cardinality(Held') \in Nat
  BY HeldFinite, FS_Subset, FS_CardinalityType
<1> QED
  BY <1>1, HeldFinite, ConstantsAssumption DEF HeldInv

\* A use is taken only while the counter is under the limit, and the counter
\* covers what is held.
LEMMA HeldStep ==
  ASSUME SweepRaces = FALSE, Inv, TypeInv', [Next]_vars
  PROVE  HeldInv'
<1> USE ConstantsAssumption DEF Inv, TypeInv, TypeOK, Labels, Goto, Done,
               SetRow, HeldInv
<1>1. ASSUME NEW c \in Callers, NEW t \in Transactions, TakeUse(c, t)
      PROVE  HeldInv'
  <2> DEFINE inserting == {d \in Callers : pc[d] = "insert"}
             of == {tx[d] : d \in inserting}
  <2>1. Held' \subseteq Held \cup {t}
    BY <1>1 DEF TakeUse, Held, Live
  <2>2. inserting \subseteq Pending
    BY DEF Pending
  <2>3. IsFiniteSet(inserting) /\ Cardinality(inserting) <= Cardinality(Pending)
        /\ Cardinality(inserting) \in Nat
    BY <2>2, FiniteSets, FS_Subset, FS_CardinalityType
  <2>4. IsFiniteSet(of) /\ Cardinality(of) <= Cardinality(inserting) /\ Cardinality(of) \in Nat
    <3>1. [d \in inserting |-> tx[d]] \in Surjection(inserting, of)
      BY DEF Surjection
    <3> HIDE DEF inserting, of
    <3> QED
      BY <2>3, <3>1, FS_Surjection, FS_CardinalityType
  <2>5. IsFiniteSet(Live \ late) /\ Cardinality(Live \ late) <= Cardinality(Live)
        /\ Cardinality(Live \ late) \in Nat
    BY FiniteSets, FS_Subset, FS_CardinalityType
  <2>6. Cardinality(Held) <= Cardinality(Live \ late) + Cardinality(of)
    <3>1. Held = (Live \ late) \cup of
      BY DEF Held
    <3>2. IsFiniteSet((Live \ late) \cap of)
      BY <2>4, FS_Subset
    <3>3. Cardinality((Live \ late) \cap of) \in Nat
      BY <3>2, FS_CardinalityType
    <3> DEFINE counted == Live \ late
    <3>4. Cardinality(counted \cup of)
          = Cardinality(counted) + Cardinality(of) - Cardinality(counted \cap of)
      <4>1. IsFiniteSet(counted)
        BY <2>5
      <4> HIDE DEF counted, of
      <4> QED
        BY <4>1, <2>4, FS_Union
    <3> HIDE DEF inserting, of
    <3> QED
      BY <3>1, <3>3, <3>4, <2>4, <2>5
  <2>7. IsFiniteSet(Held) /\ Cardinality(Held) \in Nat
    BY HeldFinite
  <2>8. Cardinality(Held) + 1 <= Limit
    BY <1>1, <2>3, <2>4, <2>5, <2>6, <2>7, FiniteSets DEF TakeUse, UseLeft, CountInv
  <2>9. /\ IsFiniteSet(Held \cup {t})
        /\ Cardinality(Held \cup {t}) <= Cardinality(Held) + 1
        /\ Cardinality(Held \cup {t}) \in Nat
    <3>1. Cardinality(Held \cup {t})
          = IF t \in Held THEN Cardinality(Held) ELSE Cardinality(Held) + 1
      BY <2>7, FS_AddElement
    <3>2. IsFiniteSet(Held \cup {t})
      BY <2>7, FS_AddElement
    <3> QED
      BY <2>7, <3>1, <3>2
  <2>10. Cardinality(Held') <= Cardinality(Held \cup {t}) /\ Cardinality(Held') \in Nat
    BY <2>1, <2>9, FS_Subset, FS_CardinalityType
  <2> QED
    BY <2>7, <2>8, <2>9, <2>10
<1>2. ASSUME NEW c \in Callers, NEW t \in Transactions, ReleaseRow(c, t)
      PROVE  HeldInv'
  <2>1. Held' \subseteq Held
    BY <1>2 DEF ReleaseRow, Held, Live, Releasable
  <2> QED
    BY <2>1, Shrinks
<1>3. ASSUME NEW c \in Callers, NEW t \in Transactions, RefundRow(c, t)
      PROVE  HeldInv'
  <2>1. Held' \subseteq Held
    BY <1>3 DEF RefundRow, Held, Live
  <2> QED
    BY <2>1, Shrinks
<1>4. ASSUME NEW c \in Callers, NEW t \in Transactions, ConsumeReserved(c, t)
      PROVE  HeldInv'
  <2>1. Held' \subseteq Held
    BY <1>4 DEF ConsumeReserved, Held, Live
  <2> QED
    BY <2>1, Shrinks
<1>5. ASSUME NEW c \in Callers, NEW t \in Transactions, MissReserved(c, t)
      PROVE  HeldInv'
  <2>1. Held' \subseteq Held
    BY <1>5 DEF MissReserved, Held, Live
  <2> QED
    BY <2>1, Shrinks
<1>6. ASSUME NEW c \in Callers, InsertRow(c) PROVE HeldInv'
  <2>1. Held' \subseteq Held
    BY <1>6 DEF InsertRow, Held, Live
  <2> QED
    BY <2>1, Shrinks
<1>7. ASSUME NEW c \in Callers, GiveBack(c) PROVE HeldInv'
  <2>1. Held' \subseteq Held
    BY <1>7 DEF GiveBack, Held, Live
  <2> QED
    BY <2>1, Shrinks
<1>8. ASSUME NEW c \in Callers, AlreadyConsumed(c) PROVE HeldInv'
  <2>1. Held' \subseteq Held
    BY <1>8 DEF AlreadyConsumed, Held, Live
  <2> QED
    BY <2>1, Shrinks
<1>9. ASSUME NEW c \in Callers, FindNoneConsumed(c) PROVE HeldInv'
  <2>1. Held' \subseteq Held
    BY <1>9 DEF FindNoneConsumed, Held, Live
  <2> QED
    BY <2>1, Shrinks
<1>10. ASSUME NEW c \in Callers, CountAgain(c) PROVE HeldInv'
  <2>1. Held' \subseteq Held
    BY <1>10 DEF CountAgain, Held, Live
  <2> QED
    BY <2>1, Shrinks
<1>11. ASSUME NEW c \in Callers, FlipRow(c) PROVE HeldInv'
  <2>1. Held' \subseteq Held
    BY <1>11 DEF FlipRow, Held, Live
  <2> QED
    BY <2>1, Shrinks
<1>12. ASSUME NEW c \in Callers, FlipRefused(c) PROVE HeldInv'
  <2>1. Held' \subseteq Held
    BY <1>12 DEF FlipRefused, Held, Live
  <2> QED
    BY <2>1, Shrinks
<1>13. ASSUME NEW c \in Callers, InsertFails(c) PROVE HeldInv'
  <2>1. Held' \subseteq Held
    BY <1>13 DEF InsertFails, Held, Live
  <2> QED
    BY <2>1, Shrinks
<1>14. ASSUME NEW c \in Callers, Crash(c) PROVE HeldInv'
  <2>1. Held' \subseteq Held
    BY <1>14 DEF Crash, Held, Live
  <2> QED
    BY <2>1, Shrinks
<1>15. ASSUME NEW t \in Transactions, Pay(t) PROVE HeldInv'
  <2>1. Held' \subseteq Held
    BY <1>15 DEF Pay, Held, Live
  <2> QED
    BY <2>1, Shrinks
<1>16. CASE SweepFind
  <2>1. Held' \subseteq Held
    BY <1>16 DEF SweepFind, Held, Live
  <2> QED
    BY <2>1, Shrinks
<1>17. CASE SweepMark
  <2>1. Held' \subseteq Held
    BY <1>17 DEF SweepMark, Held, Live
  <2> QED
    BY <2>1, Shrinks
<1>18. CASE SweepDecrement
  <2>1. Held' \subseteq Held
    BY <1>18 DEF SweepDecrement, Held, Live
  <2> QED
    BY <2>1, Shrinks
<1>19. CASE CrashSweep
  <2>1. Held' \subseteq Held
    BY <1>19 DEF CrashSweep, Held, Live
  <2> QED
    BY <2>1, Shrinks
<1>20. CASE UNCHANGED vars
  <2>1. Held' \subseteq Held
    BY <1>20 DEF vars, Held, Live
  <2> QED
    BY <2>1, Shrinks
<1> QED
  BY <1>1, <1>2, <1>3, <1>4, <1>5, <1>6, <1>7, <1>8, <1>9, <1>10, <1>11, <1>12,
     <1>13, <1>14, <1>15, <1>16, <1>17, <1>18, <1>19, <1>20
  DEF Next, Step, Sweep

-----------------------------------------------------------------------------
(* The theorems.                                                           *)

\* Every step keeps all of Inv, unless it races the sweep.
LEMMA InvAlways ==
  ASSUME SweepRaces = FALSE
  PROVE  Spec => []Inv
<1>1. Init => Inv
  <2> SUFFICES ASSUME Init PROVE Inv
    OBVIOUS
  <2>1. Live = {} /\ Pending = {} /\ Marked = {} /\ Held = {}
    BY DEF Init, Live, Pending, Marked, Held
  <2>2. CountInv /\ HeldInv
    BY <2>1, FS_EmptySet, ConstantsAssumption DEF Init, CountInv, HeldInv
  <2>3. TypeInv /\ RowInv /\ GivenDiscountIsConsumed
    BY ConstantsAssumption
    DEF Init, TypeInv, TypeOK, Labels, RowInv, GivenDiscountIsConsumed
  <2> QED
    BY <2>2, <2>3 DEF Inv
<1>2. Inv /\ [Next]_vars => Inv'
  BY TypeStep, RowStep, CountStep, GivenStep, HeldStep DEF Inv
<1> QED
  BY <1>1, <1>2, PTL DEF Spec

\* The counter that reservations are granted against never falls behind the
\* rows that hold a use.
THEOREM CounterCoversLiveCorrect ==
  ASSUME SweepRaces = FALSE
  PROVE  Spec => []CounterCoversLive
<1>1. Inv => CounterCoversLive
  <2> SUFFICES ASSUME Inv PROVE CounterCoversLive
    OBVIOUS
  <2> QED
    BY FiniteSets DEF Inv, TypeInv, TypeOK, CountInv, CounterCoversLive
<1> QED
  BY <1>1, InvAlways, PTL

\* The code is never oversold by reservations.
THEOREM NotOversoldCorrect ==
  ASSUME SweepRaces = FALSE
  PROVE  Spec => []NotOversold
<1>1. Inv => NotOversold
  <2> SUFFICES ASSUME Inv PROVE NotOversold
    OBVIOUS
  <2>1. Live \ late \subseteq Held
    BY DEF Held
  <2>2. Cardinality(Live \ late) <= Cardinality(Held) /\ Cardinality(Live \ late) \in Nat
    BY <2>1, HeldFinite, FS_Subset, FS_CardinalityType DEF Inv
  <2> QED
    BY <2>2, HeldFinite, ConstantsAssumption DEF Inv, HeldInv, NotOversold
<1> QED
  BY <1>1, InvAlways, PTL

\* A discount that was given stays on record as consumed until a refund.
THEOREM GivenDiscountIsConsumedCorrect ==
  ASSUME SweepRaces = FALSE
  PROVE  Spec => []GivenDiscountIsConsumed
<1>1. Inv => GivenDiscountIsConsumed
  BY DEF Inv
<1> QED
  BY <1>1, InvAlways, PTL
=============================================================================
