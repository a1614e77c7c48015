---------------------------- MODULE RefundProofs ----------------------------
(***************************************************************************)
(* Proofs about Refund, for any number of requests, workers, refunds of    *)
(* the gateway, transfers and crashes.  What went back is a fold over a    *)
(* set of refunds, so the first part proves what such a sum does when its  *)
(* set or a value of it changes.  Then, one on the other: the types with   *)
(* what each worker knows (TypeInv), the mark of a full refund (FullInv),  *)
(* one open request (OneOpen), the money behind what is on the books       *)
(* (LandedInv) and what a full refund takes back (UndoneInv).              *)
(***************************************************************************)
EXTENDS Refund, FiniteSetTheorems, SequenceTheorems, WellFoundedInduction, TLAPS

-----------------------------------------------------------------------------
(* Sums over finite sets.                                                  *)

\* Induction over the subsets of a finite set: the cases that hold are a set B.
LEMMA SetInduction ==
  ASSUME NEW S, IsFiniteSet(S), NEW B,
         \A T \in SUBSET S : (\A x \in T : T \ {x} \in B) => T \in B
  PROVE  \A T \in SUBSET S : T \in B
<1>1. SUFFICES ASSUME NEW R \in SUBSET S, R \notin B PROVE FALSE
  OBVIOUS
<1> DEFINE bad == {T \in SUBSET S : T \notin B}
<1>2. bad # {} /\ bad \subseteq FiniteSubsetsOf(S)
  BY <1>1, FS_Subset DEF FiniteSubsetsOf
<1>3. IsWellFoundedOn(StrictSubsetOrdering(S), FiniteSubsetsOf(S))
  BY FS_StrictSubsetOrderingWellFounded
<1>4. \E T \in bad : \A U \in bad : ~ (<<U, T>> \in StrictSubsetOrdering(S))
  <2> HIDE DEF bad
  <2> QED
    BY <1>2, <1>3, WFMin
<1>5. PICK T \in bad : \A U \in bad : ~ (<<U, T>> \in StrictSubsetOrdering(S))
  BY <1>4
<1>6. ASSUME NEW x \in T PROVE T \ {x} \in B
  <2>1. <<T \ {x}, T>> \in (SUBSET S) \X (SUBSET S)
    BY <1>5
  <2>2. <<T \ {x}, T>>[1] = T \ {x} /\ <<T \ {x}, T>>[2] = T
    OBVIOUS
  <2>3. <<T \ {x}, T>> \in StrictSubsetOrdering(S)
    <3> HIDE DEF bad
    <3> QED
      BY <1>6, <2>1, <2>2 DEF StrictSubsetOrdering
  <2> QED
    BY <1>5, <2>1, <2>3
<1> QED
  BY <1>5, <1>6

\* The order of the numbers, as a relation.
Less == {ss \in Nat \X Nat : ss[1] < ss[2]}

\* It is well-founded.
LEMMA LessWellFounded == IsWellFoundedOn(Less, Nat)
  BY NatLessThanWellFounded DEF OpToRel, Less

\* Induction over the numbers, again with the cases that hold as a set.
LEMMA NatInductionInSet ==
  ASSUME NEW B, 0 \in B, \A n \in Nat : n \in B => n + 1 \in B
  PROVE  \A n \in Nat : n \in B
<1>1. SUFFICES ASSUME NEW r \in Nat, r \notin B PROVE FALSE
  OBVIOUS
<1> DEFINE bad == {n \in Nat : n \notin B}
<1>2. bad # {} /\ bad \subseteq Nat
  BY <1>1
<1>3. PICK n \in bad : \A m \in bad : ~ (<<m, n>> \in Less)
  <2> HIDE DEF bad
  <2> QED
    BY <1>2, LessWellFounded, WFMin
<1>4. n # 0 /\ n - 1 \in Nat /\ n - 1 < n
  OBVIOUS
<1>5. <<n - 1, n>> \in Less
  BY <1>4 DEF Less
<1>6. n - 1 \in B
  BY <1>3, <1>4, <1>5
<1> QED
  BY <1>4, <1>6

Pick(T) == CHOOSE x \in T : TRUE
Sums(f, S, g) ==
  g = [T \in SUBSET S |-> IF T = {} THEN 0 ELSE f[Pick(T)] + g[T \ {Pick(T)}]]
Sum(f, S) == SumFunctionOnSet(f, S)

\* The sum, by the definition of the fold.
LEMMA SumIs == \A f, S : Sum(f, S) = (CHOOSE g : Sums(f, S, g))[S]
BY DEF Sum, SumFunctionOnSet, FoldFunctionOnSet, MapThenFoldSet, Sums, Pick

\* What is picked is a member.
LEMMA PickIn == \A T : T # {} => Pick(T) \in T
BY DEF Pick

\* There is a function that adds up every subset: it is built one size at a time.
LEMMA SumExists ==
  ASSUME NEW f, NEW S, IsFiniteSet(S)
  PROVE  \E g : Sums(f, S, g)
<1> DEFINE Small(n) == {T \in SUBSET S : Cardinality(T) <= n}
           Upto(n, g) == g = [T \in Small(n) |->
                                IF T = {} THEN 0 ELSE f[Pick(T)] + g[T \ {Pick(T)}]]
           B == {n \in Nat : \E g : Upto(n, g)}
<1>1. \A T \in SUBSET S : IsFiniteSet(T) /\ Cardinality(T) \in Nat
                          /\ Cardinality(T) <= Cardinality(S) /\ Cardinality(S) \in Nat
                          /\ (Cardinality(T) = 0 => T = {})
  BY FS_Subset, FS_CardinalityType, FS_EmptySet
<1>2. 0 \in B
  <2>1. Upto(0, [T \in Small(0) |-> 0])
    BY <1>1
  <2> QED
    BY <2>1
<1>3. ASSUME NEW n \in Nat, n \in B PROVE n + 1 \in B
  <2>1. PICK g : Upto(n, g)
    BY <1>3
  <2> DEFINE v(T) == IF T = {} THEN 0 ELSE f[Pick(T)] + g[T \ {Pick(T)}]
             h == [T \in Small(n + 1) |-> v(T)]
  <2>2. ASSUME NEW T \in Small(n + 1), T # {}
        PROVE  T \ {Pick(T)} \in Small(n) /\ T \ {Pick(T)} \in Small(n + 1)
    <3>1. Pick(T) \in T
      BY <2>2, PickIn
    <3>2. Cardinality(T \ {Pick(T)}) = Cardinality(T) - 1
      BY <1>1, <3>1, FS_RemoveElement
    <3> QED
      BY <1>1, <3>2
  <2>3. ASSUME NEW T \in Small(n) PROVE h[T] = g[T]
    <3>1. T \in Small(n + 1)
      BY <1>1
    <3> QED
      BY <2>1, <3>1
  <2>4. ASSUME NEW T \in Small(n + 1)
        PROVE  h[T] = IF T = {} THEN 0 ELSE f[Pick(T)] + h[T \ {Pick(T)}]
    <3>1. h[T] = v(T)
      OBVIOUS
    <3> HIDE DEF h, Small
    <3> QED
      BY <2>2, <2>3, <3>1
  <2>5. h = [T \in Small(n + 1) |-> h[T]]
    OBVIOUS
  <2>6. Upto(n + 1, h)
    <3> HIDE DEF h, Small
    <3> QED
      BY <2>4, <2>5
  <2>7. \E k : Upto(n + 1, k)
    <3> HIDE DEF h, Upto
    <3> QED
      BY <2>6
  <2> HIDE DEF Upto, h
  <2> QED
    BY <2>7
<1>4. \A n \in Nat : n \in B
  <2> HIDE DEF B
  <2> QED
    BY <1>2, <1>3, NatInductionInSet
<1>5. PICK g : Upto(Cardinality(S), g)
  BY <1>1, <1>4
<1>6. Small(Cardinality(S)) = SUBSET S
  BY <1>1
<1> QED
  BY <1>5, <1>6 DEF Sums

SumsOf(f, S) == CHOOSE g : Sums(f, S, g)

\* The function the sum is read from adds up.
LEMMA SumsOfSums ==
  ASSUME NEW f, NEW S, IsFiniteSet(S)
  PROVE  /\ SumsOf(f, S)[{}] = 0
         /\ \A T \in SUBSET S : T # {} =>
              SumsOf(f, S)[T] = f[Pick(T)] + SumsOf(f, S)[T \ {Pick(T)}]
         /\ Sum(f, S) = SumsOf(f, S)[S]
<1>1. Sums(f, S, SumsOf(f, S))
  BY SumExists DEF SumsOf
<1>2. Sum(f, S) = SumsOf(f, S)[S]
  BY SumIs DEF SumsOf
<1> QED
  BY <1>1, <1>2 DEF Sums

\* It agrees with the sum over each subset.
LEMMA SumsAgree ==
  ASSUME NEW f, NEW S, IsFiniteSet(S), NEW T \in SUBSET S
  PROVE  SumsOf(f, S)[T] = Sum(f, T)
<1> DEFINE B == {U \in SUBSET S : \A V \in SUBSET S :
                   U \subseteq V => SumsOf(f, V)[U] = SumsOf(f, S)[U]}
<1>1. ASSUME NEW U \in SUBSET S, \A x \in U : U \ {x} \in B PROVE U \in B
  <2> SUFFICES ASSUME NEW V \in SUBSET S, U \subseteq V
               PROVE  SumsOf(f, V)[U] = SumsOf(f, S)[U]
    OBVIOUS
  <2>1. IsFiniteSet(V)
    BY FS_Subset
  <2>2. CASE U = {}
    BY <2>1, <2>2, SumsOfSums
  <2>3. CASE U # {}
    <3>1. Pick(U) \in U
      BY <2>3, PickIn
    <3>2. SumsOf(f, V)[U \ {Pick(U)}] = SumsOf(f, S)[U \ {Pick(U)}]
      BY <1>1, <3>1
    <3> QED
      BY <2>1, <2>3, <3>2, SumsOfSums
  <2> QED
    BY <2>2, <2>3
<1>2. T \in B
  <2> HIDE DEF B
  <2> QED
    BY <1>1, SetInduction
<1>3. IsFiniteSet(T)
  BY FS_Subset
<1> QED
  BY <1>2, <1>3, SumsOfSums

\* The sum takes one picked element at a time.
LEMMA SumStep ==
  ASSUME NEW f, NEW S, IsFiniteSet(S)
  PROVE  /\ S = {} => Sum(f, S) = 0
         /\ S # {} => Pick(S) \in S /\ Sum(f, S) = f[Pick(S)] + Sum(f, S \ {Pick(S)})
<1>1. CASE S = {}
  BY <1>1, SumsOfSums
<1>2. CASE S # {}
  <2>1. Pick(S) \in S
    BY <1>2, PickIn
  <2>2. Sum(f, S) = f[Pick(S)] + SumsOf(f, S)[S \ {Pick(S)}]
    BY <1>2, SumsOfSums
  <2>3. SumsOf(f, S)[S \ {Pick(S)}] = Sum(f, S \ {Pick(S)})
    BY SumsAgree
  <2> QED
    BY <1>2, <2>1, <2>2, <2>3
<1> QED
  BY <1>1, <1>2

\* A sum of numbers is a number.
LEMMA SumNat ==
  ASSUME NEW S, IsFiniteSet(S), NEW f, \A x \in S : f[x] \in Nat
  PROVE  \A T \in SUBSET S : Sum(f, T) \in Nat
<1> DEFINE B == {T \in SUBSET S : Sum(f, T) \in Nat}
<1>1. ASSUME NEW T \in SUBSET S, \A x \in T : T \ {x} \in B PROVE T \in B
  <2>1. IsFiniteSet(T)
    BY FS_Subset
  <2>2. CASE T = {}
    <3>1. Sum(f, T) = 0
      BY <2>1, <2>2, SumStep
    <3> QED
      BY <3>1
  <2>3. CASE T # {}
    <3>1. Pick(T) \in T /\ Sum(f, T) = f[Pick(T)] + Sum(f, T \ {Pick(T)})
      BY <2>1, <2>3, SumStep
    <3> QED
      BY <1>1, <3>1
  <2> QED
    BY <2>2, <2>3
<1>2. \A T \in SUBSET S : T \in B
  <2> HIDE DEF B
  <2> QED
    BY <1>1, SetInduction
<1> QED
  BY <1>2

-----------------------------------------------------------------------------
(* The least and the greatest of a set of numbers.                         *)

\* The order, read the other way.
LEMMA LessIs == \A m, n \in Nat : m < n => <<m, n>> \in Less
<1> SUFFICES ASSUME NEW m \in Nat, NEW n \in Nat, m < n PROVE <<m, n>> \in Less
  OBVIOUS
<1> QED
  BY DEF Less

\* A set of numbers that is not empty has a least one.
LEMMA MinIn ==
  ASSUME NEW S, S \subseteq Nat, S # {}
  PROVE  Min(S) \in S
<1>1. PICK n \in S : \A m \in S : ~ (<<m, n>> \in Less)
  BY LessWellFounded, WFMin
<1>2. ASSUME NEW m \in S PROVE n <= m
  <2>1. m \in Nat /\ n \in Nat /\ ~ (<<m, n>> \in Less)
    BY <1>1
  <2>2. ~ (m < n)
    BY <2>1, LessIs
  <2> QED
    BY <2>1, <2>2
<1> QED
  BY <1>2 DEF Min

\* And a greatest one, when it is bounded.
LEMMA MaxIn ==
  ASSUME NEW k \in Nat, NEW S, S \subseteq 0..k, S # {}
  PROVE  Max(S) \in S
<1> DEFINE T == {k - n : n \in S}
<1>1. T \subseteq Nat /\ T # {}
  <2>1. \A n \in S : n \in Nat /\ k - n \in Nat
    OBVIOUS
  <2> QED
    BY <2>1
<1>2. PICK m \in T : \A n \in T : ~ (<<n, m>> \in Less)
  <2> HIDE DEF T
  <2> QED
    BY <1>1, LessWellFounded, WFMin
<1>3. k - m \in S /\ m \in Nat
  <2>1. PICK n \in S : m = k - n
    BY <1>2
  <2> QED
    BY <2>1
<1>4. \A n \in S : k - m >= n
  <2> TAKE n \in S
  <2>1. k - n \in T /\ k - n \in Nat
    OBVIOUS
  <2>2. ~ (k - n < m)
    BY <1>2, <1>3, <2>1, LessIs
  <2> QED
    BY <1>3, <2>2
<1> QED
  BY <1>3, <1>4 DEF Max

\* Of two numbers it is the greater.
LEMMA MaxOfTwo ==
  ASSUME NEW a \in Nat, NEW b \in Nat
  PROVE  /\ Max({a, b}) = IF a >= b THEN a ELSE b
         /\ Max({a, b}) \in Nat /\ Max({a, b}) >= a /\ Max({a, b}) >= b
<1>1. \A x \in {a, b} : (\A y \in {a, b} : x >= y) => x = IF a >= b THEN a ELSE b
  OBVIOUS
<1>2. \E x \in {a, b} : \A y \in {a, b} : x >= y
  OBVIOUS
<1>3. Max({a, b}) = IF a >= b THEN a ELSE b
  BY <1>1, <1>2 DEF Max
<1> QED
  BY <1>3

-----------------------------------------------------------------------------
(* Who writes what.                                                        *)

RequestsKept == UNCHANGED <<status, amount, attempts, linked, toBank, account, misread>>
ReturnsKept == UNCHANGED <<refunded, full>>
TracesKept == UNCHANGED <<undone, ledger>>
HoldSet == held' = held \/ held' = TRUE \/ held' = FALSE
FaultsCount == faults' = faults \/ (faults < MaxFaults /\ faults' = faults + 1)

WriteRequests ==
  \/ EscalateStale \/ ApproveAsAdmin \/ RequestBankDetails \/ AttachBank \/ SweepFailed
  \/ \E g \in Refunds : CreatedEvent(g) \/ FailedEvent(g)
  \/ \E w \in Workers : CloseCompleted(w)
  \/ \E c \in Callers :
       \/ CreateRequest(c) \/ ApproveAsVendor(c) \/ RejectAsVendor(c) \/ RejectAsAdmin(c)
       \/ CancelRefund(c) \/ ClaimExecution(c) \/ MarkFailed(c) \/ Adopt(c)
       \/ MoveTransfer(c) \/ FailTransfer(c)
WriteLegs == \E c \in Callers : OpenLeg(c) \/ ConfirmLeg(c) \/ BounceLeg(c)
WriteGateway ==
  \/ RefundByHand
  \/ \E g \in Refunds : Process(g) \/ Bounce(g)
  \/ \E c \in Callers : SendRefund(c)
WriteReturns ==
  \/ \E g \in Refunds : ByHandEvent(g)
  \/ \E w \in Workers : RaiseTotal(w) \/ ApplyTotal(w)
WriteTraces ==
  \E w \in Workers : RefundClaim(w) \/ ReverseUsage(w) \/ AlreadyCompleted(w) \/ PostRefund(w)

Written ==
  /\ RequestsKept \/ WriteRequests
  /\ legs' = legs \/ WriteLegs
  /\ gateway' = gateway \/ WriteGateway
  /\ ReturnsKept \/ WriteReturns
  /\ TracesKept \/ WriteTraces
  /\ HoldSet /\ FaultsCount

\* A step writes one part of the state, and only the handlers named here do.
LEMMA Writers == [Next]_vars => Written
<1> SUFFICES ASSUME [Next]_vars PROVE Written
  OBVIOUS
<1> USE DEF request, payment, bank, RequestsKept, ReturnsKept, TracesKept, HoldSet, FaultsCount
<1>1. ASSUME NEW c \in Callers, StartRequest(c) PROVE Written
  BY <1>1 DEF StartRequest, Written
<1>2. ASSUME NEW c \in Callers, StartApprove(c) PROVE Written
  BY <1>2 DEF StartApprove, Written
<1>3. ASSUME NEW c \in Callers, StartExecute(c) PROVE Written
  BY <1>3 DEF StartExecute, Written
<1>4. ASSUME NEW c \in Callers, RejectAsVendor(c) PROVE Written
  <2>1. legs' = legs /\ gateway' = gateway /\ ReturnsKept /\ TracesKept /\ HoldSet /\ FaultsCount
    BY <1>4 DEF RejectAsVendor, Close
  <2>2. WriteRequests
    BY <1>4 DEF WriteRequests
  <2> QED
    BY <2>1, <2>2 DEF Written
<1>5. ASSUME NEW c \in Callers, RejectAsAdmin(c) PROVE Written
  <2>1. legs' = legs /\ gateway' = gateway /\ ReturnsKept /\ TracesKept /\ HoldSet /\ FaultsCount
    BY <1>5 DEF RejectAsAdmin, Close
  <2>2. WriteRequests
    BY <1>5 DEF WriteRequests
  <2> QED
    BY <2>1, <2>2 DEF Written
<1>6. ASSUME NEW c \in Callers, CancelRefund(c) PROVE Written
  <2>1. legs' = legs /\ gateway' = gateway /\ ReturnsKept /\ TracesKept /\ HoldSet /\ FaultsCount
    BY <1>6 DEF CancelRefund, Close
  <2>2. WriteRequests
    BY <1>6 DEF WriteRequests
  <2> QED
    BY <2>1, <2>2 DEF Written
<1>7. ASSUME NEW c \in Callers, StartTransfer(c) PROVE Written
  BY <1>7 DEF StartTransfer, Written
<1>8. ASSUME NEW c \in Callers, StartConfirm(c) PROVE Written
  BY <1>8 DEF StartConfirm, FindTransfer, Written
<1>9. ASSUME NEW c \in Callers, StartBounce(c) PROVE Written
  BY <1>9 DEF StartBounce, FindTransfer, Written
<1>10. ASSUME NEW c \in Callers, NEW g \in Refunds, ProcessedEvent(c, g) PROVE Written
  BY <1>10 DEF ProcessedEvent, Written
<1>11. ASSUME NEW c \in Callers, CreateRequest(c) PROVE Written
  <2>1. legs' = legs /\ gateway' = gateway /\ ReturnsKept /\ TracesKept /\ HoldSet /\ FaultsCount
    BY <1>11 DEF CreateRequest
  <2>2. WriteRequests
    BY <1>11 DEF WriteRequests
  <2> QED
    BY <2>1, <2>2 DEF Written
<1>12. ASSUME NEW c \in Callers, HoldPayment(c) PROVE Written
  BY <1>12 DEF HoldPayment, Written
<1>13. ASSUME NEW c \in Callers, ApproveAsVendor(c) PROVE Written
  <2>1. legs' = legs /\ gateway' = gateway /\ ReturnsKept /\ TracesKept /\ HoldSet /\ FaultsCount
    BY <1>13 DEF ApproveAsVendor
  <2>2. WriteRequests
    BY <1>13 DEF WriteRequests
  <2> QED
    BY <2>1, <2>2 DEF Written
<1>14. ASSUME NEW c \in Callers, ClaimExecution(c) PROVE Written
  <2>1. legs' = legs /\ gateway' = gateway /\ ReturnsKept /\ TracesKept /\ HoldSet /\ FaultsCount
    BY <1>14 DEF ClaimExecution
  <2>2. WriteRequests
    BY <1>14 DEF WriteRequests
  <2> QED
    BY <2>1, <2>2 DEF Written
<1>15. ASSUME NEW c \in Callers, LookUp(c) PROVE Written
  BY <1>15 DEF LookUp, Written
<1>16. ASSUME NEW c \in Callers, SendRefund(c) PROVE Written
  <2>1. RequestsKept /\ legs' = legs /\ ReturnsKept /\ TracesKept /\ HoldSet /\ FaultsCount
    BY <1>16 DEF SendRefund
  <2>2. WriteGateway
    BY <1>16 DEF WriteGateway
  <2> QED
    BY <2>1, <2>2 DEF Written
<1>17. ASSUME NEW c \in Callers, SendFails(c) PROVE Written
  BY <1>17 DEF SendFails, Written
<1>18. ASSUME NEW c \in Callers, MarkFailed(c) PROVE Written
  <2>1. legs' = legs /\ gateway' = gateway /\ ReturnsKept /\ TracesKept /\ HoldSet /\ FaultsCount
    BY <1>18 DEF MarkFailed
  <2>2. WriteRequests
    BY <1>18 DEF WriteRequests
  <2> QED
    BY <2>1, <2>2 DEF Written
<1>19. ASSUME NEW c \in Callers, Adopt(c) PROVE Written
  <2>1. legs' = legs /\ gateway' = gateway /\ ReturnsKept /\ TracesKept /\ HoldSet /\ FaultsCount
    BY <1>19 DEF Adopt
  <2>2. WriteRequests
    BY <1>19 DEF WriteRequests
  <2> QED
    BY <2>1, <2>2 DEF Written
<1>20. ASSUME NEW c \in Callers, OpenLeg(c) PROVE Written
  <2>1. RequestsKept /\ gateway' = gateway /\ ReturnsKept /\ TracesKept /\ HoldSet /\ FaultsCount
    BY <1>20 DEF OpenLeg
  <2>2. WriteLegs
    BY <1>20 DEF WriteLegs
  <2> QED
    BY <2>1, <2>2 DEF Written
<1>21. ASSUME NEW c \in Callers, MoveTransfer(c) PROVE Written
  <2>1. legs' = legs /\ gateway' = gateway /\ ReturnsKept /\ TracesKept /\ HoldSet /\ FaultsCount
    BY <1>21 DEF MoveTransfer
  <2>2. WriteRequests
    BY <1>21 DEF WriteRequests
  <2> QED
    BY <2>1, <2>2 DEF Written
<1>22. ASSUME NEW c \in Callers, ConfirmLeg(c) PROVE Written
  <2>1. RequestsKept /\ gateway' = gateway /\ ReturnsKept /\ TracesKept /\ HoldSet /\ FaultsCount
    BY <1>22 DEF ConfirmLeg
  <2>2. WriteLegs
    BY <1>22 DEF WriteLegs
  <2> QED
    BY <2>1, <2>2 DEF Written
<1>23. ASSUME NEW c \in Callers, AddTransfer(c) PROVE Written
  BY <1>23 DEF AddTransfer, Written
<1>24. ASSUME NEW c \in Callers, BounceLeg(c) PROVE Written
  <2>1. RequestsKept /\ gateway' = gateway /\ ReturnsKept /\ TracesKept /\ HoldSet /\ FaultsCount
    BY <1>24 DEF BounceLeg
  <2>2. WriteLegs
    BY <1>24 DEF WriteLegs
  <2> QED
    BY <2>1, <2>2 DEF Written
<1>25. ASSUME NEW c \in Callers, FailTransfer(c) PROVE Written
  <2>1. legs' = legs /\ gateway' = gateway /\ ReturnsKept /\ TracesKept /\ HoldSet /\ FaultsCount
    BY <1>25 DEF FailTransfer
  <2>2. WriteRequests
    BY <1>25 DEF WriteRequests
  <2> QED
    BY <2>1, <2>2 DEF Written
<1>26. ASSUME NEW w \in Workers, RaiseTotal(w) PROVE Written
  <2>1. RequestsKept /\ legs' = legs /\ gateway' = gateway /\ TracesKept /\ HoldSet /\ FaultsCount
    BY <1>26 DEF RaiseTotal
  <2>2. WriteReturns
    BY <1>26 DEF WriteReturns
  <2> QED
    BY <2>1, <2>2 DEF Written
<1>27. ASSUME NEW w \in Workers, CloseCompleted(w) PROVE Written
  <2>1. legs' = legs /\ gateway' = gateway /\ ReturnsKept /\ TracesKept /\ HoldSet /\ FaultsCount
    BY <1>27 DEF CloseCompleted
  <2>2. WriteRequests
    BY <1>27 DEF WriteRequests
  <2> QED
    BY <2>1, <2>2 DEF Written
<1>28. ASSUME NEW w \in Workers, AlreadyCompleted(w) PROVE Written
  <2>1. RequestsKept /\ legs' = legs /\ gateway' = gateway /\ ReturnsKept /\ HoldSet /\ FaultsCount
    BY <1>28 DEF AlreadyCompleted
  <2>2. WriteTraces
    BY <1>28 DEF WriteTraces
  <2> QED
    BY <2>1, <2>2 DEF Written
<1>29. ASSUME NEW w \in Workers, ApplyTotal(w) PROVE Written
  <2>1. RequestsKept /\ legs' = legs /\ gateway' = gateway /\ TracesKept /\ HoldSet /\ FaultsCount
    BY <1>29 DEF ApplyTotal
  <2>2. WriteReturns
    BY <1>29 DEF WriteReturns
  <2> QED
    BY <2>1, <2>2 DEF Written
<1>30. ASSUME NEW w \in Workers, ReadBack(w) PROVE Written
  BY <1>30 DEF ReadBack, Written
<1>31. ASSUME NEW w \in Workers, RefundClaim(w) PROVE Written
  <2>1. RequestsKept /\ legs' = legs /\ gateway' = gateway /\ ReturnsKept /\ HoldSet /\ FaultsCount
    BY <1>31 DEF RefundClaim
  <2>2. WriteTraces
    BY <1>31 DEF WriteTraces
  <2> QED
    BY <2>1, <2>2 DEF Written
<1>32. ASSUME NEW w \in Workers, ReverseUsage(w) PROVE Written
  <2>1. RequestsKept /\ legs' = legs /\ gateway' = gateway /\ ReturnsKept /\ HoldSet /\ FaultsCount
    BY <1>32 DEF ReverseUsage
  <2>2. WriteTraces
    BY <1>32 DEF WriteTraces
  <2> QED
    BY <2>1, <2>2 DEF Written
<1>33. ASSUME NEW w \in Workers, PostRefund(w) PROVE Written
  <2>1. RequestsKept /\ legs' = legs /\ gateway' = gateway /\ ReturnsKept /\ HoldSet /\ FaultsCount
    BY <1>33 DEF PostRefund
  <2>2. WriteTraces
    BY <1>33 DEF WriteTraces
  <2> QED
    BY <2>1, <2>2 DEF Written
<1>34. ASSUME NEW w \in Workers, LookAtHold(w) PROVE Written
  BY <1>34 DEF LookAtHold, Written
<1>35. ASSUME NEW w \in Workers, CountOthers(w) PROVE Written
  BY <1>35 DEF CountOthers, Written
<1>36. ASSUME NEW w \in Workers, Unhold(w) PROVE Written
  BY <1>36 DEF Unhold, Written
<1>37. ASSUME NEW w \in Workers, Crash(w) PROVE Written
  BY <1>37 DEF Crash, Written
<1>38. ASSUME StartSweep PROVE Written
  BY <1>38 DEF StartSweep, Written
<1>39. ASSUME RepairHold PROVE Written
  BY <1>39 DEF RepairHold, Written
<1>40. ASSUME PickInFlight PROVE Written
  BY <1>40 DEF PickInFlight, Written
<1>41. ASSUME FetchRefund PROVE Written
  BY <1>41 DEF FetchRefund, Written
<1>42. ASSUME SweepFailed PROVE Written
  <2>1. legs' = legs /\ gateway' = gateway /\ ReturnsKept /\ TracesKept /\ HoldSet /\ FaultsCount
    BY <1>42 DEF SweepFailed
  <2>2. WriteRequests
    BY <1>42 DEF WriteRequests
  <2> QED
    BY <2>1, <2>2 DEF Written
<1>43. ASSUME EscalateStale PROVE Written
  <2>1. legs' = legs /\ gateway' = gateway /\ ReturnsKept /\ TracesKept /\ HoldSet /\ FaultsCount
    BY <1>43 DEF EscalateStale
  <2>2. WriteRequests
    BY <1>43 DEF WriteRequests
  <2> QED
    BY <2>1, <2>2 DEF Written
<1>44. ASSUME ApproveAsAdmin PROVE Written
  <2>1. legs' = legs /\ gateway' = gateway /\ ReturnsKept /\ TracesKept /\ HoldSet /\ FaultsCount
    BY <1>44 DEF ApproveAsAdmin
  <2>2. WriteRequests
    BY <1>44 DEF WriteRequests
  <2> QED
    BY <2>1, <2>2 DEF Written
<1>45. ASSUME RefundByHand PROVE Written
  <2>1. RequestsKept /\ legs' = legs /\ ReturnsKept /\ TracesKept /\ HoldSet /\ FaultsCount
    BY <1>45 DEF RefundByHand
  <2>2. WriteGateway
    BY <1>45 DEF WriteGateway
  <2> QED
    BY <2>1, <2>2 DEF Written
<1>46. ASSUME RequestBankDetails PROVE Written
  <2>1. legs' = legs /\ gateway' = gateway /\ ReturnsKept /\ TracesKept /\ HoldSet /\ FaultsCount
    BY <1>46 DEF RequestBankDetails
  <2>2. WriteRequests
    BY <1>46 DEF WriteRequests
  <2> QED
    BY <2>1, <2>2 DEF Written
<1>47. ASSUME AttachBank PROVE Written
  <2>1. legs' = legs /\ gateway' = gateway /\ ReturnsKept /\ TracesKept /\ HoldSet /\ FaultsCount
    BY <1>47 DEF AttachBank
  <2>2. WriteRequests
    BY <1>47 DEF WriteRequests
  <2> QED
    BY <2>1, <2>2 DEF Written
<1>48. ASSUME ReleaseStaleHold PROVE Written
  BY <1>48 DEF ReleaseStaleHold, Written
<1>49. ASSUME NEW g \in Refunds, Process(g) PROVE Written
  <2>1. RequestsKept /\ legs' = legs /\ ReturnsKept /\ TracesKept /\ HoldSet /\ FaultsCount
    BY <1>49 DEF Process
  <2>2. WriteGateway
    BY <1>49 DEF WriteGateway
  <2> QED
    BY <2>1, <2>2 DEF Written
<1>50. ASSUME NEW g \in Refunds, Bounce(g) PROVE Written
  <2>1. RequestsKept /\ legs' = legs /\ ReturnsKept /\ TracesKept /\ HoldSet /\ FaultsCount
    BY <1>50 DEF Bounce
  <2>2. WriteGateway
    BY <1>50 DEF WriteGateway
  <2> QED
    BY <2>1, <2>2 DEF Written
<1>51. ASSUME NEW g \in Refunds, CreatedEvent(g) PROVE Written
  <2>1. legs' = legs /\ gateway' = gateway /\ ReturnsKept /\ TracesKept /\ HoldSet /\ FaultsCount
    BY <1>51 DEF CreatedEvent
  <2>2. WriteRequests
    BY <1>51 DEF WriteRequests
  <2> QED
    BY <2>1, <2>2 DEF Written
<1>52. ASSUME NEW g \in Refunds, FailedEvent(g) PROVE Written
  <2>1. legs' = legs /\ gateway' = gateway /\ ReturnsKept /\ TracesKept /\ HoldSet /\ FaultsCount
    BY <1>52 DEF FailedEvent
  <2>2. WriteRequests
    BY <1>52 DEF WriteRequests
  <2> QED
    BY <2>1, <2>2 DEF Written
<1>53. ASSUME NEW g \in Refunds, ByHandEvent(g) PROVE Written
  <2>1. RequestsKept /\ legs' = legs /\ gateway' = gateway /\ TracesKept /\ HoldSet /\ FaultsCount
    BY <1>53 DEF ByHandEvent
  <2>2. WriteReturns
    BY <1>53 DEF WriteReturns
  <2> QED
    BY <2>1, <2>2 DEF Written
<1>54. CASE UNCHANGED vars
  BY <1>54 DEF vars, Written
<1> QED
  BY <1>1, <1>2, <1>3, <1>4, <1>5, <1>6, <1>7, <1>8, <1>9, <1>10, <1>11, <1>12, <1>13,
     <1>14, <1>15, <1>16, <1>17, <1>18, <1>19, <1>20, <1>21, <1>22, <1>23, <1>24, <1>25,
     <1>26, <1>27, <1>28, <1>29, <1>30, <1>31, <1>32, <1>33, <1>34, <1>35, <1>36, <1>37,
     <1>38, <1>39, <1>40, <1>41, <1>42, <1>43, <1>44, <1>45, <1>46, <1>47, <1>48, <1>49,
     <1>50, <1>51, <1>52, <1>53, <1>54
  DEF Next, Begin, Step, Land, Sweep, Outside, Workers

-----------------------------------------------------------------------------
(* Types, and what a worker knows.                                         *)

AllStatuses == OpenStatuses \cup ClosedStatuses \cup {"NONE"}
LegStatuses == {"INITIATED", "PAID", "FAILED"}
GatewayRefund == [status : {"NONE", "CREATED", "PROCESSED", "FAILED"}, request : 0..MaxRequests,
                  amount : 0..Paid, total : Nat]

RecordsTyped ==
  /\ status \in [Requests -> AllStatuses]
  /\ amount \in [Requests -> 0..Paid]
  /\ \A r \in Requests : amount[r] = 0 <=> status[r] = "NONE"
  /\ attempts \in [Requests -> 0..1]
  /\ linked \in [Requests -> 0..MaxRefunds]
  /\ toBank \subseteq Requests /\ account \subseteq toBank /\ misread \subseteq Requests
  /\ \A r \in Requests : status[r] = "AWAITING_BANK_DETAILS" => r \in toBank

LegsTyped ==
  /\ legs \in [Requests -> Seq(LegStatuses)]
  /\ \A r \in Requests : Len(legs[r]) <= MaxLegs

BooksTyped ==
  /\ refunded \in Nat
  /\ full \in BOOLEAN /\ held \in BOOLEAN
  /\ undone \subseteq {"claim", "usage"}
  /\ ledger \subseteq Requests
  /\ faults \in 0..MaxFaults

\* A refund of the gateway is for an amount, and of a request that was filed.
GatewayTyped ==
  /\ gateway \in [Refunds -> GatewayRefund]
  /\ \A g \in Refunds :
       /\ gateway[g].status = "NONE" => gateway[g].request = NoRequest
       /\ gateway[g].status # "NONE" => gateway[g].amount # 0
       /\ gateway[g].request # NoRequest => status[gateway[g].request] # "NONE"

LocalsTyped ==
  /\ pc \in [Workers -> Labels]
  /\ req \in [Workers -> 0..MaxRequests]
  /\ sum \in [Workers -> Nat]
  /\ gid \in [Workers -> 0..Max({MaxRefunds, MaxLegs})]
  /\ landed \in [Workers -> BOOLEAN]

\* A worker past its first read has a request that was filed, a sum that is a
\* possible amount, a refund of its request or one of its transfers.
WorksOn(w) == pc[w] \notin {"idle", "create", "hold", "repair", "inflight"}

Knows(w) ==
  /\ WorksOn(w) => req[w] \in Requests /\ status[req[w]] # "NONE"
  /\ ~WorksOn(w) => req[w] = NoRequest /\ landed[w] = FALSE
  /\ pc[w] \in {"create", "approve"} => sum[w] \in 1..Paid
  /\ pc[w] \in {"adopt", "fetch"} => gid[w] \in Refunds /\ gateway[gid[w]].request = req[w]
  /\ pc[w] \in {"confirm", "bounce"} => gid[w] \in DOMAIN legs[req[w]]
  /\ Paying(w) \/ pc[w] = "total" => w \in Callers
  /\ pc[w] \in {"fetch", "bounced"} => w = Sweeper

KnowsInv ==
  /\ \A w \in Workers : Knows(w)
  /\ \A r \in Requests : linked[r] # 0 => gateway[linked[r]].request = r

TypeInv ==
  RecordsTyped /\ LegsTyped /\ BooksTyped /\ GatewayTyped /\ LocalsTyped /\ KnowsInv

\* The type the runs check is part of it.
LEMMA TypeInvIsTypeOK == TypeInv => TypeOK
<1> SUFFICES ASSUME TypeInv PROVE TypeOK
  OBVIOUS
<1>1. DOMAIN legs = Requests
  BY DEF TypeInv, LegsTyped
<1> QED
  BY <1>1 DEF TypeInv, TypeOK, RecordsTyped, LegsTyped, BooksTyped, GatewayTyped, LocalsTyped,
     AllStatuses, LegStatuses, GatewayRefund

\* The program starts with nothing filed.
LEMMA TypeInit == Init => TypeInv
<1> SUFFICES ASSUME Init PROVE TypeInv
  OBVIOUS
<1> USE ConstantsAssumption
<1>1. RecordsTyped /\ BooksTyped
  <2>1. 0 \in 0..Paid /\ 0 \in 0..MaxRefunds /\ 0 \in 0..MaxFaults
    OBVIOUS
  <2>2. RecordsTyped
    BY <2>1 DEF Init, RecordsTyped, AllStatuses
  <2> QED
    BY <2>1, <2>2 DEF Init, BooksTyped
<1>2. LegsTyped
  BY DEF Init, LegsTyped
<1>3. GatewayTyped
  BY DEF Init, GatewayTyped, GatewayRefund, NoRequest
<1>4. LocalsTyped
  <2>1. Max({MaxRefunds, MaxLegs}) \in Nat
    BY MaxOfTwo
  <2> QED
    BY <2>1 DEF Init, LocalsTyped, Labels, NoRequest
<1>5. KnowsInv
  BY DEF Init, KnowsInv, Knows, WorksOn, Paying
<1> QED
  BY <1>1, <1>2, <1>3, <1>4, <1>5 DEF TypeInv

\* There are finitely many refunds, and what some of them add up to is a number.
LEMMA AmountNat ==
  ASSUME GatewayTyped, NEW gs, gs \subseteq Refunds
  PROVE  IsFiniteSet(gs) /\ AmountOf(gs) \in Nat
<1>1. IsFiniteSet(Refunds)
  BY ConstantsAssumption, FS_Interval DEF Refunds
<1>2. \A g \in Refunds : Amounts[g] \in Nat
  BY ConstantsAssumption DEF GatewayTyped, GatewayRefund, Amounts
<1>3. Sum(Amounts, gs) \in Nat
  BY <1>1, <1>2, SumNat
<1> QED
  BY <1>1, <1>3, FS_Subset DEF AmountOf, Sum

\* The next number of a request, or of a refund, is one of those that are free.
LEMMA NextFree ==
  /\ Fresh # {} => Min(Fresh) \in Requests /\ status[Min(Fresh)] = "NONE"
  /\ GatewayIs("NONE") # {} => NextRefund \in Refunds /\ gateway[NextRefund].status = "NONE"
<1>1. Fresh \subseteq Nat /\ GatewayIs("NONE") \subseteq Nat
  BY DEF Fresh, GatewayIs, Requests, Refunds
<1>2. Fresh # {} => Min(Fresh) \in Fresh
  BY <1>1, MinIn
<1>3. GatewayIs("NONE") # {} => NextRefund \in GatewayIs("NONE")
  BY <1>1, MinIn DEF NextRefund
<1> QED
  BY <1>2, <1>3 DEF Fresh, GatewayIs

\* A transfer that is found is in flight.
LEMMA TransferFound ==
  ASSUME LegsTyped, NEW r \in Requests, Legs(r, "INITIATED") # {}
  PROVE  Max(Legs(r, "INITIATED")) \in Legs(r, "INITIATED")
<1>1. Len(legs[r]) \in Nat /\ DOMAIN legs[r] = 1..Len(legs[r])
  BY DEF LegsTyped
<1>2. Legs(r, "INITIATED") \subseteq 0..Len(legs[r])
  BY <1>1 DEF Legs
<1> QED
  BY <1>1, <1>2, MaxIn

\* The records of the requests keep their types.
LEMMA RecordsStep == TypeInv /\ [Next]_vars => RecordsTyped'
<1> SUFFICES ASSUME TypeInv, [Next]_vars PROVE RecordsTyped'
  OBVIOUS
<1> USE ConstantsAssumption DEF TypeInv, RecordsTyped, AllStatuses, OpenStatuses, ClosedStatuses, SetStatus
<1>1. ASSUME NEW c \in Callers, RejectAsVendor(c) PROVE RecordsTyped'
  BY <1>1 DEF RejectAsVendor, Close, AdminCanDecide, Cancellable, bank
<1>2. ASSUME NEW c \in Callers, RejectAsAdmin(c) PROVE RecordsTyped'
  BY <1>2 DEF RejectAsAdmin, Close, AdminCanDecide, Cancellable, bank
<1>3. ASSUME NEW c \in Callers, CancelRefund(c) PROVE RecordsTyped'
  BY <1>3 DEF CancelRefund, Close, AdminCanDecide, Cancellable, bank
<1>4. ASSUME NEW c \in Callers, CreateRequest(c) PROVE RecordsTyped'
  <2>1. CASE SomeOpen \/ Fresh = {}
    BY <1>4, <2>1 DEF CreateRequest, request, bank
  <2>2. CASE ~(SomeOpen \/ Fresh = {})
    <3>1. Min(Fresh) \in Requests
      BY <2>2, NextFree
    <3>2. sum[c] \in 1..Paid
      BY <1>4 DEF CreateRequest, KnowsInv, Knows, Workers
    <3>3. PICK a \in 1..sum[c] : amount' = [amount EXCEPT ![Min(Fresh)] = a]
      BY <1>4, <2>2 DEF CreateRequest, Askable
    <3>4. /\ status' = [status EXCEPT ![Min(Fresh)] = "REQUESTED"]
          /\ attempts' = attempts /\ linked' = linked /\ toBank' = toBank /\ account' = account
          /\ misread' = misread
      BY <1>4, <2>2 DEF CreateRequest, bank
    <3>5. a \in 0..Paid /\ a # 0
      BY <3>2, <3>3
    <3> HIDE DEF Fresh
    <3> QED
      BY <3>1, <3>3, <3>4, <3>5
  <2> QED
    BY <2>1, <2>2
<1>5. ASSUME NEW c \in Callers, ApproveAsVendor(c) PROVE RecordsTyped'
  BY <1>5 DEF ApproveAsVendor, KnowsInv, Knows, WorksOn, Workers, bank
<1>6. ASSUME NEW c \in Callers, ClaimExecution(c) PROVE RecordsTyped'
  BY <1>6 DEF ClaimExecution, KnowsInv, Knows, WorksOn, Workers, bank, request, Ready
<1>7. ASSUME NEW c \in Callers, MarkFailed(c) PROVE RecordsTyped'
  BY <1>7 DEF MarkFailed, KnowsInv, Knows, WorksOn, Workers, bank, Completable, BankReady, SweptAsFailed
<1>8. ASSUME NEW c \in Callers, Adopt(c) PROVE RecordsTyped'
  BY <1>8 DEF Adopt, KnowsInv, Knows, WorksOn, Workers, bank, Refunds
<1>9. ASSUME NEW c \in Callers, MoveTransfer(c) PROVE RecordsTyped'
  BY <1>9 DEF MoveTransfer, KnowsInv, Knows, WorksOn, Workers, bank, Completable, BankReady, SweptAsFailed
<1>10. ASSUME NEW c \in Callers, FailTransfer(c) PROVE RecordsTyped'
  BY <1>10 DEF FailTransfer, KnowsInv, Knows, WorksOn, Workers, bank, Completable, BankReady, SweptAsFailed
<1>11. ASSUME NEW w \in Workers, CloseCompleted(w) PROVE RecordsTyped'
  BY <1>11 DEF CloseCompleted, KnowsInv, Knows, WorksOn, Workers, bank, Completable, BankReady, SweptAsFailed
<1>12. ASSUME SweepFailed PROVE RecordsTyped'
  BY <1>12 DEF SweepFailed, KnowsInv, Knows, WorksOn, Workers, bank, Completable, BankReady, SweptAsFailed
<1>13. ASSUME EscalateStale PROVE RecordsTyped'
  BY <1>13 DEF EscalateStale, bank
<1>14. ASSUME ApproveAsAdmin PROVE RecordsTyped'
  BY <1>14 DEF ApproveAsAdmin, bank, AdminCanDecide, OverrideFrom
<1>15. ASSUME RequestBankDetails PROVE RecordsTyped'
  BY <1>15 DEF RequestBankDetails
<1>16. ASSUME AttachBank PROVE RecordsTyped'
  <2>1. PICK r \in Requests : /\ status[r] = "AWAITING_BANK_DETAILS" /\ SetStatus(r, "ADMIN_APPROVED")
                             /\ account' = account \cup {r}
    BY <1>16 DEF AttachBank
  <2> QED
    BY <1>16, <2>1 DEF AttachBank
<1>17. ASSUME NEW g \in Refunds, CreatedEvent(g) PROVE RecordsTyped'
  <2>1. gateway[g].request \in Requests /\ status[gateway[g].request] # "NONE"
    BY <1>17 DEF CreatedEvent, GatewayTyped, GatewayRefund, Requests, NoRequest
  <2>2. g \in 0..MaxRefunds
    BY DEF Refunds
  <2> QED
    BY <1>17, <2>1, <2>2 DEF CreatedEvent, bank
<1>18. ASSUME NEW g \in Refunds, FailedEvent(g) PROVE RecordsTyped'
  <2>1. gateway[g].request \in Requests /\ status[gateway[g].request] # "NONE"
    BY <1>18 DEF FailedEvent, GatewayTyped, GatewayRefund, Requests, NoRequest
  <2> QED
    BY <1>18, <2>1 DEF FailedEvent, bank
<1>19. CASE RequestsKept
  BY <1>19 DEF RequestsKept
<1> QED
  BY <1>1, <1>2, <1>3, <1>4, <1>5, <1>6, <1>7, <1>8, <1>9, <1>10, <1>11, <1>12, <1>13,
     <1>14, <1>15, <1>16, <1>17, <1>18, <1>19, Writers
  DEF Written, WriteRequests

\* A transfer that moves leaves a sequence of transfers, of the same length.
LEMMA LegMoves ==
  ASSUME TypeInv, NEW c \in Callers, NEW s \in LegStatuses, MoveLeg(c, s),
         pc[c] \in {"confirm", "bounce"}
  PROVE  /\ req[c] \in Requests /\ gid[c] \in DOMAIN legs[req[c]]
         /\ legs' \in [Requests -> Seq(LegStatuses)]
         /\ \A r \in Requests : DOMAIN legs'[r] = DOMAIN legs[r] /\ Len(legs'[r]) = Len(legs[r])
         /\ \A r \in Requests : \A n \in DOMAIN legs[r] :
              legs'[r][n] = IF r = req[c] /\ n = gid[c] THEN s ELSE legs[r][n]
<1> DEFINE r == req[c]
           n == gid[c]
           t == [legs[r] EXCEPT ![n] = s]
<1>1. c \in Workers /\ r \in Requests /\ n \in DOMAIN legs[r]
  BY DEF TypeInv, KnowsInv, Knows, WorksOn, Workers
<1>2. legs[r] \in Seq(LegStatuses) /\ n \in 1..Len(legs[r])
  BY <1>1 DEF TypeInv, LegsTyped
<1>3. t \in Seq(LegStatuses) /\ Len(t) = Len(legs[r])
  BY <1>2, ExceptSeq
<1>4. legs' = [legs EXCEPT ![r] = t]
  BY <1>1 DEF MoveLeg, TypeInv, LegsTyped
<1>5. legs'[r] = t /\ \A x \in Requests \ {r} : legs'[x] = legs[x]
  BY <1>1, <1>4 DEF TypeInv, LegsTyped
<1>6. legs' \in [Requests -> Seq(LegStatuses)]
  <2> HIDE DEF t, r
  <2> QED
    BY <1>3, <1>4 DEF TypeInv, LegsTyped
<1>7. \A m \in DOMAIN legs[r] : t[m] = IF m = n THEN s ELSE legs[r][m]
  BY <1>1
<1>8. DOMAIN t = DOMAIN legs[r]
  OBVIOUS
<1> QED
  <2> HIDE DEF t
  <2> QED
    BY <1>1, <1>3, <1>5, <1>6, <1>7, <1>8

\* A transfer that opens is the last of its request.
LEMMA LegOpens ==
  ASSUME TypeInv, NEW c \in Callers, OpenLeg(c), legs' # legs
  PROVE  /\ req[c] \in Requests /\ Len(legs[req[c]]) < MaxLegs
         /\ Legs(req[c], "INITIATED") = {}
         /\ legs' = [legs EXCEPT ![req[c]] = Append(@, "INITIATED")]
         /\ legs' \in [Requests -> Seq(LegStatuses)]
         /\ pc'[c] = "move"
         /\ \A r \in Requests \ {req[c]} : legs'[r] = legs[r]
         /\ DOMAIN legs'[req[c]] = 1..Len(legs[req[c]]) + 1
         /\ \A n \in DOMAIN legs[req[c]] : legs'[req[c]][n] = legs[req[c]][n]
         /\ legs'[req[c]][Len(legs[req[c]]) + 1] = "INITIATED"
<1> DEFINE r == req[c]
<1>1. c \in Workers /\ r \in Requests
  BY DEF TypeInv, KnowsInv, Knows, WorksOn, Workers, OpenLeg
<1>2. legs[r] \in Seq(LegStatuses) /\ DOMAIN legs[r] = 1..Len(legs[r])
  BY <1>1 DEF TypeInv, LegsTyped
<1>3. /\ Len(legs[r]) < MaxLegs /\ Legs(r, "INITIATED") = {}
      /\ legs' = [legs EXCEPT ![r] = Append(@, "INITIATED")] /\ Goto(c, "move")
  BY DEF OpenLeg
<1>4. legs'[r] = Append(legs[r], "INITIATED") /\ \A x \in Requests \ {r} : legs'[x] = legs[x]
  BY <1>1, <1>3 DEF TypeInv, LegsTyped
<1>5. /\ Append(legs[r], "INITIATED") \in Seq(LegStatuses)
      /\ DOMAIN Append(legs[r], "INITIATED") = 1..Len(legs[r]) + 1
      /\ \A n \in DOMAIN legs[r] : Append(legs[r], "INITIATED")[n] = legs[r][n]
      /\ Append(legs[r], "INITIATED")[Len(legs[r]) + 1] = "INITIATED"
  BY <1>2 DEF LegStatuses
<1>6. legs' \in [Requests -> Seq(LegStatuses)]
  BY <1>1, <1>3, <1>5 DEF TypeInv, LegsTyped
<1>7. pc'[c] = "move"
  BY <1>1, <1>3 DEF Goto, TypeInv, LocalsTyped
<1> QED
  BY <1>1, <1>3, <1>4, <1>5, <1>6, <1>7

\* The transfers keep their types.
LEMMA LegsStep == TypeInv /\ [Next]_vars => LegsTyped'
<1> SUFFICES ASSUME TypeInv, [Next]_vars PROVE LegsTyped'
  OBVIOUS
<1>1. CASE legs' = legs
  BY <1>1 DEF TypeInv, LegsTyped
<1>2. ASSUME NEW c \in Callers, OpenLeg(c), legs' # legs PROVE LegsTyped'
  <2>1. \A r \in Requests : Len(legs[r]) \in Nat /\ Len(legs[r]) <= MaxLegs
    BY DEF TypeInv, LegsTyped
  <2>2. \A r \in Requests : Len(legs'[r]) <= MaxLegs
    <3>1. req[c] \in Requests /\ legs'[req[c]] \in Seq(LegStatuses)
      BY <1>2, LegOpens
    <3>2. Len(legs'[req[c]]) = Len(legs[req[c]]) + 1
      BY <1>2, <2>1, <3>1, LegOpens
    <3> QED
      BY <1>2, <2>1, <3>1, <3>2, LegOpens, ConstantsAssumption
  <2> QED
    BY <1>2, <2>2, LegOpens DEF LegsTyped
<1>3. ASSUME NEW c \in Callers, NEW s \in LegStatuses, MoveLeg(c, s),
             pc[c] \in {"confirm", "bounce"}
      PROVE  LegsTyped'
  BY <1>3, LegMoves DEF LegsTyped, TypeInv
<1>4. \A c \in Callers : ConfirmLeg(c) \/ BounceLeg(c) => LegsTyped'
  BY <1>1, <1>3 DEF ConfirmLeg, BounceLeg, LegStatuses
<1> QED
  BY <1>1, <1>2, <1>4, Writers DEF Written, WriteLegs

\* What went back is a number.
LEMMA CumulativeNat ==
  ASSUME TypeInv, NEW w \in Workers, WorksOn(w)
  PROVE  Cumulative(w) \in Nat
<1>1. req[w] \in Requests /\ sum[w] \in Nat /\ refunded \in Nat
  BY DEF TypeInv, KnowsInv, Knows, LocalsTyped, BooksTyped
<1>2. amount[req[w]] \in Nat
  BY <1>1, ConstantsAssumption DEF TypeInv, RecordsTyped
<1> QED
  BY <1>1, <1>2 DEF Cumulative

\* The books keep their types.
LEMMA BooksTypedStep == TypeInv /\ [Next]_vars => BooksTyped'
<1> SUFFICES ASSUME TypeInv, [Next]_vars PROVE BooksTyped'
  OBVIOUS
<1>1. Written /\ BooksTyped
  BY Writers DEF TypeInv
<1>2. held' \in BOOLEAN /\ faults' \in 0..MaxFaults
  <2>1. held' \in BOOLEAN
    BY <1>1 DEF Written, BooksTyped, HoldSet
  <2>2. faults' \in 0..MaxFaults
    BY <1>1, ConstantsAssumption DEF Written, BooksTyped, FaultsCount
  <2> QED
    BY <2>1, <2>2
<1>3. refunded' \in Nat /\ full' \in BOOLEAN
  <2>1. ASSUME NEW g \in Refunds, ByHandEvent(g) PROVE refunded' \in Nat /\ full' \in BOOLEAN
    <3>1. gateway[g].total \in Nat
      BY DEF TypeInv, GatewayTyped, GatewayRefund
    <3> QED
      BY <1>1, <2>1, <3>1, MaxOfTwo, SMTT(30) DEF BooksTyped, ByHandEvent, FlagOf
  <2>2. ASSUME NEW w \in Workers, RaiseTotal(w) \/ ApplyTotal(w)
        PROVE  refunded' \in Nat /\ full' \in BOOLEAN
    <3>1. Cumulative(w) \in Nat
      BY <2>2, CumulativeNat DEF RaiseTotal, ApplyTotal, WorksOn
    <3>2. Max({refunded, Cumulative(w)}) \in Nat
      BY <1>1, <3>1, MaxOfTwo DEF BooksTyped
    <3>3. RaiseTotal(w) => full' = full
      BY DEF RaiseTotal
    <3>4. ApplyTotal(w) => full' \in BOOLEAN
      BY DEF ApplyTotal, FlagOf
    <3>5. refunded' \in Nat
      BY <2>2, <3>2 DEF RaiseTotal, ApplyTotal
    <3> QED
      BY <1>1, <2>2, <3>3, <3>4, <3>5 DEF BooksTyped
  <2> QED
    BY <1>1, <2>1, <2>2 DEF Written, WriteReturns, ReturnsKept, BooksTyped
<1>4. undone' \subseteq {"claim", "usage"} /\ ledger' \subseteq Requests
  <2>1. ASSUME NEW w \in Workers,
               RefundClaim(w) \/ ReverseUsage(w) \/ AlreadyCompleted(w) \/ PostRefund(w)
        PROVE  undone' \subseteq {"claim", "usage"} /\ ledger' \subseteq Requests
    <3>1. req[w] \in Requests
      BY <2>1 DEF TypeInv, KnowsInv, Knows, WorksOn, RefundClaim, ReverseUsage, AlreadyCompleted, PostRefund
    <3> QED
      BY <1>1, <2>1, <3>1 DEF BooksTyped, RefundClaim, ReverseUsage, AlreadyCompleted, PostRefund
  <2> QED
    BY <1>1, <2>1 DEF Written, WriteTraces, TracesKept, BooksTyped
<1> QED
  BY <1>2, <1>3, <1>4 DEF BooksTyped

-----------------------------------------------------------------------------
(* How the records of a request, and a refund, may move.                   *)

Undecided == {"REQUESTED", "VENDOR_APPROVED", "VENDOR_TIMEOUT", "VENDOR_REJECTED"}
Decided == {"ADMIN_APPROVED", "ADMIN_OVERRIDE", "ADMIN_REJECTED", "CANCELLED"}
Executing(w) == pc[w] \in {"claim", "lookup", "send", "fail", "adopt"}

\* A request is filed when none is open, decided, executed at the gateway or at
\* the bank, reported by the gateway, completed, or swept.
StatusMove(r) ==
  \/ status'[r] = status[r]
  \/ status[r] = "NONE" /\ status'[r] = "REQUESTED" /\ ~SomeOpen
  \/ /\ status[r] \in Undecided /\ status'[r] \in Undecided \cup Decided
     /\ status[r] \in OpenStatuses \/ status'[r] \in ClosedStatuses \/ MayOpen(r)
  \/ /\ MayOpen(r) /\ status'[r] \in {"PROCESSING", "FAILED"}
     /\ \E c \in Callers : /\ Executing(c) /\ req[c] = r
                           /\ status[r] \in Ready \/ pc[c] \in {"fail", "adopt"}
  \/ /\ MayOpen(r) /\ status'[r] \in {"PROCESSING", "FAILED"} /\ status[r] # "COMPLETED"
     /\ GatewayActsOn(r) /\ \E g \in Refunds : gateway[g].request = r
  \/ r \in toBank /\ status[r] = "AWAITING_BANK_DETAILS" /\ status'[r] = "ADMIN_APPROVED"
  \/ /\ status[r] \in BankReady /\ status'[r] = "PROCESSING"
     /\ \E c \in Callers : pc[c] = "move" /\ req[c] = r
  \/ /\ status[r] = "PROCESSING" /\ status'[r] = "FAILED"
     /\ \E c \in Callers : pc[c] = "unpaid" /\ req[c] = r /\ pc'[c] = "idle"
  \/ status[r] = "FAILED" /\ status'[r] = "AWAITING_BANK_DETAILS" /\ MayGoToBank(r)
  \/ /\ status[r] \in Completable /\ status'[r] = "COMPLETED"
     /\ \E w \in Workers : pc[w] = "close" /\ req[w] = r /\ pc'[w] = "apply"
  \/ /\ status[r] = "PROCESSING" /\ status'[r] = "FAILED"
     /\ pc[Sweeper] = "bounced" /\ req[Sweeper] = r

\* Every step moves the status of a request in one of those ways, or not at all.
LEMMA StatusMoves ==
  ASSUME TypeInv, [Next]_vars
  PROVE  \A r \in Requests : StatusMove(r)
<1> USE DEF StatusMove, TypeInv, RecordsTyped, SetStatus
<1>1. ASSUME NEW c \in Callers, RejectAsVendor(c) PROVE \A r \in Requests : StatusMove(r)
  BY <1>1 DEF RejectAsVendor, Close, AdminCanDecide, Cancellable, Undecided, Decided, OpenStatuses, ClosedStatuses
<1>2. ASSUME NEW c \in Callers, RejectAsAdmin(c) PROVE \A r \in Requests : StatusMove(r)
  BY <1>2 DEF RejectAsAdmin, Close, AdminCanDecide, Cancellable, Undecided, Decided, OpenStatuses, ClosedStatuses
<1>3. ASSUME NEW c \in Callers, CancelRefund(c) PROVE \A r \in Requests : StatusMove(r)
  BY <1>3 DEF CancelRefund, Close, AdminCanDecide, Cancellable, Undecided, Decided, OpenStatuses, ClosedStatuses
<1>4. ASSUME NEW c \in Callers, CreateRequest(c) PROVE \A r \in Requests : StatusMove(r)
  <2>1. CASE SomeOpen \/ Fresh = {}
    BY <1>4, <2>1 DEF CreateRequest, request
  <2>2. CASE ~(SomeOpen \/ Fresh = {})
    <3>1. Min(Fresh) \in Requests /\ status[Min(Fresh)] = "NONE"
      BY <2>2, NextFree
    <3>2. status' = [status EXCEPT ![Min(Fresh)] = "REQUESTED"]
      BY <1>4, <2>2 DEF CreateRequest
    <3> QED
      BY <2>2, <3>1, <3>2
  <2> QED
    BY <2>1, <2>2
<1>5. ASSUME NEW c \in Callers, ApproveAsVendor(c) PROVE \A r \in Requests : StatusMove(r)
  BY <1>5 DEF ApproveAsVendor, Undecided, OpenStatuses
<1>6. ASSUME NEW c \in Callers, ClaimExecution(c) PROVE \A r \in Requests : StatusMove(r)
  BY <1>6 DEF ClaimExecution, Executing, request
<1>7. ASSUME NEW c \in Callers, MarkFailed(c) PROVE \A r \in Requests : StatusMove(r)
  BY <1>7 DEF MarkFailed, Executing, request
<1>8. ASSUME NEW c \in Callers, Adopt(c) PROVE \A r \in Requests : StatusMove(r)
  BY <1>8 DEF Adopt, Executing, request
<1>9. ASSUME NEW c \in Callers, MoveTransfer(c) PROVE \A r \in Requests : StatusMove(r)
  BY <1>9 DEF MoveTransfer
<1>10. ASSUME NEW c \in Callers, FailTransfer(c) PROVE \A r \in Requests : StatusMove(r)
  BY <1>10 DEF FailTransfer, Done, Goto, LocalsTyped, Workers
<1>11. ASSUME NEW w \in Workers, CloseCompleted(w) PROVE \A r \in Requests : StatusMove(r)
  BY <1>11 DEF CloseCompleted, Goto, LocalsTyped
<1>12. ASSUME SweepFailed PROVE \A r \in Requests : StatusMove(r)
  BY <1>12 DEF SweepFailed, SweptAsFailed
<1>13. ASSUME EscalateStale PROVE \A r \in Requests : StatusMove(r)
  BY <1>13 DEF EscalateStale, Undecided, OpenStatuses
<1>14. ASSUME ApproveAsAdmin PROVE \A r \in Requests : StatusMove(r)
  <2>1. PICK r \in Requests :
          /\ status[r] \in AdminCanDecide /\ MayOpen(r)
          /\ SetStatus(r, IF status[r] \in OverrideFrom THEN "ADMIN_OVERRIDE" ELSE "ADMIN_APPROVED")
    BY <1>14 DEF ApproveAsAdmin
  <2>2. status[r] \in Undecided /\ status'[r] \in Decided
    BY <2>1 DEF AdminCanDecide, Undecided, Decided
  <2>3. \A s \in Requests \ {r} : status'[s] = status[s]
    BY <2>1
  <2> QED
    BY <2>1, <2>2, <2>3
<1>15. ASSUME RequestBankDetails PROVE \A r \in Requests : StatusMove(r)
  BY <1>15 DEF RequestBankDetails
<1>16. ASSUME AttachBank PROVE \A r \in Requests : StatusMove(r)
  BY <1>16 DEF AttachBank
<1>17. ASSUME NEW g \in Refunds, CreatedEvent(g) PROVE \A r \in Requests : StatusMove(r)
  BY <1>17 DEF CreatedEvent
<1>18. ASSUME NEW g \in Refunds, FailedEvent(g) PROVE \A r \in Requests : StatusMove(r)
  BY <1>18 DEF FailedEvent, Ready
<1>19. CASE RequestsKept
  BY <1>19 DEF RequestsKept
<1> QED
  BY <1>1, <1>2, <1>3, <1>4, <1>5, <1>6, <1>7, <1>8, <1>9, <1>10, <1>11, <1>12, <1>13,
     <1>14, <1>15, <1>16, <1>17, <1>18, <1>19, Writers
  DEF Written, WriteRequests

\* A request that was filed stays so.
LEMMA FiledStays ==
  ASSUME TypeInv, [Next]_vars, NEW r \in Requests, status[r] # "NONE"
  PROVE  status'[r] # "NONE"
BY StatusMoves DEF StatusMove, Undecided, Decided

\* A refund is sent for a request, made by hand, processed or bounced.
GatewayMove(g) ==
  \/ gateway'[g] = gateway[g]
  \/ /\ gateway[g].status = "NONE" /\ gateway'[g].status = "CREATED"
     /\ \E c \in Callers : /\ SendRefund(c) /\ g = NextRefund
                           /\ gateway'[g].request = req[c] /\ gateway'[g].amount = amount[req[c]]
  \/ /\ gateway[g].status = "NONE" /\ gateway'[g].status = "CREATED"
     /\ gateway'[g].request = NoRequest /\ gateway'[g].amount \in 1..Paid
  \/ /\ gateway[g].status = "CREATED" /\ gateway'[g].status = "PROCESSED"
     /\ gateway'[g].total = Sent + gateway[g].amount
     /\ gateway'[g].request = gateway[g].request /\ gateway'[g].amount = gateway[g].amount
  \/ /\ gateway[g].status = "CREATED" /\ gateway'[g].status = "FAILED"
     /\ gateway'[g].request = gateway[g].request /\ gateway'[g].amount = gateway[g].amount

\* Every step moves a refund of the gateway in one of those ways, or not at all.
LEMMA GatewayMoves ==
  ASSUME TypeInv, [Next]_vars
  PROVE  \A g \in Refunds : GatewayMove(g) /\ gateway'[g] \in GatewayRefund
<1> DEFINE Goal == \A g \in Refunds : GatewayMove(g) /\ gateway'[g] \in GatewayRefund
<1>0. \A g \in Refunds : gateway[g] \in GatewayRefund
  BY DEF TypeInv, GatewayTyped
<1>1. ASSUME NEW c \in Callers, SendRefund(c) PROVE Goal
  <2>1. NextRefund \in Refunds /\ gateway[NextRefund].status = "NONE"
    BY <1>1, NextFree DEF SendRefund
  <2>2. req[c] \in 0..MaxRequests /\ amount[req[c]] \in 0..Paid
    BY <1>1 DEF SendRefund, TypeInv, KnowsInv, Knows, LocalsTyped, RecordsTyped, WorksOn, Workers
  <2>3. gateway' = [gateway EXCEPT ![NextRefund] =
                      [@ EXCEPT !.status = "CREATED", !.request = req[c], !.amount = amount[req[c]]]]
    BY <1>1, <2>1 DEF SendRefund, TypeInv, GatewayTyped, GatewayRefund
  <2> HIDE DEF NextRefund
  <2>4. /\ gateway'[NextRefund] = [gateway[NextRefund] EXCEPT !.status = "CREATED",
                                       !.request = req[c], !.amount = amount[req[c]]]
        /\ \A g \in Refunds \ {NextRefund} : gateway'[g] = gateway[g]
    BY <2>1, <2>3 DEF TypeInv, GatewayTyped
  <2>5. /\ gateway'[NextRefund] \in GatewayRefund /\ gateway'[NextRefund].status = "CREATED"
        /\ gateway'[NextRefund].request = req[c] /\ gateway'[NextRefund].amount = amount[req[c]]
    BY <1>0, <2>1, <2>2, <2>4 DEF GatewayRefund
  <2> QED
    BY <1>0, <1>1, <2>1, <2>4, <2>5 DEF GatewayMove
<1>2. ASSUME RefundByHand PROVE Goal
  <2>1. NextRefund \in Refunds /\ gateway[NextRefund].status = "NONE"
    BY <1>2, NextFree DEF RefundByHand
  <2>2. gateway[NextRefund].request = NoRequest
    BY <2>1 DEF TypeInv, GatewayTyped
  <2>3. PICK a \in 1..Paid : gateway' = [gateway EXCEPT ![NextRefund].status = "CREATED",
                                                        ![NextRefund].amount = a]
    BY <1>2 DEF RefundByHand
  <2> HIDE DEF NextRefund
  <2>4. /\ gateway'[NextRefund] = [gateway[NextRefund] EXCEPT !.status = "CREATED", !.amount = a]
        /\ \A g \in Refunds \ {NextRefund} : gateway'[g] = gateway[g]
    BY <2>1, <2>3 DEF TypeInv, GatewayTyped, GatewayRefund
  <2>5. /\ gateway'[NextRefund] \in GatewayRefund /\ gateway'[NextRefund].status = "CREATED"
        /\ gateway'[NextRefund].request = NoRequest /\ gateway'[NextRefund].amount = a
    <3>1. a \in 0..Paid /\ gateway[NextRefund] \in GatewayRefund
      BY <1>0, <2>1, ConstantsAssumption
    <3>2. gateway'[NextRefund] \in GatewayRefund
      BY <2>4, <3>1 DEF GatewayRefund
    <3> QED
      BY <2>2, <2>4, <3>1, <3>2 DEF GatewayRefund
  <2> QED
    BY <1>0, <2>1, <2>4, <2>5 DEF GatewayMove
<1>3. ASSUME NEW h \in Refunds, Process(h) PROVE Goal
  <2>1. GatewayIs("PROCESSED") \subseteq Refunds /\ gateway[h].amount \in Nat
    BY <1>0, ConstantsAssumption DEF GatewayIs, GatewayRefund
  <2>2. Sent \in Nat
    BY <2>1, AmountNat DEF Sent, TypeInv
  <2>3. /\ gateway'[h] = [gateway[h] EXCEPT !.status = "PROCESSED",
                                            !.total = Sent + gateway[h].amount]
        /\ \A g \in Refunds \ {h} : gateway'[g] = gateway[g]
    BY <1>3 DEF Process, TypeInv, GatewayTyped, GatewayRefund
  <2> HIDE DEF Sent
  <2>4. /\ gateway'[h] \in GatewayRefund /\ gateway'[h].status = "PROCESSED"
        /\ gateway'[h].request = gateway[h].request /\ gateway'[h].amount = gateway[h].amount
        /\ gateway'[h].total = Sent + gateway[h].amount
    <3>1. Sent + gateway[h].amount \in Nat /\ gateway[h] \in GatewayRefund
      BY <1>0, <2>1, <2>2
    <3>2. gateway'[h] \in GatewayRefund
      BY <2>3, <3>1 DEF GatewayRefund
    <3> QED
      BY <2>3, <3>1, <3>2 DEF GatewayRefund
  <2> QED
    BY <1>0, <1>3, <2>3, <2>4 DEF GatewayMove, Process
<1>4. ASSUME NEW h \in Refunds, Bounce(h) PROVE Goal
  <2>1. /\ gateway'[h] = [gateway[h] EXCEPT !.status = "FAILED"]
        /\ \A g \in Refunds \ {h} : gateway'[g] = gateway[g]
    BY <1>4 DEF Bounce, TypeInv, GatewayTyped, GatewayRefund
  <2>2. /\ gateway'[h] \in GatewayRefund /\ gateway'[h].status = "FAILED"
        /\ gateway'[h].request = gateway[h].request /\ gateway'[h].amount = gateway[h].amount
    BY <1>0, <2>1 DEF GatewayRefund
  <2> QED
    BY <1>0, <1>4, <2>1, <2>2 DEF GatewayMove, Bounce
<1>5. CASE gateway' = gateway
  BY <1>0, <1>5 DEF GatewayMove
<1> QED
  BY <1>1, <1>2, <1>3, <1>4, <1>5, Writers DEF Written, WriteGateway

\* The refunds of the gateway keep their types.
LEMMA GatewayStep == TypeInv /\ [Next]_vars => GatewayTyped'
<1> SUFFICES ASSUME TypeInv, [Next]_vars PROVE GatewayTyped'
  OBVIOUS
<1>1. gateway' \in [Refunds -> GatewayRefund]
  <2>1. gateway' = [g \in Refunds |-> gateway'[g]]
    <3>1. gateway = [g \in Refunds |-> gateway[g]]
      BY DEF TypeInv, GatewayTyped
    <3>2. RefundByHand => \E r, s : gateway' = [gateway EXCEPT ![NextRefund].status = r,
                                                       ![NextRefund].amount = s]
      BY DEF RefundByHand
    <3> QED
      BY <3>1, <3>2, Writers
      DEF Written, WriteGateway, Process, Bounce, SendRefund
  <2> QED
    BY <2>1, GatewayMoves
<1>2. ASSUME NEW g \in Refunds
      PROVE  /\ gateway'[g].status = "NONE" => gateway'[g].request = NoRequest
             /\ gateway'[g].status # "NONE" => gateway'[g].amount # 0
             /\ gateway'[g].request # NoRequest => status'[gateway'[g].request] # "NONE"
  <2>1. ASSUME NEW c \in Callers, SendRefund(c)
        PROVE  req[c] \in Requests /\ status[req[c]] # "NONE" /\ amount[req[c]] # 0
    BY <2>1 DEF SendRefund, TypeInv, KnowsInv, Knows, RecordsTyped, WorksOn, Workers
  <2>2. gateway[g].request # NoRequest => gateway[g].request \in Requests
    BY DEF TypeInv, GatewayTyped, GatewayRefund, Requests, NoRequest
  <2> QED
    BY <2>1, <2>2, GatewayMoves, FiledStays DEF GatewayMove, TypeInv, GatewayTyped
<1> QED
  BY <1>1, <1>2 DEF GatewayTyped

-----------------------------------------------------------------------------
(* Where a worker may go.                                                  *)

Goes(w, from, to) == pc[w] = from /\ pc'[w] = to
Keeps(w) == req'[w] = req[w] /\ sum'[w] = sum[w] /\ gid'[w] = gid[w] /\ landed'[w] = landed[w]
Stays(w) == pc'[w] = pc[w] /\ Keeps(w)
Ends(w) == /\ pc'[w] = "idle" /\ req'[w] = NoRequest /\ sum'[w] = 0 /\ gid'[w] = 0
           /\ landed'[w] = FALSE

\* A caller that is idle takes something up.
Takes(w, to, r) == /\ w \in Callers /\ Goes(w, "idle", to)
                   /\ r \in Requests /\ status[r] # "NONE" /\ req'[w] = r
                   /\ landed'[w] = landed[w]
ToCreate(w) == /\ w \in Callers /\ Goes(w, "idle", "create") /\ sum'[w] \in 1..Paid
               /\ req'[w] = req[w] /\ gid'[w] = gid[w] /\ landed'[w] = landed[w]
ToApprove(w) == /\ \E r \in Requests : Takes(w, "approve", r)
                /\ sum'[w] \in 1..Paid /\ gid'[w] = gid[w]
ToLook(w) == /\ \E r \in Requests : Takes(w, "look", r)
             /\ sum'[w] = sum[w] /\ gid'[w] = gid[w]
ToClaim(w) == /\ \E r \in Requests : /\ Takes(w, "claim", r) /\ status[r] \in Ready
                                     /\ r \notin toBank /\ StillOwed(r) /\ MayPay(r)
              /\ sum'[w] = sum[w] /\ gid'[w] = gid[w] /\ status' = status
ToLeg(w) == /\ \E r \in Requests : /\ Takes(w, "leg", r) /\ status[r] \in BankReady
                                   /\ r \in account /\ MayPay(r)
            /\ sum'[w] = sum[w] /\ gid'[w] = gid[w] /\ status' = status
ToTransfer(w) == /\ \E r \in Requests :
                      /\ Takes(w, "confirm", r) \/ Takes(w, "bounce", r)
                      /\ status[r] = "PROCESSING" /\ MayPay(r)
                      /\ gid'[w] \in Legs(r, "INITIATED")
                 /\ sum'[w] = sum[w] /\ status' = status /\ legs' = legs
ToLand(w) == /\ \E g \in GatewayIs("PROCESSED") :
                  /\ Takes(w, "raise", gateway[g].request) /\ sum'[w] = gateway[g].total
             /\ gid'[w] = gid[w]

\* A caller goes on.
ToHold(w) == /\ w \in Callers /\ Goes(w, "create", "hold") /\ sum'[w] = 0 /\ req'[w] = req[w]
             /\ gid'[w] = gid[w] /\ landed'[w] = landed[w]
Claimed(w) == /\ w \in Callers /\ Keeps(w)
              /\ status[req[w]] \in Ready /\ MayOpen(req[w])
              /\ status' = [status EXCEPT ![req[w]] = "PROCESSING"]
              /\ attempts' = [attempts EXCEPT ![req[w]] = 1]
              /\ \/ Goes(w, "claim", "lookup")
                 \/ Goes(w, "claim", "send") /\ attempts[req[w]] = 0
ToSend(w) == w \in Callers /\ Goes(w, "lookup", "send") /\ Keeps(w) /\ OurRefunds(req[w]) = {}
ToAdopt(w) == /\ w \in Callers /\ pc[w] \in {"lookup", "send"} /\ pc'[w] = "adopt"
              /\ req'[w] = req[w] /\ sum'[w] = sum[w] /\ landed'[w] = landed[w]
              /\ gid'[w] \in Refunds /\ gateway'[gid'[w]].request = req[w]
ToFail(w) == w \in Callers /\ Goes(w, "send", "fail") /\ Keeps(w)
ToMove(w) == w \in Callers /\ Goes(w, "leg", "move") /\ Keeps(w) /\ OpenLeg(w)
ToTotal(w) == /\ w \in Callers /\ Goes(w, "confirm", "total") /\ Keeps(w)
              /\ InitiatedLeg(w) /\ MoveLeg(w, "PAID")
ToUnpaid(w) == /\ w \in Callers /\ Goes(w, "bounce", "unpaid") /\ Keeps(w)
               /\ IF InitiatedLeg(w) THEN MoveLeg(w, "FAILED") ELSE legs' = legs
Added(w) == /\ w \in Callers /\ Goes(w, "total", "raise") /\ req'[w] = req[w]
            /\ sum'[w] = refunded + amount[req[w]] /\ gid'[w] = 0 /\ landed'[w] = landed[w]

\* A refund lands.
Raised(w) == /\ Goes(w, "raise", "close") /\ Keeps(w)
             /\ refunded' = Max({refunded, Cumulative(w)}) /\ full' = full
Completed(w) == /\ Goes(w, "close", "apply") /\ Keeps(w)
                /\ status[req[w]] \in Completable
                /\ status' = [status EXCEPT ![req[w]] = "COMPLETED"]
Applied(w) == /\ Goes(w, "apply", "readback") /\ req'[w] = req[w] /\ sum'[w] = 0
              /\ gid'[w] = gid[w] /\ landed'[w] = landed[w]
              /\ refunded' = Max({refunded, Cumulative(w)}) /\ full' = FlagOf(Cumulative(w))
Back(w) == /\ \/ Goes(w, "readback", "redeemed") /\ full
              \/ Goes(w, "readback", "look")
           /\ landed'[w] = TRUE
           /\ req'[w] = req[w] /\ sum'[w] = sum[w] /\ gid'[w] = gid[w]
Undoes(w) == /\ Keeps(w)
             /\ Goes(w, "redeemed", "usage") \/ Goes(w, "usage", "book")
Looks(w) == /\ Keeps(w)
            /\ \/ Goes(w, "look", "count") \/ Goes(w, "count", "unhold")
               \/ pc[w] \in {"look", "count", "unhold"} /\ pc'[w] = "book" /\ landed[w]

\* The sweep.
Sweeps(w) == /\ Keeps(w) /\ w = Sweeper
             /\ pc[w] \in {"idle", "repair"} /\ pc'[w] \in {"repair", "inflight"}
ToFetch(w) == /\ Goes(w, "inflight", "fetch") /\ w = Sweeper
              /\ req'[w] \in InFlight /\ gid'[w] = linked[req'[w]]
              /\ sum'[w] = sum[w] /\ landed'[w] = landed[w]
Fetched(w) == /\ Goes(w, "fetch", "raise") /\ w = Sweeper
              /\ gateway[gid[w]].status = "PROCESSED"
              /\ sum'[w] = Sent \/ (UnknownTotals /\ sum'[w] = 0)
              /\ req'[w] = req[w] /\ gid'[w] = gid[w] /\ landed'[w] = landed[w]
Bounced(w) == /\ Goes(w, "fetch", "bounced") /\ w = Sweeper /\ Keeps(w)
              /\ gateway[gid[w]].status = "FAILED"

Moves(w) ==
  \/ Stays(w) \/ Ends(w)
  \/ ToCreate(w) \/ ToApprove(w) \/ ToLook(w) \/ ToClaim(w) \/ ToLeg(w) \/ ToTransfer(w)
  \/ ToLand(w) \/ ToHold(w) \/ Claimed(w) \/ ToSend(w) \/ ToAdopt(w) \/ ToFail(w)
  \/ ToMove(w) \/ ToTotal(w) \/ ToUnpaid(w) \/ Added(w)
  \/ Raised(w) \/ Completed(w) \/ Applied(w) \/ Back(w) \/ Undoes(w) \/ Looks(w)
  \/ Sweeps(w) \/ ToFetch(w) \/ Fetched(w) \/ Bounced(w)

LocalsKept == pc' = pc /\ req' = req /\ sum' = sum /\ gid' = gid /\ landed' = landed
\* Only one worker moves.
Turn(w) == /\ Moves(w)
           /\ \A v \in Workers \ {w} : Stays(v)
           /\ LocalsTyped'

\* Of two numbers, the least is at most the first.
LEMMA MinOfTwo ==
  ASSUME NEW a \in Int, NEW b \in Int
  PROVE  Min({a, b}) \in Int /\ Min({a, b}) <= a
<1>1. \A x \in {a, b} : (\A y \in {a, b} : x <= y) => x = IF a <= b THEN a ELSE b
  OBVIOUS
<1>2. \E x \in {a, b} : \A y \in {a, b} : x <= y
  OBVIOUS
<1>3. Min({a, b}) = IF a <= b THEN a ELSE b
  BY <1>1, <1>2 DEF Min
<1> QED
  BY <1>3

\* A worker past its first read has a request that was filed.
LEMMA KnowsRequest ==
  ASSUME TypeInv, NEW w \in Workers, WorksOn(w)
  PROVE  req[w] \in Requests /\ status[req[w]] # "NONE" /\ amount[req[w]] \in 1..Paid
<1>1. req[w] \in Requests /\ status[req[w]] # "NONE"
  BY DEF TypeInv, KnowsInv, Knows
<1> QED
  BY <1>1, ConstantsAssumption DEF TypeInv, RecordsTyped

\* A step is the turn of one worker, or of none.
LEMMA Turns ==
  ASSUME TypeInv, [Next]_vars
  PROVE  LocalsKept \/ \E w \in Workers : Turn(w)
<1> USE DEF Goto, Goes, Keeps, Stays, locals
<1> DEFINE Goal == LocalsKept \/ \E w \in Workers : Turn(w)
<1>0. /\ pc \in [Workers -> Labels] /\ req \in [Workers -> 0..MaxRequests]
      /\ sum \in [Workers -> Nat] /\ gid \in [Workers -> 0..Max({MaxRefunds, MaxLegs})]
      /\ landed \in [Workers -> BOOLEAN]
  BY DEF TypeInv, LocalsTyped
<1>a. 0 \in 0..MaxRequests /\ 0 \in Nat /\ 0 \in 0..Max({MaxRefunds, MaxLegs})
  BY MaxOfTwo, ConstantsAssumption
<1>b. Callers \subseteq Workers /\ Sweeper \in Workers
  BY DEF Workers
<1>c. Requests \subseteq 0..MaxRequests /\ Refunds \subseteq 0..Max({MaxRefunds, MaxLegs})
  BY MaxOfTwo, ConstantsAssumption DEF Requests, Refunds
<1>d. ASSUME NEW w \in Workers, Done(w) PROVE LocalsTyped'
  BY <1>0, <1>a, <1>d DEF Done, LocalsTyped, Labels, NoRequest
<1>e. ASSUME NEW w \in Workers, NEW l \in Labels, pc' = [pc EXCEPT ![w] = l], UNCHANGED locals
      PROVE  LocalsTyped'
  BY <1>0, <1>e DEF LocalsTyped
<1>1. ASSUME NEW c \in Callers, StartRequest(c) PROVE Goal
  <2>0. Paid - refunded \in 1..Paid /\ Paid - refunded \in Nat
    BY <1>1, ConstantsAssumption DEF StartRequest, TypeInv, BooksTyped
  <2>1. \A v \in Workers \ {c} : Stays(v)
    BY <1>0, <1>1 DEF StartRequest, Done
  <2>2. LocalsTyped'
    BY <1>0, <1>a, <1>b, <1>c, <2>0, <1>1
    DEF StartRequest, Done, LocalsTyped, Labels, NoRequest
  <2>3. ToCreate(c) \/ Ends(c)
    BY <1>0, <1>b, <2>0, <1>1
    DEF StartRequest, Done, Ends, ToCreate
  <2> QED
    BY <1>b, <2>1, <2>2, <2>3 DEF Turn, Moves
<1>2. ASSUME NEW c \in Callers, StartApprove(c) PROVE Goal
  <2>0. PICK r \in Requests : /\ status[r] = "REQUESTED"
                             /\ req' = [req EXCEPT ![c] = r]
                             /\ \E a \in Askable(Min({amount[r], Paid - refunded})) :
                                  sum' = [sum EXCEPT ![c] = a]
    BY <1>2 DEF StartApprove
  <2>m. PICK a \in Askable(Min({amount[r], Paid - refunded})) : sum' = [sum EXCEPT ![c] = a]
    BY <2>0
  <2>n. a \in 1..Paid /\ a \in Nat
    <3>1. amount[r] \in Int /\ Paid - refunded \in Int /\ amount[r] <= Paid
      BY ConstantsAssumption DEF TypeInv, RecordsTyped, BooksTyped
    <3>2. Min({amount[r], Paid - refunded}) \in Int /\ Min({amount[r], Paid - refunded}) <= amount[r]
      BY <3>1, MinOfTwo
    <3> QED
      BY <3>1, <3>2, ConstantsAssumption DEF Askable
  <2>1. \A v \in Workers \ {c} : Stays(v)
    BY <1>0, <1>2 DEF StartApprove, Done
  <2>2. LocalsTyped'
    BY <1>0, <1>a, <1>b, <1>c, <2>0, <2>m, <2>n, <1>2
    DEF StartApprove, Done, LocalsTyped, Labels, NoRequest
  <2>3. ToApprove(c) \/ Ends(c)
    BY <1>0, <1>b, <2>0, <2>m, <2>n, <1>2
    DEF StartApprove, Done, Ends, ToApprove, Takes
  <2> QED
    BY <1>b, <2>1, <2>2, <2>3 DEF Turn, Moves
<1>3. ASSUME NEW c \in Callers, StartExecute(c) PROVE Goal
  <2>1. \A v \in Workers \ {c} : Stays(v)
    BY <1>0, <1>3 DEF StartExecute, Done
  <2>2. LocalsTyped'
    BY <1>0, <1>a, <1>b, <1>c, <1>3
    DEF StartExecute, Done, LocalsTyped, Labels, NoRequest
  <2>3. ToClaim(c) \/ Ends(c)
    BY <1>0, <1>b, <1>3
    DEF StartExecute, Done, Ends, ToClaim, Takes, Ready, MayPay, request
  <2> QED
    BY <1>b, <2>1, <2>2, <2>3 DEF Turn, Moves
<1>4. ASSUME NEW c \in Callers, RejectAsVendor(c) PROVE Goal
  <2>1. \A v \in Workers \ {c} : Stays(v)
    BY <1>0, <1>4 DEF RejectAsVendor, Close, Done
  <2>2. LocalsTyped'
    BY <1>0, <1>a, <1>b, <1>c, <1>4
    DEF RejectAsVendor, Close, Done, LocalsTyped, Labels, NoRequest
  <2>3. ToLook(c) \/ Ends(c)
    BY <1>0, <1>b, <1>4
    DEF RejectAsVendor, Close, Done, Ends, ToLook, Takes
  <2> QED
    BY <1>b, <2>1, <2>2, <2>3 DEF Turn, Moves
<1>5. ASSUME NEW c \in Callers, RejectAsAdmin(c) PROVE Goal
  <2>1. \A v \in Workers \ {c} : Stays(v)
    BY <1>0, <1>5 DEF RejectAsAdmin, Close, Done
  <2>2. LocalsTyped'
    BY <1>0, <1>a, <1>b, <1>c, <1>5
    DEF RejectAsAdmin, Close, Done, LocalsTyped, Labels, NoRequest
  <2>3. ToLook(c) \/ Ends(c)
    BY <1>0, <1>b, <1>5
    DEF RejectAsAdmin, Close, Done, Ends, ToLook, Takes, AdminCanDecide
  <2> QED
    BY <1>b, <2>1, <2>2, <2>3 DEF Turn, Moves
<1>6. ASSUME NEW c \in Callers, CancelRefund(c) PROVE Goal
  <2>1. \A v \in Workers \ {c} : Stays(v)
    BY <1>0, <1>6 DEF CancelRefund, Close, Done
  <2>2. LocalsTyped'
    BY <1>0, <1>a, <1>b, <1>c, <1>6
    DEF CancelRefund, Close, Done, LocalsTyped, Labels, NoRequest
  <2>3. ToLook(c) \/ Ends(c)
    BY <1>0, <1>b, <1>6
    DEF CancelRefund, Close, Done, Ends, ToLook, Takes, Cancellable
  <2> QED
    BY <1>b, <2>1, <2>2, <2>3 DEF Turn, Moves
<1>7. ASSUME NEW c \in Callers, StartTransfer(c) PROVE Goal
  <2>0. account \subseteq Requests
    BY DEF TypeInv, RecordsTyped
  <2>1. \A v \in Workers \ {c} : Stays(v)
    BY <1>0, <1>7 DEF StartTransfer, Done
  <2>2. LocalsTyped'
    BY <1>0, <1>a, <1>b, <1>c, <2>0, <1>7
    DEF StartTransfer, Done, LocalsTyped, Labels, NoRequest
  <2>3. ToLeg(c) \/ Ends(c)
    BY <1>0, <1>b, <2>0, <1>7
    DEF StartTransfer, Done, Ends, ToLeg, Takes, BankReady, request
  <2> QED
    BY <1>b, <2>1, <2>2, <2>3 DEF Turn, Moves
<1>8. ASSUME NEW c \in Callers, StartConfirm(c) PROVE Goal
  <2>0. PICK r \in Requests : /\ status[r] = "PROCESSING" /\ Legs(r, "INITIATED") # {} /\ MayPay(r)
                             /\ req' = [req EXCEPT ![c] = r]
                             /\ gid' = [gid EXCEPT ![c] = Max(Legs(r, "INITIATED"))]
    BY <1>8 DEF StartConfirm, FindTransfer
  <2>m. Max(Legs(r, "INITIATED")) \in Legs(r, "INITIATED")
    BY <2>0, TransferFound DEF TypeInv
  <2>n. Max(Legs(r, "INITIATED")) \in 0..Max({MaxRefunds, MaxLegs})
    <3>1. Len(legs[r]) \in Nat /\ Len(legs[r]) <= MaxLegs /\ DOMAIN legs[r] = 1..Len(legs[r])
      BY DEF TypeInv, LegsTyped
    <3>2. Max({MaxRefunds, MaxLegs}) \in Nat /\ MaxLegs <= Max({MaxRefunds, MaxLegs})
      BY MaxOfTwo, ConstantsAssumption
    <3>3. Max(Legs(r, "INITIATED")) \in 1..Len(legs[r])
      BY <2>m, <3>1 DEF Legs
    <3> QED
      BY <3>1, <3>2, <3>3, ConstantsAssumption
  <2>1. \A v \in Workers \ {c} : Stays(v)
    BY <1>0, <1>8 DEF StartConfirm, FindTransfer, Done
  <2>2. LocalsTyped'
    BY <1>0, <1>a, <1>b, <1>c, <2>0, <2>m, <2>n, <1>8
    DEF StartConfirm, FindTransfer, Done, LocalsTyped, Labels, NoRequest
  <2>3. ToTransfer(c) \/ Ends(c)
    BY <1>0, <1>b, <2>0, <2>m, <2>n, <1>8
    DEF StartConfirm, FindTransfer, Done, Ends, ToTransfer, Takes, request, bank
  <2> QED
    BY <1>b, <2>1, <2>2, <2>3 DEF Turn, Moves
<1>9. ASSUME NEW c \in Callers, StartBounce(c) PROVE Goal
  <2>0. PICK r \in Requests : /\ status[r] = "PROCESSING" /\ Legs(r, "INITIATED") # {} /\ MayPay(r)
                             /\ req' = [req EXCEPT ![c] = r]
                             /\ gid' = [gid EXCEPT ![c] = Max(Legs(r, "INITIATED"))]
    BY <1>9 DEF StartBounce, FindTransfer
  <2>m. Max(Legs(r, "INITIATED")) \in Legs(r, "INITIATED")
    BY <2>0, TransferFound DEF TypeInv
  <2>n. Max(Legs(r, "INITIATED")) \in 0..Max({MaxRefunds, MaxLegs})
    <3>1. Len(legs[r]) \in Nat /\ Len(legs[r]) <= MaxLegs /\ DOMAIN legs[r] = 1..Len(legs[r])
      BY DEF TypeInv, LegsTyped
    <3>2. Max({MaxRefunds, MaxLegs}) \in Nat /\ MaxLegs <= Max({MaxRefunds, MaxLegs})
      BY MaxOfTwo, ConstantsAssumption
    <3>3. Max(Legs(r, "INITIATED")) \in 1..Len(legs[r])
      BY <2>m, <3>1 DEF Legs
    <3> QED
      BY <3>1, <3>2, <3>3, ConstantsAssumption
  <2>1. \A v \in Workers \ {c} : Stays(v)
    BY <1>0, <1>9 DEF StartBounce, FindTransfer, Done
  <2>2. LocalsTyped'
    BY <1>0, <1>a, <1>b, <1>c, <2>0, <2>m, <2>n, <1>9
    DEF StartBounce, FindTransfer, Done, LocalsTyped, Labels, NoRequest
  <2>3. ToTransfer(c) \/ Ends(c)
    BY <1>0, <1>b, <2>0, <2>m, <2>n, <1>9
    DEF StartBounce, FindTransfer, Done, Ends, ToTransfer, Takes, request, bank
  <2> QED
    BY <1>b, <2>1, <2>2, <2>3 DEF Turn, Moves
<1>10. ASSUME NEW c \in Callers, NEW g \in Refunds, ProcessedEvent(c, g) PROVE Goal
  <2>0. /\ gateway[g].request \in Requests /\ status[gateway[g].request] # "NONE"
        /\ gateway[g].total \in Nat
    BY <1>10 DEF ProcessedEvent, TypeInv, GatewayTyped, GatewayRefund, Requests, NoRequest
  <2>1. \A v \in Workers \ {c} : Stays(v)
    BY <1>0, <1>10 DEF ProcessedEvent, Done
  <2>2. LocalsTyped'
    BY <1>0, <1>a, <1>b, <1>c, <2>0, <1>10
    DEF ProcessedEvent, Done, LocalsTyped, Labels, NoRequest
  <2>3. ToLand(c) \/ Ends(c)
    BY <1>0, <1>b, <2>0, <1>10
    DEF ProcessedEvent, Done, Ends, ToLand, Takes, GatewayIs
  <2> QED
    BY <1>b, <2>1, <2>2, <2>3 DEF Turn, Moves
<1>11. ASSUME NEW c \in Callers, CreateRequest(c) PROVE Goal
  <2>1. \A v \in Workers \ {c} : Stays(v)
    BY <1>0, <1>11 DEF CreateRequest, Done
  <2>l. \/ Done(c)
        \/ /\ req' = req /\ sum' = [sum EXCEPT ![c] = 0] /\ gid' = gid /\ landed' = landed
           /\ pc' = [pc EXCEPT ![c] = "hold"]
    BY <1>11 DEF CreateRequest
  <2>2. LocalsTyped'
    <3>1. CASE Done(c)
      BY <1>b, <1>d, <3>1
    <3>2. CASE ~Done(c)
      <4>1. /\ req' = req /\ gid' = gid /\ landed' = landed
            /\ sum' \in [Workers -> Nat] /\ pc' \in [Workers -> Labels]
        BY <1>0, <2>l, <3>2 DEF Labels
      <4> QED
        BY <1>0, <4>1 DEF LocalsTyped
    <3> QED
      BY <3>1, <3>2
  <2>3. ToHold(c) \/ Ends(c)
    BY <1>0, <1>b, <1>11
    DEF CreateRequest, Done, Ends, ToHold
  <2> QED
    BY <1>b, <2>1, <2>2, <2>3 DEF Turn, Moves
<1>12. ASSUME NEW c \in Callers, HoldPayment(c) PROVE Goal
  <2>1. \A v \in Workers \ {c} : Stays(v)
    BY <1>0, <1>12 DEF HoldPayment, Done
  <2>2. LocalsTyped'
    BY <1>0, <1>a, <1>b, <1>c, <1>12
    DEF HoldPayment, Done, LocalsTyped, Labels, NoRequest
  <2>3. Ends(c)
    BY <1>0, <1>b, <1>12
    DEF HoldPayment, Done, Ends
  <2> QED
    BY <1>b, <2>1, <2>2, <2>3 DEF Turn, Moves
<1>13. ASSUME NEW c \in Callers, ApproveAsVendor(c) PROVE Goal
  <2>1. \A v \in Workers \ {c} : Stays(v)
    BY <1>0, <1>13 DEF ApproveAsVendor, Done
  <2>2. LocalsTyped'
    BY <1>0, <1>a, <1>b, <1>c, <1>13
    DEF ApproveAsVendor, Done, LocalsTyped, Labels, NoRequest
  <2>3. Ends(c)
    BY <1>0, <1>b, <1>13
    DEF ApproveAsVendor, Done, Ends
  <2> QED
    BY <1>b, <2>1, <2>2, <2>3 DEF Turn, Moves
<1>14. ASSUME NEW c \in Callers, ClaimExecution(c) PROVE Goal
  <2>0. req[c] \in Requests /\ attempts[req[c]] \in 0..1
    BY <1>14, <1>b, KnowsRequest DEF ClaimExecution, WorksOn, TypeInv, RecordsTyped
  <2>l. \/ Done(c)
        \/ /\ UNCHANGED locals
           /\ \E l \in {"lookup", "send"} : pc' = [pc EXCEPT ![c] = l]
    BY <1>14 DEF ClaimExecution
  <2>1. \A v \in Workers \ {c} : Stays(v)
    BY <1>0, <2>l DEF Done
  <2>2. LocalsTyped'
    <3>1. CASE Done(c)
      BY <1>0, <1>a, <1>b, <3>1 DEF Done, LocalsTyped, Labels, NoRequest
    <3>2. CASE ~Done(c)
      BY <1>0, <1>b, <1>c, <2>0, <2>l, <3>2 DEF LocalsTyped, Labels
    <3> QED
      BY <3>1, <3>2
  <2>3. Claimed(c) \/ Ends(c)
    BY <1>0, <1>b, <2>0, <1>14
    DEF ClaimExecution, Done, Ends, Claimed, AsksFirst, SetStatus
  <2> QED
    BY <1>b, <2>1, <2>2, <2>3 DEF Turn, Moves
<1>15. ASSUME NEW c \in Callers, LookUp(c) PROVE Goal
  <2>0. OurRefunds(req[c]) \subseteq {g \in Refunds : gateway[g].request = req[c]}
    BY DEF OurRefunds, GatewayIs
  <2>1. \A v \in Workers \ {c} : Stays(v)
    BY <1>0, <1>15 DEF LookUp, Done
  <2>l. /\ req' = req /\ sum' = sum /\ landed' = landed
        /\ \/ pc' = [pc EXCEPT ![c] = "send"] /\ gid' = gid
           \/ /\ pc' = [pc EXCEPT ![c] = "adopt"]
              /\ \E g \in Refunds : gid' = [gid EXCEPT ![c] = g]
    BY <2>0, <1>15 DEF LookUp
  <2>2. LocalsTyped'
    BY <1>0, <1>b, <1>c, <2>l DEF LocalsTyped, Labels
  <2>3. ToSend(c) \/ ToAdopt(c) \/ Ends(c)
    BY <1>0, <1>b, <2>0, <1>15
    DEF LookUp, Done, Ends, ToSend, ToAdopt
  <2> QED
    BY <1>b, <2>1, <2>2, <2>3 DEF Turn, Moves
<1>16. ASSUME NEW c \in Callers, SendRefund(c) PROVE Goal
  <2>0. NextRefund \in Refunds /\ gateway \in [Refunds -> GatewayRefund]
    BY <1>16, NextFree DEF SendRefund, TypeInv, GatewayTyped
  <2>m. gateway'[NextRefund].request = req[c]
    <3> HIDE DEF NextRefund
    <3> QED
      BY <1>16, <2>0 DEF SendRefund, GatewayRefund
  <2>1. \A v \in Workers \ {c} : Stays(v)
    BY <1>0, <1>16 DEF SendRefund, Done
  <2>2. LocalsTyped'
    BY <1>0, <1>a, <1>b, <1>c, <2>0, <2>m, <1>16
    DEF SendRefund, Done, LocalsTyped, Labels, NoRequest
  <2>3. ToAdopt(c) \/ ToFail(c) \/ Ends(c)
    BY <1>0, <1>b, <2>0, <2>m, <1>16
    DEF SendRefund, Done, Ends, ToAdopt, ToFail
  <2> QED
    BY <1>b, <2>1, <2>2, <2>3 DEF Turn, Moves
<1>17. ASSUME NEW c \in Callers, SendFails(c) PROVE Goal
  <2>1. \A v \in Workers \ {c} : Stays(v)
    BY <1>0, <1>17 DEF SendFails, Done
  <2>2. LocalsTyped'
    BY <1>0, <1>a, <1>b, <1>c, <1>17
    DEF SendFails, Done, LocalsTyped, Labels, NoRequest
  <2>3. ToFail(c) \/ Ends(c)
    BY <1>0, <1>b, <1>17
    DEF SendFails, Done, Ends, ToFail
  <2> QED
    BY <1>b, <2>1, <2>2, <2>3 DEF Turn, Moves
<1>18. ASSUME NEW c \in Callers, MarkFailed(c) PROVE Goal
  <2>1. \A v \in Workers \ {c} : Stays(v)
    BY <1>0, <1>18 DEF MarkFailed, Done
  <2>2. LocalsTyped'
    BY <1>0, <1>a, <1>b, <1>c, <1>18
    DEF MarkFailed, Done, LocalsTyped, Labels, NoRequest
  <2>3. Ends(c)
    BY <1>0, <1>b, <1>18
    DEF MarkFailed, Done, Ends
  <2> QED
    BY <1>b, <2>1, <2>2, <2>3 DEF Turn, Moves
<1>19. ASSUME NEW c \in Callers, Adopt(c) PROVE Goal
  <2>1. \A v \in Workers \ {c} : Stays(v)
    BY <1>0, <1>19 DEF Adopt, Done
  <2>2. LocalsTyped'
    BY <1>0, <1>a, <1>b, <1>c, <1>19
    DEF Adopt, Done, LocalsTyped, Labels, NoRequest
  <2>3. Ends(c)
    BY <1>0, <1>b, <1>19
    DEF Adopt, Done, Ends
  <2> QED
    BY <1>b, <2>1, <2>2, <2>3 DEF Turn, Moves
<1>20. ASSUME NEW c \in Callers, OpenLeg(c) PROVE Goal
  <2>0. pc'[c] = "move" => pc[c] = "leg" /\ UNCHANGED locals
    BY <1>0, <1>b, <1>20 DEF OpenLeg, Done
  <2>l. Done(c) \/ (Goto(c, "move") /\ UNCHANGED locals)
    BY <1>20 DEF OpenLeg
  <2>1. \A v \in Workers \ {c} : Stays(v)
    BY <1>0, <2>l DEF Done
  <2>2. LocalsTyped'
    <3>1. CASE Done(c)
      BY <1>0, <1>a, <1>b, <3>1 DEF Done, LocalsTyped, Labels, NoRequest
    <3>2. CASE ~Done(c)
      BY <1>0, <1>b, <1>c, <2>0, <2>l, <3>2 DEF LocalsTyped, Labels
    <3> QED
      BY <3>1, <3>2
  <2>3. ToMove(c) \/ Ends(c)
    BY <1>0, <1>b, <2>0, <1>20
    DEF OpenLeg, Done, Ends, ToMove
  <2> QED
    BY <1>b, <2>1, <2>2, <2>3 DEF Turn, Moves
<1>21. ASSUME NEW c \in Callers, MoveTransfer(c) PROVE Goal
  <2>1. \A v \in Workers \ {c} : Stays(v)
    BY <1>0, <1>21 DEF MoveTransfer, Done
  <2>2. LocalsTyped'
    BY <1>0, <1>a, <1>b, <1>c, <1>21
    DEF MoveTransfer, Done, LocalsTyped, Labels, NoRequest
  <2>3. Ends(c)
    BY <1>0, <1>b, <1>21
    DEF MoveTransfer, Done, Ends
  <2> QED
    BY <1>b, <2>1, <2>2, <2>3 DEF Turn, Moves
<1>22. ASSUME NEW c \in Callers, ConfirmLeg(c) PROVE Goal
  <2>1. \A v \in Workers \ {c} : Stays(v)
    BY <1>0, <1>22 DEF ConfirmLeg, Done
  <2>l. \/ Done(c)
        \/ UNCHANGED locals /\ pc' = [pc EXCEPT ![c] = "total"]
    BY <1>22 DEF ConfirmLeg
  <2>2. LocalsTyped'
    BY <1>b, <1>d, <1>e, <2>l DEF Labels
  <2>3. ToTotal(c) \/ Ends(c)
    BY <1>0, <1>b, <1>22
    DEF ConfirmLeg, Done, Ends, ToTotal
  <2> QED
    BY <1>b, <2>1, <2>2, <2>3 DEF Turn, Moves
<1>23. ASSUME NEW c \in Callers, AddTransfer(c) PROVE Goal
  <2>0. refunded + amount[req[c]] \in Nat
    BY <1>23, <1>b, KnowsRequest DEF AddTransfer, WorksOn, TypeInv, BooksTyped
  <2>1. \A v \in Workers \ {c} : Stays(v)
    BY <1>0, <1>23 DEF AddTransfer, Done
  <2>2. LocalsTyped'
    BY <1>0, <1>a, <1>b, <1>c, <2>0, <1>23
    DEF AddTransfer, Done, LocalsTyped, Labels, NoRequest
  <2>3. Added(c) \/ Ends(c)
    BY <1>0, <1>b, <2>0, <1>23
    DEF AddTransfer, Done, Ends, Added
  <2> QED
    BY <1>b, <2>1, <2>2, <2>3 DEF Turn, Moves
<1>24. ASSUME NEW c \in Callers, BounceLeg(c) PROVE Goal
  <2>1. \A v \in Workers \ {c} : Stays(v)
    BY <1>0, <1>24 DEF BounceLeg, Done
  <2>2. LocalsTyped'
    BY <1>0, <1>a, <1>b, <1>c, <1>24
    DEF BounceLeg, Done, LocalsTyped, Labels, NoRequest
  <2>3. ToUnpaid(c) \/ Ends(c)
    BY <1>0, <1>b, <1>24
    DEF BounceLeg, Done, Ends, ToUnpaid
  <2> QED
    BY <1>b, <2>1, <2>2, <2>3 DEF Turn, Moves
<1>25. ASSUME NEW c \in Callers, FailTransfer(c) PROVE Goal
  <2>1. \A v \in Workers \ {c} : Stays(v)
    BY <1>0, <1>25 DEF FailTransfer, Done
  <2>2. LocalsTyped'
    BY <1>0, <1>a, <1>b, <1>c, <1>25
    DEF FailTransfer, Done, LocalsTyped, Labels, NoRequest
  <2>3. Ends(c)
    BY <1>0, <1>b, <1>25
    DEF FailTransfer, Done, Ends
  <2> QED
    BY <1>b, <2>1, <2>2, <2>3 DEF Turn, Moves
<1>26. ASSUME NEW w \in Workers, RaiseTotal(w) PROVE Goal
  <2>1. \A v \in Workers \ {w} : Stays(v)
    BY <1>0, <1>26 DEF RaiseTotal, Done
  <2>2. LocalsTyped'
    BY <1>0, <1>a, <1>b, <1>c, <1>26
    DEF RaiseTotal, Done, LocalsTyped, Labels, NoRequest
  <2>3. Raised(w) \/ Ends(w)
    BY <1>0, <1>b, <1>26
    DEF RaiseTotal, Done, Ends, Raised
  <2> QED
    BY <1>b, <2>1, <2>2, <2>3 DEF Turn, Moves
<1>27. ASSUME NEW w \in Workers, CloseCompleted(w) PROVE Goal
  <2>1. \A v \in Workers \ {w} : Stays(v)
    BY <1>0, <1>27 DEF CloseCompleted, Done
  <2>2. LocalsTyped'
    BY <1>0, <1>a, <1>b, <1>c, <1>27
    DEF CloseCompleted, Done, LocalsTyped, Labels, NoRequest
  <2>3. Completed(w) \/ Ends(w)
    BY <1>0, <1>b, <1>27
    DEF CloseCompleted, Done, Ends, Completed, SetStatus
  <2> QED
    BY <1>b, <2>1, <2>2, <2>3 DEF Turn, Moves
<1>28. ASSUME NEW w \in Workers, AlreadyCompleted(w) PROVE Goal
  <2>1. \A v \in Workers \ {w} : Stays(v)
    BY <1>0, <1>28 DEF AlreadyCompleted, Done
  <2>2. LocalsTyped'
    BY <1>0, <1>a, <1>b, <1>c, <1>28
    DEF AlreadyCompleted, Done, LocalsTyped, Labels, NoRequest
  <2>3. Ends(w)
    BY <1>0, <1>b, <1>28
    DEF AlreadyCompleted, Done, Ends
  <2> QED
    BY <1>b, <2>1, <2>2, <2>3 DEF Turn, Moves
<1>29. ASSUME NEW w \in Workers, ApplyTotal(w) PROVE Goal
  <2>1. \A v \in Workers \ {w} : Stays(v)
    BY <1>0, <1>29 DEF ApplyTotal, Done
  <2>2. LocalsTyped'
    BY <1>0, <1>a, <1>b, <1>c, <1>29
    DEF ApplyTotal, Done, LocalsTyped, Labels, NoRequest
  <2>3. Applied(w) \/ Ends(w)
    BY <1>0, <1>b, <1>29
    DEF ApplyTotal, Done, Ends, Applied
  <2> QED
    BY <1>b, <2>1, <2>2, <2>3 DEF Turn, Moves
<1>30. ASSUME NEW w \in Workers, ReadBack(w) PROVE Goal
  <2>1. \A v \in Workers \ {w} : Stays(v)
    BY <1>0, <1>30 DEF ReadBack, Done
  <2>2. LocalsTyped'
    BY <1>0, <1>a, <1>b, <1>c, <1>30
    DEF ReadBack, Done, LocalsTyped, Labels, NoRequest
  <2>3. Back(w) \/ Ends(w)
    BY <1>0, <1>b, <1>30
    DEF ReadBack, Done, Ends, Back, FullyRefunded
  <2> QED
    BY <1>b, <2>1, <2>2, <2>3 DEF Turn, Moves
<1>31. ASSUME NEW w \in Workers, RefundClaim(w) PROVE Goal
  <2>1. \A v \in Workers \ {w} : Stays(v)
    BY <1>0, <1>31 DEF RefundClaim, Done
  <2>2. LocalsTyped'
    BY <1>0, <1>a, <1>b, <1>c, <1>31
    DEF RefundClaim, Done, LocalsTyped, Labels, NoRequest
  <2>3. Undoes(w) \/ Ends(w)
    BY <1>0, <1>b, <1>31
    DEF RefundClaim, Done, Ends, Undoes
  <2> QED
    BY <1>b, <2>1, <2>2, <2>3 DEF Turn, Moves
<1>32. ASSUME NEW w \in Workers, ReverseUsage(w) PROVE Goal
  <2>1. \A v \in Workers \ {w} : Stays(v)
    BY <1>0, <1>32 DEF ReverseUsage, Done
  <2>2. LocalsTyped'
    BY <1>0, <1>a, <1>b, <1>c, <1>32
    DEF ReverseUsage, Done, LocalsTyped, Labels, NoRequest
  <2>3. Undoes(w) \/ Ends(w)
    BY <1>0, <1>b, <1>32
    DEF ReverseUsage, Done, Ends, Undoes
  <2> QED
    BY <1>b, <2>1, <2>2, <2>3 DEF Turn, Moves
<1>33. ASSUME NEW w \in Workers, PostRefund(w) PROVE Goal
  <2>1. \A v \in Workers \ {w} : Stays(v)
    BY <1>0, <1>33 DEF PostRefund, Done
  <2>2. LocalsTyped'
    BY <1>0, <1>a, <1>b, <1>c, <1>33
    DEF PostRefund, Done, LocalsTyped, Labels, NoRequest
  <2>3. Ends(w)
    BY <1>0, <1>b, <1>33
    DEF PostRefund, Done, Ends
  <2> QED
    BY <1>b, <2>1, <2>2, <2>3 DEF Turn, Moves
<1>34. ASSUME NEW w \in Workers, LookAtHold(w) PROVE Goal
  <2>1. \A v \in Workers \ {w} : Stays(v)
    BY <1>0, <1>34 DEF LookAtHold, Released, Done
  <2>l. \/ Done(w)
        \/ \E l \in {"count", "book"} : UNCHANGED locals /\ pc' = [pc EXCEPT ![w] = l]
    BY <1>34 DEF LookAtHold, Released
  <2>2. LocalsTyped'
    BY <1>b, <1>d, <1>e, <2>l DEF Labels
  <2>3. Looks(w) \/ Ends(w)
    BY <1>0, <1>b, <1>34
    DEF LookAtHold, Released, Done, Ends, Looks
  <2> QED
    BY <1>b, <2>1, <2>2, <2>3 DEF Turn, Moves
<1>35. ASSUME NEW w \in Workers, CountOthers(w) PROVE Goal
  <2>1. \A v \in Workers \ {w} : Stays(v)
    BY <1>0, <1>35 DEF CountOthers, Released, Done
  <2>l. \/ Done(w)
        \/ \E l \in {"unhold", "book"} : UNCHANGED locals /\ pc' = [pc EXCEPT ![w] = l]
    BY <1>35 DEF CountOthers, Released
  <2>2. LocalsTyped'
    BY <1>b, <1>d, <1>e, <2>l DEF Labels
  <2>3. Looks(w) \/ Ends(w)
    BY <1>0, <1>b, <1>35
    DEF CountOthers, Released, Done, Ends, Looks
  <2> QED
    BY <1>b, <2>1, <2>2, <2>3 DEF Turn, Moves
<1>36. ASSUME NEW w \in Workers, Unhold(w) PROVE Goal
  <2>1. \A v \in Workers \ {w} : Stays(v)
    BY <1>0, <1>36 DEF Unhold, Released, Done
  <2>l. \/ Done(w)
        \/ UNCHANGED locals /\ pc' = [pc EXCEPT ![w] = "book"]
    BY <1>36 DEF Unhold, Released
  <2>2. LocalsTyped'
    BY <1>b, <1>d, <1>e, <2>l DEF Labels
  <2>3. Looks(w) \/ Ends(w)
    BY <1>0, <1>b, <1>36
    DEF Unhold, Released, Done, Ends, Looks
  <2> QED
    BY <1>b, <2>1, <2>2, <2>3 DEF Turn, Moves
<1>37. ASSUME NEW w \in Workers, Crash(w) PROVE Goal
  <2>1. \A v \in Workers \ {w} : Stays(v)
    BY <1>0, <1>37 DEF Crash, Done
  <2>2. LocalsTyped'
    BY <1>0, <1>a, <1>b, <1>c, <1>37
    DEF Crash, Done, LocalsTyped, Labels, NoRequest
  <2>3. Ends(w)
    BY <1>0, <1>b, <1>37
    DEF Crash, Done, Ends
  <2> QED
    BY <1>b, <2>1, <2>2, <2>3 DEF Turn, Moves
<1>38. ASSUME StartSweep PROVE Goal
  <2>1. \A v \in Workers \ {Sweeper} : Stays(v)
    BY <1>0, <1>38 DEF StartSweep, Done
  <2>2. LocalsTyped'
    BY <1>0, <1>a, <1>b, <1>c, <1>38
    DEF StartSweep, Done, LocalsTyped, Labels, NoRequest
  <2>3. Sweeps(Sweeper) \/ Ends(Sweeper)
    BY <1>0, <1>b, <1>38
    DEF StartSweep, Done, Ends, Sweeps
  <2> QED
    BY <1>b, <2>1, <2>2, <2>3 DEF Turn, Moves
<1>39. ASSUME RepairHold PROVE Goal
  <2>1. \A v \in Workers \ {Sweeper} : Stays(v)
    BY <1>0, <1>39 DEF RepairHold, Done
  <2>2. LocalsTyped'
    BY <1>0, <1>a, <1>b, <1>c, <1>39
    DEF RepairHold, Done, LocalsTyped, Labels, NoRequest
  <2>3. Sweeps(Sweeper) \/ Ends(Sweeper)
    BY <1>0, <1>b, <1>39
    DEF RepairHold, Done, Ends, Sweeps
  <2> QED
    BY <1>b, <2>1, <2>2, <2>3 DEF Turn, Moves
<1>40. ASSUME PickInFlight PROVE Goal
  <2>0. InFlight \subseteq Requests /\ \A r \in Requests : linked[r] \in 0..Max({MaxRefunds, MaxLegs})
    BY MaxOfTwo, ConstantsAssumption DEF InFlight, TypeInv, RecordsTyped
  <2>l. \/ Done(Sweeper)
        \/ /\ Goto(Sweeper, "fetch") /\ UNCHANGED <<sum, landed>>
           /\ \E r \in Requests : /\ req' = [req EXCEPT ![Sweeper] = r]
                                 /\ gid' = [gid EXCEPT ![Sweeper] = linked[r]]
    BY <1>40, <2>0 DEF PickInFlight
  <2>1. \A v \in Workers \ {Sweeper} : Stays(v)
    BY <1>0, <2>l DEF Done
  <2>2. LocalsTyped'
    <3>1. CASE Done(Sweeper)
      BY <1>0, <1>a, <1>b, <3>1 DEF Done, LocalsTyped, Labels, NoRequest
    <3>2. CASE ~Done(Sweeper)
      BY <1>0, <1>b, <1>c, <2>0, <2>l, <3>2 DEF LocalsTyped, Labels
    <3> QED
      BY <3>1, <3>2
  <2>3. ToFetch(Sweeper) \/ Ends(Sweeper)
    BY <1>0, <1>b, <2>0, <1>40
    DEF PickInFlight, Done, Ends, ToFetch
  <2> QED
    BY <1>b, <2>1, <2>2, <2>3 DEF Turn, Moves
<1>41. ASSUME FetchRefund PROVE Goal
  <2>0. Sent \in Nat
    BY AmountNat DEF Sent, GatewayIs, TypeInv
  <2>l. \/ Done(Sweeper)
        \/ Goto(Sweeper, "bounced") /\ UNCHANGED locals
        \/ /\ Goto(Sweeper, "raise") /\ UNCHANGED <<req, gid, landed>>
           /\ \E n \in Nat : sum' = [sum EXCEPT ![Sweeper] = n]
    BY <1>41, <2>0 DEF FetchRefund
  <2>1. \A v \in Workers \ {Sweeper} : Stays(v)
    BY <1>0, <2>l DEF Done
  <2>2. LocalsTyped'
    <3>1. CASE Done(Sweeper)
      BY <1>0, <1>a, <1>b, <3>1 DEF Done, LocalsTyped, Labels, NoRequest
    <3>2. CASE ~Done(Sweeper)
      BY <1>0, <1>b, <1>c, <2>0, <2>l, <3>2 DEF LocalsTyped, Labels
    <3> QED
      BY <3>1, <3>2
  <2>3. Fetched(Sweeper) \/ Bounced(Sweeper) \/ Ends(Sweeper)
    BY <1>0, <1>b, <2>0, <1>41
    DEF FetchRefund, Done, Ends, Fetched, Bounced
  <2> QED
    BY <1>b, <2>1, <2>2, <2>3 DEF Turn, Moves
<1>42. ASSUME SweepFailed PROVE Goal
  <2>1. \A v \in Workers \ {Sweeper} : Stays(v)
    BY <1>0, <1>42 DEF SweepFailed, Done
  <2>2. LocalsTyped'
    BY <1>0, <1>a, <1>b, <1>c, <1>42
    DEF SweepFailed, Done, LocalsTyped, Labels, NoRequest
  <2>3. Ends(Sweeper)
    BY <1>0, <1>b, <1>42
    DEF SweepFailed, Done, Ends
  <2> QED
    BY <1>b, <2>1, <2>2, <2>3 DEF Turn, Moves
<1>43. ASSUME EscalateStale PROVE Goal
  BY <1>43 DEF EscalateStale, LocalsKept
<1>44. ASSUME ApproveAsAdmin PROVE Goal
  BY <1>44 DEF ApproveAsAdmin, LocalsKept
<1>45. ASSUME RefundByHand PROVE Goal
  BY <1>45 DEF RefundByHand, LocalsKept
<1>46. ASSUME RequestBankDetails PROVE Goal
  BY <1>46 DEF RequestBankDetails, LocalsKept
<1>47. ASSUME AttachBank PROVE Goal
  BY <1>47 DEF AttachBank, LocalsKept
<1>48. ASSUME ReleaseStaleHold PROVE Goal
  BY <1>48 DEF ReleaseStaleHold, LocalsKept
<1>49. ASSUME NEW g \in Refunds, Process(g) PROVE Goal
  BY <1>49 DEF Process, LocalsKept
<1>50. ASSUME NEW g \in Refunds, Bounce(g) PROVE Goal
  BY <1>50 DEF Bounce, LocalsKept
<1>51. ASSUME NEW g \in Refunds, CreatedEvent(g) PROVE Goal
  BY <1>51 DEF CreatedEvent, LocalsKept
<1>52. ASSUME NEW g \in Refunds, FailedEvent(g) PROVE Goal
  BY <1>52 DEF FailedEvent, LocalsKept
<1>53. ASSUME NEW g \in Refunds, ByHandEvent(g) PROVE Goal
  BY <1>53 DEF ByHandEvent, LocalsKept
<1>54. CASE UNCHANGED vars
  BY <1>54 DEF vars, LocalsKept
<1> QED
  BY <1>1, <1>2, <1>3, <1>4, <1>5, <1>6, <1>7, <1>8, <1>9, <1>10, <1>11, <1>12, <1>13,
     <1>14, <1>15, <1>16, <1>17, <1>18, <1>19, <1>20, <1>21, <1>22, <1>23, <1>24, <1>25,
     <1>26, <1>27, <1>28, <1>29, <1>30, <1>31, <1>32, <1>33, <1>34, <1>35, <1>36, <1>37,
     <1>38, <1>39, <1>40, <1>41, <1>42, <1>43, <1>44, <1>45, <1>46, <1>47, <1>48, <1>49,
     <1>50, <1>51, <1>52, <1>53, <1>54
  DEF Next, Begin, Step, Land, Sweep, Outside, Workers

-----------------------------------------------------------------------------
(* Types, and what a worker knows: the theorem.                            *)

\* A request keeps the transfers it has.
LEMMA LegsGrow ==
  ASSUME TypeInv, [Next]_vars, NEW r \in Requests
  PROVE  DOMAIN legs[r] \subseteq DOMAIN legs'[r]
<1> DEFINE Goal == DOMAIN legs[r] \subseteq DOMAIN legs'[r]
<1>1. ASSUME NEW c \in Callers, OpenLeg(c), legs' # legs PROVE Goal
  <2>1. Len(legs[r]) \in Nat /\ DOMAIN legs[r] = 1..Len(legs[r])
    BY DEF TypeInv, LegsTyped
  <2> QED
    BY <1>1, <2>1, LegOpens
<1>2. ASSUME NEW c \in Callers, NEW s \in LegStatuses, MoveLeg(c, s),
             pc[c] \in {"confirm", "bounce"}
      PROVE  Goal
  BY <1>2, LegMoves
<1>3. \A c \in Callers : ConfirmLeg(c) \/ BounceLeg(c) => Goal
  BY <1>2 DEF ConfirmLeg, BounceLeg, LegStatuses
<1> QED
  BY <1>1, <1>3, Writers DEF Written, WriteLegs

\* A refund stays with the request it was made for.
LEMMA RefundStays ==
  ASSUME TypeInv, [Next]_vars, NEW g \in Refunds, gateway[g].request # NoRequest
  PROVE  gateway'[g].request = gateway[g].request
BY GatewayMoves DEF GatewayMove, TypeInv, GatewayTyped

\* A worker keeps knowing its request, and what it works with.
LEMMA KnowsStep == TypeInv /\ [Next]_vars => KnowsInv'
<1> SUFFICES ASSUME TypeInv, [Next]_vars PROVE KnowsInv'
  OBVIOUS
<1> USE DEF NoRequest
<1>1. \A r \in Requests : status[r] # "NONE" => status'[r] # "NONE"
  BY FiledStays
<1>2. \A g \in Refunds : gateway[g].request \in Requests => gateway'[g].request = gateway[g].request
  BY RefundStays DEF Requests
<1>3. \A r \in Requests : DOMAIN legs[r] \subseteq DOMAIN legs'[r]
  BY LegsGrow
<1>4. \A r \in Requests : linked[r] # 0 => linked[r] \in Refunds /\ gateway[linked[r]].request = r
  BY ConstantsAssumption DEF TypeInv, KnowsInv, RecordsTyped, Refunds
<1>5. ASSUME NEW r \in Requests, linked'[r] # 0 PROVE gateway'[linked'[r]].request = r
  <2>1. CASE linked' = linked
    BY <1>2, <1>4, <1>5, <2>1
  <2>2. ASSUME NEW c \in Callers, Adopt(c) PROVE gateway'[linked'[r]].request = r
    <3>1. /\ req[c] \in Requests /\ gid[c] \in Refunds /\ gateway[gid[c]].request = req[c]
          /\ linked' = linked \/ linked' = [linked EXCEPT ![req[c]] = gid[c]]
      BY <2>2 DEF Adopt, TypeInv, KnowsInv, Knows, WorksOn, Workers
    <3> QED
      BY <1>2, <1>4, <1>5, <3>1 DEF TypeInv, RecordsTyped
  <2>3. ASSUME NEW g \in Refunds, CreatedEvent(g) PROVE gateway'[linked'[r]].request = r
    <3>1. /\ gateway[g].request \in Requests
          /\ linked' = [linked EXCEPT ![gateway[g].request] = g]
      BY <2>3 DEF CreatedEvent, TypeInv, GatewayTyped, GatewayRefund, Requests
    <3> QED
      BY <1>2, <1>4, <1>5, <3>1 DEF TypeInv, RecordsTyped
  <2>4. ASSUME NEW c \in Callers,
               CreateRequest(c) \/ ApproveAsVendor(c) \/ RejectAsVendor(c) \/ RejectAsAdmin(c)
                 \/ CancelRefund(c) \/ ClaimExecution(c) \/ MarkFailed(c) \/ MoveTransfer(c)
                 \/ FailTransfer(c)
        PROVE  linked' = linked
    BY <2>4 DEF CreateRequest, ApproveAsVendor, RejectAsVendor, RejectAsAdmin, CancelRefund, Close,
                ClaimExecution, MarkFailed, MoveTransfer, FailTransfer, request
  <2>5. EscalateStale \/ ApproveAsAdmin \/ RequestBankDetails \/ AttachBank \/ SweepFailed
          => linked' = linked
    BY DEF EscalateStale, ApproveAsAdmin, RequestBankDetails, AttachBank, SweepFailed
  <2>6. \A g \in Refunds : FailedEvent(g) => linked' = linked
    BY DEF FailedEvent
  <2>7. \A w \in Workers : CloseCompleted(w) => linked' = linked
    BY DEF CloseCompleted
  <2> QED
    BY <2>1, <2>2, <2>3, <2>4, <2>5, <2>6, <2>7, Writers DEF Written, WriteRequests, RequestsKept
<1>6. ASSUME NEW w \in Workers, Stays(w) PROVE Knows(w)'
  <2>1. Knows(w) /\ pc'[w] = pc[w] /\ Keeps(w)
    BY <1>6 DEF Stays, TypeInv, KnowsInv
  <2>2. WorksOn(w)' = WorksOn(w) /\ Paying(w)' = Paying(w)
    BY <2>1 DEF WorksOn, Paying
  <2>3. /\ pc[w] \in {"adopt", "fetch"} => gateway'[gid[w]].request = req[w]
        /\ pc[w] \in {"confirm", "bounce"} => gid[w] \in DOMAIN legs'[req[w]]
    BY <1>2, <1>3, <2>1 DEF Knows, WorksOn
  <2> QED
    BY <1>1, <2>1, <2>2, <2>3 DEF Knows, Keeps
<1>7. ASSUME NEW w \in Workers, Turn(w) PROVE Knows(w)'
  <2>0. Knows(w) /\ Moves(w)
    BY <1>7 DEF Turn, TypeInv, KnowsInv
  <2>1. CASE Stays(w)
    BY <1>6, <2>1
  <2>2. CASE ToTransfer(w)
    <3>1. PICK r \in Requests :
             /\ Takes(w, "confirm", r) \/ Takes(w, "bounce", r)
             /\ gid'[w] \in Legs(r, "INITIATED")
      BY <2>2 DEF ToTransfer
    <3> QED
      BY <1>1, <1>3, <2>0, <3>1 DEF Takes, Goes, Knows, WorksOn, Paying, Legs
  <2>3. CASE ToAdopt(w)
    BY <1>1, <2>0, <2>3 DEF ToAdopt, Knows, WorksOn, Paying
  <2>4. CASE ToFetch(w)
    <3>1. req'[w] \in Requests /\ status[req'[w]] = "PROCESSING" /\ linked[req'[w]] # 0
      BY <2>4 DEF ToFetch, InFlight
    <3> QED
      BY <1>1, <1>2, <1>4, <2>0, <2>4, <3>1 DEF ToFetch, Goes, Knows, WorksOn, Paying
  <2>5. CASE Ends(w) \/ ToCreate(w) \/ ToHold(w) \/ Sweeps(w)
    BY <2>0, <2>5 DEF Ends, ToCreate, ToHold, Sweeps, Goes, Keeps, Knows, WorksOn, Paying
  <2>6. CASE ToApprove(w) \/ ToLook(w) \/ ToClaim(w) \/ ToLeg(w) \/ ToLand(w)
    BY <1>1, <2>0, <2>6
    DEF ToApprove, ToLook, ToClaim, ToLeg, ToLand, Takes, Goes, Knows, WorksOn, Paying
  <2>7. CASE Claimed(w) \/ ToSend(w) \/ ToFail(w) \/ ToMove(w) \/ ToTotal(w) \/ ToUnpaid(w) \/ Added(w)
    BY <1>1, <2>0, <2>7
    DEF Claimed, ToSend, ToFail, ToMove, ToTotal, ToUnpaid, Added, Goes, Keeps, Knows, WorksOn, Paying
  <2>8. CASE Raised(w) \/ Completed(w) \/ Applied(w) \/ Back(w) \/ Undoes(w) \/ Looks(w)
    BY <1>1, <2>0, <2>8
    DEF Raised, Completed, Applied, Back, Undoes, Looks, Goes, Keeps, Knows, WorksOn, Paying
  <2>9. CASE Fetched(w) \/ Bounced(w)
    BY <1>1, <2>0, <2>9 DEF Fetched, Bounced, Goes, Keeps, Knows, WorksOn, Paying
  <2> QED
    BY <2>0, <2>1, <2>2, <2>3, <2>4, <2>5, <2>6, <2>7, <2>8, <2>9 DEF Moves
<1>8. \A w \in Workers : Knows(w)'
  BY <1>6, <1>7, Turns DEF Turn, LocalsKept, Stays, Keeps
<1> QED
  BY <1>5, <1>8 DEF KnowsInv

\* A step keeps the locals in their types.
LEMMA LocalsStep == TypeInv /\ [Next]_vars => LocalsTyped'
BY Turns DEF Turn, LocalsKept, TypeInv, LocalsTyped

\* The types hold, with what each worker knows of its request.
THEOREM TypeInvariance == Spec => []TypeInv
<1>1. TypeInv /\ [Next]_vars => TypeInv'
  BY RecordsStep, LegsStep, BooksTypedStep, GatewayStep, LocalsStep, KnowsStep DEF TypeInv
<1> QED
  BY <1>1, TypeInit, PTL DEF Spec

\* Every variable keeps its type: in particular a request has an amount exactly
\* when it was filed, and only transfers of requests for a bank account exist.
THEOREM TypeCorrect == Spec => []TypeOK
BY TypeInvariance, TypeInvIsTypeOK, PTL

-----------------------------------------------------------------------------
(* The total that went back only rises, and the flag follows it.           *)

FullInv == full => refunded >= Paid

\* What a step does to both.
LEMMA ReturnsMove ==
  ASSUME TypeInv, [Next]_vars
  PROVE  /\ refunded \in Nat /\ refunded' \in Nat /\ refunded' >= refunded
         /\ \/ full' = full
            \/ full' = (refunded' >= Paid)
<1> DEFINE Goal == /\ refunded' \in Nat /\ refunded' >= refunded
                   /\ \/ full' = full
                      \/ full' = (refunded' >= Paid)
<1>1. refunded \in Nat /\ refunded >= refunded
  BY DEF TypeInv, BooksTyped
<1>2. ASSUME NEW g \in Refunds, ByHandEvent(g) PROVE Goal
  <2>1. gateway[g].total \in Nat
    BY DEF TypeInv, GatewayTyped, GatewayRefund
  <2> QED
    BY <1>1, <1>2, <2>1, MaxOfTwo DEF ByHandEvent, FlagOf
<1>3. ASSUME NEW w \in Workers, RaiseTotal(w) \/ ApplyTotal(w) PROVE Goal
  <2>1. Cumulative(w) \in Nat
    BY <1>3, CumulativeNat DEF RaiseTotal, ApplyTotal, WorksOn
  <2>2. refunded' = Max({refunded, Cumulative(w)})
    BY <1>3 DEF RaiseTotal, ApplyTotal
  <2>3. full' = full \/ full' = (refunded' >= Paid)
    BY <1>3, <2>2 DEF RaiseTotal, ApplyTotal, FlagOf
  <2> QED
    BY <1>1, <2>1, <2>2, <2>3, MaxOfTwo
<1>4. ReturnsKept => Goal
  BY <1>1 DEF ReturnsKept
<1> QED
  BY <1>1, <1>2, <1>3, <1>4, Writers DEF Written, WriteReturns

\* In numbers.
LEMMA ReturnsRise ==
  ASSUME TypeInv, [Next]_vars
  PROVE  refunded \in Nat /\ refunded' \in Nat /\ refunded' >= refunded
BY ReturnsMove

\* A payment is marked as refunded only when all of it went back.
THEOREM FullInvariance == Spec => []FullInv
<1>1. Init => FullInv
  BY DEF Init, FullInv
<1>2. TypeInv /\ FullInv /\ [Next]_vars => FullInv'
  <2> SUFFICES ASSUME TypeInv, FullInv, [Next]_vars, full' PROVE refunded' >= Paid
    BY DEF FullInv
  <2>1. CASE full' = (refunded' >= Paid)
    BY <2>1
  <2>2. CASE full' = full
    <3>1. refunded >= Paid
      BY <2>2 DEF FullInv
    <3> QED
      BY <3>1, ReturnsRise, ConstantsAssumption
  <2> QED
    BY <2>1, <2>2, ReturnsMove
<1> QED
  BY <1>1, <1>2, TypeInvariance, PTL DEF Spec

\* The mark, once set, stays.
LEMMA FullStays ==
  ASSUME TypeInv, FullInv, [Next]_vars, full
  PROVE  full'
<1>1. CASE full' = full
  BY <1>1
<1>2. CASE full' = (refunded' >= Paid)
  <2>1. refunded >= Paid
    BY DEF FullInv
  <2>2. refunded' >= Paid
    BY <2>1, ReturnsRise, ConstantsAssumption
  <2> QED
    BY <1>2, <2>2
<1> QED
  BY <1>1, <1>2, ReturnsMove

\* FullIsFinal: no step takes the mark of a full refund away, in whatever order
\* the events of its refunds come.
THEOREM FullIsFinalCorrect == Spec => FullIsFinal
<1>1. TypeInv /\ FullInv /\ [Next]_vars => [full => full']_vars
  BY FullStays
<1> QED
  BY <1>1, TypeInvariance, FullInvariance, PTL DEF Spec, FullIsFinal

-----------------------------------------------------------------------------
(* One request at a time is open.                                          *)

Opened(r) == status[r] \in OpenStatuses
OneOpen == \A r, s \in Requests : Opened(r) /\ Opened(s) => r = s

\* A step writes the status of one request.
LEMMA OneMoves ==
  ASSUME TypeInv, [Next]_vars,
         NEW r \in Requests, NEW s \in Requests,
         status'[r] # status[r], status'[s] # status[s]
  PROVE  r = s
<1>1. \A x, v : SetStatus(x, v) => r = x /\ s = x
  BY DEF TypeInv, RecordsTyped, SetStatus
<1>2. status' = status \/ \E x, v : SetStatus(x, v)
  <2>1. ASSUME NEW c \in Callers, CreateRequest(c) PROVE status' = status \/ \E x, v : SetStatus(x, v)
    BY <2>1 DEF CreateRequest, request
  <2>2. ASSUME NEW c \in Callers,
               ApproveAsVendor(c) \/ RejectAsVendor(c) \/ RejectAsAdmin(c)
                 \/ CancelRefund(c) \/ ClaimExecution(c) \/ MarkFailed(c) \/ Adopt(c)
                 \/ MoveTransfer(c) \/ FailTransfer(c)
        PROVE  status' = status \/ \E x, v : SetStatus(x, v)
    BY <2>2 DEF ApproveAsVendor, RejectAsVendor, RejectAsAdmin, CancelRefund, Close,
                ClaimExecution, MarkFailed, Adopt, MoveTransfer, FailTransfer, request
  <2>3. EscalateStale \/ ApproveAsAdmin \/ RequestBankDetails \/ AttachBank \/ SweepFailed
          => status' = status \/ \E x, v : SetStatus(x, v)
    BY DEF EscalateStale, ApproveAsAdmin, RequestBankDetails, AttachBank, SweepFailed
  <2>4. \A g \in Refunds : CreatedEvent(g) \/ FailedEvent(g) => \E x, v : SetStatus(x, v)
    BY DEF CreatedEvent, FailedEvent
  <2>5. \A w \in Workers : CloseCompleted(w) => \E x, v : SetStatus(x, v)
    BY DEF CloseCompleted
  <2> QED
    BY <2>1, <2>2, <2>3, <2>4, <2>5, Writers DEF Written, WriteRequests, RequestsKept
<1> QED
  BY <1>1, <1>2

\* No step opens a second request.
LEMMA OneOpenStep == TypeInv /\ OneOpen /\ [Next]_vars => OneOpen'
<1> SUFFICES ASSUME TypeInv, OneOpen, [Next]_vars,
                    NEW r \in Requests, NEW s \in Requests,
                    status'[r] \in OpenStatuses, status'[s] \in OpenStatuses, r # s
             PROVE  FALSE
  BY DEF OneOpen, Opened
<1>1. ASSUME NEW x \in Requests, NEW y \in Requests, x # y, status'[x] \in OpenStatuses,
             status[y] \in OpenStatuses
      PROVE  status'[x] = status[x]
  <2>1. StatusMove(x)
    BY StatusMoves
  <2>2. ~SomeOpen => FALSE
    BY <1>1 DEF SomeOpen
  <2>3. ~MayOpen(x)
    BY <1>1 DEF MayOpen
  <2>4. status[x] \notin OpenStatuses
    BY <1>1 DEF OneOpen, Opened
  <2>5. OpenStatuses \cap ClosedStatuses = {}
    BY DEF OpenStatuses, ClosedStatuses
  <2> QED
    BY <1>1, <2>1, <2>2, <2>3, <2>4, <2>5 DEF StatusMove, OpenStatuses, BankReady, Completable
<1>2. status'[r] = status[r] \/ status'[s] = status[s]
  BY OneMoves
<1> QED
  BY <1>1, <1>2 DEF OneOpen, Opened

\* A unique index keeps the requests of a payment one after the other.
THEOREM OneOpenInvariance == Spec => []OneOpen
<1>1. Init => OneOpen
  BY DEF Init, OneOpen, Opened, OpenStatuses
<1> QED
  BY <1>1, OneOpenStep, TypeInvariance, PTL DEF Spec

-----------------------------------------------------------------------------
(* What is on the books was returned.                                      *)

Money(r) == \/ \E g \in GatewayIs("PROCESSED") : gateway[g].request = r
            \/ Legs(r, "PAID") # {}

\* A transfer of a request is opened, arrives or bounces.
Opens(c, r) == /\ pc[c] = "leg" /\ pc'[c] = "move" /\ Legs(r, "INITIATED") = {}
               /\ \E n : Legs(r, "INITIATED")' = {n}
               /\ Legs(r, "PAID")' = Legs(r, "PAID")
Confirms(c, r) == /\ pc[c] = "confirm" /\ pc'[c] = "total" /\ gid[c] \in Legs(r, "INITIATED")
                  /\ Legs(r, "INITIATED")' = Legs(r, "INITIATED") \ {gid[c]}
                  /\ Legs(r, "PAID")' = Legs(r, "PAID") \cup {gid[c]}
Bounces(c, r) == /\ pc[c] = "bounce" /\ pc'[c] = "unpaid" /\ gid[c] \in Legs(r, "INITIATED")
                 /\ Legs(r, "INITIATED")' = Legs(r, "INITIATED") \ {gid[c]}
                 /\ Legs(r, "PAID")' = Legs(r, "PAID")
LegsMove(r) ==
  \/ Legs(r, "INITIATED")' = Legs(r, "INITIATED") /\ Legs(r, "PAID")' = Legs(r, "PAID")
  \/ status' = status /\ \E c \in Callers : /\ req[c] = r
                                            /\ Opens(c, r) \/ Confirms(c, r) \/ Bounces(c, r)

\* Every step moves the transfers of a request in one of those ways, or not at all.
LEMMA LegsMoves ==
  ASSUME TypeInv, [Next]_vars
  PROVE  \A r \in Requests : LegsMove(r)
<1> SUFFICES ASSUME NEW r \in Requests PROVE LegsMove(r)
  OBVIOUS
<1>1. CASE legs'[r] = legs[r]
  BY <1>1 DEF LegsMove, Legs
<1>2. ASSUME NEW c \in Callers, OpenLeg(c), legs'[r] # legs[r] PROVE LegsMove(r)
  <2>1. /\ req[c] = r /\ Legs(r, "INITIATED") = {} /\ pc'[c] = "move"
        /\ DOMAIN legs'[r] = 1..Len(legs[r]) + 1
        /\ \A n \in DOMAIN legs[r] : legs'[r][n] = legs[r][n]
        /\ legs'[r][Len(legs[r]) + 1] = "INITIATED"
    <3>1. legs' # legs
      BY <1>2
    <3>2. req[c] = r
      BY <1>2, <3>1, LegOpens
    <3>3. /\ Legs(req[c], "INITIATED") = {} /\ pc'[c] = "move"
          /\ DOMAIN legs'[req[c]] = 1..Len(legs[req[c]]) + 1
      BY <1>2, <3>1, LegOpens
    <3>4. /\ \A n \in DOMAIN legs[req[c]] : legs'[req[c]][n] = legs[req[c]][n]
          /\ legs'[req[c]][Len(legs[req[c]]) + 1] = "INITIATED"
      BY <1>2, <3>1, LegOpens
    <3> QED
      BY <3>2, <3>3, <3>4
  <2>2. Len(legs[r]) \in Nat /\ DOMAIN legs[r] = 1..Len(legs[r])
    BY DEF TypeInv, LegsTyped
  <2>3. DOMAIN legs'[r] = DOMAIN legs[r] \cup {Len(legs[r]) + 1}
    BY <2>1, <2>2
  <2>4. Legs(r, "INITIATED")' = {Len(legs[r]) + 1} /\ Legs(r, "PAID")' = Legs(r, "PAID")
    BY <2>1, <2>3 DEF Legs
  <2>5. pc[c] = "leg" /\ status' = status
    BY <1>2 DEF OpenLeg, request
  <2> QED
    BY <2>1, <2>4, <2>5 DEF LegsMove, Opens
<1>3. ASSUME NEW c \in Callers, NEW s \in LegStatuses, MoveLeg(c, s), InitiatedLeg(c),
             pc[c] \in {"confirm", "bounce"}, legs'[r] # legs[r]
      PROVE  /\ req[c] = r /\ gid[c] \in Legs(r, "INITIATED")
             /\ \A x : Legs(r, x)' = IF x = s THEN Legs(r, x) \cup {gid[c]}
                                             ELSE Legs(r, x) \ {gid[c]}
  <2>1. req[c] \in Requests /\ legs[req[c]] \in Seq(LegStatuses)
    BY <1>3, LegMoves DEF TypeInv, LegsTyped
  <2>2. legs' = [legs EXCEPT ![req[c]] = [legs[req[c]] EXCEPT ![gid[c]] = s]]
    BY <1>3, <2>1 DEF MoveLeg, TypeInv, LegsTyped
  <2>3. req[c] = r
    BY <1>3, <2>1, <2>2 DEF TypeInv, LegsTyped
  <2>4. gid[c] \in DOMAIN legs[r] /\ DOMAIN legs'[r] = DOMAIN legs[r]
    BY <1>3, <2>3, LegMoves
  <2>5. \A n \in DOMAIN legs[r] : legs'[r][n] = IF n = gid[c] THEN s ELSE legs[r][n]
    BY <1>3, <2>3, LegMoves
  <2>6. gid[c] \in Legs(r, "INITIATED")
    BY <1>3, <2>3, <2>4 DEF Legs, InitiatedLeg
  <2>7. \A x : Legs(r, x)' = IF x = s THEN Legs(r, x) \cup {gid[c]} ELSE Legs(r, x) \ {gid[c]}
    BY <2>4, <2>5 DEF Legs
  <2> QED
    BY <2>3, <2>6, <2>7
<1>4. ASSUME NEW c \in Callers, ConfirmLeg(c), legs'[r] # legs[r] PROVE LegsMove(r)
  <2>1. /\ pc[c] = "confirm" /\ InitiatedLeg(c) /\ MoveLeg(c, "PAID") /\ pc'[c] = "total"
        /\ status' = status
    BY <1>4 DEF ConfirmLeg, Goto, request, TypeInv, LocalsTyped, Workers
  <2> QED
    BY <1>3, <1>4, <2>1 DEF LegsMove, Confirms, LegStatuses
<1>5. ASSUME NEW c \in Callers, BounceLeg(c), legs'[r] # legs[r] PROVE LegsMove(r)
  <2>1. /\ pc[c] = "bounce" /\ InitiatedLeg(c) /\ MoveLeg(c, "FAILED") /\ pc'[c] = "unpaid"
        /\ status' = status
    BY <1>5 DEF BounceLeg, Goto, request, TypeInv, LocalsTyped, Workers
  <2>2. Legs(r, "PAID")' = Legs(r, "PAID") \ {gid[c]} /\ gid[c] \in Legs(r, "INITIATED")
    BY <1>3, <1>5, <2>1 DEF LegStatuses
  <2>3. Legs(r, "PAID")' = Legs(r, "PAID")
    BY <2>2 DEF Legs
  <2> QED
    BY <1>3, <1>5, <2>1, <2>3 DEF LegsMove, Bounces, LegStatuses
<1> QED
  BY <1>1, <1>2, <1>4, <1>5, Writers DEF Written, WriteLegs

\* Money that left for a request does not come back.
LEMMA MoneyStays ==
  ASSUME TypeInv, [Next]_vars, NEW r \in Requests, Money(r)
  PROVE  Money(r)'
<1>1. ASSUME NEW g \in GatewayIs("PROCESSED"), gateway[g].request = r PROVE Money(r)'
  <2>1. g \in Refunds /\ gateway[g].status = "PROCESSED"
    BY DEF GatewayIs
  <2>2. gateway'[g] = gateway[g]
    BY <2>1, GatewayMoves DEF GatewayMove
  <2> QED
    BY <1>1, <2>1, <2>2 DEF Money, GatewayIs
<1>2. CASE Legs(r, "PAID") # {}
  BY <1>2, LegsMoves DEF LegsMove, Opens, Confirms, Bounces, Money
<1> QED
  BY <1>1, <1>2 DEF Money

\* A worker that lands a request.
Landing(w) ==
  \/ pc[w] \in {"total", "raise", "close", "apply", "readback", "redeemed", "usage", "book"}
  \/ landed[w]

\* Who lands a request, and who closed or booked it, had the money of it returned.
LandedInv ==
  /\ \A w \in Workers : Landing(w) => Money(req[w])
  /\ \A r \in Requests : status[r] = "COMPLETED" \/ r \in ledger => Money(r)

\* The ledger is written for a request that was paid.
LEMMA LedgerMove ==
  ASSUME TypeInv, LandedInv, [Next]_vars, NEW r \in Requests, r \in ledger'
  PROVE  Money(r)
<1>1. r \in ledger => Money(r)
  BY DEF LandedInv
<1>2. ASSUME NEW w \in Workers, RefundClaim(w) \/ ReverseUsage(w) PROVE ledger' = ledger
  BY <1>2 DEF RefundClaim, ReverseUsage
<1>3. ASSUME NEW w \in Workers, AlreadyCompleted(w), r \notin ledger PROVE Money(r)
  <2>1. status[r] = "COMPLETED"
    BY <1>3 DEF AlreadyCompleted
  <2> QED
    BY <2>1 DEF LandedInv
<1>4. ASSUME NEW w \in Workers, PostRefund(w), r \notin ledger PROVE Money(r)
  <2>1. pc[w] = "book" /\ req[w] = r
    BY <1>4 DEF PostRefund
  <2> QED
    BY <2>1 DEF LandedInv, Landing
<1> QED
  BY <1>1, <1>2, <1>3, <1>4, Writers DEF Written, WriteTraces, TracesKept

\* A worker starts to land on a refund the gateway processed, or a transfer that
\* arrived.
LEMMA LandsWithMoney ==
  ASSUME TypeInv, LandedInv, [Next]_vars, NEW w \in Workers, Turn(w), Landing(w)',
         NEW r \in Requests, req'[w] = r
  PROVE  Money(r)'
<1>1. Knows(w) /\ Moves(w) /\ (Landing(w) => Money(req[w]))
  BY DEF TypeInv, KnowsInv, LandedInv, Turn
<1>2. Money(r) => Money(r)'
  BY MoneyStays
<1>3. CASE Landing(w) /\ req'[w] = req[w]
  BY <1>1, <1>2, <1>3
<1>4. CASE ToLand(w)
  <2>1. PICK g \in GatewayIs("PROCESSED") : Takes(w, "raise", gateway[g].request)
    BY <1>4 DEF ToLand
  <2> QED
    BY <1>2, <2>1 DEF Takes, Money
<1>5. CASE Fetched(w)
  <2>1. pc[w] = "fetch" /\ req[w] = r /\ gateway[gid[w]].status = "PROCESSED"
    BY <1>5 DEF Fetched, Goes
  <2>2. gid[w] \in Refunds /\ gateway[gid[w]].request = r
    BY <1>1, <2>1 DEF Knows
  <2>3. Money(r)
    BY <2>1, <2>2 DEF Money, GatewayIs
  <2> QED
    BY <1>2, <2>3
<1>6. CASE ToTotal(w)
  <2>1. w \in Callers /\ pc[w] = "confirm" /\ req[w] = r /\ pc'[w] = "total"
    BY <1>6 DEF ToTotal, Goes, Keeps
  <2>2. gid[w] \in DOMAIN legs[r]
    BY <1>1, <2>1 DEF Knows
  <2>3. gid[w] \in DOMAIN legs'[r] /\ legs'[r][gid[w]] = "PAID"
    BY <1>6, <2>1, <2>2, LegMoves DEF ToTotal, LegStatuses
  <2>4. Legs(r, "PAID")' # {}
    BY <2>3 DEF Legs
  <2> QED
    BY <2>4 DEF Money
<1>7. ASSUME ToCreate(w) \/ ToApprove(w) \/ ToLook(w) \/ ToClaim(w) \/ ToLeg(w) \/ ToTransfer(w)
             \/ ToHold(w) \/ Sweeps(w) \/ ToFetch(w) \/ Ends(w)
      PROVE  FALSE
  <2>1. pc[w] \in {"idle", "create", "repair", "inflight"} => landed[w] = FALSE
    BY <1>1 DEF Knows, WorksOn
  <2> QED
    BY <1>7, <2>1
    DEF Landing, ToCreate, ToApprove, ToLook, ToClaim, ToLeg, ToTransfer, ToHold, Sweeps, ToFetch,
        Ends, Takes, Goes, Keeps
<1>8. ASSUME Claimed(w) \/ ToSend(w) \/ ToAdopt(w) \/ ToFail(w) \/ ToMove(w) \/ ToUnpaid(w)
             \/ Bounced(w) \/ Stays(w)
      PROVE  Landing(w) /\ req'[w] = req[w]
  BY <1>8
  DEF Landing, Claimed, ToSend, ToAdopt, ToFail, ToMove, ToUnpaid, Bounced, Stays, Goes, Keeps
<1>9. ASSUME Added(w) \/ Raised(w) \/ Completed(w) \/ Applied(w) \/ Back(w) \/ Undoes(w) \/ Looks(w)
      PROVE  Landing(w) /\ req'[w] = req[w]
  BY <1>9 DEF Landing, Added, Raised, Completed, Applied, Back, Undoes, Looks, Goes, Keeps
<1> QED
  BY <1>1, <1>3, <1>4, <1>5, <1>6, <1>7, <1>8, <1>9 DEF Moves

\* No step closes or books a request that was not paid.
LEMMA LandedStep ==
  ASSUME TypeInv, LandedInv, [Next]_vars
  PROVE  LandedInv'
<1>1. \A r \in Requests : Money(r) => Money(r)'
  BY MoneyStays
<1>2. ASSUME NEW w \in Workers, Landing(w)' PROVE Money(req[w])'
  <2>1. PICK r \in Requests : req'[w] = r
    BY <1>2, KnowsStep DEF KnowsInv, Knows, WorksOn, Landing
  <2>2. ASSUME Stays(w) PROVE Money(r)'
    <3>1. Landing(w) /\ req[w] = r
      BY <1>2, <2>1, <2>2 DEF Stays, Keeps, Landing
    <3> QED
      BY <1>1, <2>1, <3>1 DEF LandedInv
  <2>3. Money(r)'
    BY <1>2, <2>1, <2>2, LandsWithMoney, Turns DEF Turn, LocalsKept, Stays, Keeps
  <2> QED
    BY <2>1, <2>3 DEF Money
<1>3. ASSUME NEW r \in Requests, status'[r] = "COMPLETED" PROVE Money(r)'
  <2>1. status[r] = "COMPLETED" \/ \E w \in Workers : pc[w] = "close" /\ req[w] = r
    BY <1>3, StatusMoves DEF StatusMove, Undecided, Decided
  <2> QED
    BY <1>1, <2>1 DEF LandedInv, Landing
<1>4. ASSUME NEW r \in Requests, r \in ledger' PROVE Money(r)'
  BY <1>1, <1>4, LedgerMove
<1> QED
  BY <1>2, <1>3, <1>4 DEF LandedInv

\* BookedWasReturned: whoever pays a request by either route, and whatever dies or
\* overlaps, one that is completed or booked has had its money.
THEOREM BookedWasReturnedCorrect == Spec => []BookedWasReturned
<1>1. Init => LandedInv
  BY DEF Init, LandedInv, Landing, Workers
<1>2. TypeInv /\ LandedInv /\ [Next]_vars => LandedInv'
  BY LandedStep
<1>3. LandedInv => BookedWasReturned
  BY DEF LandedInv, BookedWasReturned, Money
<1> QED
  BY <1>1, <1>2, <1>3, TypeInvariance, PTL DEF Spec

-----------------------------------------------------------------------------
(* The claim is taken back last.                                           *)

\* The claim is taken back of a payment that is marked as returned.
UndoneInv ==
  /\ undone # {} => full
  /\ \A w \in Workers : pc[w] \in {"redeemed", "usage"} => full

\* The claim is taken back once the payment is marked as all returned.
LEMMA UndoneStep ==
  ASSUME TypeInv, FullInv, UndoneInv, [Next]_vars
  PROVE  UndoneInv'
<1>1. full => full'
  BY FullStays
<1>2. undone' # {} => full'
  <2>1. ASSUME NEW w \in Workers, RefundClaim(w) \/ ReverseUsage(w) PROVE full'
    BY <1>1, <2>1 DEF UndoneInv, RefundClaim, ReverseUsage
  <2>2. ASSUME NEW w \in Workers, AlreadyCompleted(w) \/ PostRefund(w) PROVE undone' = undone
    BY <2>2 DEF AlreadyCompleted, PostRefund
  <2>3. undone # {} => full'
    BY <1>1 DEF UndoneInv
  <2> QED
    BY <2>1, <2>2, <2>3, Writers DEF Written, WriteTraces, TracesKept
<1>3. ASSUME NEW w \in Workers, pc'[w] \in {"redeemed", "usage"} PROVE full'
  <2>1. CASE Stays(w)
    BY <1>1, <1>3, <2>1 DEF UndoneInv, Stays
  <2>2. CASE Back(w)
    BY <1>1, <1>3, <2>2 DEF Back, Goes
  <2>3. CASE Undoes(w)
    BY <1>1, <1>3, <2>3 DEF UndoneInv, Undoes, Goes
  <2>4. CASE Moves(w)
    BY <1>3, <2>1, <2>2, <2>3, <2>4
    DEF Moves, Ends, ToCreate, ToApprove, ToLook, ToClaim, ToLeg, ToTransfer, ToLand,
        ToHold, Claimed, ToSend, ToAdopt, ToFail, ToMove, ToTotal, ToUnpaid, Added, Raised,
        Completed, Applied, Looks, Sweeps, ToFetch, Fetched, Bounced, Takes, Goes
  <2> QED
    BY <2>1, <2>4, Turns DEF Turn, LocalsKept, Stays, Keeps
<1> QED
  BY <1>2, <1>3 DEF UndoneInv

\* UndoneWhenFull: the claim and its usage are taken back only of a payment that the
\* books show as returned in full.
THEOREM UndoneWhenFullCorrect == Spec => []UndoneWhenFull
<1>1. Init => UndoneInv
  BY DEF Init, UndoneInv
<1>2. TypeInv /\ FullInv /\ UndoneInv /\ [Next]_vars => UndoneInv'
  BY UndoneStep
<1>3. FullInv /\ UndoneInv => UndoneWhenFull
  BY DEF FullInv, UndoneInv, UndoneWhenFull
<1> QED
  BY <1>1, <1>2, <1>3, TypeInvariance, FullInvariance, PTL DEF Spec
=============================================================================
