---------------------------- MODULE PayoutProofs ----------------------------
(***************************************************************************)
(* Proofs about Payout, for any settlement, any number of requests, legs   *)
(* and crashes.  The total of the legs is a fold over a set, so the first  *)
(* part proves what such a sum does when its set or a value of it changes. *)
(***************************************************************************)
EXTENDS Payout, FiniteSetTheorems, WellFoundedInduction, TLAPS

-----------------------------------------------------------------------------
(* Sums over finite sets.                                                  *)

\* Induction over the subsets of a finite set: the cases that hold are a set B.
LEMMA SetInduction ==
  ASSUME NEW S, IsFiniteSet(S), NEW B,
         \A T \in SUBSET S : (\A x \in T : T \ {x} \in B) => T \in B
  PROVE  \A T \in SUBSET S : T \in B
<1>1. SUFFICES ASSUME NEW R \in SUBSET S, R \notin B PROVE FALSE
  OBVIOUS
<1> DEFINE bad == {T \in SUBSET S : T \notin B}
<1>2. bad # {} /\ bad \subseteq FiniteSubsetsOf(S)
  BY <1>1, FS_Subset DEF FiniteSubsetsOf
<1>3. IsWellFoundedOn(StrictSubsetOrdering(S), FiniteSubsetsOf(S))
  BY FS_StrictSubsetOrderingWellFounded
<1>4. \E T \in bad : \A U \in bad : ~ (<<U, T>> \in StrictSubsetOrdering(S))
  <2> HIDE DEF bad
  <2> QED
    BY <1>2, <1>3, WFMin
<1>5. PICK T \in bad : \A U \in bad : ~ (<<U, T>> \in StrictSubsetOrdering(S))
  BY <1>4
<1>6. ASSUME NEW x \in T PROVE T \ {x} \in B
  <2>1. <<T \ {x}, T>> \in (SUBSET S) \X (SUBSET S)
    BY <1>5
  <2>2. <<T \ {x}, T>>[1] = T \ {x} /\ <<T \ {x}, T>>[2] = T
    OBVIOUS
  <2>3. <<T \ {x}, T>> \in StrictSubsetOrdering(S)
    <3> HIDE DEF bad
    <3> QED
      BY <1>6, <2>1, <2>2 DEF StrictSubsetOrdering
  <2> QED
    BY <1>5, <2>1, <2>3
<1> QED
  BY <1>5, <1>6

\* The order of the numbers, as a relation.
Less == {ss \in Nat \X Nat : ss[1] < ss[2]}

\* It is well-founded.
LEMMA LessWellFounded == IsWellFoundedOn(Less, Nat)
  BY NatLessThanWellFounded DEF OpToRel, Less

\* Induction over the numbers, again with the cases that hold as a set.
LEMMA NatInductionInSet ==
  ASSUME NEW B, 0 \in B, \A n \in Nat : n \in B => n + 1 \in B
  PROVE  \A n \in Nat : n \in B
<1>1. SUFFICES ASSUME NEW r \in Nat, r \notin B PROVE FALSE
  OBVIOUS
<1> DEFINE bad == {n \in Nat : n \notin B}
<1>2. bad # {} /\ bad \subseteq Nat
  BY <1>1
<1>3. PICK n \in bad : \A m \in bad : ~ (<<m, n>> \in Less)
  <2> HIDE DEF bad
  <2> QED
    BY <1>2, LessWellFounded, WFMin
<1>4. n # 0 /\ n - 1 \in Nat /\ n - 1 < n
  OBVIOUS
<1>5. <<n - 1, n>> \in Less
  BY <1>4 DEF Less
<1>6. n - 1 \in B
  BY <1>3, <1>4, <1>5
<1> QED
  BY <1>4, <1>6

Pick(T) == CHOOSE x \in T : TRUE
Sums(f, S, g) ==
  g = [T \in SUBSET S |-> IF T = {} THEN 0 ELSE f[Pick(T)] + g[T \ {Pick(T)}]]
Sum(f, S) == SumFunctionOnSet(f, S)

\* The sum, by the definition of the fold.
LEMMA SumIs == \A f, S : Sum(f, S) = (CHOOSE g : Sums(f, S, g))[S]
BY DEF Sum, SumFunctionOnSet, FoldFunctionOnSet, MapThenFoldSet, Sums, Pick

\* What is picked is a member.
LEMMA PickIn == \A T : T # {} => Pick(T) \in T
BY DEF Pick

\* There is a function that adds up every subset: it is built one size at a time.
LEMMA SumExists ==
  ASSUME NEW f, NEW S, IsFiniteSet(S)
  PROVE  \E g : Sums(f, S, g)
<1> DEFINE Small(n) == {T \in SUBSET S : Cardinality(T) <= n}
           Upto(n, g) == g = [T \in Small(n) |->
                                IF T = {} THEN 0 ELSE f[Pick(T)] + g[T \ {Pick(T)}]]
           B == {n \in Nat : \E g : Upto(n, g)}
<1>1. \A T \in SUBSET S : IsFiniteSet(T) /\ Cardinality(T) \in Nat
                          /\ Cardinality(T) <= Cardinality(S) /\ Cardinality(S) \in Nat
                          /\ (Cardinality(T) = 0 => T = {})
  BY FS_Subset, FS_CardinalityType, FS_EmptySet
<1>2. 0 \in B
  <2>1. Upto(0, [T \in Small(0) |-> 0])
    BY <1>1
  <2> QED
    BY <2>1
<1>3. ASSUME NEW n \in Nat, n \in B PROVE n + 1 \in B
  <2>1. PICK g : Upto(n, g)
    BY <1>3
  <2> DEFINE v(T) == IF T = {} THEN 0 ELSE f[Pick(T)] + g[T \ {Pick(T)}]
             h == [T \in Small(n + 1) |-> v(T)]
  <2>2. ASSUME NEW T \in Small(n + 1), T # {}
        PROVE  T \ {Pick(T)} \in Small(n) /\ T \ {Pick(T)} \in Small(n + 1)
    <3>1. Pick(T) \in T
      BY <2>2, PickIn
    <3>2. Cardinality(T \ {Pick(T)}) = Cardinality(T) - 1
      BY <1>1, <3>1, FS_RemoveElement
    <3> QED
      BY <1>1, <3>2
  <2>3. ASSUME NEW T \in Small(n) PROVE h[T] = g[T]
    <3>1. T \in Small(n + 1)
      BY <1>1
    <3> QED
      BY <2>1, <3>1
  <2>4. ASSUME NEW T \in Small(n + 1)
        PROVE  h[T] = IF T = {} THEN 0 ELSE f[Pick(T)] + h[T \ {Pick(T)}]
    <3>1. h[T] = v(T)
      OBVIOUS
    <3> HIDE DEF h, Small
    <3> QED
      BY <2>2, <2>3, <3>1
  <2>5. h = [T \in Small(n + 1) |-> h[T]]
    OBVIOUS
  <2>6. Upto(n + 1, h)
    <3> HIDE DEF h, Small
    <3> QED
      BY <2>4, <2>5
  <2>7. \E k : Upto(n + 1, k)
    <3> HIDE DEF h, Upto
    <3> QED
      BY <2>6
  <2> HIDE DEF Upto, h
  <2> QED
    BY <2>7
<1>4. \A n \in Nat : n \in B
  <2> HIDE DEF B
  <2> QED
    BY <1>2, <1>3, NatInductionInSet
<1>5. PICK g : Upto(Cardinality(S), g)
  BY <1>1, <1>4
<1>6. Small(Cardinality(S)) = SUBSET S
  BY <1>1
<1> QED
  BY <1>5, <1>6 DEF Sums

SumsOf(f, S) == CHOOSE g : Sums(f, S, g)

\* The function the sum is read from adds up.
LEMMA SumsOfSums ==
  ASSUME NEW f, NEW S, IsFiniteSet(S)
  PROVE  /\ SumsOf(f, S)[{}] = 0
         /\ \A T \in SUBSET S : T # {} =>
              SumsOf(f, S)[T] = f[Pick(T)] + SumsOf(f, S)[T \ {Pick(T)}]
         /\ Sum(f, S) = SumsOf(f, S)[S]
<1>1. Sums(f, S, SumsOf(f, S))
  BY SumExists DEF SumsOf
<1>2. Sum(f, S) = SumsOf(f, S)[S]
  BY SumIs DEF SumsOf
<1> QED
  BY <1>1, <1>2 DEF Sums

\* It agrees with the sum over each subset.
LEMMA SumsAgree ==
  ASSUME NEW f, NEW S, IsFiniteSet(S), NEW T \in SUBSET S
  PROVE  SumsOf(f, S)[T] = Sum(f, T)
<1> DEFINE B == {U \in SUBSET S : \A V \in SUBSET S :
                   U \subseteq V => SumsOf(f, V)[U] = SumsOf(f, S)[U]}
<1>1. ASSUME NEW U \in SUBSET S, \A x \in U : U \ {x} \in B PROVE U \in B
  <2> SUFFICES ASSUME NEW V \in SUBSET S, U \subseteq V
               PROVE  SumsOf(f, V)[U] = SumsOf(f, S)[U]
    OBVIOUS
  <2>1. IsFiniteSet(V)
    BY FS_Subset
  <2>2. CASE U = {}
    BY <2>1, <2>2, SumsOfSums
  <2>3. CASE U # {}
    <3>1. Pick(U) \in U
      BY <2>3, PickIn
    <3>2. SumsOf(f, V)[U \ {Pick(U)}] = SumsOf(f, S)[U \ {Pick(U)}]
      BY <1>1, <3>1
    <3> QED
      BY <2>1, <2>3, <3>2, SumsOfSums
  <2> QED
    BY <2>2, <2>3
<1>2. T \in B
  <2> HIDE DEF B
  <2> QED
    BY <1>1, SetInduction
<1>3. IsFiniteSet(T)
  BY FS_Subset
<1> QED
  BY <1>2, <1>3, SumsOfSums

\* The sum takes one picked element at a time.
LEMMA SumStep ==
  ASSUME NEW f, NEW S, IsFiniteSet(S)
  PROVE  /\ S = {} => Sum(f, S) = 0
         /\ S # {} => Pick(S) \in S /\ Sum(f, S) = f[Pick(S)] + Sum(f, S \ {Pick(S)})
<1>1. CASE S = {}
  BY <1>1, SumsOfSums
<1>2. CASE S # {}
  <2>1. Pick(S) \in S
    BY <1>2, PickIn
  <2>2. Sum(f, S) = f[Pick(S)] + SumsOf(f, S)[S \ {Pick(S)}]
    BY <1>2, SumsOfSums
  <2>3. SumsOf(f, S)[S \ {Pick(S)}] = Sum(f, S \ {Pick(S)})
    BY SumsAgree
  <2> QED
    BY <1>2, <2>1, <2>2, <2>3
<1> QED
  BY <1>1, <1>2

\* A sum of numbers is a number.
LEMMA SumNat ==
  ASSUME NEW S, IsFiniteSet(S), NEW f, \A x \in S : f[x] \in Nat
  PROVE  \A T \in SUBSET S : Sum(f, T) \in Nat
<1> DEFINE B == {T \in SUBSET S : Sum(f, T) \in Nat}
<1>1. ASSUME NEW T \in SUBSET S, \A x \in T : T \ {x} \in B PROVE T \in B
  <2>1. IsFiniteSet(T)
    BY FS_Subset
  <2>2. CASE T = {}
    <3>1. Sum(f, T) = 0
      BY <2>1, <2>2, SumStep
    <3> QED
      BY <3>1
  <2>3. CASE T # {}
    <3>1. Pick(T) \in T /\ Sum(f, T) = f[Pick(T)] + Sum(f, T \ {Pick(T)})
      BY <2>1, <2>3, SumStep
    <3> QED
      BY <1>1, <3>1
  <2> QED
    BY <2>2, <2>3
<1>2. \A T \in SUBSET S : T \in B
  <2> HIDE DEF B
  <2> QED
    BY <1>1, SetInduction
<1> QED
  BY <1>2

\* Any element may be taken first.
LEMMA SumAdd ==
  ASSUME NEW S, IsFiniteSet(S), NEW f, \A x \in S : f[x] \in Nat, NEW y \in S
  PROVE  Sum(f, S) = f[y] + Sum(f, S \ {y})
<1> DEFINE B == {T \in SUBSET S : \A x \in T : Sum(f, T) = f[x] + Sum(f, T \ {x})}
<1>1. ASSUME NEW T \in SUBSET S, \A x \in T : T \ {x} \in B PROVE T \in B
  <2> SUFFICES ASSUME NEW x \in T PROVE Sum(f, T) = f[x] + Sum(f, T \ {x})
    OBVIOUS
  <2> DEFINE p == Pick(T)
  <2>1. p \in T /\ Sum(f, T) = f[p] + Sum(f, T \ {p})
    BY FS_Subset, SumStep
  <2>2. CASE p = x
    BY <2>1, <2>2
  <2>3. CASE p # x
    <3> HIDE DEF p
    <3>1. Sum(f, T \ {p}) = f[x] + Sum(f, (T \ {p}) \ {x})
      BY <1>1, <2>1, <2>3
    <3>2. Sum(f, T \ {x}) = f[p] + Sum(f, (T \ {x}) \ {p})
      BY <1>1, <2>1, <2>3
    <3>3. (T \ {p}) \ {x} = (T \ {x}) \ {p}
      OBVIOUS
    <3>4. Sum(f, (T \ {p}) \ {x}) \in Nat /\ f[p] \in Nat /\ f[x] \in Nat
      BY <2>1, SumNat
    <3> QED
      BY <2>1, <3>1, <3>2, <3>3, <3>4
  <2> QED
    BY <2>2, <2>3
<1>2. \A T \in SUBSET S : T \in B
  <2> HIDE DEF B
  <2> QED
    BY <1>1, SetInduction
<1> QED
  BY <1>2

\* The sum depends on the values over its set only.
LEMMA SumSame ==
  ASSUME NEW S, IsFiniteSet(S), NEW f, NEW h, \A x \in S : f[x] = h[x]
  PROVE  Sum(f, S) = Sum(h, S)
<1> DEFINE B == {T \in SUBSET S : Sum(f, T) = Sum(h, T)}
<1>1. ASSUME NEW T \in SUBSET S, \A x \in T : T \ {x} \in B PROVE T \in B
  <2>1. IsFiniteSet(T)
    BY FS_Subset
  <2>2. CASE T = {}
    BY <2>1, <2>2, SumStep
  <2>3. CASE T # {}
    <3>1. /\ Pick(T) \in T
          /\ Sum(f, T) = f[Pick(T)] + Sum(f, T \ {Pick(T)})
          /\ Sum(h, T) = h[Pick(T)] + Sum(h, T \ {Pick(T)})
      BY <2>1, <2>3, SumStep
    <3> QED
      BY <1>1, <3>1
  <2> QED
    BY <2>2, <2>3
<1>2. \A T \in SUBSET S : T \in B
  <2> HIDE DEF B
  <2> QED
    BY <1>1, SetInduction
<1> QED
  BY <1>2

\* A part adds up to no more than the whole.
LEMMA SumSubset ==
  ASSUME NEW S, IsFiniteSet(S), NEW f, \A x \in S : f[x] \in Nat, NEW R \in SUBSET S
  PROVE  Sum(f, R) <= Sum(f, S)
<1> DEFINE B == {T \in SUBSET S : R \subseteq T => Sum(f, R) <= Sum(f, T)}
<1>1. ASSUME NEW T \in SUBSET S, \A x \in T : T \ {x} \in B PROVE T \in B
  <2>1. ASSUME R \subseteq T, NEW x \in T \ R PROVE Sum(f, R) <= Sum(f, T)
    <3>1. Sum(f, T) = f[x] + Sum(f, T \ {x})
      BY FS_Subset, SumAdd
    <3>2. Sum(f, R) <= Sum(f, T \ {x})
      BY <1>1, <2>1
    <3>3. f[x] \in Nat /\ Sum(f, T \ {x}) \in Nat /\ Sum(f, R) \in Nat
      BY SumNat
    <3> QED
      BY <3>1, <3>2, <3>3
  <2>2. Sum(f, T) \in Nat
    BY SumNat
  <2> QED
    BY <2>1, <2>2
<1>2. \A T \in SUBSET S : T \in B
  <2> HIDE DEF B
  <2> QED
    BY <1>1, SetInduction
<1> QED
  BY <1>2
-----------------------------------------------------------------------------
(* What the legs carry.                                                    *)

Leg == [status : LegStatuses, amount : 0..Net]

\* There are finitely many legs, and their total is a number.
LEMMA TotalNat ==
  ASSUME TypeOK
  PROVE  /\ IsFiniteSet(LegNumbers) /\ IsFiniteSet(LegsIn("PAID"))
         /\ \A n \in LegNumbers : Amounts[n] \in 0..Net /\ Amounts[n] = leg[n].amount
         /\ PaidTotal \in Nat
<1>1. IsFiniteSet(LegNumbers)
  BY ConstantsAssumption, FS_Interval DEF LegNumbers
<1>2. LegsIn("PAID") \in SUBSET LegNumbers
  BY DEF LegsIn
<1>3. \A n \in LegNumbers : Amounts[n] \in 0..Net /\ Amounts[n] = leg[n].amount
  BY DEF TypeOK, Amounts
<1>4. Sum(Amounts, LegsIn("PAID")) \in Nat
  BY <1>1, <1>2, <1>3, SumNat, ConstantsAssumption
<1> QED
  BY <1>1, <1>2, <1>3, <1>4, FS_Subset DEF PaidTotal, Sum

\* And so it is after a step that keeps the types.
LEMMA TotalNatNext ==
  ASSUME TypeOK'
  PROVE  PaidTotal' \in Nat
<1>1. IsFiniteSet(LegNumbers)
  BY ConstantsAssumption, FS_Interval DEF LegNumbers
<1>2. LegsIn("PAID")' \in SUBSET LegNumbers
  BY DEF LegsIn
<1>3. \A n \in LegNumbers : Amounts'[n] \in Nat
  BY ConstantsAssumption DEF TypeOK, Amounts
<1>4. Sum(Amounts', LegsIn("PAID")') \in Nat
  BY <1>1, <1>2, <1>3, SumNat
<1> QED
  BY <1>4 DEF PaidTotal, Sum

\* The total changes with the paid legs only ...
LEMMA TotalKept ==
  ASSUME TypeOK, TypeOK', LegsIn("PAID")' = LegsIn("PAID"),
         \A n \in LegsIn("PAID") : leg'[n].amount = leg[n].amount
  PROVE  PaidTotal' = PaidTotal
<1>1. IsFiniteSet(LegsIn("PAID")) /\ LegsIn("PAID") \subseteq LegNumbers
  BY TotalNat DEF LegsIn
<1>2. \A n \in LegsIn("PAID") : Amounts'[n] = Amounts[n]
  BY <1>1 DEF Amounts
<1>3. Sum(Amounts', LegsIn("PAID")) = Sum(Amounts, LegsIn("PAID"))
  BY <1>1, <1>2, SumSame
<1> QED
  BY <1>3 DEF PaidTotal, Sum

\* ... rises by what a leg carried ...
LEMMA TotalRises ==
  ASSUME TypeOK, TypeOK', NEW n \in LegNumbers, leg[n].status # "PAID",
         leg'[n].status = "PAID", \A m \in LegNumbers \ {n} : leg'[m] = leg[m]
  PROVE  PaidTotal' = leg'[n].amount + PaidTotal
<1>1. LegsIn("PAID")' = LegsIn("PAID") \cup {n} /\ n \notin LegsIn("PAID")
  BY DEF LegsIn
<1>2. /\ IsFiniteSet(LegsIn("PAID")') /\ IsFiniteSet(LegsIn("PAID"))
      /\ \A m \in LegNumbers : Amounts'[m] \in Nat
      /\ Amounts'[n] = leg'[n].amount
      /\ \A m \in LegsIn("PAID") : Amounts'[m] = Amounts[m]
  <2>1. \A m \in LegNumbers : Amounts'[m] \in 0..Net /\ Amounts'[m] = leg'[m].amount
    BY DEF TypeOK, Amounts
  <2>2. LegsIn("PAID")' \subseteq LegNumbers /\ LegsIn("PAID") \subseteq LegNumbers
    BY DEF LegsIn
  <2>3. IsFiniteSet(LegsIn("PAID")') /\ IsFiniteSet(LegsIn("PAID"))
    BY <2>2, TotalNat, FS_Subset
  <2>4. \A m \in LegsIn("PAID") : Amounts'[m] = Amounts[m]
    BY <1>1, <2>1, <2>2, TotalNat
  <2> QED
    BY <2>1, <2>3, <2>4, ConstantsAssumption
<1>3. Sum(Amounts', LegsIn("PAID")') = Amounts'[n] + Sum(Amounts', LegsIn("PAID")' \ {n})
  <2>1. LegsIn("PAID")' \subseteq LegNumbers /\ n \in LegsIn("PAID")'
    BY <1>1 DEF LegsIn
  <2> HIDE DEF LegsIn
  <2> QED
    BY <1>2, <2>1, SumAdd
<1>4. LegsIn("PAID")' \ {n} = LegsIn("PAID")
  BY <1>1
<1>5. Sum(Amounts', LegsIn("PAID")) = Sum(Amounts, LegsIn("PAID"))
  BY <1>2, SumSame
<1> QED
  BY <1>2, <1>3, <1>4, <1>5 DEF PaidTotal, Sum

\* ... and falls when legs are reversed.
LEMMA TotalFalls ==
  ASSUME TypeOK, TypeOK', LegsIn("PAID")' \subseteq LegsIn("PAID"),
         \A n \in LegNumbers : leg'[n].amount = leg[n].amount
  PROVE  PaidTotal' <= PaidTotal
<1>1. IsFiniteSet(LegsIn("PAID")) /\ LegsIn("PAID") \subseteq LegNumbers
  BY TotalNat DEF LegsIn
<1>2. /\ \A n \in LegsIn("PAID")' : Amounts'[n] = Amounts[n]
      /\ \A n \in LegsIn("PAID") : Amounts[n] \in Nat
  BY <1>1, TotalNat, ConstantsAssumption DEF Amounts
<1>3. Sum(Amounts', LegsIn("PAID")') = Sum(Amounts, LegsIn("PAID")')
  <2>1. IsFiniteSet(LegsIn("PAID")')
    BY <1>1, FS_Subset
  <2> QED
    BY <1>2, <2>1, SumSame
<1>4. Sum(Amounts, LegsIn("PAID")') <= Sum(Amounts, LegsIn("PAID"))
  BY <1>1, <1>2, SumSubset
<1> QED
  BY <1>3, <1>4 DEF PaidTotal, Sum

-----------------------------------------------------------------------------
(* Types.                                                                  *)

\* A request that works on a leg knows its number.
WorksOnLeg(c) ==
  pc[c] \in {"owed", "open", "move", "pay", "sum", "book", "bookfinal", "reserve", "bounce"}

TypeInv ==
  /\ TypeOK
  /\ \A c \in Callers : WorksOnLeg(c) => num[c] \in LegNumbers

\* The decisions that need no leg.
Decides(c) ==
  \E from \in {"DRAFT", "PENDING_APPROVAL", "APPROVED", "ON_HOLD", "FAILED"} :
    \E to \in Statuses \ {"PROCESSING", "PAID", "REVERSED"} : Decide(c, from, to)

\* Approving, holding, cancelling, abandoning and retrying are such decisions.
LEMMA Decisions ==
  ASSUME NEW c \in Callers,
         Build(c) \/ Approve(c) \/ Hold(c) \/ Cancel(c) \/ Abandon(c) \/ Retry(c)
  PROVE  Decides(c)
<1>1. CASE Build(c)
  BY <1>1 DEF Build, Decides, Statuses, Allowed
<1>2. CASE Approve(c)
  BY <1>2 DEF Approve, Decides, Statuses
<1>3. CASE Hold(c)
  BY <1>3 DEF Hold, Decides, Statuses
<1>4. CASE Cancel(c)
  BY <1>4 DEF Cancel, Decides, Statuses
<1>5. CASE Abandon(c)
  BY <1>5 DEF Abandon, Decides, Statuses
<1>6. CASE Retry(c)
  BY <1>6 DEF Retry, Decides, Statuses
<1> QED
  BY <1>1, <1>2, <1>3, <1>4, <1>5, <1>6

\* The next leg number is free to be used while a leg is left.
LEMMA NextNumber ==
  ASSUME LegsIn("NONE") # {}
  PROVE  Cardinality(LegNumbers \ LegsIn("NONE")) + 1 \in LegNumbers
<1>1. IsFiniteSet(LegNumbers) /\ Cardinality(LegNumbers) = MaxLegs
  BY ConstantsAssumption, FS_Interval DEF LegNumbers
<1>2. /\ LegNumbers \ LegsIn("NONE") \in SUBSET LegNumbers
      /\ LegNumbers \ LegsIn("NONE") # LegNumbers
  BY DEF LegsIn
<1>3. /\ Cardinality(LegNumbers \ LegsIn("NONE")) <= MaxLegs
      /\ Cardinality(LegNumbers \ LegsIn("NONE")) # MaxLegs
      /\ Cardinality(LegNumbers \ LegsIn("NONE")) \in Nat
  BY <1>1, <1>2, FS_Subset, FS_CardinalityType
<1> QED
  BY <1>3, ConstantsAssumption DEF LegNumbers

\* The locals of the requests are typed.
LocalsTyped ==
  /\ pc \in [Callers -> Labels]
  /\ continues \in [Callers -> BOOLEAN]
  /\ num \in [Callers -> 0..MaxLegs]
  /\ net \in [Callers -> 0..Net]
  /\ owed \in [Callers -> 0..Net]
  /\ legs \in [Callers -> SUBSET LegNumbers]
  /\ missed \in [Callers -> BOOLEAN]
  /\ \A c \in Callers : WorksOnLeg(c) => num[c] \in LegNumbers

\* A request that ends leaves them so ...
LEMMA DoneTyped ==
  ASSUME LocalsTyped, NEW c \in Callers, Done(c)
  PROVE  LocalsTyped'
<1>1. /\ pc' \in [Callers -> Labels]
      /\ continues' \in [Callers -> BOOLEAN]
      /\ num' \in [Callers -> 0..MaxLegs]
  BY ConstantsAssumption DEF LocalsTyped, Done, Goto, Labels
<1>2. /\ net' \in [Callers -> 0..Net]
      /\ owed' \in [Callers -> 0..Net]
      /\ legs' \in [Callers -> SUBSET LegNumbers]
      /\ missed' \in [Callers -> BOOLEAN]
  BY ConstantsAssumption DEF LocalsTyped, Done
<1>3. \A d \in Callers : WorksOnLeg(d)' => num'[d] \in LegNumbers
  BY DEF LocalsTyped, Done, Goto, WorksOnLeg
<1> QED
  BY <1>1, <1>2, <1>3 DEF LocalsTyped

\* ... and so does one that goes on with what it knows.
LEMMA GoesOn ==
  ASSUME LocalsTyped, NEW c \in Callers, NEW label \in Labels, Goto(c, label),
         UNCHANGED locals,
         label \in {"owed", "open", "move", "pay", "sum", "book", "bookfinal", "reserve",
                    "bounce"} => num[c] \in LegNumbers
  PROVE  LocalsTyped'
BY DEF LocalsTyped, Goto, WorksOnLeg, locals

\* Every step keeps the types, and every request the number of its leg.
LEMMA TypeStep == TypeInv /\ [Next]_vars => TypeInv'
<1> SUFFICES ASSUME TypeInv, [Next]_vars PROVE TypeInv'
  OBVIOUS
<1> USE ConstantsAssumption
    DEF TypeInv, TypeOK, Statuses, LegStatuses, EntryTypes, history
<1>0. LocalsTyped
  BY DEF LocalsTyped
<1>1. ASSUME NEW c \in Callers, Decides(c) PROVE TypeInv'
  <2>1. PICK to \in Statuses : \E from \in Statuses : Decide(c, from, to)
    BY <1>1 DEF Decides
  <2> QED
    BY <1>0, <1>1, <2>1, GoesOn DEF Decide, LocalsTyped, Labels
<1>2. ASSUME NEW c \in Callers, StartRebuild(c) PROVE TypeInv'
  BY <1>0, <1>2, GoesOn DEF StartRebuild, LocalsTyped, Labels, WorksOnLeg
<1>3. ASSUME NEW c \in Callers, StartPayout(c) PROVE TypeInv'
  BY <1>0, <1>3 DEF StartPayout, LocalsTyped, WorksOnLeg, Labels, Goto, locals
<1>4. ASSUME NEW c \in Callers, StartConfirm(c) PROVE TypeInv'
  BY <1>0, <1>4 DEF StartConfirm, LocalsTyped, WorksOnLeg, Labels, Goto, locals
<1>5. ASSUME NEW c \in Callers, StartFail(c) PROVE TypeInv'
  BY <1>0, <1>5, GoesOn DEF StartFail, LocalsTyped, Labels, WorksOnLeg
<1>6. ASSUME NEW c \in Callers, StartReverse(c) PROVE TypeInv'
  BY <1>0, <1>6 DEF StartReverse, LegsIn, LocalsTyped, WorksOnLeg, Labels, Goto, locals
<1>7. ASSUME NEW c \in Callers, Rebuild(c) PROVE TypeInv'
  <2>1. CASE pc'[c] = "release" /\ Goto(c, "release") /\ UNCHANGED locals
    BY <1>0, <1>7, <2>1, GoesOn DEF Rebuild, CanMove, LocalsTyped, Labels
  <2>2. CASE Done(c)
    BY <1>0, <1>7, <2>2, DoneTyped DEF Rebuild, CanMove, LocalsTyped
  <2> QED
    BY <1>7, <2>1, <2>2 DEF Rebuild, Goto
<1>8. ASSUME NEW c \in Callers, Release(c) PROVE TypeInv'
  BY <1>0, <1>8, DoneTyped DEF Release, LocalsTyped
<1>9. ASSUME NEW c \in Callers, LookForLeg(c) PROVE TypeInv'
  <2>1. CASE LegsIn("INITIATED") = {}
    BY <1>0, <1>9, <2>1, GoesOn DEF LookForLeg, LocalsTyped, Labels, WorksOnLeg
  <2>2. CASE ~(LegsIn("INITIATED") = {})
    BY <1>0, <1>9, <2>2, DoneTyped DEF LookForLeg, LocalsTyped
  <2> QED
    BY <2>1, <2>2
<1>10. ASSUME NEW c \in Callers, Park(c) PROVE TypeInv'
  BY <1>0, <1>10, DoneTyped DEF Park, LocalsTyped
<1>11. ASSUME NEW c \in Callers, CountLegs(c) PROVE TypeInv'
  <2>1. Cardinality(LegNumbers \ LegsIn("NONE")) + 1 \in LegNumbers
    BY <1>11, NextNumber DEF CountLegs
  <2>2. LegNumbers \subseteq 0..MaxLegs
    BY DEF LegNumbers
  <2>3. LocalsTyped'
    <3> DEFINE n == Cardinality(LegNumbers \ LegsIn("NONE")) + 1
    <3>1. n \in LegNumbers /\ n \in 0..MaxLegs
      BY <2>1, <2>2
    <3>2. num' = [num EXCEPT ![c] = n] /\ Goto(c, "owed") /\ UNCHANGED <<continues, net, owed, legs, missed>>
      BY <1>11 DEF CountLegs
    <3> HIDE DEF n
    <3> QED
      BY <1>0, <3>1, <3>2 DEF LocalsTyped, WorksOnLeg, Labels, Goto
  <2> QED
    BY <1>11, <2>3 DEF CountLegs, LocalsTyped
<1>12. ASSUME NEW c \in Callers, TotalPaid(c) PROVE TypeInv'
  <2>1. CASE NothingOwed(c)
    BY <1>0, <1>12, <2>1, DoneTyped DEF TotalPaid, LocalsTyped
  <2>2. CASE ~NothingOwed(c)
    <3>1. Outstanding(c) \in 0..Net
      BY <2>2, TotalNat DEF NothingOwed, Outstanding
    <3> QED
      BY <1>0, <1>12, <2>2, <3>1 DEF TotalPaid, LocalsTyped, WorksOnLeg, Labels, Goto
  <2> QED
    BY <2>1, <2>2
<1>13. ASSUME NEW c \in Callers, OpenLeg(c) PROVE TypeInv'
  <2>1. [status |-> "INITIATED", amount |-> owed[c]] \in Leg
    BY DEF Leg
  <2>2. leg' \in [LegNumbers -> Leg]
    BY <1>13, <2>1 DEF OpenLeg, Leg
  <2>3. LocalsTyped'
    BY <1>0, <1>13, GoesOn DEF OpenLeg, Labels, WorksOnLeg
  <2> QED
    BY <1>13, <2>2, <2>3 DEF OpenLeg, Leg, LocalsTyped
<1>14. ASSUME NEW c \in Callers, OpenRefused(c) PROVE TypeInv'
  BY <1>0, <1>14, DoneTyped DEF OpenRefused, LocalsTyped
<1>15. ASSUME NEW c \in Callers, MoveToProcessing(c) PROVE TypeInv'
  BY <1>0, <1>15, DoneTyped DEF MoveToProcessing, LocalsTyped
<1>16. ASSUME NEW c \in Callers, FindLeg(c) PROVE TypeInv'
  <2>1. CASE LegsIn("INITIATED") = {}
    BY <1>0, <1>16, <2>1, GoesOn DEF FindLeg, LocalsTyped, Labels, locals
  <2>2. CASE LegsIn("INITIATED") # {}
    <3>1. PICK n \in LegNumbers : num' = [num EXCEPT ![c] = n]
      BY <1>16, <2>2 DEF FindLeg, LegsIn
    <3>2. Goto(c, "pay") /\ UNCHANGED <<continues, net, owed, legs, missed>>
      BY <1>16, <2>2 DEF FindLeg
    <3>3. LocalsTyped'
      BY <1>0, <3>1, <3>2, SMTT(30) DEF LocalsTyped, WorksOnLeg, Labels, Goto, LegNumbers
    <3> QED
      BY <1>16, <3>3 DEF FindLeg, LocalsTyped
  <2> QED
    BY <2>1, <2>2
<1>17. ASSUME NEW c \in Callers, PayLeg(c) PROVE TypeInv'
  <2>1. PICK a \in 1..leg[num[c]].amount :
          leg' = [leg EXCEPT ![num[c]] = [status |-> "PAID", amount |-> a]]
    BY <1>17 DEF PayLeg
  <2>2. leg[num[c]].amount \in 0..Net
    BY <1>17 DEF PayLeg, WorksOnLeg
  <2>3. [status |-> "PAID", amount |-> a] \in Leg
    BY <2>2 DEF Leg
  <2>4. leg' \in [LegNumbers -> Leg]
    BY <2>1, <2>3 DEF Leg
  <2>5. LocalsTyped'
    <3>1. missed' \in [Callers -> BOOLEAN]
      BY <1>17 DEF PayLeg
    <3>2. Goto(c, "sum") /\ UNCHANGED <<continues, num, net, owed, legs>> /\ WorksOnLeg(c)
      BY <1>17 DEF PayLeg, WorksOnLeg
    <3> QED
      BY <1>0, <3>1, <3>2 DEF LocalsTyped, WorksOnLeg, Labels, Goto
  <2> QED
    BY <1>17, <2>4, <2>5 DEF PayLeg, Leg, LocalsTyped
<1>18. ASSUME NEW c \in Callers, PayRefused(c) PROVE TypeInv'
  BY <1>0, <1>18, DoneTyped DEF PayRefused, LocalsTyped
<1>19. ASSUME NEW c \in Callers, SumLegs(c) PROVE TypeInv'
  BY <1>0, <1>19, GoesOn DEF SumLegs, LocalsTyped, Labels, WorksOnLeg
<1>20. ASSUME NEW c \in Callers, PostPayout(c) PROVE TypeInv'
  <2>1. num[c] \in LegNumbers
    BY <1>20 DEF PostPayout, WorksOnLeg
  <2>2. LocalsTyped'
    BY <1>0, <1>20, <2>1, GoesOn, DoneTyped DEF PostPayout, Labels
  <2> QED
    BY <1>20, <2>1, <2>2 DEF PostPayout, LocalsTyped
<1>21. ASSUME NEW c \in Callers, PostReserve(c) PROVE TypeInv'
  BY <1>0, <1>21, GoesOn DEF PostReserve, LocalsTyped, Labels, WorksOnLeg
<1>22. ASSUME NEW c \in Callers, Heal(c) PROVE TypeInv'
  <2>1. CASE PaidUp(c)
    BY <1>0, <1>22, <2>1, GoesOn DEF Heal, LocalsTyped, Labels, WorksOnLeg
  <2>2. CASE ~PaidUp(c)
    BY <1>0, <1>22, <2>2, DoneTyped DEF Heal, LocalsTyped
  <2> QED
    BY <2>1, <2>2
<1>23. ASSUME NEW c \in Callers, Finish(c) PROVE TypeInv'
  BY <1>0, <1>23, DoneTyped DEF Finish, LocalsTyped
<1>24. ASSUME NEW c \in Callers, FindBounced(c) PROVE TypeInv'
  <2>1. CASE LegsIn("INITIATED") = {}
    BY <1>0, <1>24, <2>1, GoesOn DEF FindBounced, LocalsTyped, Labels, locals
  <2>2. CASE LegsIn("INITIATED") # {}
    <3>1. PICK n \in LegNumbers : num' = [num EXCEPT ![c] = n]
      BY <1>24, <2>2 DEF FindBounced, LegsIn
    <3>2. Goto(c, "bounce") /\ UNCHANGED <<continues, net, owed, legs, missed>>
      BY <1>24, <2>2 DEF FindBounced
    <3>3. LocalsTyped'
      BY <1>0, <3>1, <3>2, SMTT(30) DEF LocalsTyped, WorksOnLeg, Labels, Goto, LegNumbers
    <3> QED
      BY <1>24, <3>3 DEF FindBounced, LocalsTyped
  <2> QED
    BY <2>1, <2>2
<1>25. ASSUME NEW c \in Callers, BounceLeg(c) PROVE TypeInv'
  <2>1. leg' \in [LegNumbers -> Leg]
    BY <1>25, ZenonT(30) DEF BounceLeg, Leg
  <2>2. LocalsTyped'
    BY <1>0, <1>25, GoesOn DEF BounceLeg, Labels, WorksOnLeg
  <2> QED
    BY <1>25, <2>1, <2>2 DEF BounceLeg, Leg, LocalsTyped
<1>26. ASSUME NEW c \in Callers, MarkFailed(c) PROVE TypeInv'
  BY <1>0, <1>26, DoneTyped DEF MarkFailed, LocalsTyped
<1>27. ASSUME NEW c \in Callers, MarkReversed(c) PROVE TypeInv'
  BY <1>0, <1>27, GoesOn DEF MarkReversed, LocalsTyped, Labels, WorksOnLeg
<1>28. ASSUME NEW c \in Callers, ReverseRefused(c) PROVE TypeInv'
  BY <1>0, <1>28, DoneTyped DEF ReverseRefused, LocalsTyped
<1>29. ASSUME NEW c \in Callers, PostReversal(c) PROVE TypeInv'
  <2>1. PICK n \in legs[c] : ledger' = ledger \cup {<<n, "PAYOUT_REVERSAL">>}
    BY <1>29 DEF PostReversal, Unbooked
  <2>2. n \in LegNumbers
    BY <2>1
  <2>3. ledger' \subseteq LegNumbers \X EntryTypes
    BY <2>1, <2>2
  <2> QED
    BY <1>0, <1>29, <2>3 DEF PostReversal, LocalsTyped, WorksOnLeg, locals
<1>30. ASSUME NEW c \in Callers, MarkLegsReversed(c) PROVE TypeInv'
  <2>1. leg' \in [LegNumbers -> Leg]
    BY <1>30 DEF MarkLegsReversed, Leg
  <2>2. LocalsTyped'
    BY <1>0, <1>30, GoesOn DEF MarkLegsReversed, Labels, WorksOnLeg
  <2> QED
    BY <1>30, <2>1, <2>2 DEF MarkLegsReversed, Leg, LocalsTyped
<1>31. ASSUME NEW c \in Callers, Crash(c) PROVE TypeInv'
  BY <1>0, <1>31, DoneTyped DEF Crash, LocalsTyped
<1>32. CASE SweepStranded
  BY <1>32 DEF SweepStranded, locals, WorksOnLeg
<1>33. CASE UNCHANGED vars
  BY <1>33 DEF vars, locals, WorksOnLeg
<1>34. ASSUME NEW c \in Callers, Retotal(c) PROVE TypeInv'
  BY <1>0, <1>34 DEF Retotal, LocalsTyped, WorksOnLeg, Labels, Goto
<1> QED
  BY <1>1, <1>2, <1>3, <1>4, <1>5, <1>6, <1>7, <1>8, <1>9, <1>10, <1>11, <1>12, <1>13,
     <1>14, <1>15, <1>16, <1>17, <1>18, <1>19, <1>20, <1>21, <1>22, <1>23, <1>24, <1>25,
     <1>26, <1>27, <1>28, <1>29, <1>30, <1>31, <1>32, <1>33, <1>34, Decisions
  DEF Next, Begin, Step

\* The types hold at the start.
LEMMA TypeInit == Init => TypeInv
<1> SUFFICES ASSUME Init PROVE TypeInv
  OBVIOUS
<1>1. leg \in [LegNumbers -> Leg]
  BY ConstantsAssumption DEF Init, Leg, LegStatuses
<1>2. LocalsTyped
  BY ConstantsAssumption DEF Init, LocalsTyped, WorksOnLeg, Labels
<1>3. status \in Statuses /\ held \in BOOLEAN /\ payable \in 0..Net
  BY ConstantsAssumption DEF Init, Statuses
<1>4. ledger \subseteq LegNumbers \X EntryTypes /\ faults \in 0..MaxFaults
      /\ basis \in [LegNumbers -> 0..Net] /\ closedFor \in 0..Net
  BY ConstantsAssumption DEF Init
<1> QED
  BY <1>1, <1>2, <1>3, <1>4 DEF TypeInv, TypeOK, LocalsTyped, Leg

\* The type invariant of a payout.
THEOREM TypeCorrect == Spec => []TypeOK
<1>1. TypeInv => TypeOK
  BY DEF TypeInv
<1> QED
  BY <1>1, TypeInit, TypeStep, PTL DEF Spec

-----------------------------------------------------------------------------
(* The invariant.                                                          *)

\* The confirmation that found the settlement paid up still finds it so, unless
\* the whole payout was reversed meanwhile.
PaidInv ==
  /\ PaidInFull
  /\ \A c \in Callers :
       /\ pc[c] \in {"bookfinal", "reserve", "finish"} => PaidUp(c) \/ status = "REVERSED"
       /\ pc[c] = "unbook" => status = "REVERSED"

\* What a request books, and what it reverses, are legs that were paid.
Settled(n) == leg[n].status \in {"PAID", "REVERSED"}

BooksInv ==
  /\ BooksFollowLegs
  /\ \A c \in Callers :
       /\ pc[c] \in {"sum", "book", "bookfinal"} => Settled(num[c])
       /\ pc[c] \in {"reverse", "unbook"} => \A n \in legs[c] : Settled(n)

\* One leg is in flight.  A request about to open one that missed no leg, and a leg
\* such a request opened, stay within the payable that was read.
CoveredInv ==
  /\ \A m, n \in LegsIn("INITIATED") : m = n
  /\ \A c \in Callers : pc[c] = "open" /\ ~missed[c] => PaidTotal + owed[c] <= net[c]
  /\ \A n \in LegsIn("INITIATED") :
       basis[n] # 0 => PaidTotal + leg[n].amount <= basis[n]

\* Only a settlement that has closed lets its payments go.
LockInv ==
  /\ ~held => phase = "closed"
  /\ \A c \in Callers : pc[c] = "release" => phase = "closed"

Inv == TypeInv /\ PaidInv /\ BooksInv /\ CoveredInv /\ LockInv

-----------------------------------------------------------------------------
(* What the steps do to the legs and to the status.                        *)

\* The total stays when no leg changes, when one is opened and when one fails.
LEMMA TotalStays ==
  ASSUME TypeInv, TypeInv',
         leg' = leg \/ \E c \in Callers : OpenLeg(c) \/ BounceLeg(c)
  PROVE  PaidTotal' = PaidTotal
<1>1. CASE leg' = leg
  BY <1>1 DEF PaidTotal, Amounts, LegsIn
<1>2. ASSUME NEW c \in Callers, OpenLeg(c) PROVE PaidTotal' = PaidTotal
  <2>1. /\ leg[num[c]].status = "NONE" /\ leg'[num[c]].status = "INITIATED"
        /\ \A n \in LegNumbers \ {num[c]} : leg'[n] = leg[n]
    BY <1>2 DEF OpenLeg, LegFree, TypeInv, TypeOK, WorksOnLeg
  <2>2. LegsIn("PAID")' = LegsIn("PAID") /\ num[c] \notin LegsIn("PAID")
    BY <2>1 DEF LegsIn
  <2> QED
    BY <2>1, <2>2, TotalKept DEF LegsIn, TypeInv
<1>3. ASSUME NEW c \in Callers, BounceLeg(c) PROVE PaidTotal' = PaidTotal
  <2>1. \A n \in LegNumbers : leg'[n].amount = leg[n].amount
                             /\ (leg'[n].status = "PAID" <=> leg[n].status = "PAID")
    <3>1. leg \in [LegNumbers -> Leg] /\ num[c] \in LegNumbers
      BY <1>3 DEF TypeInv, TypeOK, Leg, WorksOnLeg, BounceLeg
    <3>2. leg' = [leg EXCEPT ![num[c]].status =
                    IF leg[num[c]].status = "INITIATED" THEN "FAILED" ELSE @]
      BY <1>3 DEF BounceLeg, Bounces
    <3> QED
      BY <3>1, <3>2 DEF Leg
  <2>2. LegsIn("PAID")' = LegsIn("PAID") /\ LegsIn("PAID") \subseteq LegNumbers
    BY <2>1 DEF LegsIn
  <2> QED
    BY <2>1, <2>2, TotalKept DEF TypeInv
<1> QED
  BY <1>1, <1>2, <1>3

\* A confirmed leg is paid with no more than it was opened for.
LEMMA LegPaid ==
  ASSUME TypeInv, TypeInv', NEW c \in Callers, PayLeg(c)
  PROVE  /\ num[c] \in LegNumbers
         /\ leg[num[c]].status = "INITIATED" /\ leg'[num[c]].status = "PAID"
         /\ leg'[num[c]].amount <= leg[num[c]].amount
         /\ \A n \in LegNumbers \ {num[c]} : leg'[n] = leg[n]
         /\ PaidTotal' = leg'[num[c]].amount + PaidTotal
<1>1. num[c] \in LegNumbers /\ leg[num[c]].status = "INITIATED"
      /\ leg[num[c]].amount \in 0..Net
  BY DEF PayLeg, TypeInv, TypeOK, WorksOnLeg
<1>2. PICK a \in 1..leg[num[c]].amount :
        leg' = [leg EXCEPT ![num[c]] = [status |-> "PAID", amount |-> a]]
  BY DEF PayLeg
<1>3. leg'[num[c]] = [status |-> "PAID", amount |-> a]
      /\ \A n \in LegNumbers \ {num[c]} : leg'[n] = leg[n]
  BY <1>1, <1>2 DEF TypeInv, TypeOK
<1>4. a <= leg[num[c]].amount
  BY <1>1, ConstantsAssumption
<1>5. PaidTotal' = leg'[num[c]].amount + PaidTotal
  BY <1>1, <1>3, TotalRises DEF TypeInv
<1> QED
  BY <1>1, <1>3, <1>4, <1>5

\* Reversing the paid legs leaves no more paid than there was.
LEMMA LegsReversed ==
  ASSUME TypeInv, TypeInv', NEW c \in Callers, MarkLegsReversed(c)
  PROVE  /\ PaidTotal' <= PaidTotal
         /\ \A n \in LegNumbers :
              leg'[n].amount = leg[n].amount
              /\ leg'[n].status = IF n \in legs[c] THEN "REVERSED" ELSE leg[n].status
<1>1. \A n \in LegNumbers :
        leg'[n].amount = leg[n].amount
        /\ leg'[n].status = IF n \in legs[c] THEN "REVERSED" ELSE leg[n].status
  <2>1. leg \in [LegNumbers -> Leg]
    BY DEF TypeInv, TypeOK, Leg
  <2>2. leg' = [n \in LegNumbers |->
                 IF n \in legs[c] THEN [leg[n] EXCEPT !.status = "REVERSED"] ELSE leg[n]]
    BY DEF MarkLegsReversed
  <2> QED
    BY <2>1, <2>2 DEF Leg
<1>2. LegsIn("PAID")' \subseteq LegsIn("PAID")
  BY <1>1 DEF LegsIn
<1> QED
  BY <1>1, <1>2, TotalFalls DEF TypeInv

\* A settlement that has closed is never moved again.
LEMMA StatusMoves ==
  ASSUME TypeInv, [Next]_vars
  PROVE  status' = status \/ status' \in Allowed[status]
<1> DEFINE Goal == status' = status \/ status' \in Allowed[status]
<1> USE DEF CanMove
<1>1. ASSUME NEW c \in Callers, Decides(c) PROVE Goal
  BY <1>1 DEF Decides, Decide
<1>2. ASSUME NEW c \in Callers, Rebuild(c) PROVE Goal
  BY <1>2 DEF Rebuild
<1>3. ASSUME NEW c \in Callers, Park(c) PROVE Goal
  BY <1>3 DEF Park
<1>4. ASSUME NEW c \in Callers, MoveToProcessing(c) PROVE Goal
  BY <1>4 DEF MoveToProcessing
<1>5. ASSUME NEW c \in Callers, Finish(c) PROVE Goal
  BY <1>5 DEF Finish
<1>6. ASSUME NEW c \in Callers, MarkFailed(c) PROVE Goal
  BY <1>6 DEF MarkFailed
<1>7. ASSUME NEW c \in Callers, MarkReversed(c) PROVE Goal
  BY <1>7 DEF MarkReversed
<1>8. CASE UNCHANGED status
  BY <1>8
<1> QED
  BY <1>1, <1>2, <1>3, <1>4, <1>5, <1>6, <1>7, <1>8, Decisions, ZenonT(30)
  DEF Next, Begin, Step, StartRebuild, StartPayout, StartConfirm, StartFail, StartReverse, Release,
  LookForLeg, CountLegs, TotalPaid, OpenLeg, OpenRefused, FindLeg, PayLeg, PayRefused,
  SumLegs, PostPayout, PostReserve, Heal, FindBounced, BounceLeg, ReverseRefused, Retotal,
  PostReversal, MarkLegsReversed, Crash, SweepStranded, vars

\* A settlement stays paid in full, and every confirmation under way to that.
LEMMA PaidStep == TypeInv /\ TypeInv' /\ PaidInv /\ [Next]_vars => PaidInv'
<1> SUFFICES ASSUME TypeInv, TypeInv', PaidInv, [Next]_vars PROVE PaidInv'
  OBVIOUS
<1>0. /\ pc \in [Callers -> Labels] /\ Net \in Nat
      /\ PaidTotal \in Nat /\ PaidTotal' \in Nat
      /\ net \in [Callers -> 0..Net] /\ closedFor \in 0..Net
      /\ Allowed["REVERSED"] = {} /\ "PAID" \notin Releasing
  <2>1. PaidTotal \in Nat
    BY TotalNat DEF TypeInv
  <2>2. PaidTotal' \in Nat
    BY TotalNatNext DEF TypeInv
  <2> QED
    BY <2>1, <2>2, ConstantsAssumption DEF TypeInv, TypeOK, Allowed, Statuses, Releasing
<1> USE DEF PaidInv, PaidInFull, PaidUp, Goto, Done, locals, history
<1>1. ASSUME NEW c \in Callers, Decides(c) PROVE PaidInv'
  BY <1>0, <1>1, TotalStays DEF Decides, Decide, CanMove
<1>2. ASSUME NEW c \in Callers, StartRebuild(c) PROVE PaidInv'
  BY <1>0, <1>2, TotalStays DEF StartRebuild, CanMove
<1>3. ASSUME NEW c \in Callers, StartPayout(c) PROVE PaidInv'
  BY <1>0, <1>3, TotalStays DEF StartPayout, CanMove
<1>4. ASSUME NEW c \in Callers, StartConfirm(c) PROVE PaidInv'
  BY <1>0, <1>4, TotalStays DEF StartConfirm, CanMove
<1>5. ASSUME NEW c \in Callers, StartFail(c) PROVE PaidInv'
  BY <1>0, <1>5, TotalStays DEF StartFail, CanMove
<1>6. ASSUME NEW c \in Callers, StartReverse(c) PROVE PaidInv'
  BY <1>0, <1>6, TotalStays DEF StartReverse, CanMove
<1>7. ASSUME NEW c \in Callers, Rebuild(c) PROVE PaidInv'
  BY <1>0, <1>7, TotalStays DEF Rebuild, CanMove
<1>8. ASSUME NEW c \in Callers, Release(c) PROVE PaidInv'
  BY <1>0, <1>8, TotalStays DEF Release, CanMove
<1>9. ASSUME NEW c \in Callers, LookForLeg(c) PROVE PaidInv'
  BY <1>0, <1>9, TotalStays DEF LookForLeg, CanMove
<1>10. ASSUME NEW c \in Callers, Park(c) PROVE PaidInv'
  BY <1>0, <1>10, TotalStays DEF Park, CanMove
<1>11. ASSUME NEW c \in Callers, CountLegs(c) PROVE PaidInv'
  BY <1>0, <1>11, TotalStays DEF CountLegs, CanMove
<1>12. ASSUME NEW c \in Callers, TotalPaid(c) PROVE PaidInv'
  BY <1>0, <1>12, TotalStays DEF TotalPaid, CanMove
<1>13. ASSUME NEW c \in Callers, OpenLeg(c) PROVE PaidInv'
  BY <1>0, <1>13, TotalStays DEF OpenLeg
<1>14. ASSUME NEW c \in Callers, OpenRefused(c) PROVE PaidInv'
  BY <1>0, <1>14, TotalStays DEF OpenRefused, CanMove
<1>15. ASSUME NEW c \in Callers, MoveToProcessing(c) PROVE PaidInv'
  BY <1>0, <1>15, TotalStays DEF MoveToProcessing, CanMove
<1>16. ASSUME NEW c \in Callers, FindLeg(c) PROVE PaidInv'
  BY <1>0, <1>16, TotalStays DEF FindLeg, CanMove
<1>17. ASSUME NEW c \in Callers, PayLeg(c) PROVE PaidInv'
  <2>1. leg'[num[c]].amount \in Nat
    BY <1>17, LegPaid, ConstantsAssumption DEF TypeInv, TypeOK
  <2>2. PaidTotal' >= PaidTotal
    BY <1>0, <1>17, <2>1, LegPaid
  <2> QED
    BY <1>0, <1>17, <2>2 DEF PayLeg
<1>18. ASSUME NEW c \in Callers, PayRefused(c) PROVE PaidInv'
  BY <1>0, <1>18, TotalStays DEF PayRefused, CanMove
<1>19. ASSUME NEW c \in Callers, SumLegs(c) PROVE PaidInv'
  BY <1>0, <1>19, TotalStays DEF SumLegs, CanMove
<1>20. ASSUME NEW c \in Callers, PostPayout(c) PROVE PaidInv'
  BY <1>0, <1>20, TotalStays DEF PostPayout, CanMove
<1>21. ASSUME NEW c \in Callers, PostReserve(c) PROVE PaidInv'
  BY <1>0, <1>21, TotalStays DEF PostReserve, CanMove
<1>22. ASSUME NEW c \in Callers, Heal(c) PROVE PaidInv'
  BY <1>0, <1>22, TotalStays DEF Heal, CanMove
<1>23. ASSUME NEW c \in Callers, Finish(c) PROVE PaidInv'
  BY <1>0, <1>23, TotalStays DEF Finish, CanMove
<1>24. ASSUME NEW c \in Callers, FindBounced(c) PROVE PaidInv'
  BY <1>0, <1>24, TotalStays DEF FindBounced, CanMove
<1>25. ASSUME NEW c \in Callers, BounceLeg(c) PROVE PaidInv'
  BY <1>0, <1>25, TotalStays DEF BounceLeg
<1>26. ASSUME NEW c \in Callers, MarkFailed(c) PROVE PaidInv'
  BY <1>0, <1>26, TotalStays DEF MarkFailed, CanMove
<1>27. ASSUME NEW c \in Callers, MarkReversed(c) PROVE PaidInv'
  BY <1>0, <1>27, TotalStays DEF MarkReversed, CanMove
<1>28. ASSUME NEW c \in Callers, ReverseRefused(c) PROVE PaidInv'
  BY <1>0, <1>28, TotalStays DEF ReverseRefused, CanMove
<1>29. ASSUME NEW c \in Callers, PostReversal(c) PROVE PaidInv'
  BY <1>0, <1>29, TotalStays DEF PostReversal, CanMove
<1>30. ASSUME NEW c \in Callers, MarkLegsReversed(c) PROVE PaidInv'
  BY <1>0, <1>30, LegsReversed DEF MarkLegsReversed
<1>31. ASSUME NEW c \in Callers, Crash(c) PROVE PaidInv'
  BY <1>0, <1>31, TotalStays DEF Crash, CanMove
<1>32. CASE SweepStranded
  BY <1>0, <1>32, TotalStays DEF SweepStranded, CanMove
<1>33. CASE UNCHANGED vars
  BY TotalStays, <1>33 DEF vars
<1>34. ASSUME NEW c \in Callers, Retotal(c) PROVE PaidInv'
  BY <1>0, <1>34, TotalStays DEF Retotal
<1> QED
  BY <1>1, <1>2, <1>3, <1>4, <1>5, <1>6, <1>7, <1>8, <1>9, <1>10, <1>11, <1>12, <1>13,
     <1>14, <1>15, <1>16, <1>17, <1>18, <1>19, <1>20, <1>21, <1>22, <1>23, <1>24, <1>25,
     <1>26, <1>27, <1>28, <1>29, <1>30, <1>31, <1>32, <1>33, <1>34, Decisions
  DEF Next, Begin, Step

\* The ledger keeps following the legs.
LEMMA BooksStep ==
  TypeInv /\ TypeInv' /\ PaidInv /\ BooksInv /\ [Next]_vars => BooksInv'
<1> SUFFICES ASSUME TypeInv, TypeInv', PaidInv, BooksInv, [Next]_vars PROVE BooksInv'
  OBVIOUS
<1>0. /\ pc \in [Callers -> Labels] /\ leg \in [LegNumbers -> Leg]
      /\ num \in [Callers -> 0..MaxLegs] /\ legs \in [Callers -> SUBSET LegNumbers]
      /\ \A c \in Callers : WorksOnLeg(c) => num[c] \in LegNumbers
      /\ faults \in Nat
      /\ \A c \in Callers : pc[c] = "unbook" => status = "REVERSED"
      /\ Allowed["REVERSED"] = {}
  BY ConstantsAssumption DEF TypeInv, TypeOK, Leg, PaidInv, Allowed, Statuses
<1> USE DEF BooksInv, BooksFollowLegs, Booked, Settled, Goto, Done, locals, history
<1>1. ASSUME NEW c \in Callers, Decides(c) PROVE BooksInv'
  BY <1>0, <1>1 DEF Decides, Decide, CanMove
<1>2. ASSUME NEW c \in Callers, StartRebuild(c) PROVE BooksInv'
  BY <1>0, <1>2 DEF StartRebuild, CanMove, WorksOnLeg
<1>3. ASSUME NEW c \in Callers, StartPayout(c) PROVE BooksInv'
  BY <1>0, <1>3 DEF StartPayout, CanMove, WorksOnLeg
<1>4. ASSUME NEW c \in Callers, StartConfirm(c) PROVE BooksInv'
  BY <1>0, <1>4 DEF StartConfirm, CanMove, WorksOnLeg
<1>5. ASSUME NEW c \in Callers, StartFail(c) PROVE BooksInv'
  BY <1>0, <1>5 DEF StartFail, CanMove, WorksOnLeg
<1>6. ASSUME NEW c \in Callers, StartReverse(c) PROVE BooksInv'
  BY <1>0, <1>6 DEF StartReverse, LegsIn
<1>7. ASSUME NEW c \in Callers, Rebuild(c) PROVE BooksInv'
  BY <1>0, <1>7 DEF Rebuild, CanMove
<1>8. ASSUME NEW c \in Callers, Release(c) PROVE BooksInv'
  BY <1>0, <1>8 DEF Release, CanMove, WorksOnLeg
<1>9. ASSUME NEW c \in Callers, LookForLeg(c) PROVE BooksInv'
  BY <1>0, <1>9 DEF LookForLeg, CanMove, WorksOnLeg
<1>10. ASSUME NEW c \in Callers, Park(c) PROVE BooksInv'
  BY <1>0, <1>10 DEF Park, CanMove, WorksOnLeg
<1>11. ASSUME NEW c \in Callers, CountLegs(c) PROVE BooksInv'
  BY <1>0, <1>11 DEF CountLegs, CanMove, WorksOnLeg
<1>12. ASSUME NEW c \in Callers, TotalPaid(c) PROVE BooksInv'
  BY <1>0, <1>12 DEF TotalPaid, CanMove, WorksOnLeg
<1>13. ASSUME NEW c \in Callers, OpenLeg(c) PROVE BooksInv'
  BY <1>0, <1>13 DEF OpenLeg, LegFree, WorksOnLeg
<1>14. ASSUME NEW c \in Callers, OpenRefused(c) PROVE BooksInv'
  BY <1>0, <1>14 DEF OpenRefused, CanMove, WorksOnLeg
<1>15. ASSUME NEW c \in Callers, MoveToProcessing(c) PROVE BooksInv'
  BY <1>0, <1>15 DEF MoveToProcessing, CanMove, WorksOnLeg
<1>16. ASSUME NEW c \in Callers, FindLeg(c) PROVE BooksInv'
  BY <1>0, <1>16 DEF FindLeg, CanMove, WorksOnLeg
<1>17. ASSUME NEW c \in Callers, PayLeg(c) PROVE BooksInv'
  <2>1. /\ num[c] \in LegNumbers /\ leg'[num[c]].status = "PAID"
        /\ \A n \in LegNumbers \ {num[c]} : leg'[n] = leg[n]
    BY <1>17, LegPaid
  <2>2. /\ pc[c] = "pay" /\ pc' = [pc EXCEPT ![c] = "sum"]
        /\ num' = num /\ legs' = legs /\ ledger' = ledger /\ faults' = faults
        /\ status' = status
    BY <1>17 DEF PayLeg
  <2>3. \A n \in LegNumbers : Settled(n) => Settled(n)'
    BY <2>1
  <2>4. \A a \in Callers \ {c} : pc'[a] = pc[a]
    BY <1>0, <2>2
  <2>5. pc'[c] = "sum"
    BY <1>0, <2>2
  <2>6. ASSUME NEW n \in LegNumbers, Settled(n)', faults' = 0
        PROVE Booked(n, "PAYOUT")' \/ \E a \in Callers :
                num'[a] = n /\ pc'[a] \in {"sum", "book", "bookfinal"}
    <3>1. CASE n = num[c]
      BY <2>2, <2>5, <3>1
    <3>2. CASE n # num[c]
      <4>1. Settled(n) /\ faults = 0
        BY <2>1, <2>2, <2>6, <3>2
      <4>2. CASE Booked(n, "PAYOUT")
        BY <2>2, <4>2
      <4>3. ASSUME NEW a \in Callers, num[a] = n, pc[a] \in {"sum", "book", "bookfinal"}
            PROVE num'[a] = n /\ pc'[a] \in {"sum", "book", "bookfinal"}
        BY <2>2, <2>4, <4>3
      <4> QED
        BY <4>1, <4>2, <4>3
    <3> QED
      BY <3>1, <3>2
  <2>7. \A n \in LegNumbers :
          /\ Booked(n, "PAYOUT")' => Settled(n)'
          /\ Booked(n, "PAYOUT_REVERSAL")' => status' = "REVERSED"
    BY <2>2, <2>3
  <2>8. \A a \in Callers : /\ WorksOnLeg(a) => num[a] \in LegNumbers
                          /\ legs[a] \subseteq LegNumbers
    BY <1>0
  <2>9. \A a \in Callers :
          /\ pc'[a] \in {"sum", "book", "bookfinal"} => Settled(num[a])'
          /\ pc'[a] \in {"reverse", "unbook"} => \A n \in legs[a] : Settled(n)'
    BY <2>1, <2>2, <2>3, <2>4, <2>5, <2>8 DEF WorksOnLeg
  <2> QED
    BY <2>2, <2>6, <2>7, <2>9
<1>18. ASSUME NEW c \in Callers, PayRefused(c) PROVE BooksInv'
  BY <1>0, <1>18 DEF PayRefused, CanMove, WorksOnLeg
<1>19. ASSUME NEW c \in Callers, SumLegs(c) PROVE BooksInv'
  BY <1>0, <1>19 DEF SumLegs, CanMove, WorksOnLeg
<1>20. ASSUME NEW c \in Callers, PostPayout(c) PROVE BooksInv'
  BY <1>0, <1>20 DEF PostPayout, CanMove, WorksOnLeg
<1>21. ASSUME NEW c \in Callers, PostReserve(c) PROVE BooksInv'
  BY <1>0, <1>21 DEF PostReserve, CanMove, WorksOnLeg
<1>22. ASSUME NEW c \in Callers, Heal(c) PROVE BooksInv'
  BY <1>0, <1>22 DEF Heal, CanMove, WorksOnLeg
<1>23. ASSUME NEW c \in Callers, Finish(c) PROVE BooksInv'
  BY <1>0, <1>23 DEF Finish, CanMove, WorksOnLeg
<1>24. ASSUME NEW c \in Callers, FindBounced(c) PROVE BooksInv'
  BY <1>0, <1>24 DEF FindBounced, CanMove, WorksOnLeg
<1>25. ASSUME NEW c \in Callers, BounceLeg(c) PROVE BooksInv'
  BY <1>0, <1>25 DEF BounceLeg, Bounces, WorksOnLeg
<1>26. ASSUME NEW c \in Callers, MarkFailed(c) PROVE BooksInv'
  BY <1>0, <1>26 DEF MarkFailed, CanMove, WorksOnLeg
<1>27. ASSUME NEW c \in Callers, MarkReversed(c) PROVE BooksInv'
  BY <1>0, <1>27, ZenonT(30) DEF MarkReversed, CanMove, WorksOnLeg
<1>28. ASSUME NEW c \in Callers, ReverseRefused(c) PROVE BooksInv'
  BY <1>0, <1>28 DEF ReverseRefused, CanMove, WorksOnLeg
<1>29. ASSUME NEW c \in Callers, PostReversal(c) PROVE BooksInv'
  BY <1>0, <1>29 DEF PostReversal, Unbooked
<1>30. ASSUME NEW c \in Callers, MarkLegsReversed(c) PROVE BooksInv'
  <2>1. \A n \in LegNumbers :
          leg'[n].status = IF n \in legs[c] THEN "REVERSED" ELSE leg[n].status
    BY <1>30, LegsReversed
  <2>2. /\ pc[c] = "unbook" /\ pc' = [pc EXCEPT ![c] = "release"]
        /\ num' = num /\ legs' = legs /\ ledger' = ledger /\ faults' = faults
        /\ status' = status
    BY <1>30 DEF MarkLegsReversed
  <2>3. \A n \in LegNumbers : Settled(n)' <=> Settled(n)
    BY <2>1, <2>2
  <2>4. /\ \A a \in Callers \ {c} : pc'[a] = pc[a]
        /\ pc'[c] = "release"
    BY <1>0, <2>2
  <2>5. \A a \in Callers : /\ WorksOnLeg(a) => num[a] \in LegNumbers
                          /\ legs[a] \subseteq LegNumbers
    BY <1>0
  <2>6. \A n \in LegNumbers : Settled(n)' /\ faults' = 0 =>
          Booked(n, "PAYOUT")' \/ \E a \in Callers :
            num'[a] = n /\ pc'[a] \in {"sum", "book", "bookfinal"}
    <3> SUFFICES ASSUME NEW n \in LegNumbers, Settled(n)', faults' = 0
                 PROVE Booked(n, "PAYOUT")' \/ \E a \in Callers :
                         num'[a] = n /\ pc'[a] \in {"sum", "book", "bookfinal"}
      OBVIOUS
    <3>1. Settled(n) /\ faults = 0
      BY <2>2, <2>3
    <3>2. CASE Booked(n, "PAYOUT")
      BY <2>2, <3>2
    <3>3. ASSUME NEW a \in Callers, num[a] = n, pc[a] \in {"sum", "book", "bookfinal"}
          PROVE num'[a] = n /\ pc'[a] \in {"sum", "book", "bookfinal"}
      BY <2>2, <2>4, <3>3
    <3> QED
      BY <3>1, <3>2, <3>3
  <2>7. \A a \in Callers :
          /\ pc'[a] \in {"sum", "book", "bookfinal"} => Settled(num[a])'
          /\ pc'[a] \in {"reverse", "unbook"} => \A n \in legs[a] : Settled(n)'
    BY <2>2, <2>3, <2>4, <2>5 DEF WorksOnLeg
  <2> QED
    BY <2>2, <2>3, <2>6, <2>7
<1>31. ASSUME NEW c \in Callers, Crash(c) PROVE BooksInv'
  BY <1>0, <1>31 DEF Crash, CanMove, WorksOnLeg
<1>32. CASE SweepStranded
  BY <1>0, <1>32 DEF SweepStranded, CanMove, WorksOnLeg
<1>33. CASE UNCHANGED vars
  BY <1>33 DEF vars
<1>34. ASSUME NEW c \in Callers, Retotal(c) PROVE BooksInv'
  BY <1>0, <1>34 DEF Retotal, WorksOnLeg
<1> QED
  BY <1>1, <1>2, <1>3, <1>4, <1>5, <1>6, <1>7, <1>8, <1>9, <1>10, <1>11, <1>12, <1>13,
     <1>14, <1>15, <1>16, <1>17, <1>18, <1>19, <1>20, <1>21, <1>22, <1>23, <1>24, <1>25,
     <1>26, <1>27, <1>28, <1>29, <1>30, <1>31, <1>32, <1>33, <1>34, Decisions
  DEF Next, Begin, Step

\* What is paid and promised stays covered.
LEMMA CoveredStep ==
  TypeInv /\ TypeInv' /\ CoveredInv /\ [Next]_vars => CoveredInv'
<1> SUFFICES ASSUME TypeInv, TypeInv', CoveredInv, [Next]_vars PROVE CoveredInv'
  OBVIOUS
<1>0. /\ pc \in [Callers -> Labels] /\ leg \in [LegNumbers -> Leg]
      /\ owed \in [Callers -> 0..Net] /\ net \in [Callers -> 0..Net]
      /\ missed \in [Callers -> BOOLEAN] /\ basis \in [LegNumbers -> 0..Net]
      /\ \A c \in Callers : WorksOnLeg(c) => num[c] \in LegNumbers
      /\ Net \in Nat /\ PaidTotal \in Nat /\ PaidTotal' \in Nat
      /\ \A n \in LegNumbers : leg[n].amount \in 0..Net
  <2>1. PaidTotal \in Nat
    BY TotalNat DEF TypeInv
  <2>2. PaidTotal' \in Nat
    BY TotalNatNext DEF TypeInv
  <2> QED
    BY <2>1, <2>2, ConstantsAssumption DEF TypeInv, TypeOK, Leg
<1> USE DEF CoveredInv, LegsIn, Goto, Done, locals, history
<1>1. ASSUME NEW c \in Callers, Decides(c) PROVE CoveredInv'
  BY <1>0, <1>1, TotalStays DEF Decides, Decide
<1>2. ASSUME NEW c \in Callers, StartRebuild(c) PROVE CoveredInv'
  BY <1>0, <1>2, TotalStays DEF StartRebuild
<1>3. ASSUME NEW c \in Callers, StartPayout(c) PROVE CoveredInv'
  BY <1>0, <1>3, TotalStays DEF StartPayout
<1>4. ASSUME NEW c \in Callers, StartConfirm(c) PROVE CoveredInv'
  BY <1>0, <1>4, TotalStays DEF StartConfirm
<1>5. ASSUME NEW c \in Callers, StartFail(c) PROVE CoveredInv'
  BY <1>0, <1>5, TotalStays DEF StartFail
<1>6. ASSUME NEW c \in Callers, StartReverse(c) PROVE CoveredInv'
  BY <1>0, <1>6, TotalStays DEF StartReverse
<1>7. ASSUME NEW c \in Callers, Rebuild(c) PROVE CoveredInv'
  BY <1>0, <1>7, TotalStays DEF Rebuild
<1>8. ASSUME NEW c \in Callers, Release(c) PROVE CoveredInv'
  BY <1>0, <1>8, TotalStays DEF Release
<1>9. ASSUME NEW c \in Callers, LookForLeg(c) PROVE CoveredInv'
  BY <1>0, <1>9, TotalStays DEF LookForLeg
<1>10. ASSUME NEW c \in Callers, Park(c) PROVE CoveredInv'
  BY <1>0, <1>10, TotalStays DEF Park
<1>11. ASSUME NEW c \in Callers, CountLegs(c) PROVE CoveredInv'
  BY <1>0, <1>11, TotalStays DEF CountLegs
<1>12. ASSUME NEW c \in Callers, TotalPaid(c) PROVE CoveredInv'
  BY <1>0, <1>12, TotalStays DEF TotalPaid, Outstanding, NothingOwed
<1>13. ASSUME NEW c \in Callers, OpenLeg(c) PROVE CoveredInv'
  BY <1>0, <1>13, TotalStays DEF OpenLeg, LegFree, WorksOnLeg
<1>14. ASSUME NEW c \in Callers, OpenRefused(c) PROVE CoveredInv'
  BY <1>0, <1>14, TotalStays DEF OpenRefused
<1>15. ASSUME NEW c \in Callers, MoveToProcessing(c) PROVE CoveredInv'
  BY <1>0, <1>15, TotalStays DEF MoveToProcessing
<1>16. ASSUME NEW c \in Callers, FindLeg(c) PROVE CoveredInv'
  BY <1>0, <1>16, TotalStays DEF FindLeg
<1>17. ASSUME NEW c \in Callers, PayLeg(c) PROVE CoveredInv'
  <2>1. /\ num[c] \in LegNumbers
        /\ leg[num[c]].status = "INITIATED" /\ leg'[num[c]].status = "PAID"
        /\ \A n \in LegNumbers \ {num[c]} : leg'[n] = leg[n]
    BY <1>17, LegPaid
  <2>2. /\ pc' = [pc EXCEPT ![c] = "sum"]
        /\ missed' = [a \in Callers |-> missed[a] \/ pc[a] = "open"]
    BY <1>17 DEF PayLeg
  <2>3. \A a \in Callers : pc'[a] = "open" => missed'[a]
    BY <1>0, <2>2
  <2>4. LegsIn("INITIATED")' = {}
    <3>1. LegsIn("INITIATED") = {num[c]}
      BY <2>1
    <3>2. \A n \in LegNumbers : leg'[n].status # "INITIATED"
      BY <2>1, <3>1
    <3> QED
      BY <3>2
  <2> QED
    BY <2>3, <2>4
<1>18. ASSUME NEW c \in Callers, PayRefused(c) PROVE CoveredInv'
  BY <1>0, <1>18, TotalStays DEF PayRefused
<1>19. ASSUME NEW c \in Callers, SumLegs(c) PROVE CoveredInv'
  BY <1>0, <1>19, TotalStays DEF SumLegs
<1>20. ASSUME NEW c \in Callers, PostPayout(c) PROVE CoveredInv'
  BY <1>0, <1>20, TotalStays DEF PostPayout
<1>21. ASSUME NEW c \in Callers, PostReserve(c) PROVE CoveredInv'
  BY <1>0, <1>21, TotalStays DEF PostReserve
<1>22. ASSUME NEW c \in Callers, Heal(c) PROVE CoveredInv'
  BY <1>0, <1>22, TotalStays DEF Heal
<1>23. ASSUME NEW c \in Callers, Finish(c) PROVE CoveredInv'
  BY <1>0, <1>23, TotalStays DEF Finish
<1>24. ASSUME NEW c \in Callers, FindBounced(c) PROVE CoveredInv'
  BY <1>0, <1>24, TotalStays DEF FindBounced
<1>25. ASSUME NEW c \in Callers, BounceLeg(c) PROVE CoveredInv'
  <2>1. PaidTotal' = PaidTotal
    BY <1>25, TotalStays
  <2>2. /\ pc[c] = "bounce" /\ pc' = [pc EXCEPT ![c] = "failed"]
        /\ UNCHANGED <<owed, net, missed, basis>>
        /\ leg' = [leg EXCEPT ![num[c]].status = IF Bounces(num[c]) THEN "FAILED" ELSE @]
    BY <1>25 DEF BounceLeg
  <2>3. /\ \A a \in Callers \ {c} : pc'[a] = pc[a]
        /\ pc'[c] = "failed"
    BY <1>0, <2>2
  <2>4. \A n \in LegNumbers : /\ leg'[n].amount = leg[n].amount
                            /\ leg'[n].status \in {leg[n].status, "FAILED"}
    BY <1>0, <2>2 DEF Leg
  <2>5. LegsIn("INITIATED")' \subseteq LegsIn("INITIATED")
    BY <2>4
  <2> QED
    BY <2>1, <2>2, <2>3, <2>4, <2>5
<1>26. ASSUME NEW c \in Callers, MarkFailed(c) PROVE CoveredInv'
  BY <1>0, <1>26, TotalStays DEF MarkFailed
<1>27. ASSUME NEW c \in Callers, MarkReversed(c) PROVE CoveredInv'
  BY <1>0, <1>27, TotalStays DEF MarkReversed
<1>28. ASSUME NEW c \in Callers, ReverseRefused(c) PROVE CoveredInv'
  BY <1>0, <1>28, TotalStays DEF ReverseRefused
<1>29. ASSUME NEW c \in Callers, PostReversal(c) PROVE CoveredInv'
  BY <1>0, <1>29, TotalStays DEF PostReversal
<1>30. ASSUME NEW c \in Callers, MarkLegsReversed(c) PROVE CoveredInv'
  <2>1. /\ PaidTotal' <= PaidTotal
        /\ \A n \in LegNumbers :
             leg'[n].amount = leg[n].amount
             /\ leg'[n].status = IF n \in legs[c] THEN "REVERSED" ELSE leg[n].status
    BY <1>30, LegsReversed
  <2>2. /\ pc[c] = "unbook" /\ pc' = [pc EXCEPT ![c] = "release"]
        /\ UNCHANGED <<owed, net, missed, basis>>
    BY <1>30 DEF MarkLegsReversed
  <2>3. /\ \A a \in Callers \ {c} : pc'[a] = pc[a]
        /\ pc'[c] = "release"
    BY <1>0, <2>2
  <2>4. LegsIn("INITIATED")' \subseteq LegsIn("INITIATED")
    BY <2>1
  <2>5. \A a \in Callers : owed[a] \in Nat
    BY <1>0
  <2>6. \A n \in LegNumbers : leg[n].amount \in Nat
    BY <1>0
  <2> QED
    BY <1>0, <2>1, <2>2, <2>3, <2>4, <2>5, <2>6
<1>31. ASSUME NEW c \in Callers, Crash(c) PROVE CoveredInv'
  BY <1>0, <1>31, TotalStays DEF Crash
<1>32. CASE SweepStranded
  BY <1>0, <1>32, TotalStays DEF SweepStranded
<1>33. CASE UNCHANGED vars
  BY <1>0, TotalStays, <1>33 DEF vars
<1>34. ASSUME NEW c \in Callers, Retotal(c) PROVE CoveredInv'
  BY <1>0, <1>34, TotalStays DEF Retotal
<1> QED
  BY <1>1, <1>2, <1>3, <1>4, <1>5, <1>6, <1>7, <1>8, <1>9, <1>10, <1>11, <1>12, <1>13,
     <1>14, <1>15, <1>16, <1>17, <1>18, <1>19, <1>20, <1>21, <1>22, <1>23, <1>24, <1>25,
     <1>26, <1>27, <1>28, <1>29, <1>30, <1>31, <1>32, <1>33, <1>34, Decisions
  DEF Next, Begin, Step

\* A settlement lets its payments go only once it has closed.
LEMMA LockStep ==
  TypeInv /\ PaidInv /\ LockInv /\ [Next]_vars => LockInv'
<1> SUFFICES ASSUME TypeInv, PaidInv, LockInv, [Next]_vars PROVE LockInv'
  OBVIOUS
<1>0. /\ pc \in [Callers -> Labels]
      /\ \A s \in Statuses : s \in Releasing <=> Allowed[s] = {}
      /\ "PAID" \notin Releasing /\ "REVERSED" \in Releasing
      /\ status \in Statuses /\ status' \in Statuses
      /\ \A c \in Callers : pc[c] = "unbook" => status = "REVERSED"
      /\ status \in Releasing => status' = status
      /\ \A s \in {phase} : s = "closed" <=> status \in Releasing
      /\ \A s \in {phase'} : s = "closed" <=> status' \in Releasing
  <2>1. \A s \in Statuses : s \in Releasing <=> Allowed[s] = {}
    BY DEF Releasing, Allowed, Statuses
  <2>2. status \in Statuses /\ status' \in Statuses
    BY TypeStep DEF TypeInv, TypeOK
  <2>3. "PAID" \notin Releasing /\ "REVERSED" \in Releasing
    BY DEF Releasing
  <2>4. status \in Releasing => status' = status
    BY <2>1, <2>2, StatusMoves
  <2> QED
    BY <2>1, <2>2, <2>3, <2>4 DEF phase, PaidInv, TypeInv, TypeOK
<1>00. (phase = "closed" <=> status \in Releasing) /\ (phase' = "closed" <=> status' \in Releasing)
  BY <1>0
<1> USE DEF LockInv, Goto, Done
<1>1. ASSUME NEW c \in Callers, Decides(c) PROVE LockInv'
  BY <1>0, <1>00, <1>1 DEF Decides, Decide, CanMove
<1>2. ASSUME NEW c \in Callers, StartRebuild(c) PROVE LockInv'
  BY <1>0, <1>00, <1>2 DEF StartRebuild
<1>3. ASSUME NEW c \in Callers, StartPayout(c) PROVE LockInv'
  BY <1>0, <1>00, <1>3 DEF StartPayout
<1>4. ASSUME NEW c \in Callers, StartConfirm(c) PROVE LockInv'
  BY <1>0, <1>00, <1>4 DEF StartConfirm
<1>5. ASSUME NEW c \in Callers, StartFail(c) PROVE LockInv'
  BY <1>0, <1>00, <1>5 DEF StartFail
<1>6. ASSUME NEW c \in Callers, StartReverse(c) PROVE LockInv'
  BY <1>0, <1>00, <1>6 DEF StartReverse
<1>7. ASSUME NEW c \in Callers, Rebuild(c) PROVE LockInv'
  BY <1>0, <1>00, <1>7 DEF Rebuild
<1>8. ASSUME NEW c \in Callers, Release(c) PROVE LockInv'
  BY <1>0, <1>00, <1>8 DEF Release
<1>9. ASSUME NEW c \in Callers, LookForLeg(c) PROVE LockInv'
  BY <1>0, <1>00, <1>9 DEF LookForLeg
<1>10. ASSUME NEW c \in Callers, Park(c) PROVE LockInv'
  BY <1>0, <1>00, <1>10 DEF Park
<1>11. ASSUME NEW c \in Callers, CountLegs(c) PROVE LockInv'
  BY <1>0, <1>00, <1>11 DEF CountLegs
<1>12. ASSUME NEW c \in Callers, TotalPaid(c) PROVE LockInv'
  BY <1>0, <1>00, <1>12 DEF TotalPaid
<1>13. ASSUME NEW c \in Callers, OpenLeg(c) PROVE LockInv'
  BY <1>0, <1>00, <1>13 DEF OpenLeg
<1>14. ASSUME NEW c \in Callers, OpenRefused(c) PROVE LockInv'
  BY <1>0, <1>00, <1>14 DEF OpenRefused
<1>15. ASSUME NEW c \in Callers, MoveToProcessing(c) PROVE LockInv'
  BY <1>0, <1>00, <1>15 DEF MoveToProcessing
<1>16. ASSUME NEW c \in Callers, FindLeg(c) PROVE LockInv'
  BY <1>0, <1>00, <1>16 DEF FindLeg
<1>17. ASSUME NEW c \in Callers, PayLeg(c) PROVE LockInv'
  BY <1>0, <1>00, <1>17 DEF PayLeg
<1>18. ASSUME NEW c \in Callers, PayRefused(c) PROVE LockInv'
  BY <1>0, <1>00, <1>18 DEF PayRefused
<1>19. ASSUME NEW c \in Callers, SumLegs(c) PROVE LockInv'
  BY <1>0, <1>00, <1>19 DEF SumLegs
<1>20. ASSUME NEW c \in Callers, PostPayout(c) PROVE LockInv'
  BY <1>0, <1>00, <1>20 DEF PostPayout
<1>21. ASSUME NEW c \in Callers, PostReserve(c) PROVE LockInv'
  BY <1>0, <1>00, <1>21 DEF PostReserve
<1>22. ASSUME NEW c \in Callers, Heal(c) PROVE LockInv'
  BY <1>0, <1>00, <1>22 DEF Heal
<1>23. ASSUME NEW c \in Callers, Finish(c) PROVE LockInv'
  BY <1>0, <1>00, <1>23 DEF Finish
<1>24. ASSUME NEW c \in Callers, FindBounced(c) PROVE LockInv'
  BY <1>0, <1>00, <1>24 DEF FindBounced
<1>25. ASSUME NEW c \in Callers, BounceLeg(c) PROVE LockInv'
  BY <1>0, <1>00, <1>25 DEF BounceLeg
<1>26. ASSUME NEW c \in Callers, MarkFailed(c) PROVE LockInv'
  BY <1>0, <1>00, <1>26 DEF MarkFailed
<1>27. ASSUME NEW c \in Callers, MarkReversed(c) PROVE LockInv'
  BY <1>0, <1>00, <1>27 DEF MarkReversed
<1>28. ASSUME NEW c \in Callers, ReverseRefused(c) PROVE LockInv'
  BY <1>0, <1>00, <1>28 DEF ReverseRefused
<1>29. ASSUME NEW c \in Callers, PostReversal(c) PROVE LockInv'
  BY <1>0, <1>00, <1>29 DEF PostReversal
<1>30. ASSUME NEW c \in Callers, MarkLegsReversed(c) PROVE LockInv'
  BY <1>0, <1>00, <1>30 DEF MarkLegsReversed
<1>31. ASSUME NEW c \in Callers, Crash(c) PROVE LockInv'
  BY <1>0, <1>00, <1>31 DEF Crash
<1>32. CASE SweepStranded
  BY <1>0, <1>00, <1>32 DEF SweepStranded, Strandable
<1>33. CASE UNCHANGED vars
  BY <1>0, <1>00, <1>33 DEF vars
<1>34. ASSUME NEW c \in Callers, Retotal(c) PROVE LockInv'
  BY <1>0, <1>00, <1>34 DEF Retotal
<1> QED
  BY <1>1, <1>2, <1>3, <1>4, <1>5, <1>6, <1>7, <1>8, <1>9, <1>10, <1>11, <1>12, <1>13,
     <1>14, <1>15, <1>16, <1>17, <1>18, <1>19, <1>20, <1>21, <1>22, <1>23, <1>24, <1>25,
     <1>26, <1>27, <1>28, <1>29, <1>30, <1>31, <1>32, <1>33, <1>34, Decisions
  DEF Next, Begin, Step

-----------------------------------------------------------------------------
(* What holds of every payout.                                             *)

\* The invariant holds at the start.
LEMMA InvInit == Init => Inv
<1> SUFFICES ASSUME Init PROVE Inv
  OBVIOUS
<1>1. TypeInv
  BY TypeInit
<1>2. LegsIn("PAID") = {} /\ LegsIn("INITIATED") = {}
  BY DEF Init, LegsIn
<1>3. PaidTotal = 0
  BY <1>2, SumStep, FS_EmptySet DEF PaidTotal, Sum
<1> QED
  BY <1>1, <1>2, <1>3, ConstantsAssumption
  DEF Init, Inv, PaidInv, PaidInFull, BooksInv, BooksFollowLegs, Booked, Settled, CoveredInv,
      LockInv

\* The invariant holds in every reachable state.
THEOREM Invariance == Spec => []Inv
<1>1. Inv /\ [Next]_vars => Inv'
  BY TypeStep, PaidStep, BooksStep, CoveredStep, LockStep DEF Inv
<1> QED
  BY <1>1, InvInit, PTL DEF Spec

\* A settlement is PAID only when its legs carried all that the request which
\* closed it took it to be for, however it was split, bounced, retried, rebuilt
\* and healed.
THEOREM PaidInFullCorrect == Spec => []PaidInFull
<1>1. Inv => PaidInFull
  BY DEF Inv, PaidInv
<1> QED
  BY <1>1, Invariance, PTL

\* The ledger books payouts of paid legs and reversals of reversed settlements
\* only, whatever dies on the way.  That it has every paid leg is claimed for as
\* long as no request has died: the heal that closes a settlement after a
\* confirmation died books no row for the leg it finds paid.
THEOREM BooksFollowLegsCorrect == Spec => []BooksFollowLegs
<1>1. Inv => BooksFollowLegs
  BY DEF Inv, BooksInv
<1> QED
  BY <1>1, Invariance, PTL

\* Only a confirmation pays a leg.
LEMMA OnlyConfirmed ==
  ASSUME Inv, Inv', [Next]_vars, NEW n \in LegNumbers,
         leg[n].status # "PAID", leg'[n].status = "PAID"
  PROVE  \E c \in Callers : PayLeg(c)
<1>1. CASE leg' = leg
  BY <1>1
<1>2. ASSUME NEW c \in Callers, OpenLeg(c) PROVE FALSE
  <2>1. leg' = [leg EXCEPT ![num[c]] = [status |-> "INITIATED", amount |-> owed[c]]]
    BY <1>2 DEF OpenLeg
  <2> QED
    BY <2>1 DEF Inv, TypeInv, TypeOK
<1>3. ASSUME NEW c \in Callers, BounceLeg(c) PROVE FALSE
  <2>1. leg' = [leg EXCEPT ![num[c]].status = IF Bounces(num[c]) THEN "FAILED" ELSE @]
    BY <1>3 DEF BounceLeg
  <2>2. leg \in [LegNumbers -> Leg]
    BY DEF Inv, TypeInv, TypeOK, Leg
  <2> QED
    BY <2>1, <2>2 DEF Leg
<1>4. ASSUME NEW c \in Callers, MarkLegsReversed(c) PROVE FALSE
  BY <1>4, LegsReversed DEF Inv
<1> QED
  BY <1>1, <1>2, <1>3, <1>4, Decisions, ZenonT(30)
  DEF Next, Begin, Step, Decides, Decide, StartRebuild, StartPayout, StartConfirm, StartFail,
      StartReverse, Retotal, Rebuild, Release, LookForLeg, Park, CountLegs, TotalPaid,
      OpenRefused, MoveToProcessing, FindLeg, PayRefused, SumLegs, PostPayout,
      PostReserve, Heal, Finish, FindBounced, MarkFailed, MarkReversed,
      ReverseRefused, PostReversal, Crash, SweepStranded, vars

\* When a leg is confirmed, what has gone out with it is within the payable the
\* leg was opened against, unless its start missed a leg that was confirmed.
THEOREM NeverOverpaidCorrect == Spec => NeverOverpaid
<1> DEFINE Covered ==
      \A n \in LegNumbers :
        leg[n].status # "PAID" /\ leg'[n].status = "PAID" /\ basis[n] # 0
          => PaidTotal' <= basis[n]
<1>1. Inv /\ [Next]_vars => Inv'
  BY TypeStep, PaidStep, BooksStep, CoveredStep, LockStep DEF Inv
<1>2. ASSUME Inv, Inv', [Next]_vars PROVE Covered
  <2> SUFFICES ASSUME NEW n \in LegNumbers,
                      leg[n].status # "PAID", leg'[n].status = "PAID", basis[n] # 0
               PROVE  PaidTotal' <= basis[n]
    OBVIOUS
  <2>1. PICK c \in Callers : PayLeg(c)
    BY <1>2, OnlyConfirmed
  <2>2. /\ n = num[c] /\ leg[n].status = "INITIATED"
        /\ leg'[n].amount <= leg[n].amount
        /\ PaidTotal' = leg'[n].amount + PaidTotal
    BY <1>2, <2>1, LegPaid DEF Inv
  <2>3. PaidTotal + leg[n].amount <= basis[n]
    BY <1>2, <2>2 DEF Inv, CoveredInv, LegsIn
  <2>4. /\ PaidTotal \in Nat /\ basis[n] \in Nat
        /\ leg[n].amount \in Nat /\ leg'[n].amount \in Nat
    BY <1>2, TotalNat, ConstantsAssumption DEF Inv, TypeInv, TypeOK
  <2> QED
    BY <2>2, <2>3, <2>4
<1>3. Inv /\ Inv' /\ [Next]_vars => [Covered]_vars
  BY <1>2
<1>4. NeverOverpaid <=> [][Covered]_vars
  BY DEF NeverOverpaid
<1> QED
  BY <1>1, <1>3, <1>4, Invariance, PTL DEF Spec

\* A step pays, closes or lets go, in that order, or changes nothing that
\* ClaimLock shows.
LEMMA LockImplemented == Inv /\ [Next]_vars => [Lock!Next]_Lock!vars
<1> SUFFICES ASSUME Inv, [Next]_vars PROVE [Lock!Next]_Lock!vars
  OBVIOUS
<1>1. Inv'
  BY TypeStep, PaidStep, BooksStep, CoveredStep, LockStep DEF Inv
<1>2. status \in Statuses /\ status' \in Statuses
  BY <1>1 DEF Inv, TypeInv, TypeOK
<1>3. status' = status \/ status' \in Allowed[status]
  BY StatusMoves DEF Inv
<1>4. \/ UNCHANGED held
      \/ UNCHANGED status /\ held' = FALSE
  BY Decisions, ZenonT(30)
  DEF Next, Begin, Step, Decides, Decide, StartRebuild, StartPayout, StartConfirm, StartFail,
      StartReverse, Retotal, Rebuild, Release, LookForLeg, Park, CountLegs, TotalPaid, OpenLeg,
      OpenRefused, MoveToProcessing, FindLeg, PayLeg, PayRefused, SumLegs, PostPayout,
      PostReserve, Heal, Finish, FindBounced, BounceLeg, MarkFailed, MarkReversed,
      ReverseRefused, PostReversal, MarkLegsReversed, Crash, SweepStranded, vars
<1>5. CASE UNCHANGED status /\ held' = FALSE
  <2>1. phase' = phase
    BY <1>5 DEF phase
  <2>2. held = FALSE \/ phase = "closed"
    BY <1>1, <1>5, <2>1 DEF Inv, LockInv
  <2> QED
    BY <1>5, <2>1, <2>2 DEF Lock!Next, Lock!Release, Lock!vars, Inv, TypeInv, TypeOK
<1>6. CASE UNCHANGED held
  <2>1. phase' = phase \/ (phase # "closed" /\ phase' = "closed")
          \/ (phase = "open" /\ phase' = "paid")
    BY <1>2, <1>3 DEF phase, Allowed, Statuses
  <2> QED
    BY <1>6, <2>1 DEF Lock!Next, Lock!Pay, Lock!Close, Lock!vars
<1> QED
  BY <1>4, <1>5, <1>6

\* A payout implements ClaimLock: the payments stay locked until the settlement
\* has closed, and it never reopens.
THEOREM Refinement == Spec => ClaimLockSpec
<1>1. Init => Lock!Init
  BY DEF Init, Lock!Init, phase, Allowed, Statuses
<1>2. ClaimLockSpec <=> Lock!Init /\ [][Lock!Next]_Lock!vars
  BY DEF ClaimLockSpec, Lock!Spec
<1> QED
  BY <1>1, <1>2, LockImplemented, Invariance, PTL DEF Spec
=============================================================================
