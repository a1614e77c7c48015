------------------------- MODULE SubscriptionProofs -------------------------
(***************************************************************************)
(* Proofs about Subscription, for any number of orders, grants, requests,  *)
(* days and faults.  Whatever overlaps and whatever dies: a payment buys   *)
(* one plan, superseded by a later purchase only, and a brand with a plan  *)
(* keeps one unless time or a cancellation takes it.                       *)
(***************************************************************************)
EXTENDS Subscription, FiniteSetTheorems, TLAPS

-----------------------------------------------------------------------------
(* Types.                                                                  *)

\* A row, and that it stays one when it ends.
Row == [status : {"NONE", "ACTIVE", "RETIRED", "CANCELLED"},
        order : Orders \cup {None}, endDate : Dates, by : Numbers \cup {0}]

\* A row that is retired or cancelled is still one.
LEMMA EndedRow ==
  ASSUME NEW r \in Row, NEW s \in {"RETIRED", "CANCELLED"}
  PROVE  Ended(r, s) \in Row
<1>1. 0 \in Dates
  BY ConstantsAssumption DEF Dates
<1>2. [r EXCEPT !.status = s] \in Row
  BY DEF Row
<1>3. ASSUME NEW q \in Row PROVE [q EXCEPT !.endDate = 0] \in Row
  BY <1>1 DEF Row
<1>4. Ended(r, s) = [[r EXCEPT !.status = s] EXCEPT !.endDate = 0]
  BY DEF Ended
<1> QED
  BY <1>2, <1>3, <1>4

\* Retiring some rows leaves them rows.
LEMMA ExpiredRows ==
  ASSUME TypeOK, NEW S
  PROVE  Expired(S) \in [Numbers -> Row]
<1>1. ASSUME NEW n \in Numbers PROVE rows[n] \in Row /\ Ended(rows[n], "RETIRED") \in Row
  <2>1. rows[n] \in Row
    BY DEF TypeOK, Row
  <2> QED
    BY <2>1, EndedRow
<1> QED
  BY <1>1 DEF Expired

\* A request that works on an order knows it.
TypeInv ==
  /\ TypeOK
  /\ \A w \in Workers :
       job[w] \in {"settle", "grant"}
         \/ pc[w] \in {"existing", "previous", "create", "retire", "record", "invoice",
                       "complete"} => ord[w] \in Orders

\* Every step keeps the types, and every request its order.
LEMMA TypeStep == TypeInv /\ [Next]_vars => TypeInv'
<1> SUFFICES ASSUME TypeInv, [Next]_vars PROVE TypeInv'
  OBVIOUS
<1> USE ConstantsAssumption
    DEF TypeInv, TypeOK, Workers, Dates, NoRow, Stages, Jobs, Labels, Goto, Done, locals
<1>1. ASSUME NEW w \in Requests, NEW o \in Orders, Claim(w, o) PROVE TypeInv'
  BY <1>1 DEF Claim
<1>2. ASSUME NEW w \in Requests, NEW o \in Orders, Grant(w, o) PROVE TypeInv'
  BY <1>2 DEF Grant
<1>3. ASSUME NEW w \in Requests, StartCancel(w) PROVE TypeInv'
  <2>1. \A n \in Latest : n \in Numbers \cup {0}
    BY DEF Latest, Live, Active, Used
  <2>2. rows' \in [Numbers -> Row]
    BY <1>3, ExpiredRows DEF StartCancel, Reads, Row
  <2> QED
    BY <1>3, <2>1, <2>2 DEF StartCancel, Reads, Row
<1>4. ASSUME NEW w \in Requests, Expire(w) PROVE TypeInv'
  <2>1. rows' \in [Numbers -> Row]
    BY <1>4, ExpiredRows DEF Expire, Row
  <2> QED
    BY <1>4, <2>1 DEF Expire, Row
<1>5. ASSUME NEW w \in Requests, ResyncByHand(w) PROVE TypeInv'
  BY <1>5 DEF ResyncByHand
<1>6. ASSUME NEW o \in Orders, Resume(o) PROVE TypeInv'
  BY <1>6 DEF Resume
<1>7. ASSUME NEW w \in Workers, Existing(w) PROVE TypeInv'
  BY <1>7 DEF Existing, Resync
<1>8. ASSUME NEW w \in Workers, Previous(w) PROVE TypeInv'
  <2>1. \A n \in Latest : n \in Numbers \cup {0}
    BY DEF Latest, Live, Active, Used
  <2>2. rows' \in [Numbers -> Row]
    BY <1>8, ExpiredRows DEF Previous, Reads, Row
  <2> QED
    BY <1>8, <2>1, <2>2 DEF Previous, Reads, Row
<1>9. ASSUME NEW w \in Workers, Create(w) PROVE TypeInv'
  <2>1. rows' \in [Numbers -> Row] /\ new' \in [Workers -> Numbers \cup {0}]
    <3>1. CASE NotTaken(ord[w])
      <4>1. PICK d \in Dates : Cardinality(Used) + 1 \in Numbers
              /\ rows' = [rows EXCEPT ![Cardinality(Used) + 1] =
                            [status |-> "ACTIVE", order |-> ord[w], endDate |-> d, by |-> 0]]
        BY <1>9, <3>1 DEF Create
      <4>2. [status |-> "ACTIVE", order |-> ord[w], endDate |-> d, by |-> 0] \in Row
        BY DEF Row
      <4>3. rows' \in [Numbers -> Row]
        <5>1. rows \in [Numbers -> Row]
          BY DEF Row
        <5> QED
          BY <4>1, <4>2, <5>1
      <4> QED
        BY <1>9, <3>1, <4>1, <4>3 DEF Create
    <3>2. CASE ~NotTaken(ord[w])
      BY <1>9, <3>2 DEF Create, Row
    <3> QED
      BY <3>1, <3>2
  <2> QED
    BY <1>9, <2>1 DEF Create, Row, Resync
<1>10. ASSUME NEW w \in Workers, RetirePrevious(w) PROVE TypeInv'
  <2>1. ASSUME NEW n \in Numbers
        PROVE  [Ended(rows[n], "RETIRED") EXCEPT !.by = new[w]] \in Row
    <3>1. rows[n] \in Row
      BY DEF Row
    <3>2. Ended(rows[n], "RETIRED") \in Row
      BY <3>1, EndedRow
    <3>3. new[w] \in Numbers \cup {0}
      OBVIOUS
    <3> HIDE DEF TypeOK, TypeInv
    <3> QED
      BY <3>2, <3>3 DEF Row
  <2>2. rows' \in [Numbers -> Row]
    <3>1. \A n \in Numbers : rows[n] \in Row
      BY DEF Row
    <3> HIDE DEF TypeOK, TypeInv
    <3> QED
      BY <1>10, <2>1, <3>1 DEF RetirePrevious
  <2> QED
    BY <1>10, <2>2 DEF RetirePrevious, Row
<1>11. ASSUME NEW w \in Workers, SyncReads(w) PROVE TypeInv'
  <2>1. \A n \in Latest : n \in Numbers \cup {0}
    BY DEF Latest, Live, Active, Used
  <2> QED
    BY <1>11, <2>1 DEF SyncReads
<1>12. ASSUME NEW w \in Workers, SyncBrand(w) PROVE TypeInv'
  BY <1>12 DEF SyncBrand, SyncWrites
<1>13. ASSUME NEW w \in Workers, Record(w) PROVE TypeInv'
  BY <1>13 DEF Record
<1>14. ASSUME NEW w \in Workers, Invoice(w) PROVE TypeInv'
  BY <1>14 DEF Invoice
<1>15. ASSUME NEW w \in Workers, Complete(w) PROVE TypeInv'
  BY <1>15 DEF Complete
<1>16. ASSUME NEW w \in Workers, Cancel(w) PROVE TypeInv'
  <2>1. rows' \in [Numbers -> Row]
    <3>1. \A n \in Numbers : rows[n] \in Row /\ Ended(rows[n], "CANCELLED") \in Row
      <4>1. \A n \in Numbers : rows[n] \in Row
        BY DEF Row
      <4> QED
        BY <4>1, EndedRow
    <3>2. rows \in [Numbers -> Row]
      BY DEF Row
    <3> HIDE DEF TypeOK, TypeInv
    <3> QED
      BY <1>16, <3>1, <3>2 DEF Cancel
  <2> QED
    BY <1>16, <2>1 DEF Cancel, Row
<1>17. ASSUME NEW w \in Workers, InvoiceFails(w) PROVE TypeInv'
  BY <1>17 DEF InvoiceFails
<1>18. ASSUME NEW w \in Workers, Crash(w) PROVE TypeInv'
  BY <1>18 DEF Crash
<1>19. CASE DayPasses
  BY <1>19 DEF DayPasses
<1>20. CASE UNCHANGED vars
  BY <1>20 DEF vars
<1>21. ASSUME NEW w \in Workers, PlanGone(w) PROVE TypeInv'
  BY <1>21 DEF PlanGone
<1>22. ASSUME NEW S \in SUBSET (Orders \ Grants), Withdraw(S) PROVE TypeInv'
  BY <1>22 DEF Withdraw
<1> QED
  BY <1>1, <1>2, <1>3, <1>4, <1>5, <1>6, <1>7, <1>8, <1>9, <1>10, <1>11, <1>12,
     <1>13, <1>14, <1>15, <1>16, <1>17, <1>18, <1>19, <1>20, <1>21, <1>22
  DEF Next, Step

\* The type invariant of a brand's plans.
THEOREM TypeCorrect == Spec => []TypeOK
<1>1. Init => TypeInv
  BY ConstantsAssumption
  DEF Init, TypeInv, TypeOK, Workers, Dates, NoRow, Stages, Jobs, Labels
<1>2. TypeInv => TypeOK
  BY DEF TypeInv
<1> QED
  BY <1>1, <1>2, TypeStep, PTL DEF Spec

-----------------------------------------------------------------------------
(* The invariant.                                                          *)

\* The rows are numbered without gaps, and no two are of one order.
RowsInv ==
  /\ Used = 1..Cardinality(Used)
  /\ \A m, n \in Used : rows[m].order = rows[n].order => m = n

\* A settle that is past the plan, and a stage that says so, have one.
SettledInv ==
  /\ \A o \in Orders : stage[o] \in {"RECORDED", "COMPLETE"} => RowsOf(o) # {}
  /\ \A w \in Workers :
       /\ pc[w] \in {"retire", "record", "invoice", "complete"} => RowsOf(ord[w]) # {}
       /\ pc[w] \in {"sync", "brand"} /\ job[w] = "settle" => RowsOf(ord[w]) # {}
       /\ pc[w] = "cancel" => job[w] = "cancel"

\* A plan is superseded by a later row of another order, and so will be the
\* one a request is about to retire.
ByInv ==
  /\ \A n \in Used : rows[n].by # 0 =>
       rows[n].by \in Used /\ rows[n].by > n /\ rows[rows[n].by].order # rows[n].order
  /\ \A w \in Workers :
       /\ prev[w] \in Used \cup {0}
       /\ pc[w] = "retire" =>
            /\ prev[w] \in Used /\ new[w] \in Used /\ prev[w] < new[w]
            /\ rows[prev[w]].order # rows[new[w]].order

Inv == TypeInv /\ RowsInv /\ SettledInv /\ ByInv

-----------------------------------------------------------------------------
(* What the steps do to the rows.                                          *)

\* A row that ends keeps its order and its successor.
LEMMA EndedKeeps ==
  ASSUME NEW r \in Row, NEW s \in {"RETIRED", "CANCELLED"}
  PROVE  Ended(r, s).status = s /\ Ended(r, s).order = r.order /\ Ended(r, s).by = r.by
BY DEF Row, Ended

\* No row is begun or superseded.
Kept ==
  \A n \in Numbers :
    /\ rows'[n].status = "NONE" <=> rows[n].status = "NONE"
    /\ rows'[n].order = rows[n].order /\ rows'[n].by = rows[n].by

\* Retiring rows that are in use keeps them.
LEMMA ExpiredKept ==
  ASSUME TypeOK, NEW S \in SUBSET Used, rows' = Expired(S)
  PROVE  Kept
<1>1. ASSUME NEW n \in Numbers
      PROVE  /\ rows'[n].status = "NONE" <=> rows[n].status = "NONE"
             /\ rows'[n].order = rows[n].order /\ rows'[n].by = rows[n].by
  <2>1. rows[n] \in Row
    BY DEF TypeOK, Row
  <2>2. CASE n \in S
    <3>1. rows'[n] = Ended(rows[n], "RETIRED") /\ rows[n].status # "NONE"
      BY <2>2 DEF Expired, Used
    <3> QED
      BY <2>1, <3>1, EndedKeeps
  <2>3. CASE n \notin S
    BY <2>3 DEF Expired
  <2> QED
    BY <2>2, <2>3
<1> QED
  BY <1>1 DEF Kept

\* A row of the order of a request is begun.
Begins(w) ==
  LET n == Cardinality(Used) + 1 IN
  /\ pc[w] = "create" /\ NotTaken(ord[w]) /\ n \in Numbers
  /\ \E d \in Dates :
       /\ d > today
       /\ rows' = [rows EXCEPT ![n] = [status |-> "ACTIVE", order |-> ord[w], endDate |-> d,
                                       by |-> 0]]
  /\ IF prev[w] = 0 THEN pc' = [pc EXCEPT ![w] = "sync"] /\ UNCHANGED new
     ELSE pc' = [pc EXCEPT ![w] = "retire"] /\ new' = [new EXCEPT ![w] = n]
  /\ UNCHANGED <<today, withdrawn, verified, stage, invoiced, brand, job, ord, prev, seen, faults>>

\* Only Create begins a row, and only RetirePrevious supersedes one.
LEMMA RowSteps ==
  ASSUME Inv, [Next]_vars
  PROVE  \/ Kept
         \/ \E w \in Workers : Begins(w)
         \/ \E w \in Workers : RetirePrevious(w)
<1> DEFINE Goal == \/ Kept
                   \/ \E w \in Workers : Begins(w)
                   \/ \E w \in Workers : RetirePrevious(w)
<1>0. ASSUME rows' = rows PROVE Goal
  BY <1>0 DEF Kept
<1> USE DEF Inv, TypeInv
<1>1. ASSUME NEW w \in Requests, NEW o \in Orders, Claim(w, o) PROVE Goal
  <2>1. rows' = rows
    BY <1>1 DEF Claim
  <2> QED
    BY <1>0, <2>1
<1>2. ASSUME NEW w \in Requests, NEW o \in Orders, Grant(w, o) PROVE Goal
  <2>1. rows' = rows
    BY <1>2 DEF Grant
  <2> QED
    BY <1>0, <2>1
<1>3. ASSUME NEW w \in Requests, StartCancel(w) PROVE Goal
  <2>1. rows' = rows \/ rows' = Expired(Lapsed)
    BY <1>3 DEF StartCancel, Reads
  <2> QED
    BY <1>0, <2>1, ExpiredKept DEF Lapsed, Active
<1>4. ASSUME NEW w \in Requests, Expire(w) PROVE Goal
  <2> DEFINE due == {n \in Lapsed : rows[n].endDate + Grace <= today}
  <2>1. rows' = Expired(due)
    BY <1>4 DEF Expire
  <2>2. due \in SUBSET Used
    BY DEF Lapsed, Active
  <2> QED
    BY <2>1, <2>2, ExpiredKept
<1>5. ASSUME NEW w \in Requests, ResyncByHand(w) PROVE Goal
  <2>1. rows' = rows
    BY <1>5 DEF ResyncByHand
  <2> QED
    BY <1>0, <2>1
<1>6. ASSUME NEW o \in Orders, Resume(o) PROVE Goal
  <2>1. rows' = rows
    BY <1>6 DEF Resume
  <2> QED
    BY <1>0, <2>1
<1>7. ASSUME NEW w \in Workers, Existing(w) PROVE Goal
  <2>1. rows' = rows
    BY <1>7 DEF Existing
  <2> QED
    BY <1>0, <2>1
<1>8. ASSUME NEW w \in Workers, Previous(w) PROVE Goal
  <2>1. rows' = rows \/ rows' = Expired(Lapsed)
    BY <1>8 DEF Previous, Reads
  <2> QED
    BY <1>0, <2>1, ExpiredKept DEF Lapsed, Active
<1>9. ASSUME NEW w \in Workers, Create(w) PROVE Goal
  <2>1. CASE NotTaken(ord[w])
    BY <1>9, <2>1 DEF Create, Begins, Goto
  <2>2. CASE ~NotTaken(ord[w])
    BY <1>0, <1>9, <2>2 DEF Create
  <2> QED
    BY <2>1, <2>2
<1>10. ASSUME NEW w \in Workers, RetirePrevious(w) PROVE Goal
  BY <1>10
<1>11. ASSUME NEW w \in Workers, SyncReads(w) PROVE Goal
  <2>1. rows' = rows
    BY <1>11 DEF SyncReads
  <2> QED
    BY <1>0, <2>1
<1>12. ASSUME NEW w \in Workers, SyncBrand(w) PROVE Goal
  <2>1. rows' = rows
    BY <1>12 DEF SyncBrand
  <2> QED
    BY <1>0, <2>1
<1>13. ASSUME NEW w \in Workers, Record(w) PROVE Goal
  <2>1. rows' = rows
    BY <1>13 DEF Record
  <2> QED
    BY <1>0, <2>1
<1>14. ASSUME NEW w \in Workers, Invoice(w) PROVE Goal
  <2>1. rows' = rows
    BY <1>14 DEF Invoice
  <2> QED
    BY <1>0, <2>1
<1>15. ASSUME NEW w \in Workers, Complete(w) PROVE Goal
  <2>1. rows' = rows
    BY <1>15 DEF Complete
  <2> QED
    BY <1>0, <2>1
<1>16. ASSUME NEW w \in Workers, Cancel(w) PROVE Goal
  <2>1. ASSUME NEW n \in Numbers
        PROVE  /\ rows'[n].status = "NONE" <=> rows[n].status = "NONE"
               /\ rows'[n].order = rows[n].order /\ rows'[n].by = rows[n].by
    <3>1. rows[n] \in Row
      BY DEF TypeOK, Row
    <3>2. CASE n = prev[w]
      <4>1. rows'[n] = Ended(rows[n], "CANCELLED")
        BY <1>16, <3>2 DEF Cancel, TypeOK
      <4>2. rows[n].status # "NONE"
        BY <3>2 DEF ByInv, Used, Numbers
      <4> QED
        BY <3>1, <4>1, <4>2, EndedKeeps
    <3>3. CASE n # prev[w]
      BY <1>16, <3>3 DEF Cancel, TypeOK
    <3> QED
      BY <3>2, <3>3
  <2> QED
    BY <2>1 DEF Kept
<1>17. ASSUME NEW w \in Workers, InvoiceFails(w) PROVE Goal
  <2>1. rows' = rows
    BY <1>17 DEF InvoiceFails
  <2> QED
    BY <1>0, <2>1
<1>18. ASSUME NEW w \in Workers, Crash(w) PROVE Goal
  <2>1. rows' = rows
    BY <1>18 DEF Crash
  <2> QED
    BY <1>0, <2>1
<1>19. CASE DayPasses
  <2>1. rows' = rows
    BY <1>19 DEF DayPasses
  <2> QED
    BY <1>0, <2>1
<1>20. CASE UNCHANGED vars
  <2>1. rows' = rows
    BY <1>20 DEF vars
  <2> QED
    BY <1>0, <2>1
<1>21. ASSUME NEW w \in Workers, PlanGone(w) PROVE Goal
  <2>1. rows' = rows
    BY <1>21 DEF PlanGone
  <2> QED
    BY <1>0, <2>1
<1>22. ASSUME NEW S \in SUBSET (Orders \ Grants), Withdraw(S) PROVE Goal
  <2>1. rows' = rows
    BY <1>22 DEF Withdraw
  <2> QED
    BY <1>0, <2>1
<1> QED
  BY <1>1, <1>2, <1>3, <1>4, <1>5, <1>6, <1>7, <1>8, <1>9, <1>10, <1>11, <1>12,
     <1>13, <1>14, <1>15, <1>16, <1>17, <1>18, <1>19, <1>20, <1>21, <1>22
  DEF Next, Step

\* A retired row keeps its order and is superseded by the new one.
LEMMA RetiresOne ==
  ASSUME Inv, NEW w \in Workers, RetirePrevious(w)
  PROVE  /\ Used' = Used
         /\ \A n \in Numbers :
              /\ rows'[n].order = rows[n].order
              /\ rows'[n].by = IF n = prev[w] THEN new[w] ELSE rows[n].by
<1> USE DEF Inv, TypeInv
<1>1. prev[w] \in Used
  BY DEF RetirePrevious, ByInv
<1>2. ASSUME NEW n \in Numbers
      PROVE  /\ rows'[n].status = "NONE" <=> rows[n].status = "NONE"
             /\ rows'[n].order = rows[n].order
             /\ rows'[n].by = IF n = prev[w] THEN new[w] ELSE rows[n].by
  <2>1. rows[n] \in Row
    BY DEF TypeOK, Row
  <2>2. CASE n = prev[w]
    <3> DEFINE e == Ended(rows[n], "RETIRED")
    <3>1. e \in Row /\ e.status = "RETIRED" /\ e.order = rows[n].order
      BY <2>1, EndedRow, EndedKeeps
    <3>2. rows'[n] = [e EXCEPT !.by = new[w]]
      BY <2>2 DEF RetirePrevious, Superseded
    <3> HIDE DEF e
    <3>3. /\ [e EXCEPT !.by = new[w]].status = e.status
          /\ [e EXCEPT !.by = new[w]].order = e.order
          /\ [e EXCEPT !.by = new[w]].by = new[w]
      BY <3>1 DEF Row
    <3>4. rows[n].status # "NONE"
      BY <1>1, <2>2 DEF Used
    <3> QED
      BY <2>2, <3>1, <3>2, <3>3, <3>4
  <2>3. CASE n # prev[w]
    BY <2>3 DEF RetirePrevious, Superseded
  <2> QED
    BY <2>2, <2>3
<1> QED
  BY <1>2 DEF Used

\* A new row comes after all others, and is the first of its order.
LEMMA BeginsOne ==
  ASSUME Inv, NEW w \in Workers, Begins(w)
  PROVE  LET k == Cardinality(Used) + 1 IN
         /\ Used' = Used \cup {k} /\ Cardinality(Used)' = k
         /\ \A n \in Used : n < k /\ rows'[n] = rows[n] /\ rows[n].order # ord[w]
         /\ rows'[k].order = ord[w] /\ rows'[k].by = 0
         /\ Used' = 1..k
<1> DEFINE k == Cardinality(Used) + 1
<1> USE DEF Inv, TypeInv
<1>1. IsFiniteSet(Used) /\ Cardinality(Used) \in Nat
  <2>1. Cardinality(Orders) \in Nat
    BY ConstantsAssumption, FS_CardinalityType
  <2>2. IsFiniteSet(Numbers)
    BY <2>1, FS_Interval DEF Numbers
  <2> QED
    BY <2>2, FS_Subset, FS_CardinalityType DEF Used
<1>2. Used = 1..Cardinality(Used)
  BY DEF RowsInv
<1>3. \A n \in Used : n < k
  BY <1>1, <1>2
<1>4. k \in Numbers /\ k \notin Used
  BY <1>1, <1>3 DEF Begins
<1>5. PICK d \in Dates :
        rows' = [rows EXCEPT ![k] = [status |-> "ACTIVE", order |-> ord[w], endDate |-> d,
                                     by |-> 0]]
  BY DEF Begins
<1>6. \A n \in Used : rows'[n] = rows[n] /\ rows[n].order # ord[w]
  BY <1>4, <1>5 DEF Begins, NotTaken, RowsOf, Used, TypeOK
<1>7. rows'[k].status = "ACTIVE" /\ rows'[k].order = ord[w] /\ rows'[k].by = 0
  BY <1>4, <1>5 DEF TypeOK
<1>8. Used' = Used \cup {k}
  BY <1>4, <1>5, <1>7 DEF Used, TypeOK
<1>9. Cardinality(Used \cup {k}) = k
  <2> HIDE DEF k
  <2>1. Cardinality(Used \cup {k}) = Cardinality(Used) + 1
    BY <1>1, <1>4, FS_AddElement
  <2> QED
    BY <2>1 DEF k
<1>10. Used \cup {k} = 1..k
  <2> DEFINE c == Cardinality(Used)
  <2>1. c \in Nat /\ Used = 1..c /\ k = c + 1
    BY <1>1, <1>2
  <2> HIDE DEF c, k
  <2> QED
    BY <2>1
<1> QED
  BY <1>3, <1>6, <1>7, <1>8, <1>9, <1>10

\* What is in use stays in use, and of its order.
LEMMA Grows ==
  ASSUME Inv, [Next]_vars
  PROVE  \A n \in Used : n \in Used' /\ rows'[n].order = rows[n].order
<1>1. CASE Kept
  BY <1>1 DEF Kept, Used
<1>2. ASSUME NEW w \in Workers, Begins(w)
      PROVE  \A n \in Used : n \in Used' /\ rows'[n].order = rows[n].order
  BY <1>2, BeginsOne
<1>3. ASSUME NEW w \in Workers, RetirePrevious(w)
      PROVE  \A n \in Used : n \in Used' /\ rows'[n].order = rows[n].order
  BY <1>3, RetiresOne DEF Used
<1> QED
  BY <1>1, <1>2, <1>3, RowSteps

-----------------------------------------------------------------------------
(* The steps.                                                              *)

\* Rows are only begun, one at a time, each of an order that has none.
LEMMA RowsStep ==
  ASSUME Inv, [Next]_vars
  PROVE  RowsInv'
<1>1. CASE Kept
  <2>1. Used' = Used /\ \A n \in Used : rows'[n].order = rows[n].order
    BY <1>1 DEF Kept, Used
  <2> QED
    BY <2>1 DEF Inv, RowsInv
<1>2. ASSUME NEW w \in Workers, Begins(w) PROVE RowsInv'
  <2> DEFINE k == Cardinality(Used) + 1
  <2>1. /\ Used' = Used \cup {k} /\ Cardinality(Used)' = k /\ Used' = 1..k
        /\ \A n \in Used : n < k /\ rows'[n] = rows[n] /\ rows[n].order # ord[w]
        /\ rows'[k].order = ord[w]
    BY <1>2, BeginsOne
  <2> HIDE DEF k
  <2>2. Used' = 1..Cardinality(Used)'
    BY <2>1
  <2>3. \A m, n \in Used' : rows'[m].order = rows'[n].order => m = n
    BY <2>1 DEF Inv, RowsInv
  <2> QED
    BY <2>2, <2>3 DEF RowsInv
<1>3. ASSUME NEW w \in Workers, RetirePrevious(w) PROVE RowsInv'
  <2>1. Used' = Used /\ \A n \in Used : rows'[n].order = rows[n].order
    BY <1>3, RetiresOne DEF Used
  <2> QED
    BY <2>1 DEF Inv, RowsInv
<1> QED
  BY <1>1, <1>2, <1>3, RowSteps

\* A settle goes past its plan only once it is there, and a row never goes.
LEMMA SettledStep ==
  ASSUME Inv, TypeInv', [Next]_vars
  PROVE  SettledInv'
<1>0. \A o : RowsOf(o) # {} => RowsOf(o)' # {}
  BY Grows DEF RowsOf
<1> USE <1>0 DEF Inv, TypeInv, TypeOK, Workers, Labels, Goto, Done, locals, SettledInv
<1>1. ASSUME NEW w \in Requests, NEW o \in Orders, Claim(w, o) PROVE SettledInv'
  BY <1>1, SMTT(60) DEF Claim
<1>2. ASSUME NEW w \in Requests, NEW o \in Orders, Grant(w, o) PROVE SettledInv'
  BY <1>2 DEF Grant
<1>3. ASSUME NEW w \in Requests, StartCancel(w) PROVE SettledInv'
  BY <1>3 DEF StartCancel, Reads
<1>4. ASSUME NEW w \in Requests, Expire(w) PROVE SettledInv'
  BY <1>4 DEF Expire
<1>5. ASSUME NEW w \in Requests, ResyncByHand(w) PROVE SettledInv'
  BY <1>5 DEF ResyncByHand
<1>6. ASSUME NEW o \in Orders, Resume(o) PROVE SettledInv'
  BY <1>6 DEF Resume
<1>7. ASSUME NEW w \in Workers, Existing(w) PROVE SettledInv'
  BY <1>7 DEF Existing, Resync
<1>8. ASSUME NEW w \in Workers, Previous(w) PROVE SettledInv'
  BY <1>8 DEF Previous, Reads
<1>9. ASSUME NEW w \in Workers, Create(w) PROVE SettledInv'
  <2>1. CASE NotTaken(ord[w])
    <3>1. Begins(w)
      BY <1>9, <2>1 DEF Create, Begins
    <3>2. RowsOf(ord[w])' # {}
      BY <3>1, BeginsOne DEF RowsOf, Begins
    <3> QED
      BY <1>9, <2>1, <3>2, SMTT(60) DEF Create
  <2>2. CASE ~NotTaken(ord[w])
    BY <1>9, <2>2 DEF Create, NotTaken, Resync
  <2> QED
    BY <2>1, <2>2
<1>10. ASSUME NEW w \in Workers, RetirePrevious(w) PROVE SettledInv'
  BY <1>10 DEF RetirePrevious
<1>11. ASSUME NEW w \in Workers, SyncReads(w) PROVE SettledInv'
  BY <1>11 DEF SyncReads
<1>12. ASSUME NEW w \in Workers, SyncBrand(w) PROVE SettledInv'
  BY <1>12, SMTT(30) DEF SyncBrand, SyncWrites
<1>13. ASSUME NEW w \in Workers, Record(w) PROVE SettledInv'
  BY <1>13 DEF Record
<1>14. ASSUME NEW w \in Workers, Invoice(w) PROVE SettledInv'
  BY <1>14 DEF Invoice
<1>15. ASSUME NEW w \in Workers, Complete(w) PROVE SettledInv'
  BY <1>15, ZenonT(30) DEF Complete
<1>16. ASSUME NEW w \in Workers, Cancel(w) PROVE SettledInv'
  BY <1>16 DEF Cancel
<1>17. ASSUME NEW w \in Workers, InvoiceFails(w) PROVE SettledInv'
  BY <1>17 DEF InvoiceFails
<1>18. ASSUME NEW w \in Workers, Crash(w) PROVE SettledInv'
  BY <1>18 DEF Crash
<1>19. CASE DayPasses
  BY <1>19 DEF DayPasses
<1>20. CASE UNCHANGED vars
  BY <1>20 DEF vars
<1>21. ASSUME NEW w \in Workers, PlanGone(w) PROVE SettledInv'
  BY <1>21 DEF PlanGone
<1>22. ASSUME NEW S \in SUBSET (Orders \ Grants), Withdraw(S) PROVE SettledInv'
  BY <1>22 DEF Withdraw
<1> QED
  BY <1>1, <1>2, <1>3, <1>4, <1>5, <1>6, <1>7, <1>8, <1>9, <1>10, <1>11, <1>12,
     <1>13, <1>14, <1>15, <1>16, <1>17, <1>18, <1>19, <1>20, <1>21, <1>22
  DEF Next, Step

\* A request knows the plan it is about to retire before it makes its own.
LEMMA PrevStep ==
  ASSUME Inv, TypeInv', [Next]_vars
  PROVE  \A x \in Workers :
           /\ prev'[x] \in Used' \cup {0}
           /\ pc'[x] = "retire" =>
                /\ prev'[x] \in Used' /\ new'[x] \in Used' /\ prev'[x] < new'[x]
                /\ rows'[prev'[x]].order # rows'[new'[x]].order
<1> DEFINE Goal == \A x \in Workers :
           /\ prev'[x] \in Used' \cup {0}
           /\ pc'[x] = "retire" =>
                /\ prev'[x] \in Used' /\ new'[x] \in Used' /\ prev'[x] < new'[x]
                /\ rows'[prev'[x]].order # rows'[new'[x]].order
<1>0. \A n \in Used : n \in Used' /\ rows'[n].order = rows[n].order
  BY Grows
<1> USE <1>0 DEF Inv, TypeInv, TypeOK, Workers, Labels, Goto, Done, locals, ByInv
<1>1. ASSUME NEW w \in Requests, NEW o \in Orders, Claim(w, o) PROVE Goal
  BY <1>1 DEF Claim
<1>2. ASSUME NEW w \in Requests, NEW o \in Orders, Grant(w, o) PROVE Goal
  BY <1>2 DEF Grant
<1>3. ASSUME NEW w \in Requests, StartCancel(w) PROVE Goal
  <2>1. \A n \in Latest \ {0} : n \in Used
    BY DEF Latest, Live, Active
  <2> QED
    BY <1>3, <2>1 DEF StartCancel, Reads
<1>4. ASSUME NEW w \in Requests, Expire(w) PROVE Goal
  BY <1>4 DEF Expire
<1>5. ASSUME NEW w \in Requests, ResyncByHand(w) PROVE Goal
  BY <1>5 DEF ResyncByHand
<1>6. ASSUME NEW o \in Orders, Resume(o) PROVE Goal
  BY <1>6 DEF Resume
<1>7. ASSUME NEW w \in Workers, Existing(w) PROVE Goal
  BY <1>7 DEF Existing, Resync
<1>8. ASSUME NEW w \in Workers, Previous(w) PROVE Goal
  <2>1. \A n \in Latest \ {0} : n \in Used
    BY DEF Latest, Live, Active
  <2> QED
    BY <1>8, <2>1 DEF Previous, Reads
<1>9. ASSUME NEW w \in Workers, Create(w) PROVE Goal
  <2>1. CASE NotTaken(ord[w])
    <3> DEFINE k == Cardinality(Used) + 1
    <3>1. Begins(w)
      BY <1>9, <2>1 DEF Create, Begins
    <3>2. /\ Used' = Used \cup {k}
          /\ \A n \in Used : n < k /\ rows'[n] = rows[n] /\ rows[n].order # ord[w]
          /\ rows'[k].order = ord[w]
      BY <3>1, BeginsOne
    <3>3. /\ prev' = prev
          /\ \/ prev[w] = 0 /\ pc' = [pc EXCEPT ![w] = "sync"] /\ new' = new
             \/ prev[w] # 0 /\ pc' = [pc EXCEPT ![w] = "retire"] /\ new' = [new EXCEPT ![w] = k]
      BY <3>1 DEF Begins
    <3> HIDE DEF k
    <3> QED
      BY <3>2, <3>3
  <2>2. CASE ~NotTaken(ord[w])
    BY <1>9, <2>2 DEF Create, Resync
  <2> QED
    BY <2>1, <2>2
<1>10. ASSUME NEW w \in Workers, RetirePrevious(w) PROVE Goal
  <2>1. /\ prev' = [prev EXCEPT ![w] = 0] /\ new' = [new EXCEPT ![w] = 0]
        /\ pc' = [pc EXCEPT ![w] = "sync"]
    BY <1>10 DEF RetirePrevious
  <2> QED
    BY <2>1
<1>11. ASSUME NEW w \in Workers, SyncReads(w) PROVE Goal
  BY <1>11 DEF SyncReads
<1>12. ASSUME NEW w \in Workers, SyncBrand(w) PROVE Goal
  BY <1>12 DEF SyncBrand
<1>13. ASSUME NEW w \in Workers, Record(w) PROVE Goal
  BY <1>13 DEF Record
<1>14. ASSUME NEW w \in Workers, Invoice(w) PROVE Goal
  BY <1>14 DEF Invoice
<1>15. ASSUME NEW w \in Workers, Complete(w) PROVE Goal
  BY <1>15 DEF Complete
<1>16. ASSUME NEW w \in Workers, Cancel(w) PROVE Goal
  BY <1>16 DEF Cancel
<1>17. ASSUME NEW w \in Workers, InvoiceFails(w) PROVE Goal
  BY <1>17 DEF InvoiceFails
<1>18. ASSUME NEW w \in Workers, Crash(w) PROVE Goal
  BY <1>18 DEF Crash
<1>19. CASE DayPasses
  BY <1>19 DEF DayPasses
<1>20. CASE UNCHANGED vars
  BY <1>20 DEF vars
<1>21. ASSUME NEW w \in Workers, PlanGone(w) PROVE Goal
  BY <1>21 DEF PlanGone
<1>22. ASSUME NEW S \in SUBSET (Orders \ Grants), Withdraw(S) PROVE Goal
  BY <1>22 DEF Withdraw
<1> QED
  BY <1>1, <1>2, <1>3, <1>4, <1>5, <1>6, <1>7, <1>8, <1>9, <1>10, <1>11, <1>12,
     <1>13, <1>14, <1>15, <1>16, <1>17, <1>18, <1>19, <1>20, <1>21, <1>22
  DEF Next, Step

\* A row is superseded by the plan the request that retires it has made.
LEMMA SupersededStep ==
  ASSUME Inv, [Next]_vars
  PROVE  \A n \in Used' : rows'[n].by # 0 =>
           rows'[n].by \in Used' /\ rows'[n].by > n /\ rows'[rows'[n].by].order # rows'[n].order
<1> DEFINE Goal == \A n \in Used' : rows'[n].by # 0 =>
           rows'[n].by \in Used' /\ rows'[n].by > n /\ rows'[rows'[n].by].order # rows'[n].order
<1>0. \A n \in Used : n \in Used' /\ rows'[n].order = rows[n].order
  BY Grows
<1>1. CASE Kept
  <2>1. Used' = Used /\ \A n \in Used : rows'[n].by = rows[n].by
    BY <1>1 DEF Kept, Used
  <2> QED
    BY <1>0, <2>1 DEF Inv, ByInv
<1>2. ASSUME NEW w \in Workers, Begins(w) PROVE Goal
  <2> DEFINE k == Cardinality(Used) + 1
  <2>1. /\ Used' = Used \cup {k}
        /\ \A n \in Used : rows'[n] = rows[n]
        /\ rows'[k].by = 0
    BY <1>2, BeginsOne
  <2> HIDE DEF k
  <2> QED
    BY <1>0, <2>1 DEF Inv, ByInv
<1>3. ASSUME NEW w \in Workers, RetirePrevious(w) PROVE Goal
  <2>1. /\ Used' = Used
        /\ \A n \in Used : rows'[n].by = IF n = prev[w] THEN new[w] ELSE rows[n].by
    BY <1>3, RetiresOne DEF Used
  <2>2. /\ prev[w] \in Used /\ new[w] \in Used /\ prev[w] < new[w]
        /\ rows[prev[w]].order # rows[new[w]].order
    BY <1>3 DEF RetirePrevious, Inv, ByInv
  <2>3. ASSUME NEW n \in Used, rows'[n].by # 0
        PROVE  /\ rows'[n].by \in Used' /\ rows'[n].by > n
               /\ rows'[rows'[n].by].order # rows'[n].order
    <3>1. CASE n = prev[w]
      <4>1. rows'[n].by = new[w] /\ n \in Int /\ new[w] \in Int
        BY <2>1, <2>2, <3>1 DEF Used, Numbers
      <4> QED
        BY <1>0, <2>1, <2>2, <3>1, <4>1
    <3>2. CASE n # prev[w]
      <4>1. rows'[n].by = rows[n].by
        BY <2>1, <2>3, <3>2
      <4>2. /\ rows[n].by \in Used /\ rows[n].by > n
            /\ rows[rows[n].by].order # rows[n].order
        BY <2>3, <4>1 DEF Inv, ByInv
      <4> QED
        BY <1>0, <2>1, <2>3, <4>1, <4>2
    <3> QED
      BY <3>1, <3>2
  <2> QED
    BY <2>1, <2>3
<1> QED
  BY <1>1, <1>2, <1>3, RowSteps

-----------------------------------------------------------------------------
(* The theorem.                                                            *)

\* The parts hold together in every reachable state.
LEMMA InvAlways == Spec => []Inv
<1>1. Init => Inv
  <2> SUFFICES ASSUME Init PROVE Inv
    OBVIOUS
  <2>1. Used = {}
    BY DEF Init, Used, NoRow
  <2>2. Cardinality(Used) = 0
    BY <2>1, FS_EmptySet
  <2>3. TypeInv
    BY ConstantsAssumption
    DEF Init, TypeInv, TypeOK, Workers, Dates, NoRow, Stages, Jobs, Labels
  <2> QED
    BY <2>1, <2>2, <2>3 DEF Init, Inv, RowsInv, SettledInv, ByInv
<1>2. Inv /\ [Next]_vars => Inv'
  <2> SUFFICES ASSUME Inv, [Next]_vars PROVE Inv'
    OBVIOUS
  <2>1. TypeInv'
    BY TypeStep DEF Inv
  <2>2. ByInv'
    BY <2>1, PrevStep, SupersededStep DEF ByInv
  <2> QED
    BY <2>1, <2>2, RowsStep, SettledStep DEF Inv
<1> QED
  BY <1>1, <1>2, PTL DEF Spec

\* A payment buys one plan, however often it is settled and resumed, and a
\* plan is superseded by a later purchase only.
THEOREM PurchaseStandsCorrect == Spec => []PurchaseStands
<1>1. Inv => PurchaseStands
  <2> SUFFICES ASSUME Inv PROVE PurchaseStands
    OBVIOUS
  <2>1. ASSUME NEW o \in Orders PROVE Cardinality(RowsOf(o)) <= 1
    <3>1. CASE RowsOf(o) = {}
      BY <3>1, FS_EmptySet
    <3>2. ASSUME NEW n \in RowsOf(o) PROVE Cardinality(RowsOf(o)) <= 1
      <4>1. RowsOf(o) = {n}
        BY <3>2 DEF RowsOf, Inv, RowsInv
      <4> QED
        BY <4>1, FS_Singleton
    <3> QED
      BY <3>1, <3>2
  <2> QED
    BY <2>1 DEF Inv, SettledInv, ByInv, PurchaseStands
<1> QED
  BY <1>1, InvAlways, PTL

-----------------------------------------------------------------------------
(* Never without a plan: a plan that is superseded has one after it that   *)
(* is live, or was until it was cancelled.                                 *)

\* A row that a settle may retire an earlier one for.
Stands(n) == n \in Live \/ rows[n].status = "CANCELLED"

\* The plan a request has made, or one after it, still stands.
LaterInv ==
  \A w \in Workers : pc[w] = "retire" => \E n \in Used : n >= new[w] /\ Stands(n)

\* What stands stays so, what is live too, and no request comes to retire a plan.
Calm ==
  /\ today' = today
  /\ \A n \in Used : n \in Used' /\ (Stands(n) => Stands(n)')
  /\ \A n \in Live : n \in Live'
  /\ \A x \in Workers : pc'[x] = "retire" => pc[x] = "retire" /\ new'[x] = new[x]

\* Rows that have not lapsed stand as before when lapsed ones are retired.
LEMMA ExpiredCalm ==
  ASSUME TypeOK, NEW S \in SUBSET Lapsed, rows' = Expired(S), today' = today
  PROVE  /\ \A n \in Used : n \in Used' /\ (Stands(n) => Stands(n)')
         /\ \A n \in Live : n \in Live'
<1>1. ASSUME NEW n \in Used PROVE n \in Used'
  <2>1. rows[n] \in Row
    BY DEF TypeOK, Row, Used
  <2>2. rows'[n] = IF n \in S THEN Ended(rows[n], "RETIRED") ELSE rows[n]
    BY DEF Expired, Used
  <2> QED
    BY <2>1, <2>2, EndedKeeps DEF Used
<1>2. ASSUME NEW n \in Used, Stands(n) PROVE rows'[n] = rows[n]
  BY <1>2 DEF Stands, Expired, Lapsed, Active, Used
<1>3. ASSUME NEW n \in Live PROVE n \in Live'
  <2>1. n \in Used /\ rows'[n] = rows[n]
    BY <1>2 DEF Live, Active, Stands
  <2> QED
    BY <1>1, <2>1 DEF Live, Active
<1> QED
  BY <1>1, <1>2, <1>3 DEF Stands

\* What every step does to the plans that stand.
LEMMA LiveSteps ==
  ASSUME Inv, [Next]_vars
  PROVE  \/ Calm
         \/ \E w \in Workers : Begins(w)
         \/ \E w \in Workers : Cancel(w)
         \/ \E w \in Workers : RetirePrevious(w)
         \/ DayPasses
<1> DEFINE Goal == \/ Calm
                   \/ \E w \in Workers : Begins(w)
                   \/ \E w \in Workers : Cancel(w)
                   \/ \E w \in Workers : RetirePrevious(w)
                   \/ DayPasses
<1> USE DEF Inv, TypeInv, TypeOK, Workers, Goto, Done, locals
<1>0. ASSUME rows' = rows, today' = today,
             \A x \in Workers : pc'[x] = "retire" => pc[x] = "retire" /\ new'[x] = new[x]
      PROVE  Calm
  <2>1. Used' = Used /\ Live' = Live
    BY <1>0 DEF Used, Active, Live
  <2>2. \A n \in Used : Stands(n) => Stands(n)'
    BY <1>0, <2>1 DEF Stands
  <2> HIDE DEF Inv, TypeInv, TypeOK
  <2> QED
    BY <1>0, <2>1, <2>2 DEF Calm
<1>00. ASSUME NEW S \in SUBSET Lapsed, rows' = Expired(S), today' = today,
              \A x \in Workers : pc'[x] = "retire" => pc[x] = "retire" /\ new'[x] = new[x]
       PROVE  Calm
  BY <1>00, ExpiredCalm DEF Calm
<1>1. ASSUME NEW w \in Requests, NEW o \in Orders, Claim(w, o) PROVE Goal
  BY <1>0, <1>1 DEF Claim
<1>2. ASSUME NEW w \in Requests, NEW o \in Orders, Grant(w, o) PROVE Goal
  BY <1>0, <1>2 DEF Grant
<1>3. ASSUME NEW w \in Requests, StartCancel(w) PROVE Goal
  <2>1. CASE rows' = rows
    BY <1>0, <1>3, <2>1 DEF StartCancel, Reads
  <2>2. CASE rows' = Expired(Lapsed)
    BY <1>00, <1>3, <2>2 DEF StartCancel, Reads
  <2> QED
    BY <1>3, <2>1, <2>2 DEF StartCancel, Reads
<1>4. ASSUME NEW w \in Requests, Expire(w) PROVE Goal
  <2> DEFINE due == {n \in Lapsed : rows[n].endDate + Grace <= today}
  <2>1. due \in SUBSET Lapsed /\ rows' = Expired(due)
    BY <1>4 DEF Expire
  <2> HIDE DEF due
  <2> QED
    BY <1>00, <1>4, <2>1 DEF Expire
<1>5. ASSUME NEW w \in Requests, ResyncByHand(w) PROVE Goal
  BY <1>0, <1>5 DEF ResyncByHand
<1>6. ASSUME NEW o \in Orders, Resume(o) PROVE Goal
  BY <1>0, <1>6 DEF Resume
<1>7. ASSUME NEW w \in Workers, Existing(w) PROVE Goal
  BY <1>0, <1>7 DEF Existing, Resync
<1>8. ASSUME NEW w \in Workers, Previous(w) PROVE Goal
  <2>1. CASE rows' = rows
    BY <1>0, <1>8, <2>1 DEF Previous, Reads
  <2>2. CASE rows' = Expired(Lapsed)
    BY <1>00, <1>8, <2>2 DEF Previous, Reads
  <2> QED
    BY <1>8, <2>1, <2>2 DEF Previous, Reads
<1>9. ASSUME NEW w \in Workers, Create(w) PROVE Goal
  <2>1. CASE NotTaken(ord[w])
    BY <1>9, <2>1 DEF Create, Begins
  <2>2. CASE ~NotTaken(ord[w])
    BY <1>0, <1>9, <2>2 DEF Create, Resync
  <2> QED
    BY <2>1, <2>2
<1>10. ASSUME NEW w \in Workers, RetirePrevious(w) PROVE Goal
  BY <1>10
<1>11. ASSUME NEW w \in Workers, SyncReads(w) PROVE Goal
  BY <1>0, <1>11 DEF SyncReads
<1>12. ASSUME NEW w \in Workers, SyncBrand(w) PROVE Goal
  BY <1>0, <1>12 DEF SyncBrand
<1>13. ASSUME NEW w \in Workers, Record(w) PROVE Goal
  BY <1>0, <1>13 DEF Record
<1>14. ASSUME NEW w \in Workers, Invoice(w) PROVE Goal
  BY <1>0, <1>14 DEF Invoice
<1>15. ASSUME NEW w \in Workers, Complete(w) PROVE Goal
  BY <1>0, <1>15 DEF Complete
<1>16. ASSUME NEW w \in Workers, Cancel(w) PROVE Goal
  BY <1>16
<1>17. ASSUME NEW w \in Workers, InvoiceFails(w) PROVE Goal
  BY <1>0, <1>17 DEF InvoiceFails
<1>18. ASSUME NEW w \in Workers, Crash(w) PROVE Goal
  BY <1>0, <1>18 DEF Crash
<1>19. CASE DayPasses
  BY <1>19
<1>20. CASE UNCHANGED vars
  BY <1>0, <1>20 DEF vars
<1>21. ASSUME NEW w \in Workers, PlanGone(w) PROVE Goal
  BY <1>0, <1>21 DEF PlanGone
<1>22. ASSUME NEW S \in SUBSET (Orders \ Grants), Withdraw(S) PROVE Goal
  BY <1>0, <1>22 DEF Withdraw
<1> QED
  BY <1>1, <1>2, <1>3, <1>4, <1>5, <1>6, <1>7, <1>8, <1>9, <1>10, <1>11, <1>12,
     <1>13, <1>14, <1>15, <1>16, <1>17, <1>18, <1>19, <1>20, <1>21, <1>22
  DEF Next, Step

\* A new plan is live, and the others are left as they are.
LEMMA BeginsLive ==
  ASSUME Inv, NEW w \in Workers, Begins(w)
  PROVE  LET k == Cardinality(Used) + 1 IN
         /\ k \in Used' /\ k \in Live' /\ k \in Nat
         /\ \A n \in Used : n \in Used' /\ (Stands(n) => Stands(n)')
         /\ \A n \in Live : n \in Live'
         /\ \A x \in Workers : pc'[x] = "retire" =>
              (pc[x] = "retire" /\ new'[x] = new[x]) \/ new'[x] = k
<1> DEFINE k == Cardinality(Used) + 1
<1>1. /\ Used' = Used \cup {k}
      /\ \A n \in Used : n < k /\ rows'[n] = rows[n]
  BY BeginsOne
<1>2. k \in Numbers /\ k \in Nat
  <2>1. k \in Numbers
    BY DEF Begins
  <2> QED
    BY <2>1 DEF Numbers
<1>3. rows'[k].status = "ACTIVE" /\ rows'[k].endDate > today /\ today' = today
  <2>1. PICK d \in Dates :
          /\ d > today
          /\ rows' = [rows EXCEPT ![k] = [status |-> "ACTIVE", order |-> ord[w], endDate |-> d,
                                          by |-> 0]]
    BY DEF Begins
  <2>2. rows \in [Numbers -> Row] /\ today' = today
    BY DEF Inv, TypeInv, TypeOK, Row, Begins
  <2> QED
    BY <1>2, <2>1, <2>2
<1>4. \A x \in Workers : pc'[x] = "retire" =>
        (pc[x] = "retire" /\ new'[x] = new[x]) \/ new'[x] = k
  BY DEF Begins, Inv, TypeInv, TypeOK
<1> HIDE DEF k
<1>5. \A n \in Used : n \in Live => n \in Live'
  BY <1>1, <1>3 DEF Live, Active
<1>6. \A n \in Live : n \in Used
  BY DEF Live, Active
<1>7. k \in Live'
  BY <1>1, <1>3 DEF Live, Active
<1>8. \A n \in Used : n \in Used' /\ (Stands(n) => Stands(n)')
  BY <1>1, <1>5 DEF Stands
<1> QED
  BY <1>1, <1>2, <1>4, <1>5, <1>6, <1>7, <1>8 DEF k


\* A row that is cancelled stands, and the others are left as they are.
LEMMA CancelStands ==
  ASSUME Inv, NEW w \in Workers, Cancel(w)
  PROVE  /\ \A n \in Used : n \in Used' /\ (Stands(n) => Stands(n)')
         /\ \A x \in Workers : pc'[x] = "retire" => pc[x] = "retire" /\ new'[x] = new[x]
<1> USE DEF Inv, TypeInv
<1>1. rows' = [rows EXCEPT ![prev[w]] = Ended(rows[prev[w]], "CANCELLED")] /\ today' = today
  BY DEF Cancel
<1>2. ASSUME NEW n \in Used PROVE n \in Used' /\ (Stands(n) => Stands(n)')
  <2>1. rows[n] \in Row /\ n \in Numbers /\ rows \in [Numbers -> Row]
    BY DEF TypeOK, Row, Used
  <2>2. CASE n = prev[w]
    <3>1. rows'[n] = Ended(rows[n], "CANCELLED")
      BY <1>1, <2>1, <2>2
    <3>2. rows'[n].status = "CANCELLED"
      BY <2>1, <3>1, EndedKeeps
    <3> QED
      BY <2>1, <3>2 DEF Used, Stands
  <2>3. CASE n # prev[w]
    <3>1. rows'[n] = rows[n]
      BY <1>1, <2>1, <2>3
    <3> QED
      BY <1>1, <2>1, <3>1 DEF Used, Stands, Live, Active
  <2> QED
    BY <2>2, <2>3
<1>3. \A x \in Workers : pc'[x] = "retire" => pc[x] = "retire" /\ new'[x] = new[x]
  BY DEF Cancel, Goto, TypeOK
<1> QED
  BY <1>2, <1>3

\* Retiring a plan changes no other.
LEMMA RetireStands ==
  ASSUME Inv, NEW w \in Workers, RetirePrevious(w)
  PROVE  /\ today' = today /\ Used' = Used
         /\ \A n \in Used : n # prev[w] => rows'[n] = rows[n] /\ (Stands(n) => Stands(n)')
         /\ \A x \in Workers : pc'[x] = "retire" => x # w /\ pc[x] = "retire" /\ new'[x] = new[x]
<1>1. Used' = Used /\ today' = today
  BY RetiresOne DEF RetirePrevious
<1>2. \A n \in Used : n # prev[w] => rows'[n] = rows[n]
  BY DEF RetirePrevious, Superseded, Used
<1>3. \A n \in Used : n # prev[w] => (Stands(n) => Stands(n)')
  BY <1>1, <1>2 DEF Stands, Live, Active
<1>4. \A x \in Workers : pc'[x] = "retire" => x # w /\ pc[x] = "retire" /\ new'[x] = new[x]
  BY DEF RetirePrevious, Goto, Inv, TypeInv, TypeOK
<1> QED
  BY <1>1, <1>2, <1>3, <1>4

\* A later plan that is retired in its turn leaves one after itself, made by the
\* request that retires it.
LEMMA LaterStep ==
  ASSUME Inv, LaterInv, [Next]_vars
  PROVE  LaterInv'
<1> SUFFICES ASSUME NEW x \in Workers', pc'[x] = "retire"
             PROVE  \E n \in Used' : n >= new'[x] /\ Stands(n)'
  BY DEF LaterInv
<1>0. x \in Workers
  BY DEF Workers
<1>1. CASE Calm
  <2>1. pc[x] = "retire" /\ new'[x] = new[x]
    BY <1>0, <1>1 DEF Calm
  <2>2. PICK n \in Used : n >= new[x] /\ Stands(n)
    BY <1>0, <2>1 DEF LaterInv
  <2> QED
    BY <1>1, <2>1, <2>2 DEF Calm
<1>2. ASSUME NEW w \in Workers, Begins(w)
      PROVE  \E n \in Used' : n >= new'[x] /\ Stands(n)'
  <2> DEFINE k == Cardinality(Used) + 1
  <2>1. /\ k \in Used' /\ k \in Live' /\ k \in Nat
        /\ \A n \in Used : n \in Used' /\ (Stands(n) => Stands(n)')
        /\ (pc[x] = "retire" /\ new'[x] = new[x]) \/ new'[x] = k
    BY <1>0, <1>2, BeginsLive
  <2> HIDE DEF k
  <2>2. CASE new'[x] = k
    BY <2>1, <2>2 DEF Stands
  <2>3. CASE pc[x] = "retire" /\ new'[x] = new[x]
    <3>1. PICK n \in Used : n >= new[x] /\ Stands(n)
      BY <1>0, <2>3 DEF LaterInv
    <3> QED
      BY <2>1, <2>3, <3>1
  <2> QED
    BY <2>1, <2>2, <2>3
<1>3. ASSUME NEW w \in Workers, Cancel(w)
      PROVE  \E n \in Used' : n >= new'[x] /\ Stands(n)'
  <2>1. /\ pc[x] = "retire" /\ new'[x] = new[x]
        /\ \A n \in Used : n \in Used' /\ (Stands(n) => Stands(n)')
    BY <1>0, <1>3, CancelStands
  <2>2. PICK n \in Used : n >= new[x] /\ Stands(n)
    BY <1>0, <2>1 DEF LaterInv
  <2> QED
    BY <2>1, <2>2
<1>4. ASSUME NEW w \in Workers, RetirePrevious(w)
      PROVE  \E n \in Used' : n >= new'[x] /\ Stands(n)'
  <2>1. /\ Used' = Used /\ pc[x] = "retire" /\ new'[x] = new[x]
        /\ \A n \in Used : n # prev[w] => (Stands(n) => Stands(n)')
    BY <1>0, <1>4, RetireStands
  <2>2. PICK n \in Used : n >= new[x] /\ Stands(n)
    BY <1>0, <2>1 DEF LaterInv
  <2>3. CASE n # prev[w]
    BY <2>1, <2>2, <2>3
  <2>4. CASE n = prev[w]
    <3>1. pc[w] = "retire"
      BY <1>4 DEF RetirePrevious
    <3>2. PICK m \in Used : m >= new[w] /\ Stands(m)
      BY <3>1 DEF LaterInv
    <3>3. prev[w] < new[w] /\ prev[w] \in Used /\ new[w] \in Used /\ new[x] \in Used
      BY <1>0, <2>1, <3>1 DEF Inv, ByInv
    <3>4. /\ m \in Int /\ n \in Int /\ prev[w] \in Int /\ new[w] \in Int /\ new[x] \in Int
      BY <3>3 DEF Used, Numbers
    <3>5. m # prev[w] /\ m >= new[x]
      BY <2>2, <2>4, <3>2, <3>3, <3>4
    <3> QED
      BY <2>1, <3>2, <3>5
  <2> QED
    BY <2>3, <2>4
<1>5. CASE DayPasses
  BY <1>0, <1>5 DEF DayPasses
<1> QED
  BY <1>1, <1>2, <1>3, <1>4, <1>5, LiveSteps

\* Only time, a cancellation, or retiring a plan for one that was cancelled
\* since, takes the last live plan.
LEMMA LastPlanStep ==
  ASSUME Inv, LaterInv, [Next]_vars, Live # {}, Live' = {}
  PROVE  \/ today' # today
         \/ \E w \in Workers : Cancel(w)
         \/ \E w \in Workers : RetirePrevious(w) /\ CancelledSince(new[w])
<1>0. PICK l \in Live : TRUE
  OBVIOUS
<1>1. CASE Calm
  BY <1>0, <1>1 DEF Calm
<1>2. ASSUME NEW w \in Workers, Begins(w) PROVE FALSE
  BY <1>2, BeginsLive
<1>3. ASSUME NEW w \in Workers, RetirePrevious(w) PROVE CancelledSince(new[w])
  <2>1. PICK n \in Used : n >= new[w] /\ Stands(n)
    BY <1>3 DEF LaterInv, RetirePrevious
  <2>2. n # prev[w]
    <3>1. prev[w] < new[w] /\ prev[w] \in Used /\ new[w] \in Used
      BY <1>3 DEF RetirePrevious, Inv, ByInv
    <3>2. n \in Int /\ prev[w] \in Int /\ new[w] \in Int
      BY <3>1 DEF Used, Numbers
    <3> QED
      BY <2>1, <3>1, <3>2
  <2>3. rows'[n] = rows[n] /\ Used' = Used /\ today' = today
    BY <1>3, <2>2, RetireStands
  <2>4. n \notin Live
    BY <2>3 DEF Live, Active
  <2> QED
    BY <2>1, <2>4 DEF Stands, CancelledSince
<1>4. CASE DayPasses
  <2>1. today \in Nat /\ today' = today + 1
    BY <1>4, ConstantsAssumption DEF DayPasses, Inv, TypeInv, TypeOK
  <2> QED
    BY <2>1
<1> QED
  BY <1>1, <1>2, <1>3, <1>4, LiveSteps

\* Only time and an admin's cancellation take the last live plan of a brand,
\* wherever its settles stop and however they overtake each other.
THEOREM NeverWithoutPlanCorrect == Spec => NeverWithoutPlan
<1>1. Init => LaterInv
  BY DEF Init, LaterInv
<1>2. Inv /\ LaterInv /\ [Next]_vars => LaterInv'
  BY LaterStep
<1>3. Inv /\ LaterInv /\ [Next]_vars =>
        [Live # {} /\ Live' = {} =>
           \/ today' # today
           \/ \E w \in Workers : Cancel(w)
           \/ \E w \in Workers : RetirePrevious(w) /\ CancelledSince(new[w])]_vars
  BY LastPlanStep
<1> QED
  BY <1>1, <1>2, <1>3, InvAlways, PTL DEF Spec, NeverWithoutPlan
=============================================================================
