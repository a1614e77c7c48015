--------------------------- MODULE JobLockProofs ----------------------------
(***************************************************************************)
(* Proofs about JobLock, for any number of instances, triggers, stalls and *)
(* faults: as long as no process takes the lock before its own run that    *)
(* lost it has ended, at most one run has kept its lease, and only a run   *)
(* itself, or time, ends a live lease.                                     *)
(***************************************************************************)
EXTENDS JobLock, TLAPS

\* What makes the lock exclusive: a process has one run under way, and a run
\* that never stalled is named by a live row.
LeaseInv ==
  /\ lapsed \subseteq UnderWay
  /\ \A r, s \in UnderWay : r[1] = s[1] => r = s
  /\ \A r \in UnderWay \ lapsed : lockedBy = Me(r) /\ live

\* Two runs of one instance have one name, and only they.
LEMMA NamesOfRuns ==
  ASSUME NEW r \in Runs, NEW s \in Runs, Me(r) = Me(s)
  PROVE  r[1] = s[1]
BY DEF Me

\* A run belongs to an instance.
LEMMA HomeOfRun ==
  ASSUME NEW r \in Runs
  PROVE  r[1] \in Instances
BY DEF Runs

\* The type invariant, of every operation of the runner and of the lock.
THEOREM TypeCorrect == Spec => []TypeOK
<1>1. Init => TypeOK
  <2> SUFFICES ASSUME Init PROVE TypeOK
    OBVIOUS
  <2>1. boot \in [Instances -> 0..faults]
    BY ConstantsAssumption DEF Init
  <2>2. stalls \in 0..MaxStalls /\ faults \in 0..MaxFaults
    BY ConstantsAssumption DEF Init
  <2> QED
    BY <2>1, <2>2 DEF Init, TypeOK
<1>2. TypeOK /\ [Next]_vars => TypeOK'
  <2> SUFFICES ASSUME TypeOK, [Next]_vars PROVE TypeOK'
    OBVIOUS
  <2> USE ConstantsAssumption DEF TypeOK, Goto
  <2>1. ASSUME NEW r \in Runs, Tick(r) PROVE TypeOK'
    BY <2>1 DEF Tick
  <2>2. ASSUME NEW r \in Runs, Acquire(r) PROVE TypeOK'
    BY <2>2, HomeOfRun DEF Acquire, TakeLock, Me, Identities
  <2>3. ASSUME NEW r \in Runs, LockedOut(r) PROVE TypeOK'
    BY <2>3 DEF LockedOut
  <2>4. ASSUME NEW r \in Runs, Finish(r) PROVE TypeOK'
    BY <2>4 DEF Finish
  <2>5. ASSUME NEW r \in Runs, WriteHealth(r) PROVE TypeOK'
    BY <2>5 DEF WriteHealth
  <2>6. ASSUME NEW r \in Runs, Release(r) PROVE TypeOK'
    BY <2>6 DEF Release, Ours
  <2>7. ASSUME NEW r \in Runs, Heartbeat(r) PROVE TypeOK'
    BY <2>7 DEF Heartbeat
  <2>8. ASSUME NEW r \in Runs, AcquireUnanswered(r) PROVE TypeOK'
    BY <2>8, HomeOfRun DEF AcquireUnanswered, TakeLock, Me, Identities
  <2>9. ASSUME NEW r \in Runs, ReleaseFails(r) PROVE TypeOK'
    BY <2>9 DEF ReleaseFails
  <2>10. CASE Lapse
    BY <2>10 DEF Lapse
  <2>11. ASSUME NEW i \in Instances, Stall(i) PROVE TypeOK'
    <3>1. lapsed' \subseteq Runs /\ stalls' \in 0..MaxStalls
      BY <2>11 DEF Stall, UnderWay
    <3> QED
      BY <2>11, <3>1 DEF Stall
  <2>12. ASSUME NEW i \in Instances, Crash(i) PROVE TypeOK'
    <3>1. boot' \in [Instances -> 0..faults']
      <4>1. \A j \in Instances : boot[j] \in 0..faults
        OBVIOUS
      <4> QED
        BY <2>12, <4>1 DEF Crash
    <3>2. pc' \in [Runs -> {"idle", "acquire", "run", "health", "release"}]
      BY <2>12 DEF Crash
    <3> QED
      BY <2>12, <3>1, <3>2 DEF Crash
  <2>13. CASE UNCHANGED vars
    BY <2>13 DEF vars
  <2> QED
    BY <2>1, <2>2, <2>3, <2>4, <2>5, <2>6, <2>7, <2>8, <2>9, <2>10, <2>11, <2>12, <2>13
    DEF Next, Step
<1> QED
  BY <1>1, <1>2, PTL DEF Spec
-----------------------------------------------------------------------------
(* The lease.                                                              *)

\* A run that starts is the only one of its process: a live row shuts the
\* others out if the first kept its lease, and the assumption on handing over
\* if it did not.
LEMMA TakesAlone ==
  ASSUME HandoverRaces = FALSE, TypeOK, LeaseInv, NEW r \in Runs, TakeLock(r)
  PROVE  /\ \A s \in UnderWay : s \in lapsed /\ s[1] # r[1]
         /\ \A s \in UnderWay : Me(s) # Me(r)
<1>1. \A s \in UnderWay : s \in lapsed
  BY DEF TakeLock, Available, LeaseInv
<1>2. \A s \in UnderWay : s[1] # r[1]
  BY <1>1 DEF TakeLock
<1> QED
  BY <1>1, <1>2, NamesOfRuns DEF UnderWay

\* Every step keeps the lease of a job that is under way.
LEMMA LeaseStep ==
  ASSUME HandoverRaces = FALSE, TypeOK, LeaseInv, [Next]_vars
  PROVE  LeaseInv'
<1> USE DEF TypeOK, Goto
<1>1. ASSUME NEW r \in Runs, Tick(r) PROVE LeaseInv'
  <2>1. UnderWay' = UnderWay
    BY <1>1 DEF Tick, UnderWay
  <2> QED
    BY <1>1, <2>1 DEF Tick, LeaseInv, Me
<1>2. ASSUME NEW r \in Runs, Acquire(r) PROVE LeaseInv'
  <2>1. UnderWay' = UnderWay \cup {r}
    BY <1>2 DEF Acquire, TakeLock, UnderWay
  <2>2. \A s \in UnderWay : s \in lapsed /\ s[1] # r[1]
    BY <1>2, TakesAlone DEF Acquire
  <2>3. lapsed' \subseteq UnderWay'
    BY <1>2, <2>1 DEF Acquire, LeaseInv
  <2>4. \A s, t \in UnderWay' : s[1] = t[1] => s = t
    BY <2>1, <2>2 DEF LeaseInv
  <2>5. lockedBy' = Me(r)' /\ live'
    BY <1>2 DEF Acquire, TakeLock, Me
  <2> QED
    BY <1>2, <2>1, <2>2, <2>3, <2>4, <2>5 DEF Acquire, LeaseInv
<1>3. ASSUME NEW r \in Runs, LockedOut(r) PROVE LeaseInv'
  <2>1. UnderWay' = UnderWay
    BY <1>3 DEF LockedOut, UnderWay
  <2> QED
    BY <1>3, <2>1 DEF LockedOut, LeaseInv, Me
<1>4. ASSUME NEW r \in Runs, Finish(r) PROVE LeaseInv'
  <2>1. UnderWay' = UnderWay
    BY <1>4 DEF Finish, UnderWay
  <2> QED
    BY <1>4, <2>1 DEF Finish, LeaseInv, Me
<1>5. ASSUME NEW r \in Runs, WriteHealth(r) PROVE LeaseInv'
  <2>1. UnderWay' = UnderWay
    BY <1>5 DEF WriteHealth, UnderWay
  <2> QED
    BY <1>5, <2>1 DEF WriteHealth, LeaseInv, Me
<1>6. ASSUME NEW r \in Runs, Release(r) PROVE LeaseInv'
  <2>1. UnderWay' = UnderWay \ {r} /\ r \in UnderWay
    BY <1>6 DEF Release, UnderWay
  <2>2. lapsed' \subseteq UnderWay'
    BY <1>6, <2>1 DEF Release, LeaseInv
  <2>3. \A s \in UnderWay : s # r => s[1] # r[1]
    BY <2>1 DEF LeaseInv
  <2>4. ASSUME NEW s \in UnderWay' \ lapsed' PROVE lockedBy' = Me(s)' /\ live'
    <3>1. s \in UnderWay \ lapsed /\ s # r
      BY <1>6, <2>1, <2>4 DEF Release
    <3>2. lockedBy = Me(s) /\ live
      BY <3>1 DEF LeaseInv
    <3>3. ~Ours(r)
      BY <2>3, <3>1, <3>2, NamesOfRuns DEF Ours, UnderWay
    <3> QED
      BY <1>6, <3>2, <3>3 DEF Release, Me
  <2> QED
    BY <2>1, <2>2, <2>4 DEF LeaseInv
<1>7. ASSUME NEW r \in Runs, Heartbeat(r) PROVE LeaseInv'
  <2>1. UnderWay' = UnderWay /\ r \in UnderWay
    BY <1>7 DEF Heartbeat, UnderWay
  <2>2. lockedBy' = Me(r)' /\ live'
    BY <1>7 DEF Heartbeat, Me
  <2> QED
    BY <1>7, <2>1, <2>2 DEF Heartbeat, LeaseInv, Me
<1>8. ASSUME NEW r \in Runs, AcquireUnanswered(r) PROVE LeaseInv'
  <2>1. UnderWay' = UnderWay
    BY <1>8 DEF AcquireUnanswered, TakeLock, UnderWay
  <2>2. \A s \in UnderWay : s \in lapsed
    BY <1>8, TakesAlone DEF AcquireUnanswered
  <2> QED
    BY <1>8, <2>1, <2>2 DEF AcquireUnanswered, LeaseInv
<1>9. ASSUME NEW r \in Runs, ReleaseFails(r) PROVE LeaseInv'
  <2>1. UnderWay' = UnderWay \ {r}
    BY <1>9 DEF ReleaseFails, UnderWay
  <2> QED
    BY <1>9, <2>1 DEF ReleaseFails, LeaseInv, Me
<1>10. CASE Lapse
  <2>1. UnderWay' = UnderWay
    BY <1>10 DEF Lapse, UnderWay
  <2>2. UnderWay \subseteq lapsed
    BY <1>10 DEF Lapse, LeaseInv
  <2> QED
    BY <1>10, <2>1, <2>2 DEF Lapse, LeaseInv
<1>11. ASSUME NEW i \in Instances, Stall(i) PROVE LeaseInv'
  <2>1. UnderWay' = UnderWay
    BY <1>11 DEF Stall, UnderWay
  <2>2. \A s \in UnderWay \ lapsed : s[1] = i
    BY <1>11 DEF Stall, LeaseInv, Me
  <2> QED
    BY <1>11, <2>1, <2>2 DEF Stall, LeaseInv
<1>12. ASSUME NEW i \in Instances, Crash(i) PROVE LeaseInv'
  <2>1. UnderWay' = {s \in UnderWay : s[1] # i}
    BY <1>12 DEF Crash, UnderWay
  <2>2. \A s \in UnderWay' : Me(s)' = Me(s)
    <3>1. \A s \in UnderWay' : s[1] \in Instances /\ s[1] # i
      BY <2>1, HomeOfRun DEF UnderWay
    <3> QED
      BY <1>12, <3>1 DEF Crash, Me
  <2> QED
    BY <1>12, <2>1, <2>2 DEF Crash, LeaseInv
<1>13. CASE UNCHANGED vars
  <2>1. UnderWay' = UnderWay
    BY <1>13 DEF vars, UnderWay
  <2> QED
    BY <1>13, <2>1 DEF vars, LeaseInv, Me
<1> QED
  BY <1>1, <1>2, <1>3, <1>4, <1>5, <1>6, <1>7, <1>8, <1>9, <1>10, <1>11, <1>12, <1>13
  DEF Next, Step

\* A job under way has the lease or has lost it, as long as a run that hands over does
\* not race the next.
LEMMA LeaseAlways ==
  ASSUME HandoverRaces = FALSE
  PROVE  Spec => []LeaseInv
<1>1. Init => LeaseInv
  BY DEF Init, LeaseInv, UnderWay
<1>2. TypeOK /\ LeaseInv /\ [Next]_vars => LeaseInv'
  BY LeaseStep
<1> QED
  BY <1>1, <1>2, TypeCorrect, PTL DEF Spec

\* Of the runs under way at once, at most one has kept its lease.
THEOREM UnlapsedRunsAloneCorrect ==
  ASSUME HandoverRaces = FALSE
  PROVE  Spec => []UnlapsedRunsAlone
<1>1. TypeOK /\ LeaseInv => UnlapsedRunsAlone
  <2> SUFFICES ASSUME TypeOK, LeaseInv, NEW r \in Running, NEW s \in Running,
                      r \notin lapsed, s \notin lapsed
               PROVE  r = s
    BY DEF UnlapsedRunsAlone
  <2>1. r \in UnderWay \ lapsed /\ s \in UnderWay \ lapsed /\ r \in Runs /\ s \in Runs
    BY DEF Running, UnderWay
  <2>2. Me(r) = Me(s)
    BY <2>1 DEF LeaseInv
  <2> QED
    BY <2>1, <2>2, NamesOfRuns DEF LeaseInv
<1> QED
  BY <1>1, LeaseAlways, TypeCorrect, PTL

\* A lease that is live under a run is cleared by nobody else.
THEOREM LeaseIsKeptCorrect ==
  ASSUME HandoverRaces = FALSE
  PROVE  Spec => LeaseIsKept
<1>1. ASSUME TypeOK, LeaseInv, LeaseInv', [Next]_vars,
             NEW r \in Runs, r \in Running, r \notin lapsed,
             pc'[r] = "run", r \notin lapsed'
      PROVE  lockedBy' = Me(r) /\ live'
  <2>1. r \in UnderWay' \ lapsed'
    BY <1>1 DEF UnderWay
  <2>2. lockedBy' = Me(r)' /\ live'
    BY <1>1, <2>1 DEF LeaseInv
  <2>3. boot'[r[1]] = boot[r[1]]
    <3>1. ASSUME NEW i \in Instances, Crash(i) PROVE boot'[r[1]] = boot[r[1]]
      BY <1>1, <3>1, HomeOfRun DEF Crash, TypeOK
    <3>2. (\A i \in Instances : ~Crash(i)) => boot' = boot
      BY <1>1 DEF Next, Step, Tick, Acquire, LockedOut, Finish, WriteHealth, Release,
                  Heartbeat, AcquireUnanswered, ReleaseFails, Lapse, Stall, vars
    <3> QED
      BY <3>1, <3>2
  <2> QED
    BY <2>2, <2>3 DEF Me
<1>2. TypeOK /\ LeaseInv /\ LeaseInv' /\ [Next]_vars =>
        (\A r \in Runs : /\ r \in Running /\ r \notin lapsed
                         /\ pc'[r] = "run" /\ r \notin lapsed'
                         => lockedBy' = Me(r) /\ live')
  BY <1>1
<1> QED
  BY <1>2, LeaseAlways, TypeCorrect, PTL DEF LeaseIsKept, Spec
=============================================================================
