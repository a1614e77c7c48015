------------------------------ MODULE JobLock -------------------------------
(***************************************************************************)
(* The lock of one background job (helpers/jobs/jobLock.js) and the runner *)
(* that takes it (jobs/index.js).  Several instances of the server         *)
(* schedule every job; the row of the job says which of them runs it and   *)
(* until when.  A lease is either live or past its expiresAt: a heartbeat  *)
(* pushes it out while the job works, and it lapses when its process is    *)
(* dead or was stalled for longer than a lease.  The row names a process,  *)
(* not a run, and a process can have two runs under way: a tick of the     *)
(* timer and runJobNow, or a late tick and the next.                       *)
(***************************************************************************)
EXTENDS Integers, FiniteSets

CONSTANTS Instances,      \* hosts of the server
          Triggers,       \* what starts a run on an instance: the timer, runJobNow
          None,
          HandoverRaces,  \* may a process take the lock before its own run that lost it has ended?
          MaxStalls,      \* bound: leases that lapse under a live run
          MaxFaults       \* bound: crashes and lost answers

ASSUME ConstantsAssumption ==
  /\ HandoverRaces \in BOOLEAN
  /\ MaxStalls \in Nat /\ MaxFaults \in Nat
  /\ None \notin Instances \X (0..MaxFaults)

VARIABLES
  lockedBy,  \* JobLock.lockedBy
  live,      \* JobLock.expiresAt lies in the future
  boot,      \* the boot token in INSTANCE_ID, by instance
  inFlight,  \* instances whose inFlight set has the job
  pc,        \* where a run is in runJob
  lapsed,    \* history: runs whose lease lapsed and was not renewed since
  stalls, faults

vars == <<lockedBy, live, boot, inFlight, pc, lapsed, stalls, faults>>

Runs == Instances \X Triggers

\* INSTANCE_ID of the process of a run: host, and a token drawn at boot.
Identities == Instances \X (0..MaxFaults)
Me(r) == <<r[1], boot[r[1]]>>

\* A run that took the lock and has not handed it back.
UnderWay == {r \in Runs : pc[r] \in {"run", "health", "release"}}
Running == {r \in Runs : pc[r] = "run"}

TypeOK ==
  /\ lockedBy \in Identities \cup {None}
  /\ live \in BOOLEAN
  /\ boot \in [Instances -> 0..faults]
  /\ inFlight \subseteq Instances
  /\ pc \in [Runs -> {"idle", "acquire", "run", "health", "release"}]
  /\ lapsed \subseteq Runs
  /\ stalls \in 0..MaxStalls
  /\ faults \in 0..MaxFaults

Init ==
  /\ lockedBy = None
  /\ live = FALSE
  /\ boot = [i \in Instances |-> 0]
  /\ inFlight = {}
  /\ pc = [r \in Runs |-> "idle"]
  /\ lapsed = {}
  /\ stalls = 0
  /\ faults = 0

Goto(r, label) == pc' = [pc EXCEPT ![r] = label]

-----------------------------------------------------------------------------
(* acquireJobLock: one upsert.  A live lease is a duplicate key.           *)

\* Mutant: whoever asks gets the lock.
AvailableAlways == TRUE

\* Mutant: a flag that only its holder clears.
AvailableIfHandedBack == lockedBy = None

Available == ~live

\* runJob up to the upsert: the cheap guard of the process.
Tick(r) ==
  /\ pc[r] = "idle"
  /\ r[1] \notin inFlight
  /\ Goto(r, "acquire")
  /\ UNCHANGED <<lockedBy, live, boot, inFlight, lapsed, stalls, faults>>

TakeLock(r) ==
  /\ pc[r] = "acquire"
  /\ Available
  /\ HandoverRaces \/ \A l \in lapsed : l[1] # r[1]
  /\ lockedBy' = Me(r)
  /\ live' = TRUE

Acquire(r) ==
  /\ TakeLock(r)
  /\ inFlight' = inFlight \cup {r[1]}
  /\ Goto(r, "run")
  /\ UNCHANGED <<boot, lapsed, stalls, faults>>

\* The upsert lands and its answer is lost: runJob skips, the lease stands.
AcquireUnanswered(r) ==
  /\ faults < MaxFaults
  /\ TakeLock(r)
  /\ faults' = faults + 1
  /\ Goto(r, "idle")
  /\ UNCHANGED <<boot, inFlight, lapsed, stalls>>

LockedOut(r) ==
  /\ pc[r] = "acquire"
  /\ ~Available
  /\ Goto(r, "idle")
  /\ UNCHANGED <<lockedBy, live, boot, inFlight, lapsed, stalls, faults>>

\* renewJobLock: it renews a lapsed lease too, if nobody took it.
Heartbeat(r) ==
  /\ pc[r] = "run"
  /\ lockedBy = Me(r)
  /\ live' = TRUE
  /\ lapsed' = lapsed \ {r}
  /\ UNCHANGED <<lockedBy, boot, inFlight, pc, stalls, faults>>

-----------------------------------------------------------------------------
(* The end of a run, whether the job succeeded or failed.                  *)

Finish(r) ==
  /\ pc[r] = "run"
  /\ inFlight' = inFlight \ {r[1]}
  /\ Goto(r, "health")
  /\ UNCHANGED <<lockedBy, live, boot, lapsed, stalls, faults>>

\* Mutant: the release that the comment in releaseJobLock says it used to be.
OursAnyway(r) == TRUE

Ours(r) == lockedBy = Me(r)

\* The health fields, written whoever holds the lease.
WriteHealth(r) ==
  /\ pc[r] = "health"
  /\ Goto(r, "release")
  /\ UNCHANGED <<lockedBy, live, boot, inFlight, lapsed, stalls, faults>>

Release(r) ==
  /\ pc[r] = "release"
  /\ lockedBy' = IF Ours(r) THEN None ELSE lockedBy
  /\ live' = (live /\ ~Ours(r))
  /\ Goto(r, "idle")
  /\ lapsed' = lapsed \ {r}
  /\ UNCHANGED <<boot, inFlight, stalls, faults>>

\* Either write of releaseJobLock fails: the rest of it is skipped.
ReleaseFails(r) ==
  /\ pc[r] \in {"health", "release"}
  /\ faults < MaxFaults
  /\ faults' = faults + 1
  /\ Goto(r, "idle")
  /\ lapsed' = lapsed \ {r}
  /\ UNCHANGED <<lockedBy, live, boot, inFlight, stalls>>

-----------------------------------------------------------------------------
(* Time and failure.                                                       *)

\* The lease of a process that runs the job no longer is not renewed.
Lapse ==
  /\ live
  /\ \A r \in UnderWay : Me(r) # lockedBy
  /\ live' = FALSE
  /\ UNCHANGED <<lockedBy, boot, inFlight, pc, lapsed, stalls, faults>>

\* A process sleeps, or cannot reach the database, for longer than a lease.
Stall(i) ==
  /\ live /\ lockedBy = <<i, boot[i]>>
  /\ \E r \in UnderWay : r[1] = i
  /\ stalls < MaxStalls
  /\ stalls' = stalls + 1
  /\ live' = FALSE
  /\ lapsed' = lapsed \cup {r \in UnderWay : r[1] = i}
  /\ UNCHANGED <<lockedBy, boot, inFlight, pc, faults>>

\* A process dies and its host starts another.
Crash(i) ==
  /\ faults < MaxFaults
  /\ faults' = faults + 1
  /\ boot' = [boot EXCEPT ![i] = @ + 1]
  /\ inFlight' = inFlight \ {i}
  /\ pc' = [r \in Runs |-> IF r[1] = i THEN "idle" ELSE pc[r]]
  /\ lapsed' = {r \in lapsed : r[1] # i}
  /\ UNCHANGED <<lockedBy, live, stalls>>

Step(r) ==
  Acquire(r) \/ LockedOut(r) \/ Finish(r) \/ WriteHealth(r) \/ Release(r)

Next ==
  \/ \E r \in Runs : \/ Tick(r) \/ Step(r) \/ Heartbeat(r)
                     \/ AcquireUnanswered(r) \/ ReleaseFails(r)
  \/ Lapse
  \/ \E i \in Instances : Stall(i) \/ Crash(i)

(* Timers fire, a job ends, a call is answered, and time passes.           *)
Fairness ==
  /\ \A r \in Runs : WF_vars(Tick(r)) /\ WF_vars(Step(r))
  /\ WF_vars(Lapse)

Spec == Init /\ [][Next]_vars /\ Fairness

-----------------------------------------------------------------------------
(* Properties.                                                             *)

\* Of the runs under way at once, at most one has kept its lease: a job is
\* run twice at the same time only next to a run that was stalled for longer
\* than a lease (jobLock.js, "two instances ... cannot both win").
UnlapsedRunsAlone ==
  \A r, s \in Running : r = s \/ r \in lapsed \/ s \in lapsed

\* A lease that is live under a run is cleared by nobody else: "a slow
\* instance whose lease lapsed ... would finish and wipe the live lease out
\* from under it" is what the scoped release prevents (releaseJobLock).
LeaseIsKept ==
  [][\A r \in Runs :
       /\ r \in Running /\ r \notin lapsed
       /\ pc'[r] = "run" /\ r \notin lapsed'
       => lockedBy' = Me(r) /\ live']_vars

\* Whoever dies with the lock, the job runs again on some instance
\* (constants/job.js: "without an expiry that job would never run again").
JobRunsAgain == []<>(Running # {})
=============================================================================
