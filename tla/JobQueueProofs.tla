--------------------------- MODULE JobQueueProofs ---------------------------
(***************************************************************************)
(* What JobQueue guarantees for every set of jobs and every bound.  The    *)
(* first two theorems hold for any number of worker processes.  The others *)
(* need the deployment the repository describes, one worker process: their *)
(* inductive invariant says that nothing changes under an open claim or a  *)
(* running handler, which a second worker falsifies.                       *)
(***************************************************************************)
EXTENDS JobQueue, FiniteSetTheorems, TLAPS

USE JobQueueConstants DEF Null, Unused, MayRetry

LEMMA ScanTyped ==
  ASSUME TypeOK, NEW w \in Workers, pc[w] = "claiming"
  PROVE  scan[w] \in Scans
BY DEF TypeOK

LEMMA HoldTyped ==
  ASSUME TypeOK, NEW w \in Workers, pc[w] \in {"running", "raising"}
  PROVE  held[w] \in Holds
BY DEF TypeOK

LEMMA TypeInit == Init => TypeOK
BY DEF Init, TypeOK

LEMMA TypeEnqueue ==
  ASSUME TypeOK, NEW j \in Jobs, Enqueue(j)
  PROVE  TypeOK'
<1>1. PICK d \in ScheduleDelays : run_after' = [run_after EXCEPT ![j] = now + d]
  BY DEF Enqueue
<1>2. run_after' \in [Jobs -> Nat]
  BY <1>1 DEF TypeOK
<1>3. Cardinality({k \in Jobs : status[k] # "ABSENT"}) \in Nat
  BY FS_Subset, FS_CardinalityType
<1>4. created_at' \in [Jobs -> Nat]
  BY <1>3 DEF Enqueue, TypeOK
<1>5. status' \in [Jobs -> {"ABSENT", "QUEUED", "RUNNING"} \cup Final]
  BY DEF Enqueue, TypeOK
<1>. QED
  BY <1>2, <1>4, <1>5 DEF Enqueue, TypeOK, worker

LEMMA TypeScan ==
  ASSUME TypeOK, NEW w \in Workers, Scan(w)
  PROVE  TypeOK'
<1>1. PICK j \in Due \cup Stale :
        scan' = [scan EXCEPT ![w] =
                   [stale |-> Stale, job |-> j, attempts |-> attempts[j], at |-> now]]
  BY DEF Scan
<1>2. [stale |-> Stale, job |-> j, attempts |-> attempts[j], at |-> now] \in Scans
  BY DEF Scans, Stale, Due, TypeOK
<1>. QED
  BY <1>1, <1>2 DEF Scan, TypeOK, table

LEMMA TypeClaim ==
  ASSUME TypeOK, NEW w \in Workers, Claim(w)
  PROVE  TypeOK'
<1>1. scan[w] \in Scans
  BY ScanTyped DEF Claim
<1>2. /\ status' \in [Jobs -> {"ABSENT", "QUEUED", "RUNNING"} \cup Final]
      /\ run_after' \in [Jobs -> Nat]
      /\ locked_at' \in [Jobs -> Nat \cup {Null}]
      /\ lock_owner' \in [Jobs -> Workers \cup {NoWorker}]
      /\ recovered' \in [Jobs -> Nat]
  BY <1>1 DEF Claim, TypeOK, Scans
<1>3. /\ attempts' \in [Jobs -> Nat]
      /\ [job |-> scan[w].job, attempts |-> scan[w].attempts + 1] \in Holds
  BY <1>1 DEF Claim, TypeOK, Scans, Holds
<1>4. /\ scan' \in [Workers -> Scans \cup {NoScan}]
      /\ held' \in [Workers -> Holds \cup {NoHold}]
      /\ held'[w] \in Holds
      /\ \A v \in Workers : v # w => held'[v] = held[v] /\ scan'[v] = scan[v]
  BY <1>3 DEF Claim, TypeOK
<1>. QED
  BY <1>2, <1>3, <1>4 DEF Claim, TypeOK

LEMMA TypeWorkerEnd ==
  ASSUME TypeOK, NEW w \in Workers,
         Succeed(w) \/ ForbidRetry(w) \/ Fail(w) \/ FailUnhandled(w)
  PROVE  TypeOK'
<1>1. held[w].job \in Jobs /\ held[w].attempts \in Nat
  BY HoldTyped DEF Succeed, ForbidRetry, Fail, FailUnhandled, Holds
<1>2. CASE Succeed(w)
  BY <1>1, <1>2 DEF Succeed, Release, GoIdle, TypeOK, Final
<1>3. CASE ForbidRetry(w)
  BY <1>1, <1>3 DEF ForbidRetry, TypeOK
<1>4. CASE Fail(w)
  BY <1>1, <1>4 DEF Fail, FailJob, Release, GoIdle, TypeOK, Final
<1>5. CASE FailUnhandled(w)
  BY <1>1, <1>5 DEF FailUnhandled, FailJob, Release, GoIdle, TypeOK, Final
<1>. QED
  BY <1>2, <1>3, <1>4, <1>5

LEMMA TypeNext == TypeOK /\ [Next]_vars => TypeOK'
<1> SUFFICES ASSUME TypeOK, [Next]_vars PROVE TypeOK'
  OBVIOUS
<1>1. ASSUME NEW j \in Jobs, Enqueue(j) PROVE TypeOK'
  BY <1>1, TypeEnqueue
<1>2. ASSUME NEW w \in Workers, Work(w) PROVE TypeOK'
  <2>1. CASE Scan(w)
    BY <2>1, TypeScan
  <2>2. CASE Claim(w)
    BY <2>2, TypeClaim
  <2>3. CASE Succeed(w) \/ ForbidRetry(w) \/ Fail(w) \/ FailUnhandled(w)
    BY <2>3, TypeWorkerEnd
  <2>4. CASE FailRaises(w)
    BY <2>4 DEF FailRaises, Die, table, TypeOK
  <2>. QED
    BY <1>2, <2>1, <2>2, <2>3, <2>4 DEF Work, Finish
<1>3. ASSUME NEW w \in Workers, Crash(w) \/ Restart(w) PROVE TypeOK'
  BY <1>3 DEF Crash, Restart, Die, table, TypeOK
<1>4. CASE Tick
  BY <1>4 DEF Tick, table, worker, TypeOK
<1>5. CASE UNCHANGED vars
  BY <1>5 DEF vars, table, worker, TypeOK
<1>. QED
  BY <1>1, <1>2, <1>3, <1>4, <1>5 DEF Next

(* Every column and every in-memory copy keeps its type, with any number of *)
(* worker processes.                                                        *)
THEOREM TypeCorrect == Spec => []TypeOK
BY TypeInit, TypeNext, PTL DEF Spec

-----------------------------------------------------------------------------

LEMMA LockNext == TypeOK /\ LockMatchesStatus /\ [Next]_vars => LockMatchesStatus'
<1> SUFFICES ASSUME TypeOK, LockMatchesStatus, [Next]_vars PROVE LockMatchesStatus'
  OBVIOUS
<1>1. ASSUME NEW j \in Jobs, Enqueue(j) PROVE LockMatchesStatus'
  BY <1>1 DEF Enqueue, LockMatchesStatus, TypeOK
<1>2. ASSUME NEW w \in Workers, Claim(w) PROVE LockMatchesStatus'
  <2>1. scan[w] \in Scans
    BY <1>2, ScanTyped DEF Claim
  <2>. QED
    BY <1>2, <2>1 DEF Claim, LockMatchesStatus, TypeOK, Scans
<1>3. ASSUME NEW w \in Workers, Succeed(w) \/ Fail(w) \/ FailUnhandled(w)
      PROVE  LockMatchesStatus'
  <2>1. held[w].job \in Jobs
    BY <1>3, HoldTyped DEF Succeed, Fail, FailUnhandled, Holds
  <2>. QED
    BY <1>3, <2>1 DEF Succeed, Fail, FailUnhandled, FailJob, Release,
                      LockMatchesStatus, TypeOK, Final
<1>4. ASSUME UNCHANGED <<status, locked_at, lock_owner>> PROVE LockMatchesStatus'
  BY <1>4 DEF LockMatchesStatus
<1>5. ASSUME NEW w \in Workers,
             Scan(w) \/ ForbidRetry(w) \/ FailRaises(w) \/ Crash(w) \/ Restart(w)
      PROVE  LockMatchesStatus'
  BY <1>4, <1>5 DEF Scan, ForbidRetry, FailRaises, Crash, Restart, Die, table
<1>. QED
  BY <1>1, <1>2, <1>3, <1>4, <1>5 DEF Next, Work, Finish, Tick, vars, table

(* However many workers race on the unlocked claim, RUNNING rows and only   *)
(* they carry a lock: each writer of the status writes both lock columns.   *)
THEOREM LocksMatch == Spec => []LockMatchesStatus
<1>1. Init => LockMatchesStatus
  BY DEF Init, LockMatchesStatus
<1>. QED
  BY <1>1, LockNext, TypeCorrect, PTL DEF Spec

-----------------------------------------------------------------------------
(* From here on: at most one worker process.                                *)
OneWorker == \A v, w \in Workers : v = w

(* The steps of the worker on the row it holds.                             *)
LEMMA SingleEnd ==
  ASSUME OneWorker, TypeOK, SingleWorkerInv, NEW w \in Workers,
         Succeed(w) \/ ForbidRetry(w) \/ Fail(w) \/ FailUnhandled(w)
  PROVE  SingleWorkerInv'
<1> USE DEF OneWorker
<1>1. held[w].job \in Jobs
  BY HoldTyped DEF Succeed, ForbidRetry, Fail, FailUnhandled, Holds
<1>2. /\ status[held[w].job] = "RUNNING"
      /\ attempts[held[w].job] <= MaxAttempts + recovered[held[w].job]
      /\ attempts[held[w].job] \in Nat /\ recovered[held[w].job] \in Nat
  BY <1>1 DEF SingleWorkerInv, HandlerOwnsRow, AttemptsBounded, TypeOK,
              Succeed, ForbidRetry, Fail, FailUnhandled
<1>3. pc[w] = "running" => held[w].attempts = attempts[held[w].job]
  BY DEF SingleWorkerInv, HoldCurrent
<1>4. CASE Succeed(w)
  BY <1>1, <1>2, <1>4 DEF Succeed, Release, GoIdle, TypeOK, SingleWorkerInv,
     HandlerOwnsRow, ScanCurrent, HoldCurrent, AttemptsLeft, AttemptsBounded, GivenUpLast
<1>5. CASE ForbidRetry(w)
  BY <1>1, <1>2, <1>5 DEF ForbidRetry, TypeOK, SingleWorkerInv,
     HandlerOwnsRow, ScanCurrent, HoldCurrent, AttemptsLeft, AttemptsBounded, GivenUpLast
<1>6. CASE Fail(w)
  BY <1>1, <1>2, <1>6 DEF Fail, FailJob, Release, GoIdle, TypeOK, SingleWorkerInv,
     HandlerOwnsRow, ScanCurrent, HoldCurrent, AttemptsLeft, AttemptsBounded, GivenUpLast
<1>7. CASE FailUnhandled(w)
  BY <1>1, <1>2, <1>3, <1>7 DEF FailUnhandled, FailJob, Release, GoIdle, TypeOK,
     SingleWorkerInv, HandlerOwnsRow, ScanCurrent, HoldCurrent, AttemptsLeft,
     AttemptsBounded, GivenUpLast
<1>. QED
  BY <1>4, <1>5, <1>6, <1>7

LEMMA SingleClaim ==
  ASSUME OneWorker, TypeOK, SingleWorkerInv, NEW w \in Workers, Claim(w)
  PROVE  SingleWorkerInv'
<1> DEFINE s == scan[w]
<1> USE DEF OneWorker
<1>1. s \in Scans /\ s.job \in Jobs /\ s.stale \subseteq Jobs /\ s.attempts \in Nat
  BY ScanTyped DEF Claim, Scans
<1>2. /\ s.attempts = attempts[s.job]
      /\ \A j \in s.stale : status[j] = "RUNNING"
      /\ s.job \in s.stale \/ status[s.job] = "QUEUED"
  BY DEF Claim, SingleWorkerInv, ScanCurrent
<1>3. /\ pc' = [pc EXCEPT ![w] = "running"]
      /\ held'[w] = [job |-> s.job, attempts |-> s.attempts + 1]
      /\ \A j \in Jobs :
           /\ status'[j] = IF j = s.job THEN "RUNNING"
                           ELSE IF j \in s.stale THEN "QUEUED" ELSE status[j]
           /\ lock_owner'[j] = IF j = s.job THEN w
                               ELSE IF j \in s.stale THEN NoWorker ELSE lock_owner[j]
           /\ attempts'[j] = IF j = s.job THEN attempts[j] + 1 ELSE attempts[j]
           /\ recovered'[j] = IF j \in s.stale THEN recovered[j] + 1 ELSE recovered[j]
  BY <1>1, <1>2 DEF Claim, TypeOK
<1>4. \A j \in Jobs : attempts[j] \in Nat /\ recovered[j] \in Nat
  BY DEF TypeOK
<1>5. (HandlerOwnsRow /\ ScanCurrent /\ HoldCurrent)'
  BY <1>1, <1>2, <1>3 DEF TypeOK, HandlerOwnsRow, ScanCurrent, HoldCurrent
<1>6. AttemptsLeft'
  BY <1>1, <1>2, <1>3, <1>4 DEF SingleWorkerInv, AttemptsLeft, AttemptsBounded
<1>7. AttemptsBounded'
  BY <1>1, <1>2, <1>3, <1>4 DEF SingleWorkerInv, AttemptsLeft, AttemptsBounded
<1>8. GivenUpLast'
  BY <1>1, <1>2, <1>3, <1>4 DEF SingleWorkerInv, GivenUpLast
<1>. QED
  BY <1>5, <1>6, <1>7, <1>8 DEF SingleWorkerInv

LEMMA SingleNext ==
  ASSUME OneWorker
  PROVE  TypeOK /\ SingleWorkerInv /\ [Next]_vars => SingleWorkerInv'
<1> SUFFICES ASSUME TypeOK, SingleWorkerInv, [Next]_vars PROVE SingleWorkerInv'
  OBVIOUS
<1> USE DEF SingleWorkerInv, HandlerOwnsRow, ScanCurrent, HoldCurrent,
            AttemptsLeft, AttemptsBounded, GivenUpLast
<1>1. ASSUME NEW j \in Jobs, Enqueue(j) PROVE SingleWorkerInv'
  <2>1. \A w \in Workers : pc[w] \in {"running", "raising"} => held[w].job # j
    BY <1>1 DEF Enqueue
  <2>2. \A w \in Workers : pc[w] = "claiming" => scan[w].job # j /\ j \notin scan[w].stale
    BY <1>1 DEF Enqueue
  <2>. QED
    BY <1>1, <2>1, <2>2 DEF Enqueue, worker, TypeOK
<1>2. ASSUME NEW w \in Workers, Scan(w) PROVE SingleWorkerInv'
  BY <1>2 DEF Scan, table, TypeOK, Due, Stale, OneWorker
<1>3. ASSUME NEW w \in Workers, FailRaises(w) \/ Crash(w) \/ Restart(w)
      PROVE  SingleWorkerInv'
  BY <1>3 DEF FailRaises, Crash, Restart, Die, table, TypeOK, OneWorker
<1>4. CASE Tick \/ UNCHANGED vars
  BY <1>4 DEF Tick, vars, table, worker
<1>. QED
  BY <1>1, <1>2, <1>3, <1>4, SingleClaim, SingleEnd DEF Next, Work, Finish

LEMMA SingleInvariant == OneWorker => (Spec => []SingleWorkerInv)
<1> SUFFICES ASSUME OneWorker PROVE Spec => []SingleWorkerInv
  OBVIOUS
<1>1. Init => SingleWorkerInv
  BY DEF Init, SingleWorkerInv, HandlerOwnsRow, ScanCurrent, HoldCurrent,
         AttemptsLeft, AttemptsBounded, GivenUpLast
<1>. QED
  BY <1>1, SingleNext, TypeCorrect, PTL DEF Spec

(* No other process changes the row under a running handler, so succeed()   *)
(* overwrites nobody's result and fail() cannot end the worker process.     *)
THEOREM OwnsRow == OneWorker => (Spec => []HandlerOwnsRow)
BY SingleInvariant, PTL DEF SingleWorkerInv

(* max_attempts is exceeded only by recoveries of stale locks, one each.    *)
THEOREM Bounded == OneWorker => (Spec => []AttemptsBounded)
BY SingleInvariant, PTL DEF SingleWorkerInv

(* FAILED_FINAL is written only once the attempts are used up.              *)
THEOREM GivenUp == OneWorker => (Spec => []GivenUpLast)
BY SingleInvariant, PTL DEF SingleWorkerInv

LEMMA FinishedNext ==
  ASSUME OneWorker, TypeOK, SingleWorkerInv, [Next]_vars,
         NEW j \in Jobs, Finished(j)
  PROVE  status'[j] = status[j]
<1> USE DEF Finished, Final, SingleWorkerInv
<1>1. ASSUME NEW w \in Workers, Claim(w) PROVE status'[j] = status[j]
  <2>1. j # scan[w].job /\ j \notin scan[w].stale
    BY <1>1 DEF Claim, ScanCurrent
  <2>. QED
    BY <1>1, <2>1 DEF Claim
<1>2. ASSUME NEW w \in Workers, Succeed(w) \/ Fail(w) \/ FailUnhandled(w)
      PROVE  status'[j] = status[j]
  <2>1. held[w].job # j
    BY <1>2 DEF Succeed, Fail, FailUnhandled, HandlerOwnsRow
  <2>. QED
    BY <1>2, <2>1 DEF Succeed, Fail, FailUnhandled, FailJob, TypeOK
<1>3. ASSUME NEW k \in Jobs, Enqueue(k) PROVE status'[j] = status[j]
  BY <1>3 DEF Enqueue, TypeOK
<1>. QED
  BY <1>1, <1>2, <1>3 DEF Next, Work, Finish, Scan, ForbidRetry, FailRaises, Crash,
                          Restart, Die, Tick, vars, table

(* A finished job stays as it is: no claim, recovery or late finish of any  *)
(* worker incarnation writes to it.                                         *)
THEOREM FinishedFinal == OneWorker => (Spec => FinishedStays)
<1> SUFFICES ASSUME OneWorker PROVE Spec => FinishedStays
  OBVIOUS
<1>1. TypeOK /\ SingleWorkerInv /\ [Next]_vars
        => [\A j \in Jobs : Finished(j) => status'[j] = status[j]]_vars
  BY FinishedNext
<1>. QED
  BY <1>1, SingleInvariant, TypeCorrect, PTL DEF Spec, FinishedStays
=============================================================================
