------------------------------ MODULE JobQueue ------------------------------
(***************************************************************************)
(* The persistent job table (jobs/engine.py) and the worker loop that      *)
(* drains it (jobs/worker.py, run_once and run_forever).                   *)
(*                                                                         *)
(* A claim is ONE database transaction, but its SELECTs take no lock: they *)
(* are the step Scan, the writes and the commit are the step Claim, and    *)
(* anything another process commits in between is overwritten column by    *)
(* column (the session flushes the columns it changed, by primary key).    *)
(* After the commit the worker keeps its in-memory Job (the sessions are   *)
(* made with expire_on_commit=False), runs the handler for as long as it   *)
(* takes and then finishes the job in another transaction.                 *)
(*                                                                         *)
(* FAILED_RETRYABLE is flushed and overwritten inside one transaction of   *)
(* fail(), so no other process can see it; CANCELLED and SKIPPED are never *)
(* written by the code.  A job is named by its idempotency key.            *)
(***************************************************************************)
EXTENDS Integers, FiniteSets

CONSTANTS
  Jobs,           \* idempotency keys
  Workers,        \* worker processes
  NoWorker,       \* lock_owner IS NULL
  Unhandled,      \* jobs whose type has no entry in HANDLERS
  Ambiguous,      \* PUBLISH_CONTENT jobs: the handler may forbid a retry
  MaxAttempts,    \* Job.max_attempts
  ScheduleDelays, \* how far ahead of now a caller may set run_after
  StaleAfter,     \* 15 minutes, in ticks
  RetryDelay,     \* 30 seconds, in ticks
  NoHandlerDelay, \* 60 seconds, in ticks
  MaxTime,        \* bound: the clock stops here
  MaxCrashes      \* bound: worker processes killed

ASSUME JobQueueConstants ==
  /\ IsFiniteSet(Jobs) /\ NoWorker \notin Workers
  /\ Unhandled \subseteq Jobs /\ Ambiguous \subseteq Jobs \ Unhandled
  /\ MaxAttempts \in Nat \ {0}
  /\ ScheduleDelays \subseteq Nat
  /\ StaleAfter \in Nat \ {0} /\ RetryDelay \in Nat /\ NoHandlerDelay \in Nat
  /\ MaxTime \in Nat /\ MaxCrashes \in Nat

Null == -1   \* a timestamp column holding NULL

VARIABLES
  now,         \* wall clock shared by all processes
  status, attempts, run_after, locked_at, lock_owner, \* the jobs table
  created_at,  \* rank of the row's insertion
  pc,          \* what each worker process is doing
  scan,        \* per worker: what its open claim transaction has read
  held,        \* per worker: the in-memory Job the handler runs for
  recovered,   \* history: how often recover_stale requeued the job
  crashes      \* history: worker processes killed so far

table  == <<status, attempts, run_after, locked_at, lock_owner, created_at>>
worker == <<pc, scan, held>>
vars   == <<now, table, worker, recovered, crashes>>

Final == {"SUCCEEDED", "FAILED_FINAL"}
Finished(j) == status[j] \in Final

Scans == [stale : SUBSET Jobs, job : Jobs, attempts : Nat, at : Nat]
Holds == [job : Jobs, attempts : Nat]
NoScan == [stale |-> {}, job |-> "none", attempts |-> 0, at |-> 0]
NoHold == [job |-> "none", attempts |-> 0]

(* Every variable keeps its type; what an actor has in hand fits its place. *)
TypeOK ==
  /\ now \in Nat
  /\ status \in [Jobs -> {"ABSENT", "QUEUED", "RUNNING"} \cup Final]
  /\ attempts \in [Jobs -> Nat]
  /\ run_after \in [Jobs -> Nat]
  /\ locked_at \in [Jobs -> Nat \cup {Null}]
  /\ lock_owner \in [Jobs -> Workers \cup {NoWorker}]
  /\ created_at \in [Jobs -> Nat]
  /\ pc \in [Workers -> {"idle", "claiming", "running", "raising", "dead"}]
  /\ scan \in [Workers -> Scans \cup {NoScan}]
  /\ held \in [Workers -> Holds \cup {NoHold}]
  /\ \A w \in Workers : pc[w] = "claiming" => scan[w] \in Scans
  /\ \A w \in Workers : pc[w] \in {"running", "raising"} => held[w] \in Holds
  /\ recovered \in [Jobs -> Nat]
  /\ crashes \in Nat

Init ==
  /\ now = 0
  /\ status = [j \in Jobs |-> "ABSENT"]
  /\ attempts = [j \in Jobs |-> 0]
  /\ run_after = [j \in Jobs |-> 0]
  /\ locked_at = [j \in Jobs |-> Null]
  /\ lock_owner = [j \in Jobs |-> NoWorker]
  /\ created_at = [j \in Jobs |-> 0]
  /\ pc = [w \in Workers |-> "idle"]
  /\ scan = [w \in Workers |-> NoScan]
  /\ held = [w \in Workers |-> NoHold]
  /\ recovered = [j \in Jobs |-> 0]
  /\ crashes = 0

-----------------------------------------------------------------------------
\* mutant: a key that is not waiting is queued anew
NotWaiting(j) == status[j] # "QUEUED"

Unused(j) == status[j] = "ABSENT"

(* enqueue(): a key already in the table is returned as it is, whatever    *)
(* its status, so only the first call for a key changes anything.          *)
Enqueue(j) ==
  /\ Unused(j)
  /\ \E d \in ScheduleDelays : run_after' = [run_after EXCEPT ![j] = now + d]
  /\ status' = [status EXCEPT ![j] = "QUEUED"]
  /\ created_at' =
       [created_at EXCEPT ![j] = Cardinality({k \in Jobs : status[k] # "ABSENT"})]
  /\ UNCHANGED <<now, attempts, locked_at, lock_owner, worker, recovered, crashes>>

-----------------------------------------------------------------------------
(* run_once(), first transaction: recover_stale then claim_next.           *)

\* mutant: locks are never recovered
NoneStale == {}

Stale == {j \in Jobs : /\ status[j] = "RUNNING"
                       /\ locked_at[j] # Null
                       /\ locked_at[j] <= now - StaleAfter}

\* mutant: a job that was given up is due as well
DueOrGivenUp ==
  {j \in Jobs : status[j] \in {"QUEUED", "FAILED_FINAL"} /\ run_after[j] <= now}

Due == {j \in Jobs : status[j] = "QUEUED" /\ run_after[j] <= now}

\* run_after as claim_next sees it: recover_stale has already flushed its rows
DueSince(j) == IF j \in Stale THEN now ELSE run_after[j]

\* ORDER BY run_after, created_at
Before(j, k) == \/ DueSince(j) < DueSince(k)
                \/ DueSince(j) = DueSince(k) /\ created_at[j] <= created_at[k]

\* nothing to claim: the worker rolls back and sleeps (no step)
Scan(w) ==
  /\ pc[w] = "idle"
  /\ \E j \in Due \cup Stale :
       /\ \A k \in Due \cup Stale : Before(j, k)
       /\ scan' = [scan EXCEPT ![w] =
            [stale |-> Stale, job |-> j, attempts |-> attempts[j], at |-> now]]
  /\ pc' = [pc EXCEPT ![w] = "claiming"]
  /\ UNCHANGED <<now, table, held, recovered, crashes>>

Claim(w) ==
  LET s == scan[w] IN
  /\ pc[w] = "claiming"
  /\ status' = [j \in Jobs |-> IF j = s.job THEN "RUNNING"
                               ELSE IF j \in s.stale THEN "QUEUED" ELSE status[j]]
  /\ run_after' = [j \in Jobs |-> IF j \in s.stale THEN s.at ELSE run_after[j]]
  /\ locked_at' = [j \in Jobs |-> IF j = s.job THEN s.at
                                  ELSE IF j \in s.stale THEN Null ELSE locked_at[j]]
  /\ lock_owner' = [j \in Jobs |-> IF j = s.job THEN w
                                   ELSE IF j \in s.stale THEN NoWorker ELSE lock_owner[j]]
  /\ attempts' = [attempts EXCEPT ![s.job] = s.attempts + 1]
  /\ recovered' =
       [j \in Jobs |-> IF j \in s.stale THEN recovered[j] + 1 ELSE recovered[j]]
  /\ held' = [held EXCEPT ![w] = [job |-> s.job, attempts |-> s.attempts + 1]]
  /\ scan' = [scan EXCEPT ![w] = NoScan]
  /\ pc' = [pc EXCEPT ![w] = "running"]
  /\ UNCHANGED <<now, created_at, crashes>>

-----------------------------------------------------------------------------
(* run_once(), after the handler.                                          *)

\* mutant: only the lock time is cleared
ReleaseKeepsOwner(j) ==
  /\ locked_at' = [locked_at EXCEPT ![j] = Null]
  /\ UNCHANGED lock_owner

Release(j) ==
  /\ locked_at' = [locked_at EXCEPT ![j] = Null]
  /\ lock_owner' = [lock_owner EXCEPT ![j] = NoWorker]

GoIdle(w) ==
  /\ pc' = [pc EXCEPT ![w] = "idle"]
  /\ held' = [held EXCEPT ![w] = NoHold]

\* succeed() checks the in-memory status, which is RUNNING since the claim
Succeed(w) ==
  LET j == held[w].job IN
  /\ pc[w] = "running"
  /\ j \notin Unhandled
  /\ status' = [status EXCEPT ![j] = "SUCCEEDED"]
  /\ Release(j)
  /\ GoIdle(w)
  /\ UNCHANGED <<now, attempts, run_after, created_at, scan, recovered, crashes>>

\* _publish_content commits attempts := max_attempts before it re-raises
ForbidRetry(w) ==
  LET j == held[w].job IN
  /\ pc[w] = "running"
  /\ j \in Ambiguous
  /\ attempts' = [attempts EXCEPT ![j] = MaxAttempts]
  /\ pc' = [pc EXCEPT ![w] = "raising"]
  /\ UNCHANGED <<now, status, run_after, locked_at, lock_owner, created_at,
                 scan, held, recovered, crashes>>

\* mutants: one attempt too many, one too few
MayRetryOnceMore(n) == n <= MaxAttempts
MayRetryOnceLess(n) == n + 1 < MaxAttempts

MayRetry(n) == n < MaxAttempts

\* fail(): n attempts used so far, retried after the given delay
FailJob(j, n, delay) ==
  /\ status' = [status EXCEPT ![j] = IF MayRetry(n) THEN "QUEUED" ELSE "FAILED_FINAL"]
  /\ run_after' = [run_after EXCEPT ![j] = IF MayRetry(n) THEN now + delay ELSE @]
  /\ Release(j)
  /\ UNCHANGED <<attempts, created_at>>

\* ensure_transition(JobStatus, ...) as fail() calls it
MayFail(st, n) == st = "RUNNING" \/ (n >= MaxAttempts /\ st = "FAILED_FINAL")

\* The handler raised: the rollback expired the in-memory Job, so fail()
\* sees the row as it is in the database now.
Fail(w) ==
  LET j == held[w].job IN
  /\ pc[w] \in {"running", "raising"}
  /\ j \notin Unhandled
  /\ MayFail(status[j], attempts[j])
  /\ FailJob(j, attempts[j], RetryDelay)
  /\ GoIdle(w)
  /\ UNCHANGED <<now, scan, recovered, crashes>>

\* No handler: fail() is called without a rollback, on the in-memory Job.
FailUnhandled(w) ==
  LET j == held[w].job IN
  /\ pc[w] = "running"
  /\ j \in Unhandled
  /\ FailJob(j, held[w].attempts, NoHandlerDelay)
  /\ GoIdle(w)
  /\ UNCHANGED <<now, scan, recovered, crashes>>

Die(w) ==
  /\ pc' = [pc EXCEPT ![w] = "dead"]
  /\ held' = [held EXCEPT ![w] = NoHold]
  /\ scan' = [scan EXCEPT ![w] = NoScan]
  /\ UNCHANGED <<now, table, recovered>>

\* ensure_transition raises inside the except block: the ValueError leaves
\* run_once and run_forever, and the process ends with the job untouched.
FailRaises(w) ==
  LET j == held[w].job IN
  /\ pc[w] \in {"running", "raising"}
  /\ j \notin Unhandled
  /\ ~MayFail(status[j], attempts[j])
  /\ Die(w)
  /\ UNCHANGED crashes

\* the process is killed; an open transaction is rolled back
Crash(w) ==
  /\ pc[w] \in {"claiming", "running", "raising"}
  /\ crashes < MaxCrashes
  /\ crashes' = crashes + 1
  /\ Die(w)

Restart(w) ==
  /\ pc[w] = "dead"
  /\ pc' = [pc EXCEPT ![w] = "idle"]
  /\ UNCHANGED <<now, table, scan, held, recovered, crashes>>

\* Time is only told while a delay or a lock is still running out.
Waiting == \E j \in Jobs : \/ status[j] = "QUEUED" /\ run_after[j] > now
                           \/ status[j] = "RUNNING" /\ locked_at[j] > now - StaleAfter

Tick ==
  /\ now < MaxTime
  /\ Waiting
  /\ now' = now + 1
  /\ UNCHANGED <<table, worker, recovered, crashes>>

Finish(w) == Succeed(w) \/ Fail(w) \/ FailUnhandled(w) \/ FailRaises(w)

Work(w) == Scan(w) \/ Claim(w) \/ ForbidRetry(w) \/ Finish(w)

Next ==
  \/ \E j \in Jobs : Enqueue(j)
  \/ \E w \in Workers : Work(w) \/ Crash(w) \/ Restart(w)
  \/ Tick

(* Workers poll for ever, every handler call has a timeout and returns or   *)
(* raises, a dead worker is started again, and the clock goes on.  Callers  *)
(* need not enqueue and nothing has to crash.                               *)
Fairness ==
  /\ \A w \in Workers : WF_vars(Scan(w)) /\ WF_vars(Claim(w)) /\ WF_vars(Finish(w))
                        /\ WF_vars(Restart(w))
  /\ WF_vars(Tick)

Spec == Init /\ [][Next]_vars
FairSpec == Spec /\ Fairness

-----------------------------------------------------------------------------
(* A job is RUNNING exactly while both lock columns are set.  recover_stale *)
(* only looks at RUNNING rows with a lock time, so a RUNNING row without    *)
(* one would never run again, and a QUEUED row with one would be recovered  *)
(* under the worker that claims it next.  Every writer of the status must   *)
(* write the lock columns with it, whatever it read before.                 *)
LockMatchesStatus ==
  \A j \in Jobs : /\ (status[j] = "RUNNING") <=> (locked_at[j] # Null)
                  /\ (status[j] = "RUNNING") <=> (lock_owner[j] # NoWorker)

(* While a worker runs a handler the row is RUNNING in its name: so the     *)
(* blind write of succeed() overwrites nobody's result and the transition   *)
(* check in fail() cannot raise out of the worker loop.                     *)
HandlerOwnsRow ==
  \A w \in Workers : pc[w] \in {"running", "raising"} =>
    /\ status[held[w].job] = "RUNNING"
    /\ lock_owner[held[w].job] = w

(* Stale-lock recovery puts a job back without looking at max_attempts, so  *)
(* the limit is not on attempts alone: each recovery may add one.           *)
AttemptsBounded ==
  \A j \in Jobs : attempts[j] <= MaxAttempts + recovered[j]

(* A job is given up only after its last attempt was used.                  *)
GivenUpLast ==
  \A j \in Jobs : status[j] = "FAILED_FINAL" => attempts[j] >= MaxAttempts

(* A finished job is never claimed, requeued or finished otherwise again:   *)
(* no late write of a claim or of a recovery reaches it.                    *)
FinishedStays ==
  [][\A j \in Jobs : Finished(j) => status'[j] = status[j]]_vars

(* Every job accepted by enqueue() is settled in the end, through retries,  *)
(* killed workers and stale locks.                                          *)
EveryJobSettles ==
  \A j \in Jobs : status[j] = "QUEUED" ~> Finished(j)

-----------------------------------------------------------------------------
(* With a single worker process, what an open claim has read is still what  *)
(* the table holds, nobody changes the row of a running handler, and a      *)
(* queued job has an attempt left unless recovery gave it one.  Together    *)
(* with the invariants above this is inductive (JobQueueProofs).            *)
ScanCurrent ==
  \A w \in Workers : pc[w] = "claiming" =>
    /\ scan[w].attempts = attempts[scan[w].job]
    /\ \A j \in scan[w].stale : status[j] = "RUNNING"
    /\ scan[w].job \in scan[w].stale \/ status[scan[w].job] = "QUEUED"

HoldCurrent ==
  \A w \in Workers : pc[w] = "running" => held[w].attempts = attempts[held[w].job]

AttemptsLeft ==
  \A j \in Jobs : /\ status[j] = "ABSENT" => attempts[j] = 0
                  /\ status[j] = "QUEUED" => attempts[j] < MaxAttempts + recovered[j]

SingleWorkerInv ==
  /\ HandlerOwnsRow /\ ScanCurrent /\ HoldCurrent
  /\ AttemptsLeft /\ AttemptsBounded /\ GivenUpLast
=============================================================================
