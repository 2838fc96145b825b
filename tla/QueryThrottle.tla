--------------------------- MODULE QueryThrottle ---------------------------
(***************************************************************************)
(* The throttle every `vercel metrics` query of the audit skill goes        *)
(* through (lib/throttle.mjs): a FIFO semaphore, a sliding-window limiter    *)
(* taken while the slot is held, blind retries of a rate-limited answer made *)
(* inside the slot and past the limiter (queryMetric, lib/vercel.mjs), and   *)
(* the module-level block that a daily-quota answer sets until midnight UTC. *)
(*                                                                         *)
(* Time passes in ticks.  Timestamps are kept as ages, timers as ticks left; *)
(* a timer never fires early and may fire late.  Window is the window in     *)
(* ticks: a timestamp leaves it at age Window + 1, which is also when the    *)
(* code's 100 ms margin lets the sleeper look again.  A query passes the      *)
(* limiter once, so that a timestamp is kept under the query it is of.        *)
(***************************************************************************)
EXTENDS Integers, Sequences, FiniteSets

CONSTANTS
    NQueries,     \* the queries one collection starts together
    Concurrency,  \* slots of the semaphore
    MaxCalls,     \* calls the limiter lets through in one window
    Window,       \* the window, in ticks
    Delay         \* Delay[i]: the pause before the i-th retry, in ticks

Queries == 1..NQueries
\* What passes the limiter: the canary of a collection, then its queries.
Metered == 0..NQueries
MaxRetries == Len(Delay)
Calls == Metered \X (0..MaxRetries)

\* The last conjunct is what the defaults have: 60 s and up of backoff, plus the
\* call itself, against a window of 60 s.
ASSUME ThrottleAssumption ==
    /\ NQueries \in Nat /\ Concurrency \in Nat \ {0} /\ MaxCalls \in Nat \ {0}
    /\ Window \in Nat
    /\ Delay \in Seq(Nat)
    /\ \A i \in 1..Len(Delay) : Delay[i] > Window

VARIABLES
    pc,          \* where each query is
    timer,       \* ticks left of the pause a query sleeps in
    tries,       \* retries a query has made
    inFlight,    \* Semaphore.inFlight
    waiters,     \* Semaphore.waiters
    timestamps,  \* age of each query's entry in SlidingWindowRateLimiter.timestamps
    block,       \* dailyQuotaBlock is set and its midnight has not come
    sent,        \* history: how long ago each call was begun
    spent        \* history: calls begun since the block was set

throttleVars == <<pc, timer, tries, inFlight, waiters, timestamps, block, sent, spent>>

Stages == {"idle", "queued", "woken", "metering", "calling", "backoff", "done"}
Holding == {"metering", "calling", "backoff"}
Holders == {q \in Queries : pc[q] \in Holding}
Woken == {q \in Queries : pc[q] = "woken"}

\* A resolved waiter resumes in the microtask queue, before any timer,
\* answer or other event.
Settled == Woken = {}

\* An age beyond the window, which is also that of what has not been yet.
Gone == Window + 1
Older(age) == IF age > Window THEN age ELSE age + 1

\* Nothing but the canary has been, and that so long ago.
OnlyCanary(age) == [q \in Metered |-> IF q = 0 THEN age ELSE Gone]
CanaryCall(age) == [call \in Calls |-> IF call = <<0, 0>> THEN age ELSE Gone]

\* A process starts with no block, and with at most one call behind it: the
\* canary, whose failure keeps the other queries from being asked.
ThrottleInit ==
    /\ pc = [q \in Queries |-> "idle"]
    /\ timer = [q \in Queries |-> 0]
    /\ tries = [q \in Queries |-> 0]
    /\ inFlight = 0
    /\ waiters = <<>>
    /\ \E age \in 0..Gone : timestamps = OnlyCanary(age) /\ sent = CanaryCall(age)
    /\ block = FALSE
    /\ spent = {}

\* collectMetrics maps over the queries and awaits them together: every one
\* runs to its first await before anything else does.  The first ones find a
\* slot, the others queue in their order.
Start ==
    /\ \A q \in Queries : pc[q] = "idle"
    /\ pc' = [q \in Queries |-> IF q <= Concurrency THEN "metering" ELSE "queued"]
    /\ waiters' = IF NQueries <= Concurrency THEN <<>>
                  ELSE [i \in 1..(NQueries - Concurrency) |-> Concurrency + i]
    /\ inFlight' = IF NQueries <= Concurrency THEN NQueries ELSE Concurrency
    /\ UNCHANGED <<timer, tries, timestamps, block, sent, spent>>

\* wakeNext, with the stage the query that caused it goes to.
wakeNext(q, stage) ==
    IF waiters = <<>>
    THEN pc' = [pc EXCEPT ![q] = stage] /\ UNCHANGED waiters
    ELSE /\ pc' = [pc EXCEPT ![q] = stage, ![Head(waiters)] = "woken"]
         /\ waiters' = Tail(waiters)

\* mutant: a query that gives up on the block wakes nobody
ResumeInSilence(q) ==
    /\ pc[q] = "woken"
    /\ IF block
       THEN pc' = [pc EXCEPT ![q] = "done"] /\ UNCHANGED inFlight
       ELSE pc' = [pc EXCEPT ![q] = "metering"] /\ inFlight' = inFlight + 1
    /\ UNCHANGED <<timer, tries, waiters, timestamps, block, sent, spent>>

\* mutant: the block is only looked at before the queue
ResumeBlindly(q) ==
    /\ pc[q] = "woken"
    /\ pc' = [pc EXCEPT ![q] = "metering"]
    /\ inFlight' = inFlight + 1
    /\ UNCHANGED <<timer, tries, waiters, timestamps, block, sent, spent>>

\* A woken waiter looks at the block again: it passes the wake-up on without
\* having counted itself in, or takes the slot.  The check after acquire()
\* runs in the same turn and finds what this one found.
Resume(q) ==
    /\ pc[q] = "woken"
    /\ IF block
       THEN wakeNext(q, "done") /\ UNCHANGED inFlight
       ELSE /\ pc' = [pc EXCEPT ![q] = "metering"]
            /\ inFlight' = inFlight + 1
            /\ UNCHANGED waiters
    /\ UNCHANGED <<timer, tries, timestamps, block, sent, spent>>

\* What prune leaves, oldest first in the code.
prune == {q \in Metered : timestamps[q] <= Window}
Oldest == CHOOSE age \in 0..Window :
             /\ \E q \in prune : timestamps[q] = age
             /\ \A q \in prune : timestamps[q] <= age

\* One CLI call begins.
Begin(q) ==
    /\ pc' = [pc EXCEPT ![q] = "calling"]
    /\ sent' = [sent EXCEPT ![<<q, tries[q]>>] = 0]
    /\ spent' = IF block THEN spent \cup {<<q, tries[q]>>} ELSE spent

\* mutant: one call too many
MeterOneMore(q) ==
    /\ Settled
    /\ pc[q] = "metering" /\ timer[q] = 0
    /\ IF Cardinality(prune) <= MaxCalls
       THEN timestamps' = [timestamps EXCEPT ![q] = 0] /\ Begin(q) /\ UNCHANGED timer
       ELSE timer' = [timer EXCEPT ![q] = Gone - Oldest] /\ UNCHANGED <<pc, timestamps, sent, spent>>
    /\ UNCHANGED <<tries, inFlight, waiters, block>>

\* SlidingWindowRateLimiter.acquire: a full window sends the query to sleep
\* until its oldest timestamp has left; the block is not looked at again.
Meter(q) ==
    /\ Settled
    /\ pc[q] = "metering" /\ timer[q] = 0
    /\ IF Cardinality(prune) < MaxCalls
       THEN timestamps' = [timestamps EXCEPT ![q] = 0] /\ Begin(q) /\ UNCHANGED timer
       ELSE timer' = [timer EXCEPT ![q] = Gone - Oldest] /\ UNCHANGED <<pc, timestamps, sent, spent>>
    /\ UNCHANGED <<tries, inFlight, waiters, block>>

\* mutant: the attempts are not counted
LimitedForEver(q) ==
    /\ Settled
    /\ pc[q] = "calling" /\ tries[q] < MaxRetries
    /\ timer' = [timer EXCEPT ![q] = Delay[tries[q] + 1]]
    /\ pc' = [pc EXCEPT ![q] = "backoff"]
    /\ UNCHANGED <<tries, inFlight, waiters, timestamps, block, sent, spent>>

\* retryOnRateLimit: a rate-limited answer sleeps, slot in hand.
Limited(q) ==
    /\ Settled
    /\ pc[q] = "calling" /\ tries[q] < MaxRetries
    /\ tries' = [tries EXCEPT ![q] = @ + 1]
    /\ timer' = [timer EXCEPT ![q] = Delay[tries[q] + 1]]
    /\ pc' = [pc EXCEPT ![q] = "backoff"]
    /\ UNCHANGED <<inFlight, waiters, timestamps, block, sent, spent>>

\* The retry calls the CLI at once: neither the limiter nor the block is asked.
Retry(q) ==
    /\ Settled
    /\ pc[q] = "backoff" /\ timer[q] = 0
    /\ Begin(q)
    /\ UNCHANGED <<timer, tries, inFlight, waiters, timestamps, block>>

\* Any other answer, or the last rate-limited one, ends the query: a quota
\* answer sets the block, then `finally` releases the slot and wakes a waiter.
Answer(q, quota) ==
    /\ Settled
    /\ pc[q] = "calling"
    /\ block' = (block \/ quota)
    /\ spent' = IF quota /\ ~block THEN {} ELSE spent
    /\ inFlight' = inFlight - 1
    /\ wakeNext(q, "done")
    /\ UNCHANGED <<timer, tries, timestamps, sent>>

\* Time: ages grow, timers run down.
Tick ==
    /\ Settled
    /\ \E q \in Queries : pc[q] \in Holding
    /\ timer' = [q \in Queries |-> IF timer[q] = 0 THEN 0 ELSE timer[q] - 1]
    /\ timestamps' = [q \in Metered |-> Older(timestamps[q])]
    /\ sent' = [call \in Calls |-> Older(sent[call])]
    /\ UNCHANGED <<pc, tries, inFlight, waiters, block, spent>>

\* getDailyQuotaBlock forgets the block once its midnight has passed.
Midnight ==
    /\ block
    /\ block' = FALSE
    /\ spent' = {}
    /\ UNCHANGED <<pc, timer, tries, inFlight, waiters, timestamps, sent>>

ThrottleNext ==
    \/ Start
    \/ \E q \in Queries :
          \/ Resume(q)
          \/ Meter(q)
          \/ Limited(q)
          \/ Retry(q)
          \/ \E quota \in BOOLEAN : Answer(q, quota)
    \/ Tick
    \/ Midnight

ThrottleSpec == ThrottleInit /\ [][ThrottleNext]_throttleVars

-----------------------------------------------------------------------------

ThrottleTypeOK ==
    /\ pc \in [Queries -> Stages]
    /\ timer \in [Queries -> Nat]
    /\ tries \in [Queries -> 0..MaxRetries]
    /\ inFlight \in Nat
    /\ waiters \in Seq(Queries)
    /\ timestamps \in [Metered -> 0..Gone]
    /\ block \in BOOLEAN
    /\ sent \in [Calls -> 0..Gone]
    /\ spent \subseteq Calls

\* The counter counts the queries that hold a slot, never more of them than
\* there are slots: a query that gives up on a block after it was woken, or
\* that fails, neither leaks a slot nor frees one twice (Semaphore).
SlotsBounded ==
    /\ inFlight = Cardinality(Holders)
    /\ inFlight <= Concurrency

\* While a query waits, every slot is held or on its way to a woken query: no
\* wake-up is lost when a woken query gives up (acquire, release, wakeNext).
NoIdleSlot ==
    waiters # <<>> => inFlight + Cardinality(Woken) = Concurrency

\* The slots are neither overbooked nor idle while a query waits for one.
SlotsInUse == SlotsBounded /\ NoIdleSlot

\* In no window do more calls begin than the limiter admits plus one retry per
\* slot, although retries never ask the limiter: with the defaults 88 calls in
\* 60 s, within the API's cap of 100 but not the 80 the throttle announces.
WindowBound == Cardinality({call \in Calls : sent[call] <= Window}) <= MaxCalls + Concurrency

\* After a quota answer no query that was still waiting calls the API that
\* day: what is still spent is what the other slot holders had under way.
QuotaStopsQueue ==
    block => Cardinality(spent) <= (Concurrency - 1) * (MaxRetries + 1)
=============================================================================
