------------------------ MODULE QueryThrottleProofs ------------------------
(***************************************************************************)
(* What the throttle promises for every number of queries, slots, calls in *)
(* a window and retries: its semaphore is exact, retries add at most one    *)
(* call per slot to what the limiter admits, and a daily block stops what   *)
(* waits.                                                                   *)
(*                                                                         *)
(* A woken query has no slot yet and is not counted in inFlight, so what   *)
(* is preserved of the slots is a statement about the holders and the      *)
(* woken together.                                                         *)
(***************************************************************************)
EXTENDS QueryThrottle, FiniteSetTheorems, TLAPS

\* Queries that hold a slot or have been promised one.
Busy == {q \in Queries : pc[q] \in Holding \cup {"woken"}}

Shapes ==
    /\ pc \in [Queries -> Stages]
    /\ inFlight \in Nat
    /\ waiters \in Seq(Queries)

\* The waiters are different queries, all of them queued.
QueueExact ==
    /\ \A i \in 1..Len(waiters) : pc[waiters[i]] = "queued"
    /\ \A i, j \in 1..Len(waiters) : waiters[i] = waiters[j] => i = j

CountExact == inFlight = Cardinality(Holders)

Promised ==
    /\ Cardinality(Busy) <= Concurrency
    /\ waiters # <<>> => Cardinality(Busy) = Concurrency

SlotInv == Shapes /\ QueueExact /\ CountExact /\ Promised

LEMMA QueriesFinite == IsFiniteSet(Queries) /\ IsFiniteSet(Holders) /\ IsFiniteSet(Woken) /\ IsFiniteSet(Busy)
<1>1. IsFiniteSet(Queries)
  BY FS_Interval, ThrottleAssumption DEF Queries
<1> QED
  BY <1>1, FS_Subset DEF Holders, Woken, Busy

\* The invariant says what the properties say.
LEMMA SlotInvSuffices == SlotInv => SlotsInUse
<1> SUFFICES ASSUME SlotInv PROVE SlotsInUse
  OBVIOUS
<1>1. Busy = Holders \cup Woken /\ Holders \cap Woken = {}
  BY DEF Busy, Holders, Woken, Holding
<1>2. Cardinality(Holders) \in Nat /\ Cardinality(Woken) \in Nat
  BY QueriesFinite, FS_CardinalityType
<1>3. Cardinality(Busy) = Cardinality(Holders) + Cardinality(Woken)
  <2>1. Cardinality(Holders \cup Woken)
          = Cardinality(Holders) + Cardinality(Woken) - Cardinality(Holders \cap Woken)
    BY QueriesFinite, FS_Union
  <2>2. Cardinality(Holders \cap Woken) = 0
    BY <1>1, FS_EmptySet
  <2>3. Cardinality(Busy) = Cardinality(Holders \cup Woken)
    BY <1>1
  <2> QED
    BY <1>2, <2>1, <2>2, <2>3
<1>4. SlotsBounded
  BY <1>2, <1>3, ThrottleAssumption DEF SlotInv, CountExact, Promised, SlotsBounded
<1>5. NoIdleSlot
  BY <1>3 DEF SlotInv, CountExact, Promised, NoIdleSlot
<1> QED
  BY <1>4, <1>5 DEF SlotsInUse

\* A query that moves within its slot changes none of it.
LEMMA WithinSlot ==
  ASSUME SlotInv, NEW q \in Queries, NEW stage \in Holding,
         pc[q] \in Holding,
         pc' = [pc EXCEPT ![q] = stage], UNCHANGED <<inFlight, waiters>>
  PROVE  SlotInv'
<1>1. pc' \in [Queries -> Stages]
  BY DEF SlotInv, Shapes, Stages, Holding
<1>2. Holders' = Holders /\ Busy' = Busy
  BY <1>1 DEF SlotInv, Shapes, Holders, Busy
<1>3. QueueExact'
  <2>1. ASSUME NEW i \in 1..Len(waiters) PROVE pc'[waiters[i]] = "queued"
    <3>1. pc[waiters[i]] = "queued" /\ waiters[i] \in Queries
      BY <2>1 DEF SlotInv, Shapes, QueueExact
    <3>2. waiters[i] # q
      BY <3>1 DEF Holding
    <3> QED
      BY <3>1, <3>2 DEF SlotInv, Shapes
  <2> QED
    BY <2>1 DEF SlotInv, QueueExact
<1> QED
  BY <1>1, <1>2, <1>3 DEF SlotInv, Shapes, CountExact, Promised

\* A query that is done passes its slot, or the promise of one, to the first
\* waiter: as many are busy as before, or one less when nobody waits.
LEMMA PassedOn ==
  ASSUME SlotInv, NEW q \in Queries, pc[q] \in Holding \cup {"woken"},
         wakeNext(q, "done")
  PROVE  /\ pc' \in [Queries -> Stages] /\ waiters' \in Seq(Queries)
         /\ QueueExact' /\ Promised'
         /\ Holders' = Holders \ {q}
<1> USE DEF SlotInv, Shapes
<1>1. CASE waiters = <<>>
  <2>1. pc' = [pc EXCEPT ![q] = "done"] /\ waiters' = <<>>
    BY <1>1 DEF wakeNext
  <2>2. pc' \in [Queries -> Stages] /\ waiters' \in Seq(Queries)
    BY <2>1 DEF Stages
  <2>3. Holders' = Holders \ {q} /\ Busy' = Busy \ {q} /\ q \in Busy
    BY <2>1, <2>2 DEF Holders, Busy, Holding
  <2>4. Cardinality(Busy \ {q}) = Cardinality(Busy) - 1 /\ Cardinality(Busy) \in Nat
    BY <2>3, QueriesFinite, FS_RemoveElement, FS_CardinalityType
  <2>5. Promised'
    BY <2>1, <2>3, <2>4, ThrottleAssumption DEF Promised
  <2> QED
    BY <2>1, <2>2, <2>3, <2>5 DEF QueueExact
<1>2. CASE waiters # <<>>
  <2> DEFINE h == Head(waiters)
  <2>1. Len(waiters) \in Nat \ {0} /\ h = waiters[1] /\ h \in Queries
    BY <1>2
  <2>2. pc[h] = "queued" /\ h # q
    BY <2>1 DEF QueueExact, Holding
  <2>3. pc' = [pc EXCEPT ![q] = "done", ![h] = "woken"] /\ waiters' = Tail(waiters)
    BY <1>2 DEF wakeNext
  <2>4. /\ waiters' \in Seq(Queries) /\ Len(waiters') = Len(waiters) - 1
        /\ \A i \in 1..Len(waiters') : waiters'[i] = waiters[i + 1]
    BY <1>2, <2>1, <2>3
  <2> HIDE DEF h
  <2>5. pc' \in [Queries -> Stages]
    BY <2>1, <2>3 DEF Stages
  <2>6. /\ Holders' = Holders \ {q}
        /\ Busy' = (Busy \ {q}) \cup {h}
        /\ q \in Busy /\ h \notin Busy \ {q}
    BY <2>1, <2>2, <2>3, <2>5 DEF Holders, Busy, Holding
  <2>7. Cardinality(Busy') = Cardinality(Busy)
    <3>1. IsFiniteSet(Busy \ {q}) /\ Cardinality(Busy \ {q}) = Cardinality(Busy) - 1
      BY <2>6, QueriesFinite, FS_RemoveElement
    <3>2. Cardinality((Busy \ {q}) \cup {h}) = Cardinality(Busy \ {q}) + 1
      BY <2>6, <3>1, FS_AddElement
    <3> QED
      BY <2>6, <3>1, <3>2, QueriesFinite, FS_CardinalityType
  <2>8. QueueExact'
    <3>1. ASSUME NEW i \in 1..Len(waiters') PROVE pc'[waiters'[i]] = "queued"
      <4>1. i + 1 \in 1..Len(waiters) /\ waiters'[i] = waiters[i + 1] /\ 1 \in 1..Len(waiters)
        BY <2>1, <2>4
      <4>2. pc[waiters[i + 1]] = "queued" /\ waiters[i + 1] \in Queries
        BY <4>1 DEF QueueExact
      <4>3. waiters[i + 1] # h
        BY <2>1, <4>1 DEF QueueExact
      <4>4. waiters[i + 1] # q
        BY <4>2 DEF Holding
      <4> QED
        BY <2>3, <4>1, <4>2, <4>3, <4>4
    <3>2. ASSUME NEW i \in 1..Len(waiters'), NEW j \in 1..Len(waiters'), waiters'[i] = waiters'[j]
          PROVE  i = j
      <4>1. i + 1 \in 1..Len(waiters) /\ j + 1 \in 1..Len(waiters)
        BY <2>1, <2>4
      <4>2. waiters[i + 1] = waiters[j + 1]
        BY <2>4, <3>2
      <4>3. i + 1 = j + 1
        BY <4>1, <4>2 DEF QueueExact
      <4> QED
        BY <4>3
    <3> QED
      BY <3>1, <3>2 DEF QueueExact
  <2>9. Promised'
    BY <1>2, <2>7 DEF Promised
  <2> QED
    BY <2>4, <2>5, <2>6, <2>8, <2>9
<1> QED
  BY <1>1, <1>2

\* All queries start together: the first ones take the slots, the rest queue.
LEMMA StartSlots == SlotInv /\ Start => SlotInv'
<1> SUFFICES ASSUME SlotInv, Start PROVE SlotInv'
  OBVIOUS
<1> DEFINE n == IF NQueries <= Concurrency THEN NQueries ELSE Concurrency
<1>1. n \in Nat /\ n <= Concurrency /\ n <= NQueries
  BY ThrottleAssumption
<1>2. pc' = [q \in Queries |-> IF q <= Concurrency THEN "metering" ELSE "queued"] /\ inFlight' = n
  BY DEF Start
<1>3. Holders' = 1..n /\ Busy' = 1..n
  BY <1>2, ThrottleAssumption DEF Holders, Busy, Holding, Queries
<1>4. Cardinality(1..n) = n
  BY <1>1, FS_Interval
<1>5. CASE NQueries <= Concurrency
  <2>1. waiters' = <<>>
    BY <1>5 DEF Start
  <2> QED
    BY <1>1, <1>2, <1>3, <1>4, <2>1
    DEF SlotInv, Shapes, QueueExact, CountExact, Promised, Stages
<1>6. CASE ~(NQueries <= Concurrency)
  <2>1. waiters' = [i \in 1..(NQueries - Concurrency) |-> Concurrency + i]
    BY <1>6 DEF Start
  <2>2. waiters' \in Seq(Queries) /\ Len(waiters') = NQueries - Concurrency
    BY <1>6, <2>1, ThrottleAssumption DEF Queries
  <2>3. \A i \in 1..Len(waiters') : waiters'[i] = Concurrency + i /\ waiters'[i] \in Queries
    BY <1>6, <2>1, <2>2, ThrottleAssumption DEF Queries
  <2>4. QueueExact'
    BY <1>2, <2>2, <2>3, ThrottleAssumption DEF QueueExact, Queries
  <2>5. Shapes'
    BY <1>1, <1>2, <2>2 DEF Shapes, Stages
  <2>6. n = Concurrency
    BY <1>6
  <2> QED
    BY <1>2, <1>3, <1>4, <2>4, <2>5, <2>6, ThrottleAssumption DEF SlotInv, CountExact, Promised
<1> QED
  BY <1>5, <1>6

LEMMA ResumeSlots == ASSUME SlotInv, NEW q \in Queries, Resume(q) PROVE SlotInv'
<1>1. pc[q] = "woken"
  BY DEF Resume
<1>2. CASE block
  <2>1. wakeNext(q, "done") /\ inFlight' = inFlight
    BY <1>2 DEF Resume
  <2>2. Holders' = Holders \ {q} /\ q \notin Holders
    BY <1>1, <2>1, PassedOn DEF Holders, Holding
  <2> QED
    BY <1>1, <2>1, <2>2, PassedOn DEF SlotInv, Shapes, CountExact
<1>3. CASE ~block
  <2>1. pc' = [pc EXCEPT ![q] = "metering"] /\ inFlight' = inFlight + 1 /\ waiters' = waiters
    BY <1>3 DEF Resume
  <2>2. pc' \in [Queries -> Stages]
    BY <2>1 DEF SlotInv, Shapes, Stages
  <2>3. Holders' = Holders \cup {q} /\ q \notin Holders /\ Busy' = Busy
    BY <1>1, <2>1, <2>2 DEF SlotInv, Shapes, Holders, Busy, Holding
  <2>4. Cardinality(Holders') = Cardinality(Holders) + 1
    BY <2>3, QueriesFinite, FS_AddElement
  <2>5. QueueExact'
    <3>1. ASSUME NEW i \in 1..Len(waiters) PROVE pc'[waiters[i]] = "queued"
      <4>1. pc[waiters[i]] = "queued" /\ waiters[i] \in Queries
        BY <3>1 DEF SlotInv, Shapes, QueueExact
      <4>2. waiters[i] # q
        BY <1>1, <4>1
      <4> QED
        BY <2>1, <4>1, <4>2 DEF SlotInv, Shapes
    <3> QED
      BY <2>1, <3>1 DEF SlotInv, QueueExact
  <2> QED
    BY <2>1, <2>2, <2>3, <2>4, <2>5 DEF SlotInv, Shapes, CountExact, Promised
<1> QED
  BY <1>2, <1>3

LEMMA MeterSlots == ASSUME SlotInv, NEW q \in Queries, Meter(q) PROVE SlotInv'
<1>1. pc[q] = "metering" /\ UNCHANGED <<inFlight, waiters>>
  BY DEF Meter
<1>2. CASE Cardinality(prune) < MaxCalls
  <2>1. pc' = [pc EXCEPT ![q] = "calling"]
    BY <1>2 DEF Meter, Begin
  <2> QED
    BY <1>1, <2>1, WithinSlot DEF Holding
<1>3. CASE ~(Cardinality(prune) < MaxCalls)
  <2>1. pc' = pc
    BY <1>3 DEF Meter
  <2> QED
    BY <1>1, <2>1 DEF SlotInv, Shapes, QueueExact, CountExact, Promised, Holders, Busy
<1> QED
  BY <1>2, <1>3

LEMMA AnswerSlots ==
  ASSUME SlotInv, NEW q \in Queries, NEW quota \in BOOLEAN, Answer(q, quota) PROVE SlotInv'
<1>1. pc[q] = "calling" /\ wakeNext(q, "done") /\ inFlight' = inFlight - 1
  BY DEF Answer
<1>2. q \in Holders
  BY <1>1 DEF Holders, Holding
<1>3. Holders' = Holders \ {q} /\ QueueExact' /\ Promised'
      /\ pc' \in [Queries -> Stages] /\ waiters' \in Seq(Queries)
  BY <1>1, PassedOn DEF Holding
<1>4. Cardinality(Holders') = Cardinality(Holders) - 1 /\ Cardinality(Holders') \in Nat
  BY <1>2, <1>3, QueriesFinite, FS_RemoveElement, FS_CardinalityType
<1> QED
  BY <1>1, <1>3, <1>4 DEF SlotInv, Shapes, CountExact

LEMMA SlotInvNext == SlotInv /\ [ThrottleNext]_throttleVars => SlotInv'
<1> SUFFICES ASSUME SlotInv, [ThrottleNext]_throttleVars PROVE SlotInv'
  OBVIOUS
<1>1. CASE Start
  BY <1>1, StartSlots
<1>2. ASSUME NEW q \in Queries, Resume(q) PROVE SlotInv'
  BY <1>2, ResumeSlots
<1>3. ASSUME NEW q \in Queries, Meter(q) PROVE SlotInv'
  BY <1>3, MeterSlots
<1>4. ASSUME NEW q \in Queries, Limited(q) PROVE SlotInv'
  BY <1>4, WithinSlot DEF Limited, Holding
<1>5. ASSUME NEW q \in Queries, Retry(q) PROVE SlotInv'
  BY <1>5, WithinSlot DEF Retry, Begin, Holding
<1>6. ASSUME NEW q \in Queries, NEW quota \in BOOLEAN, Answer(q, quota) PROVE SlotInv'
  BY <1>6, AnswerSlots
<1>7. CASE Tick \/ Midnight \/ UNCHANGED throttleVars
  <2>1. UNCHANGED <<pc, inFlight, waiters>>
    BY <1>7 DEF Tick, Midnight, throttleVars
  <2> QED
    BY <2>1 DEF SlotInv, Shapes, QueueExact, CountExact, Promised, Holders, Busy
<1> QED
  BY <1>1, <1>2, <1>3, <1>4, <1>5, <1>6, <1>7 DEF ThrottleNext

-----------------------------------------------------------------------------
\* How much is called, and when.
\*
\* Calls are counted in two parts.  First calls have a timestamp, so that the
\* limiter counts them.  A retry is not counted anywhere: what bounds the
\* retries is that each holds a slot and was preceded by a pause longer than a
\* window, which is a bound on those of the last window and on those to come
\* in the rest of it, together, for every way of cutting a window in two.

Early == {"idle", "queued", "woken", "metering"}

Known ==
    /\ tries \in [Queries -> 0..MaxRetries]
    /\ timestamps \in [Metered -> 0..Gone]
    /\ sent \in [Calls -> 0..Gone]
    /\ spent \subseteq Queries \X (0..MaxRetries)
    /\ block \in BOOLEAN
    /\ timer = [q \in Queries |-> timer[q]]

\* A query has made no retry before its first call, and sleeps before a retry.
Counted ==
    \A q \in Queries :
       /\ pc[q] \in Early => tries[q] = 0
       /\ pc[q] = "backoff" => tries[q] # 0 /\ timer[q] \in Nat

FirstCalls ==
    /\ \A q \in Metered : sent[<<q, 0>>] = timestamps[q]
    /\ Cardinality(prune) <= MaxCalls

\* Retries that will still be in the window k ticks from now, and those that
\* may begin within k ticks.
Retried(k) == {call \in Calls : call[2] # 0 /\ sent[call] + k <= Window}
Sleepers(k) == {q \in Queries : pc[q] = "backoff" /\ timer[q] <= k}
ToRetry(k) == {<<q, tries[q]>> : q \in Sleepers(k)}
RetriesSpread == \A k \in 0..Window : Cardinality(Retried(k) \cup ToRetry(k)) <= Concurrency

Spenders == {q \in Queries : \E t \in 0..MaxRetries : <<q, t>> \in spent}

\* The query that met the quota holds no slot any more.
QuotaInv ==
    block => /\ Cardinality(Spenders \cup Holders) <= Concurrency - 1
             /\ \E q \in Queries : pc[q] # "idle"

Books == Known /\ Counted
ThrottleInv == SlotInv /\ Books /\ FirstCalls /\ RetriesSpread /\ QuotaInv

LEMMA RetriesAreNat == MaxRetries \in Nat
BY ThrottleAssumption DEF MaxRetries

LEMMA CallsFinite == IsFiniteSet(Metered) /\ IsFiniteSet(0..MaxRetries) /\ IsFiniteSet(Calls)
<1>1. IsFiniteSet(Metered) /\ IsFiniteSet(0..MaxRetries)
  BY FS_Interval, ThrottleAssumption, RetriesAreNat DEF Metered
<1> QED
  BY <1>1, FS_Product DEF Calls

\* No query has started; a canary may have been asked.
Rested(age) ==
    /\ pc = [q \in Queries |-> "idle"]
    /\ timer = [q \in Queries |-> timer[q]]
    /\ tries = [q \in Queries |-> 0]
    /\ inFlight = 0 /\ waiters = <<>> /\ block = FALSE /\ spent = {}
    /\ timestamps = OnlyCanary(age) /\ sent = CanaryCall(age)

LEMMA InitRested == ThrottleInit => \E age \in 0..Gone : Rested(age)
<1> SUFFICES ASSUME ThrottleInit PROVE \E age \in 0..Gone : Rested(age)
  OBVIOUS
<1>1. timer = [q \in Queries |-> timer[q]]
  BY DEF ThrottleInit
<1> QED
  BY <1>1 DEF ThrottleInit, Rested

\* A smaller finite set of calls or queries keeps a bound.
LEMMA Fewer ==
  ASSUME NEW S, IsFiniteSet(S), NEW T \in SUBSET S, NEW n \in Int, Cardinality(S) <= n
  PROVE  IsFiniteSet(T) /\ Cardinality(T) <= n
BY FS_Subset, FS_CardinalityType

\* Every stage a query reaches when another one, or itself, is woken or done.
LEMMA WakeStages ==
  ASSUME SlotInv, NEW q \in Queries, wakeNext(q, "done")
  PROVE  \A p \in Queries : \/ pc'[p] = pc[p]
                            \/ pc'[p] = "done"
                            \/ pc[p] = "queued" /\ pc'[p] = "woken"
<1> USE DEF SlotInv, Shapes
<1>1. CASE waiters = <<>>
  BY <1>1 DEF wakeNext
<1>2. CASE waiters # <<>>
  <2>1. Head(waiters) = waiters[1] /\ 1 \in 1..Len(waiters) /\ Head(waiters) \in Queries
    BY <1>2
  <2>2. pc[Head(waiters)] = "queued"
    BY <2>1 DEF QueueExact
  <2>3. pc' = [pc EXCEPT ![q] = "done", ![Head(waiters)] = "woken"]
    BY <1>2 DEF wakeNext
  <2> QED
    BY <2>1, <2>2, <2>3
<1> QED
  BY <1>1, <1>2

-----------------------------------------------------------------------------

LEMMA BooksRested == ASSUME NEW age \in 0..Gone, Rested(age) PROVE Books
<1>1. timestamps = OnlyCanary(age) /\ sent = CanaryCall(age)
  BY DEF Rested
<1>2. Gone \in 0..Gone
  BY ThrottleAssumption DEF Gone
<1>3. timestamps \in [Metered -> 0..Gone]
  BY <1>1, <1>2 DEF OnlyCanary
<1>4. sent \in [Calls -> 0..Gone]
  BY <1>1, <1>2 DEF CanaryCall
<1>5. timer = [q \in Queries |-> timer[q]]
  BY DEF Rested
<1>6. Counted
  BY DEF Rested, Counted
<1>7. tries \in [Queries -> 0..MaxRetries]
  BY RetriesAreNat DEF Rested
<1>8. spent \subseteq Queries \X (0..MaxRetries) /\ block \in BOOLEAN
  BY DEF Rested
<1> QED
  BY <1>3, <1>4, <1>5, <1>6, <1>7, <1>8 DEF Books, Known

\* Beginning a call is bookkeeping of one call of one query.
LEMMA BeginKnown ==
  ASSUME Shapes, Known, NEW q \in Queries, Begin(q)
  PROVE  /\ <<q, tries[q]>> \in Calls
         /\ sent' \in [Calls -> 0..Gone] /\ spent' \subseteq Queries \X (0..MaxRetries)
         /\ \A p \in Queries : pc'[p] = IF p = q THEN "calling" ELSE pc[p]
<1>1. <<q, tries[q]>> \in Queries \X (0..MaxRetries)
  BY DEF Known
<1>2. <<q, tries[q]>> \in Calls
  BY <1>1, ThrottleAssumption DEF Calls, Queries, Metered
<1>3. 0 \in 0..Gone
  BY ThrottleAssumption DEF Gone
<1> QED
  BY <1>1, <1>2, <1>3 DEF Begin, Known, Shapes

LEMMA MeterBooks == ASSUME SlotInv, Books, NEW q \in Queries, Meter(q) PROVE Books'
<1> USE DEF SlotInv, Books
<1>1. pc[q] = "metering" /\ UNCHANGED <<tries, block>>
  BY DEF Meter
<1>2. CASE Cardinality(prune) < MaxCalls
  <2>1. timestamps' = [timestamps EXCEPT ![q] = 0] /\ Begin(q) /\ timer' = timer
    BY <1>2 DEF Meter
  <2>2. q \in Metered /\ 0 \in 0..Gone
    BY ThrottleAssumption DEF Queries, Metered, Gone
  <2>3. Known'
    BY <1>1, <2>1, <2>2, BeginKnown DEF Known
  <2>4. Counted'
    BY <1>1, <2>1, BeginKnown DEF Counted, Early
  <2> QED
    BY <2>3, <2>4
<1>3. CASE ~(Cardinality(prune) < MaxCalls)
  <2>1. timer' = [timer EXCEPT ![q] = Gone - Oldest] /\ UNCHANGED <<pc, timestamps, sent, spent>>
    BY <1>3 DEF Meter
  <2>2. timer' = [p \in Queries |-> timer'[p]] /\ \A p \in Queries : p # q => timer'[p] = timer[p]
    BY <2>1 DEF Known
  <2>3. Counted'
    BY <1>1, <2>1, <2>2 DEF Counted
  <2> QED
    BY <1>1, <2>1, <2>2, <2>3 DEF Known
<1> QED
  BY <1>2, <1>3

LEMMA LimitedBooks ==
  ASSUME SlotInv, Books, NEW q \in Queries, Limited(q)
  PROVE  /\ Books' /\ timer'[q] > Window
         /\ \A p \in Queries : pc'[p] = (IF p = q THEN "backoff" ELSE pc[p])
                               /\ (p # q => tries'[p] = tries[p] /\ timer'[p] = timer[p])
<1> USE DEF SlotInv, Books
<1>1. /\ tries[q] \in 0..MaxRetries /\ tries[q] < MaxRetries
      /\ tries' = [tries EXCEPT ![q] = @ + 1]
      /\ timer' = [timer EXCEPT ![q] = Delay[tries[q] + 1]]
      /\ pc' = [pc EXCEPT ![q] = "backoff"]
      /\ UNCHANGED <<timestamps, block, sent, spent>>
  BY DEF Limited, Known
<1>2. tries[q] + 1 \in 1..MaxRetries /\ tries[q] + 1 # 0
  BY <1>1, RetriesAreNat
<1>3. Delay[tries[q] + 1] \in Nat /\ Delay[tries[q] + 1] > Window
  BY <1>2, ThrottleAssumption DEF MaxRetries
<1>4. \A p \in Queries : /\ pc'[p] = IF p = q THEN "backoff" ELSE pc[p]
                         /\ tries'[p] = IF p = q THEN tries[q] + 1 ELSE tries[p]
                         /\ timer'[p] = IF p = q THEN Delay[tries[q] + 1] ELSE timer[p]
  BY <1>1 DEF Known, Shapes
<1>5. tries' \in [Queries -> 0..MaxRetries] /\ timer' = [p \in Queries |-> timer'[p]]
  BY <1>1, <1>2 DEF Known
<1>6. Known'
  BY <1>1, <1>5 DEF Known
<1>7. Counted'
  BY <1>2, <1>3, <1>4 DEF Counted, Early
<1> QED
  BY <1>3, <1>4, <1>6, <1>7

LEMMA TickBooks == Books /\ Tick => Books'
<1> SUFFICES ASSUME Books, Tick PROVE Books'
  OBVIOUS
<1> USE DEF Books
<1>1. \A age \in 0..Gone : Older(age) \in 0..Gone
  BY ThrottleAssumption DEF Older, Gone
<1>2. timer' = [q \in Queries |-> timer'[q]]
  BY DEF Tick
<1>3. Known'
  BY <1>1, <1>2 DEF Known, Tick
<1>4. Counted'
  BY DEF Counted, Tick, Known
<1> QED
  BY <1>3, <1>4

LEMMA BooksNext == SlotInv /\ Books /\ [ThrottleNext]_throttleVars => Books'
<1> SUFFICES ASSUME SlotInv, Books, [ThrottleNext]_throttleVars PROVE Books'
  OBVIOUS
<1> USE DEF SlotInv, Books
<1>1. CASE Start
  BY <1>1 DEF Start, Known, Counted, Early
<1>2. ASSUME NEW q \in Queries, Resume(q) PROVE Books'
  <2>1. UNCHANGED <<timer, tries, timestamps, block, sent, spent>> /\ pc[q] = "woken"
    BY <1>2 DEF Resume
  <2>2. CASE block
    BY <1>2, <2>1, <2>2, WakeStages DEF Resume, Known, Counted, Early
  <2>3. CASE ~block
    <3>1. pc' = [pc EXCEPT ![q] = "metering"]
      BY <1>2, <2>3 DEF Resume
    <3>2. \A p \in Queries : pc'[p] = IF p = q THEN "metering" ELSE pc[p]
      BY <3>1 DEF Shapes
    <3> QED
      BY <2>1, <3>2 DEF Known, Counted, Early
  <2> QED
    BY <2>2, <2>3
<1>3. ASSUME NEW q \in Queries, Meter(q) PROVE Books'
  BY <1>3, MeterBooks
<1>4. ASSUME NEW q \in Queries, Limited(q) PROVE Books'
  BY <1>4, LimitedBooks
<1>5. ASSUME NEW q \in Queries, Retry(q) PROVE Books'
  <2>1. Begin(q) /\ UNCHANGED <<timer, tries, timestamps, block>>
    BY <1>5 DEF Retry
  <2> QED
    BY <2>1, BeginKnown DEF Known, Counted, Early
<1>6. ASSUME NEW q \in Queries, NEW quota \in BOOLEAN, Answer(q, quota) PROVE Books'
  <2>1. wakeNext(q, "done") /\ UNCHANGED <<timer, tries, timestamps, sent>>
    BY <1>6 DEF Answer
  <2>2. Known'
    BY <1>6, <2>1 DEF Answer, Known
  <2> QED
    BY <2>1, <2>2, WakeStages DEF Counted, Early
<1>7. CASE Tick
  BY <1>7, TickBooks
<1>8. CASE Midnight \/ UNCHANGED throttleVars
  BY <1>8 DEF Midnight, throttleVars, Known, Counted
<1> QED
  BY <1>1, <1>2, <1>3, <1>4, <1>5, <1>6, <1>7, <1>8 DEF ThrottleNext

-----------------------------------------------------------------------------
\* First calls are those the limiter has let through.

LEMMA PruneFinite == Known => /\ IsFiniteSet(prune) /\ Cardinality(prune) \in Nat
BY CallsFinite, FS_Subset, FS_CardinalityType DEF prune

LEMMA FirstCallsRested == ASSUME NEW age \in 0..Gone, Rested(age) PROVE FirstCalls
<1>1. timestamps = OnlyCanary(age) /\ sent = CanaryCall(age)
  BY DEF Rested
<1>2. ASSUME NEW q \in Metered PROVE sent[<<q, 0>>] = timestamps[q]
  <2>1. <<q, 0>> \in Calls
    BY RetriesAreNat DEF Calls
  <2>2. sent[<<q, 0>>] = IF q = 0 THEN age ELSE Gone
    BY <1>1, <2>1 DEF CanaryCall
  <2> QED
    BY <1>1, <2>2 DEF OnlyCanary
<1>3. prune \subseteq {0}
  BY <1>1, ThrottleAssumption DEF prune, OnlyCanary, Gone
<1>4. Cardinality(prune) <= 1
  <2>1. IsFiniteSet({0}) /\ Cardinality({0}) = 1
    BY FS_Singleton
  <2> QED
    BY <1>3, <2>1, FS_Subset
<1>5. Cardinality(prune) <= MaxCalls
  <2>1. Cardinality(prune) \in Nat
    BY <1>3, FS_Singleton, FS_Subset, FS_CardinalityType
  <2> QED
    BY <1>4, <2>1, ThrottleAssumption
<1> QED
  BY <1>2, <1>5 DEF FirstCalls

\* A first call is begun and stamped in one step, when there is room for it.
LEMMA MeterFirstCalls ==
  ASSUME SlotInv, Books, FirstCalls, NEW q \in Queries, Meter(q) PROVE FirstCalls'
<1> USE DEF SlotInv, Books
<1>1. CASE Cardinality(prune) < MaxCalls
  <2>1. timestamps' = [timestamps EXCEPT ![q] = 0] /\ Begin(q) /\ tries[q] = 0 /\ q \in Metered
    BY <1>1, ThrottleAssumption DEF Meter, Counted, Early, Queries, Metered
  <2>2. <<q, 0>> \in Calls /\ sent' = [sent EXCEPT ![<<q, 0>>] = 0]
    BY <2>1, BeginKnown DEF Begin
  <2>3. ASSUME NEW p \in Metered PROVE sent'[<<p, 0>>] = timestamps'[p]
    <3>1. <<p, 0>> \in Calls /\ (<<p, 0>> = <<q, 0>> <=> p = q)
      BY RetriesAreNat DEF Calls
    <3>2. sent'[<<p, 0>>] = IF p = q THEN 0 ELSE sent[<<p, 0>>]
      BY <2>2, <3>1 DEF Known
    <3>3. timestamps'[p] = IF p = q THEN 0 ELSE timestamps[p]
      BY <2>1 DEF Known
    <3> QED
      BY <3>2, <3>3 DEF FirstCalls
  <2>4. prune' = prune \cup {q}
    BY <2>1, ThrottleAssumption DEF prune, Known
  <2>5. Cardinality(prune') <= MaxCalls
    <3>1. IsFiniteSet(prune) /\ Cardinality(prune) \in Nat
      BY PruneFinite
    <3>2. Cardinality(prune \cup {q}) = IF q \in prune THEN Cardinality(prune) ELSE Cardinality(prune) + 1
      BY <3>1, FS_AddElement
    <3>3. Cardinality(prune') = Cardinality(prune \cup {q})
      BY <2>4
    <3> QED
      BY <1>1, <3>1, <3>2, <3>3, ThrottleAssumption
  <2> QED
    BY <2>3, <2>5 DEF FirstCalls
<1>2. CASE ~(Cardinality(prune) < MaxCalls)
  BY <1>2 DEF Meter, FirstCalls, prune
<1> QED
  BY <1>1, <1>2

LEMMA FirstCallsNext == SlotInv /\ Books /\ FirstCalls /\ [ThrottleNext]_throttleVars => FirstCalls'
<1> SUFFICES ASSUME SlotInv, Books, FirstCalls, [ThrottleNext]_throttleVars PROVE FirstCalls'
  OBVIOUS
<1> USE DEF SlotInv, Books
<1>1. CASE UNCHANGED <<timestamps, sent>>
  BY <1>1 DEF FirstCalls, prune
<1>2. ASSUME NEW q \in Queries, Meter(q) PROVE FirstCalls'
  BY <1>2, MeterFirstCalls
<1>3. ASSUME NEW q \in Queries, Retry(q) PROVE FirstCalls'
  <2>1. Begin(q) /\ timestamps' = timestamps /\ tries[q] # 0
    BY <1>3 DEF Retry, Counted
  <2>2. sent' = [sent EXCEPT ![<<q, tries[q]>>] = 0]
    BY <2>1 DEF Begin
  <2>3. ASSUME NEW p \in Metered PROVE sent'[<<p, 0>>] = sent[<<p, 0>>]
    <3>1. <<p, 0>> \in Calls /\ <<p, 0>> # <<q, tries[q]>>
      BY <2>1, RetriesAreNat DEF Calls
    <3> QED
      BY <2>2, <3>1 DEF Known
  <2> QED
    BY <2>1, <2>3 DEF FirstCalls, prune
<1>4. CASE Tick
  <2>1. \A p \in Metered : timestamps'[p] = Older(timestamps[p])
    BY <1>4 DEF Tick
  <2>2. ASSUME NEW p \in Metered PROVE sent'[<<p, 0>>] = Older(sent[<<p, 0>>])
    <3>1. <<p, 0>> \in Calls
      BY RetriesAreNat DEF Calls
    <3> QED
      BY <1>4, <3>1 DEF Tick
  <2>3. prune' \subseteq prune
    <3>1. \A p \in Metered : timestamps[p] \in Int /\ (Older(timestamps[p]) <= Window => timestamps[p] <= Window)
      BY ThrottleAssumption DEF Older, Known, Gone
    <3> QED
      BY <2>1, <3>1 DEF prune
  <2>4. Cardinality(prune') <= MaxCalls
    BY <2>3, PruneFinite, Fewer, ThrottleAssumption DEF FirstCalls
  <2> QED
    BY <2>1, <2>2, <2>4 DEF FirstCalls
<1> QED
  BY <1>1, <1>2, <1>3, <1>4
  DEF ThrottleNext, Start, Resume, Limited, Answer, Midnight, throttleVars

-----------------------------------------------------------------------------
\* Retries hold slots.

LEMMA RetryingFinite ==
  ASSUME Books, NEW k
  PROVE  /\ ToRetry(k) \in SUBSET Calls /\ Retried(k) \in SUBSET Calls
         /\ IsFiniteSet(Retried(k) \cup ToRetry(k))
<1>1. ToRetry(k) \in SUBSET Calls
  BY ThrottleAssumption DEF ToRetry, Sleepers, Books, Known, Calls, Queries, Metered
<1>2. Retried(k) \in SUBSET Calls
  BY DEF Retried
<1> QED
  BY <1>1, <1>2, CallsFinite, FS_Subset

\* What is to come comes from queries that hold a slot, one retry from each.
LEMMA SleepersHold ==
  ASSUME SlotInv, Books, NEW k PROVE Cardinality(ToRetry(k)) <= Concurrency
<1> DEFINE next == [q \in Sleepers(k) |-> <<q, tries[q]>>]
<1>1. Sleepers(k) \in SUBSET Holders
  BY DEF Sleepers, Holders, Holding
<1>2. IsFiniteSet(Sleepers(k)) /\ Cardinality(Sleepers(k)) <= Cardinality(Holders)
  BY <1>1, QueriesFinite, FS_Subset
<1>3. next \in Surjection(Sleepers(k), ToRetry(k))
  BY DEF Surjection, ToRetry
<1>4. IsFiniteSet(ToRetry(k)) /\ Cardinality(ToRetry(k)) <= Cardinality(Sleepers(k))
  BY <1>2, <1>3, FS_Surjection
<1>5. Cardinality(Holders) <= Concurrency
  BY SlotInvSuffices DEF SlotsInUse, SlotsBounded
<1> QED
  BY <1>2, <1>4, <1>5, QueriesFinite, FS_CardinalityType, ThrottleAssumption

\* When no more retries are in the window or near it, the bound is kept.
LEMMA NoMoreRetries ==
  ASSUME Books, RetriesSpread,
         \A k \in 0..Window : Retried(k)' \cup ToRetry(k)' \subseteq Retried(k) \cup ToRetry(k)
  PROVE  RetriesSpread'
<1>1. ASSUME NEW k \in 0..Window
      PROVE  Cardinality(Retried(k)' \cup ToRetry(k)') <= Concurrency
  <2> DEFINE now == Retried(k) \cup ToRetry(k)
             then == Retried(k)' \cup ToRetry(k)'
  <2>1. IsFiniteSet(now) /\ Cardinality(now) <= Concurrency /\ then \in SUBSET now
    BY <1>1, RetryingFinite DEF RetriesSpread
  <2> HIDE DEF now, then
  <2>2. Cardinality(then) <= Concurrency
    BY <2>1, Fewer, ThrottleAssumption
  <2> QED
    BY <2>2 DEF then
<1> QED
  BY <1>1 DEF RetriesSpread

LEMMA TickRetries == SlotInv /\ Books /\ RetriesSpread /\ Tick /\ SlotInv' /\ Books' => RetriesSpread'
<1> SUFFICES ASSUME SlotInv, Books, RetriesSpread, Tick, SlotInv', Books', NEW k \in 0..Window
             PROVE  Cardinality(Retried(k)' \cup ToRetry(k)') <= Concurrency
  BY DEF RetriesSpread
<1> USE DEF Books
<1>1. \A call \in Calls : sent'[call] = Older(sent[call]) /\ sent[call] \in 0..Gone
  BY DEF Tick, Known
<1>2. CASE k = Window
  <2>1. \A call \in Calls : sent'[call] + Window > Window
    BY <1>1, ThrottleAssumption DEF Older, Gone
  <2>2. Retried(k)' = {}
    BY <1>2, <2>1, ThrottleAssumption DEF Retried, Gone, Known
  <2>3. Cardinality(ToRetry(k)') <= Concurrency
    <3>1. ToRetry(k)' \subseteq ToRetry(k + 1)
      BY ThrottleAssumption DEF ToRetry, Sleepers, Tick, Counted
    <3>2. IsFiniteSet(ToRetry(k + 1)) /\ Cardinality(ToRetry(k + 1)) <= Concurrency
      BY SleepersHold, RetryingFinite, CallsFinite, FS_Subset
    <3> QED
      BY <3>1, <3>2, Fewer, ThrottleAssumption
  <2>4. Retried(k)' \cup ToRetry(k)' = ToRetry(k)'
    BY <2>2
  <2> QED
    BY <2>3, <2>4
<1>3. CASE k # Window
  <2>1. k + 1 \in 0..Window
    BY <1>3, ThrottleAssumption
  <2>2. Retried(k)' \subseteq Retried(k + 1)
    BY <1>1, ThrottleAssumption DEF Retried, Older, Gone
  <2>3. ToRetry(k)' \subseteq ToRetry(k + 1)
    BY ThrottleAssumption DEF ToRetry, Sleepers, Tick, Counted
  <2>4. Cardinality(Retried(k + 1) \cup ToRetry(k + 1)) <= Concurrency
    BY <2>1 DEF RetriesSpread
  <2> QED
    BY <2>2, <2>3, <2>4, RetryingFinite, Fewer, ThrottleAssumption
<1> QED
  BY <1>2, <1>3

\* A retry was to come, and has now been made.
LEMMA RetryRetries ==
  ASSUME SlotInv, Books, RetriesSpread, NEW q \in Queries, Retry(q) PROVE RetriesSpread'
<1> USE DEF SlotInv, Books
<1>1. Begin(q) /\ pc[q] = "backoff" /\ timer[q] = 0 /\ UNCHANGED <<timer, tries>>
  BY DEF Retry
<1>2. /\ <<q, tries[q]>> \in Calls /\ sent' = [sent EXCEPT ![<<q, tries[q]>>] = 0]
      /\ \A p \in Queries : pc'[p] = IF p = q THEN "calling" ELSE pc[p]
  BY <1>1, BeginKnown DEF Begin
<1>3. ASSUME NEW k \in 0..Window
      PROVE  Retried(k)' \cup ToRetry(k)' \subseteq Retried(k) \cup ToRetry(k)
  <2>1. <<q, tries[q]>> \in ToRetry(k)
    BY <1>1 DEF ToRetry, Sleepers
  <2>2. Retried(k)' \subseteq Retried(k) \cup {<<q, tries[q]>>}
    BY <1>2 DEF Retried, Known
  <2>3. ToRetry(k)' \subseteq ToRetry(k)
    BY <1>1, <1>2 DEF ToRetry, Sleepers
  <2> QED
    BY <2>1, <2>2, <2>3
<1> QED
  BY <1>3, NoMoreRetries

LEMMA RetriesSpreadNext ==
  SlotInv /\ Books /\ RetriesSpread /\ [ThrottleNext]_throttleVars => RetriesSpread'
<1> SUFFICES ASSUME SlotInv, Books, RetriesSpread, [ThrottleNext]_throttleVars PROVE RetriesSpread'
  OBVIOUS
<1> USE DEF SlotInv, Books
<1>1. ASSUME UNCHANGED <<tries, timer, sent>>,
             \A q \in Queries : pc'[q] = "backoff" => pc[q] = "backoff"
      PROVE  RetriesSpread'
  <2>1. \A k \in 0..Window : Retried(k)' \cup ToRetry(k)' \subseteq Retried(k) \cup ToRetry(k)
    BY <1>1 DEF Retried, ToRetry, Sleepers
  <2> QED
    BY <2>1, NoMoreRetries
<1>2. CASE Start
  <2>1. UNCHANGED <<tries, timer, sent>> /\ \A q \in Queries : pc'[q] # "backoff"
    BY <1>2 DEF Start
  <2> QED
    BY <1>1, <2>1
<1>3. ASSUME NEW q \in Queries, Resume(q) PROVE RetriesSpread'
  <2>1. UNCHANGED <<tries, timer, sent>>
    BY <1>3 DEF Resume
  <2>2. \A p \in Queries : pc'[p] = "backoff" => pc[p] = "backoff"
    BY <1>3, WakeStages DEF Resume, Shapes
  <2> QED
    BY <1>1, <2>1, <2>2
<1>4. ASSUME NEW q \in Queries, Meter(q) PROVE RetriesSpread'
  <2>1. CASE Cardinality(prune) < MaxCalls
    <3>1. Begin(q) /\ UNCHANGED <<timer, tries>> /\ tries[q] = 0
      BY <1>4, <2>1 DEF Meter, Counted, Early
    <3>2. <<q, 0>> \in Calls /\ sent' = [sent EXCEPT ![<<q, 0>>] = 0]
          /\ \A p \in Queries : pc'[p] = IF p = q THEN "calling" ELSE pc[p]
      BY <3>1, BeginKnown DEF Begin
    <3>3. \A call \in Calls : call[2] # 0 => sent'[call] = sent[call]
      BY <3>2 DEF Known
    <3>4. \A k \in 0..Window : Retried(k)' \subseteq Retried(k) /\ ToRetry(k)' \subseteq ToRetry(k)
      BY <3>1, <3>2, <3>3 DEF Retried, ToRetry, Sleepers
    <3> QED
      BY <3>4, NoMoreRetries
  <2>2. CASE ~(Cardinality(prune) < MaxCalls)
    <3>1. /\ UNCHANGED <<pc, tries, sent>> /\ pc[q] = "metering"
          /\ \A p \in Queries : p # q => timer'[p] = timer[p]
      BY <1>4, <2>2 DEF Meter, Known
    <3>2. \A k \in 0..Window : Retried(k)' \subseteq Retried(k) /\ ToRetry(k)' \subseteq ToRetry(k)
      BY <3>1 DEF Retried, ToRetry, Sleepers
    <3> QED
      BY <3>2, NoMoreRetries
  <2> QED
    BY <2>1, <2>2
<1>5. ASSUME NEW q \in Queries, Limited(q) PROVE RetriesSpread'
  <2>1. ASSUME NEW k \in 0..Window PROVE Sleepers(k)' \subseteq Sleepers(k) \ {q}
    <3>1. ~(timer'[q] <= k)
      BY <1>5, <2>1, LimitedBooks, ThrottleAssumption DEF Counted
    <3> QED
      BY <1>5, <3>1, LimitedBooks DEF Sleepers
  <2>2. UNCHANGED sent /\ \A p \in Queries : p # q => tries'[p] = tries[p]
    BY <1>5, LimitedBooks DEF Limited
  <2>3. \A k \in 0..Window : Retried(k)' \subseteq Retried(k) /\ ToRetry(k)' \subseteq ToRetry(k)
    <3> SUFFICES ASSUME NEW k \in 0..Window
                 PROVE  Retried(k)' \subseteq Retried(k) /\ ToRetry(k)' \subseteq ToRetry(k)
      OBVIOUS
    <3>1. Retried(k)' \subseteq Retried(k)
      BY <2>2 DEF Retried
    <3>2. \A p \in Sleepers(k)' : p \in Sleepers(k) /\ tries'[p] = tries[p]
      BY <2>1, <2>2 DEF Sleepers
    <3> QED
      BY <3>1, <3>2 DEF ToRetry
  <2> QED
    BY <2>3, NoMoreRetries
<1>6. ASSUME NEW q \in Queries, Retry(q) PROVE RetriesSpread'
  BY <1>6, RetryRetries
<1>7. ASSUME NEW q \in Queries, NEW quota \in BOOLEAN, Answer(q, quota) PROVE RetriesSpread'
  <2>1. UNCHANGED <<tries, timer, sent>> /\ wakeNext(q, "done")
    BY <1>7 DEF Answer
  <2>2. \A p \in Queries : pc'[p] = "backoff" => pc[p] = "backoff"
    BY <2>1, WakeStages
  <2> QED
    BY <1>1, <2>1, <2>2
<1>8. CASE Tick
  BY <1>8, TickRetries, SlotInvNext, BooksNext
<1>9. CASE Midnight \/ UNCHANGED throttleVars
  BY <1>1, <1>9 DEF Midnight, throttleVars
<1> QED
  BY <1>2, <1>3, <1>4, <1>5, <1>6, <1>7, <1>8, <1>9 DEF ThrottleNext

-----------------------------------------------------------------------------
\* After the block, only slot holders spend.

LEMMA SpendersFinite ==
  /\ IsFiniteSet(Spenders \cup Holders) /\ Cardinality(Spenders \cup Holders) \in Nat
<1>1. Spenders \cup Holders \in SUBSET Queries
  BY DEF Spenders, Holders
<1> QED
  BY <1>1, QueriesFinite, FS_Subset, FS_CardinalityType

\* While the block stands, nobody comes to hold a slot, and a holder's call
\* is the only thing that is spent.
LEMMA SameSpenders ==
  ASSUME SlotInv, QuotaInv, block,
         Spenders' \subseteq Spenders \cup Holders, Holders' \subseteq Holders,
         \A q \in Queries : pc'[q] = "idle" => pc[q] = "idle"
  PROVE  QuotaInv'
<1> DEFINE now == Spenders \cup Holders
           then == Spenders' \cup Holders'
<1>1. IsFiniteSet(now) /\ Cardinality(now) <= Concurrency - 1 /\ then \in SUBSET now
  BY SpendersFinite DEF QuotaInv
<1> HIDE DEF now, then
<1>2. Cardinality(then) <= Concurrency - 1
  BY <1>1, Fewer, ThrottleAssumption
<1>3. Cardinality(Spenders' \cup Holders') <= Concurrency - 1
  BY <1>2 DEF then
<1> QED
  BY <1>3 DEF QuotaInv

LEMMA BeginSpends ==
  ASSUME SlotInv, Books, QuotaInv, NEW q \in Holders, Begin(q), UNCHANGED block
  PROVE  QuotaInv'
<1> USE DEF SlotInv, Books
<1>1. q \in Queries /\ pc[q] \in Holding
  BY DEF Holders
<1>2. \A p \in Queries : pc'[p] = IF p = q THEN "calling" ELSE pc[p]
  BY <1>1, BeginKnown
<1>3. Holders' = Holders /\ \A p \in Queries : pc'[p] = "idle" => pc[p] = "idle"
  BY <1>1, <1>2 DEF Holders, Holding
<1>4. Spenders' \subseteq Spenders \cup Holders
  BY DEF Spenders, Begin
<1>5. CASE block
  BY <1>3, <1>4, <1>5, SameSpenders
<1>6. CASE ~block
  BY <1>6 DEF QuotaInv
<1> QED
  BY <1>5, <1>6

LEMMA AnswerSpends ==
  ASSUME SlotInv, Books, QuotaInv, NEW q \in Queries, NEW quota \in BOOLEAN, Answer(q, quota)
  PROVE  QuotaInv'
<1> USE DEF SlotInv, Books
<1>1. /\ pc[q] = "calling" /\ wakeNext(q, "done") /\ block' = (block \/ quota)
      /\ spent' = IF quota /\ ~block THEN {} ELSE spent
  BY DEF Answer
<1>2. Holders' = Holders \ {q} /\ q \in Holders
  BY <1>1, PassedOn DEF Holders, Holding
<1>3. \A p \in Queries : pc'[p] = "idle" => pc[p] = "idle"
  BY <1>1, WakeStages
<1>4. CASE block
  BY <1>1, <1>2, <1>3, <1>4, SameSpenders DEF Spenders
<1>5. CASE ~block /\ quota
  <2>1. Spenders' \cup Holders' = Holders \ {q}
    BY <1>1, <1>2, <1>5 DEF Spenders
  <2>2. Cardinality(Holders \ {q}) = Cardinality(Holders) - 1
    BY <1>2, QueriesFinite, FS_RemoveElement
  <2>3. Cardinality(Holders) <= Concurrency /\ Cardinality(Holders) \in Nat
    BY SlotInvSuffices, QueriesFinite, FS_CardinalityType DEF SlotsInUse, SlotsBounded
  <2>4. Cardinality(Spenders' \cup Holders') = Cardinality(Holders) - 1
    BY <2>1, <2>2
  <2>6. Cardinality(Spenders' \cup Holders') <= Concurrency - 1
    BY <2>3, <2>4, ThrottleAssumption
  <2>5. pc'[q] # "idle"
    BY <1>1, <1>3
  <2> QED
    BY <2>5, <2>6 DEF QuotaInv
<1>6. CASE ~block /\ ~quota
  BY <1>1, <1>6 DEF QuotaInv
<1> QED
  BY <1>4, <1>5, <1>6

LEMMA QuotaInvNext == SlotInv /\ Books /\ QuotaInv /\ [ThrottleNext]_throttleVars => QuotaInv'
<1> SUFFICES ASSUME SlotInv, Books, QuotaInv, [ThrottleNext]_throttleVars PROVE QuotaInv'
  OBVIOUS
<1> USE DEF SlotInv, Books
<1>1. CASE Start
  BY <1>1 DEF Start, QuotaInv
<1>2. ASSUME NEW q \in Queries, Resume(q) PROVE QuotaInv'
  <2>1. UNCHANGED <<block, spent>> /\ pc[q] = "woken"
    BY <1>2 DEF Resume
  <2>2. CASE block
    <3>1. wakeNext(q, "done")
      BY <1>2, <2>2 DEF Resume
    <3>2. Holders' \subseteq Holders /\ \A p \in Queries : pc'[p] = "idle" => pc[p] = "idle"
      BY <2>1, <3>1, PassedOn, WakeStages
    <3> QED
      BY <2>1, <2>2, <3>2, SameSpenders DEF Spenders
  <2>3. CASE ~block
    BY <2>1, <2>3 DEF QuotaInv
  <2> QED
    BY <2>2, <2>3
<1>3. ASSUME NEW q \in Queries, Meter(q) PROVE QuotaInv'
  <2>1. q \in Holders /\ UNCHANGED block
    BY <1>3 DEF Meter, Holders, Holding
  <2>2. CASE Begin(q)
    BY <2>1, <2>2, BeginSpends
  <2>3. CASE UNCHANGED <<pc, spent>>
    BY <2>1, <2>3 DEF QuotaInv, Spenders, Holders
  <2> QED
    BY <1>3, <2>2, <2>3 DEF Meter
<1>4. ASSUME NEW q \in Queries, Limited(q) PROVE QuotaInv'
  <2>1. UNCHANGED <<block, spent>> /\ \A p \in Queries : pc'[p] = IF p = q THEN "backoff" ELSE pc[p]
    BY <1>4, LimitedBooks DEF Limited
  <2>2. Holders' = Holders
    BY <1>4, <2>1 DEF Limited, Holders, Holding
  <2>3. Spenders' = Spenders /\ \A p \in Queries : pc'[p] = "idle" => pc[p] = "idle"
    BY <2>1 DEF Spenders
  <2>4. CASE block
    BY <2>2, <2>3, <2>4, SameSpenders
  <2> QED
    BY <2>1, <2>4 DEF QuotaInv
<1>5. ASSUME NEW q \in Queries, Retry(q) PROVE QuotaInv'
  <2>1. q \in Holders /\ Begin(q) /\ UNCHANGED block
    BY <1>5 DEF Retry, Holders, Holding
  <2> QED
    BY <2>1, BeginSpends
<1>6. ASSUME NEW q \in Queries, NEW quota \in BOOLEAN, Answer(q, quota) PROVE QuotaInv'
  BY <1>6, AnswerSpends
<1>7. CASE Tick \/ UNCHANGED throttleVars
  BY <1>7 DEF Tick, throttleVars, QuotaInv, Spenders, Holders
<1>8. CASE Midnight
  BY <1>8 DEF Midnight, QuotaInv
<1> QED
  BY <1>1, <1>2, <1>3, <1>4, <1>5, <1>6, <1>7, <1>8 DEF ThrottleNext

-----------------------------------------------------------------------------

LEMMA ThrottleInvRested == ASSUME NEW age \in 0..Gone, Rested(age) PROVE ThrottleInv
<1>1. SlotInv
  <2>1. Holders = {} /\ Busy = {} /\ Cardinality({}) = 0
    BY FS_EmptySet DEF Rested, Holders, Busy, Holding
  <2>2. Shapes /\ QueueExact
    BY DEF Rested, Shapes, Stages, QueueExact
  <2> QED
    BY <2>1, <2>2, ThrottleAssumption DEF Rested, SlotInv, CountExact, Promised
<1>2. RetriesSpread
  <2> SUFFICES ASSUME NEW k \in 0..Window PROVE Cardinality(Retried(k) \cup ToRetry(k)) <= Concurrency
    BY DEF RetriesSpread
  <2>1. ToRetry(k) = {}
    BY DEF Rested, ToRetry, Sleepers
  <2>2. \A call \in Calls : call[2] # 0 => sent[call] = Gone
    BY DEF Rested, CanaryCall
  <2>3. Retried(k) = {}
    BY <2>2, ThrottleAssumption DEF Retried, Gone
  <2>4. Cardinality(Retried(k) \cup ToRetry(k)) = 0
    BY <2>1, <2>3, FS_EmptySet
  <2> QED
    BY <2>4, ThrottleAssumption
<1>3. QuotaInv
  BY DEF Rested, QuotaInv
<1> QED
  BY <1>1, <1>2, <1>3, BooksRested, FirstCallsRested DEF ThrottleInv

LEMMA ThrottleInvNext == ThrottleInv /\ [ThrottleNext]_throttleVars => ThrottleInv'
BY SlotInvNext, BooksNext, FirstCallsNext, RetriesSpreadNext, QuotaInvNext DEF ThrottleInv

\* The first calls of the last window are as many as the timestamps in it.
LEMMA WindowCounted == ThrottleInv => WindowBound
<1> SUFFICES ASSUME ThrottleInv PROVE WindowBound
  OBVIOUS
<1> USE DEF ThrottleInv, Books
<1> DEFINE recent == {call \in Calls : sent[call] <= Window}
           retried == Retried(0) \cup ToRetry(0)
           first == prune \X {0}
<1>1. recent \subseteq first \cup retried
  <2> SUFFICES ASSUME NEW call \in recent, call[2] = 0 PROVE call \in first
    BY ThrottleAssumption DEF Retried, Known, Gone
  <2>1. call[1] \in Metered /\ call = <<call[1], 0>>
    BY DEF Calls
  <2>2. timestamps[call[1]] = sent[call]
    BY <2>1 DEF FirstCalls
  <2> QED
    BY <2>1, <2>2 DEF prune
<1>2. IsFiniteSet(first) /\ Cardinality(first) <= MaxCalls /\ Cardinality(first) \in Nat
  <2>1. IsFiniteSet({0}) /\ Cardinality({0}) = 1
    BY FS_Singleton
  <2>2. IsFiniteSet(first) /\ Cardinality(first) = Cardinality(prune) * 1
    BY <2>1, PruneFinite, FS_Product
  <2> QED
    BY <2>2, PruneFinite DEF FirstCalls
<1>3. IsFiniteSet(retried) /\ Cardinality(retried) <= Concurrency /\ Cardinality(retried) \in Nat
  BY RetryingFinite, FS_CardinalityType, ThrottleAssumption DEF RetriesSpread
<1> HIDE DEF recent, first, retried
<1>4. IsFiniteSet(first \cup retried) /\ Cardinality(first \cup retried) <= MaxCalls + Concurrency
  <2>1. Cardinality(first \cap retried) \in Nat
    BY <1>2, FS_Intersection, FS_CardinalityType
  <2>2. /\ IsFiniteSet(first \cup retried)
        /\ Cardinality(first \cup retried)
             = Cardinality(first) + Cardinality(retried) - Cardinality(first \cap retried)
    BY <1>2, <1>3, FS_Union
  <2> QED
    BY <1>2, <1>3, <2>1, <2>2, ThrottleAssumption
<1>5. Cardinality(recent) <= MaxCalls + Concurrency
  BY <1>1, <1>4, Fewer, ThrottleAssumption
<1> QED
  BY <1>5 DEF WindowBound, recent

LEMMA QuotaCounted == ThrottleInv => QuotaStopsQueue
<1> SUFFICES ASSUME ThrottleInv, block
             PROVE  Cardinality(spent) <= (Concurrency - 1) * (MaxRetries + 1)
  BY DEF QuotaStopsQueue
<1> DEFINE all == Spenders \X (0..MaxRetries)
           n == Cardinality(Spenders)
<1>1. IsFiniteSet(Spenders) /\ n \in Nat /\ n <= Concurrency - 1
  <2>1. Spenders \in SUBSET (Spenders \cup Holders)
    OBVIOUS
  <2>2. IsFiniteSet(Spenders) /\ n <= Cardinality(Spenders \cup Holders)
    BY <2>1, SpendersFinite, FS_Subset
  <2>3. n \in Nat
    BY <2>2, FS_CardinalityType
  <2> QED
    BY <2>2, <2>3, SpendersFinite, ThrottleAssumption DEF ThrottleInv, QuotaInv
<1>2. Cardinality(0..MaxRetries) = MaxRetries + 1
  BY FS_Interval, RetriesAreNat
<1>3. IsFiniteSet(all) /\ Cardinality(all) = n * (MaxRetries + 1)
  BY <1>1, <1>2, CallsFinite, FS_Product
<1>4. spent \in SUBSET all
  BY DEF ThrottleInv, Books, Known, Spenders
<1>5. IsFiniteSet(spent) /\ Cardinality(spent) <= Cardinality(all)
  BY <1>3, <1>4, FS_Subset
<1>6. Cardinality(spent) \in Nat
  BY <1>5, FS_CardinalityType
<1> HIDE DEF all, n
<1>7. \A a, b, c \in Nat : a <= b => a * c <= b * c
  OBVIOUS
<1>8. n * (MaxRetries + 1) <= (Concurrency - 1) * (MaxRetries + 1)
  BY <1>1, <1>7, RetriesAreNat, ThrottleAssumption
<1> QED
  BY <1>1, <1>3, <1>5, <1>6, <1>8, RetriesAreNat, ThrottleAssumption

LEMMA ThrottlePromises == ThrottleInv => SlotsInUse /\ WindowBound /\ QuotaStopsQueue
BY SlotInvSuffices, WindowCounted, QuotaCounted DEF ThrottleInv

LEMMA Throttled == ThrottleSpec => []ThrottleInv
<1>1. ThrottleInit => ThrottleInv
  BY InitRested, ThrottleInvRested
<1> QED
  BY <1>1, ThrottleInvNext, PTL DEF ThrottleSpec

(* The semaphore's counter is the number of queries that hold a slot, never *)
(* above Concurrency, and no slot is idle while a query waits, for any      *)
(* number of queries and slots: acquire, release and wakeNext of            *)
(* lib/throttle.mjs lose no wake-up and leak no slot.                       *)
THEOREM SlotsExact == ThrottleSpec => []SlotsInUse
BY Throttled, ThrottlePromises, PTL

(* Whatever is rate-limited, however many queries there are and wherever a  *)
(* window is laid, at most one retry per slot begins in it on top of what   *)
(* the limiter admits: retryOnRateLimit asks no limiter, but sleeps longer  *)
(* than a window, and keeps its slot (lib/throttle.mjs).                    *)
THEOREM RetriesBounded == ThrottleSpec => []WindowBound
BY Throttled, ThrottlePromises, PTL

(* Once an answer has set the daily block, what is still spent is what the  *)
(* holders of the other slots had under way: acquire's second look at the   *)
(* block keeps every query that waited from the API (lib/throttle.mjs).     *)
THEOREM QueueStopped == ThrottleSpec => []QuotaStopsQueue
BY Throttled, ThrottlePromises, PTL
=============================================================================
