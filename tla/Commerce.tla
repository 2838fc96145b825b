------------------------------ MODULE Commerce ------------------------------
(***************************************************************************)
(* Orders, payments, provider events and the fulfilment of access          *)
(* (domain/services/commerce.py, api/routers/commerce.py and the           *)
(* FULFILL_ACCESS handler of jobs/worker.py).                              *)
(*                                                                         *)
(* Every request, and every handler run, is one database transaction that  *)
(* reads without locking and writes at the end: the reads are one step     *)
(* (the snapshot is kept in tx), the flush and the commit are another.     *)
(* Only the columns a transaction changed are written, and the unique      *)
(* constraints are looked at when it writes.  A request that raises writes *)
(* nothing.  Orders have one item and one charge, as create_order makes    *)
(* them; an order is named by its idempotency key.                         *)
(***************************************************************************)
EXTENDS Naturals, FiniteSets

CONSTANTS
  Orders,       \* idempotency keys of orders (also of their charges)
  Events,       \* events the provider may send: [id, charge, status]
  Versions,     \* community versions the product can point to
  Sessions,     \* requests the API serves at the same time
  Worker,       \* the session of the worker process
  None,         \* NULL
  MaxAttempts,  \* attempts a FULFILL_ACCESS job has
  MaxFaults,    \* bound: database errors and crashes that hit the worker
  MaxRepoints   \* bound: administrator edits of the catalogue

ProviderWords == {"CONFIRMED", "PAID", "APPROVED", "EXPIRED", "FAILED",
                  "CANCELLED", "REJECTED", "WAITING"}

ASSUME CommerceConstants ==
  /\ \A e \in Events : e.charge \in Orders /\ e.status \in ProviderWords
  /\ \A e, f \in Events : e.id = f.id => e = f
  /\ Worker \notin Sessions /\ None \notin Events /\ None \notin Versions
  /\ MaxAttempts \in Nat \ {0} /\ MaxFaults \in Nat /\ MaxRepoints \in Nat

VARIABLES
  order,      \* Order.status, "ABSENT" before the row exists
  payment,    \* Payment.status of the order's charge
  recorded,   \* payment_events rows, all with processed = TRUE
  job,        \* status of the job fulfill-order:<order>, "ABSENT" before
  attempts,   \* Job.attempts of it
  rows,       \* number of entitlements of the order's item
  bound,      \* Entitlement.community_version_id
  on_sale,    \* plan.active and product.active
  version,    \* Product.community_version_id
  tx,         \* per session: what its open transaction has read
  paid,       \* history: orders with a committed confirmation
  refused,    \* history: events answered with an error, nothing stored
  faults, repoints  \* history: for the bounds

shop   == <<order, payment, recorded, job, attempts, rows, bound>>
admin  == <<on_sale, version, repoints>>
vars   == <<shop, admin, tx, paid, refused, faults>>

Open == Sessions \cup {Worker}
OrderStates   == {"ABSENT", "PAYMENT_PENDING", "PAID", "FULFILLED"}
PaymentStates == {"ABSENT", "PENDING", "CONFIRMED", "EXPIRED", "FAILED"}
JobStates     == {"ABSENT", "QUEUED", "RUNNING", "SUCCEEDED", "FAILED_FINAL"}
Settled == {"PAID", "FULFILLED"}

NoTx == [kind |-> "none"]
EventTx == [kind : {"event"}, event : Events, payment : PaymentStates \ {"ABSENT"},
            order : OrderStates, job : BOOLEAN]
FulfilTx == [kind : {"fulfil"}, of : Orders, order : Settled,
             entitled : BOOLEAN, version : Versions]
ClaimTx == [kind : {"claimed"}, of : Orders]

(* Every variable keeps its type; what an actor has in hand fits its place. *)
TypeOK ==
  /\ order \in [Orders -> OrderStates]
  /\ payment \in [Orders -> PaymentStates]
  /\ recorded \subseteq Events
  /\ job \in [Orders -> JobStates]
  /\ attempts \in [Orders -> Nat]
  /\ rows \in [Orders -> Nat]
  /\ bound \in [Orders -> Versions \cup {None}]
  /\ on_sale \in BOOLEAN
  /\ version \in Versions
  /\ tx \in [Open -> EventTx \cup FulfilTx \cup ClaimTx \cup {NoTx}]
  /\ tx[Worker].kind # "event"
  /\ paid \subseteq Orders
  /\ refused \subseteq Events
  /\ faults \in Nat /\ repoints \in Nat

Init ==
  /\ order = [o \in Orders |-> "ABSENT"]
  /\ payment = [o \in Orders |-> "ABSENT"]
  /\ recorded = {}
  /\ job = [o \in Orders |-> "ABSENT"]
  /\ attempts = [o \in Orders |-> 0]
  /\ rows = [o \in Orders |-> 0]
  /\ bound = [o \in Orders |-> None]
  /\ on_sale = TRUE
  /\ version \in Versions
  /\ tx = [s \in Open |-> NoTx]
  /\ paid = {}
  /\ refused = {}
  /\ faults = 0 /\ repoints = 0

-----------------------------------------------------------------------------
(* create_order(): CREATED and CHECKOUT_READY are passed inside the         *)
(* transaction.  A key already used returns the order it has (no step).     *)
CreateOrder(o) ==
  /\ order[o] = "ABSENT"
  /\ on_sale
  /\ order' = [order EXCEPT ![o] = "PAYMENT_PENDING"]
  /\ payment' = [payment EXCEPT ![o] = "PENDING"]
  /\ UNCHANGED <<recorded, job, attempts, rows, bound, admin, tx, paid, refused, faults>>

-----------------------------------------------------------------------------
(* process_payment_event()                                                  *)

TargetOf(word) ==
  IF word \in {"CONFIRMED", "PAID", "APPROVED"} THEN "CONFIRMED"
  ELSE IF word = "EXPIRED" THEN "EXPIRED"
  ELSE IF word \in {"FAILED", "CANCELLED", "REJECTED"} THEN "FAILED"
  ELSE "PENDING"

\* TRANSITIONS[PaymentStatus], among the states this code writes
PaymentMoves(st) ==
  IF st = "PENDING" THEN {"CONFIRMED", "EXPIRED", "FAILED"}
  ELSE IF st = "EXPIRED" THEN {"CONFIRMED"} ELSE {}

\* mutant: any status may follow any other
MayMoveAnywhere(st, target) == TRUE

MayMove(st, target) == target = st \/ target \in PaymentMoves(st)

\* mutant: a fulfilled order may be paid again
MayPayAgain(st) == st \in {"PAYMENT_PENDING", "PAID", "FULFILLED"}

\* a confirmation also moves the order: TRANSITIONS[OrderStatus] to PAID
MayPay(st) == st \in {"PAYMENT_PENDING", "PAID"}

Accepts(e) ==
  LET target == TargetOf(e.status) IN
  /\ MayMove(payment[e.charge], target)
  /\ target = "CONFIRMED" => MayPay(order[e.charge])

\* an event already processed, or for an unknown charge, changes nothing
Fresh(e) == e \notin recorded /\ payment[e.charge] # "ABSENT"

ReadEvent(s, e) ==
  /\ tx[s] = NoTx
  /\ Fresh(e)
  /\ Accepts(e)
  /\ tx' = [tx EXCEPT ![s] =
       [kind |-> "event", event |-> e, payment |-> payment[e.charge],
        order |-> order[e.charge], job |-> job[e.charge] # "ABSENT"]]
  /\ UNCHANGED <<shop, admin, paid, refused, faults>>

\* ensure_transition raises: the request is rolled back with an error
RefuseEvent(s, e) ==
  /\ tx[s] = NoTx
  /\ Fresh(e)
  /\ ~Accepts(e)
  /\ refused' = refused \cup {e}
  /\ UNCHANGED <<shop, admin, tx, paid, faults>>

Close(s) == tx' = [tx EXCEPT ![s] = NoTx]

\* mutant: the job is left to somebody else
ConfirmOnly(t, o) ==
  /\ order' = IF t.order = "PAID" THEN order ELSE [order EXCEPT ![o] = "PAID"]
  /\ paid' = paid \cup {o}
  /\ UNCHANGED job

\* The writes of a confirmation: the order and its fulfilment job.
Confirm(t, o) ==
  /\ order' = IF t.order = "PAID" THEN order ELSE [order EXCEPT ![o] = "PAID"]
  /\ job' = IF t.job THEN job ELSE [job EXCEPT ![o] = "QUEUED"]
  /\ paid' = paid \cup {o}

\* Another transaction queued the job after this one looked: the INSERT
\* fails, enqueue() rolls ALL of this transaction's writes back and goes on
\* with the other's job; only the event row is added again.
JobConflict(t, o) == TargetOf(t.event.status) = "CONFIRMED" /\ ~t.job /\ job[o] # "ABSENT"

CommitEvent(s) ==
  LET t == tx[s]
      o == t.event.charge
      target == TargetOf(t.event.status)
  IN
  /\ t.kind = "event"
  /\ Close(s)
  /\ \/ /\ t.event \in recorded        \* unique (provider, event): error, no write
        /\ UNCHANGED shop /\ UNCHANGED paid
     \/ /\ t.event \notin recorded
        /\ recorded' = recorded \cup {t.event}
        /\ IF JobConflict(t, o)
           THEN UNCHANGED <<order, payment, job, paid>>
           ELSE /\ payment' = IF target = t.payment THEN payment
                              ELSE [payment EXCEPT ![o] = target]
                /\ IF target = "CONFIRMED" THEN Confirm(t, o)
                   ELSE UNCHANGED <<order, job, paid>>
        /\ UNCHANGED <<attempts, rows, bound>>
  /\ UNCHANGED <<admin, refused, faults>>

-----------------------------------------------------------------------------
(* fulfill_order_entitlements(), from the admin route or from the worker.   *)

\* mutant: an order that exists is enough
CanFulfilAny(o) == order[o] # "ABSENT"

CanFulfil(o) == order[o] \in Settled   \* PAID, or already FULFILLED

ReadFulfil(s, o) ==
  /\ tx' = [tx EXCEPT ![s] =
       [kind |-> "fulfil", of |-> o, order |-> order[o],
        entitled |-> rows[o] > 0, version |-> version]]
  /\ UNCHANGED <<shop, admin, paid, refused, faults>>

\* mutant: no unique constraint
NoItemConflict(t) == FALSE

\* unique source_order_item_id: somebody else inserted it after the read
ItemConflict(t) == t.order = "PAID" /\ ~t.entitled /\ rows[t.of] > 0

Grant(t) ==
  IF t.order = "FULFILLED" THEN UNCHANGED <<order, rows, bound>>
  ELSE /\ order' = [order EXCEPT ![t.of] = "FULFILLED"]
       /\ IF t.entitled THEN UNCHANGED <<rows, bound>>
          ELSE /\ rows' = [rows EXCEPT ![t.of] = @ + 1]
               /\ bound' = [bound EXCEPT ![t.of] = t.version]

AdminFulfil(s, o) == tx[s] = NoTx /\ CanFulfil(o) /\ ReadFulfil(s, o)

CommitAdminFulfil(s) ==
  /\ s \in Sessions
  /\ tx[s].kind = "fulfil"
  /\ Close(s)
  /\ IF ItemConflict(tx[s]) THEN UNCHANGED <<order, rows, bound>> ELSE Grant(tx[s])
  /\ UNCHANGED <<payment, recorded, job, attempts, admin, paid, refused, faults>>

-----------------------------------------------------------------------------
(* The worker process on fulfill-order:<o>.  The handler's writes and the   *)
(* job's SUCCEEDED are committed together.                                  *)

ClaimJob(o) ==
  /\ tx[Worker] = NoTx
  /\ job[o] = "QUEUED"
  /\ job' = [job EXCEPT ![o] = "RUNNING"]
  /\ attempts' = [attempts EXCEPT ![o] = @ + 1]
  /\ tx' = [tx EXCEPT ![Worker] = [kind |-> "claimed", of |-> o]]
  /\ UNCHANGED <<order, payment, recorded, rows, bound, admin, paid, refused, faults>>

WorkerFulfil ==
  /\ tx[Worker].kind = "claimed"
  /\ CanFulfil(tx[Worker].of)
  /\ ReadFulfil(Worker, tx[Worker].of)

CommitWorkerFulfil ==
  LET t == tx[Worker] IN
  /\ t.kind = "fulfil"
  /\ ~ItemConflict(t)
  /\ Grant(t)
  /\ job' = [job EXCEPT ![t.of] = "SUCCEEDED"]
  /\ Close(Worker)
  /\ UNCHANGED <<payment, recorded, attempts, admin, paid, refused, faults>>

\* mutant: gives up an attempt early
FailJobEarly(o) ==
  /\ job' = [job EXCEPT ![o] = IF attempts[o] + 1 < MaxAttempts THEN "QUEUED"
                               ELSE "FAILED_FINAL"]
  /\ Close(Worker)
  /\ UNCHANGED <<order, payment, recorded, attempts, rows, bound,
                 admin, paid, refused>>

FailJob(o) ==
  /\ job' = [job EXCEPT ![o] = IF attempts[o] < MaxAttempts THEN "QUEUED"
                               ELSE "FAILED_FINAL"]
  /\ Close(Worker)
  /\ UNCHANGED <<order, payment, recorded, attempts, rows, bound,
                 admin, paid, refused>>

\* the handler raises: unpaid order, or the item's unique constraint
Raises(t) == IF t.kind = "claimed" THEN ~CanFulfil(t.of) ELSE ItemConflict(t)

WorkerRaises ==
  /\ tx[Worker] # NoTx
  /\ Raises(tx[Worker])
  /\ FailJob(tx[Worker].of)
  /\ UNCHANGED faults

\* ... or the database does
WorkerFault ==
  /\ tx[Worker] # NoTx
  /\ faults < MaxFaults
  /\ faults' = faults + 1
  /\ FailJob(tx[Worker].of)

\* killed: the lock goes stale and recover_stale queues the job again
WorkerCrash ==
  /\ tx[Worker] # NoTx
  /\ faults < MaxFaults
  /\ faults' = faults + 1
  /\ job' = [job EXCEPT ![tx[Worker].of] = "QUEUED"]
  /\ Close(Worker)
  /\ UNCHANGED <<order, payment, recorded, attempts, rows, bound, admin, paid, refused>>

-----------------------------------------------------------------------------
(* Administrators edit the catalogue at any time.                           *)
RepointProduct(v) ==
  /\ repoints < MaxRepoints
  /\ v # version
  /\ version' = v
  /\ repoints' = repoints + 1
  /\ UNCHANGED <<shop, on_sale, tx, paid, refused, faults>>

ToggleSale ==
  /\ repoints < MaxRepoints
  /\ on_sale' = ~on_sale
  /\ repoints' = repoints + 1
  /\ UNCHANGED <<shop, version, tx, paid, refused, faults>>

WorkerStep == WorkerFulfil \/ CommitWorkerFulfil \/ WorkerRaises

Next ==
  \/ \E o \in Orders : CreateOrder(o) \/ ClaimJob(o)
  \/ \E s \in Sessions : \/ \E e \in Events : ReadEvent(s, e) \/ RefuseEvent(s, e)
                         \/ CommitEvent(s)
                         \/ \E o \in Orders : AdminFulfil(s, o)
                         \/ CommitAdminFulfil(s)
  \/ WorkerStep \/ WorkerFault \/ WorkerCrash
  \/ \E v \in Versions : RepointProduct(v)
  \/ ToggleSale

(* The worker polls for ever and its handler ends (JobQueue); customers,    *)
(* the provider and administrators need not do anything.                    *)
Fairness == /\ \A o \in Orders : WF_vars(ClaimJob(o))
            /\ WF_vars(WorkerStep)

Spec == Init /\ [][Next]_vars
FairSpec == Spec /\ Fairness

-----------------------------------------------------------------------------
(* Access is given only against money: an entitlement exists only for an    *)
(* order whose confirmation was committed, however events, the admin route, *)
(* retries and crashes interleave.                                          *)
AccessWasPaid == \A o \in Orders : rows[o] > 0 => o \in paid

(* Webhook replays, the admin route and a repeated job together create at   *)
(* most one entitlement per order item.                                     *)
OneEntitlement == \A o \in Orders : rows[o] <= 1

(* No paid order is left without a fulfilment job: the order's move to PAID *)
(* and the job are committed together or the job was there before.          *)
PaidHasJob == \A o \in Orders : order[o] \in Settled => job[o] # "ABSENT"

(* An order is FULFILLED only with its entitlement in the same commit.      *)
FulfilledHasAccess == \A o \in Orders : order[o] = "FULFILLED" => rows[o] > 0

(* Payment and order agree: the payment is CONFIRMED exactly when the order *)
(* is PAID or FULFILLED.  True while requests do not overlap; two of them   *)
(* may overwrite each other (a late EXPIRED over a CONFIRMED).              *)
PaymentMatchesOrder ==
  \A o \in Orders : payment[o] = "CONFIRMED" <=> order[o] \in Settled

(* What a step may do to an order: move it on, never back.                  *)
OrderRank(st) == IF st = "ABSENT" THEN 0 ELSE IF st = "PAYMENT_PENDING" THEN 1
                 ELSE IF st = "PAID" THEN 2 ELSE 3
OrdersAdvance == \A o \in Orders : OrderRank(order'[o]) >= OrderRank(order[o])

(* What an open transaction has read may be out of date when it commits,    *)
(* but only forwards: a paid order stays paid, an entitlement stays, a job  *)
(* stays.  With the invariants above this is inductive for any number of    *)
(* overlapping requests (CommerceProofs).                                   *)
SnapshotsSound ==
  \A s \in Open :
    /\ tx[s].kind = "fulfil" =>
         /\ order[tx[s].of] \in Settled
         /\ tx[s].order = "FULFILLED" \/ tx[s].entitled => rows[tx[s].of] > 0
    /\ tx[s].kind = "event" =>
         /\ order[tx[s].event.charge] # "ABSENT"
         /\ tx[s].job => job[tx[s].event.charge] # "ABSENT"
         /\ tx[s].order = "PAID" => order[tx[s].event.charge] \in Settled

SafetyInv ==
  /\ SnapshotsSound /\ OneEntitlement /\ PaidHasJob /\ FulfilledHasAccess
  /\ \A o \in Orders :
       /\ payment[o] = "ABSENT" <=> order[o] = "ABSENT"
       /\ order[o] \in Settled => o \in paid
       /\ rows[o] > 0 => order[o] \in Settled

Phase == [o \in Orders |->
  IF rows[o] > 0 THEN "granted" ELSE IF order[o] \in Settled THEN "paid"
  ELSE IF order[o] = "PAYMENT_PENDING" THEN "open" ELSE "none"]

P == INSTANCE Purchase WITH phase <- Phase

(* Orders, payments and entitlements implement Purchase: an order is paid   *)
(* once, after it was opened, and granted once, after it was paid.          *)
ImplementsPurchase == P!Spec

(* A paid order is granted, although events, administrators, errors and     *)
(* crashes interfere, unless its job was given up: and that happens only    *)
(* after every one of its MaxAttempts attempts was hit by an error or a     *)
(* crash.  Such an order stays PAID until the admin route is used, which    *)
(* nobody has to do.                                                        *)
GivenUp(o) ==
  /\ job[o] = "FAILED_FINAL"
  /\ attempts[o] >= MaxAttempts /\ faults >= MaxAttempts

GrantsWhatIsPaid ==
  \A o \in Orders : (order[o] \in Settled) ~> (rows[o] > 0 \/ GivenUp(o))

(* docs/BASE-OFICIAL.md:1189 says that no money and no event may disappear, *)
(* and :1183 that both of two payments are recorded.  The code answers a    *)
(* confirmation for an order it has already fulfilled with an error and     *)
(* stores nothing.                                                          *)
NoMoneyVanishes == \A e \in refused : TargetOf(e.status) # "CONFIRMED"
=============================================================================
