--------------------------- MODULE CommerceProofs ---------------------------
(***************************************************************************)
(* Commerce is safe for every set of orders, events and overlapping        *)
(* requests: access is paid for, given once, and orders, payments and      *)
(* entitlements implement Purchase.  The argument is the inductive         *)
(* invariant SafetyInv: an overlapping commit may overwrite a column with  *)
(* a value that was right when it was read, but no transaction takes back  *)
(* an order's payment, a job or an entitlement, so what a snapshot relies  *)
(* on still holds when it is used.                                         *)
(***************************************************************************)
EXTENDS CommerceOverlap, TLAPS

USE CommerceConstants

States == EventTx \cup FulfilTx \cup ClaimTx \cup {NoTx}

LEMMA TxKinds ==
  ASSUME TypeOK, NEW s \in Open
  PROVE  /\ tx[s].kind = "event" => tx[s] \in EventTx
         /\ tx[s].kind = "fulfil" => tx[s] \in FulfilTx
         /\ tx[s].kind = "claimed" => tx[s] \in ClaimTx
         /\ tx[s] = NoTx \/ tx[s].kind \in {"event", "fulfil", "claimed"}
BY DEF TypeOK, EventTx, FulfilTx, ClaimTx, NoTx

TxTyped == /\ tx \in [Open -> EventTx \cup FulfilTx \cup ClaimTx \cup {NoTx}]
           /\ tx[Worker].kind # "event"

(* Closing a transaction, or opening one of the right shape, keeps the type *)
(* of tx.                                                                   *)
LEMMA TxUpdate ==
  ASSUME TypeOK, NEW s \in Open, NEW t \in States, tx' = [tx EXCEPT ![s] = t],
         t.kind = "event" => s \in Sessions
  PROVE  TxTyped'
BY DEF TypeOK, States, TxTyped, Open

LEMMA TypeInit == Init => TypeOK
BY DEF Init, TypeOK, OrderStates, PaymentStates, JobStates, NoTx, Open

LEMMA TypeEvent ==
  ASSUME TypeOK, NEW s \in Sessions,
         (\E e \in Events : ReadEvent(s, e) \/ RefuseEvent(s, e)) \/ CommitEvent(s)
  PROVE  TypeOK'
<1>1. s \in Open
  BY DEF Open
<1>2. ASSUME NEW e \in Events, ReadEvent(s, e) PROVE TypeOK'
  <2> DEFINE t == [kind |-> "event", event |-> e, payment |-> payment[e.charge],
                   order |-> order[e.charge], job |-> job[e.charge] # "ABSENT"]
  <2>1. e.charge \in Orders
    OBVIOUS
  <2>2. t \in EventTx
    BY <1>2, <2>1 DEF ReadEvent, Fresh, EventTx, TypeOK
  <2>3. TxTyped'
    BY <1>1, <1>2, <2>2, TxUpdate DEF ReadEvent, States
  <2>. QED
    BY <1>2, <2>3 DEF ReadEvent, TypeOK, TxTyped, shop, admin
<1>3. ASSUME NEW e \in Events, RefuseEvent(s, e) PROVE TypeOK'
  BY <1>3 DEF RefuseEvent, TypeOK, shop, admin
<1>4. CASE CommitEvent(s)
  <2>1. tx[s].event \in Events /\ tx[s].event.charge \in Orders
    BY <1>1, <1>4, TxKinds DEF CommitEvent, EventTx
  <2>2. TxTyped'
    BY <1>1, <1>4, TxUpdate DEF CommitEvent, Close, States, NoTx
  <2>3. TargetOf(tx[s].event.status) \in PaymentStates
    BY DEF TargetOf, PaymentStates
  <2>4. /\ order' \in [Orders -> OrderStates]
        /\ payment' \in [Orders -> PaymentStates]
        /\ job' \in [Orders -> JobStates]
        /\ paid' \subseteq Orders
        /\ recorded' \subseteq Events
        /\ UNCHANGED <<attempts, rows, bound>>
    BY <1>4, <2>1, <2>3 DEF CommitEvent, Confirm, TypeOK, shop, OrderStates, JobStates
  <2>. QED
    BY <1>4, <2>2, <2>4 DEF CommitEvent, TypeOK, TxTyped, admin
<1>. QED
  BY <1>2, <1>3, <1>4

LEMMA TypeGrant ==
  ASSUME TypeOK, NEW t \in FulfilTx, Grant(t)
  PROVE  /\ order' \in [Orders -> OrderStates]
         /\ rows' \in [Orders -> Nat]
         /\ bound' \in [Orders -> Versions \cup {None}]
BY DEF Grant, FulfilTx, TypeOK, OrderStates

LEMMA TypeReadFulfil ==
  ASSUME TypeOK, NEW s \in Open, NEW o \in Orders, CanFulfil(o), ReadFulfil(s, o)
  PROVE  TypeOK'
<1> DEFINE t == [kind |-> "fulfil", of |-> o, order |-> order[o],
                 entitled |-> rows[o] > 0, version |-> version]
<1>1. t \in FulfilTx
  BY DEF FulfilTx, CanFulfil, TypeOK
<1>2. TxTyped'
  BY <1>1, TxUpdate DEF ReadFulfil, States
<1>. QED
  BY <1>2 DEF ReadFulfil, TypeOK, TxTyped, shop, admin

LEMMA TypeAdminCommit ==
  ASSUME TypeOK, NEW s \in Sessions, CommitAdminFulfil(s)
  PROVE  TypeOK'
<1>1. s \in Open /\ tx[s] \in FulfilTx
  BY TxKinds DEF Open, CommitAdminFulfil
<1>2. TxTyped'
  BY <1>1, TxUpdate DEF CommitAdminFulfil, Close, States, NoTx
<1>. QED
  BY <1>1, <1>2, TypeGrant DEF CommitAdminFulfil, TypeOK, TxTyped, admin

LEMMA TypeWorker ==
  ASSUME TypeOK,
         (\E o \in Orders : ClaimJob(o)) \/ WorkerStep \/ WorkerFault \/ WorkerCrash
  PROVE  TypeOK'
<1>1. Worker \in Open
  BY DEF Open
<1>2. tx[Worker] # NoTx => tx[Worker].of \in Orders
  BY <1>1, TxKinds DEF FulfilTx, ClaimTx, TypeOK
<1>3. ASSUME NEW o \in Orders, ClaimJob(o) PROVE TypeOK'
  <2>1. [kind |-> "claimed", of |-> o] \in States
    BY DEF ClaimTx, States
  <2>2. TxTyped'
    BY <1>1, <1>3, <2>1, TxUpdate DEF ClaimJob
  <2>. QED
    BY <1>3, <2>2 DEF ClaimJob, TypeOK, TxTyped, admin, JobStates
<1>4. Close(Worker) => TxTyped'
  BY <1>1, TxUpdate DEF Close, States, NoTx
<1>5. CASE WorkerFulfil
  <2>1. tx[Worker].of \in Orders
    BY <1>2, <1>5 DEF WorkerFulfil, NoTx
  <2>. QED
    BY <1>1, <1>5, <2>1, TypeReadFulfil DEF WorkerFulfil
<1>6. CASE CommitWorkerFulfil
  <2>1. tx[Worker] \in FulfilTx /\ tx[Worker].of \in Orders
    BY <1>1, <1>6, TxKinds DEF CommitWorkerFulfil, FulfilTx
  <2>2. job' \in [Orders -> JobStates]
    BY <1>6, <2>1 DEF CommitWorkerFulfil, TypeOK, JobStates
  <2>. QED
    BY <1>4, <1>6, <2>1, <2>2, TypeGrant DEF CommitWorkerFulfil, TypeOK, TxTyped, admin
<1>7. ASSUME tx[Worker] # NoTx, FailJob(tx[Worker].of) \/ WorkerCrash,
             faults' \in Nat
      PROVE  TypeOK'
  BY <1>2, <1>4, <1>7 DEF FailJob, WorkerCrash, TypeOK, TxTyped, JobStates, admin
<1>8. CASE WorkerRaises \/ WorkerFault \/ WorkerCrash
  BY <1>7, <1>8 DEF WorkerRaises, WorkerFault, WorkerCrash, TypeOK
<1>. QED
  BY <1>3, <1>5, <1>6, <1>8 DEF WorkerStep

LEMMA TypeNext == TypeOK /\ [Next]_vars => TypeOK'
<1> SUFFICES ASSUME TypeOK, [Next]_vars PROVE TypeOK'
  OBVIOUS
<1>1. ASSUME NEW o \in Orders, CreateOrder(o) PROVE TypeOK'
  BY <1>1 DEF CreateOrder, TypeOK, OrderStates, PaymentStates, admin
<1>2. ASSUME NEW s \in Sessions, NEW o \in Orders, AdminFulfil(s, o) PROVE TypeOK'
  <2>1. s \in Open
    BY DEF Open
  <2>. QED
    BY <1>2, <2>1, TypeReadFulfil DEF AdminFulfil
<1>3. ASSUME NEW v \in Versions, RepointProduct(v) PROVE TypeOK'
  BY <1>3 DEF RepointProduct, TypeOK, shop
<1>4. CASE ToggleSale
  BY <1>4 DEF ToggleSale, TypeOK, shop
<1>5. CASE UNCHANGED vars
  BY <1>5 DEF vars, shop, admin, TypeOK
<1>. QED
  BY <1>1, <1>2, <1>3, <1>4, <1>5, TypeEvent, TypeAdminCommit, TypeWorker DEF Next

(* Every column and every open transaction keeps its type.                  *)
THEOREM TypeCorrect == Spec => []TypeOK
BY TypeInit, TypeNext, PTL DEF Spec

-----------------------------------------------------------------------------

(* A step that closes a transaction, or opens one whose snapshot is sound,  *)
(* and takes no order, job or entitlement back.                             *)
LEMMA SafetyFrame ==
  ASSUME TypeOK, SafetyInv, UNCHANGED <<order, rows, payment, paid>>,
         \A o \in Orders : job[o] # "ABSENT" => job'[o] # "ABSENT",
         \A s \in Open : tx'[s] = tx[s] \/ tx'[s].kind \in {"none", "claimed"}
  PROVE  SafetyInv'
<1>1. \A s \in Open : /\ tx[s].kind = "event" => tx[s].event.charge \in Orders
                      /\ tx[s].kind = "fulfil" => tx[s].of \in Orders
  BY TxKinds DEF EventTx, FulfilTx
<1>2. SnapshotsSound'
  BY <1>1 DEF SafetyInv, SnapshotsSound
<1>3. (OneEntitlement /\ PaidHasJob /\ FulfilledHasAccess)'
  BY DEF SafetyInv, OneEntitlement, PaidHasJob, FulfilledHasAccess, Settled
<1>. QED
  BY <1>2, <1>3 DEF SafetyInv

LEMMA SafetyRead ==
  ASSUME TypeOK, SafetyInv, NEW s \in Open,
         \/ \E e \in Events : ReadEvent(s, e)
         \/ \E o \in Orders : CanFulfil(o) /\ ReadFulfil(s, o)
  PROVE  SafetyInv'
<1>1. UNCHANGED <<order, rows, job, payment, paid>>
  BY DEF ReadEvent, ReadFulfil, shop
<1>2. CASE \E e \in Events : ReadEvent(s, e)
  <2>1. PICK e \in Events : ReadEvent(s, e)
    BY <1>2
  <2>2. e.charge \in Orders /\ payment[e.charge] # "ABSENT"
    BY <2>1 DEF ReadEvent, Fresh
  <2>3. SnapshotsSound'
    BY <1>1, <2>1, <2>2 DEF ReadEvent, SafetyInv, SnapshotsSound, TypeOK, Settled
  <2>. QED
    BY <1>1, <2>3 DEF SafetyInv, OneEntitlement, PaidHasJob, FulfilledHasAccess
<1>3. CASE \E o \in Orders : CanFulfil(o) /\ ReadFulfil(s, o)
  <2>1. PICK o \in Orders : CanFulfil(o) /\ ReadFulfil(s, o)
    BY <1>3
  <2>2. SnapshotsSound'
    BY <1>1, <2>1 DEF ReadFulfil, CanFulfil, SafetyInv, SnapshotsSound,
       FulfilledHasAccess, TypeOK
  <2>. QED
    BY <1>1, <2>2 DEF SafetyInv, OneEntitlement, PaidHasJob, FulfilledHasAccess
<1>. QED
  BY <1>2, <1>3

LEMMA SafetyCreate ==
  ASSUME TypeOK, SafetyInv, NEW o \in Orders, CreateOrder(o)
  PROVE  SafetyInv'
<1>1. \A s \in Open : /\ tx[s].kind = "event" => tx[s].event.charge \in Orders
                      /\ tx[s].kind = "fulfil" => tx[s].of \in Orders
  BY TxKinds DEF EventTx, FulfilTx
<1>2. SnapshotsSound'
  BY <1>1 DEF CreateOrder, SafetyInv, SnapshotsSound, TypeOK, Settled
<1>. QED
  BY <1>2 DEF CreateOrder, SafetyInv, OneEntitlement, PaidHasJob, FulfilledHasAccess,
              TypeOK, Settled

LEMMA SafetyCommitEvent ==
  ASSUME TypeOK, SafetyInv, NEW s \in Sessions, CommitEvent(s)
  PROVE  SafetyInv'
<1> DEFINE t == tx[s]
           o == t.event.charge
           target == TargetOf(t.event.status)
<1>1. s \in Open /\ t \in EventTx /\ o \in Orders /\ order[o] # "ABSENT"
  BY TxKinds DEF CommitEvent, Open, EventTx, SafetyInv, SnapshotsSound
<1>2. \A r \in Open : /\ tx[r].kind = "event" => tx[r].event.charge \in Orders
                      /\ tx[r].kind = "fulfil" => tx[r].of \in Orders
  BY TxKinds DEF EventTx, FulfilTx
<1>3. \A r \in Open : tx'[r] = tx[r] \/ tx'[r].kind = "none"
  BY <1>1 DEF CommitEvent, Close, TypeOK, NoTx
<1>4. target # "ABSENT" /\ payment[o] # "ABSENT"
  BY <1>1 DEF TargetOf, SafetyInv
<1>5. /\ UNCHANGED rows
      /\ \A p \in Orders \ {o} : /\ order'[p] = order[p] /\ payment'[p] = payment[p]
                                 /\ job'[p] = job[p]
      /\ \A p \in paid : p \in paid'
      /\ payment'[o] # "ABSENT"
      /\ job[o] # "ABSENT" => job'[o] # "ABSENT"
      /\ \/ order'[o] = order[o]
         \/ order'[o] = "PAID" /\ o \in paid' /\ job'[o] # "ABSENT"
  BY <1>1, <1>4 DEF CommitEvent, Confirm, JobConflict, TypeOK, shop,
     EventTx, SafetyInv, SnapshotsSound
<1>6. SnapshotsSound'
  BY <1>1, <1>2, <1>3, <1>5 DEF SafetyInv, SnapshotsSound, Settled
<1>7. (PaidHasJob /\ FulfilledHasAccess /\ OneEntitlement)'
  BY <1>1, <1>5 DEF SafetyInv, PaidHasJob, FulfilledHasAccess, OneEntitlement, Settled
<1>. QED
  BY <1>1, <1>5, <1>6, <1>7 DEF SafetyInv, Settled

(* The commit of a fulfilment, by the admin route or by the worker.         *)
LEMMA SafetyGrant ==
  ASSUME TypeOK, SafetyInv, NEW s \in Open, tx[s] \in FulfilTx,
         ~ItemConflict(tx[s]), Grant(tx[s]), Close(s), UNCHANGED <<payment, paid>>,
         \A p \in Orders : job[p] # "ABSENT" => job'[p] # "ABSENT"
  PROVE  SafetyInv'
<1> DEFINE t == tx[s]
           o == t.of
<1>1. o \in Orders /\ order[o] \in Settled /\ t.order \in Settled
  BY DEF FulfilTx, SafetyInv, SnapshotsSound
<1>2. \A r \in Open : /\ tx[r].kind = "event" => tx[r].event.charge \in Orders
                      /\ tx[r].kind = "fulfil" => tx[r].of \in Orders
  BY TxKinds DEF EventTx, FulfilTx
<1>3. \A r \in Open : tx'[r] = tx[r] \/ tx'[r].kind = "none"
  BY DEF Close, TypeOK, NoTx
<1>4. rows[o] \in Nat
  BY <1>1 DEF TypeOK
<1>5. /\ \A p \in Orders \ {o} : order'[p] = order[p] /\ rows'[p] = rows[p]
      /\ order'[o] \in Settled
      /\ order'[o] = "FULFILLED" => rows'[o] = 1
      /\ rows'[o] <= 1 /\ rows'[o] >= rows[o]
  <2>1. CASE t.order = "FULFILLED"
    BY <1>1, <1>4, <2>1 DEF Grant, SafetyInv, OneEntitlement, SnapshotsSound, FulfilTx
  <2>2. CASE t.order # "FULFILLED"
    <3>1. t.order = "PAID"
      BY <1>1, <2>2 DEF Settled
    <3>2. order' = [order EXCEPT ![o] = "FULFILLED"]
      BY <2>2 DEF Grant
    <3>3. CASE t.entitled
      BY <1>1, <1>4, <2>2, <3>2, <3>3 DEF Grant, SafetyInv, OneEntitlement,
         SnapshotsSound, FulfilTx, Settled, TypeOK
    <3>4. CASE ~t.entitled
      <4>1. rows[o] = 0
        BY <1>4, <3>1, <3>4 DEF ItemConflict
      <4>. QED
        BY <1>1, <2>2, <3>2, <3>4, <4>1 DEF Grant, Settled, TypeOK
    <3>. QED
      BY <3>3, <3>4
  <2>. QED
    BY <2>1, <2>2
<1>6. \A p \in Orders : rows[p] \in Nat /\ rows'[p] \in Nat
  BY TypeGrant DEF TypeOK
<1>7. SnapshotsSound'
  BY <1>1, <1>2, <1>3, <1>5, <1>6 DEF SafetyInv, SnapshotsSound, Settled
<1>8. (PaidHasJob /\ FulfilledHasAccess /\ OneEntitlement)'
  BY <1>1, <1>5, <1>6 DEF SafetyInv, PaidHasJob, FulfilledHasAccess, OneEntitlement, Settled
<1>. QED
  BY <1>1, <1>5, <1>6, <1>7, <1>8 DEF SafetyInv, Settled

LEMMA SafetyNext == TypeOK /\ SafetyInv /\ [Next]_vars => SafetyInv'
<1> SUFFICES ASSUME TypeOK, SafetyInv, [Next]_vars PROVE SafetyInv'
  OBVIOUS
<1>0. Worker \in Open /\ Sessions \subseteq Open
  BY DEF Open
<1>1. ASSUME NEW s \in Sessions, CommitAdminFulfil(s) PROVE SafetyInv'
  <2>1. s \in Open /\ tx[s] \in FulfilTx
    BY <1>0, <1>1, TxKinds DEF CommitAdminFulfil
  <2>2. CASE ItemConflict(tx[s])
    <3>1. \A r \in Open : tx'[r] = tx[r] \/ tx'[r].kind \in {"none", "claimed"}
      BY <1>1 DEF CommitAdminFulfil, Close, TypeOK, NoTx
    <3>. QED
      BY <1>1, <2>2, <3>1, SafetyFrame DEF CommitAdminFulfil
  <2>3. CASE ~ItemConflict(tx[s])
    BY <1>1, <2>1, <2>3, SafetyGrant DEF CommitAdminFulfil
  <2>. QED
    BY <2>2, <2>3
<1>2. CASE CommitWorkerFulfil
  <2>1. tx[Worker] \in FulfilTx /\ tx[Worker].of \in Orders
    BY <1>0, <1>2, TxKinds DEF CommitWorkerFulfil, FulfilTx
  <2>2. \A p \in Orders : job[p] # "ABSENT" => job'[p] # "ABSENT"
    BY <1>2 DEF CommitWorkerFulfil, TypeOK
  <2>. QED
    BY <1>0, <1>2, <2>1, <2>2, SafetyGrant DEF CommitWorkerFulfil
<1>3. ASSUME (\E o \in Orders : ClaimJob(o)) \/ WorkerRaises \/ WorkerFault \/ WorkerCrash
      PROVE  SafetyInv'
  <2>1. UNCHANGED <<order, rows, payment, paid>>
    BY <1>3 DEF ClaimJob, WorkerRaises, WorkerFault, WorkerCrash, FailJob
  <2>2. \A p \in Orders : job[p] # "ABSENT" => job'[p] # "ABSENT"
    BY <1>3 DEF ClaimJob, WorkerRaises, WorkerFault, WorkerCrash, FailJob, TypeOK
  <2>3. \A r \in Open : tx'[r] = tx[r] \/ tx'[r].kind \in {"none", "claimed"}
    BY <1>3 DEF ClaimJob, WorkerRaises, WorkerFault, WorkerCrash, FailJob, Close,
                TypeOK, NoTx
  <2>. QED
    BY <2>1, <2>2, <2>3, SafetyFrame
<1>4. ASSUME UNCHANGED <<shop, tx, paid>> PROVE SafetyInv'
  BY <1>4, SafetyFrame DEF shop
<1>5. ASSUME NEW s \in Sessions,
             \/ \E e \in Events : ReadEvent(s, e)
             \/ \E o \in Orders : AdminFulfil(s, o)
      PROVE  SafetyInv'
  BY <1>0, <1>5, SafetyRead DEF AdminFulfil
<1>6. CASE WorkerFulfil
  <2>1. tx[Worker].of \in Orders
    BY <1>0, <1>6, TxKinds DEF WorkerFulfil, ClaimTx
  <2>. QED
    BY <1>0, <1>6, <2>1, SafetyRead DEF WorkerFulfil
<1>7. ASSUME \/ \E s \in Sessions, e \in Events : RefuseEvent(s, e)
             \/ \E v \in Versions : RepointProduct(v)
             \/ ToggleSale
             \/ UNCHANGED vars
      PROVE  SafetyInv'
  BY <1>4, <1>7 DEF RefuseEvent, RepointProduct, ToggleSale, vars
<1>. QED
  BY <1>1, <1>2, <1>3, <1>5, <1>6, <1>7, SafetyCreate, SafetyCommitEvent
     DEF Next, WorkerStep

LEMMA SafetyInvariant == Spec => []SafetyInv
<1>1. Init => SafetyInv
  BY DEF Init, SafetyInv, SnapshotsSound, OneEntitlement, PaidHasJob,
         FulfilledHasAccess, NoTx, Settled
<1>. QED
  BY <1>1, SafetyNext, TypeCorrect, PTL DEF Spec

(* No entitlement without a committed confirmation of its order.            *)
THEOREM PaidAccess == Spec => []AccessWasPaid
<1>1. SafetyInv => AccessWasPaid
  BY DEF SafetyInv, AccessWasPaid
<1>. QED
  BY <1>1, SafetyInvariant, PTL

(* At most one entitlement per order item.                                  *)
THEOREM SingleAccess == Spec => []OneEntitlement
BY SafetyInvariant, PTL DEF SafetyInv

(* A paid order always has its fulfilment job.                              *)
THEOREM JobForPaid == Spec => []PaidHasJob
BY SafetyInvariant, PTL DEF SafetyInv

-----------------------------------------------------------------------------
(* The refinement: what each commit does to the phase of its order.         *)

LEMMA PhaseStutter ==
  ASSUME UNCHANGED <<order, rows>>
  PROVE  UNCHANGED Phase
BY DEF Phase

LEMMA PhaseStep ==
  ASSUME NEW o \in Orders, Phase' = [Phase EXCEPT ![o] = Phase'[o]],
         \/ Phase'[o] = Phase[o]
         \/ <<Phase[o], Phase'[o]>> \in {<<"none", "open">>, <<"open", "paid">>,
                                        <<"paid", "granted">>}
  PROVE  [P!Next]_Phase
<1>1. CASE Phase'[o] = Phase[o]
  <2>1. [Phase EXCEPT ![o] = Phase[o]] = Phase
    BY DEF Phase
  <2> QED
    BY <1>1, <2>1
<1>2. CASE Phase[o] = "none" /\ Phase'[o] = "open"
  <2>1. P!Open(o)
    BY <1>2 DEF P!Open, P!Advance
  <2> QED
    BY <2>1 DEF P!Next
<1>3. CASE Phase[o] = "open" /\ Phase'[o] = "paid"
  <2>1. P!Pay(o)
    BY <1>3 DEF P!Pay, P!Advance
  <2> QED
    BY <2>1 DEF P!Next
<1>4. CASE Phase[o] = "paid" /\ Phase'[o] = "granted"
  <2>1. P!Grant(o)
    BY <1>4 DEF P!Grant, P!Advance
  <2> QED
    BY <2>1 DEF P!Next
<1> QED
  BY <1>1, <1>2, <1>3, <1>4

(* Only the row of o changed, so only its phase did.                        *)
LEMMA PhaseLocal ==
  ASSUME NEW o \in Orders,
         \A p \in Orders \ {o} : order'[p] = order[p] /\ rows'[p] = rows[p]
  PROVE  Phase' = [Phase EXCEPT ![o] = Phase'[o]]
BY DEF Phase

LEMMA PhaseCommitEvent ==
  ASSUME TypeOK, SafetyInv, NEW s \in Sessions, CommitEvent(s)
  PROVE  [P!Next]_Phase
<1> DEFINE o == tx[s].event.charge
<1>1. o \in Orders /\ order[o] # "ABSENT" /\ order[o] \in OrderStates /\ rows[o] \in Nat
  BY TxKinds DEF CommitEvent, Open, EventTx, SafetyInv, SnapshotsSound, TypeOK
<1>2. /\ \A p \in Orders \ {o} : order'[p] = order[p] /\ rows'[p] = rows[p]
      /\ rows'[o] = rows[o]
      /\ order'[o] = order[o] \/ order'[o] = "PAID"
  BY <1>1 DEF CommitEvent, Confirm, TypeOK, shop
<1>3. \/ Phase'[o] = Phase[o]
      \/ Phase[o] = "open" /\ Phase'[o] = "paid"
  BY <1>1, <1>2 DEF Phase, OrderStates, Settled
<1>. QED
  BY <1>1, <1>2, <1>3, PhaseLocal, PhaseStep

LEMMA PhaseGrant ==
  ASSUME TypeOK, SafetyInv, NEW s \in Open, tx[s] \in FulfilTx, Grant(tx[s])
  PROVE  [P!Next]_Phase
<1> DEFINE o == tx[s].of
<1>1. o \in Orders /\ order[o] \in Settled /\ rows[o] \in Nat
  BY DEF FulfilTx, SafetyInv, SnapshotsSound, TypeOK
<1>2. /\ \A p \in Orders \ {o} : order'[p] = order[p] /\ rows'[p] = rows[p]
      /\ order'[o] \in Settled
      /\ rows'[o] = rows[o] \/ rows'[o] = rows[o] + 1
  BY <1>1 DEF Grant, TypeOK, Settled
<1>3. \/ Phase'[o] = Phase[o]
      \/ Phase[o] = "paid" /\ Phase'[o] = "granted"
  BY <1>1, <1>2 DEF Phase
<1>. QED
  BY <1>1, <1>2, <1>3, PhaseLocal, PhaseStep

LEMMA PhaseCreate ==
  ASSUME TypeOK, SafetyInv, NEW o \in Orders, CreateOrder(o)
  PROVE  [P!Next]_Phase
<1>1. rows[o] = 0
  BY DEF CreateOrder, SafetyInv, TypeOK, Settled
<1>2. /\ \A p \in Orders \ {o} : order'[p] = order[p] /\ rows'[p] = rows[p]
      /\ order'[o] = "PAYMENT_PENDING" /\ rows'[o] = 0
  BY <1>1 DEF CreateOrder, TypeOK
<1>3. Phase[o] = "none" /\ Phase'[o] = "open"
  BY <1>1, <1>2 DEF Phase, CreateOrder, Settled
<1>. QED
  BY <1>2, <1>3, PhaseLocal, PhaseStep

LEMMA PhaseNext == TypeOK /\ SafetyInv /\ [Next]_vars => [P!Next]_Phase
<1> SUFFICES ASSUME TypeOK, SafetyInv, [Next]_vars PROVE [P!Next]_Phase
  OBVIOUS
<1>0. Worker \in Open /\ Sessions \subseteq Open
  BY DEF Open
<1>1. ASSUME NEW s \in Sessions, CommitAdminFulfil(s) PROVE [P!Next]_Phase
  <2>1. tx[s] \in FulfilTx
    BY <1>0, <1>1, TxKinds DEF CommitAdminFulfil
  <2>. QED
    BY <1>0, <1>1, <2>1, PhaseGrant, PhaseStutter DEF CommitAdminFulfil
<1>2. CASE CommitWorkerFulfil
  <2>1. tx[Worker] \in FulfilTx
    BY <1>0, <1>2, TxKinds DEF CommitWorkerFulfil
  <2>. QED
    BY <1>0, <1>2, <2>1, PhaseGrant DEF CommitWorkerFulfil
<1>3. ASSUME \/ \E o \in Orders : ClaimJob(o)
             \/ WorkerRaises \/ WorkerFault \/ WorkerCrash \/ WorkerFulfil
             \/ \E s \in Sessions : \/ \E e \in Events : ReadEvent(s, e) \/ RefuseEvent(s, e)
                                    \/ \E o \in Orders : AdminFulfil(s, o)
             \/ \E v \in Versions : RepointProduct(v)
             \/ ToggleSale
             \/ UNCHANGED vars
      PROVE  [P!Next]_Phase
  <2>1. UNCHANGED <<order, rows>>
    BY <1>3 DEF ClaimJob, WorkerRaises, WorkerFault, WorkerCrash, WorkerFulfil, FailJob,
       ReadEvent, RefuseEvent, AdminFulfil, ReadFulfil, RepointProduct, ToggleSale,
       vars, shop
  <2>. QED
    BY <2>1, PhaseStutter
<1>. QED
  BY <1>1, <1>2, <1>3, PhaseCommitEvent, PhaseCreate DEF Next, WorkerStep

(* Orders, payments, events, jobs and entitlements together implement the   *)
(* promise of Purchase, however requests and the worker overlap.            *)
THEOREM Refinement == Spec => ImplementsPurchase
<1>1. Init => P!Init
  BY DEF Init, P!Init, Phase, Settled
<1>. QED
  BY <1>1, PhaseNext, SafetyInvariant, TypeCorrect, PTL DEF Spec, ImplementsPurchase, P!Spec

-----------------------------------------------------------------------------
(* Until two transactions have overlapped.  A single open transaction finds *)
(* the rows as it read them, so that the checks it made still hold when it  *)
(* commits: that is what makes payment and order agree, and what            *)
(* overlapping transactions lose.                                           *)

SerialInv == SnapshotsFresh /\ SerialPaymentMatchesOrder

LEMMA OpenedKinds ==
  ASSUME TypeOK, NEW s \in Open
  PROVE  /\ tx[s].kind = "event" => tx[s].event \in Events /\ tx[s].event.charge \in Orders
         /\ tx[s].kind = "fulfil" => tx[s].of \in Orders /\ tx[s].order \in Settled
BY TxKinds DEF EventTx, FulfilTx

(* The worker only works on jobs that there are.                            *)
WorkerHasJob == tx[Worker] # NoTx => job[tx[Worker].of] # "ABSENT"

LEMMA WorkerHasJobNext == TypeOK /\ WorkerHasJob /\ [Next]_vars => WorkerHasJob'
<1> SUFFICES ASSUME TypeOK, WorkerHasJob, [Next]_vars PROVE WorkerHasJob'
  OBVIOUS
<1>1. Worker \in Open /\ Worker \notin Sessions /\ Sessions \subseteq Open
  BY DEF Open
<1>2. tx[Worker] # NoTx => tx[Worker].of \in Orders
  BY <1>1, TxKinds DEF FulfilTx, ClaimTx, TypeOK
<1>3. CASE UNCHANGED <<tx, job>>
  BY <1>3 DEF WorkerHasJob
<1>4. ASSUME NEW s \in Sessions,
             \/ \E e \in Events : ReadEvent(s, e)
             \/ \E o \in Orders : AdminFulfil(s, o)
             \/ CommitAdminFulfil(s)
      PROVE  WorkerHasJob'
  <2>1. tx'[Worker] = tx[Worker] /\ UNCHANGED job
    BY <1>1, <1>4 DEF ReadEvent, AdminFulfil, ReadFulfil, CommitAdminFulfil, Close, TypeOK, shop
  <2> QED
    BY <2>1 DEF WorkerHasJob
<1>5. ASSUME NEW s \in Sessions, CommitEvent(s) PROVE WorkerHasJob'
  <2>1. tx'[Worker] = tx[Worker]
    BY <1>1, <1>5 DEF CommitEvent, Close, TypeOK
  <2>2. tx[s].event.charge \in Orders
    BY <1>1, <1>5, OpenedKinds DEF CommitEvent
  <2>3. \A o \in Orders : job[o] # "ABSENT" => job'[o] # "ABSENT"
    BY <1>5, <2>2 DEF CommitEvent, Confirm, TypeOK, shop
  <2> QED
    BY <1>2, <2>1, <2>3 DEF WorkerHasJob
<1>6. ASSUME NEW o \in Orders, ClaimJob(o) PROVE WorkerHasJob'
  BY <1>1, <1>6 DEF ClaimJob, TypeOK, WorkerHasJob
<1>7. CASE WorkerFulfil
  <2>1. tx'[Worker].of = tx[Worker].of /\ tx[Worker] # NoTx /\ UNCHANGED job
    BY <1>1, <1>7 DEF WorkerFulfil, ReadFulfil, TypeOK, NoTx, shop
  <2> QED
    BY <2>1 DEF WorkerHasJob
<1>8. CASE CommitWorkerFulfil \/ WorkerRaises \/ WorkerFault \/ WorkerCrash
  <2>1. tx'[Worker] = NoTx
    BY <1>1, <1>8 DEF CommitWorkerFulfil, WorkerRaises, WorkerFault, WorkerCrash, FailJob, Close, TypeOK
  <2> QED
    BY <2>1 DEF WorkerHasJob
<1> QED
  BY <1>3, <1>4, <1>5, <1>6, <1>7, <1>8
  DEF Next, WorkerStep, CreateOrder, RefuseEvent, RepointProduct, ToggleSale, vars, shop

(* What is open after the step was open before, and nothing it read has     *)
(* changed since.                                                           *)
LEMMA SerialFrame ==
  ASSUME TypeOK, SerialInv, ~overlapped, UNCHANGED <<order, payment>>,
         \A o \in Orders : job'[o] # "ABSENT" <=> job[o] # "ABSENT",
         \A s \in Open : tx'[s] = tx[s] \/ tx'[s].kind \in {"none", "claimed"}
  PROVE  SerialInv' /\ OrdersAdvance
<1>1. Opened' \subseteq Opened /\ \A s \in Opened' : tx'[s] = tx[s]
  BY DEF Opened
<1>2. SnapshotsFresh'
  <2>1. \A s, t \in Opened' : s = t
    BY <1>1 DEF SerialInv, SnapshotsFresh
  <2>2. ASSUME NEW s \in Opened' PROVE StillTrue(tx[s])'
    <3>1. tx'[s] = tx[s] /\ s \in Open /\ StillTrue(tx[s])
      BY <1>1 DEF SerialInv, SnapshotsFresh, Opened
    <3>2. tx[s].kind = "event" => tx[s].event.charge \in Orders
      BY <3>1, OpenedKinds
    <3> QED
      BY <3>1, <3>2 DEF StillTrue, Accepts
  <2> QED
    BY <2>1, <2>2 DEF SnapshotsFresh
<1>3. PaymentMatchesOrder'
  BY DEF SerialInv, SerialPaymentMatchesOrder, PaymentMatchesOrder
<1>4. OrdersAdvance
  BY DEF OrdersAdvance, OrderRank, TypeOK
<1> QED
  BY <1>2, <1>3, <1>4 DEF SerialInv, SerialPaymentMatchesOrder

(* A transaction opens, alone, and has just looked.                         *)
LEMMA SerialRead ==
  ASSUME TypeOK, SerialInv, ~overlapped, NEW s \in Open,
         \/ \E e \in Events : ReadEvent(s, e)
         \/ \E o \in Orders : CanFulfil(o) /\ ReadFulfil(s, o),
         \A r, t \in Opened' : r = t
  PROVE  SerialInv' /\ OrdersAdvance
<1>1. UNCHANGED <<order, payment, job>>
  BY DEF ReadEvent, ReadFulfil, shop
<1>2. s \in Opened'
  BY DEF ReadEvent, ReadFulfil, TypeOK, Opened
<1>3. StillTrue(tx[s])'
  <2>1. CASE \E e \in Events : ReadEvent(s, e)
    <3>1. PICK e \in Events : ReadEvent(s, e)
      BY <2>1
    <3> DEFINE t == [kind |-> "event", event |-> e, payment |-> payment[e.charge],
                     order |-> order[e.charge], job |-> job[e.charge] # "ABSENT"]
    <3>2. tx'[s] = t /\ Accepts(e)
      BY <3>1 DEF ReadEvent, TypeOK
    <3>3. Accepts(e)'
      BY <1>1, <3>2 DEF Accepts
    <3>4. /\ tx'[s].kind = "event" /\ tx'[s].event = e /\ tx'[s].payment = payment[e.charge]
          /\ tx'[s].order = order[e.charge]
      BY <3>2
    <3>5. tx'[s].job = (job[e.charge] # "ABSENT")
      BY <3>2
    <3>6. Accepts(tx[s].event)'
      BY <3>3, <3>4 DEF Accepts
    <3> QED
      BY <1>1, <3>4, <3>5, <3>6 DEF StillTrue
  <2>2. CASE \E o \in Orders : CanFulfil(o) /\ ReadFulfil(s, o)
    <3>1. PICK o \in Orders : ReadFulfil(s, o)
      BY <2>2
    <3>2. tx'[s].kind = "fulfil" /\ tx'[s].of = o /\ tx'[s].order = order[o]
      BY <3>1 DEF ReadFulfil, TypeOK
    <3> QED
      BY <1>1, <3>2 DEF StillTrue
  <2> QED
    BY <2>1, <2>2
<1>4. PaymentMatchesOrder' /\ OrdersAdvance
  BY <1>1 DEF SerialInv, SerialPaymentMatchesOrder, PaymentMatchesOrder, OrdersAdvance, OrderRank, TypeOK
<1> QED
  BY <1>2, <1>3, <1>4 DEF SerialInv, SnapshotsFresh, SerialPaymentMatchesOrder

(* The open transaction closes, and nothing is open.                        *)
LEMMA SerialClose ==
  ASSUME TypeOK, SerialInv, ~overlapped, NEW s \in Opened, Close(s), PaymentMatchesOrder'
  PROVE  SerialInv'
<1>1. s \in Open /\ \A r \in Open : r # s => tx[r].kind \notin {"event", "fulfil"}
  BY DEF SerialInv, SnapshotsFresh, Opened
<1>2. \A r \in Open : tx'[r].kind \notin {"event", "fulfil"}
  BY <1>1 DEF Close, TypeOK, NoTx
<1> QED
  BY <1>2 DEF SerialInv, SnapshotsFresh, SerialPaymentMatchesOrder, Opened

LEMMA SerialCommitEvent ==
  ASSUME TypeOK, SafetyInv, SerialInv, ~overlapped, NEW s \in Sessions, CommitEvent(s)
  PROVE  SerialInv' /\ OrdersAdvance
<1> DEFINE t == tx[s]
           o == t.event.charge
           target == TargetOf(t.event.status)
<1>1. s \in Opened /\ s \in Open /\ t \in EventTx /\ o \in Orders /\ Close(s)
  BY TxKinds DEF CommitEvent, Open, Opened, EventTx
<1>2. /\ t.payment = payment[o] /\ t.order = order[o] /\ (t.job <=> job[o] # "ABSENT")
      /\ MayMove(payment[o], target) /\ (target = "CONFIRMED" => MayPay(order[o]))
  BY <1>1 DEF CommitEvent, SerialInv, SnapshotsFresh, StillTrue, Accepts
<1>3. PaymentMatchesOrder
  BY DEF SerialInv, SerialPaymentMatchesOrder
<1>4. CASE t.event \in recorded
  <2>1. UNCHANGED <<order, payment>>
    BY <1>4 DEF CommitEvent, shop
  <2>2. PaymentMatchesOrder' /\ OrdersAdvance
    BY <1>3, <2>1 DEF PaymentMatchesOrder, OrdersAdvance, OrderRank, TypeOK
  <2> QED
    BY <1>1, <2>2, SerialClose
<1>5. CASE t.event \notin recorded
  <2>1. ~JobConflict(t, o)
    BY <1>2 DEF JobConflict
  <2>2. /\ payment' = IF target = payment[o] THEN payment ELSE [payment EXCEPT ![o] = target]
        /\ IF target = "CONFIRMED" THEN Confirm(t, o) ELSE UNCHANGED <<order, job, paid>>
    BY <1>2, <1>5, <2>1 DEF CommitEvent
  <2>3. payment'[o] = target /\ \A p \in Orders \ {o} : payment'[p] = payment[p]
    BY <1>1, <2>2 DEF TypeOK
  <2>4. CASE target = "CONFIRMED"
    <3>1. order' = IF order[o] = "PAID" THEN order ELSE [order EXCEPT ![o] = "PAID"]
      BY <1>2, <2>2, <2>4 DEF Confirm
    <3>2. order[o] \in {"PAYMENT_PENDING", "PAID"}
      BY <1>2, <2>4 DEF MayPay
    <3>3. order'[o] = "PAID" /\ \A p \in Orders \ {o} : order'[p] = order[p]
      BY <1>1, <3>1 DEF TypeOK
    <3>4. PaymentMatchesOrder'
      BY <1>3, <2>3, <2>4, <3>3 DEF PaymentMatchesOrder, Settled
    <3>5. OrdersAdvance
      BY <3>2, <3>3 DEF OrdersAdvance, OrderRank, TypeOK
    <3> QED
      BY <1>1, <3>4, <3>5, SerialClose
  <2>5. CASE target # "CONFIRMED"
    <3>1. payment[o] # "CONFIRMED"
      BY <1>2, <2>5 DEF MayMove, PaymentMoves
    <3>2. order' = order
      BY <2>2, <2>5
    <3>3. PaymentMatchesOrder'
      BY <1>3, <2>3, <2>5, <3>1, <3>2 DEF PaymentMatchesOrder
    <3>4. OrdersAdvance
      BY <3>2 DEF OrdersAdvance, OrderRank, TypeOK
    <3> QED
      BY <1>1, <3>3, <3>4, SerialClose
  <2> QED
    BY <2>4, <2>5
<1> QED
  BY <1>4, <1>5

LEMMA SerialGrant ==
  ASSUME TypeOK, SafetyInv, SerialInv, ~overlapped, NEW s \in Open, tx[s].kind = "fulfil",
         Grant(tx[s]) \/ UNCHANGED order, Close(s), UNCHANGED payment
  PROVE  SerialInv' /\ OrdersAdvance
<1> DEFINE o == tx[s].of
<1>1. s \in Opened /\ o \in Orders /\ tx[s].order \in Settled /\ order[o] = tx[s].order
  BY OpenedKinds DEF Opened, SerialInv, SnapshotsFresh, StillTrue
<1>2. /\ order'[o] \in Settled /\ (order[o] = "FULFILLED" => order'[o] = "FULFILLED")
      /\ \A p \in Orders \ {o} : order'[p] = order[p]
  BY <1>1 DEF Grant, Settled, TypeOK
<1>3. PaymentMatchesOrder'
  BY <1>1, <1>2 DEF SerialInv, SerialPaymentMatchesOrder, PaymentMatchesOrder
<1>4. OrdersAdvance
  BY <1>1, <1>2 DEF OrdersAdvance, OrderRank, Settled, TypeOK
<1> QED
  BY <1>1, <1>3, <1>4, SerialClose

LEMMA SerialCreate ==
  ASSUME TypeOK, SafetyInv, SerialInv, ~overlapped, NEW o \in Orders, CreateOrder(o)
  PROVE  SerialInv' /\ OrdersAdvance
<1>1. UNCHANGED <<tx, job>> /\ order[o] = "ABSENT"
      /\ \A p \in Orders : /\ order'[p] = IF p = o THEN "PAYMENT_PENDING" ELSE order[p]
                           /\ payment'[p] = IF p = o THEN "PENDING" ELSE payment[p]
  BY DEF CreateOrder, TypeOK
<1>2. \A s \in Open : /\ tx[s].kind = "event" => tx[s].event.charge \in Orders \ {o}
                      /\ tx[s].kind = "fulfil" => tx[s].of \in Orders \ {o}
  BY <1>1, OpenedKinds DEF SafetyInv, SnapshotsSound, Settled
<1>3. SnapshotsFresh'
  BY <1>1, <1>2 DEF SerialInv, SnapshotsFresh, StillTrue, Opened, Accepts
<1>4. PaymentMatchesOrder' /\ OrdersAdvance
  BY <1>1 DEF SerialInv, SerialPaymentMatchesOrder, PaymentMatchesOrder, Settled,
     OrdersAdvance, OrderRank, TypeOK
<1> QED
  BY <1>3, <1>4 DEF SerialInv, SerialPaymentMatchesOrder

LEMMA SerialStep ==
  ASSUME TypeOK, SafetyInv, WorkerHasJob, SerialInv, OverlapNext, ~overlapped'
  PROVE  SerialInv' /\ OrdersAdvance
<1>1. Next /\ ~overlapped /\ \A s, t \in Opened' : s = t
  BY DEF OverlapNext
<1>2. Worker \in Open /\ Sessions \subseteq Open
  BY DEF Open
<1>3. ASSUME NEW s \in Sessions, CommitAdminFulfil(s) PROVE SerialInv' /\ OrdersAdvance
  BY <1>1, <1>2, <1>3, SerialGrant DEF CommitAdminFulfil
<1>4. CASE CommitWorkerFulfil
  BY <1>1, <1>2, <1>4, SerialGrant DEF CommitWorkerFulfil
<1>5. ASSUME NEW s \in Sessions,
             \/ \E e \in Events : ReadEvent(s, e)
             \/ \E o \in Orders : AdminFulfil(s, o)
      PROVE  SerialInv' /\ OrdersAdvance
  BY <1>1, <1>2, <1>5, SerialRead DEF AdminFulfil
<1>6. CASE WorkerFulfil
  <2>1. tx[Worker].of \in Orders
    BY <1>2, <1>6, TxKinds DEF WorkerFulfil, ClaimTx
  <2> QED
    BY <1>1, <1>2, <1>6, <2>1, SerialRead DEF WorkerFulfil
<1>7. ASSUME (\E o \in Orders : ClaimJob(o)) \/ WorkerRaises \/ WorkerFault \/ WorkerCrash
      PROVE  SerialInv' /\ OrdersAdvance
  <2>1. UNCHANGED <<order, payment>>
    BY <1>7 DEF ClaimJob, WorkerRaises, WorkerFault, WorkerCrash, FailJob
  <2>2. \A r \in Open : tx'[r] = tx[r] \/ tx'[r].kind \in {"none", "claimed"}
    BY <1>7 DEF ClaimJob, WorkerRaises, WorkerFault, WorkerCrash, FailJob, Close, TypeOK, NoTx
  <2>3. \A o \in Orders : job'[o] # "ABSENT" <=> job[o] # "ABSENT"
    <3>1. CASE \E o \in Orders : ClaimJob(o)
      BY <3>1 DEF ClaimJob, TypeOK
    <3>2. CASE WorkerRaises \/ WorkerFault \/ WorkerCrash
      <4>1. tx[Worker] # NoTx
        BY <3>2 DEF WorkerRaises, WorkerFault, WorkerCrash
      <4>2. tx[Worker].of \in Orders /\ job[tx[Worker].of] # "ABSENT"
        BY <1>2, <4>1, TxKinds DEF TypeOK, FulfilTx, ClaimTx, WorkerHasJob
      <4> QED
        BY <3>2, <4>2 DEF WorkerRaises, WorkerFault, WorkerCrash, FailJob, TypeOK
    <3> QED
      BY <1>7, <3>1, <3>2
  <2> QED
    BY <1>1, <2>1, <2>2, <2>3, SerialFrame
<1>8. ASSUME \/ \E s \in Sessions, e \in Events : RefuseEvent(s, e)
             \/ \E v \in Versions : RepointProduct(v)
             \/ ToggleSale
      PROVE  SerialInv' /\ OrdersAdvance
  BY <1>1, <1>8, SerialFrame DEF RefuseEvent, RepointProduct, ToggleSale, shop
<1> QED
  BY <1>1, <1>3, <1>4, <1>5, <1>6, <1>7, <1>8, SerialCreate, SerialCommitEvent
     DEF Next, WorkerStep

OverlapInv == TypeOK /\ SafetyInv /\ WorkerHasJob /\ SerialInv

LEMMA OverlapInvInit == OverlapInit => OverlapInv
<1> SUFFICES ASSUME OverlapInit PROVE OverlapInv
  OBVIOUS
<1>1. Init /\ \A s \in Open : tx[s] = NoTx
  BY DEF OverlapInit, Init
<1>2. SafetyInv
  BY <1>1 DEF Init, SafetyInv, SnapshotsSound, OneEntitlement, PaidHasJob,
     FulfilledHasAccess, NoTx, Settled
<1>3. WorkerHasJob
  BY <1>1 DEF WorkerHasJob, Open
<1>4. SnapshotsFresh
  BY <1>1 DEF SnapshotsFresh, Opened, NoTx
<1>5. SerialPaymentMatchesOrder
  BY <1>1 DEF Init, SerialPaymentMatchesOrder, PaymentMatchesOrder, Settled
<1> QED
  BY <1>1, <1>2, <1>3, <1>4, <1>5, TypeInit DEF OverlapInv, SerialInv

LEMMA OverlapInvNext ==
  OverlapInv /\ [OverlapNext]_overlapVars => OverlapInv' /\ (~overlapped' /\ OverlapNext => OrdersAdvance)
<1> SUFFICES ASSUME OverlapInv, [OverlapNext]_overlapVars
             PROVE  OverlapInv' /\ (~overlapped' /\ OverlapNext => OrdersAdvance)
  OBVIOUS
<1>1. [Next]_vars
  BY DEF OverlapNext, overlapVars
<1>2. (TypeOK /\ SafetyInv /\ WorkerHasJob)'
  BY <1>1, TypeNext, SafetyNext, WorkerHasJobNext DEF OverlapInv
<1>3. CASE overlapped' /\ OverlapNext
  <2>1. SerialInv'
    BY <1>3 DEF SerialInv, SnapshotsFresh, SerialPaymentMatchesOrder
  <2> QED
    BY <1>2, <1>3, <2>1 DEF OverlapInv
<1>4. CASE ~overlapped' /\ OverlapNext
  BY <1>2, <1>4, SerialStep DEF OverlapInv
<1>5. CASE UNCHANGED overlapVars
  <2>1. UNCHANGED <<order, payment, job, tx, overlapped>>
    BY <1>5 DEF overlapVars, vars, shop
  <2>2. SerialInv'
    BY <2>1 DEF OverlapInv, SerialInv, SnapshotsFresh, StillTrue, Opened, Accepts,
       SerialPaymentMatchesOrder, PaymentMatchesOrder
  <2>3. OrdersAdvance
    BY <2>1 DEF OverlapInv, OrdersAdvance, OrderRank, TypeOK
  <2> QED
    BY <1>2, <2>2, <2>3 DEF OverlapInv
<1> QED
  BY <1>3, <1>4, <1>5

(* For any events in any order, payment and order agree until two           *)
(* transactions of the shop have overlapped (process_payment_event).        *)
THEOREM PaymentsAgree == OverlapSpec => []SerialPaymentMatchesOrder
<1>1. OverlapInv => SerialPaymentMatchesOrder
  BY DEF OverlapInv, SerialInv
<1> QED
  BY <1>1, OverlapInvInit, OverlapInvNext, PTL DEF OverlapSpec

(* For any events in any order, and any retries, no order goes back until   *)
(* two transactions of the shop have overlapped.                            *)
THEOREM OrdersOnlyAdvance == OverlapSpec => SerialOrderNeverRegresses
<1>1. OverlapInv /\ [OverlapNext]_overlapVars => [~overlapped' => OrdersAdvance]_overlapVars
  BY OverlapInvNext
<1> QED
  BY <1>1, OverlapInvInit, OverlapInvNext, PTL DEF OverlapSpec, SerialOrderNeverRegresses
=============================================================================
