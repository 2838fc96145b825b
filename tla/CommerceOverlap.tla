--------------------------- MODULE CommerceOverlap ---------------------------
(***************************************************************************)
(* Commerce with a history variable that says whether two transactions of  *)
(* the shop have been open at once, and what holds until then.  Every      *)
(* behaviour of Commerce is one of this module: the history only watches.  *)
(***************************************************************************)
EXTENDS Commerce

VARIABLE overlapped   \* history: two transactions have been open on the orders

overlapVars == <<vars, overlapped>>

Opened == {s \in Open : tx[s].kind \in {"event", "fulfil"}}

OverlapInit == Init /\ overlapped = FALSE

OverlapNext ==
  /\ Next
  /\ overlapped' = (overlapped \/ \E s, t \in Opened' : s # t)

OverlapSpec == OverlapInit /\ [][OverlapNext]_overlapVars
FairOverlapSpec == OverlapSpec /\ Fairness

-----------------------------------------------------------------------------
(* Payment and order agree as long as no two requests have overlapped: the  *)
(* payment is CONFIRMED exactly when the order is PAID or FULFILLED.  Two   *)
(* overlapping ones may overwrite each other (a late EXPIRED over a         *)
(* CONFIRMED), and no later request repairs it.                             *)
SerialPaymentMatchesOrder == ~overlapped => PaymentMatchesOrder

(* An order never goes back while no two requests have overlapped: neither  *)
(* a late event nor a retried job undoes what a customer has reached.       *)
SerialOrderNeverRegresses ==
  [][~overlapped' => OrdersAdvance]_overlapVars

(* Until two have overlapped, an open transaction is alone, and what it has *)
(* read is what the rows still say: the reason for both of the above.       *)
StillTrue(t) ==
  /\ t.kind = "event" =>
       LET o == t.event.charge IN
       /\ t.payment = payment[o] /\ t.order = order[o]
       /\ t.job <=> job[o] # "ABSENT"
       /\ Accepts(t.event)
  /\ t.kind = "fulfil" => t.order = order[t.of]

SnapshotsFresh ==
  ~overlapped => (\A s, t \in Opened : s = t) /\ (\A s \in Opened : StillTrue(tx[s]))
=============================================================================
