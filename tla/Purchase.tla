------------------------------ MODULE Purchase ------------------------------
(***************************************************************************)
(* What selling access promises, apart from how: an order is opened, paid  *)
(* once and granted once, in that order.  Commerce implements it.          *)
(***************************************************************************)
CONSTANT Orders
VARIABLE phase

Phases == {"none", "open", "paid", "granted"}

Init == phase = [o \in Orders |-> "none"]

Advance(o, from, to) ==
  /\ phase[o] = from
  /\ phase' = [phase EXCEPT ![o] = to]

Open(o)  == Advance(o, "none", "open")
Pay(o)   == Advance(o, "open", "paid")
Grant(o) == Advance(o, "paid", "granted")

Next == \E o \in Orders : Open(o) \/ Pay(o) \/ Grant(o)

Spec == Init /\ [][Next]_phase
=============================================================================
