----------------------------- MODULE MCCommerce -----------------------------
(* Instances of Commerce for TLC: the events a provider may send for one    *)
(* order, repeated and in any order, in the words the code translates.      *)
EXTENDS CommerceOverlap, TLC

CONSTANT o1

Event(i, o, st) == [id |-> i, charge |-> o, status |-> st]

AllKinds == {Event(1, o1, "PAID"), Event(2, o1, "CONFIRMED"), Event(3, o1, "EXPIRED"),
             Event(4, o1, "REJECTED"), Event(5, o1, "WAITING")}
Mixed == AllKinds \ {Event(5, o1, "WAITING")}
PaidTwice == {Event(1, o1, "CONFIRMED"), Event(2, o1, "CONFIRMED")}
=============================================================================
