--------------------------- MODULE MCContentReview ---------------------------
(* Instances of ReviewOverlap for TLC. *)
EXTENDS ReviewOverlap, TLC

CONSTANTS c1, c2, a1, a2, b1, b2

InOrder == a1 :> 1 @@ a2 :> 2

\* two packs that share an asset
Overlapping == c1 :> {a1, a2} @@ c2 :> {a2}
OwnBlobs    == a1 :> b1 @@ a2 :> b2

SessionSymmetry == Permutations(Sessions)

Untouched(c) ==
  /\ \A d \in Decisions : reviews[<<c, d>>] = 0
  /\ \A s \in Sessions : tx[s] # None => tx[s].cand # c
  /\ \A i \in Items : i[1] = c => acq[i] = "ABSENT"
  /\ selected[c] = ItemsOf[c]

\* bound: decisions overlap on c1, and then nothing is done to c2
MCNext == OverlapNext /\ (overlapped' => Untouched(c2)')
MCSpec == OverlapInit /\ [][MCNext]_overlapVars
=============================================================================
