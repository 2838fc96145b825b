---------------------------- MODULE ReviewOverlap ----------------------------
(***************************************************************************)
(* ContentReview with a history variable that says whether two decisions   *)
(* have been open at once, and what holds until then.  The history only    *)
(* watches: every behaviour of ContentReview is one of this module.        *)
(***************************************************************************)
EXTENDS ContentReview

VARIABLE overlapped   \* history: two decisions have been open at a time

overlapVars == <<vars, overlapped>>

Deciders == {s \in Sessions : tx[s] # None}

OverlapInit == Init /\ overlapped = FALSE

OverlapNext ==
  /\ Next
  /\ overlapped' = (overlapped \/ \E s, t \in Deciders' : s # t)

OverlapSpec == OverlapInit /\ [][OverlapNext]_overlapVars

-----------------------------------------------------------------------------
(* As long as decide_candidate() calls come one at a time: candidate, pack   *)
(* and its two flags tell the same story, every verdict rests on one         *)
(* Approval row, approval_count counts the approved candidates, and an open  *)
(* decision acts on what still holds.                                        *)
SerialUnlessOverlapped == ~overlapped => SerialInv

(* As long as decide_candidate() calls come one at a time and nothing fails, *)
(* every path on record names a file whenever nothing is open.               *)
CoherentUnlessOverlapped == ~overlapped => FilesCoherent

(* As long as decide_candidate() calls come one at a time a READY or         *)
(* REJECTED candidate stays so.                                              *)
FinalUnlessOverlapped ==
  [][\A c \in Candidates : ~overlapped' /\ candidate[c] # "PENDING_APPROVAL"
                             => candidate'[c] = candidate[c]]_overlapVars

(* Until two have overlapped, an open decision is alone, and an asset whose  *)
(* file it has moved does not come up again; while moreover nothing has      *)
(* failed, no file has been left where no row finds it: the reason for the   *)
(* coherence of rows and files.                                              *)
MovesNothingTwice ==
  ~overlapped =>
    /\ \A s, t \in Deciders : s = t
    /\ \A s \in Deciders : \A m \in tx[s].moved : m[1] \notin tx[s].todo
    /\ faults = 0 => stranded = {}
=============================================================================
