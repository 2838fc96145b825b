----------------------------- MODULE MCPublishing -----------------------------
(* Instances of Publishing for TLC. *)
EXTENDS Publishing, TLC

CONSTANTS k1, k2, a1, a2, f1, f2, p1, p2

\* one pack of two files for two destinations
PackForTwo == k1 :> {a1, a2}
OwnFiles   == a1 :> f1 @@ a2 :> f2
BothOfOne  == p1 :> k1 @@ p2 :> k1

\* two packs of one asset each, for one destination; the assets are copies
\* of one blob and share its file
PackEach   == k1 :> {a1} @@ k2 :> {a2}
OneFile    == a1 :> f1 @@ a2 :> f1
OneOfEach  == p1 :> k1 @@ p2 :> k2
=============================================================================
