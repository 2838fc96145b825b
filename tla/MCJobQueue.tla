----------------------------- MODULE MCJobQueue -----------------------------
(* Instances of JobQueue for TLC.  Keys and workers are interchangeable     *)
(* except for the handler-less and the publishing key.                      *)
EXTENDS JobQueue, TLC

WorkerSymmetry == Permutations(Workers)
=============================================================================
