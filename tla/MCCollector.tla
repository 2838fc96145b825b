----------------------------- MODULE MCCollector -----------------------------
(* One project of a team and one of a user, who is or is not the one logged  *)
(* in; four queries over two slots.                                           *)
EXTENDS SignalCollector, TLC

CONSTANTS Shop, Blog, Team, Acme, Ana, Bo

MCOwner == (Shop :> Team) @@ (Blog :> Ana)
MCAccountOf == Acme :> Team
MCDelay == <<2>>

\* Nothing in the queries depends on whose project it is: the runs of all links
\* are followed as far as the canary, one of the team's project to the end.
MCNext ==
    /\ CollectNext
    /\ at' = "fanout" => project = [id |-> Shop, org |-> Team] /\ projectScope = "owner"
MCSpec == Init /\ [][MCNext]_vars /\ Fairness
=============================================================================
