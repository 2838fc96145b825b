------------------------------- MODULE Audit -------------------------------
(***************************************************************************)
(* One audit after its signals are collected: gate-investigations, deep-dive *)
(* and reconcile-candidates, the briefs and the files their investigators     *)
(* write, collect-sub-agent-outputs, verify-and-regen, and render-report      *)
(* (scripts/ of the audit skill; the order is SKILL.md's).  Each script runs  *)
(* to its end; between two of them lie only files.                           *)
(*                                                                         *)
(* A reference names a candidate, <<kind, target>>.  A draft says what the    *)
(* checks make of an investigator's record, not what its text says.          *)
(***************************************************************************)
EXTENDS CandidateGates

CONSTANTS
    Sites,      \* what the scanner and a full collection may find
    Collected,  \* [groups, billed]: the queries that succeeded
    Budgets,    \* [size, diverse]: --max-candidates and the default
    Drift,      \* rows a follow-up may find instead of the broad pass's
    Drafts,     \* [abstain, observed, unsafe, failed, poor, review, fix, score]
    Plain,      \* the draft where only its reference matters
    Leftovers,  \* [ref, rec]: outputs an earlier run may have left in the directory
    Followed,   \* the references whose investigations are followed ...
    MaxBriefs,  \* ... and how many of them at once
    None

ASSUME AuditAssumption ==
    /\ Sites \subseteq Windows
    /\ Budgets \subseteq [size : Nat, diverse : BOOLEAN]
    /\ None \notin Leftovers

VARIABLES
    stage, site, gate,
    active,       \* references of the gate's candidates, as render-report reads them
    briefs,       \* references of the manifest
    preResolved,  \* references answered by the reconciliation
    files,        \* what each investigator wrote
    stray,        \* what an earlier run left in the output directory, or None
    records,      \* recommendations.json
    retried       \* records regenerated once

vars == <<stage, site, gate, active, briefs, preResolved, files, stray, records, retried>>

Init ==
    /\ stage = "collected"
    /\ \E s \in Sites, c \in Collected : site = Masked(s, c.groups, c.billed)
    /\ gate = None
    /\ active = {}
    /\ briefs = <<>> /\ preResolved = <<>> /\ files = <<>> /\ records = <<>>
    /\ stray \in Leftovers \cup {None}
    /\ retried = {}

GateInvestigations ==
    /\ stage = "collected"
    /\ \E b \in Budgets :
          gate' = [budget |-> b, result |-> GateResult(site, b.size, b.diverse)]
    /\ stage' = "gated"
    /\ UNCHANGED <<site, active, briefs, preResolved, files, stray, records, retried>>

\* The follow-up of a launched candidate may repeat the broad pass, find other
\* numbers, or blame one deployment.
Verdicts(c) == {Disproved(c, w, outlier) : w \in FollowUp(site, c) \cup Drift, outlier \in BOOLEAN}

Refs(seq) == [n \in DOMAIN seq |-> candidateRefFor(seq[n])]

\* The candidates a brief is written for, in the manifest's order.
buildManifest(launched, dropped, platform) == Keep(launched, DOMAIN launched \ dropped) \o platform

\* A candidate its follow-up disproves is answered before it is investigated.
\* deep-dive goes no further in a directory that is not linked.
reconcileInvestigation ==
    LET launched == gate.result.toLaunch IN
    /\ stage = "gated"
    /\ \E dropped \in SUBSET (DOMAIN launched) :
          /\ \A i \in DOMAIN launched : (i \in dropped) \in Verdicts(launched[i])
          /\ LET kept == Refs(buildManifest(launched, dropped, gate.result.platform))
                 gone == Refs(Keep(launched, dropped)) IN
             IF Len(kept) <= MaxBriefs /\ ToSet(kept) \cup ToSet(gone) \subseteq Followed
             THEN /\ stage' = "investigating"
                  /\ active' = ToSet(kept) \cup ToSet(gone)
                  /\ briefs' = kept /\ preResolved' = gone
                  /\ files' = [i \in DOMAIN kept |-> None]
             ELSE stage' = "not followed" /\ UNCHANGED <<active, briefs, preResolved, files>>
    /\ site' = None /\ gate' = None
    /\ UNCHANGED <<stray, records, retried>>

-----------------------------------------------------------------------------
\* The investigators and the collector of their outputs.

\* An output holds nothing that parses, one record, or two; a record names its
\* candidate, another one, or none; the file is named as the manifest asks or not.
Outputs(i) ==
    LET own(d) == [ref |-> briefs[i], rec |-> d]
        other == {[ref |-> r, rec |-> Plain] : r \in ToSet(briefs) \cup {old.ref : old \in Leftovers}} IN
    {[named |-> FALSE, holds |-> s] : s \in {<<>>} \cup {<<own(d)>> : d \in Drafts}
                                               \cup {<<r>> : r \in other} \cup {<<own(Plain), r>> : r \in other}}
      \cup {[named |-> n, holds |-> <<[ref |-> None, rec |-> Plain]>>] : n \in BOOLEAN}

\* An investigator answers, or is asked again because the collector refused.
Write(i) ==
    /\ stage = "investigating"
    /\ i \in DOMAIN files
    /\ \E out \in Outputs(i) : files' = [files EXCEPT ![i] = out]
    /\ UNCHANGED <<stage, site, gate, active, briefs, preResolved, stray, records, retried>>

CleanUp ==
    /\ stage = "investigating" /\ stray # None
    /\ stray' = None
    /\ UNCHANGED <<stage, site, gate, active, briefs, preResolved, files, records, retried>>

\* A lone record without a reference is the only brief's, or the one its file
\* name tells.
inferCandidateRefFromFile(i) ==
    IF Len(files[i].holds) = 1 /\ (Len(briefs) = 1 \/ files[i].named) THEN briefs[i] ELSE None

\* What the collector reads, told apart by file and place.
Item(i, n, r) ==
    [file |-> i, place |-> n, rec |-> r.rec,
     ref |-> IF r.ref = None THEN inferCandidateRefFromFile(i) ELSE r.ref]

Written ==
    UNION {{Item(i, n, files[i].holds[n]) : n \in DOMAIN files[i].holds} : i \in {i \in DOMAIN files : files[i] # None}}
LeftBehind == {[file |-> 0, place |-> 1, rec |-> old.rec, ref |-> old.ref] : old \in {stray} \ {None}}
CollectedRecords == Written \cup LeftBehind

\* mutant: a brief without an output is no error
RefusedIfForeign(items) ==
    \/ \E x \in items : x.ref = None
    \/ briefs # <<>> /\ \E x, y \in items : x.ref \notin ToSet(briefs) \/ (x # y /\ x.ref = y.ref)

\* What the collector refuses, when the manifest lists any brief.
Refused(items) ==
    \/ \E x \in items : x.ref = None
    \/ briefs # <<>> /\ \E x, y \in items : x.ref \notin ToSet(briefs) \/ (x # y /\ x.ref = y.ref)
    \/ \E b \in ToSet(briefs) : \A x \in items : x.ref # b

\* The record the reconciliation leaves in the place of an investigation.
PreResolved(ref) == [ref |-> ref, rec |-> [Plain EXCEPT !.abstain = TRUE, !.observed = "safe"]]

\* The answers in the manifest's order; without briefs, what there is.
Ordered(items) ==
    IF briefs = <<>> THEN SetToSeq({[ref |-> x.ref, rec |-> x.rec] : x \in items})
    ELSE LET answered == Keep(briefs, {n \in DOMAIN briefs : \E x \in items : x.ref = briefs[n]}) IN
         [n \in DOMAIN answered |->
             [ref |-> answered[n], rec |-> (CHOOSE x \in items : x.ref = answered[n]).rec]]

\* Pre-resolved records first, then the manifest's order.
CollectOutputs ==
    /\ stage = "investigating"
    /\ ~Refused(CollectedRecords)
    /\ records' = [n \in DOMAIN preResolved |-> PreResolved(preResolved[n])] \o Ordered(CollectedRecords)
    /\ records' # <<>>
    /\ stage' = "verified"
    /\ files' = <<>> /\ stray' = None
    /\ UNCHANGED <<site, gate, active, briefs, preResolved, retried>>

-----------------------------------------------------------------------------
\* verify-and-regen, as a function of the records.

rec(i) == records[i].rec
Abstentions == {i \in DOMAIN records : rec(i).abstain}
SanitizerDropped == {i \in DOMAIN records : ~rec(i).abstain /\ rec(i).unsafe}
RecsGraded == DOMAIN records \ (Abstentions \cup SanitizerDropped)

regenPlan == {i \in RecsGraded : rec(i).failed # "none"}

\* applyQualityFloor's drops are looked up by their position among the graded
\* records, and that position is compared with positions among all records.
qualityDroppedIndexes ==
    {Cardinality({h \in RecsGraded : h <= g}) : g \in {g \in RecsGraded : rec(g).poor}}

needsReviewIndexes == {i \in RecsGraded : rec(i).review}

\* mutant: what is to be regenerated is not held back
withheldForReview == RecsGraded \cap (qualityDroppedIndexes \cup needsReviewIndexes)

withheldRecommendations == RecsGraded \cap (regenPlan \cup qualityDroppedIndexes \cup needsReviewIndexes)
verifiedRecommendations == RecsGraded \ withheldRecommendations

\* A failed record's brief is run once more; the new output is kept when it no
\* longer fails, and verification runs over all records again.
Regenerate(i) ==
    /\ stage = "verified"
    /\ i \in regenPlan \ retried
    /\ \E d \in Drafts :
          records' = IF d.failed = "none" THEN [records EXCEPT ![i].rec = d] ELSE records
    /\ retried' = retried \cup {i}
    /\ UNCHANGED <<stage, site, gate, active, briefs, preResolved, files, stray>>

RenderReport ==
    /\ stage = "verified"
    /\ stage' = "reported"
    /\ UNCHANGED <<site, gate, active, briefs, preResolved, files, stray, records, retried>>

-----------------------------------------------------------------------------
\* render-report, as a function of the records and of the gate's candidates.

target(i) == records[i].ref[2]

candidateFamily(kind) ==
    IF kind \in {"uncached_route", "cache_header_gap"} THEN "cache"
    ELSE IF kind \in {"slow_route", "cold_start", "external_api_slow", "cwv_poor"} THEN "performance"
    ELSE kind

HARD_REGEN_TRIGGERS == {"project_config_contradiction", "cache_vary_safety", "semantic_safety"}
hardRegenRefs == {records[i].ref : i \in {i \in regenPlan : rec(i).failed \in HARD_REGEN_TRIGGERS}}

candidateMatchesRef(c, ref) ==
    /\ c[1] = ref[1]
    /\ c[2] = Account \/ ref[2] = Account \/ Page(c[2]) = Page(ref[2])

\* Stale outputs are only told from current ones when the gate raised anything.
Current(ref) == active = {} \/ \E c \in active : candidateMatchesRef(c, ref)

Renderable ==
    {i \in verifiedRecommendations : ~rec(i).poor /\ records[i].ref \notin hardRegenRefs}

\* Records that make the same change are one recommendation, the best of them;
\* the first, when they are equally good.
sameChange(i, j) == i = j \/ (rec(i).fix = "shared" /\ rec(j).fix = "shared")
Ready == {i \in Renderable : Current(records[i].ref)}
dedupeRecommendations ==
    {i \in Ready : \A j \in Ready : sameChange(i, j) =>
        rec(j).score < rec(i).score \/ (rec(j).score = rec(i).score /\ i <= j)}

readyTargets == {target(i) : i \in dedupeRecommendations}

suppressReadyCovered(observed) ==
    {i \in observed : ~\E j \in dedupeRecommendations :
        target(j) = target(i) /\ candidateFamily(records[j].ref[1]) = candidateFamily(records[i].ref[1])}

ShownObservations == suppressReadyCovered({i \in Abstentions : rec(i).observed = "safe"})

\* Everything listed as held back or as found to need no change.
ListedOutcomes ==
    {i \in Abstentions : target(i) \notin readyTargets \/ rec(i).observed = "unsafe"}
      \cup {i \in RecsGraded : records[i].ref \in hardRegenRefs}
      \cup {i \in Renderable : ~Current(records[i].ref)}
      \cup withheldRecommendations \cup SanitizerDropped

Next ==
    \/ GateInvestigations
    \/ reconcileInvestigation
    \/ \E i \in 1..MaxBriefs : Write(i)
    \/ CleanUp
    \/ CollectOutputs
    \/ \E i \in DOMAIN records : Regenerate(i)
    \/ RenderReport

Spec == Init /\ [][Next]_vars

-----------------------------------------------------------------------------

\* Every candidate the gates raised is launched, raised for the account, or
\* listed with a reason, once: none is lost between deduplication, the auth and
\* endpoint exclusions and the selection (gate-investigations main).
GateAccountsForAll ==
    stage = "gated" =>
        LET g == gate.result
            name(c) == <<c.kind, c.label>> IN
        /\ Len(g.toLaunch) + Len(g.platform) + Len(g.gated) = Cardinality(Seeds(site))
        /\ {name(c) : c \in ToSet(g.toLaunch) \cup ToSet(g.platform) \cup {x.of : x \in ToSet(g.gated)}}
             = {name(c) : c \in Seeds(site)}

\* The budget is spent before anything is skipped for it, and the diversified
\* choice takes no second candidate of a kind while another kind has a strong
\* one left, and no weak one while a kind is below its cap (selectDiversified).
BudgetIsWellSpent ==
    stage = "gated" =>
        LET launched == gate.result.toLaunch
            skipped == {x.of : x \in {x \in ToSet(gate.result.gated) : x.why = "skippedByBudget"}}
            ofKind(k) == {i \in DOMAIN launched : launched[i].kind = k} IN
        /\ skipped # {} => Len(launched) = gate.budget.size
        /\ gate.budget.diverse => \A c \in {c \in skipped : c.strong} :
              /\ ofKind(c.kind) = {} => \A i, j \in DOMAIN launched :
                    launched[i].kind = launched[j].kind => i = j
              /\ Cardinality(ofKind(c.kind)) < DEFAULT_KIND_CAPS(c.kind) =>
                    \A i \in DOMAIN launched : launched[i].strong

\* A follow-up that only repeats the broad pass disproves no candidate raised
\* under its page's own name, whatever else failed to be read: the thresholds
\* of lib/gates and of lib/reconcile-candidates.mjs agree, except that the
\* latter counts stale answers as cached, and confirms failing functions by
\* the statuses of the requests.
RepeatIsKept ==
    stage = "gated" =>
        \A c \in ToSet(gate.result.toLaunch) :
            c.label = c.target /\ c.target \in Raw /\ Disproved(c, site.row[c.target], FALSE) =>
                LET w == site.row[c.target] IN
                \/ c.kind = "uncached_route" /\ w.stale > 0
                \/ c.kind = "route_errors" /\ w.edge5xx > 0 /\ 10 * w.edge5xx < w.errors

\* What is verified answers each candidate of the gate, and where there were
\* briefs answers it once and nothing else, through outputs that are missing,
\* garbled, double, unnamed or left over (collect-sub-agent-outputs); without
\* briefs a leftover is taken, whatever it names.
OneRecordPerCandidate ==
    stage \in {"verified", "reported"} =>
        /\ \A c \in active : \E i \in DOMAIN records : records[i].ref = c
        /\ briefs # <<>> =>
             /\ \A i, j \in DOMAIN records : records[i].ref = records[j].ref => i = j
             /\ \A i \in DOMAIN records : records[i].ref \in active

\* No recommendation is ready that failed a check, that needs a review, is
\* poor, or is of no candidate of this audit (without briefs, of none whose
\* page one of its candidates names), also when another one of the same
\* change leads it, and after a regeneration (render-report).
ReadyIsSound ==
    stage = "reported" =>
        \A i \in Ready :
            /\ ~rec(i).abstain /\ ~rec(i).unsafe /\ rec(i).failed = "none"
            /\ ~rec(i).poor /\ ~rec(i).review
            /\ briefs # <<>> => records[i].ref \in active
            /\ active # {} => \E c \in active : candidateMatchesRef(c, records[i].ref)

\* "customers see WHY a rec was held back instead of it silently disappearing"
\* (scripts/render-report.mjs:97): every recommendation that is not ready is
\* listed; an abstention is listed, shown as an observation, or led by a ready
\* recommendation for its target.
HeldBackIsShown ==
    stage = "reported" =>
        \A i \in DOMAIN records :
            \/ i \in Ready \cup ListedOutcomes \cup ShownObservations
            \/ i \in Abstentions /\ target(i) \in readyTargets
=============================================================================
