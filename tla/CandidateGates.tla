--------------------------- MODULE CandidateGates ---------------------------
(***************************************************************************)
(* How the audit skill turns one collection of metrics into investigations: *)
(* the gates that raise candidates, their deduplication by source route, the *)
(* budget, and the reconciliation of what was launched with its follow-up    *)
(* metrics (lib/gates, lib/route-normalize.mjs, gate-investigations.mjs,     *)
(* lib/reconcile-candidates.mjs).  Pure operators over one record:           *)
(*                                                                         *)
(*   site.row[r]     what the window holds of the metric label r             *)
(*   site.host       the slowest external host                               *)
(*   site.acct       project configuration, account-wide metrics, bill       *)
(*   site.found[p]   scanner findings of each kind in the page p             *)
(*                                                                         *)
(* Counts are integers, rates are compared by cross-multiplication, 0 is an  *)
(* absent row.  A label is a raw route as the metrics name it; Canon is the  *)
(* page it decodes to.  Several labels may decode to one page.               *)
(*                                                                         *)
(* site.functions says whether the function statuses were read at all.      *)
(***************************************************************************)
EXTENDS Integers, Sequences, FiniteSets, SequencesExt

CONSTANTS
    Names,      \* every label and page, in alphabetical order (a sequence)
    Raw,        \* the labels: raw routes as the metrics name them
    Canon,      \* canonicalizeRoute: the page of each label; it changes no other name
    AuthLike,   \* labels AUTH_ROUTE_REGEX matches
    Endpoints   \* pages that are Flags or Workflow endpoints

Pages == {Canon[r] : r \in Raw}
Host == "host"
Account == "account"
Page(name) == IF name \in Raw THEN Canon[name] ELSE name

\* Alphabetical: the order stableCompare breaks ties in.
Kinds == <<"build_minutes_fanout", "cache_header_gap", "cold_start", "cwv_poor",
           "external_api_slow", "isr_overrevalidation", "middleware_heavy",
           "observability_events_attribution", "platform_bot_protection",
           "platform_fluid_compute", "region_misconfig", "rendering_candidate",
           "route_errors", "slow_route", "uncached_route", "use_cache_date_stamp">>

PlaceIn(x, seq) == CHOOSE i \in 1..Len(seq) : seq[i] = x
Rounded(n, d) == (2 * n + d) \div (2 * d)

\* Every name has one place in the alphabet; hosts and the account are no names.
ASSUME NamesAssumption ==
    /\ IsFiniteSet(Raw) /\ Canon \in [Raw -> Pages]
    /\ Names \in Seq(Raw \cup Pages)
    /\ \A p \in Raw \cup Pages : \E i \in 1..Len(Names) : Names[i] = p
    /\ Host \notin Raw \cup Pages /\ Account \notin Raw \cup Pages

\* What one collection holds; lcp and inp are in ms, cls in hundredths.
Fields == {"requests", "hits", "stale", "gets", "methods", "p95", "runs", "errors", "edge5xx",
           "starts", "cold", "writes", "reads", "samples", "lcp", "inp", "cls"}
Accounts == [readable : BOOLEAN, fluid : BOOLEAN, bot : BOOLEAN, turbo : BOOLEAN, botShare : Nat,
             edge : Nat, middleware : Nat, events : Nat, build : Nat, pins : Nat, routes : Nat]
Findings == {"cache_header_gap", "rendering_candidate", "use_cache_date_stamp"}
Windows == [row : [Raw -> [Fields -> Nat]], host : [p75 : Nat, calls : Nat], acct : Accounts,
            found : [Pages -> [Findings -> Nat]], functions : BOOLEAN]

\* The members of S in the order of R, a set of pairs.
Arrange(S, R) ==
    [n \in 1..Cardinality(S) |-> CHOOSE x \in S : Cardinality({y \in S : <<y, x>> \in R}) = n - 1]

\* The members of a sequence at some places, in their order.
Keep(seq, places) ==
    LET order == Arrange(places, {ij \in places \X places : ij[1] < ij[2]}) IN
    [n \in DOMAIN order |-> seq[order[n]]]

\* A candidate, as far as the pipeline looks at it: `label` is where its metrics
\* come from, `strong` whether the diversified passes may take it.
Candidate(kind, label, priority) ==
    [kind |-> kind, label |-> label, target |-> label, priority |-> priority,
     count |-> 0, strong |-> TRUE, disqualified |-> FALSE]

-----------------------------------------------------------------------------
\* What the gates see: a query that failed leaves no rows.  Group 1 is the
\* requests by cache result and by status, 2 the request methods, 3 the rest.
Group(f) ==
    IF f \in {"requests", "hits", "stale", "edge5xx"} THEN 1
    ELSE IF f \in {"gets", "methods"} THEN 2 ELSE 3

Masked(site, groups, billed) ==
    LET read(n) == IF 3 \in groups THEN n ELSE 0
        paid(n) == IF billed THEN n ELSE 0 IN
    [row |-> [r \in Raw |-> [f \in Fields |-> IF Group(f) \in groups THEN site.row[r][f] ELSE 0]],
     host |-> [p75 |-> read(site.host.p75), calls |-> read(site.host.calls)],
     acct |-> [site.acct EXCEPT !.botShare = read(@), !.middleware = read(@),
                                !.edge = paid(@), !.events = paid(@), !.build = paid(@)],
     found |-> site.found,
     functions |-> 3 \in groups]

uncachedRoute(site) ==
    {[Candidate("uncached_route", r, site.row[r].requests - site.row[r].hits)
        EXCEPT !.disqualified = site.row[r].methods = 0] :
       r \in {r \in Raw : LET w == site.row[r] IN
                /\ w.requests > 500 /\ 2 * w.hits < w.requests
                /\ w.methods = 0 \/ 5 * w.gets > w.methods}}

slowRoute(site) ==
    {[Candidate("slow_route", r, Rounded(site.row[r].p95 * site.row[r].requests, 1000))
        EXCEPT !.disqualified = 2 * site.row[r].errors > site.row[r].runs] :
       r \in {r \in Raw : LET w == site.row[r] IN
                \/ w.p95 > 500 /\ w.requests >= 1400
                \/ w.p95 > 1500 /\ w.requests >= 250}}

\* Function statuses, or the statuses of requests where those were not read.
routeErrors(site) ==
    LET count(r) == IF site.functions THEN site.row[r].errors ELSE site.row[r].edge5xx
        total(r) == IF site.functions THEN site.row[r].runs ELSE site.row[r].requests IN
    {[Candidate("route_errors", r, count(r)) EXCEPT !.count = count(r), !.strong = count(r) >= 1000] :
       r \in {r \in Raw : \/ count(r) > 250
                          \/ total(r) >= 1000 /\ 100 * count(r) > total(r)}}

coldStart(site) ==
    {Candidate("cold_start", r, site.row[r].cold) :
       r \in {r \in Raw : LET w == site.row[r] IN 10 * w.cold > 4 * w.starts /\ w.starts >= 1000}}

isrOverrevalidation(site) ==
    {Candidate("isr_overrevalidation", r, site.row[r].writes) :
       r \in {r \in Raw : LET w == site.row[r] IN
                w.writes > 100 /\ w.reads > 0 /\ 2 * w.writes > w.reads}}

cwvPoor(site) ==
    LET over(value, threshold) == IF value > threshold THEN (10 * value) \div threshold ELSE 0
        weight(w) == over(w.lcp, 2500) + over(w.inp, 200) + over(w.cls, 10) IN
    {Candidate("cwv_poor", r, weight(site.row[r])) :
       r \in {r \in Raw : site.row[r].samples >= 50 /\ weight(site.row[r]) > 0}}

\* One host of several: the code filters each by its own numbers.
externalApiSlow(site) ==
    {Candidate("external_api_slow", Host, Rounded(h.p75 * h.calls, 1000)) :
       h \in {h \in {site.host} : h.p75 > 2000 /\ h.calls >= 500}}

\* mergeSignals: the traffic of a page is that of all its labels, its p95 the
\* one of the last label.
Traffic(site, p) ==
    LET of == {r \in Raw : Canon[r] = p}
        timed == {r \in of : site.row[r].p95 > 0} IN
    [runs |-> MapThenSumSet(LAMBDA r : site.row[r].runs, of),
     requests |-> MapThenSumSet(LAMBDA r : site.row[r].requests, of),
     hits |-> MapThenSumSet(LAMBDA r : site.row[r].hits, of),
     p95 |-> IF timed = {} THEN 0
             ELSE site.row[CHOOSE r \in timed : \A s \in timed : PlaceIn(s, Names) <= PlaceIn(r, Names)].p95]

\* Three of the five scanner gates; the other two only differ in their numbers,
\* and the finding of an image or of a missing Suspense boundary.
SCANNER_GATES ==
    [cache_header_gap     |-> [threshold |-> 1, priority |-> 40],
     rendering_candidate  |-> [threshold |-> 3, priority |-> 35],
     use_cache_date_stamp |-> [threshold |-> 1, priority |-> 45]]

\* A finding counts when its page has traffic; a page the CDN serves already
\* has no header gap.
scannerDriven(site) ==
    LET busy(p) == Traffic(site, p).runs > 0 \/ Traffic(site, p).requests > 0
        cached(p) == LET t == Traffic(site, p) IN
                     t.requests > 0 /\ Rounded(100 * t.hits, t.requests) >= 90
        strong(k, p) == LET t == Traffic(site, p) IN
                        /\ k = "cache_header_gap" => t.runs >= 50000 \/ t.p95 >= 2000
                        /\ k = "rendering_candidate" => t.runs >= 50000 IN
    {[Candidate(kp[1], kp[2], SCANNER_GATES[kp[1]].priority
                                + IF site.found[kp[2]][kp[1]] < 10 THEN site.found[kp[2]][kp[1]] ELSE 10)
        EXCEPT !.strong = strong(kp[1], kp[2])] :
       kp \in {kp \in Findings \X Pages :
                 /\ site.found[kp[2]][kp[1]] >= SCANNER_GATES[kp[1]].threshold
                 /\ busy(kp[2])
                 /\ kp[1] = "cache_header_gap" => ~cached(kp[2])}}

Total(site) == MapThenSumSet(LAMBDA r : site.row[r].requests, Raw)

\* The gates of account scope, each of which raises one candidate or none.
platformFluidCompute(site) ==
    {Candidate("platform_fluid_compute", Account, 50) :
       a \in {a \in {site.acct} :
                /\ a.readable /\ ~a.fluid
                /\ \E r \in Raw : LET w == site.row[r] IN
                      \/ 10 * w.cold > 3 * w.starts /\ w.starts > 100
                      \/ w.p95 > 1000 /\ w.requests > 500}}

platformBotProtection(site) ==
    {Candidate("platform_bot_protection", Account,
               (IF a.edge = 0 THEN 30 ELSE IF a.edge < 20 THEN 20 ELSE a.edge)
                 + IF a.botShare > 20 THEN 20 ELSE 0) :
       a \in {a \in {site.acct} :
                /\ a.readable /\ ~a.bot
                /\ a.botShare >= 5 \/ a.edge >= 25 \/ Total(site) >= 14000}}

middlewareHeavy(site) ==
    {Candidate("middleware_heavy", Account, Rounded(a.middleware, 1000)) :
       a \in {a \in {site.acct} :
                a.middleware >= 1000 /\ Total(site) > 0 /\ 2 * a.middleware > Total(site)}}

observabilityEvents(site) ==
    {Candidate("observability_events_attribution", Account, IF a.events > 30 THEN 70 ELSE 55) :
       a \in {a \in {site.acct} : a.events > 20}}

buildMinutesFanout(site) ==
    {Candidate("build_minutes_fanout", Account, IF a.turbo THEN 65 ELSE 50) :
       a \in {a \in {site.acct} : a.build > 15 \/ a.turbo}}

regionMisconfig(site) ==
    {Candidate("region_misconfig", Account, IF a.pins = 1 THEN 42 ELSE 38) :
       a \in {a \in {site.acct} : a.pins > 0 /\ a.routes >= 20}}

Seeds(site) ==
    uncachedRoute(site) \cup slowRoute(site) \cup routeErrors(site) \cup coldStart(site)
      \cup isrOverrevalidation(site) \cup cwvPoor(site) \cup externalApiSlow(site)
      \cup scannerDriven(site) \cup platformFluidCompute(site) \cup platformBotProtection(site)
      \cup middlewareHeavy(site) \cup observabilityEvents(site) \cup buildMinutesFanout(site)
      \cup regionMisconfig(site)

-----------------------------------------------------------------------------
\* Errors and slowness of an auth route still deserve an investigation; caching
\* it at the edge does not.
applyAuthDisqualifier(c) ==
    IF c.kind \in {"uncached_route", "cache_header_gap"} /\ c.target \in AuthLike
    THEN [c EXCEPT !.disqualified = TRUE] ELSE c

\* Priority first, then kind, then route; a host or the account has no route.
stableCompare(a, b) ==
    LET kind(c) == PlaceIn(c.kind, Kinds)
        route(c) == IF c.target \in ToSet(Names) THEN PlaceIn(c.target, Names) ELSE 0 IN
    \/ a.priority > b.priority
    \/ a.priority = b.priority /\ kind(a) < kind(b)
    \/ a.priority = b.priority /\ kind(a) = kind(b) /\ route(a) < route(b)

Sorted(S) == Arrange(S, {cd \in S \X S : stableCompare(cd[1], cd[2])})

scopeOf(c) == IF c.target = Account THEN "account" ELSE "route"

candidateKey(c) == <<c.kind, Page(c.target)>>

\* Of the candidates with one key the first survives ...
Survivors(seq) ==
    {i \in DOMAIN seq : scopeOf(seq[i]) = "account" \/ \A j \in 1..(i - 1) : candidateKey(seq[j]) # candidateKey(seq[i])}

\* ... under the page's name, canonicalized again for every one it absorbs,
\* which changes nothing after the second time.
Canonical(seq, i) ==
    LET absorbs == \E j \in (i + 1)..Len(seq) : candidateKey(seq[j]) = candidateKey(seq[i]) IN
    [seq[i] EXCEPT !.target = IF absorbs THEN Page(Page(@)) ELSE Page(@)]

\* mutant: the absorbed candidates are forgotten
dedupeSilently(seq) ==
    [deduped |-> Keep([i \in DOMAIN seq |-> Canonical(seq, i)], Survivors(seq)), dropped |-> <<>>]

dedupeCandidates(seq) ==
    [deduped |-> Keep([i \in DOMAIN seq |-> Canonical(seq, i)], Survivors(seq)),
     dropped |-> Keep(seq, DOMAIN seq \ Survivors(seq))]

hardGated(c) == scopeOf(c) = "route" /\ Page(c.target) \in Endpoints

-----------------------------------------------------------------------------
DEFAULT_KIND_CAPS(kind) == IF kind \in {"slow_route", "uncached_route", "route_errors"} THEN 2 ELSE 1

\* The strong candidates of the kind of the i-th, up to it.
SameKind(pool, i) == {j \in 1..i : pool[j].kind = pool[i].kind /\ pool[j].strong}

\* mutant: a kind is filled up to its cap in the first pass
PassByCap(pool, i) ==
    IF pool[i].strong /\ Cardinality(SameKind(pool, i)) <= DEFAULT_KIND_CAPS(pool[i].kind) THEN 1 ELSE 3

\* The pass of the diversified selection that takes a candidate: one strong
\* candidate of each kind, then as many as the kind's cap, then whatever is left.
Pass(pool, i) ==
    IF ~pool[i].strong THEN 3
    ELSE IF Cardinality(SameKind(pool, i)) = 1 THEN 1
    ELSE IF Cardinality(SameKind(pool, i)) <= DEFAULT_KIND_CAPS(pool[i].kind) THEN 2 ELSE 3

Sooner(pool, i, j, diversify) ==
    \/ diversify /\ Pass(pool, i) < Pass(pool, j)
    \/ (diversify => Pass(pool, i) = Pass(pool, j)) /\ i < j

\* The places of the pool in the order in which they are selected.
Turns(pool, diversify) ==
    LET places == DOMAIN pool IN
    Arrange(places, {ij \in places \X places : Sooner(pool, ij[1], ij[2], diversify)})

\* A candidate is known by its place.  The code knows it by kind, route or host,
\* scope and signal (candidateIdentity); after deduplication two share these only
\* if their page's name changes when it is decoded again and their numbers agree.
selectLaunchCandidates(pool, budget, diversify) ==
    LET turns == Turns(pool, diversify)
        n == IF Len(pool) < budget THEN Len(pool) ELSE budget IN
    [selected |-> [t \in 1..n |-> pool[turns[t]]],
     skipped |-> Keep(pool, DOMAIN pool \ {turns[t] : t \in 1..n})]

Deduplicated(site) == dedupeCandidates(Sorted({applyAuthDisqualifier(c) : c \in Seeds(site)}))

Listed(why, seq) == [n \in DOMAIN seq |-> [why |-> why, of |-> seq[n]]]

\* gate-investigations: what is launched, what is raised for the account, and
\* what is only listed, with the reason.
GateResult(site, budget, diversify) ==
    LET unique == Deduplicated(site)
        all == unique.deduped
        hard == {i \in DOMAIN all : hardGated(all[i])}
        unsound == {i \in DOMAIN all \ hard : all[i].disqualified}
        sound == DOMAIN all \ (hard \cup unsound)
        platform == {i \in sound : scopeOf(all[i]) = "account"}
        selection == selectLaunchCandidates(Keep(all, sound \ platform), budget, diversify) IN
    [toLaunch |-> selection.selected,
     platform |-> Keep(all, platform),
     gated |-> Listed("disqualified", Keep(all, unsound)) \o Listed("hardGated", Keep(all, hard))
               \o Listed("skippedByBudget", selection.skipped) \o Listed("coveredBy", unique.dropped)]

-----------------------------------------------------------------------------
\* The follow-up asks for the candidate's target, that is for the page's name
\* as a label: a label that decodes to another name has no rows there.
FollowUp(site, c) == IF c.target \in Raw THEN {site.row[c.target]} ELSE {}

\* What drops a candidate of each kind before its investigation, on the row w
\* its follow-up found: mostly failing, fast after all, or slow in one deployment,
slowRouteDisproved(w, outlier) ==
    \/ w.runs > 0 /\ 2 * w.errors > w.runs
    \/ w.p95 > 0 /\ w.p95 < 500
    \/ outlier /\ w.p95 >= 1000

\* a count the statuses of the requests do not confirm,
routeErrorsDisproved(c, w) ==
    LET confirmed == IF w.edge5xx > 0 THEN w.edge5xx ELSE w.errors IN
    /\ c.count >= 1000 /\ (w.edge5xx > 0 \/ w.runs > 0)
    /\ 10 * confirmed < c.count

\* cached after all, or hardly ever a GET,
uncachedRouteDisproved(w) ==
    \/ w.requests > 0 /\ 10 * (w.hits + w.stale) >= 9 * w.requests
    \/ w.methods > 0 /\ 5 * w.gets < w.methods

\* few writes, or few of them per read.
isrDisproved(w) ==
    /\ w.writes > 0 \/ w.reads > 0
    /\ w.reads = 0 \/ w.writes < 100 \/ 2 * w.writes <= w.reads

\* mutant: slow means more than a second here
DisprovedBelowASecond(c, w, outlier) == c.kind = "slow_route" /\ 0 < w.p95 /\ w.p95 < 1000

\* reconcileCandidate: the first check that fails drops the candidate, and they
\* all lead to the same record.
Disproved(c, w, outlier) ==
    \/ c.kind = "slow_route" /\ slowRouteDisproved(w, outlier)
    \/ c.kind = "route_errors" /\ routeErrorsDisproved(c, w)
    \/ c.kind = "uncached_route" /\ uncachedRouteDisproved(w)
    \/ c.kind = "isr_overrevalidation" /\ isrDisproved(w)

candidateRefFor(c) == <<c.kind, c.target>>
=============================================================================
