-------------------------- MODULE SignalCollector --------------------------
(***************************************************************************)
(* scripts/collect-signals.mjs of the audit skill with the CLI client it     *)
(* drives (lib/vercel.mjs): which project and account a run is about, whether *)
(* the account's metrics can be read, the queries themselves, and the verdict *)
(* the orchestrator stops on (SKILL.md, 1.1).  The queries go through         *)
(* QueryThrottle; of their results only how many brought what is kept.       *)
(*                                                                         *)
(* Every CLI call is answered by a service outside the repository: its        *)
(* answers are chosen freely, except that a project is only shown in the      *)
(* account that owns it, and with no other owner than that, if with any.     *)
(***************************************************************************)
EXTENDS QueryThrottle

CONSTANTS
    Projects, Teams, Users,
    Slugs,       \* what a link may call an account other than by its id
    AccountOf,   \* the account each of them means
    Owner,       \* the account each project belongs to
    Codes,       \* blockers a query that fails after the canary may lead to
    None

Accounts == Teams \cup Users
Orgs == Accounts \cup Slugs
Links == [id : Projects, org : Orgs \cup {None}]

ASSUME CollectorAssumption ==
    /\ Owner \in [Projects -> Accounts] /\ AccountOf \in [Slugs -> Accounts]
    /\ Teams \cap Users = {} /\ Slugs \cap Accounts = {}
    /\ None \notin Orgs \cup Projects
    /\ "daily_quota_exceeded" \in Codes /\ Codes \cap {"none", "no_traffic"} = {}

VARIABLES
    at,         \* the stage the run has reached
    link,       \* what names the project: argument or environment, .vercel/*.json
    frameworkOk, \* it is supported, or the user agreed to go on without
    project,    \* what resolveProjectId made of it
    scope,      \* the account every later CLI call is made in
    projectScope, \* what confirmed it: the owner the API names, or only that it reads
    access,     \* verdict of the configuration preflight
    answers,    \* how many queries brought each result
    blocker,    \* observabilityPlusBlocker or frameworkSupportBlocker of the output
    usage,      \* what the billing rows are about
    consent     \* what else the user agreed to do without

collectVars == <<at, link, frameworkOk, project, scope, projectScope, access, answers, blocker,
                 usage, consent>>
vars == <<throttleVars, collectVars>>

\* Rows, none of them, or the code of the failure.
Results == {"rows", "empty"} \cup Codes
Unasked == [result \in Results |-> 0]

CollectInit ==
    /\ at = "start"
    /\ link \in [explicit : Projects \cup {None}, env : Orgs \cup {None},
                 repo : {<<>>} \cup {<<e>> : e \in Links} \cup {<<e, f>> : e, f \in Links},
                 legacy : Links \cup {None}]
    /\ frameworkOk \in BOOLEAN
    /\ project = None
    /\ scope = None
    /\ projectScope = "none"
    /\ access = "unread"
    /\ answers = Unasked
    /\ blocker = "none"
    /\ usage = "none"
    /\ consent = {}

-----------------------------------------------------------------------------
\* Which project, and whose.

\* The entries that name the project, of the repository's link file.
Matches(id) == SelectSeq(link.repo, LAMBDA e : e.id = id)

\* The owner a link file gives an explicitly named project, if any does.
readLinkedOwnerForProjectId(id) ==
    IF Matches(id) # <<>> /\ Matches(id)[1].org # None THEN Matches(id)[1].org
    ELSE IF link.legacy # None THEN (IF link.legacy.id = id THEN link.legacy.org ELSE None)
    ELSE None

\* The only entry of repo.json, even one without an owner, before project.json.
readProjectJson == IF link.repo # <<>> THEN link.repo[1] ELSE link.legacy

AMBIGUOUS_PROJECT_LINK ==
    IF link.explicit = None THEN Len(link.repo) > 1
    ELSE link.env = None /\ Len(Matches(link.explicit)) > 1

resolveProjectId ==
    IF link.explicit = None THEN readProjectJson
    ELSE [id |-> link.explicit,
          org |-> IF link.env # None THEN link.env ELSE readLinkedOwnerForProjectId(link.explicit)]

\* No project, or none with an owner, ends the run.
ResolveProject ==
    LET found == IF AMBIGUOUS_PROJECT_LINK THEN None ELSE resolveProjectId IN
    /\ at = "start"
    /\ IF found = None
       THEN at' = "stopped" /\ project' = None
       ELSE /\ at' = IF found.org = None THEN "stopped" ELSE "framework"
            /\ project' = found
    /\ link' = None
    /\ UNCHANGED <<throttleVars, frameworkOk, scope, projectScope, access, answers, blocker, usage, consent>>

\* An unsupported framework is reported before anything is asked.
CheckFramework ==
    /\ at = "framework"
    /\ IF frameworkOk
       THEN at' = "scope" /\ UNCHANGED blocker
       ELSE at' = "written" /\ blocker' = "unsupported_framework"
    /\ UNCHANGED <<throttleVars, link, frameworkOk, project, scope, projectScope, access, answers, usage, consent>>

Meant(org) == IF org \in Slugs THEN AccountOf[org] ELSE org

\* who: the CLI's login, whether it tells the user's id, its current team, the
\* teams it may read.  A user id that is not told is taken to be the right one,
\* and what is not an id is taken as it is.
resolveCommandScope(org, who) ==
    IF org \in Teams THEN (IF org = who.team \/ org \in who.member THEN org ELSE None)
    ELSE IF org \in Users THEN (IF ~who.told \/ who.login = org THEN who.login ELSE None)
    ELSE Meant(org)

\* getProjectConfig: for a user's link the project is read in whatever account
\* the CLI is in, for any other in the account the link means.
Reads(p, who) ==
    IF p.org \in Users THEN Owner[p.id] \in {who.login, who.team}
    ELSE Owner[p.id] = Meant(p.org) /\ Owner[p.id] \in who.member \cup {who.login}

\* mutant: the owner the API names is not compared
validateReach(p, who, named) == Reads(p, who)

\* An owner the API names must be the one the link names; without one, to have
\* read the project is enough.
validateProjectScope(p, who, named) == Reads(p, who) /\ (named => Owner[p.id] = p.org)

CheckScope ==
    /\ at = "scope"
    /\ \E login \in Users, told \in BOOLEAN, team \in Teams \cup {None},
          member \in SUBSET Teams, named \in BOOLEAN :
          LET who == [login |-> login, told |-> told, team |-> team, member |-> member \cup ({team} \ {None})]
              cliScope == resolveCommandScope(project.org, who) IN
          IF cliScope # None /\ validateProjectScope(project, who, named)
          THEN /\ at' = "preflight" /\ scope' = cliScope
               /\ projectScope' = IF named THEN "owner" ELSE "readable"
          ELSE at' = "stopped" /\ UNCHANGED <<scope, projectScope>>
    /\ UNCHANGED <<throttleVars, link, frameworkOk, project, access, answers, blocker, usage, consent>>

-----------------------------------------------------------------------------
\* Whether the metrics can be read.

\* The team's configuration tells; for a user, or when it cannot be read, the
\* schema probe does, and the metrics are tried when it succeeds.
checkObservabilityPlusConfiguration ==
    /\ at = "preflight"
    /\ \/ access' \in {"readable", "no_oplus_probe"}
       \/ project.org \notin Users /\ access' = "project_disabled"
    /\ at' = "canary"
    /\ UNCHANGED <<throttleVars, link, frameworkOk, project, scope, projectScope, answers, blocker, usage, consent>>

\* A blocker the user has not agreed to do without ends the run early; after
\* one that the user has, billing is still read.
Blocked(reason) ==
    /\ blocker' = reason
    /\ at' = IF "limited" \in consent THEN "billing" ELSE "written"

\* Blockers that only a login, a scope or a link can mend: the canary meets
\* them before any other query does.
ToBeFixed == {"forbidden", "project_not_found", "not_linked"}

\* One cheap query before the many.
Canary ==
    /\ at = "canary"
    /\ \/ /\ access = "readable"
          /\ at' = "billing" /\ blocker' = "none"
       \/ /\ access = "readable"
          /\ \E code \in Codes \cup ToBeFixed : Blocked(code)
       \/ /\ access # "readable"
          /\ Blocked(access)
    /\ UNCHANGED <<throttleVars, link, frameworkOk, project, scope, projectScope, access, answers, usage, consent>>

\* Usage rows of another context are dropped, those of the project preferred to
\* the team's.  They are first looked at in the output.
UsageRead == usage' \in {"none", "team", "project"}

\* Billing is read; the canary may still be in the window when the queries start.
\* Of its calls only the last may: each retry came a pause longer than the window
\* after the call before it (Delay), so one call stands for them all.
Billing ==
    /\ at = "billing"
    /\ IF blocker = "none"
       THEN /\ at' = "fanout" /\ UNCHANGED usage
            /\ \E age \in 0..Gone : timestamps' = OnlyCanary(age) /\ sent' = CanaryCall(age)
       ELSE at' = "written" /\ UsageRead /\ UNCHANGED <<timestamps, sent>>
    /\ UNCHANGED <<pc, timer, tries, inFlight, waiters, block, spent>>
    /\ UNCHANGED <<link, frameworkOk, project, scope, projectScope, access, answers, blocker, consent>>

-----------------------------------------------------------------------------
\* The queries, all at once through the throttle.

Querying == at = "fanout" /\ UNCHANGED <<at, link, frameworkOk, project, scope, projectScope, access, blocker, usage, consent>>

collectMetrics == Querying /\ Start /\ UNCHANGED answers

\* A block answers a woken query in its place.
Woke(q) ==
    /\ Querying /\ Resume(q)
    /\ answers' = IF block THEN [answers EXCEPT !["daily_quota_exceeded"] = @ + 1] ELSE answers

Paced(q) == Querying /\ (Meter(q) \/ Limited(q) \/ Retry(q)) /\ UNCHANGED answers

Answered(q) ==
    /\ Querying
    /\ \E result \in Results :
          /\ Answer(q, result = "daily_quota_exceeded")
          /\ answers' = [answers EXCEPT ![result] = @ + 1]

TimePasses == Querying /\ (Tick \/ Midnight) /\ UNCHANGED answers

\* mutant: the canary's verdict stands
diagnoseByCanary == {"none"}

\* The verdict over what came back: usable as soon as one query succeeded; the
\* commonest code of the failures otherwise.
diagnoseObservabilityPlus ==
    IF answers["rows"] > 0 THEN {"none"}
    ELSE IF answers["empty"] > 0 THEN {"no_traffic"}
    ELSE {code \in Codes : \A other \in Codes : answers[other] <= answers[code]}

\* The output is written, and the process and its throttle are gone.
writeOutput ==
    /\ at = "fanout"
    /\ \A q \in Queries : pc[q] = "done"
    /\ blocker' \in diagnoseObservabilityPlus
    /\ at' = "written" /\ UsageRead
    /\ pc' = [q \in Queries |-> "idle"]
    /\ tries' = [q \in Queries |-> 0]
    /\ timestamps' = OnlyCanary(Gone) /\ sent' = CanaryCall(Gone)
    /\ block' = FALSE /\ spent' = {}
    /\ UNCHANGED <<timer, inFlight, waiters, link, frameworkOk, project, scope, projectScope, access, answers, consent>>

-----------------------------------------------------------------------------
\* The orchestrator, on what was written.

\* Data, or a user who accepts to go on with what there is.
Proceed ==
    /\ at = "written"
    /\ \/ blocker = "none" /\ UNCHANGED consent
       \/ blocker = "no_traffic" /\ consent' = consent \cup {"sparse"}
       \/ /\ blocker \notin {"none", "no_traffic", "unsupported_framework"} \cup ToBeFixed
          /\ "limited" \in consent /\ UNCHANGED consent
    /\ at' = "gating"
    /\ UNCHANGED <<throttleVars, link, frameworkOk, project, scope, projectScope, access, answers, blocker, usage>>

\* The user gives up, agrees to a limited audit, or removes the obstacle; the
\* latter two run the collection again.
AskUser ==
    /\ at = "written" /\ blocker # "none"
    /\ \/ at' = "stopped" /\ UNCHANGED <<frameworkOk, consent, blocker, access, answers, usage, scope, projectScope>>
       \/ /\ \/ blocker = "unsupported_framework" /\ frameworkOk' = TRUE /\ UNCHANGED consent
             \/ /\ blocker \notin {"unsupported_framework", "no_traffic"} \cup ToBeFixed
                /\ consent' = consent \cup {"limited"} /\ UNCHANGED frameworkOk
             \/ blocker \notin {"unsupported_framework", "no_traffic"} /\ UNCHANGED <<frameworkOk, consent>>
          /\ at' = "framework" /\ blocker' = "none" /\ access' = "unread"
          /\ answers' = Unasked /\ usage' = "none" /\ scope' = None /\ projectScope' = "none"
    /\ UNCHANGED <<throttleVars, link, project>>

\* A step of the queries that time has nothing to do with.
Step == collectMetrics \/ (\E q \in Queries : Woke(q) \/ Paced(q) \/ Answered(q)) \/ writeOutput

CollectNext ==
    \/ ResolveProject
    \/ CheckFramework
    \/ CheckScope
    \/ checkObservabilityPlusConfiguration
    \/ Canary
    \/ Billing
    \/ Step
    \/ TimePasses
    \/ Proceed
    \/ AskUser

Init == ThrottleInit /\ timestamps = OnlyCanary(Gone) /\ CollectInit

\* The event loop runs what is due, and timers run down.  Nothing makes an
\* answer come: the CLI is started without a timeout.
Loops(q) == Woke(q) \/ (Querying /\ (Meter(q) \/ Retry(q)) /\ UNCHANGED answers)
LoopStep == collectMetrics \/ (\E q \in Queries : Loops(q)) \/ writeOutput

Fairness == WF_vars(LoopStep) /\ WF_vars(Querying /\ Tick /\ UNCHANGED answers)

Spec == Init /\ [][CollectNext]_vars /\ Fairness

-----------------------------------------------------------------------------

\* Metrics, usage and contract are only asked for in the account that owns the
\* project, whatever the links, the login and its current team are, also when
\* the login does not tell its user id (resolveCommandScope, validateProjectScope).
\* One case is left open by the code: a link that names a user, and an answer
\* that names no owner.  The project may then be one of the CLI's current team,
\* and it is the login's account that is asked.
ScopeIsOwners ==
    at \in {"preflight", "canary", "billing", "fanout"} =>
        \/ scope = Owner[project.id]
        \/ projectScope = "readable" /\ project.org \in Users

\* The audit goes on without a single row of metrics only when the user was
\* asked: the schema and canary queries succeeding is not enough (SKILL.md:116,
\* the comment above the final diagnosis).
DataOrConsent ==
    at = "gating" =>
        \/ answers["rows"] > 0
        \/ consent \cap {"limited", "sparse"} # {}

\* Every call of q is answered, sooner or later.
IsAnswered(q) == []<>(pc[q] # "calling")

\* A collection that started its queries ends, through blocks, full windows and
\* retries, if its calls are answered; nothing else makes them end, and one that
\* hangs keeps collectMetrics, which awaits all of them, from ending.  The others
\* still end while a slot is left for them: no query waits in vain for the slot
\* of one that was answered (throttle.run).
CollectionEnds ==
    /\ (\A q \in Queries : IsAnswered(q)) => ((at = "fanout") ~> (at = "written"))
    /\ \A S \in {Q \in SUBSET Queries : Cardinality(Queries \ Q) = Concurrency - 1} :
          (\A q \in S : IsAnswered(q)) =>
             ((at = "fanout") ~> (at = "written" \/ \A q \in S : pc[q] = "done"))
=============================================================================
