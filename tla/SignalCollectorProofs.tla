----------------------- MODULE SignalCollectorProofs -----------------------
(***************************************************************************)
(* What the collection of signals promises for every set of accounts,      *)
(* projects, links, logins and failure codes: it asks in the owner's       *)
(* account wherever the API names one, and no audit goes on without        *)
(* metrics that nobody was asked about.                                    *)
(***************************************************************************)
EXTENDS SignalCollector, QueryThrottleProofs

Scoped == {"preflight", "canary", "billing", "fanout"}

\* The one case that is left open: a user's link, and no owner in the answer.
Unnamed == projectScope = "readable" /\ project.org \in Users

ScopeInv == at \in Scoped => scope = Owner[project.id] \/ Unnamed

\* A project that passed belongs to the account the command runs in, if the
\* link is not of a user or the API has named the owner.
LEMMA OwnScope ==
  ASSUME NEW p, NEW login \in Users, NEW told \in BOOLEAN,
         NEW team \in Teams \cup {None}, NEW member \in SUBSET Teams, NEW named \in BOOLEAN,
         NEW who, who = [login |-> login, told |-> told, team |-> team, member |-> member],
         resolveCommandScope(p.org, who) # None, validateProjectScope(p, who, named)
  PROVE  resolveCommandScope(p.org, who) = Owner[p.id] \/ (named = FALSE /\ p.org \in Users)
<1>1. CASE p.org \notin Accounts
  <2>1. p.org \notin Users /\ resolveCommandScope(p.org, who) = Meant(p.org)
    BY <1>1 DEF resolveCommandScope, Accounts
  <2> QED
    BY <2>1 DEF validateProjectScope, Reads
<1>2. CASE p.org \in Teams
  <2>1. p.org \notin Users /\ p.org \notin Slugs
    BY <1>2, CollectorAssumption DEF Accounts
  <2>2. resolveCommandScope(p.org, who) = p.org
    BY <1>2 DEF resolveCommandScope
  <2> QED
    BY <2>1, <2>2 DEF validateProjectScope, Reads, Meant
<1>3. CASE p.org \in Users /\ named
  <2>1. Owner[p.id] = p.org /\ p.org \in {login, team}
    BY <1>3 DEF validateProjectScope, Reads
  <2>2. p.org = login /\ p.org \notin Teams
    BY <1>3, <2>1, CollectorAssumption DEF Accounts, Orgs
  <2>3. who.login = p.org
    BY <2>2
  <2>4. resolveCommandScope(p.org, who) = who.login
    BY <2>2, <2>3 DEF resolveCommandScope
  <2> QED
    BY <2>1, <2>3, <2>4
<1> QED
  BY <1>1, <1>2, <1>3 DEF Accounts

LEMMA CheckScopeOwns == ASSUME CheckScope PROVE ScopeInv'
<1>1. PICK login \in Users, told \in BOOLEAN, team \in Teams \cup {None},
           member \in SUBSET Teams, named \in BOOLEAN :
        LET who == [login |-> login, told |-> told, team |-> team, member |-> member \cup ({team} \ {None})]
            cliScope == resolveCommandScope(project.org, who) IN
        IF cliScope # None /\ validateProjectScope(project, who, named)
        THEN /\ at' = "preflight" /\ scope' = cliScope
             /\ projectScope' = IF named THEN "owner" ELSE "readable"
        ELSE at' = "stopped" /\ UNCHANGED <<scope, projectScope>>
  BY DEF CheckScope
<1> DEFINE members == member \cup ({team} \ {None})
           who == [login |-> login, told |-> told, team |-> team, member |-> members]
           cliScope == resolveCommandScope(project.org, who)
<1>2. members \in SUBSET Teams
  OBVIOUS
<1>3. UNCHANGED project
  BY DEF CheckScope
<1> HIDE DEF members
<1>4. CASE cliScope # None /\ validateProjectScope(project, who, named)
  <2>1. cliScope = Owner[project.id] \/ (named = FALSE /\ project.org \in Users)
    BY <1>2, <1>4, OwnScope
  <2>2. scope' = cliScope /\ projectScope' = IF named THEN "owner" ELSE "readable"
    BY <1>1, <1>4 DEF members
  <2> HIDE DEF cliScope
  <2> QED
    BY <1>3, <2>1, <2>2 DEF ScopeInv, Unnamed
<1>5. CASE ~(cliScope # None /\ validateProjectScope(project, who, named))
  <2>1. at' = "stopped"
    BY <1>1, <1>5 DEF members
  <2> QED
    BY <2>1 DEF ScopeInv, Scoped
<1> QED
  BY <1>4, <1>5

LEMMA ScopeInvNext == ScopeInv /\ [CollectNext]_vars => ScopeInv'
<1> SUFFICES ASSUME ScopeInv, [CollectNext]_vars PROVE ScopeInv'
  OBVIOUS
<1>1. CASE ResolveProject \/ CheckFramework \/ Proceed
  BY <1>1 DEF ResolveProject, CheckFramework, Proceed, ScopeInv, Scoped, Unnamed
<1>2. CASE CheckScope
  BY <1>2, CheckScopeOwns
<1>3. CASE checkObservabilityPlusConfiguration
  BY <1>3 DEF checkObservabilityPlusConfiguration, ScopeInv, Scoped, Unnamed
<1>4. CASE Canary
  BY <1>4 DEF Canary, Blocked, ScopeInv, Scoped, Unnamed
<1>5. CASE Billing
  BY <1>5 DEF Billing, ScopeInv, Scoped, Unnamed
<1>6. CASE Step
  <2>1. CASE collectMetrics \/ \E q \in Queries : Woke(q) \/ Paced(q) \/ Answered(q)
    BY <2>1 DEF collectMetrics, Woke, Paced, Answered, Querying, ScopeInv, Unnamed
  <2>2. CASE writeOutput
    BY <2>2 DEF writeOutput, ScopeInv, Scoped, Unnamed
  <2> QED
    BY <1>6, <2>1, <2>2 DEF Step
<1>7. CASE TimePasses
  BY <1>7 DEF TimePasses, Querying, ScopeInv, Unnamed
<1>8. CASE AskUser
  BY <1>8 DEF AskUser, ScopeInv, Scoped, Unnamed
<1>9. CASE UNCHANGED vars
  BY <1>9 DEF vars, collectVars, ScopeInv, Unnamed
<1> QED
  BY <1>1, <1>2, <1>3, <1>4, <1>5, <1>6, <1>7, <1>8, <1>9 DEF CollectNext

(* Whatever the link files, the login, its current team and its memberships *)
(* are, metrics, billing and contract are only read in the account that     *)
(* owns the project, unless the link names a user and the API's answer no   *)
(* owner (resolveCommandScope, validateProjectScope).                       *)
THEOREM ScopeOwned == Spec => []ScopeIsOwners
<1>1. Init => ScopeInv
  BY DEF Init, CollectInit, ScopeInv, Scoped
<1>2. ScopeInv /\ [CollectNext]_vars => ScopeInv'
  BY ScopeInvNext
<1>3. ScopeInv => ScopeIsOwners
  BY DEF ScopeInv, Scoped, Unnamed, ScopeIsOwners
<1> QED
  BY <1>1, <1>2, <1>3, PTL DEF Spec

-----------------------------------------------------------------------------

\* A verdict that names no obstacle is only written over rows.
VerdictInv ==
    /\ access \in {"unread", "readable", "no_oplus_probe", "project_disabled"}
    /\ at = "written" /\ blocker = "none" => answers["rows"] > 0

DataInv == VerdictInv /\ DataOrConsent

LEMMA BlockedNames ==
  ASSUME NEW reason, reason # "none", Blocked(reason), UNCHANGED <<access, answers, consent>>, DataInv
  PROVE  DataInv'
BY DEF Blocked, DataInv, VerdictInv, DataOrConsent

LEMMA CanaryData == DataInv /\ Canary => DataInv'
<1> SUFFICES ASSUME DataInv, Canary PROVE DataInv'
  OBVIOUS
<1>1. UNCHANGED <<access, answers, consent>>
  BY DEF Canary
<1>2. CASE at' = "billing" /\ blocker' = "none"
  BY <1>1, <1>2 DEF DataInv, VerdictInv, DataOrConsent
<1>3. ASSUME NEW code \in Codes \cup ToBeFixed, Blocked(code) PROVE DataInv'
  <2>1. code # "none"
    BY CollectorAssumption DEF ToBeFixed
  <2> QED
    BY <1>1, <1>3, <2>1, BlockedNames
<1>4. ASSUME Blocked(access) PROVE DataInv'
  <2>1. access # "none"
    BY DEF DataInv, VerdictInv
  <2> QED
    BY <1>1, <1>4, <2>1, BlockedNames
<1> QED
  BY <1>2, <1>3, <1>4 DEF Canary

LEMMA OutputData == DataInv /\ writeOutput => DataInv'
<1> SUFFICES ASSUME DataInv, writeOutput PROVE DataInv'
  OBVIOUS
<1>1. at' = "written" /\ UNCHANGED <<access, answers, consent>> /\ blocker' \in diagnoseObservabilityPlus
  BY DEF writeOutput
<1>2. blocker' = "none" => answers["rows"] > 0
  BY <1>1, CollectorAssumption DEF diagnoseObservabilityPlus
<1> QED
  BY <1>1, <1>2 DEF DataInv, VerdictInv, DataOrConsent

LEMMA ProceedData == DataInv /\ Proceed => DataInv'
BY DEF DataInv, VerdictInv, DataOrConsent, Proceed

LEMMA DataInvNext == DataInv /\ [CollectNext]_vars => DataInv'
<1> SUFFICES ASSUME DataInv, [CollectNext]_vars PROVE DataInv'
  OBVIOUS
<1> USE DEF DataInv, VerdictInv, DataOrConsent
<1>1. CASE ResolveProject
  BY <1>1 DEF ResolveProject
<1>2. CASE CheckFramework
  BY <1>2 DEF CheckFramework
<1>3. CASE CheckScope
  <2>1. at' \in {"preflight", "stopped"} /\ UNCHANGED <<access, answers, blocker, consent>>
    BY <1>3 DEF CheckScope
  <2> QED
    BY <2>1
<1>4. CASE checkObservabilityPlusConfiguration
  BY <1>4 DEF checkObservabilityPlusConfiguration
<1>5. CASE Canary
  BY <1>5, CanaryData
<1>6. CASE Billing
  BY <1>6 DEF Billing
<1>7. CASE Step
  <2>1. CASE collectMetrics \/ \E q \in Queries : Woke(q) \/ Paced(q) \/ Answered(q)
    BY <2>1 DEF collectMetrics, Woke, Paced, Answered, Querying
  <2>2. CASE writeOutput
    BY <2>2, OutputData
  <2> QED
    BY <1>7, <2>1, <2>2 DEF Step
<1>8. CASE TimePasses
  BY <1>8 DEF TimePasses, Querying
<1>9. CASE Proceed
  BY <1>9, ProceedData
<1>10. CASE AskUser
  BY <1>10 DEF AskUser
<1>11. CASE UNCHANGED vars
  BY <1>11 DEF vars, collectVars
<1> QED
  BY <1>1, <1>2, <1>3, <1>4, <1>5, <1>6, <1>7, <1>8, <1>9, <1>10, <1>11 DEF CollectNext

(* An audit goes on to its gates only with rows of metrics, or after the    *)
(* user has agreed to a limited or to a sparse audit, whichever queries     *)
(* fail and however often the collection is run again.                      *)
THEOREM AskedOrServed == Spec => []DataOrConsent
<1>1. Init => DataInv
  BY DEF Init, CollectInit, DataInv, VerdictInv, DataOrConsent
<1>2. DataInv /\ [CollectNext]_vars => DataInv'
  BY DataInvNext
<1>3. DataInv => DataOrConsent
  BY DEF DataInv
<1> QED
  BY <1>1, <1>2, <1>3, PTL DEF Spec

-----------------------------------------------------------------------------
\* The collection drives the throttle: between two fan-outs it is at rest.

AtRest ==
    /\ pc = [q \in Queries |-> "idle"]
    /\ tries = [q \in Queries |-> 0]
    /\ inFlight = 0 /\ waiters = <<>> /\ block = FALSE /\ spent = {}

DriverInv == ThrottleInv /\ (at # "fanout" => AtRest)

LEMMA DriverInit == Init => DriverInv
<1> SUFFICES ASSUME Init PROVE DriverInv
  OBVIOUS
<1>1. ThrottleInv
  BY InitRested, ThrottleInvRested DEF Init
<1> QED
  BY <1>1 DEF Init, ThrottleInit, DriverInv, AtRest

\* Billing only reads while nothing else runs; before a fan-out, the canary
\* is in the window, or has left it.
LEMMA BillingDrives == DriverInv /\ Billing => DriverInv'
<1> SUFFICES ASSUME DriverInv, Billing PROVE DriverInv'
  OBVIOUS
<1>1. UNCHANGED <<pc, timer, tries, inFlight, waiters, block, spent>> /\ at = "billing"
  BY DEF Billing
<1>2. AtRest /\ timer = [q \in Queries |-> timer[q]]
  BY <1>1 DEF DriverInv, ThrottleInv, Books, Known
<1>3. CASE blocker = "none"
  <2>1. PICK age \in 0..Gone : timestamps' = OnlyCanary(age) /\ sent' = CanaryCall(age)
    BY <1>3 DEF Billing
  <2>2. Rested(age)'
    BY <1>1, <1>2, <2>1 DEF Rested, AtRest, OnlyCanary, CanaryCall
  <2>3. ThrottleInv'
    BY <2>2, ThrottleInvRested, PTL
  <2> QED
    BY <1>1, <1>2, <2>3 DEF DriverInv, AtRest
<1>4. CASE blocker # "none"
  <2>1. UNCHANGED throttleVars
    BY <1>1, <1>4 DEF Billing, throttleVars
  <2> QED
    BY <1>2, <2>1, ThrottleInvNext DEF DriverInv, AtRest, throttleVars
<1> QED
  BY <1>3, <1>4

\* Every query is done, so that no slot is held and nobody waits for one.
LEMMA OutputDrives == DriverInv /\ writeOutput => DriverInv'
<1> SUFFICES ASSUME DriverInv, writeOutput PROVE DriverInv'
  OBVIOUS
<1> USE DEF DriverInv, ThrottleInv, SlotInv
<1>1. \A q \in Queries : pc[q] = "done"
  BY DEF writeOutput
<1>2. inFlight = 0
  <2>1. Holders = {}
    BY <1>1 DEF Holders, Holding
  <2> QED
    BY <2>1, FS_EmptySet DEF CountExact
<1>3. waiters = <<>>
  <2> SUFFICES ASSUME waiters # <<>> PROVE FALSE
    OBVIOUS
  <2>1. 1 \in 1..Len(waiters) /\ waiters[1] \in Queries
    BY DEF Shapes
  <2> QED
    BY <1>1, <2>1 DEF QueueExact
<1>5. PICK age \in 0..Gone : age = Gone
  BY ThrottleAssumption DEF Gone
<1>4. Rested(age)'
  <2>1. timer = [q \in Queries |-> timer[q]]
    BY DEF Books, Known
  <2> QED
    BY <1>2, <1>3, <1>5, <2>1 DEF writeOutput, Rested, OnlyCanary, CanaryCall, Gone
<1>6. ThrottleInv'
  BY <1>4, ThrottleInvRested, PTL
<1> QED
  BY <1>4, <1>6 DEF Rested, AtRest

LEMMA DriverNext == DriverInv /\ [CollectNext]_vars => DriverInv'
<1> SUFFICES ASSUME DriverInv, [CollectNext]_vars PROVE DriverInv'
  OBVIOUS
<1>1. ASSUME UNCHANGED throttleVars, at = "fanout" => at' = "fanout" PROVE DriverInv'
  <2>1. ThrottleInv'
    BY <1>1, ThrottleInvNext DEF DriverInv
  <2>2. UNCHANGED <<pc, tries, inFlight, waiters, block, spent>>
    BY <1>1 DEF throttleVars
  <2>3. CASE at # "fanout"
    <3>1. AtRest
      BY <2>3 DEF DriverInv
    <3> QED
      BY <2>1, <2>2, <3>1 DEF DriverInv, AtRest
  <2> QED
    BY <1>1, <2>1, <2>3 DEF DriverInv
<1>2. ASSUME Querying, ThrottleNext PROVE DriverInv'
  BY <1>2, ThrottleInvNext DEF DriverInv, Querying
<1>3. CASE ResolveProject \/ CheckFramework \/ Proceed \/ AskUser
  BY <1>1, <1>3 DEF ResolveProject, CheckFramework, Proceed, AskUser
<1>4. CASE CheckScope
  <2>1. at = "scope" /\ UNCHANGED throttleVars
    BY <1>4 DEF CheckScope
  <2> QED
    BY <1>1, <2>1
<1>5. CASE checkObservabilityPlusConfiguration
  BY <1>1, <1>5 DEF checkObservabilityPlusConfiguration
<1>6. CASE Canary
  BY <1>1, <1>6 DEF Canary, Blocked
<1>7. CASE Billing
  BY <1>7, BillingDrives
<1>8. CASE Step
  <2>1. CASE collectMetrics
    BY <1>2, <2>1 DEF collectMetrics, ThrottleNext
  <2>2. ASSUME NEW q \in Queries, Woke(q) \/ Paced(q) \/ Answered(q) PROVE DriverInv'
    <3>1. Querying
      BY <2>2 DEF Woke, Paced, Answered
    <3>2. ThrottleNext
      BY <2>2 DEF Woke, Paced, Answered, ThrottleNext
    <3> QED
      BY <1>2, <3>1, <3>2
  <2>3. CASE writeOutput
    BY <2>3, OutputDrives
  <2> QED
    BY <1>8, <2>1, <2>2, <2>3 DEF Step
<1>9. CASE TimePasses
  BY <1>2, <1>9 DEF TimePasses, ThrottleNext
<1>10. CASE UNCHANGED vars
  BY <1>1, <1>10 DEF vars, collectVars
<1> QED
  BY <1>3, <1>4, <1>5, <1>6, <1>7, <1>8, <1>9, <1>10 DEF CollectNext

LEMMA Driven == Spec => []ThrottleInv
<1>1. DriverInv => ThrottleInv
  BY DEF DriverInv
<1> QED
  BY <1>1, DriverInit, DriverNext, PTL DEF Spec

(* In a whole collection, with its canary and however often it is run       *)
(* again, the semaphore is exact: between two runs no slot is held.         *)
THEOREM CollectionSlots == Spec => []SlotsInUse
BY Driven, ThrottlePromises, PTL

(* The canary, which goes past the semaphore, still leaves the calls of a   *)
(* window within the limiter's number and one retry per slot.               *)
THEOREM CollectionBounded == Spec => []WindowBound
BY Driven, ThrottlePromises, PTL

(* A quota answer stops the queries of the collection that still wait, and  *)
(* a new run starts with the block forgotten and nothing spent against it.  *)
THEOREM CollectionStopped == Spec => []QuotaStopsQueue
BY Driven, ThrottlePromises, PTL
=============================================================================
