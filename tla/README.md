# Nanoni HT Engine: specification and verification

This directory holds TLA+ models of the three programs of this repository that
carry state (the Nanoni backend in `backend/src/nanoni`, the administration
front end in `admin/`, and the audit tool carried in
`.agents/skills/vercel-optimize`), the TLC configurations that model-check them,
and TLAPS proofs of their central theorems. `PROJECT.json` lists the components,
the runs, the mutants used to test the properties, the source lines behind every
definition, the hazards and the theorems.

    tlasany M.tla                          parse a module
    tlc -workers 2 -config X.cfg MCModule  one run
    tlapm MProofs.tla                      the proofs of a module

## 1. The system

**Backend.** A FastAPI process serves an administration API, payment webhooks and
catalogue pages; a worker process polls a job table; both talk to one PostgreSQL
(or SQLite) database and the worker talks to the Telegram Bot API. Paths are
relative to `backend/src/nanoni`.

| Part | State | Operations | Talks to |
|---|---|---|---|
| Job queue and worker (`jobs/engine.py`, `jobs/worker.py`) | table `Job`: status, attempts, run_after, locked_at, lock_owner | `enqueue`, `recover_stale`, `claim_next`, `succeed`, `fail`; `run_once`, `run_forever` | everything asynchronous is a job |
| Commerce (`domain/services/commerce.py`, `api/routers/commerce.py`) | `Order`, `OrderItem`, `Payment`, `PaymentEvent`, `Entitlement` | `create_order`, `process_payment_event` (webhook, recheck), `fulfill_order_entitlements`, `expire_due_entitlements` | payment provider; queue (`fulfill-order:<id>`) |
| Publishing (`domain/services/publishing.py`, `integrations/telegram/publisher.py`) | `PublicationJob`, `Publication`, local files | `enqueue_publication`, `publish_publication_job`, `purge_confirmed_publication_files` | Telegram; queue (`dispatch-publication:<id>`); vault, review, disk |
| Vault (`integrations/telegram/vault.py`) | `VaultObject`, the asset's Telegram reference | `upload_asset_to_vault`, the `UPLOAD_VAULT` job | Telegram; queue |
| Content review (`domain/services/content.py`) | `ContentCandidate`, `ContentPack`, `PackItem`, `Approval` | import of a manifest, `decide_candidate`, `set_pack_selection`, `reorder_pack` | files are promoted on approval |
| Scheduler (`domain/services/scheduler.py`) | `PublicationRule`, `PublicationPlan`, `Alert` | `plan_publication_day` | enqueues publications |
| Media (`media/*`, `integrations/source/*`) | files in `inbox`, `processing`, `ready`, `failed`; `MediaAsset.local_path` | acquisition, watch-folder scan, import, promotion | review; disk |
| Access (`domain/services/access.py`) | `MembershipGrant`, `TelegramDestination` | `resolve_destination`, `plan_membership_grants` | commerce |
| Sales (`domain/services/sales*.py`, `offers.py`) | `Lead`, `LeadEvent`, offers shown | `record_lead_event`, routing of an offer | catalogue |
| Catalogue and administration (`api/routers/admin_config.py`, `catalog.py`) | products, versions, plans, destinations, rules | create, update, delete | read by every other part |

**Front ends.** `admin/` is a Next.js application. Its content page
(`app/content/content-manager.tsx`) and its configuration page
(`app/configuration/configuration-manager.tsx`) are components whose state lives
in the tab; every handler is an `async` function that awaits the API through a
forwarding route and writes that state in between. The other pages show what one
request returned. `helper-extension/` keeps nothing between two clicks.

**Audit tool.** `vercel-optimize` is a pipeline of scripts an assistant runs in
the order of its `SKILL.md`, with files between them:

    collect-signals        which project, whose; metrics and bills, throttled
    gate-investigations    metrics -> candidates, within a budget
    deep-dive, reconcile   a follow-up per candidate, some are disproved
    briefs, investigators  one output file per brief
    collect-sub-agent-outputs, verify-and-regen, render-report

It keeps a semaphore, a rate limiter and a quota block while it collects, and
otherwise the files. It is a tool carried in the repository, not a part of the
product: it talks to none of the other programs.

**What is hard.** *Backend:* no SELECT takes a row lock; the guards are optimistic
reads, unique constraints and the order in which rows are committed. Hence
transactions of two requests, or of a request and the worker, interleave at
their reads and commits; a worker is killed or outlives its 15-minute lock
between any two commits; Telegram may have posted a pack although no answer came;
provider events arrive repeated and in any order; files are removed and moved
outside the transactions. *Front end:* a handler acts on the page as it was
rendered when it was clicked, and other handlers, edits and failed requests come
between its awaits. *Audit:* dozens of queries sleep, retry, queue and give up
together; collections are partial; thresholds are written twice; outputs are
written by somebody else. `PROJECT.json` lists each such hazard at its line with
the properties aimed at it.

**What makes each part correct.**

- Queue: a row and the workers agree on who runs it, a finished job stays
  finished, retries are bounded, every accepted job is settled.
- Commerce: access only against a committed confirmation, once per order item,
  and in the end for every paid order whose job has not used up its attempts;
  payment and order agree and never go back.
- Publishing: no second copy without a database fault, an unknown outcome is
  left marked for an operator, originals are removed only when vaulted and on
  record, and in the end they are removed.
- Review: candidate, pack, flags, records and counter tell one story, a decision
  is final, nothing is approved or rejected without a record, and a row names a
  missing file only during or after a decision that moved it.
- Content page: what is approved is what was ticked, the page is of one
  candidate, a notice is true, buttons are not back before everything is
  written, and the page never stays disabled.
- Configuration page: a form is sent for the resource and row it was filled for,
  a toggle turns what it shows.
- Collection: only the owning account is asked, slots are neither overbooked
  nor idle, the window and the quota are respected, it ends once its calls are
  answered, and the audit goes on only with data or with the user's word.
- Audit: every candidate is launched or listed, the budget is well spent, a
  follow-up that repeats the broad pass disproves nothing, one record per
  candidate, nothing unsound is ready, nothing is held back in silence.
- Vault, scheduler, ingest, access, sales: see sections 7 and 8.

## 2. Modules

| Module | Models | Notes |
|---|---|---|
| `JobQueue` | the job table and the worker loop | `Scan`/`Claim` split the claim transaction at its commit; a discrete clock |
| `Purchase` | abstract: an order is opened, paid, granted | refined by `Commerce` |
| `Commerce` | orders, payment events, fulfilment, catalogue edits | every request is a read step and a commit step |
| `CommerceOverlap` | `Commerce` and whether two transactions have overlapped | a history variable and the properties that hold until then |
| `Publishing` | enqueue, dispatch, send, record, purge | one step per commit and per call to Telegram |
| `ContentReview` | acquisition, decisions, promotion of files | a decision reads, moves file by file, commits |
| `ReviewOverlap` | `ContentReview` and whether two decisions have overlapped | the same for decisions |
| `AdminContent` | the content page and the API routes it calls | one step per answer a handler awaits |
| `AdminConfig` | the configuration page | the same, for one form and one table |
| `QueryThrottle` | semaphore, rate limiter, retries, quota block | ages and timers in ticks |
| `SignalCollector` | `collect-signals` and the CLI client | extends `QueryThrottle`, drives its actions |
| `CandidateGates` | gates, deduplication, selection, reconciliation | pure operators |
| `Audit` | one audit after its collection, script by script | extends `CandidateGates` |
| `MCJobQueue`, `MCCommerce`, `MCPublishing`, `MCContentReview`, `MCAdmin`, `MCCollector`, `MCAudit` | instances for TLC | `MCAdmin` extends both pages: a behaviour stays on one of them |
| `JobQueueProofs`, `CommerceProofs`, `PublishingProofs`, `ContentReviewProofs`, `QueryThrottleProofs`, `SignalCollectorProofs`, `AdminProofs`, `AuditProofs` | theorems | section 5 |

### JobQueue

Variables are the columns of `Job` (`status`, `attempts`, `run_after`,
`locked_at`, `lock_owner`, `created_at` as an insertion rank), a clock, and per
worker its program counter `pc`, what its open claim has read (`scan`) and the
in-memory `Job` its handler runs for (`held`). `recover_stale` and `claim_next`
are one transaction in `run_once`; their SELECTs form the step `Scan` and their
writes and commit the step `Claim`, so anything committed in between is
overwritten as the ORM would do it, by primary key and column by column. Sessions
are made with `expire_on_commit=False`, so `Succeed` works on the values of the
claim, while `Fail` reads the row again after its rollback. `fail` itself reads
and writes in one short transaction and is one step. `FailRaises` is the error
path in which `ensure_transition` raises inside the except block and ends the
process. `ForbidRetry` is the publishing handler's commit of
`attempts := max_attempts`. `recovered` and `crashes` are history variables for
the bounds.

### Purchase and Commerce

`Purchase` has one variable: the phase (none, open, paid, granted) of each
order. `Commerce` keeps the order's and the payment's status, the recorded
events, the fulfilment job with its attempts, the entitlement rows of the
order's item with the version they bind, and the catalogue's version and sale
flag. `tx[s]` is what the open transaction of session `s` has read; webhooks,
rechecks and the admin route are sessions, and `Worker` is the worker process.
`ReadEvent`/`CommitEvent` carry the whole of `process_payment_event`: the
duplicate check, the provider's wording (`TargetOf`), the transition tables
(`MayMove`, `MayPay`), the job, and the two unique-constraint outcomes: a
duplicate event discards the transaction, a duplicate job key rolls the caller's
writes back and keeps only the event (`JobConflict`). `CommitWorkerFulfil`
commits the entitlement, the order and the job's SUCCEEDED together.
`create_order` is one step. `paid`, `sold` and `refused` are history variables
for the properties. The mapping `Phase` to `Purchase` reads only entitlement rows
and order status.

### Publishing

`publish_publication_job`, the `PUBLISH_CONTENT` handler around it and the purge
are a chain of short transactions with the request to Telegram in the middle;
each is a step of the worker's `pc`:

    Take, Claim            recover_stale and claim_next, then the commit
    FindRecord, FindMarker, Inspect   the checks at the head
    Mark                   UPDATE ... SET PUBLISHING, committed
    Send, SendGarbled      the request and what its answer tells
    Refused, Unanswered, Record       what is committed after it
    Unlink, CommitPurge    files first, then local_path := NULL
    Block, GiveUp          the except block
    Succeed, Fail          the end of run_once

`Refuse` is a commit the database refuses, at any of them; `Crash` kills the
process at any of them, during the request too. Time is left out of this module:
a RUNNING job may go stale whenever a worker looks for work. `Asset.status` and
`last_error` decide nothing and are left out. A bot token is assumed to be
configured. Files of purged assets are not acquired again.

### ContentReview

`candidate`, `pack`, `approved`, `archived`, `reviews` (the `Approval` rows,
counted) and `approval_count` are what a decision writes; `selected` and
`local_path` it shares with `set_pack_selection` and the worker; `disk` is the
set of files under `processing/` and `ready/`. `tx[s]` is the open decision of
request `s`:

    ReadCandidate          the candidate's status: undecided, repeated or refused
    ReadPack               the earlier deferral, the selection, the columns as read
    PassOver, Move, MoveFails    promote_to_ready for the next selected asset
    Commit, Abort          db.commit(), or an error and db.rollback()

`ReadPack` and the choice of files are one step although they are several SELECTs,
and an endpoint that only changes the selection is one step (`Reselect`). The
worker's acquisition is `SkipFetch`, or `StartFetch`, `Download` and
`CommitFetch`. It holds the asset's row only if it has cleared a path that names
no file before the download (`locks`), and `Commit` waits for the row then.
`AbortFetch` is a failed download or commit; the job is retried until
`max_attempts`. Downloads take names of their own (`internal_filename` draws a
uuid), so the destination of a move never exists.

The ORM writes only the columns that differ from what was read: `ApproveColumns`,
`RejectColumns` and `DeferColumns` compare with `was`, `approved` and `archived`
of the open decision and not with the row. `stranded`, `faults` and `edits` are
history variables for the properties and the bounds. The files of a pack are
promoted in the order of `Place`; one source owns all candidates.

### AdminContent

`screen` is the component's state: `cand` and `pack`, which are two states in
the code too, the pack's `items` in their order, the ticked ones, the list, `busy`,
the notice, the duplicate verdict. `db` is what the API keeps behind it, through
`decide_candidate`, `set_pack_selection`, `reorder_pack` and
`enqueue_selected_acquisition`, each one transaction here (their overlaps are
`ContentReview`'s subject). The last one refuses a pack that is not from Erome or
has nothing ticked, takes a failed asset back to SELECTED, and queues each item
once: an item asked for before keeps its old job, a job that was given up
included. `AcquireMedia` is the worker on a queued item: it ends without a file
for a box unticked meanwhile, starts, succeeds, or fails with the job retried or
given up. `running[h]` is a handler: the values it closed over
when it was clicked, the step of its body, the calls it waits for and the answers
it holds.

    ClickOpen, ClickRefresh                        never disabled
    ClickImport, ClickReview, ClickDedupe          disabled while busy # None
    toggleItem, moveItem                           edits at any time
    PutOrder, Pair (PutSelection, PatchPack), ReadBack, AfterSave     saveReview
    PostDecision, QueueAcquisition, waitForAcquisition, PostImport    the callers
    ReadOpen, ShowOpen, ReadList, ShowList         openCandidate, refreshOverview

Reading rows and showing them are two steps, so answers overtake one another.
`RequestFails` fails a request before or after the server acted; what was
awaited beside it goes on as an orphan. `openCandidate` catches its own errors and
clears `busy` in its `finally`, inside other handlers too (`ShowOpen`).

### AdminConfig

`page` holds the selected resource, the rows as the last `load` read them, the
form with what it was filled for and what its active field says (`change`), the
edited row and `busy`; `table` is the database, where a row is NEW before it is
created and GONE once it is removed, and ON or OFF between. Only `submit` is
disabled while one runs; it is a POST for a new row or a PATCH with the values of
the form. `select` includes the effect on `[resource]` that empties the form. A
handler writes, reads all resources, and shows them; `Show` of a submit resets
the form to the defaults of the resource its closure names. `Refused` is an answer
404, 409 or 422, of which 404 is the only one possible for a row that is gone
(`Found`): nothing is written, nothing is loaded again, and a submit keeps its form
and its edited row. `Fails` is a request that is lost before or after the server
acted.

### QueryThrottle and SignalCollector

A query is queued, woken, metering (slot in hand, before the limiter), calling,
in backoff, or done. `Resume` is the microtask in which a woken waiter looks at
the block again; nothing else runs before it (`Settled`). Timestamps are ages and
timers are ticks left, so that time needs no bound; a timer may fire late. `block`
is module state and survives until `Midnight`.

`SignalCollector` is `main` of `collect-signals.mjs` in its order:
`ResolveProject`, `CheckFramework`, `CheckScope`,
`checkObservabilityPlusConfiguration`, `Canary`, `Billing`, the queries
(`collectMetrics`, `Woke`, `Paced`, `Answered`, `TimePasses`), `writeOutput`;
then what `SKILL.md` (1.1) tells the assistant to do with the blocker: `Proceed`,
`AskUser`. All link files, logins, memberships and answers are chosen freely,
except that a project is only shown in the account that owns it, and with no other
owner than that, if with any (external). A link may name a team or a user by its
id, or an account by what is not an id (`Slugs`, `Meant`); a project whose answer
names no owner passes for having been read (`projectScope`). The canary's retries
are left out of `Billing`: each comes a pause longer than the window after the
call before it, so at most one of its calls is in the window with the queries.

### CandidateGates and Audit

`CandidateGates` translates the gates with their thresholds over integer counts
(rates are cross-multiplied), `canonicalizeRoute` as a function from labels to
pages, the regular expressions that recognise auth and Flags routes as sets,
sorting and deduplication, `selectLaunchCandidates` with its three passes, and
the checks of the reconciliation. A list is sorted, filtered or taken in turns by
giving each member its place (`Arrange`, `Keep`): the place is the number of those
before it, so no recursion is needed and the lists can be reasoned about. A page's
name is decoded once for a candidate that stays alone, and again for every one it
absorbs (`Canonical`); from the second time on that changes nothing. `Masked` is
a collection of which some query
groups failed. `GateResult` is the output of `gate-investigations.mjs`.

`Audit` runs one script per step. `reconcileInvestigation` decides with every
follow-up that may come back; `Write` is an investigator's file, with nothing,
one or two records in it, for its own or another candidate, or none
(external); `stray` is a file an earlier run may have left in the output directory
(`Leftovers`); `CollectOutputs` applies `Refused` and puts the records in the
manifest's order, or, without briefs, takes what there is; verification and the report are
operators over `records` (`regenPlan`, `withheldRecommendations`, `Renderable`,
`dedupeRecommendations`, `ListedOutcomes`), named like the script's variables.
`Regenerate` replaces a failing record once. A record carries the verdicts of the
checks (`failed`, `unsafe`, `poor`, `review`) and not its text.

## 3. Runs

| Run | Question | Instance |
|---|---|---|
| `job_queue_one_worker` | do rows and worker agree, is a finished job final, is every job settled? | 2 jobs (one without handler, one that forbids retries), 2 crashes, 24 ticks: more than any behaviour needs, so the clock's bound is never what ends it |
| `job_queue_two_workers` | what survives the unlocked claim? | 2 workers, 5 ticks, 1 crash |
| `commerce` | is access paid and single, and granted unless the job's attempts are used up; do payment and order agree until requests overlap; is `Purchase` implemented? | 1 order, 4 events, 2 versions, 2 sessions and the worker, 2 attempts, 2 faults, 1 edit |
| `commerce_second_payment` | finding | 2 confirmations |
| `publishing_edits` | duplicates, markers, originals; is a purge that was cut off repeated? | 1 worker, 2 publications of one pack of 2 files, 2 attempts, 1 fault, 1 crash, 2 edits |
| `publishing_shared_file` | finding | 2 packs whose assets share a file |
| `review` | do rows, flags, counter and files agree, is a decision final, until decisions overlap; what survives then? | 2 requests, 2 packs that share an asset, 1 attempt, 1 fault, 1 edit |
| `admin` | is what is approved, shown, announced and filed true; does the page come back? | 2 handlers at once; content: 2 candidates with 2 items and 1, 3 clicks, 1 edit, 1 failing request, 2 polls; configuration: 2 resources with a row each, there or yet to be made, 2 clicks, 1 failing request, any refused |
| `admin_approves_selected` | finding | the content page, overlapping handlers |
| `collector` | right account, data or consent, slots, window, quota; does it end as far as its calls are answered? | a team's and a user's project, an account named by a slug, every link file and login up to the canary and the billing, a team's project with its owner named to the end, 4 queries over 2 slots, 1 call per window, 1 retry |
| `audit` | are candidates accounted for, the budget well spent, records and ready recommendations sound? | 4 labels (two of one page, an auth route, an endpoint) of 5 kinds of traffic each, 3 surroundings, 4 partial collections, 3 budgets; up to 2 investigations followed to the report with 11 drafts, one of two leftovers or none |
| `audit_held_back` | finding | the same pipeline, poor records and abstentions |

**Why these bounds are enough to be interesting.** Two jobs give ordering and
competition for one worker; one order is enough because no operation reads two
orders; every outcome of the provider's wording that decides anything is present
(one of them in two wordings, PAID and CONFIRMED), so that repeated and
contradictory events in any order occur; two sessions and the worker give every
pairwise race; two faults use up both attempts of a fulfilment, so that orders
that are given up occur beside those that are granted; two publications of one
pack share every file, so that one purge meets the other's
publication; a fault allows two copies, so that the bound on copies is tight; two
edits take an item out of the selection and put it back while the pack is sent.
Two assets in a pack let a decision end between two moves; two packs with a
common asset let one approval find the other's file in `ready/`. Three clicks on
the content page are enough for an opened candidate, a handler acting on it and
another beside it. Four queries over two slots let two waiters queue behind two
holders, so that a wake-up is passed on by a query that gives up; one call per
window makes both holders meet the limiter; the queries do not read what link and login
were, so one kind of project is followed through them (`MCNext`). A budget of two
over up to twenty candidates exercises all three passes of the selection, and a
budget of one the undiversified choice. In `Audit`, `Followed` and `MaxBriefs` say which
investigations are followed to the report; the others end at `"not followed"`.

**History variables that say "until two overlapped".** `overlapped`
(`CommerceOverlap`, `ReviewOverlap`, `AdminContent`) and `crossed` (`AdminConfig`) become true once
two transactions or handlers were open together. Properties named `Serial...`,
`...UnlessOverlapped` and the ones of the pages that begin with it hold before
that and are violated after it; the code promises no more, and the end of this
section says what happens then. So they show nothing about an overlap itself. What
the code keeps in spite of one is stated by the others: `AccessWasPaid`,
`OneEntitlement`, `PaidHasJob` and `ImplementsPurchase` for transactions,
`NoVerdictWithoutRecord` and `DanglingWasMoved` for decisions, `NoticeIsTrue` and
`PageComesBack` for handlers, and `ApprovesOnlySelected` is what they break.

**Findings.** Four runs are expected to be violated: each checks a sentence of
the repository's documents or comments that the code does not keep.

1. A second confirmation for a fulfilled order is answered with an error and its
   event is rolled back (`NoMoneyVanishes`).
2. The purge of a vaulted asset removes the file under another asset that shares
   it and is not in the vault (`KeepsUnvaulted`).
3. The content page can show one candidate beside the pack of another, and an
   approval then sends the positions ticked in the one for the other
   (`ApprovesOnlySelected`).
4. A recommendation below the quality floor that stands behind an abstention is
   held back under another's position and listed nowhere (`HeldBackIsShown`).

**Further disagreements seen, without a run of their own.** An entitlement binds
the version the product points to at fulfilment, where
`docs/ADR-001-DOMAIN-SEPARATION.md:5` speaks of the version sold. A database
error after Telegram accepted a pack makes the handler write FAILED over its
marker, and the retry sends a second copy: `DuplicatesNeedFaults` states the
bound the code does keep. Two overlapping decisions both pass the check of
`decide_candidate`, and the later one turns READY into REJECTED. A link that names
a user is read in the CLI's current team when there is one; if the answer names no
owner, the project passes and the login's account is asked about it, although it
may be the team's: `ScopeIsOwners` excepts this case by name. A row that was removed
while it was being edited stays in the form: its PATCH is answered 404, the form
is kept until it is cancelled or another row or resource is chosen.

**Properties that hold only in part.** `GrantsWhatIsPaid` excepts an order whose
job was given up after every attempt met an error or a crash: it stays PAID, and
no step of the worker ever takes it up again; an administrator may fulfil it.
`CollectionEnds` asks for answers: the CLI is started without a timeout
(`lib/vercel.mjs:87`, `315`, `511`), and a call that hangs keeps its slot and keeps
`collectMetrics`, which awaits all queries, from ending. Its second half says what
remains true then: while fewer calls hang than there are slots, every other query
is answered or gives up. `FilesCoherent` asks for assets with bytes
of their own and no fault so far: of two assets that share a path the second
dangles once the first is approved, and a decision that is cut off after a move
leaves its row dangling (`DanglingWasMoved` says that nothing else does).
`RecordedGetsPurged` speaks of behaviours without an edit. With two worker
processes `HandlerOwnsRow`, `FinishedStays` and the bound on attempts fail (a
claim overwrites what it has not locked), and a second worker's FAILED may
overwrite the first one's marker; the documents list multi-worker operation as
future work (`docs/BASE-OFICIAL.md:2186`), so these are stated for one. Overlapping
requests may leave payment and order in disagreement for good. (Webhooks are
`async def` endpoints without awaits around their database work and so exclude
each other in one process; the other endpoints run in a thread pool.)
`WindowBound` is what the limiter keeps with retries that never ask it: with the
defaults 88 calls in 60 s, within the API's 100 but above the 80 it announces.
`RepeatIsKept` excepts candidates raised under a label that is not its page's own
name, whose follow-up finds no rows, pages with stale answers, and failing
functions of which fewer than a tenth show in the statuses of the requests.
`OneRecordPerCandidate` speaks of a manifest with briefs: without any, when every
candidate was answered before, a leftover is taken beside those answers whatever
it names. Even with briefs it needs that a page's name decodes to itself. The code
does not ensure that: a decoded segment may look like the flag state that is
replaced the next time (`replaceBase64WithDynamic`), and of two labels whose names
meet only then both stay, under one reference, with two briefs and two records. A
candidate that absorbs another is decoded twice, so it takes three such labels.

## 4. Fairness

Worker actions are weakly fair because `run_forever` polls for ever, every call
a handler makes has a timeout, and the deployment restarts a process that ends.
`Take` in `Publishing` is strongly fair: a job that is due again and again is
taken in the end, because jobs are claimed in the order of `run_after`.
The clock of `JobQueue` is weakly fair. In `AdminContent` every handler's next
answer is weakly fair: `fetch` is taken to settle, by an answer or by an error. The
code sets no timeout of its own there, so this is an assumption on the browser and
the server behind it. In `SignalCollector` the event loop runs what is due
(`LoopStep`) and time passes; no answer of the CLI is fair, because nothing bounds its
calls, and `CollectionEnds` names the answers it needs in its premises. Nothing else is
fair: customers, the provider, operators, crashes and faults need not happen, and
polling is bounded by the code itself.

## 5. Proofs

All theorems are proved for every value of the constants.

- **JobQueue.** `TypeCorrect` and `LocksMatch` hold for any number of workers:
  `LockMatchesStatus` is inductive with the types, because every writer of the
  status writes the lock columns in the same commit. For one worker
  (`OneWorker`), `SingleWorkerInv` adds what the open claim and the handler's
  copy still say about the table (`ScanCurrent`, `HoldCurrent`) and that a
  queued job has an attempt left (`AttemptsLeft`); `OwnsRow`, `Bounded`,
  `GivenUp` and the action property `FinishedFinal` follow.
- **Commerce.** For any number of sessions: `SafetyInv` states that what an open
  transaction has read can be out of date only forwards (`SnapshotsSound`), and
  with it `PaidAccess`, `SingleAccess`, `JobForPaid` and `Refinement` (every
  step is a step of `Purchase` or a stutter; the abstract guards are supplied by
  `SafetyInv`) follow. Until two transactions overlap, `PaymentsAgree` and
  `OrdersOnlyAdvance`: agreement of the rows is not inductive, since a commit
  writes what was read before; `SnapshotsFresh` says that the open transaction is
  alone and that the rows are still what it has read, the event it will record
  included.
- **Publishing.** `PurgeSafe` needs no bound on workers but that no two assets
  share a file (finding 2 shows why). `Copies` and `MarkedUntilKnown` are for one
  worker: `SingleWorkerInv` says that the marker stands while its publication is
  delivered (`MarkerHeld`), that PUBLISHED and the record go together, and that
  whatever may be marked again has at most one copy per fault (`CopiesCounted`).
- **ContentReview.** For any number of overlapping decisions: `TypeCorrect` (with
  `TriesCounted`: an open download has used an attempt) and `RecordedVerdicts`,
  inductive as it stands because whatever sets a column adds its row in the same
  commit. While no two assets share their bytes, `FilesTracked`: its invariant
  says that every path on record, and every path an open decision has left, is
  its asset's own and older than the open download (`RowsOwn`, `MovesOwn`,
  `FetchOwn`), so that no move takes the file from under another row. Until two
  decisions overlap, `SerialReview` and `FinalDecisions`: `SerialInv` adds to
  the agreement of the rows what the open decision still knows about them
  (`DecisionCurrent`). `RowsFindFiles` joins the two arguments: with bytes of
  their own, no overlap and no fault, a dangling row is one whose file the open
  decision has moved; `MovesNothingTwice` says that such an asset does not come up
  again and that nothing has been left stranded.
- **AdminConfig.** `FormsFiled` and `TableCurrent` for any resources, rows and
  number of handlers, as long as none runs beside another. `PageInv` says that
  the form is of the row that is edited, that a lone submit closed over the
  resource still selected, and that a table shown without a handler under way is
  the one in the database unless a request was lost; one the server refuses changes
  neither.
- **AdminContent.** `TabInv` is the types with what a handler holds at each step
  of its body (`Shape`): which answers it may be waiting for, that the items it
  carries are a reordering of its pack's, that what it read back is of its pack.
  On it rest three arguments. `NoticesTrue` needs no restriction at all
  (`VerdictInv`): a handler past its last write holds a verdict that no other
  handler can take back, because `decide_candidate` refuses a second one. While
  no handler overlaps another, `AloneInv` says that the lone handler's candidate
  and pack are the page's, that the stored order is the one it sent, and that the
  page is disabled while it has something to write; `ApprovalsExact`,
  `PageTogether` and `WritesDisable` follow.
- **QueryThrottle.** For any number of queries, slots, calls per window and
  delays longer than the window. `SlotsExact`: neither half of `SlotsInUse` is
  inductive alone, since a wake-up is in flight while its query is neither counted
  nor waiting; the invariant counts holders and woken queries together
  (`Promised`) and says that the waiters are different queries, all of them queued
  (`QueueExact`). `RetriesBounded`: the first calls of a window are the ones the
  limiter remembers (`FirstCalls`); `RetriesSpread` counts, for every `k`, the
  retries that are still in the window `k` ticks from now and those that may begin
  by then: each is of another slot, because a delay is longer than the window. The
  window of `WindowBound` is that statement at `k = 0`. `QueueStopped`: under the
  block, the queries that spent quota since and the slots still held are together
  fewer than the slots (`QuotaInv`), and a query that gives up takes itself out.
- **SignalCollector.** `CollectionSlots`, `CollectionBounded` and
  `CollectionStopped` carry the throttle's three theorems over to the collector
  that drives it: outside the fan-out the throttle rests, with nothing but the
  canary's call still in its window (`AtRest`, `DriverInv`), and inside it every step
  is the throttle's own. `ScopeOwned`: whatever the link files, logins and teams, the
  scope is the owner's from the preflight on (`ScopeInv`), unless the link names a
  user and the answer no owner. The case that carries it is a user's project: the
  CLI's own login is taken then, and only the comparison with the owner the API
  names keeps a foreign account out. For every other link the project is read in
  the account the link means, so that having read it is enough (`Unnamed`). `AskedOrServed`: the
  audit goes on with a row of metrics or with the user's consent; the invariant
  ties the blocker to what was answered and to what the user agreed to.

- **Audit.** For all labels, pages, counts, collections and budgets. The lists
  rest on `Arranged`: in a finite set with a strict order, the number of those
  before a member takes every value once. From it follow what sorting, filtering
  (`Kept`) and the turns of the selection (`TurnsTaken`) give, each member once.
  `EveryCandidateAccounted`: each gate raises typed candidates, at most one for a
  label (`SeedsTyped`), and every later list is a rearrangement or a part of the one
  before, so that lengths add up and names are kept. `BudgetSpentWell`: a strong
  candidate that is skipped has its turn after everything launched, and turns
  follow the passes; if its kind has nothing launched, it would itself have had
  the first turn of its kind. `RepeatsAreKept` compares, kind by kind, the
  threshold that raised a candidate (`SlowSeed`, `ErrorsSeed`, `UncachedSeed`,
  `RewrittenSeed`) with the one that would disprove it. `AllAnswered` and
  `ReadyStaysSound` are about the records: `AnswerInv` says that the gate's
  references are exactly those of briefs and early answers, and that nothing of
  this changes until the report. `OneRecordEach` (for `PagesFixed`) adds
  `ApartInv`: deduplication leaves no two candidates with one reference,
  selection and follow-up split them without overlap, and the collector keeps
  one answer for each.

The proofs rest on the named ASSUMEs of the modules, which TLC evaluates in every
run of a module that extends them. They say that the constants have their types,
that the value for "nothing" is none of the others (`PackAssumption`,
`NothingApart`), that no item is in the packs of two candidates
(`ContentAssumption`), and that no delay is shorter than the window
(`ThrottleAssumption`). `OneWorker`, `OwnFiles`, `OwnBlobs` and `PagesFixed` are
hypotheses of the theorems that need them and not assumptions of a module.

Only model-checked: liveness (`EveryJobSettles`, `GrantsWhatIsPaid`,
`RecordedGetsPurged`, `PageComesBack`, `CollectionEnds`), which with ENABLED is
out of the prover's reach; and the findings. Every other property of a run is
stated by a theorem.

## 6. Abstractions

- A job, order or publication is named by its idempotency key; a second
  `enqueue` for the key returns the row and is no step. One consequence is kept:
  a job that was given up cannot be dispatched again.
- Messages, captions, amounts, currencies and payloads are left out: no modelled
  decision reads them.
- An error at commit stands for any error of the database; an error inside
  `run_once`'s own commit after a claim ends the process and is a `Crash`.
- `POST /jobs/enqueue` with a key of the system's own jobs is not modelled.
- On the pages, texts in fields are a form's resource and row; tags and
  microniches decide nothing. Each candidate has one pack, named like it. API
  routes are atomic there, and the requests of one `load` are one step.
- In the audit, text is the verdict the checks give on it, a route is a label and
  the page it decodes to, and of the metrics only what a threshold reads is kept. One
  external host stands for several, each of which the code filters by its own
  numbers. The selection knows a candidate by its
  place where the code compares `candidateIdentity`; after deduplication two
  candidates share that only if their page's name changes when it is decoded again
  and their numbers agree, and then the code loses one of them.
  One tick is the time a call needs; the throttle's defaults (60 s windows and
  retries after 60 s and more) are the assumption that no delay is shorter than
  the window.

## 7. Plan

Done, in this order: the queue, the purchase path, publishing, review with
acquisition and promotion; then the serial properties joined with the
overlapping ones by a history variable; the two pages of the administration; the
audit tool from its collection to its report. What would come next:

1. `Vault`: the upload job, at-least-once in the vault chat, at most one
   `VaultObject` per asset, proved; composed with `Publishing`.
2. `Ingest`: uploads and the watch folder (inbox, processing, failed) against
   rows, with rollbacks, crashes and scans that meet an import not yet committed;
   import of a manifest and its duplicates.
3. `Scheduler`: slots of a day as sets of minutes, spacing within and across
   days, replanning, a failing rule.
4. `Access` and renewal of entitlements, `Leads`, and the versions' immutability
   check of the catalogue.
5. Composition of `JobQueue` with `Commerce` and `Publishing` through an
   abstract queue, and of `AdminContent` with the transactions of
   `ContentReview`; an abstract review implemented while decisions do not overlap.

## 8. Not modelled, and why

- **Publication scheduler**: slot allocation over the minutes of a day is date
  arithmetic; the cases that matter need more slots than fit beside the rest.
  Only the plans of one planning date count as occupied (`scheduler.py:247`), so
  posts of two days may be closer than the spacing: listed as a hazard.
- **Access grants, sales, leads, offers**: no other modelled part reads them. A
  chain of replacement destinations is followed for five hops; a lead's state is
  written without a condition on the state it has.
- **Vault uploads**: only their effect, as `Publishing` sees it.
- **Watch folder and uploads**: see the plan. Album parsing is I/O.
- **Entitlement renewal and expiry** (`expire_due_entitlements`), the publisher's
  HTTP retry loop, the version's immutability check, `import_manifest` beyond the
  candidate it leaves.
- **Copy, scoring and moderation helpers**: pure functions over text and counters.
- **Helper extension** and the pages that only display: no state between clicks.
- **In the audit tool**: the resolution of the CLI on disk and of a workspace's
  packages, the detection of the stack, the content of billing answers, the
  regular expressions that extract and verify claims, the wording of briefs and
  reports, `usage_spike_triage` and two scanner gates that differ only in their
  numbers. Two investigators that name each other's candidate are accepted by the
  collector, and platform recommendations beyond the third are cut: seen, and
  outside the properties.
- **Other agent skills, documentation, migrations, settings**: no program, or
  configuration.
