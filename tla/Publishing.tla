----------------------------- MODULE Publishing -----------------------------
(***************************************************************************)
(* A pack is queued for a Telegram destination, sent by the worker, put on *)
(* record and its local originals are purged (domain/services/publishing,  *)
(* the PUBLISH_CONTENT handler of jobs/worker and, as far as its outcomes  *)
(* go, integrations/telegram/publisher).                                   *)
(*                                                                         *)
(* The handler is a chain of short transactions with a call to Telegram in *)
(* the middle; each commit, and the call, is a step, so that the process   *)
(* may be killed, or the database refuse, between any two.  The job table  *)
(* is JobQueue's, here without time: a RUNNING job may go stale whenever a *)
(* worker looks for work.  Asset.status and the texts kept in last_error   *)
(* decide nothing and are left out.                                        *)
(***************************************************************************)
EXTENDS Naturals, FiniteSets

CONSTANTS
  Packs, Assets, Files,
  ItemsOf,       \* pack -> its assets (PackItem rows)
  FileOf,        \* asset -> the file local_path names; two may share one
  Publications,  \* idempotency keys publish:<pack>:<destination>:<topic>
  PackOf,        \* publication -> its pack
  Workers, None,
  MaxAttempts,   \* Job.max_attempts of a dispatch job
  MaxFaults,     \* bound: refused commits, failed unlinks, malformed answers
  MaxCrashes,    \* bound: worker processes killed
  MaxEdits,      \* bound: changes of a selection or of a destination
  MaxClaims      \* bound: claims of one job

ASSUME PublishingConstants ==
  /\ ItemsOf \in [Packs -> SUBSET Assets]
  /\ FileOf \in [Assets -> Files]
  /\ PackOf \in [Publications -> Packs]
  /\ None \notin Publications
  /\ MaxAttempts \in Nat \ {0} /\ MaxFaults \in Nat /\ MaxCrashes \in Nat
  /\ MaxEdits \in Nat /\ MaxClaims \in Nat

VARIABLES
  approved,  \* packs that are READY and approved
  selected,  \* pack -> assets of the items with selected = TRUE
  active,    \* publications whose destination and topic are active
  vaulted,   \* assets with a file reference and a verified VaultObject
  local,     \* assets whose local_path is not NULL
  disk,      \* files that exist
  pub,       \* PublicationJob.status, "ABSENT" before the row exists
  recorded,  \* publications with a Publication row
  job, attempts,  \* the dispatch job dispatch-publication:<id>
  pc,        \* what each worker process is doing
  cur,       \* per worker: the publication it works on
  got,       \* per worker: Job.attempts as its claim read it
  media,     \* per worker: assets it sends, later those it purges
  posts,     \* history: times the pack became visible in the destination
  faults, crashes, edits   \* history: for the bounds

catalogue == <<approved, selected, active, edits>>
library   == <<vaulted, local, disk>>
dispatch  == <<job, attempts>>
local_mem == <<cur, got, media>>
vars == <<catalogue, library, pub, recorded, dispatch, pc, local_mem,
          posts, faults, crashes>>

\* Inside publish_publication_job and the purge: an error reaches the
\* handler's own except block.
Guarded == {"check", "marking", "refused", "ambiguous", "sent", "purging", "purged"}
\* In an except block or after the handler: an error goes on to run_once.
Exposed == {"unsure", "failing", "done"}
Working == Guarded \cup Exposed \cup {"claiming", "sending", "raising"}

(* Every variable keeps its type; what an actor has in hand fits its place. *)
TypeOK ==
  /\ approved \subseteq Packs
  /\ selected \in [Packs -> SUBSET Assets]
  /\ active \subseteq Publications
  /\ vaulted \subseteq Assets /\ local \subseteq Assets /\ disk \subseteq Files
  /\ pub \in [Publications -> {"ABSENT", "SCHEDULED", "PUBLISHING", "PUBLISHED", "FAILED"}]
  /\ recorded \subseteq Publications
  /\ job \in [Publications -> {"ABSENT", "QUEUED", "RUNNING", "SUCCEEDED", "FAILED_FINAL"}]
  /\ attempts \in [Publications -> Nat]
  /\ pc \in [Workers -> Working \cup {"idle", "dead"}]
  /\ cur \in [Workers -> Publications \cup {None}]
  /\ \A w \in Workers : pc[w] \in Working => cur[w] \in Publications
  /\ got \in [Workers -> Nat]
  /\ media \in [Workers -> SUBSET Assets]
  /\ posts \in [Publications -> Nat]
  /\ faults \in Nat /\ crashes \in Nat /\ edits \in Nat

Init ==
  /\ approved = {}
  /\ selected = ItemsOf
  /\ active = Publications
  /\ vaulted = {} /\ local = Assets /\ disk = {FileOf[a] : a \in Assets}
  /\ pub = [p \in Publications |-> "ABSENT"]
  /\ recorded = {}
  /\ job = [p \in Publications |-> "ABSENT"]
  /\ attempts = [p \in Publications |-> 0]
  /\ pc = [w \in Workers |-> "idle"]
  /\ cur = [w \in Workers |-> None]
  /\ got = [w \in Workers |-> 0]
  /\ media = [w \in Workers |-> {}]
  /\ posts = [p \in Publications |-> 0]
  /\ faults = 0 /\ crashes = 0 /\ edits = 0

-----------------------------------------------------------------------------
(* The API and the other jobs, at any time.                                 *)

\* decide_candidate(APPROVED); the decision is final
Approve(k) ==
  /\ k \notin approved
  /\ selected[k] # {}
  /\ approved' = approved \cup {k}
  /\ UNCHANGED <<selected, active, edits, library, pub, recorded, dispatch,
                 pc, local_mem, posts, faults, crashes>>

\* set_pack_selection() asks neither for the pack's status nor for its
\* publications
Reselect(k, chosen) ==
  /\ edits < MaxEdits
  /\ chosen # selected[k]
  /\ selected' = [selected EXCEPT ![k] = chosen]
  /\ edits' = edits + 1
  /\ UNCHANGED <<approved, active, library, pub, recorded, dispatch,
                 pc, local_mem, posts, faults, crashes>>

ToggleDestination(p) ==
  /\ edits < MaxEdits
  /\ active' = IF p \in active THEN active \ {p} ELSE active \cup {p}
  /\ edits' = edits + 1
  /\ UNCHANGED <<approved, selected, library, pub, recorded, dispatch,
                 pc, local_mem, posts, faults, crashes>>

\* upload_asset_to_vault() when it succeeds: the upload needs the file
VaultUpload(a) ==
  /\ a \notin vaulted
  /\ a \in local /\ FileOf[a] \in disk
  /\ vaulted' = vaulted \cup {a}
  /\ UNCHANGED <<catalogue, local, disk, pub, recorded, dispatch,
                 pc, local_mem, posts, faults, crashes>>

Publishable(p) ==
  LET k == PackOf[p] IN
  k \in approved /\ p \in active /\ selected[k] # {} /\ selected[k] \subseteq vaulted

\* A key already used returns the rows it has, whatever has become of them
\* (no step).
EnqueuePublication(p) ==
  /\ pub[p] = "ABSENT"
  /\ Publishable(p)
  /\ pub' = [pub EXCEPT ![p] = "SCHEDULED"]
  /\ job' = [job EXCEPT ![p] = "QUEUED"]
  /\ UNCHANGED <<catalogue, library, recorded, attempts,
                 pc, local_mem, posts, faults, crashes>>

-----------------------------------------------------------------------------
(* run_once(): recover_stale and claim_next read without a lock, and write. *)

Goto(w, label) == pc' = [pc EXCEPT ![w] = label]

\* a RUNNING job is one whose lock has gone stale: it is requeued and
\* claimed in the same transaction
Take(w, p) ==
  /\ pc[w] = "idle"
  /\ job[p] \in {"QUEUED", "RUNNING"}
  /\ attempts[p] < MaxClaims
  /\ cur' = [cur EXCEPT ![w] = p]
  /\ got' = [got EXCEPT ![w] = attempts[p]]
  /\ Goto(w, "claiming")
  /\ UNCHANGED <<catalogue, library, pub, recorded, dispatch, media,
                 posts, faults, crashes>>

Claim(w) ==
  /\ pc[w] = "claiming"
  /\ job' = [job EXCEPT ![cur[w]] = "RUNNING"]
  /\ attempts' = [attempts EXCEPT ![cur[w]] = got[w] + 1]
  /\ Goto(w, "check")
  /\ UNCHANGED <<catalogue, library, pub, recorded, local_mem, posts, faults, crashes>>

-----------------------------------------------------------------------------
(* publish_publication_job()                                                *)

Quiet == UNCHANGED <<catalogue, dispatch, cur, got, faults, crashes>>

\* on record already: only the status is put right
FindRecord(w) ==
  /\ pc[w] = "check"
  /\ cur[w] \in recorded
  /\ pub' = [pub EXCEPT ![cur[w]] = "PUBLISHED"]
  /\ Goto(w, "purging")
  /\ Quiet /\ UNCHANGED <<library, recorded, media, posts>>

\* an earlier attempt has left its marker: the outcome is not known
FindMarker(w) ==
  /\ pc[w] = "check"
  /\ cur[w] \notin recorded
  /\ pub[cur[w]] = "PUBLISHING"
  /\ Goto(w, "unsure")
  /\ Quiet /\ UNCHANGED <<library, pub, recorded, media, posts>>

Inspect(w) ==
  /\ pc[w] = "check"
  /\ cur[w] \notin recorded
  /\ pub[cur[w]] # "PUBLISHING"
  /\ Goto(w, IF Publishable(cur[w]) THEN "marking" ELSE "failing")
  /\ media' = [media EXCEPT ![w] = selected[PackOf[cur[w]]]]
  /\ Quiet /\ UNCHANGED <<library, pub, recorded, posts>>

\* mutant: the marker is not committed before the request
MarkUncommitted(w) ==
  /\ pc[w] = "marking"
  /\ Goto(w, "sending")
  /\ Quiet /\ UNCHANGED <<library, pub, recorded, media, posts>>

\* UPDATE ... WHERE status IN (...): one row or none
Mark(w) ==
  /\ pc[w] = "marking"
  /\ IF pub[cur[w]] \in {"SCHEDULED", "FAILED"}
     THEN pub' = [pub EXCEPT ![cur[w]] = "PUBLISHING"] /\ Goto(w, "sending")
     ELSE UNCHANGED pub /\ Goto(w, "unsure")
  /\ Quiet /\ UNCHANGED <<library, recorded, media, posts>>

Post(w) == posts' = [posts EXCEPT ![cur[w]] = @ + 1]

\* publish_pack(): accepted; refused by Telegram or by its own checks; or no
\* usable answer (5xx, timeout), whether or not the messages are visible
Send(w) ==
  /\ pc[w] = "sending"
  /\ \/ Goto(w, "sent") /\ Post(w)
     \/ Goto(w, "refused") /\ UNCHANGED posts
     \/ Goto(w, "ambiguous") /\ (Post(w) \/ UNCHANGED posts)
  /\ Quiet /\ UNCHANGED <<library, pub, recorded, media>>

\* accepted, but without the message ids the caller looks for
SendGarbled(w) ==
  /\ pc[w] = "sending"
  /\ faults < MaxFaults
  /\ faults' = faults + 1
  /\ Post(w)
  /\ Goto(w, "refused")
  /\ UNCHANGED <<catalogue, library, pub, recorded, dispatch, local_mem, crashes>>

Refused(w) ==
  /\ pc[w] = "refused"
  /\ pub' = [pub EXCEPT ![cur[w]] = "FAILED"]
  /\ Goto(w, "failing")
  /\ Quiet /\ UNCHANGED <<library, recorded, media, posts>>

\* mutant: no answer is taken for a refusal
UnansweredIsRefusal(w) ==
  /\ pc[w] = "ambiguous"
  /\ Goto(w, "failing")
  /\ Quiet /\ UNCHANGED <<library, pub, recorded, media, posts>>

\* only last_error is written: the marker stays
Unanswered(w) ==
  /\ pc[w] = "ambiguous"
  /\ Goto(w, "unsure")
  /\ Quiet /\ UNCHANGED <<library, pub, recorded, media, posts>>

Record(w) ==
  /\ pc[w] = "sent"
  /\ recorded' = recorded \cup {cur[w]}
  /\ pub' = [pub EXCEPT ![cur[w]] = "PUBLISHED"]
  /\ Goto(w, "purging")
  /\ Quiet /\ UNCHANGED <<library, media, posts>>

-----------------------------------------------------------------------------
(* purge_confirmed_publication_files(): what is selected NOW                *)

\* mutant: nobody asks for the vault
PurgeableAny(p) == selected[PackOf[p]] \cap local

Purgeable(p) == selected[PackOf[p]] \cap local \cap vaulted

Unlink(w) ==
  /\ pc[w] = "purging"
  /\ media' = [media EXCEPT ![w] = Purgeable(cur[w])]
  /\ disk' = disk \ {FileOf[a] : a \in Purgeable(cur[w])}
  /\ Goto(w, "purged")
  /\ Quiet /\ UNCHANGED <<vaulted, local, pub, recorded, posts>>

\* an unlink raises after some files are gone
UnlinkFails(w) ==
  /\ pc[w] = "purging"
  /\ faults < MaxFaults
  /\ faults' = faults + 1
  /\ \E done \in SUBSET Purgeable(cur[w]) : disk' = disk \ {FileOf[a] : a \in done}
  /\ Goto(w, "failing")
  /\ UNCHANGED <<catalogue, vaulted, local, pub, recorded, dispatch, local_mem,
                 posts, crashes>>

\* mutant: local_path is kept
PurgeKeepsPath(w) ==
  /\ pc[w] = "purged"
  /\ Goto(w, "done")
  /\ Quiet /\ UNCHANGED <<library, pub, recorded, media, posts>>

CommitPurge(w) ==
  /\ pc[w] = "purged"
  /\ local' = local \ media[w]
  /\ Goto(w, "done")
  /\ Quiet /\ UNCHANGED <<vaulted, disk, pub, recorded, media, posts>>

-----------------------------------------------------------------------------
(* The except block of _publish_content(), and the end of run_once().       *)

\* outcome unknown: no attempt is left
Block(w) ==
  /\ pc[w] = "unsure"
  /\ attempts' = [attempts EXCEPT ![cur[w]] = MaxAttempts]
  /\ Goto(w, "raising")
  /\ UNCHANGED <<catalogue, library, pub, recorded, job, local_mem, posts, faults, crashes>>

\* any other error: FAILED, unless it is published
GiveUp(w) ==
  /\ pc[w] = "failing"
  /\ pub' = [pub EXCEPT ![cur[w]] = IF @ = "PUBLISHED" THEN @ ELSE "FAILED"]
  /\ Goto(w, "raising")
  /\ Quiet /\ UNCHANGED <<library, recorded, media, posts>>

\* the worker forgets what it had in hand
Leave(w, label) ==
  /\ Goto(w, label)
  /\ cur' = [cur EXCEPT ![w] = None]
  /\ got' = [got EXCEPT ![w] = 0]
  /\ media' = [media EXCEPT ![w] = {}]

Succeed(w) ==
  /\ pc[w] = "done"
  /\ job' = [job EXCEPT ![cur[w]] = "SUCCEEDED"]
  /\ Leave(w, "idle")
  /\ UNCHANGED <<catalogue, library, pub, recorded, attempts, posts, faults, crashes>>

MayFail(p) == job[p] = "RUNNING" \/ (attempts[p] >= MaxAttempts /\ job[p] = "FAILED_FINAL")

\* fail(); a forbidden transition raises out of the worker loop
Fail(w) ==
  /\ pc[w] = "raising"
  /\ IF MayFail(cur[w])
     THEN /\ job' = [job EXCEPT ![cur[w]] =
                       IF attempts[cur[w]] < MaxAttempts THEN "QUEUED" ELSE "FAILED_FINAL"]
          /\ Leave(w, "idle")
     ELSE UNCHANGED job /\ Leave(w, "dead")
  /\ UNCHANGED <<catalogue, library, pub, recorded, attempts, posts, faults, crashes>>

\* a commit is refused by the database: nothing of the step is written
Refuse(w) ==
  /\ pc[w] \in Guarded \cup Exposed
  /\ faults < MaxFaults
  /\ faults' = faults + 1
  /\ Goto(w, IF pc[w] \in Guarded THEN "failing" ELSE "raising")
  /\ UNCHANGED <<catalogue, library, pub, recorded, dispatch, local_mem, posts, crashes>>

\* killed at any point, also while the request is on its way
Crash(w) ==
  /\ pc[w] \in Working
  /\ crashes < MaxCrashes
  /\ crashes' = crashes + 1
  /\ Leave(w, "dead")
  /\ UNCHANGED <<catalogue, library, pub, recorded, dispatch, posts, faults>>

Restart(w) ==
  /\ pc[w] = "dead"
  /\ Goto(w, "idle")
  /\ UNCHANGED <<catalogue, library, pub, recorded, dispatch, local_mem,
                 posts, faults, crashes>>

-----------------------------------------------------------------------------
Publish(w) == \/ FindRecord(w) \/ FindMarker(w) \/ Inspect(w) \/ Mark(w) \/ Send(w)
              \/ Refused(w) \/ Unanswered(w) \/ Record(w)
Purge(w) == Unlink(w) \/ CommitPurge(w)
Settle(w) == Block(w) \/ GiveUp(w) \/ Succeed(w) \/ Fail(w)
Handle(w) == Claim(w) \/ Publish(w) \/ Purge(w) \/ Settle(w)
Disturb(w) == SendGarbled(w) \/ UnlinkFails(w) \/ Refuse(w) \/ Crash(w)

Next ==
  \/ \E k \in Packs : Approve(k) \/ \E chosen \in SUBSET ItemsOf[k] : Reselect(k, chosen)
  \/ \E p \in Publications : ToggleDestination(p) \/ EnqueuePublication(p)
  \/ \E a \in Assets : VaultUpload(a)
  \/ \E w \in Workers : \/ \E p \in Publications : Take(w, p)
                        \/ Handle(w) \/ Disturb(w) \/ Restart(w)

(* The worker polls for ever and serves every due job in the end (jobs are  *)
(* taken oldest first), each of its calls has a timeout, and a dead worker  *)
(* is started again.  Operators need not do anything and nothing must fail. *)
Fairness ==
  /\ \A p \in Publications : SF_vars(\E w \in Workers : Take(w, p))
  /\ \A w \in Workers : WF_vars(Handle(w)) /\ WF_vars(Restart(w))

Spec == Init /\ [][Next]_vars
FairSpec == Spec /\ Fairness

-----------------------------------------------------------------------------
(* Killed workers, stale locks, timeouts and server errors never make a     *)
(* pack appear twice in a destination: the PUBLISHING marker is committed   *)
(* before the request and survives them.  Each extra copy takes a refused   *)
(* commit or a malformed answer, which turn the marker into FAILED.         *)
DuplicatesNeedFaults == \A p \in Publications : posts[p] <= 1 + faults

(* Without those faults, a pack that is visible and not on record has its   *)
(* marker left, for an operator to see: it is never FAILED or SCHEDULED.    *)
(* Like the bound above, true of a single worker process: a second one may  *)
(* write FAILED over the marker of the first.                               *)
UnrecordedIsMarked ==
  \A p \in Publications :
    posts[p] > 0 /\ p \notin recorded /\ faults = 0 => pub[p] = "PUBLISHING"

(* The original of an asset is removed only when the asset is verified in   *)
(* the vault and a publication of a pack that contains it is on record.     *)
(* True while no two assets share a file.                                   *)
PurgeIsSafe ==
  \A a \in Assets : FileOf[a] \notin disk =>
    a \in vaulted /\ \E p \in recorded : a \in ItemsOf[PackOf[p]]

(* The originals of a recorded publication are purged in the end, through   *)
(* crashes, failed unlinks and refused commits, unless its job is given up  *)
(* or an edit has changed what it is to purge.                              *)
RecordedGetsPurged ==
  \A p \in Publications :
    p \in recorded ~> (Purgeable(p) = {} \/ job[p] = "FAILED_FINAL" \/ edits > 0)

(* docs/HARNESS-STATE.md:40 says that the purge is restricted to assets     *)
(* backed by verified VaultObjects.  The purge asks this of one asset and   *)
(* removes the file under every other asset that shares it.                 *)
KeepsUnvaulted ==
  \A a \in Assets : a \in local \ vaulted => FileOf[a] \in disk

-----------------------------------------------------------------------------
(* Why the bound on copies holds with one worker process: a marker stands   *)
(* while its publication is delivered, PUBLISHED and the Publication row go *)
(* together, and a publication that may be marked again (or is about to     *)
(* become FAILED) has at most one copy for each fault so far.               *)
MarkerHeld ==
  \A w \in Workers : pc[w] \in {"sending", "refused", "ambiguous", "sent"} =>
    pub[cur[w]] = "PUBLISHING"

PublishedIsRecorded == \A p \in Publications : pub[p] = "PUBLISHED" <=> p \in recorded

CopiesCounted ==
  /\ \A p \in Publications :
       pub[p] \in {"ABSENT", "SCHEDULED", "FAILED"} => posts[p] <= faults
  /\ \A w \in Workers :
       pc[w] \in {"sending", "refused", "failing"} => posts[cur[w]] <= faults

SingleWorkerInv ==
  MarkerHeld /\ PublishedIsRecorded /\ CopiesCounted /\ DuplicatesNeedFaults

(* ... and why originals are safe with any number of them.                  *)
PurgeInv ==
  /\ PurgeIsSafe
  /\ \A k \in Packs : selected[k] \subseteq ItemsOf[k]
  /\ \A w \in Workers : pc[w] = "purging" => cur[w] \in recorded
=============================================================================
