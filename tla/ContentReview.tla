---------------------------- MODULE ContentReview ----------------------------
(***************************************************************************)
(* Candidates wait for an administrator's decision while the worker        *)
(* fetches their media (domain/services/content, the acquisition in        *)
(* integrations/source/erome_service, promote_to_ready of media/runtime).  *)
(*                                                                         *)
(* A decision is one transaction: it reads the candidate, moves the        *)
(* selected files from processing/ to ready/ one by one, and commits.  The *)
(* moves are visible at once and no rollback undoes them.  The ORM writes  *)
(* only the columns that differ from what the transaction has read.  One   *)
(* worker process fetches; all candidates come from one source.            *)
(***************************************************************************)
EXTENDS Naturals, FiniteSets

CONSTANTS
  Candidates, Assets,
  ItemsOf,   \* candidate -> assets of its pack (PackItem rows)
  Place,     \* asset -> its position: files are promoted in this order
  BlobOf,    \* asset -> the bytes its URL yields (what sha256 tells apart)
  Sessions,  \* requests the API serves at the same time
  None,
  MaxTries,  \* Job.max_attempts of an acquisition
  MaxFaults, \* bound: transactions the database or a crash cuts off
  MaxEdits   \* bound: changes of a selection

ASSUME ReviewConstants ==
  /\ IsFiniteSet(Candidates)
  /\ ItemsOf \in [Candidates -> SUBSET Assets]
  /\ Place \in [Assets -> Nat]
  /\ \A a, b \in Assets : Place[a] = Place[b] => a = b
  /\ MaxTries \in Nat \ {0} /\ MaxFaults \in Nat /\ MaxEdits \in Nat

VARIABLES
  candidate,  \* ContentCandidate.status
  pack,       \* ContentPack.status of the candidate's pack, ...
  approved,   \* ... the packs with approved = TRUE
  archived,   \* ... and those with archived = TRUE
  reviews,    \* <<candidate, decision>> -> number of Approval rows
  approval_count,  \* Source.approval_count
  selected,   \* candidate -> assets of the items with selected = TRUE
  local_path, \* MediaAsset.local_path
  disk,       \* paths that exist under processing/ and ready/
  acq, tries, \* the job acquire-media:<item> and the attempts it has had
  fetch,      \* the worker's open acquisition
  tx,         \* session -> its open decision
  stranded,   \* history: assets whose file an aborted decision has moved
  faults, edits  \* history: for the bounds

verdicts == <<candidate, pack, approved, archived, reviews, approval_count>>
jobs     == <<acq, tries>>
vars == <<verdicts, selected, local_path, disk, jobs, fetch, tx, stranded,
          faults, edits>>

Decisions == {"APPROVED", "REJECTED", "DEFERRED"}
Items == {i \in Candidates \X Assets : i[2] \in ItemsOf[i[1]]}
\* internal_filename(): every download has a name of its own
Names == Items \X (1..MaxTries)
Paths == [dir : {"processing", "ready"}, name : Names]
Ready(path) == [path EXCEPT !.dir = "ready"]

PackStates == {"REVIEW", "READY", "REJECTED"}
Reviews == [cand : Candidates, decision : Decisions,
            step : {"pack", "promote"},     \* what comes next
            was : PackStates,               \* the pack's columns as read ...
            approved : BOOLEAN, archived : BOOLEAN,
            count : Nat,                    \* ... and approval_count
            add : SUBSET Assets, drop : SUBSET Assets, \* change of the selection
            todo : SUBSET Assets,           \* selected, not yet promoted
            moved : SUBSET (Assets \X Paths)]  \* promoted, with the path left
Fetches == [item : Items, path : Paths \cup {None}, locks : BOOLEAN]

ASSUME NoneApart == None \notin Fetches /\ None \notin Paths /\ None \notin Reviews

(* Every variable keeps its type. *)
TypeOK ==
  /\ candidate \in [Candidates -> {"PENDING_APPROVAL", "READY", "REJECTED"}]
  /\ pack \in [Candidates -> PackStates]
  /\ approved \subseteq Candidates /\ archived \subseteq Candidates
  /\ reviews \in [Candidates \X Decisions -> Nat]
  /\ approval_count \in Nat
  /\ selected \in [Candidates -> SUBSET Assets]
  /\ local_path \in [Assets -> Paths \cup {None}]
  /\ disk \subseteq Paths
  /\ acq \in [Items -> {"ABSENT", "QUEUED", "SUCCEEDED", "FAILED_FINAL"}]
  /\ tries \in [Items -> 0..MaxTries]
  /\ fetch \in Fetches \cup {None}
  /\ tx \in [Sessions -> Reviews \cup {None}]
  /\ stranded \subseteq Assets
  /\ faults \in Nat /\ edits \in Nat

Init ==
  /\ candidate = [c \in Candidates |-> "PENDING_APPROVAL"]
  /\ pack = [c \in Candidates |-> "REVIEW"]
  /\ approved = {} /\ archived = {}
  /\ reviews = [r \in Candidates \X Decisions |-> 0]
  /\ approval_count = 0
  /\ selected = ItemsOf
  /\ local_path = [a \in Assets |-> None]
  /\ disk = {}
  /\ acq = [i \in Items |-> "ABSENT"] /\ tries = [i \in Items |-> 0]
  /\ fetch = None
  /\ tx = [s \in Sessions |-> None]
  /\ stranded = {}
  /\ faults = 0 /\ edits = 0

Present(a) == local_path[a] # None /\ local_path[a] \in disk

-----------------------------------------------------------------------------
(* Acquisition: enqueue_selected_acquisition() and the ACQUIRE_MEDIA handler *)

\* a key already used returns its job, whatever has become of it
EnqueueAcquisition(c) ==
  LET wanted == {i \in Items : i[1] = c /\ i[2] \in selected[c] /\ ~Present(i[2])
                                /\ acq[i] = "ABSENT"} IN
  /\ wanted # {}
  /\ acq' = [i \in Items |-> IF i \in wanted THEN "QUEUED" ELSE acq[i]]
  /\ UNCHANGED <<verdicts, selected, local_path, disk, tries, fetch, tx, stranded,
                 faults, edits>>

\* deselected meanwhile, or there already: nothing to do
SkipFetch(i) ==
  /\ fetch = None
  /\ acq[i] = "QUEUED"
  /\ i[2] \notin selected[i[1]] \/ Present(i[2])
  /\ acq' = [acq EXCEPT ![i] = "SUCCEEDED"]
  /\ tries' = [tries EXCEPT ![i] = @ + 1]
  /\ UNCHANGED <<verdicts, selected, local_path, disk, fetch, tx, stranded,
                 faults, edits>>

\* A path that names no file is cleared with a flush before the download:
\* the row stays locked until the commit.
StartFetch(i) ==
  /\ fetch = None
  /\ acq[i] = "QUEUED"
  /\ i[2] \in selected[i[1]] /\ ~Present(i[2])
  /\ tries' = [tries EXCEPT ![i] = @ + 1]
  /\ fetch' = [item |-> i, path |-> None, locks |-> local_path[i[2]] # None]
  /\ UNCHANGED <<verdicts, selected, local_path, disk, acq, tx, stranded,
                 faults, edits>>

Twins(a) == {b \in Assets \ {a} : BlobOf[b] = BlobOf[a] /\ local_path[b] # None}

\* mutant: the file is left in temp/
DownloadNothing ==
  /\ fetch # None /\ fetch.path = None
  /\ fetch' = [fetch EXCEPT !.path =
                 [dir |-> "processing", name |-> <<fetch.item, tries[fetch.item]>>]]
  /\ UNCHANGED <<verdicts, selected, local_path, disk, jobs, tx, stranded,
                 faults, edits>>

\* The file of the first twin found is shared; when there is no twin, or its
\* file is gone, the download goes to processing/.
Download ==
  /\ fetch # None /\ fetch.path = None
  /\ LET fresh == [dir |-> "processing", name |-> <<fetch.item, tries[fetch.item]>>]
         twins == Twins(fetch.item[2]) IN
     \/ /\ twins = {} \/ \E b \in twins : ~Present(b)
        /\ disk' = disk \cup {fresh}
        /\ fetch' = [fetch EXCEPT !.path = fresh]
     \/ \E b \in twins :
          /\ Present(b)
          /\ fetch' = [fetch EXCEPT !.path = local_path[b]]
          /\ UNCHANGED disk
  /\ UNCHANGED <<verdicts, selected, local_path, jobs, tx, stranded, faults, edits>>

CommitFetch ==
  /\ fetch # None /\ fetch.path # None
  /\ local_path' = [local_path EXCEPT ![fetch.item[2]] = fetch.path]
  /\ acq' = [acq EXCEPT ![fetch.item] = "SUCCEEDED"]
  /\ fetch' = None
  /\ UNCHANGED <<verdicts, selected, disk, tries, tx, stranded, faults, edits>>

\* fail(): QUEUED again while attempts are left
AfterFailure(i) == IF tries[i] < MaxTries THEN "QUEUED" ELSE "FAILED_FINAL"

\* the download fails or the database refuses
AbortFetch ==
  /\ fetch # None
  /\ faults < MaxFaults
  /\ faults' = faults + 1
  /\ acq' = [acq EXCEPT ![fetch.item] = AfterFailure(fetch.item)]
  /\ fetch' = None
  /\ UNCHANGED <<verdicts, selected, local_path, disk, tries, tx, stranded, edits>>

-----------------------------------------------------------------------------
(* The review: decide_candidate() in its transaction, set_pack_selection()  *)

\* set_pack_selection() asks for no status
Reselect(c, chosen) ==
  /\ edits < MaxEdits
  /\ chosen # selected[c]
  /\ selected' = [selected EXCEPT ![c] = chosen]
  /\ edits' = edits + 1
  /\ UNCHANGED <<verdicts, local_path, disk, jobs, fetch, tx, stranded, faults>>

\* mutant: a verdict may be given again
UndecidedOrNot(c) == candidate[c] \in {"PENDING_APPROVAL", "READY"}

\* a verdict repeated returns at once, another one is refused
Undecided(c) == candidate[c] = "PENDING_APPROVAL"

Set(s, r) == tx' = [tx EXCEPT ![s] = r]

ReadCandidate(s, c, d) ==
  /\ tx[s] = None
  /\ Undecided(c)
  /\ Set(s, [cand |-> c, decision |-> d, step |-> "pack", was |-> "REVIEW",
              approved |-> FALSE, archived |-> FALSE, count |-> 0,
              add |-> {}, drop |-> {}, todo |-> {}, moved |-> {}])
  /\ UNCHANGED <<verdicts, selected, local_path, disk, jobs, fetch, stranded,
                 faults, edits>>

\* A candidate is deferred on record once; nothing can be approved with an
\* empty selection, chosen with the decision or before.
ReadPack(s, chosen) ==
  LET c == tx[s].cand  approving == tx[s].decision = "APPROVED" IN
  /\ tx[s] # None /\ tx[s].step = "pack"
  /\ IF \/ tx[s].decision = "DEFERRED" /\ reviews[<<c, "DEFERRED">>] > 0
        \/ approving /\ chosen = {}
     THEN Set(s, None)
     ELSE Set(s, [tx[s] EXCEPT !.step = "promote", !.was = pack[c],
                    !.approved = c \in approved, !.archived = c \in archived,
                    !.count = approval_count,
                    !.add = IF approving THEN chosen \ selected[c] ELSE {},
                    !.drop = IF approving THEN selected[c] \ chosen ELSE {},
                    !.todo = IF approving THEN chosen ELSE {}])
  /\ UNCHANGED <<verdicts, selected, local_path, disk, jobs, fetch, stranded,
                 faults, edits>>

Turn(s, a) == a \in tx[s].todo /\ \A b \in tx[s].todo : Place[a] <= Place[b]

\* promote_to_ready(): no file yet, or in ready/ already: nothing to move
PassOver(s, a) ==
  /\ tx[s] # None /\ tx[s].step = "promote" /\ Turn(s, a)
  /\ local_path[a] # None => local_path[a].dir = "ready"
  /\ Set(s, [tx[s] EXCEPT !.todo = @ \ {a}])
  /\ UNCHANGED <<verdicts, selected, local_path, disk, jobs, fetch, stranded,
                 faults, edits>>

Move(s, a) ==
  /\ tx[s] # None /\ tx[s].step = "promote" /\ Turn(s, a)
  /\ local_path[a] # None /\ local_path[a].dir = "processing"
  /\ local_path[a] \in disk
  /\ disk' = (disk \ {local_path[a]}) \cup {Ready(local_path[a])}
  /\ Set(s, [tx[s] EXCEPT !.todo = @ \ {a}, !.moved = @ \cup {<<a, local_path[a]>>}])
  /\ UNCHANGED <<verdicts, selected, local_path, jobs, fetch, stranded, faults, edits>>

Rollback(s) ==
  /\ stranded' = stranded \cup {m[1] : m \in tx[s].moved}
  /\ Set(s, None)
  /\ UNCHANGED <<verdicts, selected, local_path, disk, jobs, fetch, edits>>

\* samefile() or rename() raises for a path that names no file: the decision
\* is answered with an error
MoveFails(s, a) ==
  /\ tx[s] # None /\ tx[s].step = "promote" /\ Turn(s, a)
  /\ local_path[a] # None /\ local_path[a].dir = "processing"
  /\ local_path[a] \notin disk
  /\ Rollback(s)
  /\ UNCHANGED faults

\* the database refuses the commit, or the process is killed
Abort(s) ==
  /\ tx[s] # None
  /\ faults < MaxFaults
  /\ faults' = faults + 1
  /\ Rollback(s)

\* mutant: the pack is left as it was
ApproveCandidateOnly(s) ==
  LET t == tx[s] c == tx[s].cand IN
  /\ candidate' = [candidate EXCEPT ![c] = "READY"]
  /\ approval_count' = t.count + 1
  /\ UNCHANGED <<pack, approved, archived>>

\* the columns an approval writes; those it has read with the value it sets
\* are left alone
ApproveColumns(s) ==
  LET t == tx[s] c == tx[s].cand IN
  /\ candidate' = [candidate EXCEPT ![c] = "READY"]
  /\ pack' = IF t.was = "READY" THEN pack ELSE [pack EXCEPT ![c] = "READY"]
  /\ approved' = IF t.approved THEN approved ELSE approved \cup {c}
  /\ archived' = IF t.archived THEN archived \ {c} ELSE archived
  /\ approval_count' = t.count + 1

RejectColumns(s) ==
  LET t == tx[s] c == tx[s].cand IN
  /\ candidate' = [candidate EXCEPT ![c] = "REJECTED"]
  /\ pack' = IF t.was = "REJECTED" THEN pack ELSE [pack EXCEPT ![c] = "REJECTED"]
  /\ approved' = IF t.approved THEN approved \ {c} ELSE approved
  /\ archived' = IF t.archived THEN archived ELSE archived \cup {c}
  /\ UNCHANGED approval_count

\* the candidate was read as PENDING_APPROVAL, which is what deferring sets
DeferColumns(s) ==
  LET t == tx[s] c == tx[s].cand IN
  /\ pack' = IF t.was = "REVIEW" THEN pack ELSE [pack EXCEPT ![c] = "REVIEW"]
  /\ approved' = IF t.approved THEN approved \ {c} ELSE approved
  /\ UNCHANGED <<candidate, archived, approval_count>>

\* mutant: the rows keep the path in processing/
PathsAsRead(s) == local_path

Moved(s, a) == {p \in Paths : <<a, p>> \in tx[s].moved}

PathsAfter(s) ==
  [a \in Assets |-> IF Moved(s, a) = {} THEN local_path[a]
                    ELSE Ready(CHOOSE p \in Moved(s, a) : TRUE)]

\* mutant: only an approval is put on record
AddApprovalIfApproved(s) ==
  reviews' = IF tx[s].decision = "APPROVED"
             THEN [reviews EXCEPT ![<<tx[s].cand, "APPROVED">>] = @ + 1] ELSE reviews

AddApproval(s) == reviews' = [reviews EXCEPT ![<<tx[s].cand, tx[s].decision>>] = @ + 1]

\* waits while the worker holds the row of an asset it has promoted
Commit(s) ==
  LET t == tx[s] c == tx[s].cand IN
  /\ t # None /\ t.step = "promote" /\ t.todo = {}
  /\ \A m \in t.moved : fetch # None /\ fetch.locks => fetch.item[2] # m[1]
  /\ \/ t.decision = "APPROVED" /\ ApproveColumns(s)
     \/ t.decision = "REJECTED" /\ RejectColumns(s)
     \/ t.decision = "DEFERRED" /\ DeferColumns(s)
  /\ AddApproval(s)
  /\ selected' = [selected EXCEPT ![c] = (@ \cup t.add) \ t.drop]
  /\ local_path' = PathsAfter(s)
  /\ Set(s, None)
  /\ UNCHANGED <<disk, jobs, fetch, stranded, faults, edits>>

Fetching ==
  \/ \E i \in Items : SkipFetch(i) \/ StartFetch(i)
  \/ Download \/ CommitFetch \/ AbortFetch

Deciding(s) ==
  \/ \E c \in Candidates, d \in Decisions : ReadCandidate(s, c, d)
  \/ tx[s] # None /\ \E chosen \in SUBSET ItemsOf[tx[s].cand] : ReadPack(s, chosen)
  \/ \E a \in Assets : PassOver(s, a) \/ Move(s, a) \/ MoveFails(s, a)
  \/ Abort(s) \/ Commit(s)

Next ==
  \/ \E c \in Candidates : EnqueueAcquisition(c)
  \/ \E c \in Candidates : \E chosen \in SUBSET ItemsOf[c] : Reselect(c, chosen)
  \/ Fetching
  \/ \E s \in Sessions : Deciding(s)

Spec == Init /\ [][Next]_vars

-----------------------------------------------------------------------------
(* Properties                                                               *)

(* Candidate, pack and its two flags tell the same story: a candidate that  *)
(* is READY has an approved READY pack, a rejected one an archived pack     *)
(* (decide_candidate writes five columns of two rows).                      *)
PackFollowsCandidate ==
  \A c \in Candidates :
    /\ pack[c] = "READY" <=> candidate[c] = "READY"
    /\ pack[c] = "REJECTED" <=> candidate[c] = "REJECTED"
    /\ c \in approved <=> candidate[c] = "READY"
    /\ c \in archived <=> candidate[c] = "REJECTED"

Verdict(c) == IF candidate[c] = "READY" THEN "APPROVED" ELSE "REJECTED"

(* A verdict rests on exactly one Approval row, and an undecided candidate  *)
(* has none but a deferral: retries add no rows.                            *)
VerdictsOnRecord ==
  \A c \in Candidates :
    /\ \A d \in Decisions : reviews[<<c, d>>] <= 1
    /\ \A d \in {"APPROVED", "REJECTED"} :
         reviews[<<c, d>>] = 1 <=> (candidate[c] # "PENDING_APPROVAL" /\ Verdict(c) = d)

(* The source's counter is the number of its approved candidates, which the *)
(* read-modify-write of approval_count keeps while decisions do not overlap.*)
CountIsExact == approval_count = Cardinality({c \in Candidates : candidate[c] = "READY"})

(* However decisions overlap, what is published as approved has an Approval *)
(* row saying so, and a rejected candidate one that rejects it.             *)
NoVerdictWithoutRecord ==
  \A c \in Candidates :
    /\ c \in approved \/ pack[c] = "READY" \/ candidate[c] = "READY"
         => reviews[<<c, "APPROVED">>] > 0
    /\ c \in archived \/ pack[c] = "REJECTED" \/ candidate[c] = "REJECTED"
         => reviews[<<c, "REJECTED">>] > 0

\* what an open decision knows while no other runs
DecisionCurrent ==
  \A s \in Sessions : tx[s] # None =>
    LET t == tx[s] c == tx[s].cand IN
    /\ candidate[c] = "PENDING_APPROVAL"
    /\ t.was = "REVIEW" /\ ~t.approved /\ ~t.archived
    /\ t.step = "promote" =>
         /\ t.count = approval_count
         /\ t.decision = "DEFERRED" => reviews[<<c, "DEFERRED">>] = 0

(* One decision at a time: rows, flags, counter and the open decision agree;*)
(* the inductive invariant behind the three properties above.               *)
SerialInv ==
  /\ PackFollowsCandidate /\ VerdictsOnRecord /\ CountIsExact /\ DecisionCurrent

(* "candidate decision is final": a READY or REJECTED candidate stays so.   *)
DecisionIsFinal ==
  [][\A c \in Candidates : candidate[c] # "PENDING_APPROVAL"
                             => candidate'[c] = candidate[c]]_vars

Dangling == {a \in Assets : local_path[a] # None /\ local_path[a] \notin disk}
InFlight == {a \in Assets : \E s \in Sessions : tx[s] # None /\ \E m \in tx[s].moved : m[1] = a}

(* A row names a file that is gone only while a decision that moved the     *)
(* file is open, or after such a decision was rolled back.                  *)
DanglingWasMoved == Dangling \subseteq InFlight \cup stranded

(* With nothing open and no error so far, every path on record names a file.*)
FilesCoherent ==
  faults = 0 /\ fetch = None /\ (\A s \in Sessions : tx[s] = None) => Dangling = {}

=============================================================================
