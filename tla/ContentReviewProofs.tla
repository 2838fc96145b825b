------------------------- MODULE ContentReviewProofs -------------------------
(***************************************************************************)
(* What ContentReview guarantees for every set of candidates and assets.   *)
(* Types, records and files: for any number of overlapping decisions.  The *)
(* agreement of rows and flags and the finality of a verdict need that     *)
(* decisions do not overlap; two that do break both.                       *)
(***************************************************************************)
EXTENDS ReviewOverlap, FiniteSetTheorems, TLAPS

USE ReviewConstants, NoneApart

\* A job waiting has an attempt left; the open acquisition has counted its own.
TriesCounted ==
  /\ \A i \in Items : acq[i] = "ABSENT" => tries[i] = 0
  /\ \A i \in Items : acq[i] = "QUEUED" => \/ tries[i] < MaxTries
                                           \/ fetch # None /\ fetch.item = i
  /\ fetch # None => /\ tries[fetch.item] \in 1..MaxTries
                     /\ acq[fetch.item] = "QUEUED"

Typed == TypeOK /\ TriesCounted

LEMMA TypedInit == Init => Typed
BY DEF Init, Typed, TypeOK, TriesCounted, PackStates

LEMMA FetchTyped ==
  ASSUME Typed, fetch # None
  PROVE  /\ fetch \in Fetches
         /\ fetch.item \in Items /\ fetch.path \in Paths \cup {None}
         /\ tries[fetch.item] \in 1..MaxTries
BY DEF Typed, TypeOK, TriesCounted, Fetches

LEMMA TypedEnqueue ==
  ASSUME Typed, NEW c \in Candidates, EnqueueAcquisition(c)
  PROVE  Typed'
<1>1. acq' = [i \in Items |-> acq'[i]]
  BY DEF EnqueueAcquisition
<1>2. \A i \in Items : acq'[i] # acq[i] => acq[i] = "ABSENT" /\ acq'[i] = "QUEUED"
  BY DEF EnqueueAcquisition
<1>3. TriesCounted'
  <2>1. \A i \in Items : acq[i] = "ABSENT" => 0 = tries[i] /\ 0 < MaxTries
    BY DEF Typed, TriesCounted
  <2>2. UNCHANGED <<tries, fetch>>
    BY DEF EnqueueAcquisition
  <2>3. fetch # None => fetch.item \in Items
    BY FetchTyped
  <2> QED
    BY <1>2, <2>1, <2>2, <2>3 DEF Typed, TriesCounted
<1>4. acq' \in [Items -> {"ABSENT", "QUEUED", "SUCCEEDED", "FAILED_FINAL"}]
  BY <1>1, <1>2 DEF Typed, TypeOK
<1> QED
  BY <1>3, <1>4 DEF Typed, TypeOK, EnqueueAcquisition, verdicts

LEMMA TypedSkip ==
  ASSUME Typed, NEW i \in Items, SkipFetch(i)
  PROVE  Typed'
<1>1. tries[i] \in 0..MaxTries /\ tries[i] < MaxTries
  BY DEF Typed, TypeOK, TriesCounted, SkipFetch
<1>2. tries' \in [Items -> 0..MaxTries]
  BY <1>1 DEF Typed, TypeOK, SkipFetch
<1>3. TypeOK'
  BY <1>2 DEF Typed, TypeOK, SkipFetch, verdicts
<1>4. TriesCounted'
  BY DEF Typed, TypeOK, TriesCounted, SkipFetch
<1> QED
  BY <1>3, <1>4 DEF Typed

LEMMA TypedStart ==
  ASSUME Typed, NEW i \in Items, StartFetch(i)
  PROVE  Typed'
<1>1. fetch' \in Fetches /\ fetch'.item = i
  BY DEF StartFetch, Fetches
<1>2. tries[i] \in 0..MaxTries /\ tries[i] < MaxTries
  BY DEF Typed, TypeOK, TriesCounted, StartFetch
<1>3. tries' \in [Items -> 0..MaxTries] /\ tries'[i] \in 1..MaxTries
  BY <1>2 DEF Typed, TypeOK, StartFetch
<1>4. TypeOK'
  BY <1>1, <1>3 DEF Typed, TypeOK, StartFetch, verdicts
<1>5. TriesCounted'
  BY <1>1, <1>3 DEF Typed, TypeOK, TriesCounted, StartFetch
<1> QED
  BY <1>4, <1>5 DEF Typed

LEMMA TypedDownload ==
  ASSUME Typed, Download
  PROVE  Typed'
<1> DEFINE fresh == [dir |-> "processing", name |-> <<fetch.item, tries[fetch.item]>>]
<1>1. fetch # None BY DEF Download
<1>2. fresh \in Paths
  BY <1>1, FetchTyped DEF Paths, Names
<1>3. fetch' \in Fetches /\ fetch'.item = fetch.item /\ disk' \subseteq Paths
  <2>1. CASE disk' = disk \cup {fresh} /\ fetch' = [fetch EXCEPT !.path = fresh]
    BY <1>1, <1>2, <2>1, FetchTyped DEF Fetches, Typed, TypeOK
  <2>2. ASSUME NEW b \in Assets, Present(b), UNCHANGED disk,
               fetch' = [fetch EXCEPT !.path = local_path[b]]
        PROVE  fetch' \in Fetches /\ fetch'.item = fetch.item /\ disk' \subseteq Paths
    BY <1>1, <2>2, FetchTyped DEF Fetches, Typed, TypeOK, Present
  <2> QED BY <2>1, <2>2 DEF Download, Twins
<1>4. TypeOK'
  BY <1>3 DEF Typed, TypeOK, Download, verdicts, jobs
<1>5. TriesCounted'
  BY <1>1, <1>3 DEF Typed, TriesCounted, Download, jobs
<1> QED
  BY <1>4, <1>5 DEF Typed

LEMMA TypedCommitFetch ==
  ASSUME Typed, CommitFetch
  PROVE  Typed'
BY FetchTyped DEF Typed, TypeOK, TriesCounted, CommitFetch, verdicts

LEMMA TypedAbortFetch ==
  ASSUME Typed, AbortFetch
  PROVE  Typed'
BY FetchTyped DEF Typed, TypeOK, TriesCounted, AbortFetch, AfterFailure, verdicts

LEMMA TypedReselect ==
  ASSUME Typed, NEW c \in Candidates, NEW chosen \in SUBSET ItemsOf[c], Reselect(c, chosen)
  PROVE  Typed'
BY DEF Typed, TypeOK, TriesCounted, Reselect, verdicts, jobs

LEMMA TypedSet ==
  ASSUME Typed, NEW s \in Sessions, NEW r \in Reviews \cup {None},
         tx' = [tx EXCEPT ![s] = r]
  PROVE  tx' \in [Sessions -> Reviews \cup {None}]
BY DEF Typed, TypeOK

LEMMA TypedReadCandidate ==
  ASSUME Typed, NEW s \in Sessions, NEW c \in Candidates, NEW d \in Decisions,
         ReadCandidate(s, c, d)
  PROVE  Typed'
<1>1. [cand |-> c, decision |-> d, step |-> "pack", was |-> "REVIEW",
       approved |-> FALSE, archived |-> FALSE, count |-> 0,
       add |-> {}, drop |-> {}, todo |-> {}, moved |-> {}] \in Reviews
  BY DEF Reviews, PackStates
<1>2. tx' \in [Sessions -> Reviews \cup {None}]
  BY <1>1 DEF ReadCandidate, Set, Typed, TypeOK
<1> QED
  BY <1>2 DEF Typed, TypeOK, TriesCounted, ReadCandidate, verdicts, jobs

LEMMA TypedReadPack ==
  ASSUME Typed, NEW s \in Sessions, tx[s] # None,
         NEW chosen \in SUBSET ItemsOf[tx[s].cand], ReadPack(s, chosen)
  PROVE  Typed'
<1>1. tx[s] \in Reviews
  BY DEF Typed, TypeOK
<1>2. tx[s].cand \in Candidates
  BY <1>1 DEF Reviews
<1>3. chosen \subseteq Assets /\ selected[tx[s].cand] \subseteq Assets
      /\ pack[tx[s].cand] \in PackStates /\ approval_count \in Nat
  BY <1>2 DEF Typed, TypeOK
<1> DEFINE c == tx[s].cand
           approving == tx[s].decision = "APPROVED"
           add == IF approving THEN chosen \ selected[c] ELSE {}
           drop == IF approving THEN selected[c] \ chosen ELSE {}
           todo == IF approving THEN chosen ELSE {}
           app == c \in approved
           arch == c \in archived
           open == [tx[s] EXCEPT !.step = "promote", !.was = pack[c],
                      !.approved = app, !.archived = arch,
                      !.count = approval_count,
                      !.add = add, !.drop = drop, !.todo = todo]
<1>4. add \subseteq Assets /\ drop \subseteq Assets /\ todo \subseteq Assets
  BY <1>3
<1>5. open \in Reviews
  <2>1. app \in BOOLEAN /\ arch \in BOOLEAN
    OBVIOUS
  <2> HIDE DEF add, drop, todo, app, arch
  <2> QED BY <1>1, <1>3, <1>4, <2>1 DEF Reviews
<1>6. tx' = [tx EXCEPT ![s] = None] \/ tx' = [tx EXCEPT ![s] = open]
  BY DEF ReadPack, Set
<1>7. tx' \in [Sessions -> Reviews \cup {None}]
  <2> HIDE DEF open
  <2> QED BY <1>5, <1>6, TypedSet
<1> QED
  BY <1>7 DEF Typed, TypeOK, TriesCounted, ReadPack, verdicts, jobs

LEMMA TypedPassOver ==
  ASSUME Typed, NEW s \in Sessions, NEW a \in Assets, PassOver(s, a)
  PROVE  Typed'
<1>1. tx[s] \in Reviews
  BY DEF Typed, TypeOK, PassOver
<1>2. [tx[s] EXCEPT !.todo = @ \ {a}] \in Reviews
  BY <1>1 DEF Reviews
<1>3. tx' \in [Sessions -> Reviews \cup {None}]
  BY <1>2, TypedSet DEF PassOver, Set
<1> QED
  BY <1>3 DEF Typed, TypeOK, TriesCounted, PassOver, verdicts, jobs

LEMMA TypedMove ==
  ASSUME Typed, NEW s \in Sessions, NEW a \in Assets, Move(s, a)
  PROVE  Typed'
<1>1. tx[s] \in Reviews /\ local_path[a] \in Paths
  BY DEF Typed, TypeOK, Move
<1>2. Ready(local_path[a]) \in Paths
  BY <1>1 DEF Ready, Paths
<1>3. [tx[s] EXCEPT !.todo = @ \ {a}, !.moved = @ \cup {<<a, local_path[a]>>}] \in Reviews
  <2> DEFINE todo == tx[s].todo \ {a}
             moved == tx[s].moved \cup {<<a, local_path[a]>>}
  <2>1. todo \subseteq Assets /\ moved \subseteq Assets \X Paths
    BY <1>1 DEF Reviews
  <2>2. [tx[s] EXCEPT !.todo = todo, !.moved = moved] \in Reviews
    <3> HIDE DEF todo, moved
    <3> QED BY <1>1, <2>1 DEF Reviews
  <2> QED BY <2>2
<1>4. tx' \in [Sessions -> Reviews \cup {None}]
  BY <1>3, TypedSet DEF Move, Set
<1>5. disk' \subseteq Paths
  BY <1>2 DEF Move, Typed, TypeOK
<1> QED
  BY <1>4, <1>5 DEF Typed, TypeOK, TriesCounted, Move, verdicts, jobs

LEMMA TypedRollback ==
  ASSUME Typed, NEW s \in Sessions, tx[s] # None, Rollback(s), faults' \in Nat
  PROVE  Typed'
<1>1. {m[1] : m \in tx[s].moved} \subseteq Assets
  BY DEF Typed, TypeOK, Reviews
<1>2. tx' \in [Sessions -> Reviews \cup {None}]
  BY TypedSet DEF Rollback, Set
<1> QED
  BY <1>1, <1>2 DEF Typed, TypeOK, TriesCounted, Rollback, verdicts, jobs

LEMMA MovedPaths ==
  ASSUME NEW s, NEW a \in Assets, Moved(s, a) # {}
  PROVE  /\ (CHOOSE p \in Moved(s, a) : TRUE) \in Moved(s, a)
         /\ Moved(s, a) \subseteq Paths
BY DEF Moved

LEMMA TypedCommit ==
  ASSUME Typed, NEW s \in Sessions, Commit(s)
  PROVE  Typed'
<1>1. tx[s] \in Reviews
  BY DEF Typed, TypeOK, Commit
<1>2. /\ tx[s].cand \in Candidates /\ tx[s].decision \in Decisions
      /\ tx[s].add \subseteq Assets /\ tx[s].count \in Nat
  BY <1>1 DEF Reviews
<1>3. tx' \in [Sessions -> Reviews \cup {None}]
  BY TypedSet DEF Commit, Set
<1>4. local_path' \in [Assets -> Paths \cup {None}]
  <2>1. \A a \in Assets : Moved(s, a) # {} => Ready(CHOOSE p \in Moved(s, a) : TRUE) \in Paths
    BY MovedPaths DEF Ready, Paths
  <2> QED
    BY <2>1 DEF Commit, PathsAfter, Typed, TypeOK
<1>5. /\ candidate' \in [Candidates -> {"PENDING_APPROVAL", "READY", "REJECTED"}]
      /\ pack' \in [Candidates -> PackStates]
      /\ approved' \subseteq Candidates /\ archived' \subseteq Candidates
      /\ approval_count' \in Nat
  <2>1. CASE ApproveColumns(s)
    BY <1>2, <2>1 DEF ApproveColumns, Typed, TypeOK, PackStates
  <2>2. CASE RejectColumns(s)
    BY <1>2, <2>2 DEF RejectColumns, Typed, TypeOK, PackStates
  <2>3. CASE DeferColumns(s)
    BY <1>2, <2>3 DEF DeferColumns, Typed, TypeOK, PackStates
  <2> QED BY <2>1, <2>2, <2>3 DEF Commit
<1>6. reviews' \in [Candidates \X Decisions -> Nat]
  BY <1>2 DEF Commit, AddApproval, Typed, TypeOK
<1>7. selected' \in [Candidates -> SUBSET Assets]
  BY <1>2 DEF Commit, Typed, TypeOK
<1>8. TriesCounted'
  BY DEF Typed, TriesCounted, Commit, jobs
<1> QED
  BY <1>3, <1>4, <1>5, <1>6, <1>7, <1>8 DEF Typed, TypeOK, Commit, jobs

LEMMA TypedStep == Typed /\ [Next]_vars => Typed'
<1> SUFFICES ASSUME Typed, [Next]_vars PROVE Typed'
  OBVIOUS
<1>1. CASE \E c \in Candidates : EnqueueAcquisition(c)
  BY <1>1, TypedEnqueue
<1>2. CASE \E c \in Candidates : \E chosen \in SUBSET ItemsOf[c] : Reselect(c, chosen)
  BY <1>2, TypedReselect
<1>3. CASE Fetching
  BY <1>3, TypedSkip, TypedStart, TypedDownload, TypedCommitFetch, TypedAbortFetch
  DEF Fetching
<1>4. ASSUME NEW s \in Sessions, Deciding(s) PROVE Typed'
  <2>1. ASSUME NEW a \in Assets, MoveFails(s, a) PROVE Typed'
    BY <2>1, TypedRollback DEF MoveFails, Typed, TypeOK
  <2>2. CASE Abort(s)
    BY <2>2, TypedRollback DEF Abort, Typed, TypeOK
  <2> QED
    BY <1>4, <2>1, <2>2, TypedReadCandidate, TypedReadPack, TypedPassOver, TypedMove,
       TypedCommit DEF Deciding
<1>5. CASE UNCHANGED vars
  BY <1>5 DEF vars, verdicts, jobs, Typed, TypeOK, TriesCounted
<1> QED
  BY <1>1, <1>2, <1>3, <1>4, <1>5 DEF Next

(* The variables keep their types; names of downloads never run out,        *)
(* because a job is claimed only while it has an attempt left.              *)
THEOREM TypeCorrect == Spec => []TypeOK
<1>1. Typed => TypeOK
  BY DEF Typed
<1> QED
  BY <1>1, TypedInit, TypedStep, PTL DEF Spec

-----------------------------------------------------------------------------
(* Records of the verdicts                                                  *)

\* Only a commit touches the verdicts.
LEMMA OnlyCommits ==
  ASSUME [Next]_vars
  PROVE  UNCHANGED verdicts \/ \E s \in Sessions : Commit(s)
BY DEF Next, Fetching, Deciding, vars, EnqueueAcquisition, Reselect, SkipFetch,
   StartFetch, Download, CommitFetch, AbortFetch, ReadCandidate, ReadPack, PassOver,
   Move, MoveFails, Abort, Rollback

LEMMA CommitTyped ==
  ASSUME Typed, NEW s \in Sessions, Commit(s)
  PROVE  /\ tx[s] # None /\ tx[s] \in Reviews
         /\ tx[s].cand \in Candidates /\ tx[s].decision \in Decisions
         /\ tx[s].count \in Nat
         /\ reviews' = [reviews EXCEPT ![<<tx[s].cand, tx[s].decision>>] = @ + 1]
BY DEF Typed, TypeOK, Commit, Reviews, AddApproval

LEMMA RowsGrow ==
  ASSUME Typed, NEW s \in Sessions, Commit(s)
  PROVE  \A c \in Candidates, d \in Decisions :
           /\ reviews[<<c, d>>] \in Nat
           /\ reviews'[<<c, d>>] =
                IF c = tx[s].cand /\ d = tx[s].decision
                THEN reviews[<<c, d>>] + 1 ELSE reviews[<<c, d>>]
<1> SUFFICES ASSUME NEW c \in Candidates, NEW d \in Decisions
             PROVE  /\ reviews[<<c, d>>] \in Nat
                    /\ reviews'[<<c, d>>] =
                         IF c = tx[s].cand /\ d = tx[s].decision
                         THEN reviews[<<c, d>>] + 1 ELSE reviews[<<c, d>>]
  OBVIOUS
<1>1. /\ reviews \in [Candidates \X Decisions -> Nat]
      /\ <<c, d>> \in Candidates \X Decisions
  BY DEF Typed, TypeOK
<1>2. reviews' = [reviews EXCEPT ![<<tx[s].cand, tx[s].decision>>] = @ + 1]
  BY CommitTyped
<1>3. reviews[<<c, d>>] \in Nat
  BY <1>1
<1> QED
  BY <1>1, <1>2, <1>3

LEMMA RecordsStep ==
  ASSUME Typed, NoVerdictWithoutRecord, [Next]_vars
  PROVE  NoVerdictWithoutRecord'
<1>1. CASE UNCHANGED verdicts
  BY <1>1 DEF verdicts, NoVerdictWithoutRecord
<1>2. ASSUME NEW s \in Sessions, Commit(s) PROVE NoVerdictWithoutRecord'
  <2> DEFINE k == tx[s].cand
  <2>1. k \in Candidates
    BY <1>2, CommitTyped
  <2>2. \A c \in Candidates, d \in Decisions :
          /\ reviews[<<c, d>>] > 0 => reviews'[<<c, d>>] > 0
          /\ c = k /\ d = tx[s].decision => reviews'[<<c, d>>] > 0
    <3> SUFFICES ASSUME NEW c \in Candidates, NEW d \in Decisions
                 PROVE  /\ reviews[<<c, d>>] > 0 => reviews'[<<c, d>>] > 0
                        /\ c = k /\ d = tx[s].decision => reviews'[<<c, d>>] > 0
      OBVIOUS
    <3>1. /\ reviews[<<c, d>>] \in Nat
          /\ reviews'[<<c, d>>] = IF c = k /\ d = tx[s].decision
                                  THEN reviews[<<c, d>>] + 1 ELSE reviews[<<c, d>>]
      BY <1>2, RowsGrow
    <3> QED BY <3>1
  <2>3. \A c \in Candidates : c # k =>
          /\ candidate'[c] = candidate[c] /\ pack'[c] = pack[c]
          /\ c \in approved' <=> c \in approved
          /\ c \in archived' <=> c \in archived
    BY <1>2, <2>1 DEF Commit, ApproveColumns, RejectColumns, DeferColumns, Typed, TypeOK
  <2>4. /\ k \in approved' \/ pack'[k] = "READY" \/ candidate'[k] = "READY"
             => \/ tx[s].decision = "APPROVED"
                \/ k \in approved \/ pack[k] = "READY" \/ candidate[k] = "READY"
        /\ k \in archived' \/ pack'[k] = "REJECTED" \/ candidate'[k] = "REJECTED"
             => \/ tx[s].decision = "REJECTED"
                \/ k \in archived \/ pack[k] = "REJECTED" \/ candidate[k] = "REJECTED"
    BY <1>2, <2>1 DEF Commit, ApproveColumns, RejectColumns, DeferColumns, Typed, TypeOK
  <2> QED
    BY <2>1, <2>2, <2>3, <2>4 DEF NoVerdictWithoutRecord, Decisions
<1> QED
  BY <1>1, <1>2, OnlyCommits

(* However many decisions overlap, a pack counts as approved only with an   *)
(* APPROVED row, and a candidate as rejected only with a REJECTED row.      *)
THEOREM RecordedVerdicts == Spec => []NoVerdictWithoutRecord
<1>1. Init => NoVerdictWithoutRecord
  BY DEF Init, NoVerdictWithoutRecord, Decisions
<1> QED
  BY <1>1, TypedInit, TypedStep, RecordsStep, PTL DEF Spec

-----------------------------------------------------------------------------
(* One decision at a time                                                   *)

OneAtATime == \A r, s \in Deciders : r = s

Serial == Typed /\ SerialInv

LEMMA SerialInit == Init => SerialInv
<1> SUFFICES ASSUME Init PROVE SerialInv
  OBVIOUS
<1>1. {c \in Candidates : candidate[c] = "READY"} = {}
  BY DEF Init
<1>2. CountIsExact
  BY <1>1, FS_EmptySet DEF Init, CountIsExact
<1> QED
  BY <1>2 DEF Init, SerialInv, PackFollowsCandidate, VerdictsOnRecord, DecisionCurrent,
     Decisions

\* A step that leaves the verdicts alone keeps the invariant if it opens or
\* carries on decisions only on what is current.
LEMMA SerialQuiet ==
  ASSUME SerialInv, UNCHANGED verdicts,
         \A s \in Sessions : tx'[s] # None => tx'[s] = tx[s] \/
           LET t == tx'[s] c == tx'[s].cand IN
           /\ candidate[c] = "PENDING_APPROVAL"
           /\ t.was = "REVIEW" /\ ~t.approved /\ ~t.archived
           /\ t.step = "promote" =>
                /\ t.count = approval_count
                /\ t.decision = "DEFERRED" => reviews[<<c, "DEFERRED">>] = 0
  PROVE  SerialInv'
<1>1. UNCHANGED <<candidate, pack, approved, archived, reviews, approval_count>>
  BY DEF verdicts
<1>2. PackFollowsCandidate' /\ VerdictsOnRecord' /\ CountIsExact'
  BY <1>1 DEF SerialInv, PackFollowsCandidate, VerdictsOnRecord, Verdict, CountIsExact
<1>3. DecisionCurrent'
  BY <1>1 DEF SerialInv, DecisionCurrent
<1> QED
  BY <1>2, <1>3 DEF SerialInv

LEMMA SerialReadCandidate ==
  ASSUME Serial, NEW s \in Sessions, NEW c \in Candidates, NEW d \in Decisions,
         ReadCandidate(s, c, d)
  PROVE  SerialInv'
<1>1. UNCHANGED verdicts
  BY DEF ReadCandidate
<1>2. \A r \in Sessions : r # s => tx'[r] = tx[r]
  BY DEF ReadCandidate, Set, Serial, Typed, TypeOK
<1>3. /\ tx'[s].cand = c /\ tx'[s].was = "REVIEW" /\ tx'[s].step = "pack"
      /\ ~tx'[s].approved /\ ~tx'[s].archived
  BY DEF ReadCandidate, Set, Serial, Typed, TypeOK
<1> QED
  BY <1>1, <1>2, <1>3, SerialQuiet DEF Serial, ReadCandidate, Undecided

LEMMA OpenIsUndecided ==
  ASSUME Serial, NEW s \in Sessions, tx[s] # None
  PROVE  /\ tx[s] \in Reviews /\ tx[s].cand \in Candidates /\ tx[s].decision \in Decisions
         /\ candidate[tx[s].cand] = "PENDING_APPROVAL"
         /\ pack[tx[s].cand] = "REVIEW"
         /\ tx[s].cand \notin approved /\ tx[s].cand \notin archived
         /\ tx[s].was = "REVIEW" /\ ~tx[s].approved /\ ~tx[s].archived
<1>1. tx[s] \in Reviews /\ tx[s].cand \in Candidates /\ tx[s].decision \in Decisions
  BY DEF Serial, Typed, TypeOK, Reviews
<1>2. pack[tx[s].cand] \in PackStates
  BY <1>1 DEF Serial, Typed, TypeOK
<1> QED
  BY <1>1, <1>2 DEF Serial, SerialInv, DecisionCurrent, PackFollowsCandidate, PackStates

LEMMA SerialReadPack ==
  ASSUME Serial, NEW s \in Sessions, tx[s] # None,
         NEW chosen \in SUBSET ItemsOf[tx[s].cand], ReadPack(s, chosen)
  PROVE  SerialInv'
<1>1. UNCHANGED verdicts
  BY DEF ReadPack
<1>2. \A r \in Sessions : r # s => tx'[r] = tx[r]
  BY DEF ReadPack, Set, Serial, Typed, TypeOK
<1> DEFINE c == tx[s].cand
           approving == tx[s].decision = "APPROVED"
           add == IF approving THEN chosen \ selected[c] ELSE {}
           drop == IF approving THEN selected[c] \ chosen ELSE {}
           todo == IF approving THEN chosen ELSE {}
           app == c \in approved
           arch == c \in archived
           open == [tx[s] EXCEPT !.step = "promote", !.was = pack[c],
                      !.approved = app, !.archived = arch,
                      !.count = approval_count,
                      !.add = add, !.drop = drop, !.todo = todo]
<1>3. /\ tx[s] \in Reviews /\ c \in Candidates
      /\ candidate[c] = "PENDING_APPROVAL" /\ pack[c] = "REVIEW" /\ ~app /\ ~arch
  BY OpenIsUndecided
<1>4. /\ open.cand = c /\ open.decision = tx[s].decision
      /\ open.was = "REVIEW" /\ open.count = approval_count
      /\ ~open.approved /\ ~open.archived
  <2> HIDE DEF add, drop, todo, app, arch
  <2> QED BY <1>3 DEF Reviews
<1>5. \/ tx' = [tx EXCEPT ![s] = None]
      \/ /\ tx' = [tx EXCEPT ![s] = open]
         /\ tx[s].decision = "DEFERRED" => ~ (reviews[<<c, "DEFERRED">>] > 0)
  BY DEF ReadPack, Set
<1>6. reviews[<<c, "DEFERRED">>] \in Nat
  BY <1>3 DEF Serial, Typed, TypeOK, Decisions
<1>7. tx \in [Sessions -> Reviews \cup {None}]
  BY DEF Serial, Typed, TypeOK
<1>8. CASE tx'[s] = None
  BY <1>1, <1>2, <1>8, SerialQuiet DEF Serial
<1>9. CASE tx'[s] = open /\ (tx[s].decision = "DEFERRED" => reviews[<<c, "DEFERRED">>] = 0)
  <2> HIDE DEF open, c
  <2> QED BY <1>1, <1>2, <1>3, <1>4, <1>9, SerialQuiet DEF Serial
<1> QED
  <2> HIDE DEF open, c
  <2> QED BY <1>5, <1>6, <1>7, <1>8, <1>9

LEMMA SerialPromote ==
  ASSUME Serial, NEW s \in Sessions, NEW a \in Assets, PassOver(s, a) \/ Move(s, a)
  PROVE  SerialInv'
<1>1. UNCHANGED verdicts
  BY DEF PassOver, Move
<1>2. \A r \in Sessions : r # s => tx'[r] = tx[r]
  BY DEF PassOver, Move, Set, Serial, Typed, TypeOK
<1>3. tx[s] # None /\ tx[s] \in Reviews
  BY DEF PassOver, Move, Serial, Typed, TypeOK
<1>4. /\ tx'[s].cand = tx[s].cand /\ tx'[s].decision = tx[s].decision
      /\ tx'[s].was = "REVIEW" /\ tx'[s].count = tx[s].count
      /\ ~tx'[s].approved /\ ~tx'[s].archived
      /\ tx'[s].step = tx[s].step
  <2>1. /\ tx[s].was = "REVIEW" /\ ~tx[s].approved /\ ~tx[s].archived
    BY <1>3, OpenIsUndecided
  <2>2. \/ tx'[s] = [tx[s] EXCEPT !.todo = tx[s].todo \ {a}]
        \/ tx'[s] = [tx[s] EXCEPT !.todo = tx[s].todo \ {a},
                                 !.moved = tx[s].moved \cup {<<a, local_path[a]>>}]
    BY DEF PassOver, Move, Set, Serial, Typed, TypeOK
  <2> DEFINE rest == tx[s].todo \ {a}
             more == tx[s].moved \cup {<<a, local_path[a]>>}
  <2>3. CASE tx'[s] = [tx[s] EXCEPT !.todo = rest]
    <3> HIDE DEF rest
    <3> QED BY <1>3, <2>1, <2>3 DEF Reviews
  <2>4. CASE tx'[s] = [tx[s] EXCEPT !.todo = rest, !.moved = more]
    <3> HIDE DEF rest, more
    <3> QED BY <1>3, <2>1, <2>4 DEF Reviews
  <2> QED BY <2>2, <2>3, <2>4
<1>5. /\ candidate[tx[s].cand] = "PENDING_APPROVAL"
      /\ tx[s].step = "promote" =>
           /\ tx[s].count = approval_count
           /\ tx[s].decision = "DEFERRED" => reviews[<<tx[s].cand, "DEFERRED">>] = 0
  BY <1>3 DEF Serial, SerialInv, DecisionCurrent
<1> QED
  BY <1>1, <1>2, <1>4, <1>5, SerialQuiet DEF Serial

LEMMA SerialRollback ==
  ASSUME Serial, NEW s \in Sessions, Rollback(s)
  PROVE  SerialInv'
<1>1. UNCHANGED verdicts /\ \A r \in Sessions : tx'[r] # None => tx'[r] = tx[r]
  BY DEF Rollback, Set, Serial, Typed, TypeOK
<1> QED
  BY <1>1, SerialQuiet DEF Serial

ReadyCandidates == {c \in Candidates : candidate[c] = "READY"}

LEMMA SerialCommit ==
  ASSUME OneAtATime, Serial, NEW s \in Sessions, Commit(s)
  PROVE  SerialInv' /\ \A c \in Candidates : candidate[c] # "PENDING_APPROVAL"
                                               => candidate'[c] = candidate[c]
<1> DEFINE k == tx[s].cand
           d == tx[s].decision
<1>1. tx[s] # None /\ tx[s].step = "promote"
  BY DEF Commit
<1>2. /\ k \in Candidates /\ d \in Decisions
      /\ candidate[k] = "PENDING_APPROVAL" /\ pack[k] = "REVIEW"
      /\ k \notin approved /\ k \notin archived
      /\ tx[s].was = "REVIEW" /\ ~tx[s].approved /\ ~tx[s].archived
  BY <1>1, OpenIsUndecided
<1>3. tx[s].count = approval_count /\ (d = "DEFERRED" => reviews[<<k, "DEFERRED">>] = 0)
  BY <1>1 DEF Serial, SerialInv, DecisionCurrent
<1>4. /\ candidate' = [candidate EXCEPT ![k] = CASE d = "APPROVED" -> "READY"
                                                [] d = "REJECTED" -> "REJECTED"
                                                [] OTHER -> candidate[k]]
      /\ pack' = [pack EXCEPT ![k] = CASE d = "APPROVED" -> "READY"
                                       [] d = "REJECTED" -> "REJECTED"
                                       [] OTHER -> pack[k]]
      /\ approved' = IF d = "APPROVED" THEN approved \cup {k} ELSE approved
      /\ archived' = IF d = "REJECTED" THEN archived \cup {k} ELSE archived
      /\ approval_count' = IF d = "APPROVED" THEN approval_count + 1 ELSE approval_count
  BY <1>2, <1>3 DEF Commit, ApproveColumns, RejectColumns, DeferColumns, Decisions,
     Serial, Typed, TypeOK
<1>5. \A c \in Candidates : candidate[c] # "PENDING_APPROVAL" => candidate'[c] = candidate[c]
  BY <1>2, <1>4 DEF Serial, Typed, TypeOK
<1>6. PackFollowsCandidate'
  BY <1>2, <1>4 DEF Serial, SerialInv, PackFollowsCandidate, Typed, TypeOK, Decisions
<1>7. VerdictsOnRecord'
  <2> SUFFICES ASSUME NEW c \in Candidates
               PROVE  /\ \A e \in Decisions : reviews'[<<c, e>>] <= 1
                      /\ \A e \in {"APPROVED", "REJECTED"} :
                           reviews'[<<c, e>>] = 1
                             <=> (candidate'[c] # "PENDING_APPROVAL" /\ Verdict(c)' = e)
    BY DEF VerdictsOnRecord
  <2>1. \A e \in Decisions :
          /\ reviews[<<c, e>>] \in Nat /\ reviews[<<c, e>>] <= 1
          /\ reviews'[<<c, e>>] = IF c = k /\ e = d
                                  THEN reviews[<<c, e>>] + 1 ELSE reviews[<<c, e>>]
    <3> SUFFICES ASSUME NEW e \in Decisions
                 PROVE  /\ reviews[<<c, e>>] \in Nat /\ reviews[<<c, e>>] <= 1
                        /\ reviews'[<<c, e>>] = IF c = k /\ e = d
                                  THEN reviews[<<c, e>>] + 1 ELSE reviews[<<c, e>>]
      OBVIOUS
    <3>1. reviews[<<c, e>>] <= 1
      BY DEF Serial, SerialInv, VerdictsOnRecord
    <3> QED BY <3>1, RowsGrow DEF Serial
  <2>2. \A e \in {"APPROVED", "REJECTED"} :
          reviews[<<c, e>>] = 1 <=> (candidate[c] # "PENDING_APPROVAL" /\ Verdict(c) = e)
    BY DEF Serial, SerialInv, VerdictsOnRecord
  <2>3. {"APPROVED", "REJECTED"} \subseteq Decisions
    BY DEF Decisions
  <2>4. CASE c # k
    <3>1. candidate'[c] = candidate[c]
      BY <1>2, <1>4, <2>4 DEF Serial, Typed, TypeOK
    <3> QED BY <2>1, <2>2, <2>3, <2>4, <3>1 DEF Verdict
  <2>5. CASE c = k
    <3>1. \A e \in {"APPROVED", "REJECTED"} : reviews[<<c, e>>] = 0
      BY <1>2, <2>1, <2>2, <2>3, <2>5
    <3>2. \A e \in Decisions : e = d => reviews[<<c, e>>] = 0
      BY <1>3, <2>5, <3>1 DEF Decisions
    <3>3. candidate'[c] = CASE d = "APPROVED" -> "READY"
                            [] d = "REJECTED" -> "REJECTED"
                            [] OTHER -> "PENDING_APPROVAL"
      BY <1>2, <1>4, <2>5 DEF Serial, Typed, TypeOK
    <3> QED
      BY <1>2, <2>1, <2>3, <2>5, <3>1, <3>2, <3>3 DEF Verdict, Decisions
  <2> QED BY <2>4, <2>5
<1>8. CountIsExact'
  <2>1. IsFiniteSet(ReadyCandidates) /\ approval_count = Cardinality(ReadyCandidates)
    <3>1. ReadyCandidates \in SUBSET Candidates
      BY DEF ReadyCandidates
    <3> QED
      BY <3>1, FS_Subset DEF ReadyCandidates, Serial, SerialInv, CountIsExact
  <2>2. k \notin ReadyCandidates
    BY <1>2 DEF ReadyCandidates
  <2>3. ReadyCandidates' = IF d = "APPROVED" THEN ReadyCandidates \cup {k}
                           ELSE ReadyCandidates
    BY <1>2, <1>4 DEF ReadyCandidates, Serial, Typed, TypeOK, Decisions
  <2>4. approval_count' = Cardinality(ReadyCandidates')
    BY <1>4, <2>1, <2>2, <2>3, FS_AddElement
  <2> QED
    BY <2>4 DEF CountIsExact, ReadyCandidates
<1>9. DecisionCurrent'
  <2>1. \A r \in Sessions : tx'[r] = None
    BY DEF OneAtATime, Deciders, Commit, Set, Serial, Typed, TypeOK
  <2> QED BY <2>1 DEF DecisionCurrent
<1> QED
  BY <1>5, <1>6, <1>7, <1>8, <1>9 DEF SerialInv

LEMMA SerialStep ==
  ASSUME OneAtATime, Serial, [Next]_vars
  PROVE  SerialInv' /\ \A c \in Candidates : candidate[c] # "PENDING_APPROVAL"
                                               => candidate'[c] = candidate[c]
<1>1. CASE UNCHANGED verdicts
  <2>1. \A c \in Candidates : candidate'[c] = candidate[c]
    BY <1>1 DEF verdicts
  <2>2. CASE UNCHANGED tx
    <3>1. SerialInv /\ \A s \in Sessions : tx'[s] = tx[s]
      BY <2>2 DEF Serial
    <3> QED
      BY <1>1, <2>1, <3>1, SerialQuiet
  <2>3. ASSUME NEW s \in Sessions, Deciding(s) PROVE SerialInv'
    <3>1. CASE \E c \in Candidates, d \in Decisions : ReadCandidate(s, c, d)
      BY <3>1, SerialReadCandidate
    <3>2. CASE tx[s] # None /\ \E chosen \in SUBSET ItemsOf[tx[s].cand] : ReadPack(s, chosen)
      BY <3>2, SerialReadPack
    <3>3. CASE \E a \in Assets : PassOver(s, a) \/ Move(s, a)
      BY <3>3, SerialPromote
    <3>4. CASE \/ \E a \in Assets : MoveFails(s, a)
               \/ Abort(s)
      BY <3>4, SerialRollback DEF MoveFails, Abort
    <3>5. CASE Commit(s)
      BY <3>5, SerialCommit
    <3> QED BY <2>3, <3>1, <3>2, <3>3, <3>4, <3>5 DEF Deciding
  <2>4. UNCHANGED tx \/ \E s \in Sessions : Deciding(s)
    BY DEF Next, Fetching, vars, EnqueueAcquisition, Reselect, SkipFetch, StartFetch,
       Download, CommitFetch, AbortFetch
  <2> QED BY <2>1, <2>2, <2>3, <2>4
<1> QED
  BY <1>1, OnlyCommits, SerialCommit

\* The history says what has been open: until it is set there is one decision
\* before a step and after it.
WatchedInv == Typed /\ (~overlapped => OneAtATime /\ SerialInv)

LEMMA WatchedInit == OverlapInit => WatchedInv
BY TypedInit, SerialInit DEF OverlapInit, WatchedInv, OneAtATime, Deciders, Init

LEMMA StillAlone ==
  ASSUME OverlapNext, ~overlapped'
  PROVE  ~overlapped /\ OneAtATime'
BY DEF OverlapNext, OneAtATime

LEMMA WatchedStep ==
  ASSUME WatchedInv, [OverlapNext]_overlapVars
  PROVE  /\ WatchedInv'
         /\ \A c \in Candidates : ~overlapped' /\ candidate[c] # "PENDING_APPROVAL"
                                    => candidate'[c] = candidate[c]
<1>1. CASE OverlapNext
  <2>1. Typed'
    BY <1>1, TypedStep DEF WatchedInv, OverlapNext
  <2>2. ASSUME ~overlapped'
        PROVE  OneAtATime' /\ SerialInv' /\
               \A c \in Candidates : candidate[c] # "PENDING_APPROVAL"
                                       => candidate'[c] = candidate[c]
    <3>1. ~overlapped /\ OneAtATime'
      BY <1>1, <2>2, StillAlone
    <3> QED BY <1>1, <3>1, SerialStep DEF WatchedInv, Serial, OverlapNext
  <2> QED BY <2>1, <2>2 DEF WatchedInv
<1>2. CASE UNCHANGED overlapVars
  <2>1. UNCHANGED vars /\ UNCHANGED overlapped /\ UNCHANGED tx
    BY <1>2 DEF overlapVars, vars
  <2>2. Typed' /\ (OneAtATime => OneAtATime')
    BY <2>1, TypedStep DEF WatchedInv, OneAtATime, Deciders
  <2>3. ~overlapped => SerialInv'
    BY <2>1, SerialStep DEF WatchedInv, Serial
  <2>4. candidate' = candidate
    BY <2>1 DEF vars, verdicts
  <2> QED BY <2>1, <2>2, <2>3, <2>4 DEF WatchedInv
<1> QED
  BY <1>1, <1>2

(* Until two decisions have overlapped, candidate, pack, flags, rows and    *)
(* counter agree: the two conjuncts of the invariant that carry it are what *)
(* the open decision has read (DecisionCurrent) and the agreement itself.   *)
THEOREM SerialReview == OverlapSpec => []SerialUnlessOverlapped
<1>1. WatchedInv => SerialUnlessOverlapped
  BY DEF WatchedInv, SerialUnlessOverlapped
<1>2. WatchedInv /\ [OverlapNext]_overlapVars => WatchedInv'
  BY WatchedStep
<1> QED
  BY <1>1, <1>2, WatchedInit, PTL DEF OverlapSpec

(* Until two decisions have overlapped, a READY or REJECTED candidate stays *)
(* so, whatever is asked of it.                                             *)
THEOREM FinalDecisions == OverlapSpec => FinalUnlessOverlapped
<1>1. WatchedInv /\ [OverlapNext]_overlapVars
        => [\A c \in Candidates : ~overlapped' /\ candidate[c] # "PENDING_APPROVAL"
                                    => candidate'[c] = candidate[c]]_overlapVars
  BY WatchedStep
<1>2. WatchedInv /\ [OverlapNext]_overlapVars => WatchedInv'
  BY WatchedStep
<1> QED
  BY <1>1, <1>2, WatchedInit, PTL DEF OverlapSpec, FinalUnlessOverlapped

-----------------------------------------------------------------------------
(* Files and rows                                                           *)

OwnBlobs == \A a, b \in Assets : BlobOf[a] = BlobOf[b] => a = b

\* A path is its asset's own, and older than the open download of its item.
OwnPath(p, a) ==
  /\ p.name[1][2] = a
  /\ p.name[2] <= tries[p.name[1]]
  /\ fetch # None /\ fetch.item = p.name[1] => p.name[2] < tries[p.name[1]]

RowsOwn == \A a \in Assets : local_path[a] # None => OwnPath(local_path[a], a)

MovesOwn ==
  \A s \in Sessions : tx[s] # None =>
    /\ \A a \in Assets, p \in Paths :
         <<a, p>> \in tx[s].moved => OwnPath(p, a) /\ Ready(p) \in disk
    /\ tx[s].step = "pack" => tx[s].moved = {}

FetchOwn ==
  fetch # None /\ fetch.path # None =>
    fetch.path \in disk /\ fetch.path.name = <<fetch.item, tries[fetch.item]>>

FilesInv == Typed /\ RowsOwn /\ MovesOwn /\ FetchOwn /\ DanglingWasMoved

LEMMA FilesInit == Init => FilesInv
BY TypedInit DEF Init, FilesInv, RowsOwn, MovesOwn, FetchOwn, DanglingWasMoved, Dangling

LEMMA PathParts ==
  ASSUME NEW p \in Paths
  PROVE  /\ p.name[1] \in Items /\ p.name[1][2] \in Assets /\ p.name[2] \in 1..MaxTries
         /\ Ready(p) \in Paths /\ Ready(p).name = p.name /\ Ready(p).dir = "ready"
BY DEF Paths, Names, Items, Ready

LEMMA InFlightAssets ==
  ASSUME Typed
  PROVE  \A a \in Assets : a \in InFlight <=>
           \E s \in Sessions : tx[s] # None /\ \E p \in Paths : <<a, p>> \in tx[s].moved
<1>1. \A s \in Sessions : tx[s] # None => tx[s].moved \subseteq Assets \X Paths
  BY DEF Typed, TypeOK, Reviews
<1>2. ASSUME NEW a \in Assets, NEW s \in Sessions, tx[s] # None, NEW m \in tx[s].moved,
             m[1] = a
      PROVE  \E p \in Paths : <<a, p>> \in tx[s].moved
  <2>1. m[2] \in Paths /\ <<a, m[2]>> = m
    BY <1>1, <1>2
  <2> QED BY <2>1
<1>3. ASSUME NEW a \in Assets, NEW s \in Sessions, tx[s] # None, NEW p \in Paths,
             <<a, p>> \in tx[s].moved
      PROVE  \E m \in tx[s].moved : m[1] = a
  BY <1>3
<1> QED
  BY <1>2, <1>3 DEF InFlight

\* Steps that touch neither files nor paths and open or end decisions only
\* while these have moved nothing.
LEMMA FilesQuiet ==
  ASSUME FilesInv, Typed', UNCHANGED <<local_path, disk, tries, fetch, stranded>>,
         \A s \in Sessions :
           \/ tx'[s] = None /\ (tx[s] # None => tx[s].moved = {})
           \/ tx[s] = None /\ tx'[s].moved = {}
           \/ tx[s] # None /\ tx'[s] # None /\ tx'[s].moved = tx[s].moved
              /\ (tx'[s].step = "pack" => tx[s].step = "pack")
  PROVE  FilesInv'
<1>1. RowsOwn' /\ FetchOwn'
  BY DEF FilesInv, RowsOwn, FetchOwn, OwnPath
<1>2. MovesOwn'
  <2> SUFFICES ASSUME NEW s \in Sessions, tx'[s] # None
               PROVE  /\ \A a \in Assets, p \in Paths : <<a, p>> \in tx'[s].moved
                           => OwnPath(p, a)' /\ Ready(p) \in disk'
                      /\ tx'[s].step = "pack" => tx'[s].moved = {}
    BY DEF MovesOwn
  <2>1. \A a \in Assets, p \in Paths : OwnPath(p, a) <=> OwnPath(p, a)'
    BY DEF OwnPath
  <2>2. CASE tx'[s].moved = {}
    BY <2>2
  <2>3. CASE /\ tx[s] # None /\ tx'[s].moved = tx[s].moved
             /\ tx'[s].step = "pack" => tx[s].step = "pack"
    BY <2>1, <2>3 DEF FilesInv, MovesOwn
  <2> QED BY <2>2, <2>3
<1>3. \A a \in Assets : a \in InFlight => a \in InFlight'
  <2> SUFFICES ASSUME NEW s \in Sessions, tx[s] # None, NEW m \in tx[s].moved
               PROVE  tx'[s] # None /\ m \in tx'[s].moved
    BY DEF InFlight
  <2> QED OBVIOUS
<1>4. DanglingWasMoved'
  BY <1>3 DEF FilesInv, DanglingWasMoved, Dangling
<1> QED
  BY <1>1, <1>2, <1>4 DEF FilesInv

LEMMA FilesReadCandidate ==
  ASSUME FilesInv, Typed', NEW s \in Sessions, NEW c \in Candidates, NEW d \in Decisions,
         ReadCandidate(s, c, d)
  PROVE  FilesInv'
<1>1. tx[s] = None /\ tx'[s].moved = {} /\ \A r \in Sessions : r # s => tx'[r] = tx[r]
  BY DEF ReadCandidate, Set, FilesInv, Typed, TypeOK
<1>2. UNCHANGED <<local_path, disk, tries, fetch, stranded>>
  BY DEF ReadCandidate, jobs
<1>3. ASSUME NEW r \in Sessions
      PROVE  \/ tx'[r] = None /\ (tx[r] # None => tx[r].moved = {})
             \/ tx[r] = None /\ tx'[r].moved = {}
             \/ tx[r] # None /\ tx'[r] # None /\ tx'[r].moved = tx[r].moved
                /\ (tx'[r].step = "pack" => tx[r].step = "pack")
  <2>1. CASE r = s
    BY <1>1, <2>1
  <2>2. CASE r # s
    BY <1>1, <2>2
  <2> QED BY <2>1, <2>2
<1> QED
  BY <1>2, <1>3, FilesQuiet

LEMMA PackMovesNothing ==
  ASSUME FilesInv, NEW s \in Sessions, NEW chosen, ReadPack(s, chosen)
  PROVE  /\ tx[s] # None /\ tx[s].step = "pack" /\ tx[s].moved = {} /\ tx[s] \in Reviews
         /\ tx'[s] = None \/ tx'[s].moved = {}
<1>1. tx[s] # None /\ tx[s].step = "pack" /\ tx[s].moved = {} /\ tx[s] \in Reviews
      /\ tx \in [Sessions -> Reviews \cup {None}]
  BY DEF ReadPack, FilesInv, MovesOwn, Typed, TypeOK
<1> DEFINE c == tx[s].cand
           approving == tx[s].decision = "APPROVED"
           add == IF approving THEN chosen \ selected[c] ELSE {}
           drop == IF approving THEN selected[c] \ chosen ELSE {}
           todo == IF approving THEN chosen ELSE {}
           app == c \in approved
           arch == c \in archived
           open == [tx[s] EXCEPT !.step = "promote", !.was = pack[c],
                      !.approved = app, !.archived = arch,
                      !.count = approval_count,
                      !.add = add, !.drop = drop, !.todo = todo]
<1>2. tx' = [tx EXCEPT ![s] = None] \/ tx' = [tx EXCEPT ![s] = open]
  BY DEF ReadPack, Set
<1>3. open.moved = tx[s].moved
  <2> HIDE DEF c, add, drop, todo, app, arch
  <2> QED BY <1>1 DEF Reviews
<1> HIDE DEF open
<1> QED BY <1>1, <1>2, <1>3

LEMMA FilesReadPack ==
  ASSUME FilesInv, Typed', NEW s \in Sessions, NEW chosen, ReadPack(s, chosen)
  PROVE  FilesInv'
<1>1. /\ tx[s] # None /\ tx[s].step = "pack" /\ tx[s].moved = {}
      /\ tx'[s] = None \/ tx'[s].moved = {}
  BY PackMovesNothing
<1>2. \A r \in Sessions : r # s => tx'[r] = tx[r]
  BY DEF ReadPack, Set, FilesInv, Typed, TypeOK
<1>3. UNCHANGED <<local_path, disk, tries, fetch, stranded>>
  BY DEF ReadPack, jobs
<1>4. ASSUME NEW r \in Sessions
      PROVE  \/ tx'[r] = None /\ (tx[r] # None => tx[r].moved = {})
             \/ tx[r] = None /\ tx'[r].moved = {}
             \/ tx[r] # None /\ tx'[r] # None /\ tx'[r].moved = tx[r].moved
                /\ (tx'[r].step = "pack" => tx[r].step = "pack")
  <2>1. CASE r = s
    BY <1>1, <2>1
  <2>2. CASE r # s
    BY <1>2, <2>2
  <2> QED BY <2>1, <2>2
<1> QED
  BY <1>3, <1>4, FilesQuiet

LEMMA FilesPassOver ==
  ASSUME FilesInv, Typed', NEW s \in Sessions, NEW a \in Assets, PassOver(s, a)
  PROVE  FilesInv'
<1> DEFINE rest == tx[s].todo \ {a}
           after == [tx[s] EXCEPT !.todo = rest]
<1>1. tx[s] # None /\ tx[s].step = "promote" /\ tx[s] \in Reviews
      /\ tx \in [Sessions -> Reviews \cup {None}]
  BY DEF PassOver, FilesInv, Typed, TypeOK
<1>2. rest \subseteq Assets
  BY <1>1 DEF Reviews
<1>3. after \in Reviews /\ after.step = "promote" /\ after.moved = tx[s].moved
  <2> HIDE DEF rest
  <2> QED BY <1>1, <1>2 DEF Reviews
<1>4. tx' = [tx EXCEPT ![s] = after]
  BY DEF PassOver, Set
<1>5. tx'[s] = after /\ tx'[s] # None /\ \A r \in Sessions : r # s => tx'[r] = tx[r]
  <2> HIDE DEF after
  <2> QED BY <1>1, <1>3, <1>4, NoneApart
<1>6. UNCHANGED <<local_path, disk, tries, fetch, stranded>>
  BY DEF PassOver, jobs
<1>7. ASSUME NEW r \in Sessions
      PROVE  \/ tx'[r] = None /\ (tx[r] # None => tx[r].moved = {})
             \/ tx[r] = None /\ tx'[r].moved = {}
             \/ tx[r] # None /\ tx'[r] # None /\ tx'[r].moved = tx[r].moved
                /\ (tx'[r].step = "pack" => tx[r].step = "pack")
  <2> HIDE DEF after
  <2>1. CASE r = s
    BY <1>1, <1>3, <1>5, <2>1
  <2>2. CASE r # s
    BY <1>5, <2>2
  <2> QED BY <2>1, <2>2
<1> QED
  BY <1>6, <1>7, FilesQuiet

\* Steps of the worker that leave files and paths alone.
LEMMA FilesWorker ==
  ASSUME FilesInv, Typed', UNCHANGED <<local_path, disk, tx, stranded>>,
         \/ \E i \in Items : SkipFetch(i) \/ StartFetch(i)
         \/ AbortFetch
  PROVE  FilesInv'
<1>1. ASSUME NEW p \in Paths, NEW a \in Assets, OwnPath(p, a) PROVE OwnPath(p, a)'
  <2>1. p.name[1] \in Items /\ p.name[2] \in Nat
    BY PathParts
  <2>2. tries \in [Items -> 0..MaxTries]
    BY DEF FilesInv, Typed, TypeOK
  <2>3. CASE AbortFetch
    BY <1>1, <2>1, <2>3 DEF OwnPath, AbortFetch
  <2>4. ASSUME NEW i \in Items, SkipFetch(i) \/ StartFetch(i) PROVE OwnPath(p, a)'
    <3>1. /\ tries' = [tries EXCEPT ![i] = @ + 1] /\ fetch = None
          /\ fetch' = None \/ fetch'.item = i
      BY <2>4 DEF SkipFetch, StartFetch
    <3> QED BY <1>1, <2>1, <2>2, <3>1 DEF OwnPath
  <2> QED BY <2>3, <2>4
<1>2. \A a \in Assets : local_path[a] # None => local_path[a] \in Paths
  BY DEF FilesInv, Typed, TypeOK
<1>3. RowsOwn' /\ MovesOwn'
  BY <1>1, <1>2 DEF FilesInv, RowsOwn, MovesOwn
<1>4. FetchOwn'
  BY NoneApart DEF FilesInv, FetchOwn, SkipFetch, StartFetch, AbortFetch
<1>5. DanglingWasMoved'
  BY DEF FilesInv, DanglingWasMoved, Dangling, InFlight
<1> QED
  BY <1>3, <1>4, <1>5 DEF FilesInv

LEMMA FilesDownload ==
  ASSUME OwnBlobs, FilesInv, Typed', Download
  PROVE  FilesInv'
<1> DEFINE fresh == [dir |-> "processing", name |-> <<fetch.item, tries[fetch.item]>>]
<1>1. /\ fetch # None /\ fetch \in Fetches /\ fetch.item \in Items /\ fetch.item[2] \in Assets
      /\ tries[fetch.item] \in 1..MaxTries
  BY FetchTyped DEF Download, FilesInv, Items
<1>2. fresh \in Paths
  BY <1>1 DEF Paths, Names
<1>3. Twins(fetch.item[2]) = {}
  BY <1>1 DEF Twins, OwnBlobs
<1>4. disk' = disk \cup {fresh} /\ fetch' = [fetch EXCEPT !.path = fresh]
  BY <1>3 DEF Download
<1>5. UNCHANGED <<local_path, tx, tries, stranded>> /\ fetch' # None
      /\ fetch'.item = fetch.item /\ fetch'.path = fresh
  <2>1. fetch' \in Fetches
    BY <1>1, <1>2, <1>4 DEF Fetches
  <2> QED BY <1>1, <1>4, <2>1 DEF Download, jobs, Fetches
<1>6. RowsOwn' /\ MovesOwn'
  BY <1>1, <1>4, <1>5 DEF FilesInv, RowsOwn, MovesOwn, OwnPath
<1>7. FetchOwn'
  BY <1>4, <1>5 DEF FetchOwn
<1>8. DanglingWasMoved'
  BY <1>4, <1>5 DEF FilesInv, DanglingWasMoved, Dangling, InFlight
<1> QED
  BY <1>6, <1>7, <1>8 DEF FilesInv

LEMMA FilesCommitFetch ==
  ASSUME FilesInv, Typed', CommitFetch
  PROVE  FilesInv'
<1>1. /\ fetch # None /\ fetch.path # None /\ fetch.path \in Paths
      /\ fetch.item \in Items /\ fetch.item[2] \in Assets
      /\ tries[fetch.item] \in 1..MaxTries
  BY FetchTyped DEF CommitFetch, FilesInv, Items
<1>2. fetch.path \in disk /\ fetch.path.name = <<fetch.item, tries[fetch.item]>>
  BY <1>1 DEF FilesInv, FetchOwn
<1>3. /\ local_path' = [local_path EXCEPT ![fetch.item[2]] = fetch.path]
      /\ fetch' = None /\ UNCHANGED <<disk, tx, tries, stranded>>
  BY DEF CommitFetch
<1>4. local_path \in [Assets -> Paths \cup {None}]
  BY DEF FilesInv, Typed, TypeOK
<1>5. RowsOwn'
  <2> SUFFICES ASSUME NEW a \in Assets, local_path'[a] # None
               PROVE  OwnPath(local_path[a], a)'
    BY DEF RowsOwn
  <2>1. CASE a = fetch.item[2]
    BY <1>1, <1>2, <1>3, <1>4, <2>1 DEF OwnPath
  <2>2. CASE a # fetch.item[2]
    BY <1>1, <1>3, <1>4, <2>2 DEF OwnPath, FilesInv, RowsOwn
  <2> QED BY <2>1, <2>2
<1>6. MovesOwn' /\ FetchOwn'
  BY <1>3 DEF FilesInv, MovesOwn, FetchOwn, OwnPath
<1>7. DanglingWasMoved'
  BY <1>1, <1>2, <1>3, <1>4 DEF FilesInv, DanglingWasMoved, Dangling, InFlight
<1> QED
  BY <1>5, <1>6, <1>7 DEF FilesInv

LEMMA FilesMove ==
  ASSUME FilesInv, Typed', NEW s \in Sessions, NEW a \in Assets, Move(s, a)
  PROVE  FilesInv'
<1> DEFINE p == local_path[a]
<1>1. /\ tx[s] # None /\ tx[s].step = "promote" /\ p # None /\ p.dir = "processing"
      /\ p \in disk /\ UNCHANGED <<local_path, tries, fetch, stranded>>
      /\ disk' = (disk \ {p}) \cup {Ready(p)}
      /\ p \in Paths
  BY DEF Move, jobs, FilesInv, Typed, TypeOK
<1>2. OwnPath(p, a)
  BY <1>1 DEF FilesInv, RowsOwn
<1>3. /\ \A r \in Sessions : r # s => tx'[r] = tx[r]
      /\ tx'[s].step = "promote" /\ tx'[s].moved = tx[s].moved \cup {<<a, p>>}
      /\ tx'[s] # None
  <2> DEFINE todo == tx[s].todo \ {a}
             moved == tx[s].moved \cup {<<a, p>>}
             after == [tx[s] EXCEPT !.todo = todo, !.moved = moved]
  <2>1. tx \in [Sessions -> Reviews \cup {None}] /\ tx[s] \in Reviews
    BY <1>1 DEF FilesInv, Typed, TypeOK
  <2>2. tx' = [tx EXCEPT ![s] = after]
    BY DEF Move, Set
  <2>3. todo \subseteq Assets /\ moved \subseteq Assets \X Paths
    BY <1>1, <2>1 DEF Reviews
  <2>4. after \in Reviews /\ after.step = tx[s].step /\ after.moved = moved
    <3> HIDE DEF todo, moved
    <3> QED BY <2>1, <2>3 DEF Reviews
  <2> HIDE DEF after
  <2>5. tx'[s] = after /\ \A r \in Sessions : r # s => tx'[r] = tx[r]
    BY <2>1, <2>2
  <2> QED BY <1>1, <2>4, <2>5, NoneApart
<1>4. RowsOwn'
  BY <1>1 DEF FilesInv, RowsOwn, OwnPath
<1>5. Ready(p).dir = "ready" /\ \A q \in Paths : Ready(q) # p
  BY <1>1, PathParts
<1>6. MovesOwn'
  <2> SUFFICES ASSUME NEW r \in Sessions, tx'[r] # None
               PROVE  /\ \A b \in Assets, q \in Paths : <<b, q>> \in tx'[r].moved
                           => OwnPath(q, b)' /\ Ready(q) \in disk'
                      /\ tx'[r].step = "pack" => tx'[r].moved = {}
    BY DEF MovesOwn
  <2>1. \A b \in Assets, q \in Paths : OwnPath(q, b) <=> OwnPath(q, b)'
    BY <1>1 DEF OwnPath
  <2>2. \A q \in Paths : Ready(q) \in disk => Ready(q) \in disk'
    BY <1>1, <1>5
  <2>3. CASE r # s
    BY <1>3, <2>1, <2>2, <2>3 DEF FilesInv, MovesOwn
  <2>4. CASE r = s
    <3>1. Ready(p) \in disk'
      BY <1>1
    <3> QED
      BY <1>1, <1>2, <1>3, <2>1, <2>2, <2>4, <3>1 DEF FilesInv, MovesOwn
  <2> QED BY <2>3, <2>4
<1>7. FetchOwn'
  <2>1. fetch # None => fetch.path # p
    BY <1>1, <1>2, PathParts DEF OwnPath, FilesInv, FetchOwn, Typed, TypeOK
  <2> QED BY <1>1, <2>1 DEF FilesInv, FetchOwn
<1>8. DanglingWasMoved'
  <2> SUFFICES ASSUME NEW b \in Assets, local_path[b] # None, local_path[b] \notin disk'
               PROVE  b \in InFlight' \/ b \in stranded
    BY <1>1 DEF DanglingWasMoved, Dangling
  <2>1. CASE b = a
    <3>1. <<a, p>> \in tx'[s].moved /\ <<a, p>>[1] = b
      BY <1>3, <2>1
    <3> HIDE DEF p
    <3> QED BY <1>3, <3>1 DEF InFlight
  <2>2. CASE b # a
    <3>1. local_path[b] # p
      BY <1>2, <2>2 DEF FilesInv, RowsOwn, OwnPath
    <3>2. local_path[b] \notin disk
      BY <1>1, <3>1
    <3>3. b \in InFlight \/ b \in stranded
      BY <3>2 DEF FilesInv, DanglingWasMoved, Dangling
    <3>4. b \in InFlight => b \in InFlight'
      BY <1>3 DEF InFlight
    <3> QED BY <3>3, <3>4
  <2> QED BY <2>1, <2>2
<1> QED
  BY <1>4, <1>6, <1>7, <1>8 DEF FilesInv

LEMMA FilesRollback ==
  ASSUME FilesInv, Typed', NEW s \in Sessions, tx[s] # None, Rollback(s)
  PROVE  FilesInv'
<1>1. /\ UNCHANGED <<local_path, disk, tries, fetch>>
      /\ tx'[s] = None /\ \A r \in Sessions : r # s => tx'[r] = tx[r]
      /\ stranded' = stranded \cup {m[1] : m \in tx[s].moved}
  BY DEF Rollback, Set, jobs, FilesInv, Typed, TypeOK
<1>2. RowsOwn' /\ FetchOwn'
  BY <1>1 DEF FilesInv, RowsOwn, FetchOwn, OwnPath
<1>3. MovesOwn'
  <2> SUFFICES ASSUME NEW r \in Sessions, tx'[r] # None
               PROVE  /\ \A b \in Assets, q \in Paths : <<b, q>> \in tx'[r].moved
                           => OwnPath(q, b)' /\ Ready(q) \in disk'
                      /\ tx'[r].step = "pack" => tx'[r].moved = {}
    BY DEF MovesOwn
  <2>1. r # s /\ tx'[r] = tx[r]
    BY <1>1
  <2> QED BY <1>1, <2>1 DEF FilesInv, MovesOwn, OwnPath
<1>4. \A a \in InFlight : a \in InFlight' \/ a \in stranded'
  <2> SUFFICES ASSUME NEW r \in Sessions, tx[r] # None, NEW m \in tx[r].moved, m[1] \in Assets
               PROVE  m[1] \in InFlight' \/ m[1] \in stranded'
    BY DEF InFlight
  <2>1. CASE r = s
    BY <1>1, <2>1
  <2>2. CASE r # s
    BY <1>1, <2>2 DEF InFlight
  <2> QED BY <2>1, <2>2
<1>5. DanglingWasMoved'
  BY <1>1, <1>4 DEF FilesInv, DanglingWasMoved, Dangling
<1> QED
  BY <1>2, <1>3, <1>5 DEF FilesInv

LEMMA FilesCommit ==
  ASSUME FilesInv, Typed', NEW s \in Sessions, Commit(s)
  PROVE  FilesInv'
<1>1. /\ tx[s] # None /\ UNCHANGED <<disk, tries, fetch, stranded>>
      /\ tx'[s] = None /\ \A r \in Sessions : r # s => tx'[r] = tx[r]
      /\ local_path' = PathsAfter(s)
  BY DEF Commit, Set, jobs, FilesInv, Typed, TypeOK
<1>2. \A a \in Assets :
        IF Moved(s, a) = {} THEN local_path'[a] = local_path[a]
        ELSE \E p \in Paths : <<a, p>> \in tx[s].moved /\ local_path'[a] = Ready(p)
  <2> SUFFICES ASSUME NEW a \in Assets
               PROVE  IF Moved(s, a) = {} THEN local_path'[a] = local_path[a]
                      ELSE \E p \in Paths : <<a, p>> \in tx[s].moved /\ local_path'[a] = Ready(p)
    OBVIOUS
  <2>1. local_path'[a] = IF Moved(s, a) = {} THEN local_path[a]
                         ELSE Ready(CHOOSE p \in Moved(s, a) : TRUE)
    BY <1>1 DEF PathsAfter
  <2>2. CASE Moved(s, a) = {}
    BY <2>1, <2>2
  <2>3. CASE Moved(s, a) # {}
    <3>1. PICK p \in Moved(s, a) : p = CHOOSE q \in Moved(s, a) : TRUE
      BY <2>3
    <3>2. p \in Paths /\ <<a, p>> \in tx[s].moved
      BY DEF Moved
    <3> QED BY <2>1, <2>3, <3>1, <3>2
  <2> QED BY <2>2, <2>3
<1>3. \A a \in Assets, p \in Paths :
        <<a, p>> \in tx[s].moved => OwnPath(p, a) /\ Ready(p) \in disk
  BY <1>1 DEF FilesInv, MovesOwn
<1>4. \A a \in Assets, p \in Paths : OwnPath(p, a) => OwnPath(p, a)' /\ OwnPath(Ready(p), a)'
  BY <1>1, PathParts DEF OwnPath
<1>5. \A a \in Assets : local_path[a] # None => local_path[a] \in Paths
  BY DEF FilesInv, Typed, TypeOK
<1>6. RowsOwn'
  <2> SUFFICES ASSUME NEW a \in Assets, local_path'[a] # None
               PROVE  OwnPath(local_path[a], a)'
    BY DEF RowsOwn
  <2>1. CASE Moved(s, a) = {}
    <3>1. OwnPath(local_path[a], a) /\ local_path'[a] = local_path[a]
      BY <1>2, <2>1 DEF FilesInv, RowsOwn
    <3> QED BY <1>1, <3>1 DEF OwnPath
  <2>2. CASE Moved(s, a) # {}
    <3>1. PICK p \in Paths : <<a, p>> \in tx[s].moved /\ local_path'[a] = Ready(p)
      BY <1>2, <2>2
    <3>2. OwnPath(p, a) /\ Ready(p).name = p.name
      BY <1>3, <3>1, PathParts
    <3> QED BY <1>1, <3>1, <3>2 DEF OwnPath
  <2> QED BY <2>1, <2>2
<1>7. MovesOwn'
  <2> SUFFICES ASSUME NEW r \in Sessions, tx'[r] # None
               PROVE  /\ \A b \in Assets, q \in Paths : <<b, q>> \in tx'[r].moved
                           => OwnPath(q, b)' /\ Ready(q) \in disk'
                      /\ tx'[r].step = "pack" => tx'[r].moved = {}
    BY DEF MovesOwn
  <2>1. r # s /\ tx'[r] = tx[r]
    BY <1>1
  <2> QED BY <1>1, <1>4, <2>1 DEF FilesInv, MovesOwn
<1>8. FetchOwn'
  BY <1>1 DEF FilesInv, FetchOwn
<1>9. DanglingWasMoved'
  <2> SUFFICES ASSUME NEW a \in Assets, local_path'[a] # None, local_path'[a] \notin disk
               PROVE  a \in InFlight' \/ a \in stranded
    BY <1>1 DEF DanglingWasMoved, Dangling
  <2>1. Moved(s, a) = {} /\ local_path'[a] = local_path[a]
    BY <1>2, <1>3
  <2>2. a \in InFlight \/ a \in stranded
    BY <2>1 DEF FilesInv, DanglingWasMoved, Dangling
  <2>3. CASE a \in InFlight
    <3>1. PICK r \in Sessions : tx[r] # None /\ \E p \in Paths : <<a, p>> \in tx[r].moved
      BY <2>3, InFlightAssets DEF FilesInv
    <3>2. r # s
      BY <2>1, <3>1 DEF Moved
    <3>3. tx'[r] # None /\ \E m \in tx'[r].moved : m[1] = a
      BY <1>1, <3>1, <3>2
    <3> QED BY <3>3 DEF InFlight
  <2> QED BY <2>2, <2>3
<1> QED
  BY <1>6, <1>7, <1>8, <1>9 DEF FilesInv

LEMMA FilesStep ==
  ASSUME OwnBlobs, FilesInv, Typed', [Next]_vars
  PROVE  FilesInv'
<1>1. CASE \/ \E c \in Candidates : EnqueueAcquisition(c)
           \/ \E c \in Candidates : \E chosen \in SUBSET ItemsOf[c] : Reselect(c, chosen)
           \/ UNCHANGED vars
  <2>1. UNCHANGED <<local_path, disk, tries, fetch, stranded, tx>>
    BY <1>1 DEF EnqueueAcquisition, Reselect, vars, jobs
  <2> QED BY <2>1, FilesQuiet
<1>2. CASE Fetching
  BY <1>2, FilesDownload, FilesCommitFetch, FilesWorker
     DEF Fetching, SkipFetch, StartFetch, AbortFetch
<1>3. ASSUME NEW s \in Sessions, NEW c \in Candidates, NEW d \in Decisions,
             ReadCandidate(s, c, d)
      PROVE  FilesInv'
  BY <1>3, FilesReadCandidate
<1>4. ASSUME NEW s \in Sessions, NEW chosen \in SUBSET ItemsOf[tx[s].cand], tx[s] # None,
             ReadPack(s, chosen)
      PROVE  FilesInv'
  BY <1>4, FilesReadPack
<1>5. ASSUME NEW s \in Sessions, NEW a \in Assets, PassOver(s, a)
      PROVE  FilesInv'
  BY <1>5, FilesPassOver
<1>6. ASSUME NEW s \in Sessions, \/ \E a \in Assets : Move(s, a) \/ MoveFails(s, a)
                                 \/ Abort(s) \/ Commit(s)
      PROVE  FilesInv'
  <2>1. CASE (\E a \in Assets : MoveFails(s, a)) \/ Abort(s)
    BY <2>1, FilesRollback DEF MoveFails, Abort
  <2> QED BY <1>6, <2>1, FilesMove, FilesCommit
<1> QED
  BY <1>1, <1>2, <1>3, <1>4, <1>5, <1>6 DEF Next, Deciding

(* While no two assets share their bytes, a row names a missing file only   *)
(* during or after a decision that moved it: downloads, retries, twins and  *)
(* overlapping decisions lose none.                                         *)
THEOREM FilesTracked == OwnBlobs /\ Spec => []DanglingWasMoved
<1>1. OwnBlobs /\ FilesInv /\ [Next]_vars => FilesInv'
  BY TypedStep, FilesStep DEF FilesInv
<1>2. OwnBlobs <=> OwnBlobs'
  BY DEF OwnBlobs
<1>3. FilesInv => DanglingWasMoved
  BY DEF FilesInv
<1> QED
  BY <1>1, <1>2, <1>3, FilesInit, PTL DEF Spec

-----------------------------------------------------------------------------
(* Rows and files while nothing overlaps and nothing fails                  *)

NotTwice ==
  /\ \A s \in Deciders : \A m \in tx[s].moved : m[1] \notin tx[s].todo
  /\ faults = 0 => stranded = {}

\* A step that opens and carries on decisions without moving anything twice.
LEMMA NotTwiceQuiet ==
  ASSUME NotTwice, UNCHANGED <<stranded, faults>>,
         \A s \in Sessions : tx'[s] # None =>
           \/ tx'[s] = tx[s]
           \/ \A m \in tx'[s].moved : m[1] \notin tx'[s].todo
  PROVE  NotTwice'
BY DEF NotTwice, Deciders

LEMMA NotTwiceOpen ==
  ASSUME FilesInv, NotTwice, NEW s \in Sessions,
         \/ \E c \in Candidates, d \in Decisions : ReadCandidate(s, c, d)
         \/ \E chosen \in SUBSET ItemsOf[tx[s].cand] : ReadPack(s, chosen)
  PROVE  NotTwice'
<1>1. UNCHANGED <<stranded, faults>>
  BY DEF ReadCandidate, ReadPack
<1>2. \A r \in Sessions : r # s => tx'[r] = tx[r]
  BY DEF ReadCandidate, ReadPack, Set, FilesInv, Typed, TypeOK
<1>3. tx'[s] = None \/ tx'[s].moved = {}
  <2>1. ASSUME NEW c \in Candidates, NEW d \in Decisions, ReadCandidate(s, c, d)
        PROVE  tx'[s].moved = {}
    BY <2>1 DEF ReadCandidate, Set, FilesInv, Typed, TypeOK
  <2>2. ASSUME NEW chosen \in SUBSET ItemsOf[tx[s].cand], ReadPack(s, chosen)
        PROVE  tx'[s] = None \/ tx'[s].moved = {}
    BY <2>2, PackMovesNothing
  <2> QED BY <2>1, <2>2
<1> QED
  BY <1>1, <1>2, <1>3, NotTwiceQuiet

LEMMA NotTwicePromote ==
  ASSUME FilesInv, NotTwice, NEW s \in Sessions, NEW a \in Assets, PassOver(s, a) \/ Move(s, a)
  PROVE  NotTwice'
<1> DEFINE rest == tx[s].todo \ {a}
           more == tx[s].moved \cup {<<a, local_path[a]>>}
<1>1. UNCHANGED <<stranded, faults>>
  BY DEF PassOver, Move
<1>2. /\ tx[s] # None /\ tx[s] \in Reviews
      /\ \A r \in Sessions : r # s => tx'[r] = tx[r]
  BY DEF PassOver, Move, Set, FilesInv, Typed, TypeOK
<1>3. \/ tx'[s] = [tx[s] EXCEPT !.todo = rest]
      \/ tx'[s] = [tx[s] EXCEPT !.todo = rest, !.moved = more]
  BY DEF PassOver, Move, Set, FilesInv, Typed, TypeOK
<1>4. \A m \in more : m[1] \notin rest
  BY <1>2 DEF NotTwice, Deciders
<1>5. tx'[s].todo = rest /\ tx'[s].moved \subseteq more
  <2>1. tx[s].moved \subseteq more
    OBVIOUS
  <2> HIDE DEF rest, more
  <2> QED BY <1>2, <1>3, <2>1 DEF Reviews
<1>6. \A m \in tx'[s].moved : m[1] \notin tx'[s].todo
  BY <1>4, <1>5
<1> QED
  <2> HIDE DEF rest, more
  <2> QED BY <1>1, <1>2, <1>6, NotTwiceQuiet

\* The row of an asset that is still to be promoted names a file: nobody but
\* the open decision has moved one, and it has not come to this one yet.
LEMMA MovesDoNotFail ==
  ASSUME OneAtATime, FilesInv, NotTwice, faults = 0,
         NEW s \in Sessions, NEW a \in Assets, MoveFails(s, a)
  PROVE  FALSE
<1>1. tx[s] # None /\ a \in tx[s].todo /\ a \in Dangling /\ stranded = {}
  BY DEF MoveFails, Turn, Dangling, NotTwice
<1>2. a \in InFlight
  BY <1>1 DEF FilesInv, DanglingWasMoved
<1>3. PICK r \in Sessions : tx[r] # None /\ \E m \in tx[r].moved : m[1] = a
  BY <1>2 DEF InFlight
<1>4. r = s
  BY <1>1, <1>3 DEF OneAtATime, Deciders
<1> QED
  BY <1>1, <1>3, <1>4 DEF NotTwice, Deciders

LEMMA NotTwiceEnd ==
  ASSUME OneAtATime, FilesInv, NotTwice, NEW s \in Sessions,
         \/ \E a \in Assets : MoveFails(s, a)
         \/ Abort(s) \/ Commit(s)
  PROVE  NotTwice'
<1>1. \A r \in Sessions : tx'[r] # None => tx'[r] = tx[r]
  BY DEF MoveFails, Abort, Rollback, Commit, Set, FilesInv, Typed, TypeOK
<1>2. faults' = 0 => stranded' = {}
  <2>1. CASE Commit(s)
    BY <2>1 DEF Commit, NotTwice
  <2>2. CASE Abort(s)
    BY <2>2 DEF Abort, FilesInv, Typed, TypeOK
  <2>3. CASE \E a \in Assets : MoveFails(s, a)
    BY <2>3, MovesDoNotFail DEF MoveFails
  <2> QED BY <2>1, <2>2, <2>3
<1> QED
  BY <1>1, <1>2 DEF NotTwice, Deciders

LEMMA NotTwiceStep ==
  ASSUME OneAtATime, FilesInv, NotTwice, [Next]_vars
  PROVE  NotTwice'
<1>1. ASSUME NEW s \in Sessions, Deciding(s) PROVE NotTwice'
  BY <1>1, NotTwiceOpen, NotTwicePromote, NotTwiceEnd DEF Deciding
<1>2. CASE /\ UNCHANGED <<tx, stranded>>
           /\ faults' = faults \/ faults' = faults + 1
  <2>1. faults' = 0 => faults = 0
    BY <1>2 DEF FilesInv, Typed, TypeOK
  <2> QED BY <1>2, <2>1 DEF NotTwice, Deciders
<1>3. \/ \E s \in Sessions : Deciding(s)
      \/ UNCHANGED <<tx, stranded>> /\ (faults' = faults \/ faults' = faults + 1)
  BY DEF Next, Fetching, vars, EnqueueAcquisition, Reselect, SkipFetch, StartFetch,
     Download, CommitFetch, AbortFetch
<1> QED
  BY <1>1, <1>2, <1>3

MovesInv == FilesInv /\ MovesNothingTwice

LEMMA MovesInit == OverlapInit => MovesInv
BY FilesInit DEF OverlapInit, MovesInv, MovesNothingTwice, Deciders, Init

LEMMA MovesStep ==
  ASSUME OwnBlobs, MovesInv, [OverlapNext]_overlapVars
  PROVE  MovesInv'
<1>1. [Next]_vars
  BY DEF OverlapNext, overlapVars
<1>2. FilesInv'
  BY <1>1, TypedStep, FilesStep DEF MovesInv, FilesInv
<1>3. ASSUME ~overlapped' PROVE OneAtATime' /\ NotTwice'
  <2>1. ~overlapped
    BY <1>3, StillAlone DEF overlapVars
  <2>2. OneAtATime /\ NotTwice
    BY <2>1 DEF MovesInv, MovesNothingTwice, NotTwice, OneAtATime
  <2>3. OneAtATime'
    <3>1. CASE OverlapNext
      BY <1>3, <3>1, StillAlone
    <3>2. CASE UNCHANGED overlapVars
      BY <2>2, <3>2 DEF overlapVars, vars, OneAtATime, Deciders
    <3> QED BY <3>1, <3>2
  <2> QED BY <1>1, <2>2, <2>3, NotTwiceStep DEF MovesInv
<1> QED
  BY <1>2, <1>3 DEF MovesInv, MovesNothingTwice, NotTwice, OneAtATime

(* While no two assets share their bytes, decisions have not overlapped and *)
(* nothing has failed, every path on record names a file whenever neither a *)
(* decision nor a download is open: no promotion fails, and each commit     *)
(* follows the files it has moved.                                          *)
THEOREM RowsFindFiles == OwnBlobs /\ OverlapSpec => []CoherentUnlessOverlapped
<1>1. MovesInv => CoherentUnlessOverlapped
  <2> SUFFICES ASSUME MovesInv, ~overlapped, faults = 0, \A s \in Sessions : tx[s] = None
               PROVE  Dangling = {}
    BY DEF CoherentUnlessOverlapped, FilesCoherent
  <2>1. stranded = {} /\ InFlight = {}
    BY DEF MovesInv, MovesNothingTwice, InFlight
  <2> QED BY <2>1 DEF MovesInv, FilesInv, DanglingWasMoved
<1>2. OwnBlobs /\ MovesInv /\ [OverlapNext]_overlapVars => MovesInv'
  BY MovesStep
<1>3. OwnBlobs <=> OwnBlobs'
  BY DEF OwnBlobs
<1> QED
  BY <1>1, <1>2, <1>3, MovesInit, PTL DEF OverlapSpec

=============================================================================
