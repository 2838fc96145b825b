-------------------------- MODULE PublishingProofs --------------------------
(***************************************************************************)
(* What Publishing guarantees for every set of packs, assets, destinations *)
(* and every bound.  Types and the safety of the purge hold with any       *)
(* number of worker processes; the bound on copies needs the one process   *)
(* the repository runs.                                                    *)
(***************************************************************************)
EXTENDS Publishing, TLAPS

USE PublishingConstants

LEMMA CurTyped ==
  ASSUME TypeOK, NEW w \in Workers, pc[w] \in Working
  PROVE  cur[w] \in Publications
BY DEF TypeOK

LEMMA TypeInit == Init => TypeOK
BY DEF Init, TypeOK, Working, Guarded, Exposed

LEMMA TypeOperators ==
  ASSUME TypeOK,
         \/ \E k \in Packs : Approve(k) \/ \E chosen \in SUBSET ItemsOf[k] : Reselect(k, chosen)
         \/ \E p \in Publications : ToggleDestination(p) \/ EnqueuePublication(p)
         \/ \E a \in Assets : VaultUpload(a)
  PROVE  TypeOK'
<1>1. ASSUME NEW k \in Packs, Approve(k) PROVE TypeOK'
  BY <1>1 DEF Approve, TypeOK, library, dispatch, local_mem
<1>2. ASSUME NEW k \in Packs, NEW chosen \in SUBSET ItemsOf[k], Reselect(k, chosen)
      PROVE  TypeOK'
  <2>1. chosen \in SUBSET Assets
    OBVIOUS
  <2>. QED
    BY <1>2, <2>1 DEF Reselect, TypeOK, library, dispatch, local_mem
<1>3. ASSUME NEW p \in Publications, ToggleDestination(p) PROVE TypeOK'
  BY <1>3 DEF ToggleDestination, TypeOK, library, dispatch, local_mem
<1>4. ASSUME NEW p \in Publications, EnqueuePublication(p) PROVE TypeOK'
  BY <1>4 DEF EnqueuePublication, TypeOK, catalogue, library, local_mem
<1>5. ASSUME NEW a \in Assets, VaultUpload(a) PROVE TypeOK'
  BY <1>5 DEF VaultUpload, TypeOK, catalogue, dispatch, local_mem
<1>. QED
  BY <1>1, <1>2, <1>3, <1>4, <1>5

LEMMA TypePublish ==
  ASSUME TypeOK, NEW w \in Workers, Publish(w)
  PROVE  TypeOK'
<1>1. cur[w] \in Publications
  BY CurTyped DEF Publish, FindRecord, FindMarker, Inspect, Mark, Send, Refused,
                  Unanswered, Record, Working, Guarded
<1>2. CASE FindRecord(w)
  BY <1>1, <1>2 DEF FindRecord, Goto, Quiet, TypeOK, catalogue, library, dispatch,
                    Working, Guarded, Exposed
<1>3. CASE FindMarker(w)
  BY <1>1, <1>3 DEF FindMarker, Goto, Quiet, TypeOK, catalogue, library, dispatch,
                    Working, Guarded, Exposed
<1>4. CASE Inspect(w)
  <2>1. selected[PackOf[cur[w]]] \in SUBSET Assets
    BY <1>1 DEF TypeOK
  <2>. QED
    BY <1>1, <1>4, <2>1 DEF Inspect, Goto, Quiet, TypeOK, catalogue, library, dispatch,
                            Working, Guarded, Exposed
<1>5. CASE Mark(w)
  BY <1>1, <1>5 DEF Mark, Goto, Quiet, TypeOK, catalogue, library, dispatch,
                    Working, Guarded, Exposed
<1>6. CASE Send(w)
  BY <1>1, <1>6 DEF Send, Post, Goto, Quiet, TypeOK, catalogue, library, dispatch,
                    Working, Guarded, Exposed
<1>7. CASE Refused(w)
  BY <1>1, <1>7 DEF Refused, Goto, Quiet, TypeOK, catalogue, library, dispatch,
                    Working, Guarded, Exposed
<1>8. CASE Unanswered(w)
  BY <1>1, <1>8 DEF Unanswered, Goto, Quiet, TypeOK, catalogue, library, dispatch,
                    Working, Guarded, Exposed
<1>9. CASE Record(w)
  BY <1>1, <1>9 DEF Record, Goto, Quiet, TypeOK, catalogue, library, dispatch,
                    Working, Guarded, Exposed
<1>. QED
  BY <1>2, <1>3, <1>4, <1>5, <1>6, <1>7, <1>8, <1>9 DEF Publish

LEMMA TypePurge ==
  ASSUME TypeOK, NEW w \in Workers, Purge(w)
  PROVE  TypeOK'
<1>1. CASE Unlink(w)
  <2>1. Purgeable(cur[w]) \in SUBSET Assets
    BY DEF Purgeable, TypeOK
  <2>2. cur[w] \in Publications
    BY <1>1, CurTyped DEF Unlink, Working, Guarded
  <2>3. media' \in [Workers -> SUBSET Assets] /\ disk' \subseteq Files
    BY <1>1, <2>1 DEF Unlink, TypeOK
  <2>. QED
    BY <1>1, <2>2, <2>3 DEF Unlink, Goto, Quiet, TypeOK, catalogue, dispatch,
                            Working, Guarded, Exposed
<1>2. CASE CommitPurge(w)
  <2>1. cur[w] \in Publications
    BY <1>2, CurTyped DEF CommitPurge, Working, Guarded
  <2>. QED
    BY <1>2, <2>1 DEF CommitPurge, Goto, Quiet, TypeOK, catalogue, dispatch,
                      Working, Guarded, Exposed
<1>. QED
  BY <1>1, <1>2 DEF Purge

LEMMA TypeJob ==
  ASSUME TypeOK, NEW w \in Workers,
         Claim(w) \/ Settle(w) \/ Restart(w) \/ \E p \in Publications : Take(w, p)
  PROVE  TypeOK'
<1>1. ASSUME NEW p \in Publications, Take(w, p) PROVE TypeOK'
  BY <1>1 DEF Take, Goto, TypeOK, catalogue, library, dispatch, Working, Guarded, Exposed
<1>2. CASE Claim(w)
  <2>1. cur[w] \in Publications /\ got[w] + 1 \in Nat
    BY <1>2, CurTyped DEF Claim, Working, TypeOK
  <2>. QED
    BY <1>2, <2>1 DEF Claim, Goto, TypeOK, catalogue, library, local_mem,
                      Working, Guarded, Exposed
<1>3. CASE Settle(w)
  <2>1. cur[w] \in Publications
    BY <1>3, CurTyped DEF Settle, Block, GiveUp, Succeed, Fail, Working, Exposed
  <2>2. CASE Block(w)
    BY <2>1, <2>2 DEF Block, Goto, TypeOK, catalogue, library, local_mem,
                      Working, Guarded, Exposed
  <2>3. CASE GiveUp(w)
    BY <2>1, <2>3 DEF GiveUp, Goto, Quiet, TypeOK, catalogue, library, dispatch,
                      Working, Guarded, Exposed
  <2>4. CASE Succeed(w)
    BY <2>1, <2>4 DEF Succeed, Leave, Goto, TypeOK, catalogue, library,
                      Working, Guarded, Exposed
  <2>5. CASE Fail(w)
    BY <2>1, <2>5 DEF Fail, Leave, Goto, TypeOK, catalogue, library,
                      Working, Guarded, Exposed
  <2>. QED
    BY <1>3, <2>2, <2>3, <2>4, <2>5 DEF Settle
<1>4. CASE Restart(w)
  BY <1>4 DEF Restart, Goto, TypeOK, catalogue, library, dispatch, local_mem,
              Working, Guarded, Exposed
<1>. QED
  BY <1>1, <1>2, <1>3, <1>4

LEMMA TypeDisturb ==
  ASSUME TypeOK, NEW w \in Workers, Disturb(w)
  PROVE  TypeOK'
<1>1. cur[w] \in Publications
  BY CurTyped DEF Disturb, SendGarbled, UnlinkFails, Refuse, Crash, Working, Guarded, Exposed
<1>2. CASE SendGarbled(w)
  BY <1>1, <1>2 DEF SendGarbled, Post, Goto, TypeOK, catalogue, library, dispatch,
                    local_mem, Working, Guarded, Exposed
<1>3. CASE UnlinkFails(w)
  BY <1>1, <1>3 DEF UnlinkFails, Goto, TypeOK, catalogue, dispatch, local_mem,
                    Working, Guarded, Exposed
<1>4. CASE Refuse(w)
  BY <1>1, <1>4 DEF Refuse, Goto, TypeOK, catalogue, library, dispatch,
                    local_mem, Working, Guarded, Exposed
<1>5. CASE Crash(w)
  BY <1>1, <1>5 DEF Crash, Leave, Goto, TypeOK, catalogue, library, dispatch,
                    Working, Guarded, Exposed
<1>. QED
  BY <1>2, <1>3, <1>4, <1>5 DEF Disturb

LEMMA TypeNext == TypeOK /\ [Next]_vars => TypeOK'
<1> SUFFICES ASSUME TypeOK, [Next]_vars PROVE TypeOK'
  OBVIOUS
<1>1. ASSUME NEW w \in Workers,
             Handle(w) \/ Disturb(w) \/ Restart(w) \/ \E p \in Publications : Take(w, p)
      PROVE  TypeOK'
  BY <1>1, TypePublish, TypePurge, TypeJob, TypeDisturb DEF Handle
<1>2. CASE UNCHANGED vars
  BY <1>2 DEF vars, catalogue, library, dispatch, local_mem, TypeOK
<1>. QED
  BY <1>1, <1>2, TypeOperators DEF Next

(* Every column and every local variable of a worker keeps its type, with   *)
(* any number of worker processes.                                          *)
THEOREM TypeCorrect == Spec => []TypeOK
BY TypeInit, TypeNext, PTL DEF Spec

-----------------------------------------------------------------------------
(* The purge.                                                               *)

OwnFiles == \A a, b \in Assets : FileOf[a] = FileOf[b] => a = b

LEMMA PurgeInit == Init => PurgeInv
BY DEF Init, PurgeInv, PurgeIsSafe

\* the files an unlink may remove belong to assets that are safe to lose
LEMMA RemovedSafely ==
  ASSUME OwnFiles, TypeOK, PurgeInv, NEW w \in Workers, pc[w] = "purging",
         NEW gone \in SUBSET Purgeable(cur[w]),
         disk' = disk \ {FileOf[a] : a \in gone},
         UNCHANGED <<vaulted, recorded>>
  PROVE  PurgeIsSafe'
<1> SUFFICES ASSUME NEW a \in Assets, FileOf[a] \notin disk'
             PROVE  a \in vaulted /\ \E p \in recorded : a \in ItemsOf[PackOf[p]]
  BY DEF PurgeIsSafe
<1>1. CASE FileOf[a] \notin disk
  BY <1>1 DEF PurgeInv, PurgeIsSafe
<1>2. CASE FileOf[a] \in disk
  <2>1. PICK b \in gone : FileOf[a] = FileOf[b]
    BY <1>2
  <2>2. b \in Assets
    BY DEF Purgeable, TypeOK
  <2>3. a = b
    BY <2>1, <2>2 DEF OwnFiles
  <2>4. cur[w] \in recorded /\ cur[w] \in Publications
    BY DEF PurgeInv, TypeOK
  <2>5. PackOf[cur[w]] \in Packs
    BY <2>4
  <2>. QED
    BY <2>3, <2>4, <2>5 DEF Purgeable, PurgeInv
<1>. QED
  BY <1>1, <1>2

LEMMA PurgeNext == OwnFiles /\ TypeOK /\ PurgeInv /\ [Next]_vars => PurgeInv'
<1> SUFFICES ASSUME OwnFiles, TypeOK, PurgeInv, [Next]_vars PROVE PurgeInv'
  OBVIOUS
<1>1. PurgeIsSafe'
  <2>1. ASSUME NEW w \in Workers, Unlink(w) \/ UnlinkFails(w) PROVE PurgeIsSafe'
    <3>1. CASE Unlink(w)
      BY <3>1, RemovedSafely DEF Unlink
    <3>2. CASE UnlinkFails(w)
      BY <3>2, RemovedSafely DEF UnlinkFails
    <3>. QED
      BY <2>1, <3>1, <3>2
  <2>2. \/ \E w \in Workers : Unlink(w) \/ UnlinkFails(w)
        \/ UNCHANGED disk /\ vaulted \subseteq vaulted' /\ recorded \subseteq recorded'
    <3>1. ASSUME NEW k \in Packs,
                 Approve(k) \/ \E chosen \in SUBSET ItemsOf[k] : Reselect(k, chosen)
          PROVE  UNCHANGED <<disk, vaulted, recorded>>
      BY <3>1 DEF Approve, Reselect, library
    <3>2. ASSUME NEW p \in Publications, ToggleDestination(p) \/ EnqueuePublication(p)
          PROVE  UNCHANGED <<disk, vaulted, recorded>>
      BY <3>2 DEF ToggleDestination, EnqueuePublication, library
    <3>3. ASSUME NEW a \in Assets, VaultUpload(a)
          PROVE  UNCHANGED disk /\ vaulted \subseteq vaulted' /\ UNCHANGED recorded
      BY <3>3 DEF VaultUpload
    <3>4. ASSUME NEW w \in Workers,
                 \/ Handle(w) \/ Disturb(w) \/ Restart(w)
                 \/ \E p \in Publications : Take(w, p)
          PROVE  \/ Unlink(w) \/ UnlinkFails(w)
                 \/ UNCHANGED <<disk, vaulted>> /\ recorded \subseteq recorded'
      BY <3>4 DEF Handle, Publish, Purge, Settle, Disturb, Take, Claim, FindRecord,
        FindMarker, Inspect, Mark, Send, SendGarbled, Refused, Unanswered, Record,
        CommitPurge, Block, GiveUp, Succeed, Fail, Refuse, Crash, Restart, Quiet, library
    <3>5. CASE UNCHANGED vars
      BY <3>5 DEF vars, library
    <3>. QED
      BY <3>1, <3>2, <3>3, <3>4, <3>5 DEF Next
  <2>. QED
    BY <2>1, <2>2 DEF PurgeInv, PurgeIsSafe
<1>2. \A k \in Packs : selected'[k] \subseteq ItemsOf[k]
  <2>1. ASSUME NEW k \in Packs, NEW chosen \in SUBSET ItemsOf[k], Reselect(k, chosen)
        PROVE  \A m \in Packs : selected'[m] \subseteq ItemsOf[m]
    BY <2>1 DEF Reselect, PurgeInv, TypeOK
  <2>2. \/ \E k \in Packs : \E chosen \in SUBSET ItemsOf[k] : Reselect(k, chosen)
        \/ UNCHANGED selected
    BY DEF Next, Approve, ToggleDestination, EnqueuePublication, VaultUpload, Handle,
      Publish, Purge, Settle, Disturb, Take, Claim, FindRecord, FindMarker, Inspect,
      Mark, Send, SendGarbled, Refused, Unanswered, Record, Unlink, UnlinkFails,
      CommitPurge, Block, GiveUp, Succeed, Fail, Refuse, Crash, Restart, Quiet,
      catalogue, vars
  <2>. QED
    BY <2>1, <2>2 DEF PurgeInv
<1>3. \A v \in Workers : pc'[v] = "purging" => cur'[v] \in recorded'
  <2>1. ASSUME NEW w \in Workers,
               \/ Handle(w) \/ Disturb(w) \/ Restart(w)
               \/ \E p \in Publications : Take(w, p)
        PROVE  /\ recorded \subseteq recorded'
               /\ \A v \in Workers : v # w => pc'[v] = pc[v] /\ cur'[v] = cur[v]
               /\ pc'[w] = "purging" => cur'[w] \in recorded'
    BY <2>1 DEF Handle, Publish, Purge, Settle, Disturb, Take, Claim, FindRecord,
      FindMarker, Inspect, Mark, Send, SendGarbled, Refused, Unanswered, Record,
      Unlink, UnlinkFails, CommitPurge, Block, GiveUp, Succeed, Fail, Refuse, Crash,
      Restart, Quiet, Goto, Leave, local_mem, TypeOK
  <2>2. \/ \E w \in Workers : \/ Handle(w) \/ Disturb(w) \/ Restart(w)
                             \/ \E p \in Publications : Take(w, p)
        \/ UNCHANGED <<pc, cur, recorded>>
    BY DEF Next, Approve, Reselect, ToggleDestination, EnqueuePublication, VaultUpload,
      local_mem, vars
  <2>. QED
    BY <2>1, <2>2 DEF PurgeInv
<1>. QED
  BY <1>1, <1>2, <1>3 DEF PurgeInv

(* While no two assets share a file, an original is removed only when its   *)
(* asset is verified in the vault and a publication of a pack that contains *)
(* it is on record, with any number of workers, crashes and edits.          *)
THEOREM PurgeSafe == OwnFiles /\ Spec => []PurgeIsSafe
<1>1. TypeOK /\ PurgeInv => PurgeIsSafe
  BY DEF PurgeInv
<1>2. OwnFiles /\ Init => TypeOK /\ PurgeInv
  BY TypeInit, PurgeInit
<1>3. OwnFiles /\ TypeOK /\ PurgeInv /\ [Next]_vars => (TypeOK /\ PurgeInv)'
  BY TypeNext, PurgeNext
<1>4. ASSUME OwnFiles PROVE Spec => []PurgeIsSafe
  <2>1. Init => TypeOK /\ PurgeInv
    BY <1>4, <1>2
  <2>2. TypeOK /\ PurgeInv /\ [Next]_vars => (TypeOK /\ PurgeInv)'
    BY <1>4, <1>3
  <2>. QED
    BY <2>1, <2>2, <1>1, PTL DEF Spec
<1>. QED
  BY <1>4

-----------------------------------------------------------------------------
(* Copies, with one worker process.                                         *)

OneWorker == \A v, w \in Workers : v = w

LEMMA CopiesInit == Init => SingleWorkerInv
BY DEF Init, SingleWorkerInv, MarkerHeld, PublishedIsRecorded, CopiesCounted,
       DuplicatesNeedFaults

LEMMA CopiesOperators ==
  ASSUME TypeOK, SingleWorkerInv,
         \/ \E k \in Packs : Approve(k) \/ \E chosen \in SUBSET ItemsOf[k] : Reselect(k, chosen)
         \/ \E p \in Publications : ToggleDestination(p) \/ EnqueuePublication(p)
         \/ \E a \in Assets : VaultUpload(a)
  PROVE  SingleWorkerInv'
<1>1. ASSUME NEW p \in Publications, EnqueuePublication(p) PROVE SingleWorkerInv'
  BY <1>1 DEF EnqueuePublication, SingleWorkerInv, MarkerHeld, PublishedIsRecorded,
    CopiesCounted, DuplicatesNeedFaults, TypeOK, local_mem, Working, Guarded
<1>2. \/ \E p \in Publications : EnqueuePublication(p)
      \/ UNCHANGED <<pc, cur, pub, recorded, posts, faults>>
  BY DEF Approve, Reselect, ToggleDestination, VaultUpload, local_mem
<1>3. CASE UNCHANGED <<pc, cur, pub, recorded, posts, faults>>
  BY <1>3 DEF SingleWorkerInv, MarkerHeld, PublishedIsRecorded, CopiesCounted,
    DuplicatesNeedFaults
<1>. QED
  BY <1>1, <1>2, <1>3

LEMMA CopiesPublish ==
  ASSUME OneWorker, TypeOK, SingleWorkerInv, NEW w \in Workers, Publish(w)
  PROVE  SingleWorkerInv'
<1>1. cur[w] \in Publications
  BY CurTyped DEF Publish, FindRecord, FindMarker, Inspect, Mark, Send, Refused,
                  Unanswered, Record, Working, Guarded
<1>2. CASE FindRecord(w)
  BY <1>1, <1>2 DEF OneWorker, FindRecord, Goto, Quiet, TypeOK, SingleWorkerInv,
    MarkerHeld, PublishedIsRecorded, CopiesCounted, DuplicatesNeedFaults
<1>3. CASE FindMarker(w)
  BY <1>1, <1>3 DEF OneWorker, FindMarker, Goto, Quiet, TypeOK, SingleWorkerInv,
    MarkerHeld, PublishedIsRecorded, CopiesCounted, DuplicatesNeedFaults
<1>4. CASE Inspect(w)
  BY <1>1, <1>4 DEF OneWorker, Inspect, Goto, Quiet, TypeOK, SingleWorkerInv,
    MarkerHeld, PublishedIsRecorded, CopiesCounted, DuplicatesNeedFaults
<1>5. CASE Mark(w)
  BY <1>1, <1>5 DEF OneWorker, Mark, Goto, Quiet, TypeOK, SingleWorkerInv,
    MarkerHeld, PublishedIsRecorded, CopiesCounted, DuplicatesNeedFaults
<1>6. CASE Send(w)
  BY <1>1, <1>6 DEF OneWorker, Send, Post, Goto, Quiet, TypeOK, SingleWorkerInv,
    MarkerHeld, PublishedIsRecorded, CopiesCounted, DuplicatesNeedFaults
<1>7. CASE Refused(w)
  BY <1>1, <1>7 DEF OneWorker, Refused, Goto, Quiet, TypeOK, SingleWorkerInv,
    MarkerHeld, PublishedIsRecorded, CopiesCounted, DuplicatesNeedFaults
<1>8. CASE Unanswered(w)
  BY <1>1, <1>8 DEF OneWorker, Unanswered, Goto, Quiet, TypeOK, SingleWorkerInv,
    MarkerHeld, PublishedIsRecorded, CopiesCounted, DuplicatesNeedFaults
<1>9. CASE Record(w)
  BY <1>1, <1>9 DEF OneWorker, Record, Goto, Quiet, TypeOK, SingleWorkerInv,
    MarkerHeld, PublishedIsRecorded, CopiesCounted, DuplicatesNeedFaults
<1>. QED
  BY <1>2, <1>3, <1>4, <1>5, <1>6, <1>7, <1>8, <1>9 DEF Publish

LEMMA CopiesOtherSteps ==
  ASSUME OneWorker, TypeOK, SingleWorkerInv, NEW w \in Workers,
         \/ Claim(w) \/ Purge(w) \/ Settle(w) \/ Restart(w) \/ Crash(w)
         \/ \E p \in Publications : Take(w, p)
  PROVE  SingleWorkerInv'
<1>1. CASE GiveUp(w)
  <2>1. cur[w] \in Publications
    BY <1>1, CurTyped DEF GiveUp, Working, Exposed
  <2>. QED
    BY <1>1, <2>1 DEF OneWorker, GiveUp, Goto, Quiet, TypeOK, SingleWorkerInv,
      MarkerHeld, PublishedIsRecorded, CopiesCounted, DuplicatesNeedFaults
<1>2. CASE ~GiveUp(w)
  <2>1. UNCHANGED <<pub, recorded, posts, faults>>
    BY <1>2 DEF Claim, Purge, Settle, Restart, Crash, Take, Unlink, CommitPurge, Block,
      Succeed, Fail, Quiet
  <2>2. pc'[w] \notin {"sending", "refused", "ambiguous", "sent", "failing"}
    BY <1>2 DEF Claim, Purge, Settle, Restart, Crash, Take, Unlink, CommitPurge, Block,
      Succeed, Fail, Leave, Goto, TypeOK
  <2>. QED
    BY <2>1, <2>2 DEF OneWorker, SingleWorkerInv, MarkerHeld, PublishedIsRecorded,
      CopiesCounted, DuplicatesNeedFaults
<1>. QED
  BY <1>1, <1>2

LEMMA CopiesFaults ==
  ASSUME OneWorker, TypeOK, SingleWorkerInv, NEW w \in Workers,
         SendGarbled(w) \/ UnlinkFails(w) \/ Refuse(w)
  PROVE  SingleWorkerInv'
<1>1. cur[w] \in Publications
  BY CurTyped DEF SendGarbled, UnlinkFails, Refuse, Working, Guarded, Exposed
<1>2. CASE SendGarbled(w)
  BY <1>1, <1>2 DEF OneWorker, SendGarbled, Post, Goto, local_mem, TypeOK,
    SingleWorkerInv, MarkerHeld, PublishedIsRecorded, CopiesCounted, DuplicatesNeedFaults
<1>3. CASE UnlinkFails(w)
  BY <1>1, <1>3 DEF OneWorker, UnlinkFails, Goto, local_mem, TypeOK,
    SingleWorkerInv, MarkerHeld, PublishedIsRecorded, CopiesCounted, DuplicatesNeedFaults
<1>4. CASE Refuse(w)
  BY <1>1, <1>4 DEF OneWorker, Refuse, Goto, local_mem, TypeOK, Guarded, Exposed,
    SingleWorkerInv, MarkerHeld, PublishedIsRecorded, CopiesCounted, DuplicatesNeedFaults
<1>. QED
  BY <1>2, <1>3, <1>4

LEMMA CopiesNext ==
  OneWorker /\ TypeOK /\ SingleWorkerInv /\ [Next]_vars => SingleWorkerInv'
<1> SUFFICES ASSUME OneWorker, TypeOK, SingleWorkerInv, [Next]_vars
             PROVE  SingleWorkerInv'
  OBVIOUS
<1>1. ASSUME NEW w \in Workers,
             Handle(w) \/ Disturb(w) \/ Restart(w) \/ \E p \in Publications : Take(w, p)
      PROVE  SingleWorkerInv'
  BY <1>1, CopiesPublish, CopiesOtherSteps, CopiesFaults DEF Handle, Disturb
<1>2. CASE UNCHANGED vars
  BY <1>2 DEF vars, local_mem, SingleWorkerInv, MarkerHeld, PublishedIsRecorded,
    CopiesCounted, DuplicatesNeedFaults
<1>. QED
  BY <1>1, <1>2, CopiesOperators DEF Next

(* With one worker process, a pack is delivered at most once to each of its *)
(* destinations, plus once for each refused commit or malformed answer:     *)
(* crashes, timeouts and stale locks never cause a copy.                    *)
THEOREM Copies == OneWorker /\ Spec => []DuplicatesNeedFaults
<1>1. ASSUME OneWorker PROVE Spec => []DuplicatesNeedFaults
  <2>1. Init => TypeOK /\ SingleWorkerInv
    BY TypeInit, CopiesInit
  <2>2. TypeOK /\ SingleWorkerInv /\ [Next]_vars => (TypeOK /\ SingleWorkerInv)'
    BY <1>1, TypeNext, CopiesNext
  <2>3. SingleWorkerInv => DuplicatesNeedFaults
    BY DEF SingleWorkerInv
  <2>. QED
    BY <2>1, <2>2, <2>3, PTL DEF Spec
<1>. QED
  BY <1>1

(* ... and what is visible but not on record keeps its marker, until a      *)
(* commit is refused or an answer is malformed.                             *)
THEOREM MarkedUntilKnown == OneWorker /\ Spec => []UnrecordedIsMarked
<1>1. ASSUME OneWorker PROVE Spec => []UnrecordedIsMarked
  <2>1. Init => TypeOK /\ SingleWorkerInv
    BY TypeInit, CopiesInit
  <2>2. TypeOK /\ SingleWorkerInv /\ [Next]_vars => (TypeOK /\ SingleWorkerInv)'
    BY <1>1, TypeNext, CopiesNext
  <2>3. TypeOK /\ SingleWorkerInv => UnrecordedIsMarked
    BY DEF SingleWorkerInv, PublishedIsRecorded, CopiesCounted, UnrecordedIsMarked, TypeOK
  <2>. QED
    BY <2>1, <2>2, <2>3, PTL DEF Spec
<1>. QED
  BY <1>1
=============================================================================
