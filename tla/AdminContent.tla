----------------------------- MODULE AdminContent -----------------------------
(* The content page of the admin application: one browser tab whose click   *)
(* handlers are asynchronous, beside the content API they call.             *)
(*                                                                          *)
(* A handler reads the page as it was rendered when it was clicked (its     *)
(* closure), awaits one answer after another and writes the page in         *)
(* between.  busy disables the action buttons, not the candidate list, the  *)
(* check boxes or the arrows, and every openCandidate clears it, the one    *)
(* inside another handler too.                                              *)
EXTENDS Naturals, Sequences, FiniteSets, Functions

CONSTANTS
  Candidates,  \* candidates; each has one pack, named like it
  FirstOrder,  \* the items of each candidate's pack, as imported
  Present,     \* candidates imported before the page was loaded
  Erome,       \* candidates whose manifest comes from Erome
  Slots,       \* handlers that may be under way at once
  None,
  MaxClicks,   \* bound: buttons pressed
  MaxEdits,    \* bound: boxes ticked and items moved
  MaxFaults,   \* bound: requests that fail
  MaxPolls     \* waitForAcquisition's 120 rounds

ASSUME ContentAssumption ==
  /\ Erome \subseteq Candidates /\ Present \subseteq Candidates
  /\ None \notin Candidates
  /\ MaxClicks \in Nat /\ MaxEdits \in Nat /\ MaxFaults \in Nat
  /\ MaxPolls \in Nat \ {0}
  /\ \A c, d \in Candidates : c # d => Range(FirstOrder[c]) \cap Range(FirstOrder[d]) = {}

VARIABLES
  db,         \* the rows behind the API
  screen,     \* the component's state, as rendered
  running,    \* the handler in each slot, None when the slot is free
  overlapped, \* history: a handler was started beside another
  surprises,  \* history: approvals whose items are not the ticked ones
  clicks, edits, faults

vars == <<db, screen, running, overlapped, surprises, clicks, edits, faults>>
history == <<overlapped, surprises>>
bounds == <<clicks, edits, faults>>

Items == UNION {Range(FirstOrder[c]) : c \in Candidates}
Decisions == {"approve", "reject", "defer"}
Imports == {"upload", "erome-import"}
Reviewing == Decisions \cup {"save", "acquire"}  \* handlers that call saveReview
Kinds == Reviewing \cup Imports \cup {"open", "refresh", "dedupe", "orphan"}

Verdicts == {"ABSENT", "PENDING_APPROVAL", "READY", "REJECTED"}
Packs == [id : Candidates, items : Seq(Items), ticked : SUBSET Items, done : SUBSET Items]
Steps == {"order", "pair", "reread", "saved", "decide", "queue", "poll", "polled", "trio",
          "import", "classify", "after"}
Waits == {"select", "patch", "open", "openGot", "list", "listGot"}
Frames == [kind : Kinds, step : Steps, target : Candidates \cup {None}, wait : SUBSET Waits,
           cand : Candidates \cup {None}, pack : Candidates \cup {None},
           items : Seq(Items), ticked : SUBSET Items,
           got : Packs \cup {None}, seen : [Candidates -> Verdicts] \cup {None},
           tries : Nat]

Databases == [order : [Candidates -> Seq(Items)], picked : [Candidates -> SUBSET Items],
              verdict : [Candidates -> Verdicts],
              ready : SUBSET Items, failed : SUBSET Items,   \* MediaAsset.status
              queued : SUBSET Items, asked : SUBSET Items]   \* jobs to do, job keys used
Screens == [cand : Candidates \cup {None}, pack : Candidates \cup {None},
            items : Seq(Items), ticked : SUBSET Items, listed : [Candidates -> Verdicts],
            busy : Kinds \cup {None},
            notice : (Kinds \cup {"none", "error"}) \X (Candidates \cup {None}),
            dedupe : Candidates \cup {None}]

ASSUME PackAssumption ==
  /\ FirstOrder \in [Candidates -> Seq(Items)]
  /\ None \notin Packs /\ None \notin Frames /\ None \notin Kinds
  /\ None \notin [Candidates -> Verdicts]

(* Every variable keeps its type. *)
TypeOK ==
  /\ db \in Databases /\ screen \in Screens
  /\ running \in [Slots -> Frames \cup {None}]
  /\ overlapped \in BOOLEAN /\ surprises \subseteq Candidates
  /\ clicks \in Nat /\ edits \in Nat /\ faults \in Nat

-----------------------------------------------------------------------------
(* The API's handlers, one transaction each: what they leave and whether    *)
(* they answer with success.                                                *)
Chosen(d, p, positions) == {d.order[p][i] : i \in positions}

reorder_pack(d, p, ids) == [ok |-> TRUE, db |-> [d EXCEPT !.order[p] = ids]]

set_pack_selection(d, p, positions) ==
  IF positions \subseteq DOMAIN d.order[p]
  THEN [ok |-> TRUE, db |-> [d EXCEPT !.picked[p] = Chosen(d, p, positions)]]
  ELSE [ok |-> FALSE, db |-> d]

\* a repeated verdict is answered like the first, another one is refused
decide_candidate(d, c, decision, positions) ==
  LET final == IF decision = "approve" THEN "READY" ELSE "REJECTED" IN
  IF d.verdict[c] # "PENDING_APPROVAL"
  THEN [ok |-> decision # "defer" /\ d.verdict[c] = final, db |-> d]
  ELSE IF decision = "defer" THEN [ok |-> TRUE, db |-> d]
  ELSE IF decision = "reject" THEN [ok |-> TRUE, db |-> [d EXCEPT !.verdict[c] = final]]
  ELSE LET sel == set_pack_selection(d, c, positions) IN
       IF sel.ok /\ sel.db.picked[c] # {}
       THEN [ok |-> TRUE, db |-> [sel.db EXCEPT !.verdict[c] = final]]
       ELSE [ok |-> FALSE, db |-> d]

\* FAILED items become SELECTED again, although a key that was used makes no
\* job; an item of another source has nothing to acquire
enqueue_selected_acquisition(d, p) ==
  LET missing == d.picked[p] \ d.ready IN
  IF p \in Erome /\ d.picked[p] # {}
  THEN [ok |-> TRUE, db |-> [d EXCEPT !.failed = @ \ missing, !.asked = @ \cup missing,
                                      !.queued = @ \cup (missing \ d.asked)]]
  ELSE [ok |-> FALSE, db |-> d]

ReadPack(c) ==
  [id |-> c, items |-> db.order[c], ticked |-> db.picked[c], done |-> db.ready \cup db.failed]

-----------------------------------------------------------------------------
(* The page.                                                                *)

\* mutant: the end of saveReview clears busy, as openCandidate's does
applyPackIdle(scr, p) == [scr EXCEPT !.pack = p.id, !.items = p.items, !.ticked = p.ticked, !.busy = None]

applyPack(scr, p) == [scr EXCEPT !.pack = p.id, !.items = p.items, !.ticked = p.ticked]
opening(scr) == [scr EXCEPT !.busy = "open", !.notice = <<"none", None>>]

\* mutant: no finally
failBusy(scr) == [scr EXCEPT !.notice = <<"error", None>>]

fail(scr) == [scr EXCEPT !.notice = <<"error", None>>, !.busy = None]

Init ==
  /\ db = [order |-> FirstOrder, picked |-> [c \in Candidates |-> Range(FirstOrder[c])],
           verdict |-> [c \in Candidates |-> IF c \in Present THEN "PENDING_APPROVAL" ELSE "ABSENT"],
           ready |-> {}, failed |-> {}, queued |-> {}, asked |-> {}]
  /\ screen = [cand |-> None, pack |-> None, items |-> <<>>, ticked |-> {},
               listed |-> db.verdict, busy |-> None, notice |-> <<"none", None>>, dedupe |-> None]
  /\ running = [h \in Slots |-> None]
  /\ overlapped = FALSE /\ surprises = {}
  /\ clicks = 0 /\ edits = 0 /\ faults = 0

\* what a handler closes over, the answers it holds and those it waits for
Frame(kind, step, target, wait) ==
  [kind |-> kind, step |-> step, target |-> target, wait |-> wait,
   cand |-> screen.cand, pack |-> screen.pack, items |-> screen.items,
   ticked |-> screen.ticked, got |-> None, seen |-> None, tries |-> 0]

Start(h, frame) ==
  /\ clicks < MaxClicks /\ running[h] = None
  /\ clicks' = clicks + 1
  /\ running' = [running EXCEPT ![h] = frame]
  /\ overlapped' = (overlapped \/ \E g \in Slots : running[g] # None)
  /\ UNCHANGED <<db, surprises, edits, faults>>

positions(f) == {i \in DOMAIN f.items : f.items[i] \in f.ticked}
selectedCount == Cardinality(positions(screen))

\* the candidate list stays enabled whatever is under way
ClickOpen(h, c) ==
  /\ screen.listed[c] # "ABSENT"
  /\ Start(h, Frame("open", "after", c, {"open"}))
  /\ screen' = opening(screen)

ClickRefresh(h) ==
  /\ Start(h, Frame("refresh", "after", None, {"list"}))
  /\ UNCHANGED screen

\* action buttons: disabled={busy !== null}
ClickImport(h, kind, c) ==
  /\ screen.busy = None
  /\ kind = "erome-import" <=> c \in Erome
  /\ Start(h, Frame(kind, "import", c, {}))
  /\ screen' = [screen EXCEPT !.busy = kind, !.notice = <<"none", None>>]

ClickReview(h, kind) ==
  /\ screen.busy = None /\ screen.cand # None /\ screen.pack # None
  /\ kind \in {"approve", "acquire"} => selectedCount > 0
  /\ kind = "acquire" => screen.cand \in Erome
  /\ Start(h, Frame(kind, "order", screen.cand, {}))
  /\ screen' = [screen EXCEPT !.busy = kind, !.notice = <<"none", None>>]

ClickDedupe(h) ==
  /\ screen.busy = None /\ screen.cand # None
  /\ Start(h, Frame("dedupe", "classify", screen.cand, {}))
  /\ screen' = [screen EXCEPT !.busy = "dedupe"]

Edit(scr) ==
  /\ edits < MaxEdits
  /\ edits' = edits + 1
  /\ screen' = scr
  /\ UNCHANGED <<db, running, history, clicks, faults>>

toggleItem(i) ==
  /\ i \in {screen.items[k] : k \in DOMAIN screen.items}
  /\ Edit([screen EXCEPT !.ticked = IF i \in @ THEN @ \ {i} ELSE @ \cup {i}])

moveItem(k) ==
  /\ k \in DOMAIN screen.items /\ k + 1 \in DOMAIN screen.items
  /\ Edit([screen EXCEPT !.items = [@ EXCEPT ![k] = screen.items[k + 1],
                                             ![k + 1] = screen.items[k]]])

-----------------------------------------------------------------------------
(* Handlers.  Go moves one on, Done ends it; what is left of a handler that *)
(* threw goes on unawaited.                                                 *)
Go(h, f) == running' = [running EXCEPT ![h] = f]
Done(h) == running' = [running EXCEPT ![h] = None]

Finish(h, scr) ==
  /\ screen' = [scr EXCEPT !.notice = <<running[h].kind, running[h].target>>, !.busy = None]
  /\ Done(h)

\* catch and finally; refreshOverview on its own has neither.  A call that was
\* awaited beside the one that failed goes on, and nobody waits for it.
Throw(h, scr, beside) ==
  LET left == beside \cap {"select", "patch", "open", "openGot"} IN
  /\ screen' = IF running[h].kind = "refresh" THEN scr ELSE fail(scr)
  /\ IF left = {} THEN Done(h)
     ELSE Go(h, [running[h] EXCEPT !.kind = "orphan", !.wait = left])

\* one of several awaited calls is over
Settled(h, r, more) == (running[h].wait \ {r}) \cup more

\* mutant: an answer is success whatever its status
CallUnchecked(h, step, out, then, shown) ==
  /\ running[h] # None /\ running[h].step = step
  /\ db' = out.db
  /\ Go(h, then) /\ screen' = shown
  /\ UNCHANGED <<overlapped, bounds>>

\* a call of handler h at step, answered; the server may refuse it
Call(h, step, out, then, shown) ==
  /\ running[h] # None /\ running[h].step = step
  /\ db' = out.db
  /\ IF out.ok THEN Go(h, then) /\ screen' = shown ELSE Throw(h, screen, {})
  /\ UNCHANGED <<overlapped, bounds>>

PutOrder(h) ==
  LET f == running[h] IN
  /\ Call(h, "order", reorder_pack(db, f.pack, f.items),
          [f EXCEPT !.step = "pair", !.wait = {"select", "patch"}], screen)
  /\ UNCHANGED surprises

\* Promise.all of the selection and of the tags; the last answer goes on
Pair(h, r, out) ==
  LET f == running[h] IN
  /\ f # None /\ f.step = "pair" /\ r \in f.wait
  /\ db' = out.db
  /\ IF f.kind = "orphan" THEN Done(h)
     ELSE Go(h, [f EXCEPT !.wait = Settled(h, r, {}),
                          !.step = IF f.wait = {r} THEN "reread" ELSE "pair"])
  /\ UNCHANGED <<screen, history, bounds>>

PutSelection(h) ==
  running[h] # None /\ Pair(h, "select", set_pack_selection(db, running[h].pack, positions(running[h])))
PatchPack(h) == Pair(h, "patch", [ok |-> TRUE, db |-> db])

ReadBack(h) ==
  /\ running[h] # None /\ running[h].step \in {"reread", "poll"}
  /\ Go(h, [running[h] EXCEPT !.got = ReadPack(running[h].pack),
              !.step = IF @ = "reread" THEN "saved" ELSE "polled"])
  /\ UNCHANGED <<db, screen, history, bounds>>

\* the end of saveReview: the page shows the rows, then the caller goes on
AfterSave(h) ==
  LET f == running[h] shown == applyPack(screen, f.got) IN
  /\ f # None /\ f.step = "saved"
  /\ IF f.kind = "save" THEN Finish(h, shown)
     ELSE IF f.kind \in {"approve", "acquire"} /\ positions(f) = {} THEN Throw(h, shown, {})
     ELSE /\ screen' = shown
          /\ Go(h, [f EXCEPT !.got = None,
                     !.step = IF f.kind = "acquire" THEN "queue" ELSE "decide"])
  /\ UNCHANGED <<db, history, bounds>>

\* mutant: the positions are those on the page by then
PostDecisionAsShown(h) ==
  LET f == running[h] out == decide_candidate(db, f.cand, f.kind, positions(screen)) IN
  /\ Call(h, "decide", out, [f EXCEPT !.step = "after", !.wait = {"open", "list"}], opening(screen))
  /\ surprises' = IF out.db.verdict # db.verdict /\ f.kind = "approve"
                     /\ out.db.picked[f.cand] # f.ticked
                  THEN surprises \cup {f.cand} ELSE surprises

\* the candidate is the closure's, the positions are those of its pack
PostDecision(h) ==
  LET f == running[h] out == decide_candidate(db, f.cand, f.kind, positions(f)) IN
  /\ Call(h, "decide", out, [f EXCEPT !.step = "after", !.wait = {"open", "list"}], opening(screen))
  /\ surprises' = IF out.db.verdict # db.verdict /\ f.kind = "approve"
                     /\ out.db.picked[f.cand] # f.ticked
                  THEN surprises \cup {f.cand} ELSE surprises

QueueAcquisition(h) ==
  LET f == running[h] IN
  /\ Call(h, "queue", enqueue_selected_acquisition(db, f.pack), [f EXCEPT !.step = "poll"], screen)
  /\ UNCHANGED surprises

\* every round shows the rows, whatever was edited meanwhile
waitForAcquisition(h) ==
  LET f == running[h] shown == applyPack(screen, f.got) IN
  /\ f # None /\ f.step = "polled"
  /\ IF f.got.ticked \subseteq f.got.done
     THEN screen' = shown /\ Go(h, [f EXCEPT !.got = None, !.step = "trio"])
     ELSE IF f.tries + 1 = MaxPolls THEN Throw(h, shown, {})
     ELSE screen' = shown /\ Go(h, [f EXCEPT !.got = None, !.step = "poll", !.tries = @ + 1])
  /\ UNCHANGED <<db, history, bounds>>

PostImport(h) ==
  LET f == running[h] IN
  /\ Call(h, "import",
          [ok |-> TRUE, db |-> IF db.verdict[f.target] # "ABSENT" THEN db
                               ELSE [db EXCEPT !.verdict[f.target] = "PENDING_APPROVAL"]],
          [f EXCEPT !.step = "after",
                    !.wait = IF f.kind = "upload" THEN {"list"} ELSE {"open", "list"}],
          IF f.kind = "upload" THEN screen ELSE opening(screen))
  /\ UNCHANGED surprises

classifyDuplicate(h) ==
  /\ running[h] # None /\ running[h].step = "classify"
  /\ screen' = [screen EXCEPT !.dedupe = running[h].target, !.busy = None]
  /\ Done(h)
  /\ UNCHANGED <<db, history, bounds>>

\* the rows are read at one time and shown at another
ReadOpen(h) ==
  LET f == running[h] IN
  /\ f # None /\ "open" \in f.wait
  /\ Go(h, [f EXCEPT !.wait = Settled(h, "open", {"openGot"}), !.got = ReadPack(f.target)])
  /\ UNCHANGED <<db, screen, history, bounds>>

ReadList(h) ==
  LET f == running[h] IN
  /\ f # None
  /\ "list" \in f.wait \/ f.step = "trio"
  /\ Go(h, [f EXCEPT !.wait = IF f.step = "trio" THEN {"listGot"} ELSE Settled(h, "list", {"listGot"}),
                     !.step = "after", !.seen = db.verdict])
  /\ UNCHANGED <<db, screen, history, bounds>>

\* mutant: the duplicate verdict stays on the page
ShowOpenKeepsVerdict(h) ==
  LET f == running[h]
      shown == [applyPack(screen, f.got) EXCEPT !.cand = f.target, !.busy = None]
      left == Settled(h, "openGot", {}) IN
  /\ f # None /\ "openGot" \in f.wait
  /\ IF f.kind \in {"open", "orphan"} THEN screen' = shown /\ Done(h)
     ELSE IF left = {} THEN Finish(h, shown)
     ELSE screen' = shown /\ Go(h, [f EXCEPT !.wait = left, !.got = None])
  /\ UNCHANGED <<db, history, bounds>>

\* openCandidate's end: its finally clears busy for whoever called it
ShowOpen(h) ==
  LET f == running[h]
      shown == [applyPack(screen, f.got) EXCEPT !.cand = f.target, !.dedupe = None, !.busy = None]
      left == Settled(h, "openGot", {}) IN
  /\ f # None /\ "openGot" \in f.wait
  /\ IF f.kind \in {"open", "orphan"} THEN screen' = shown /\ Done(h)
     ELSE IF left = {} THEN Finish(h, shown)
     ELSE screen' = shown /\ Go(h, [f EXCEPT !.wait = left, !.got = None])
  /\ UNCHANGED <<db, history, bounds>>

\* acquireSelected puts its own candidate back, and throws if an item FAILED
\* (both outcomes are allowed here); upload opens after the list
ShowList(h) ==
  LET f == running[h]
      shown == [screen EXCEPT !.listed = f.seen, !.cand = IF f.kind = "acquire" THEN f.cand ELSE @]
      left == Settled(h, "listGot", {}) IN
  /\ f # None /\ "listGot" \in f.wait
  /\ IF f.kind = "refresh" THEN screen' = shown /\ Done(h)
     ELSE IF f.kind = "upload"
     THEN /\ screen' = opening(shown)
          /\ Go(h, [f EXCEPT !.wait = {"open"}, !.seen = None])
     ELSE IF left = {}
     THEN \/ Finish(h, shown)
          \/ /\ f.kind = "acquire"
             /\ Throw(h, shown, {})
     ELSE screen' = shown /\ Go(h, [f EXCEPT !.wait = left, !.seen = None])
  /\ UNCHANGED <<db, history, bounds>>

-----------------------------------------------------------------------------
(* A request fails on the way there, or its answer is lost on the way back. *)
Outcome(h, r) ==
  LET f == running[h] IN
  IF r = "order" THEN reorder_pack(db, f.pack, f.items).db
  ELSE IF r = "select" THEN set_pack_selection(db, f.pack, positions(f)).db
  ELSE IF r = "queue" THEN enqueue_selected_acquisition(db, f.pack).db
  ELSE IF r = "import" /\ db.verdict[f.target] = "ABSENT"
  THEN [db EXCEPT !.verdict[f.target] = "PENDING_APPROVAL"]
  ELSE db

Outstanding(f) ==
  IF f.step \in {"order", "reread", "queue", "poll", "trio", "import", "classify"}
  THEN {f.step} ELSE f.wait \cap {"select", "patch", "open", "list"}

RequestFails(h) ==
  /\ faults < MaxFaults /\ running[h] # None
  /\ faults' = faults + 1
  /\ \E r \in Outstanding(running[h]) :
       /\ db' \in {db, Outcome(h, r)}
       /\ LET f == running[h] left == Settled(h, r, {}) IN
          IF f.kind = "orphan"
          THEN /\ Done(h)
               /\ screen' = IF r = "open" THEN fail(screen) ELSE screen
          ELSE IF r # "open" \/ f.kind = "open" THEN Throw(h, screen, left)
          ELSE IF left = {} THEN Finish(h, fail(screen))
          ELSE screen' = fail(screen) /\ Go(h, [f EXCEPT !.wait = left])
  /\ UNCHANGED <<history, clicks, edits>>

\* the worker on a queued item: it ends without a file for a box unticked by
\* now, starts again (ACQUIRING), leaves the asset LOCAL_READY, or FAILED with
\* the job retried or given up
AcquireMedia(i) ==
  LET left == db.queued \ {i} IN
  /\ i \in db.queued
  /\ IF \A c \in Candidates : i \notin db.picked[c]
     THEN db' = [db EXCEPT !.queued = left]
     ELSE \/ db' = [db EXCEPT !.failed = @ \ {i}]
          \/ db' = [db EXCEPT !.failed = @ \ {i}, !.ready = @ \cup {i}, !.queued = left]
          \/ \E q \in {db.queued, left} :
               db' = [db EXCEPT !.failed = @ \cup {i}, !.queued = q]
  /\ UNCHANGED <<screen, running, history, bounds>>

Click(h) ==
  \/ \E c \in Candidates : ClickOpen(h, c)
  \/ \E c \in Candidates, k \in Imports : ClickImport(h, k, c)
  \/ \E k \in Reviewing : ClickReview(h, k)
  \/ ClickRefresh(h) \/ ClickDedupe(h)

Answer(h) ==
  \/ PutOrder(h) \/ PutSelection(h) \/ PatchPack(h) \/ ReadBack(h) \/ AfterSave(h)
  \/ PostDecision(h) \/ QueueAcquisition(h) \/ waitForAcquisition(h)
  \/ PostImport(h) \/ classifyDuplicate(h)
  \/ ReadOpen(h) \/ ReadList(h) \/ ShowOpen(h) \/ ShowList(h)

Next ==
  \/ \E h \in Slots : Click(h) \/ Answer(h) \/ RequestFails(h)
  \/ \E i \in Items : toggleItem(i) \/ AcquireMedia(i)
  \/ \E k \in DOMAIN screen.items : moveItem(k)

(* Every request is answered and every answer handled; the worker and the   *)
(* operator need not do anything.                                           *)
Fairness == \A h \in Slots : WF_vars(Answer(h))

Spec == Init /\ [][Next]_vars
FairSpec == Spec /\ Fairness

-----------------------------------------------------------------------------
(* Properties                                                               *)

(* docs/IMPLEMENTATION-PLAN.md:41 wants an operator to "approve only        *)
(* selected items": an approval marks exactly the items whose boxes were    *)
(* ticked when the button was pressed.  The positions sent are those of the *)
(* pack on the page, the candidate is the page's other state, and a handler *)
(* under way may have changed one of the two.                               *)
ApprovesOnlySelected == surprises = {}

(* As long as the operator waits for each handler before the next click,    *)
(* the approval is exact, whatever is ticked or moved meanwhile and         *)
(* whichever requests fail.                                                 *)
ApprovesTicked == ~overlapped => ApprovesOnlySelected

(* Candidate, pack and duplicate verdict on the page belong together while  *)
(* handlers do not overlap: four set-state calls of three handlers.         *)
PageIsOfOneCandidate ==
  ~overlapped => /\ screen.pack = screen.cand
                 /\ screen.dedupe \in {None, screen.cand}

(* The buttons come back before a handler is over (openCandidate clears     *)
(* busy inside it), but never while one still has something to write.       *)
Writing(f) == f # None /\ (f.step \in {"order", "decide", "queue", "import"} \/ "select" \in f.wait)
IdleMeansWritten ==
  ~overlapped /\ faults = 0 /\ screen.busy = None => \A h \in Slots : ~Writing(running[h])

(* A success notice is true: the verdict it announces is in the rows, and   *)
(* stays there, although a notice of one handler can outlive another's.     *)
NoticeIsTrue ==
  /\ screen.notice[1] = "approve" => db.verdict[screen.notice[2]] = "READY"
  /\ screen.notice[1] = "reject" => db.verdict[screen.notice[2]] = "REJECTED"
  /\ screen.notice[1] \in Imports => db.verdict[screen.notice[2]] # "ABSENT"

(* The page is never left disabled: when the operator stops clicking, busy  *)
(* is cleared for good, whichever requests failed.                          *)
PageComesBack == <>[](screen.busy = None)
=============================================================================
