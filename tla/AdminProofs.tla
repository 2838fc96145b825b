------------------------------ MODULE AdminProofs ------------------------------
(***************************************************************************)
(* What the two pages of the admin application guarantee for every set of  *)
(* candidates, items, resources and rows and any number of handlers.       *)
(***************************************************************************)
EXTENDS AdminContent, AdminConfig, TLAPS

-----------------------------------------------------------------------------
(* The configuration page                                                   *)

LEMMA ConfigInitTyped == ConfigInit => ConfigTypeOK
<1> SUFFICES ASSUME ConfigInit PROVE ConfigTypeOK
  OBVIOUS
<1>1. table \in [Rows -> States]
  BY DEF ConfigInit, States, Kept
<1>2. PICK r \in Resources :
        page = [selected |-> r, rows |-> table, form |-> defaults(r), editing |-> Nothing, busy |-> FALSE]
  BY DEF ConfigInit
<1>3. defaults(r) \in Forms
  BY DEF defaults, Forms, Kept
<1>4. page \in [selected : Resources, rows : [Rows -> States], form : Forms,
               editing : Rows \cup {Nothing}, busy : BOOLEAN]
  BY <1>1, <1>2, <1>3
<1> QED
  BY <1>1, <1>4 DEF ConfigInit, ConfigTypeOK

\* A button opens a handler in its slot and leaves the others alone.
LEMMA PressTyped ==
  ASSUME ConfigTypeOK, NEW h \in Handlers, NEW frame \in Closures, Press(h, frame),
         frame.step = "write" => frame.row \in Rows /\ frame.want \in States,
         frame.step # "show"
  PROVE  /\ acting' \in [Handlers -> Closures \cup {Nothing}]
         /\ \A g \in Handlers : acting'[g] # Nothing =>
              /\ acting'[g].step = "write" => acting'[g].row \in Rows /\ acting'[g].want \in States
              /\ acting'[g].step = "show" => acting'[g].got \in [Rows -> States]
         /\ table' \in [Rows -> States] /\ crossed' \in BOOLEAN /\ acts' \in Nat /\ lost' \in Nat
BY DEF Press, ConfigTypeOK

LEMMA ClosureTyped ==
  ASSUME ConfigTypeOK, NEW kind \in ClosureKinds,
         NEW row \in Rows \cup {Nothing}, NEW want \in States \cup {Nothing}
  PROVE  /\ Closure(kind, row, want) \in Closures
         /\ Closure(kind, row, want).row = row /\ Closure(kind, row, want).want = want
         /\ Closure(kind, row, want).step = "write"
         /\ Closure(kind, row, want).of = page.selected
BY DEF ConfigTypeOK, Closure, Closures

\* A submit opens one handler, for the row edited or for a new one.
LEMMA SubmitPresses ==
  ASSUME ConfigTypeOK, NEW h \in Handlers, submit(h)
  PROVE  \E kind \in {"create", "save"}, r \in Rows, want \in Kept :
           Press(h, Closure(kind, r, want))
<1>1. page.editing \in Rows \cup {Nothing} /\ page.form.state \in Kept
  BY DEF ConfigTypeOK, Forms
<1>2. CASE page.editing # Nothing
  <2>1. page.editing \in Rows /\ Press(h, Closure("save", page.editing, page.form.state))
    BY <1>1, <1>2 DEF submit
  <2> QED BY <1>1, <2>1
<1>3. CASE page.editing = Nothing
  <2>1. \E r \in Rows : Press(h, Closure("create", r, page.form.state))
    BY <1>3 DEF submit
  <2> QED BY <1>1, <2>1
<1> QED
  BY <1>2, <1>3

\* A handler that ends leaves the page as it is but for busy.
LEMMA EndsTyped ==
  ASSUME ConfigTypeOK, NEW h \in Handlers, Ends(h)
  PROVE  /\ acting' = [acting EXCEPT ![h] = Nothing]
         /\ page' \in [selected : Resources, rows : [Rows -> States], form : Forms,
                       editing : Rows \cup {Nothing}, busy : BOOLEAN]
         /\ UNCHANGED <<page.selected, page.rows, page.form, page.editing>>
BY DEF Ends, ConfigTypeOK

LEMMA ConfigStepTyped == ConfigTypeOK /\ [ConfigNext]_configVars => ConfigTypeOK'
<1> SUFFICES ASSUME ConfigTypeOK, [ConfigNext]_configVars PROVE ConfigTypeOK'
  OBVIOUS
<1> USE ConfigAssumption, NothingApart
<1>1. ASSUME NEW h \in Handlers, submit(h) PROVE ConfigTypeOK'
  <2>1. PICK kind \in {"create", "save"}, r \in Rows, want \in Kept :
          Press(h, Closure(kind, r, want))
    BY <1>1, SubmitPresses
  <2>2. page' = [page EXCEPT !.busy = TRUE] /\ misfiled' \subseteq Resources
    BY <1>1 DEF submit, ConfigTypeOK
  <2>3. page' \in [selected : Resources, rows : [Rows -> States], form : Forms,
                   editing : Rows \cup {Nothing}, busy : BOOLEAN]
    BY <2>2 DEF ConfigTypeOK
  <2> DEFINE frame == Closure(kind, r, want)
  <2>4. frame \in Closures /\ frame.row = r /\ frame.want = want /\ frame.step = "write"
    BY ClosureTyped DEF States, ClosureKinds
  <2> HIDE DEF frame
  <2>6. Press(h, frame)
    BY <2>1 DEF frame
  <2>5. frame.row \in Rows /\ frame.want \in States /\ frame.step # "show"
    BY <2>4 DEF States
  <2> QED BY <2>2, <2>3, <2>4, <2>5, <2>6, PressTyped DEF ConfigTypeOK
<1>2. ASSUME NEW h \in Handlers, NEW r \in Rows, toggle(h, r) \/ remove(h, r) PROVE ConfigTypeOK'
  <2>1. PICK kind \in {"toggle", "remove"}, want \in States : Press(h, Closure(kind, r, want))
    BY <1>2 DEF toggle, remove, States, Kept
  <2> DEFINE frame == Closure(kind, r, want)
  <2>2. /\ frame \in Closures /\ frame.row \in Rows /\ frame.want \in States
        /\ frame.step # "show"
    BY ClosureTyped DEF ClosureKinds
  <2> HIDE DEF frame
  <2>3. UNCHANGED <<page, misfiled>>
    BY <1>2 DEF toggle, remove
  <2>4. Press(h, frame)
    BY <2>1 DEF frame
  <2> QED BY <2>2, <2>3, <2>4, PressTyped DEF ConfigTypeOK
<1>3. ASSUME NEW h \in Handlers, load(h) PROVE ConfigTypeOK'
  <2> DEFINE closure == Closure("load", Nothing, Nothing)
             frame == [closure EXCEPT !.step = "read"]
  <2>1. closure \in Closures
    BY ClosureTyped DEF ClosureKinds
  <2>2. frame \in Closures /\ frame.step = "read"
    <3> HIDE DEF closure
    <3> QED BY <2>1 DEF Closures
  <2> HIDE DEF frame
  <2>3. UNCHANGED <<page, misfiled>> /\ Press(h, frame)
    BY <1>3 DEF load, frame
  <2> QED BY <2>2, <2>3, PressTyped DEF ConfigTypeOK
<1>4. ASSUME NEW r \in Rows, edit(r) PROVE ConfigTypeOK'
  BY <1>4 DEF edit, ConfigTypeOK, Forms, Shown
<1>5. CASE cancel
  BY <1>5 DEF cancel, ConfigTypeOK, Forms, defaults, Kept
<1>12. CASE change
  <2>1. PICK st \in Kept : page' = [page EXCEPT !.form = [page.form EXCEPT !.state = st]]
    BY <1>12 DEF change, Kept
  <2>2. [page.form EXCEPT !.state = st] \in Forms
    BY DEF ConfigTypeOK, Forms
  <2> DEFINE form == [page.form EXCEPT !.state = st]
  <2>3. page' = [page EXCEPT !.form = form] /\ form \in Forms
    BY <2>1, <2>2
  <2> HIDE DEF form
  <2> QED BY <1>12, <2>3 DEF change, ConfigTypeOK
<1>6. ASSUME NEW r \in Resources, select(r) PROVE ConfigTypeOK'
  BY <1>6 DEF select, ConfigTypeOK, Forms, defaults, Kept
<1>7. ASSUME NEW h \in Handlers, Write(h) PROVE ConfigTypeOK'
  <2>1. /\ acting[h] \in Closures /\ acting[h] # Nothing
        /\ acting[h].row \in Rows /\ acting[h].want \in States
    BY <1>7 DEF Write, ConfigTypeOK
  <2>2. table' \in [Rows -> States]
    BY <1>7, <2>1 DEF Write, ConfigTypeOK
  <2> DEFINE f == [acting[h] EXCEPT !.step = "read"]
  <2>3. f \in Closures /\ f.step = "read"
    BY <2>1 DEF Closures
  <2>4. acting' = [acting EXCEPT ![h] = f]
    BY <1>7 DEF Write
  <2> HIDE DEF f
  <2>5. /\ acting' \in [Handlers -> Closures \cup {Nothing}]
        /\ \A g \in Handlers : acting'[g] = acting[g] \/ acting'[g] = f
    BY <2>3, <2>4 DEF ConfigTypeOK
  <2> QED BY <1>7, <2>2, <2>3, <2>5 DEF Write, ConfigTypeOK
<1>8. ASSUME NEW h \in Handlers, Read(h) PROVE ConfigTypeOK'
  <2>1. acting[h] \in Closures /\ table \in [Rows -> States]
    BY <1>8 DEF Read, ConfigTypeOK
  <2> DEFINE f == [acting[h] EXCEPT !.step = "show", !.got = table]
  <2>2. f \in Closures /\ f.step = "show" /\ f.got = table
    BY <2>1 DEF Closures
  <2>3. acting' = [acting EXCEPT ![h] = f]
    BY <1>8 DEF Read
  <2> HIDE DEF f
  <2>4. /\ acting' \in [Handlers -> Closures \cup {Nothing}]
        /\ \A g \in Handlers : acting'[g] = acting[g] \/ acting'[g] = f
    BY <2>2, <2>3 DEF ConfigTypeOK
  <2> QED BY <1>8, <2>1, <2>2, <2>4 DEF Read, ConfigTypeOK
<1>9. ASSUME NEW h \in Handlers, Show(h) PROVE ConfigTypeOK'
  <2>1. /\ acting[h] \in Closures /\ acting[h] # Nothing /\ acting[h].got \in [Rows -> States]
        /\ acting[h].of \in Resources
    BY <1>9 DEF Show, ConfigTypeOK, Closures
  <2>2. page' \in [selected : Resources, rows : [Rows -> States], form : Forms,
                   editing : Rows \cup {Nothing}, busy : BOOLEAN]
    BY <1>9, <2>1 DEF Show, ConfigTypeOK, Forms, defaults, Kept
  <2>3. acting' = [acting EXCEPT ![h] = Nothing]
    BY <1>9 DEF Show
  <2> QED BY <1>9, <2>2, <2>3 DEF Show, ConfigTypeOK
<1>10. ASSUME NEW h \in Handlers, Fails(h) \/ Refused(h) PROVE ConfigTypeOK'
  <2>1. Ends(h)
    BY <1>10 DEF Fails, Refused
  <2>2. /\ acting' = [acting EXCEPT ![h] = Nothing]
        /\ page' \in [selected : Resources, rows : [Rows -> States], form : Forms,
                      editing : Rows \cup {Nothing}, busy : BOOLEAN]
    BY <2>1, EndsTyped
  <2>3. table' \in [Rows -> States] /\ lost' \in Nat
    BY <1>10 DEF Fails, Refused, ConfigTypeOK
  <2>4. UNCHANGED <<crossed, misfiled, acts>>
    BY <1>10 DEF Fails, Refused
  <2> QED BY <2>2, <2>3, <2>4 DEF ConfigTypeOK
<1>11. CASE UNCHANGED configVars
  BY <1>11 DEF configVars, ConfigTypeOK
<1> QED
  BY <1>1, <1>2, <1>3, <1>4, <1>5, <1>6, <1>7, <1>8, <1>9, <1>10, <1>11, <1>12 DEF ConfigNext

\* Until the operator crosses handlers: there is one at most, it was started
\* under the resource still selected, and form, selection and edited row agree.
FormsInv ==
  ~crossed => /\ \A g, h \in Running : g = h
              /\ \A h \in Running : acting[h].of = page.selected
              /\ Filed
              /\ misfiled = {}

\* ... and while no request has failed, the table is shown as it is stored
\* unless a handler has written and not yet read.
TableInv ==
  ~crossed /\ lost = 0 =>
    /\ Running = {} => page.rows = table
    /\ \A h \in Running : /\ acting[h].step = "write" => page.rows = table
                          /\ acting[h].step = "show" => acting[h].got = table

PageInv == ConfigTypeOK /\ FormsInv /\ TableInv

LEMMA PageInit == ConfigInit => PageInv
<1> SUFFICES ASSUME ConfigInit PROVE PageInv
  OBVIOUS
<1>1. Running = {}
  BY DEF ConfigInit, Running
<1>2. PICK r \in Resources :
        page = [selected |-> r, rows |-> table, form |-> defaults(r), editing |-> Nothing, busy |-> FALSE]
  BY DEF ConfigInit
<1> QED
  BY <1>1, <1>2, ConfigInitTyped DEF ConfigInit, PageInv, FormsInv, TableInv, Filed, defaults

\* A handler that starts uncrossed starts alone.
LEMMA PressAlone ==
  ASSUME PageInv, NEW h \in Handlers, NEW frame, Press(h, frame), ~crossed'
  PROVE  /\ ~crossed /\ Running = {} /\ Running' \subseteq {h} /\ acting'[h] = frame
         /\ UNCHANGED <<table, lost>>
BY DEF PageInv, ConfigTypeOK, Press, Running

LEMMA PressKeeps ==
  ASSUME PageInv, NEW h \in Handlers, NEW frame, Press(h, frame), ConfigTypeOK',
         frame.of = page.selected, frame.step # "show",
         page' \in {page, [page EXCEPT !.busy = TRUE]},
         misfiled' = misfiled \/ ~Filed
  PROVE  PageInv'
<1>1. /\ page'.selected = page.selected /\ page'.form = page.form
      /\ page'.editing = page.editing /\ page'.rows = page.rows
  BY DEF PageInv, ConfigTypeOK
<1> QED
  BY <1>1, PressAlone DEF PageInv, FormsInv, TableInv, Filed

Handles(h) == Write(h) \/ Refused(h) \/ Read(h) \/ Show(h) \/ Fails(h)

\* What a handler does after its click: it goes on or ends, and the page keeps
\* its selection.
LEMMA HandlerStep ==
  ASSUME PageInv, NEW h \in Handlers, Handles(h)
  PROVE  /\ h \in Running /\ Running' \subseteq Running
         /\ \A g \in Handlers : g # h => acting'[g] = acting[g]
         /\ acting'[h] # Nothing => acting'[h].of = acting[h].of
         /\ UNCHANGED <<crossed, misfiled>>
<1>1. /\ h \in Running /\ UNCHANGED <<crossed, misfiled>> /\ acting[h] \in Closures
      /\ acting \in [Handlers -> Closures \cup {Nothing}]
  BY DEF Handles, Write, Refused, Read, Show, Fails, Running, PageInv, ConfigTypeOK
<1> DEFINE f == [acting[h] EXCEPT !.step = "read"]
           g == [acting[h] EXCEPT !.step = "show", !.got = table]
<1>2. f.of = acting[h].of /\ g.of = acting[h].of
  BY <1>1 DEF Closures
<1>3. \/ acting' = [acting EXCEPT ![h] = Nothing]
      \/ acting' = [acting EXCEPT ![h] = f]
      \/ acting' = [acting EXCEPT ![h] = g]
  BY DEF Handles, Write, Refused, Read, Show, Fails, Ends
<1> HIDE DEF f, g
<1> QED
  BY <1>1, <1>2, <1>3 DEF Running

LEMMA FormsStep ==
  ASSUME PageInv, NEW h \in Handlers, Handles(h)
  PROVE  FormsInv'
<1> SUFFICES ASSUME ~crossed'
             PROVE  /\ \A i, j \in Running' : i = j
                    /\ \A i \in Running' : acting'[i].of = page'.selected
                    /\ Filed'
                    /\ misfiled' = {}
  BY DEF FormsInv
<1>1. /\ ~crossed /\ misfiled = {} /\ acting[h].of = page.selected /\ Running' \subseteq {h}
      /\ Filed
  BY HandlerStep DEF PageInv, FormsInv
<1>2. acting'[h] # Nothing => acting'[h].of = page.selected
  BY <1>1, HandlerStep
<1>3. page'.selected = page.selected /\ Filed'
  <2> DEFINE cleared == [page EXCEPT !.rows = acting[h].got, !.form = defaults(acting[h].of),
                                     !.editing = Nothing, !.busy = FALSE]
  <2>1. \/ page' = page
        \/ page' = [page EXCEPT !.rows = acting[h].got]
        \/ \E b : page' = [page EXCEPT !.busy = b]
        \/ page' = cleared
    BY DEF Handles, Write, Refused, Read, Show, Fails, Ends
  <2>2. page' = cleared => page'.selected = page.selected /\ page'.editing = Nothing
                           /\ page'.form = defaults(acting[h].of)
    BY DEF PageInv, ConfigTypeOK
  <2>3. page' # cleared => UNCHANGED <<page.selected, page.form, page.editing>>
    <3> HIDE DEF cleared
    <3> QED BY <2>1 DEF PageInv, ConfigTypeOK
  <2> HIDE DEF cleared
  <2> QED BY <1>1, <2>2, <2>3 DEF defaults, Filed
<1>4. \A i \in Running' : i = h /\ acting'[i] # Nothing
  BY <1>1 DEF Running
<1> QED
  BY <1>1, <1>2, <1>3, <1>4, HandlerStep

LEMMA TableStep ==
  ASSUME PageInv, NEW h \in Handlers, Handles(h)
  PROVE  TableInv'
<1> SUFFICES ASSUME ~crossed', lost' = 0
             PROVE  /\ Running' = {} => page'.rows = table'
                    /\ \A i \in Running' : /\ acting'[i].step = "write" => page'.rows = table'
                                           /\ acting'[i].step = "show" => acting'[i].got = table'
  BY DEF TableInv
<1>1. ~crossed /\ lost = 0 /\ ~Fails(h) /\ Running' \subseteq {h} /\ h \in Running
  <2>1. ~crossed /\ h \in Running /\ Running' \subseteq Running
    BY HandlerStep
  <2>2. lost \in Nat /\ (lost' = lost \/ lost' = lost + 1) /\ (Fails(h) => lost' = lost + 1)
    BY DEF PageInv, ConfigTypeOK, Handles, Write, Refused, Read, Show, Fails
  <2> QED BY <2>1, <2>2 DEF PageInv, FormsInv
<1>2. /\ acting[h] \in Closures /\ acting \in [Handlers -> Closures \cup {Nothing}]
      /\ acting[h].step = "write" => page.rows = table
      /\ acting[h].step = "show" => acting[h].got = table
  BY <1>1 DEF PageInv, TableInv, ConfigTypeOK, Running
<1>3. CASE Write(h)
  <2> DEFINE f == [acting[h] EXCEPT !.step = "read"]
  <2>1. f.step = "read" /\ f \in Closures
    BY <1>2 DEF Closures
  <2>2. acting'[h] = f
    BY <1>2, <1>3 DEF Write
  <2>3. acting[h].step = "write" /\ page' = page
    BY <1>3 DEF Write
  <2> HIDE DEF f
  <2> QED BY <1>1, <1>2, <2>1, <2>2, <2>3, NothingApart DEF Running
<1>4. CASE Read(h)
  <2> DEFINE f == [acting[h] EXCEPT !.step = "show", !.got = table]
  <2>1. f.step = "show" /\ f.got = table /\ f \in Closures
    BY <1>2 DEF Closures, PageInv, ConfigTypeOK
  <2>2. acting'[h] = f /\ table' = table
    BY <1>2, <1>4 DEF Read
  <2> HIDE DEF f
  <2> QED BY <1>1, <2>1, <2>2, NothingApart DEF Running
<1>5. CASE Show(h)
  <2>1. acting'[h] = Nothing /\ table' = table /\ acting[h].got = table
    BY <1>2, <1>5 DEF Show
  <2>2. page'.rows = acting[h].got
    BY <1>5 DEF Show, PageInv, ConfigTypeOK
  <2> QED BY <1>1, <2>1, <2>2 DEF Running
<1>6. CASE Refused(h)
  <2>1. Ends(h) /\ acting[h].step = "write" /\ table' = table
    BY <1>6 DEF Refused
  <2>2. acting'[h] = Nothing /\ page'.rows = page.rows
    BY <1>2, <2>1, EndsTyped DEF PageInv
  <2> QED BY <1>1, <1>2, <2>1, <2>2 DEF Running
<1> QED
  BY <1>1, <1>3, <1>4, <1>5, <1>6 DEF Handles

LEMMA PageStep == PageInv /\ [ConfigNext]_configVars => PageInv'
<1> SUFFICES ASSUME PageInv, [ConfigNext]_configVars PROVE PageInv'
  OBVIOUS
<1>1. ConfigTypeOK'
  BY ConfigStepTyped DEF PageInv
<1>2. ASSUME NEW h \in Handlers, submit(h) PROVE PageInv'
  <2>1. PICK kind \in {"create", "save"}, r \in Rows, want \in Kept :
          Press(h, Closure(kind, r, want))
    BY <1>2, SubmitPresses DEF PageInv
  <2>2. page' = [page EXCEPT !.busy = TRUE] /\ (misfiled' = misfiled \/ ~Filed)
    BY <1>2 DEF submit
  <2>3. /\ Closure(kind, r, want).of = page.selected
        /\ Closure(kind, r, want).step # "show"
    BY DEF Closure
  <2> QED BY <1>1, <2>1, <2>2, <2>3, PressKeeps
<1>3. ASSUME NEW h \in Handlers, NEW r \in Rows, toggle(h, r) \/ remove(h, r) PROVE PageInv'
  <2>1. PICK kind \in {"toggle", "remove"}, want \in States : Press(h, Closure(kind, r, want))
    BY <1>3 DEF toggle, remove, States, Kept
  <2>2. UNCHANGED <<page, misfiled>>
    BY <1>3 DEF toggle, remove
  <2>3. Closure(kind, r, want).of = page.selected /\ Closure(kind, r, want).step # "show"
    BY DEF Closure
  <2> QED BY <1>1, <2>1, <2>2, <2>3, PressKeeps
<1>4. ASSUME NEW h \in Handlers, load(h) PROVE PageInv'
  <2> DEFINE frame == [Closure("load", Nothing, Nothing) EXCEPT !.step = "read"]
  <2>1. frame.of = page.selected /\ frame.step = "read"
    BY DEF Closure
  <2>2. Press(h, frame) /\ UNCHANGED <<page, misfiled>>
    BY <1>4 DEF load
  <2> HIDE DEF frame
  <2> QED BY <1>1, <2>1, <2>2, PressKeeps
<1>5. ASSUME NEW r \in Rows, edit(r) PROVE PageInv'
  BY <1>1, <1>5 DEF edit, PageInv, FormsInv, TableInv, Running, ConfigTypeOK, Filed
<1>6. CASE cancel
  BY <1>1, <1>6 DEF cancel, PageInv, FormsInv, TableInv, Running, ConfigTypeOK, defaults, Filed
<1>10. CASE change
  <2>1. /\ UNCHANGED <<table, acting, crossed, misfiled, lost>>
        /\ UNCHANGED <<page.selected, page.rows, page.editing, page.form.of, page.form.row>>
    BY <1>10 DEF change, PageInv, ConfigTypeOK, Forms
  <2> QED BY <1>1, <2>1 DEF PageInv, FormsInv, TableInv, Running, Filed
<1>7. ASSUME NEW r \in Resources, select(r) PROVE PageInv'
  BY <1>1, <1>7 DEF select, PageInv, FormsInv, TableInv, Running, ConfigTypeOK, defaults, Filed
<1>8. ASSUME NEW h \in Handlers, Handles(h) PROVE PageInv'
  BY <1>1, <1>8, FormsStep, TableStep DEF PageInv
<1>9. CASE UNCHANGED configVars
  BY <1>9 DEF configVars, PageInv, ConfigTypeOK, FormsInv, TableInv, Running, Filed
<1> QED
  BY <1>2, <1>3, <1>4, <1>5, <1>6, <1>7, <1>8, <1>9, <1>10 DEF ConfigNext, Handles

(* The form sent is that of the selected resource and the edited row as     *)
(* long as no handler is crossed, for any number of resources and rows.     *)
THEOREM FormsFiled == ConfigSpec => []FormsAreFiled
<1>1. PageInv => FormsAreFiled
  BY DEF PageInv, FormsInv, FormsAreFiled
<1> QED
  BY <1>1, PageInit, PageStep, PTL DEF ConfigSpec

(* The table shown at rest is the table stored as long as no handler is     *)
(* crossed and no request has failed.                                       *)
THEOREM TableCurrent == ConfigSpec => []TableIsCurrent
<1>1. PageInv => TableIsCurrent
  BY DEF PageInv, TableInv, TableIsCurrent
<1> QED
  BY <1>1, PageInit, PageStep, PTL DEF ConfigSpec

-----------------------------------------------------------------------------
(* The content page: items, packs and what a handler carries               *)

Ordered == {"order", "pair", "reread", "saved"}
Acquiring == {"queue", "poll", "polled", "trio"}

\* the items of a pack in any order, and ticks among them
Content(p, items, ticked) ==
  /\ ticked \subseteq Range(items)
  /\ p # None => Range(items) = Range(FirstOrder[p])

\* What a handler waits for and holds, by its kind and step.
Shape(f) ==
  /\ f.wait \cap {"open", "openGot", "list", "listGot"} # {} => f.step = "after"
  /\ f.wait \cap {"select", "patch"} # {} => f.step = "pair"
  /\ f.wait \cap {"open", "openGot"} # {} => f.target # None
  /\ "openGot" \in f.wait => f.got # None /\ f.got.id = f.target
  /\ "listGot" \in f.wait => f.seen # None
  /\ f.step \in {"saved", "polled"} => f.got # None /\ f.got.id = f.pack
  /\ f.step \in Ordered => f.kind \in Reviewing \/ (f.step = "pair" /\ f.kind = "orphan")
  /\ f.step \in Ordered \cup Acquiring => f.pack # None
  /\ f.step = "decide" => f.kind \in Decisions
  /\ f.step \in Acquiring => f.kind = "acquire"
  /\ f.step = "import" => f.kind \in Imports
  /\ f.step = "classify" <=> f.kind = "dedupe"
  /\ f.step = "after" => f.kind # "save"
  /\ f.kind \in Imports \cup {"open", "dedupe"} => f.target # None
  /\ f.kind \in Reviewing \cup {"dedupe"} => f.target # None /\ f.target = f.cand
  /\ Content(f.pack, f.items, f.ticked)
  /\ f.got # None => Content(f.got.id, f.got.items, f.got.ticked)

GoodFrame(f) == f \in Frames /\ Shape(f)
GoodDb(d) == d \in Databases /\ \A c \in Candidates : Content(c, d.order[c], d.picked[c])
GoodScreen(s) == s \in Screens /\ Content(s.pack, s.items, s.ticked)

TabInv ==
  /\ TypeOK
  /\ GoodDb(db) /\ GoodScreen(screen)
  /\ \A h \in Slots : running[h] # None => Shape(running[h])

LEMMA Keeps ==
  ASSUME TabInv, NEW h \in Slots, Done(h) \/ \E f : GoodFrame(f) /\ Go(h, f),
         GoodDb(db'), GoodScreen(screen'), overlapped' \in BOOLEAN,
         surprises' \subseteq Candidates, clicks' \in Nat, edits' \in Nat, faults' \in Nat
  PROVE  TabInv'
<1>1. CASE Done(h)
  BY <1>1 DEF TabInv, TypeOK, Done, GoodDb, GoodScreen
<1>2. ASSUME NEW f, GoodFrame(f), Go(h, f) PROVE TabInv'
  BY <1>2 DEF TabInv, TypeOK, Go, GoodDb, GoodScreen, GoodFrame
<1> QED
  BY <1>1, <1>2

\* A frame is a known handler's or none.
LEMMA FrameOf ==
  ASSUME TabInv, NEW h \in Slots, running[h] # None
  PROVE  GoodFrame(running[h])
BY DEF TabInv, TypeOK, GoodFrame

LEMMA ShowsPack ==
  ASSUME NEW s, GoodScreen(s), NEW p \in Packs, Content(p.id, p.items, p.ticked)
  PROVE  /\ GoodScreen(applyPack(s, p))
         /\ applyPack(s, p).cand = s.cand /\ applyPack(s, p).pack = p.id
         /\ applyPack(s, p).busy = s.busy /\ applyPack(s, p).dedupe = s.dedupe
         /\ applyPack(s, p).notice = s.notice
BY DEF GoodScreen, Screens, Packs, applyPack

LEMMA ShowsOpening ==
  ASSUME NEW s, GoodScreen(s)
  PROVE  /\ GoodScreen(opening(s))
         /\ opening(s).cand = s.cand /\ opening(s).pack = s.pack
         /\ opening(s).dedupe = s.dedupe /\ opening(s).notice = <<"none", None>>
BY DEF GoodScreen, Screens, opening, Kinds

LEMMA ShowsFailure ==
  ASSUME NEW s, GoodScreen(s)
  PROVE  /\ GoodScreen(fail(s))
         /\ fail(s).cand = s.cand /\ fail(s).pack = s.pack
         /\ fail(s).dedupe = s.dedupe /\ fail(s).notice = <<"error", None>>
BY DEF GoodScreen, Screens, fail

LEMMA ShowsFinish ==
  ASSUME NEW s, GoodScreen(s), NEW f \in Frames
  PROVE  LET shown == [s EXCEPT !.notice = <<f.kind, f.target>>, !.busy = None] IN
         /\ GoodScreen(shown)
         /\ shown.cand = s.cand /\ shown.pack = s.pack /\ shown.dedupe = s.dedupe
         /\ shown.notice = <<f.kind, f.target>>
BY DEF GoodScreen, Screens, Frames

-----------------------------------------------------------------------------
(* What the API leaves                                                      *)

LEMMA ReorderLeaves ==
  ASSUME NEW d, GoodDb(d), NEW p \in Candidates, NEW ids \in Seq(Items),
         Range(ids) = Range(FirstOrder[p])
  PROVE  LET out == reorder_pack(d, p, ids) IN
         /\ GoodDb(out.db) /\ out.ok /\ out.db.verdict = d.verdict /\ out.db.order[p] = ids
<1> DEFINE e == [d EXCEPT !.order[p] = ids]
<1>1. /\ e \in Databases /\ e.verdict = d.verdict /\ e.picked = d.picked
      /\ e.order = [d.order EXCEPT ![p] = ids]
  BY DEF GoodDb, Databases
<1>2. \A c \in Candidates : Content(c, e.order[c], e.picked[c])
  <2> SUFFICES ASSUME NEW c \in Candidates PROVE Content(c, e.order[c], e.picked[c])
    OBVIOUS
  <2>1. Content(c, d.order[c], d.picked[c]) /\ c # None /\ d.order \in [Candidates -> Seq(Items)]
    BY ContentAssumption DEF GoodDb, Databases
  <2> HIDE DEF e
  <2> QED BY <1>1, <2>1 DEF Content
<1>3. e.order[p] = ids
  <2>1. d.order \in [Candidates -> Seq(Items)]
    BY DEF GoodDb, Databases
  <2> HIDE DEF e
  <2> QED BY <1>1, <2>1
<1> QED
  BY <1>1, <1>2, <1>3 DEF reorder_pack, GoodDb

LEMMA SelectionLeaves ==
  ASSUME NEW d, GoodDb(d), NEW p \in Candidates, NEW pos
  PROVE  LET out == set_pack_selection(d, p, pos) IN
         /\ GoodDb(out.db) /\ out.db.verdict = d.verdict /\ out.db.order = d.order
         /\ out.ok \in BOOLEAN
         /\ out.ok => out.db.picked[p] = Chosen(d, p, pos)
<1> DEFINE e == [d EXCEPT !.picked[p] = Chosen(d, p, pos)]
<1>1. d.order \in [Candidates -> Seq(Items)] /\ d.picked \in [Candidates -> SUBSET Items]
  BY DEF GoodDb, Databases
<1>2. CASE pos \subseteq DOMAIN d.order[p]
  <2>1. Chosen(d, p, pos) \subseteq Range(d.order[p]) /\ Range(d.order[p]) \subseteq Items
    BY <1>1, <1>2 DEF Chosen, Range
  <2>2. /\ e \in Databases /\ e.verdict = d.verdict /\ e.order = d.order
        /\ e.picked = [d.picked EXCEPT ![p] = Chosen(d, p, pos)]
    BY <2>1 DEF GoodDb, Databases
  <2> HIDE DEF e
  <2>3. e.picked[p] = Chosen(d, p, pos)
    BY <1>1, <2>2
  <2>4. \A c \in Candidates : Content(c, e.order[c], e.picked[c])
    BY <1>1, <2>1, <2>2 DEF Content, GoodDb
  <2>5. set_pack_selection(d, p, pos).ok = TRUE /\ set_pack_selection(d, p, pos).db = e
    BY <1>2 DEF set_pack_selection, e
  <2> QED BY <2>2, <2>3, <2>4, <2>5 DEF GoodDb
<1>3. CASE ~ (pos \subseteq DOMAIN d.order[p])
  BY <1>3 DEF set_pack_selection
<1> QED
  BY <1>2, <1>3

LEMMA DecisionLeaves ==
  ASSUME NEW d, GoodDb(d), NEW c \in Candidates, NEW decision, NEW pos
  PROVE  LET out == decide_candidate(d, c, decision, pos)
             final == IF decision = "approve" THEN "READY" ELSE "REJECTED" IN
         /\ GoodDb(out.db) /\ out.db.order = d.order
         /\ out.db.verdict = d.verdict
            \/ /\ d.verdict[c] = "PENDING_APPROVAL"
               /\ out.db.verdict = [d.verdict EXCEPT ![c] = final]
               /\ decision = "approve" => out.db.picked[c] = Chosen(d, c, pos)
         /\ out.ok /\ decision # "defer" => out.db.verdict[c] = final
<1> DEFINE final == IF decision = "approve" THEN "READY" ELSE "REJECTED"
           sel == set_pack_selection(d, c, pos)
           out == decide_candidate(d, c, decision, pos)
<1>1. final \in Verdicts
  BY DEF Verdicts
<1>2. ASSUME NEW e, GoodDb(e)
      PROVE  LET g == [e EXCEPT !.verdict[c] = final] IN
             /\ GoodDb(g) /\ g.order = e.order /\ g.picked = e.picked
             /\ g.verdict = [e.verdict EXCEPT ![c] = final] /\ g.verdict[c] = final
  <2> HIDE DEF final
  <2> QED BY <1>1, <1>2 DEF GoodDb, Databases
<1>3. CASE d.verdict[c] # "PENDING_APPROVAL"
  BY <1>3 DEF decide_candidate
<1>4. CASE d.verdict[c] = "PENDING_APPROVAL" /\ decision = "defer"
  BY <1>4 DEF decide_candidate
<1>5. CASE d.verdict[c] = "PENDING_APPROVAL" /\ decision = "reject"
  <2> DEFINE g == [d EXCEPT !.verdict[c] = final]
  <2>1. out.ok = TRUE /\ out.db = g
    BY <1>5 DEF decide_candidate
  <2>2. /\ GoodDb(g) /\ g.order = d.order
        /\ g.verdict = [d.verdict EXCEPT ![c] = final] /\ g.verdict[c] = final
    BY <1>2
  <2> HIDE DEF g
  <2> QED BY <1>5, <2>1, <2>2
<1>6. CASE d.verdict[c] = "PENDING_APPROVAL" /\ decision \notin {"defer", "reject"}
  <2>1. GoodDb(sel.db) /\ sel.db.verdict = d.verdict /\ sel.db.order = d.order
        /\ (sel.ok => sel.db.picked[c] = Chosen(d, c, pos))
    BY SelectionLeaves
  <2>2. CASE sel.ok /\ sel.db.picked[c] # {}
    <3> DEFINE g == [sel.db EXCEPT !.verdict[c] = final]
    <3>1. out.ok = TRUE /\ out.db = g
      BY <1>6, <2>2 DEF decide_candidate
    <3>2. /\ GoodDb(g) /\ g.order = sel.db.order /\ g.picked = sel.db.picked
          /\ g.verdict = [sel.db.verdict EXCEPT ![c] = final] /\ g.verdict[c] = final
      BY <1>2, <2>1
    <3> HIDE DEF g, sel
    <3> QED BY <1>6, <2>1, <2>2, <3>1, <3>2
  <2>3. CASE ~ (sel.ok /\ sel.db.picked[c] # {})
    <3>1. out = [ok |-> FALSE, db |-> d]
      BY <1>6, <2>3 DEF decide_candidate
    <3> QED BY <3>1
  <2> QED BY <2>2, <2>3
<1> QED
  BY <1>3, <1>4, <1>5, <1>6

LEMMA AcquisitionLeaves ==
  ASSUME NEW d, GoodDb(d), NEW p \in Candidates
  PROVE  LET out == enqueue_selected_acquisition(d, p) IN
         GoodDb(out.db) /\ out.db.verdict = d.verdict /\ out.db.order = d.order
<1> DEFINE missing == d.picked[p] \ d.ready
           failed == d.failed \ missing
           asked == d.asked \cup missing
           queued == d.queued \cup (missing \ d.asked)
           e == [d EXCEPT !.failed = failed, !.asked = asked, !.queued = queued]
<1>1. failed \subseteq Items /\ asked \subseteq Items /\ queued \subseteq Items
  BY DEF GoodDb, Databases
<1>2. e \in Databases /\ e.verdict = d.verdict /\ e.order = d.order /\ e.picked = d.picked
  <2> HIDE DEF failed, asked, queued
  <2> QED BY <1>1 DEF GoodDb, Databases
<1>3. enqueue_selected_acquisition(d, p).db \in {d, e}
  BY DEF enqueue_selected_acquisition
<1> HIDE DEF e
<1> QED
  BY <1>2, <1>3 DEF GoodDb

-----------------------------------------------------------------------------
(* Types and shapes are kept: clicks                                        *)

LEMMA FrameTyped ==
  ASSUME TabInv, NEW kind \in Kinds, NEW step \in Steps,
         NEW target \in Candidates \cup {None}, NEW wait \in SUBSET Waits
  PROVE  LET f == Frame(kind, step, target, wait) IN
         /\ f \in Frames
         /\ f.kind = kind /\ f.step = step /\ f.target = target /\ f.wait = wait
         /\ f.cand = screen.cand /\ f.pack = screen.pack /\ f.items = screen.items
         /\ f.ticked = screen.ticked /\ f.got = None /\ f.seen = None
BY DEF TabInv, GoodScreen, Screens, Frame, Frames

LEMMA StartTab ==
  ASSUME TabInv, NEW h \in Slots, NEW f, GoodFrame(f), Start(h, f), GoodScreen(screen')
  PROVE  TabInv'
<1>1. /\ Go(h, f) /\ UNCHANGED <<db, surprises, edits, faults>>
      /\ overlapped' \in BOOLEAN /\ clicks' = clicks + 1
  BY DEF Start, Go, TabInv, TypeOK
<1>2. GoodDb(db')
  BY <1>1 DEF TabInv
<1> QED
  BY <1>1, <1>2, Keeps DEF TabInv, TypeOK

LEMMA ClickTab ==
  ASSUME TabInv, NEW h \in Slots, Click(h)
  PROVE  TabInv'
<1> USE DEF Kinds, Steps, Waits, Reviewing, Decisions, Imports
<1>0. /\ screen \in Screens /\ GoodScreen(screen)
      /\ screen.cand \in Candidates \cup {None} /\ screen.pack \in Candidates \cup {None}
      /\ Content(screen.pack, screen.items, screen.ticked)
  BY DEF TabInv, GoodScreen, Screens
<1>1. ASSUME NEW c \in Candidates, ClickOpen(h, c) PROVE TabInv'
  <2> DEFINE f == Frame("open", "after", c, {"open"})
  <2>1. Start(h, f) /\ GoodScreen(screen')
    BY <1>0, <1>1, ShowsOpening DEF ClickOpen
  <2>2. /\ f \in Frames /\ f.kind = "open" /\ f.step = "after" /\ f.target = c
        /\ f.wait = {"open"} /\ f.got = None /\ f.cand = screen.cand
        /\ f.pack = screen.pack /\ f.items = screen.items /\ f.ticked = screen.ticked
    BY FrameTyped
  <2> HIDE DEF f
  <2>3. GoodFrame(f)
    BY <1>0, <2>2, ContentAssumption DEF GoodFrame, Shape, Ordered, Acquiring
  <2> QED BY <2>1, <2>3, StartTab
<1>2. ASSUME NEW c \in Candidates, NEW k \in Imports, ClickImport(h, k, c) PROVE TabInv'
  <2> DEFINE f == Frame(k, "import", c, {})
  <2>1. Start(h, f) /\ screen' = [screen EXCEPT !.busy = k, !.notice = <<"none", None>>]
    BY <1>2 DEF ClickImport
  <2>2. /\ f \in Frames /\ f.kind = k /\ f.step = "import" /\ f.target = c
        /\ f.wait = {} /\ f.got = None /\ f.cand = screen.cand
        /\ f.pack = screen.pack /\ f.items = screen.items /\ f.ticked = screen.ticked
    BY FrameTyped
  <2>3. GoodScreen(screen')
    BY <1>0, <2>1 DEF GoodScreen, Screens
  <2> HIDE DEF f
  <2>4. GoodFrame(f)
    BY <1>0, <2>2, ContentAssumption DEF GoodFrame, Shape, Ordered, Acquiring
  <2> QED BY <2>1, <2>3, <2>4, StartTab
<1>3. ASSUME NEW k \in Reviewing, ClickReview(h, k) PROVE TabInv'
  <2> DEFINE f == Frame(k, "order", screen.cand, {})
  <2>1. /\ Start(h, f) /\ screen' = [screen EXCEPT !.busy = k, !.notice = <<"none", None>>]
        /\ screen.cand # None /\ screen.pack # None
    BY <1>3 DEF ClickReview
  <2>5. k \in Kinds /\ "order" \in Steps /\ {} \in SUBSET Waits
    OBVIOUS
  <2>2. /\ f \in Frames /\ f.kind = k /\ f.step = "order" /\ f.target = screen.cand
        /\ f.wait = {} /\ f.got = None /\ f.cand = screen.cand
        /\ f.pack = screen.pack /\ f.items = screen.items /\ f.ticked = screen.ticked
    <3> HIDE DEF Kinds, Steps, Waits, Reviewing
    <3> QED BY <1>0, <2>5, FrameTyped
  <2>3. GoodScreen(screen')
    BY <1>0, <2>1 DEF GoodScreen, Screens
  <2> HIDE DEF f
  <2>4. GoodFrame(f)
    BY <1>0, <2>1, <2>2, ContentAssumption DEF GoodFrame, Shape, Ordered, Acquiring
  <2> QED BY <2>1, <2>3, <2>4, StartTab
<1>4. CASE ClickRefresh(h)
  <2> DEFINE f == Frame("refresh", "after", None, {"list"})
  <2>1. Start(h, f) /\ GoodScreen(screen')
    BY <1>0, <1>4 DEF ClickRefresh
  <2>2. /\ f \in Frames /\ f.kind = "refresh" /\ f.step = "after" /\ f.target = None
        /\ f.wait = {"list"} /\ f.got = None /\ f.cand = screen.cand
        /\ f.pack = screen.pack /\ f.items = screen.items /\ f.ticked = screen.ticked
    BY FrameTyped
  <2> HIDE DEF f
  <2>3. GoodFrame(f)
    BY <1>0, <2>2, ContentAssumption DEF GoodFrame, Shape, Ordered, Acquiring
  <2> QED BY <2>1, <2>3, StartTab
<1>5. CASE ClickDedupe(h)
  <2> DEFINE f == Frame("dedupe", "classify", screen.cand, {})
  <2>1. Start(h, f) /\ screen' = [screen EXCEPT !.busy = "dedupe"] /\ screen.cand # None
    BY <1>5 DEF ClickDedupe
  <2>2. /\ f \in Frames /\ f.kind = "dedupe" /\ f.step = "classify" /\ f.target = screen.cand
        /\ f.wait = {} /\ f.got = None /\ f.cand = screen.cand
        /\ f.pack = screen.pack /\ f.items = screen.items /\ f.ticked = screen.ticked
    BY <1>0, FrameTyped
  <2>3. GoodScreen(screen')
    BY <1>0, <2>1 DEF GoodScreen, Screens
  <2> HIDE DEF f
  <2>4. GoodFrame(f)
    BY <1>0, <2>1, <2>2, ContentAssumption DEF GoodFrame, Shape, Ordered, Acquiring
  <2> QED BY <2>1, <2>3, <2>4, StartTab
<1> QED
  BY <1>1, <1>2, <1>3, <1>4, <1>5 DEF Click

LEMMA EditTab ==
  ASSUME TabInv, \/ \E i \in Items : toggleItem(i)
                 \/ \E k \in DOMAIN screen.items : moveItem(k)
  PROVE  /\ TabInv' /\ UNCHANGED <<db, running, history, clicks, faults>>
         /\ screen'.cand = screen.cand /\ screen'.pack = screen.pack
         /\ screen'.busy = screen.busy /\ screen'.dedupe = screen.dedupe
         /\ screen'.notice = screen.notice
<1>0. /\ screen \in Screens /\ screen.items \in Seq(Items) /\ screen.ticked \subseteq Items
      /\ Content(screen.pack, screen.items, screen.ticked)
  BY DEF TabInv, GoodScreen, Screens
<1>1. UNCHANGED <<db, running, history, clicks, faults>> /\ edits' = edits + 1
  BY DEF toggleItem, moveItem, Edit
<1>2. /\ GoodScreen(screen')
      /\ screen'.cand = screen.cand /\ screen'.pack = screen.pack
      /\ screen'.busy = screen.busy /\ screen'.dedupe = screen.dedupe
      /\ screen'.notice = screen.notice
  <2>1. ASSUME NEW i \in Items, toggleItem(i) PROVE <1>2!:
    <3> DEFINE ticks == IF i \in screen.ticked THEN screen.ticked \ {i} ELSE screen.ticked \cup {i}
    <3>1. screen' = [screen EXCEPT !.ticked = ticks] /\ i \in Range(screen.items)
      BY <2>1 DEF toggleItem, Edit, Range
    <3>2. ticks \subseteq Items /\ ticks \subseteq Range(screen.items)
      BY <1>0, <3>1 DEF Content
    <3> HIDE DEF ticks
    <3> QED BY <1>0, <3>1, <3>2 DEF GoodScreen, Screens, Content
  <2>2. ASSUME NEW k \in DOMAIN screen.items, moveItem(k) PROVE <1>2!:
    <3> DEFINE old == screen.items
               new == [old EXCEPT ![k] = old[k + 1], ![k + 1] = old[k]]
    <3>1. screen' = [screen EXCEPT !.items = new] /\ k + 1 \in DOMAIN old
      BY <2>2 DEF moveItem, Edit
    <3>2. k \in 1..Len(old) /\ k + 1 \in 1..Len(old)
      BY <1>0, <3>1
    <3>3. new \in Seq(Items) /\ DOMAIN new = DOMAIN old
      BY <1>0, <3>2
    <3>4. Range(new) = Range(old)
      <4>1. \A j \in DOMAIN old : new[j] = IF j = k THEN old[k + 1]
                                           ELSE IF j = k + 1 THEN old[k] ELSE old[j]
        BY <1>0, <3>2
      <4>5. k \in DOMAIN old /\ k + 1 \in DOMAIN old
        BY <2>2, <3>1
      <4> HIDE DEF new, old
      <4>2. \A j \in DOMAIN old : new[j] \in Range(old)
        BY <4>1, <4>5 DEF Range
      <4>3. \A j \in DOMAIN old : old[j] \in Range(new)
        BY <2>2, <3>1, <3>2, <3>3, <4>1, <4>5 DEF Range, old
      <4> QED BY <3>3, <4>2, <4>3 DEF Range
    <3> HIDE DEF new
    <3> QED BY <1>0, <3>1, <3>3, <3>4 DEF GoodScreen, Screens, Content
  <2> QED BY <2>1, <2>2
<1> QED
  BY <1>1, <1>2 DEF TabInv, TypeOK, GoodScreen, GoodDb, history

-----------------------------------------------------------------------------
(* Types and shapes are kept: answers                                       *)

\* How a handler goes on: with a frame in shape, or not at all.
Continues(h) == Done(h) \/ \E f : GoodFrame(f) /\ Go(h, f)

\* Its closure and its kind stay, and steps follow each other.
Closed(f, g) ==
  /\ g.kind = f.kind /\ g.target = f.target /\ g.cand = f.cand /\ g.pack = f.pack
  /\ g.items = f.items /\ g.ticked = f.ticked

Follows(a, b) ==
  \/ a = "order" /\ b = "pair"
  \/ a = "pair" /\ b \in {"pair", "reread"}
  \/ a = "reread" /\ b = "saved"
  \/ a = "saved" /\ b \in {"queue", "decide"}
  \/ a = "queue" /\ b = "poll"
  \/ a = "poll" /\ b = "polled"
  \/ a = "polled" /\ b \in {"poll", "trio"}
  \/ a \in {"decide", "trio", "import", "after"} /\ b = "after"

Onward(h) ==
  Done(h) \/ \E g : /\ GoodFrame(g) /\ Go(h, g)
                    /\ Closed(running[h], g) /\ Follows(running[h].step, g.step)

LEMMA OnwardContinues == ASSUME NEW h, Onward(h) PROVE Continues(h)
BY DEF Onward, Continues

LEMMA ThrowTab ==
  ASSUME TabInv, NEW h \in Slots, running[h] # None, NEW scr, GoodScreen(scr),
         NEW beside \in SUBSET running[h].wait, Throw(h, scr, beside)
  PROVE  /\ Continues(h) /\ GoodScreen(screen')
         /\ screen'.cand = scr.cand /\ screen'.pack = scr.pack /\ screen'.dedupe = scr.dedupe
         /\ screen'.notice \in {scr.notice, <<"error", None>>}
         /\ Done(h) \/ \E left \in SUBSET (beside \cap {"select", "patch", "open", "openGot"}) :
                         Go(h, [running[h] EXCEPT !.kind = "orphan", !.wait = left])
<1> DEFINE left == beside \cap {"select", "patch", "open", "openGot"}
           g == [running[h] EXCEPT !.kind = "orphan", !.wait = left]
<1>1. running[h] \in Frames /\ Shape(running[h])
  BY FrameOf DEF GoodFrame
<1>2. left \subseteq running[h].wait /\ left \subseteq {"select", "patch", "open", "openGot"}
      /\ running[h].wait \subseteq Waits
  BY <1>1 DEF Frames
<1>3. screen' = IF running[h].kind = "refresh" THEN scr ELSE fail(scr)
  BY DEF Throw
<1>4. IF left = {} THEN Done(h) ELSE Go(h, g)
  BY DEF Throw
<1>5. g \in Frames /\ g.kind = "orphan" /\ g.wait = left /\ g.step = running[h].step
      /\ g.target = running[h].target /\ g.cand = running[h].cand /\ g.pack = running[h].pack
      /\ g.items = running[h].items /\ g.ticked = running[h].ticked /\ g.got = running[h].got
      /\ g.seen = running[h].seen
  <2> HIDE DEF left
  <2>1. "orphan" \in Kinds
    BY DEF Kinds
  <2> QED BY <1>1, <1>2, <2>1 DEF Frames
<1>6. left # {} => Shape(g)
  <2>1. left # {} => running[h].step \in {"pair", "after"}
    BY <1>1, <1>2 DEF Shape
  <2>2. left # {} => running[h].kind # "dedupe"
    BY <1>1, <2>1 DEF Shape
  <2> HIDE DEF g, left
  <2> QED BY <1>1, <1>2, <1>5, <2>1, <2>2
          DEF Shape, Ordered, Acquiring, Reviewing, Decisions, Imports
<1>7. Continues(h)
  <2> HIDE DEF g, left
  <2> QED BY <1>4, <1>5, <1>6 DEF Continues, GoodFrame
<1> QED
  BY <1>3, <1>4, <1>7, ShowsFailure

LEMMA FinishTab ==
  ASSUME TabInv, NEW h \in Slots, running[h] # None, NEW scr, GoodScreen(scr), Finish(h, scr)
  PROVE  /\ Done(h) /\ GoodScreen(screen')
         /\ screen'.cand = scr.cand /\ screen'.pack = scr.pack /\ screen'.dedupe = scr.dedupe
         /\ screen'.notice = <<running[h].kind, running[h].target>>
BY FrameOf, ShowsFinish DEF Finish, GoodFrame

LEMMA CallTab ==
  ASSUME TabInv, NEW h \in Slots, NEW step, NEW out, NEW then, NEW shown,
         Call(h, step, out, then, shown), GoodDb(out.db),
         out.ok => GoodFrame(then) /\ GoodScreen(shown), surprises' \subseteq Candidates
  PROVE  /\ TabInv'
         /\ ~out.ok => /\ Done(h) /\ screen'.cand = screen.cand
                       /\ screen'.pack = screen.pack /\ screen'.dedupe = screen.dedupe
                       /\ screen'.notice \in {screen.notice, <<"error", None>>}
<1>1. running[h] # None /\ GoodScreen(screen) /\ {} \in SUBSET running[h].wait
  BY DEF Call, TabInv
<1>2. CASE out.ok
  BY <1>2, Keeps DEF Call, bounds, TabInv, TypeOK
<1>3. CASE ~out.ok
  <2>1. Throw(h, screen, {})
    BY <1>3 DEF Call
  <2>2. /\ Done(h) /\ GoodScreen(screen') /\ screen'.cand = screen.cand
        /\ screen'.pack = screen.pack /\ screen'.dedupe = screen.dedupe
        /\ screen'.notice \in {screen.notice, <<"error", None>>}
    BY <1>1, <2>1, ThrowTab DEF Throw
  <2> QED BY <1>3, <2>2, Keeps DEF Call, bounds, TabInv, TypeOK
<1> QED
  BY <1>2, <1>3

\* Steps of a handler that touch neither the rows nor the counters.
LEMMA QuietTab ==
  ASSUME TabInv, NEW h \in Slots, Continues(h), GoodScreen(screen'), GoodDb(db'),
         UNCHANGED <<history, bounds>>
  PROVE  TabInv'
BY Keeps DEF Continues, TabInv, TypeOK, history, bounds

LEMMA OrderTab ==
  ASSUME TabInv, NEW h \in Slots, PutOrder(h)
  PROVE  /\ TabInv' /\ UNCHANGED <<screen, history, bounds>> /\ db'.verdict = db.verdict
         /\ running[h].kind \in Reviewing /\ running[h].pack \in Candidates
         /\ db'.order[running[h].pack] = running[h].items
         /\ running[h].step = "order" /\ running[h] # None /\ Onward(h)
<1> DEFINE f == running[h]
           out == reorder_pack(db, f.pack, f.items)
           g == [f EXCEPT !.step = "pair", !.wait = {"select", "patch"}]
<1>1. /\ f \in Frames /\ Shape(f) /\ f.step = "order" /\ f # None
      /\ Call(h, "order", out, g, screen) /\ UNCHANGED surprises
  BY FrameOf DEF PutOrder, GoodFrame, Call
<1>2. f.pack \in Candidates /\ f.kind \in Reviewing /\ f.items \in Seq(Items)
      /\ Range(f.items) = Range(FirstOrder[f.pack])
  BY <1>1 DEF Shape, Ordered, Frames, Content
<1>3. GoodDb(out.db) /\ out.ok /\ out.db.verdict = db.verdict /\ out.db.order[f.pack] = f.items
  BY <1>2, ReorderLeaves DEF TabInv
<1>4. g \in Frames /\ g.kind = f.kind /\ g.wait = {"select", "patch"} /\ g.step = "pair"
      /\ g.target = f.target /\ g.cand = f.cand /\ g.pack = f.pack
      /\ g.items = f.items /\ g.ticked = f.ticked /\ g.got = f.got
  BY <1>1 DEF Frames, Steps, Waits
<1>5. GoodFrame(g)
  <2> HIDE DEF g
  <2> QED BY <1>1, <1>2, <1>4, ContentAssumption
          DEF GoodFrame, Shape, Ordered, Acquiring, Reviewing, Decisions, Imports
<1> HIDE DEF out, g
<1>6. TabInv'
  BY <1>1, <1>3, <1>5, CallTab DEF TabInv, TypeOK
<1>7. Onward(h)
  BY <1>1, <1>3, <1>4, <1>5 DEF Onward, Call, Closed, Follows
<1> QED
  BY <1>1, <1>2, <1>3, <1>6, <1>7 DEF Call, history, bounds

LEMMA PairTab ==
  ASSUME TabInv, NEW h \in Slots, NEW r \in {"select", "patch"}, NEW out, GoodDb(out.db),
         Pair(h, r, out)
  PROVE  /\ TabInv' /\ UNCHANGED <<screen, history, bounds>> /\ db' = out.db
         /\ running[h].step = "pair" /\ Onward(h)
<1> DEFINE f == running[h]
           wait == Settled(h, r, {})
           step == IF f.wait = {r} THEN "reread" ELSE "pair"
           g == [f EXCEPT !.wait = wait, !.step = step]
<1>1. /\ f \in Frames /\ Shape(f) /\ f.step = "pair" /\ f # None /\ r \in f.wait
  BY FrameOf DEF Pair, GoodFrame
<1>2. /\ IF f.kind = "orphan" THEN Done(h) ELSE Go(h, g)
      /\ db' = out.db /\ UNCHANGED <<screen, history, bounds>>
  BY DEF Pair
<1>3. wait = f.wait \ {r} /\ wait \subseteq {"select", "patch"} /\ step \in {"reread", "pair"}
      /\ f.wait \subseteq Waits /\ (step = "reread" => wait = {})
  <2>1. wait = f.wait \ {r} /\ f.wait \subseteq Waits /\ (step = "reread" => wait = {})
    BY <1>1 DEF Settled, Frames
  <2>2. f.wait \cap {"open", "openGot", "list", "listGot"} = {}
    BY <1>1 DEF Shape
  <2> QED BY <2>1, <2>2 DEF Waits
<1>4. g \in Frames /\ g.kind = f.kind /\ g.wait = wait /\ g.step = step
      /\ g.target = f.target /\ g.cand = f.cand /\ g.pack = f.pack
      /\ g.items = f.items /\ g.ticked = f.ticked /\ g.got = f.got
  <2> HIDE DEF wait, step
  <2> QED BY <1>1, <1>3 DEF Frames, Steps, Waits
<1>5. f.kind # "orphan" => GoodFrame(g)
  <2> HIDE DEF g, wait, step
  <2> QED BY <1>1, <1>3, <1>4, ContentAssumption
          DEF GoodFrame, Shape, Ordered, Acquiring, Reviewing, Decisions, Imports
<1>6. Onward(h)
  <2> HIDE DEF g, wait, step
  <2> QED BY <1>1, <1>2, <1>3, <1>4, <1>5 DEF Onward, Closed, Follows
<1> QED
  BY <1>1, <1>2, <1>6, OnwardContinues, QuietTab DEF TabInv

LEMMA SelectionTab ==
  ASSUME TabInv, NEW h \in Slots, PutSelection(h) \/ PatchPack(h)
  PROVE  /\ TabInv' /\ UNCHANGED <<screen, history, bounds>>
         /\ db'.verdict = db.verdict /\ db'.order = db.order
         /\ running[h].step = "pair" /\ running[h] # None /\ Onward(h)
<1>1. CASE PatchPack(h)
  <2> DEFINE out == [ok |-> TRUE, db |-> db]
  <2>1. GoodDb(out.db) /\ out.db = db
    BY DEF TabInv
  <2>2. Pair(h, "patch", out) /\ running[h] # None
    BY <1>1 DEF PatchPack, Pair
  <2> HIDE DEF out
  <2> QED BY <2>1, <2>2, PairTab
<1>2. CASE PutSelection(h)
  <2> DEFINE out == set_pack_selection(db, running[h].pack, positions(running[h]))
  <2>1. running[h] # None /\ Pair(h, "select", out)
    BY <1>2 DEF PutSelection
  <2>2. running[h].step = "pair" /\ running[h].pack \in Candidates
    BY <2>1, FrameOf DEF Pair, GoodFrame, Shape, Ordered, Frames
  <2>3. GoodDb(out.db) /\ out.db.verdict = db.verdict /\ out.db.order = db.order
    BY <2>2, SelectionLeaves DEF TabInv
  <2> HIDE DEF out
  <2> QED BY <2>1, <2>3, PairTab
<1> QED
  BY <1>1, <1>2

LEMMA PackRead ==
  ASSUME TabInv, NEW c \in Candidates
  PROVE  LET p == ReadPack(c) IN
         p \in Packs /\ p.id = c /\ Content(p.id, p.items, p.ticked) /\ p # None
BY PackAssumption DEF TabInv, GoodDb, Databases, ReadPack, Packs

LEMMA ReadBackTab ==
  ASSUME TabInv, NEW h \in Slots, ReadBack(h)
  PROVE  /\ TabInv' /\ UNCHANGED <<db, screen, history, bounds>> /\ running[h] # None /\ Onward(h)
<1> DEFINE f == running[h]
           p == ReadPack(f.pack)
           step == IF f.step = "reread" THEN "saved" ELSE "polled"
           g == [f EXCEPT !.got = p, !.step = step]
<1>1. /\ f \in Frames /\ Shape(f) /\ f.step \in {"reread", "poll"} /\ f # None /\ Go(h, g)
      /\ UNCHANGED <<db, screen, history, bounds>>
  BY FrameOf DEF ReadBack, GoodFrame
<1>2. f.pack \in Candidates
  BY <1>1 DEF Shape, Ordered, Acquiring, Frames
<1>3. p \in Packs /\ p.id = f.pack /\ Content(p.id, p.items, p.ticked) /\ p # None
  BY <1>2, PackRead
<1>4. \/ f.step = "reread" /\ step = "saved"
      \/ f.step = "poll" /\ step = "polled"
  <2>1. CASE f.step = "reread"
    BY <2>1
  <2>2. CASE f.step = "poll"
    BY <2>2
  <2> QED BY <1>1, <2>1, <2>2
<1>5. g \in Frames /\ g.kind = f.kind /\ g.wait = f.wait /\ g.step = step
      /\ g.target = f.target /\ g.cand = f.cand /\ g.pack = f.pack
      /\ g.items = f.items /\ g.ticked = f.ticked /\ g.got = p /\ g.seen = f.seen
  <2> HIDE DEF p, step
  <2> QED BY <1>1, <1>3, <1>4 DEF Frames, Steps
<1> HIDE DEF g, p, step
<1>6. GoodFrame(g)
  BY <1>1, <1>2, <1>3, <1>4, <1>5, ContentAssumption
  DEF GoodFrame, Shape, Ordered, Acquiring, Reviewing, Decisions, Imports
<1>7. Onward(h)
  BY <1>1, <1>4, <1>5, <1>6 DEF Onward, Closed, Follows
<1> QED
  BY <1>1, <1>7, OnwardContinues, QuietTab DEF TabInv

\* The page after a read of the handler's own pack.
LEMMA ShowsOwnPack ==
  ASSUME TabInv, NEW h \in Slots, running[h] # None,
         running[h].step \in {"saved", "polled"}
  PROVE  LET shown == applyPack(screen, running[h].got) IN
         /\ GoodScreen(shown) /\ shown.cand = screen.cand /\ shown.pack = running[h].pack
         /\ shown.busy = screen.busy /\ shown.dedupe = screen.dedupe
         /\ shown.notice = screen.notice
<1>1. /\ running[h].got \in Packs /\ running[h].got.id = running[h].pack
      /\ Content(running[h].got.id, running[h].got.items, running[h].got.ticked)
  BY FrameOf DEF GoodFrame, Frames, Shape
<1> QED
  BY <1>1, ShowsPack DEF TabInv

LEMMA AfterSaveTab ==
  ASSUME TabInv, NEW h \in Slots, AfterSave(h)
  PROVE  /\ TabInv' /\ UNCHANGED <<db, history, bounds>> /\ running[h] # None /\ Onward(h)
         /\ running[h].step = "saved" /\ running[h].kind \in Reviewing
         /\ screen'.cand = screen.cand /\ screen'.pack = running[h].pack
         /\ screen'.dedupe = screen.dedupe
         /\ Done(h) \/ screen'.busy = screen.busy
         /\ screen'.notice \in {screen.notice, <<"error", None>>, <<"save", running[h].target>>}
<1> DEFINE f == running[h]
           shown == applyPack(screen, f.got)
           step == IF f.kind = "acquire" THEN "queue" ELSE "decide"
           g == [f EXCEPT !.got = None, !.step = step]
<1>1. /\ f \in Frames /\ Shape(f) /\ f.step = "saved" /\ f # None
      /\ UNCHANGED <<db, history, bounds>>
  BY FrameOf DEF AfterSave, GoodFrame
<1>2. f.kind \in Reviewing /\ f.wait \subseteq Waits
  BY <1>1 DEF Shape, Ordered, Frames
<1>9. {} \in SUBSET f.wait
  OBVIOUS
<1>3. /\ GoodScreen(shown) /\ shown.cand = screen.cand /\ shown.pack = f.pack
      /\ shown.busy = screen.busy /\ shown.dedupe = screen.dedupe
      /\ shown.notice = screen.notice
  BY <1>1, ShowsOwnPack
<1>4. g \in Frames /\ g.kind = f.kind /\ g.wait = f.wait /\ g.step = step
      /\ g.target = f.target /\ g.cand = f.cand /\ g.pack = f.pack
      /\ g.items = f.items /\ g.ticked = f.ticked /\ g.got = None /\ g.seen = f.seen
  <2>1. step \in Steps
    BY DEF Steps
  <2> HIDE DEF step
  <2> QED BY <1>1, <2>1 DEF Frames
<1>5. \/ f.kind = "save" /\ Finish(h, shown)
      \/ Throw(h, shown, {})
      \/ f.kind # "save" /\ screen' = shown /\ Go(h, g)
  BY DEF AfterSave
<1>6. CASE f.kind = "save" /\ Finish(h, shown)
  <2>1. Done(h) /\ GoodScreen(screen') /\ screen'.cand = shown.cand /\ screen'.pack = shown.pack
        /\ screen'.dedupe = shown.dedupe /\ screen'.notice = <<"save", f.target>>
    BY <1>1, <1>3, <1>6, FinishTab
  <2> QED BY <1>1, <1>2, <1>3, <2>1, QuietTab DEF TabInv, Onward, Continues
<1>7. CASE Throw(h, shown, {})
  <2>1. Done(h)
    BY <1>7 DEF Throw
  <2>2. GoodScreen(screen') /\ screen'.cand = shown.cand /\ screen'.pack = shown.pack
        /\ screen'.dedupe = shown.dedupe /\ screen'.notice \in {shown.notice, <<"error", None>>}
    <3> HIDE DEF shown
    <3> QED BY <1>1, <1>3, <1>7, <1>9, ThrowTab
  <2> QED BY <1>1, <1>2, <1>3, <2>1, <2>2, QuietTab DEF TabInv, Onward, Continues
<1>8. CASE f.kind # "save" /\ screen' = shown /\ Go(h, g)
  <2>1. \/ f.kind = "acquire" /\ step = "queue"
        \/ f.kind \in Decisions /\ step = "decide"
    <3>1. CASE f.kind = "acquire"
      BY <3>1
    <3>2. CASE f.kind # "acquire"
      BY <1>2, <1>8, <3>2 DEF Reviewing
    <3> QED BY <3>1, <3>2
  <2> HIDE DEF g, step
  <2>2. GoodFrame(g)
    BY <1>1, <1>2, <1>4, <2>1, ContentAssumption
    DEF GoodFrame, Shape, Ordered, Acquiring, Reviewing, Decisions, Imports
  <2>3. Onward(h)
    BY <1>1, <1>4, <1>8, <2>1, <2>2 DEF Onward, Closed, Follows
  <2>4. TabInv'
    BY <1>1, <1>3, <1>8, <2>3, OnwardContinues, QuietTab DEF TabInv
  <2> QED BY <1>1, <1>2, <1>3, <1>8, <2>3, <2>4
<1> QED
  BY <1>5, <1>6, <1>7, <1>8

LEMMA QueueTab ==
  ASSUME TabInv, NEW h \in Slots, QueueAcquisition(h)
  PROVE  /\ TabInv' /\ UNCHANGED <<history, bounds>> /\ running[h] # None /\ Onward(h)
         /\ db'.verdict = db.verdict /\ db'.order = db.order
         /\ screen' = screen \/ /\ Done(h) /\ screen'.cand = screen.cand
                                /\ screen'.pack = screen.pack /\ screen'.dedupe = screen.dedupe
                                /\ screen'.notice \in {screen.notice, <<"error", None>>}
<1> DEFINE f == running[h]
           out == enqueue_selected_acquisition(db, f.pack)
           g == [f EXCEPT !.step = "poll"]
<1>1. /\ f \in Frames /\ Shape(f) /\ f.step = "queue" /\ f # None
      /\ Call(h, "queue", out, g, screen) /\ UNCHANGED surprises
  BY FrameOf DEF QueueAcquisition, GoodFrame, Call
<1>2. f.pack \in Candidates
  BY <1>1 DEF Shape, Ordered, Acquiring, Frames
<1>3. GoodDb(out.db) /\ out.db.verdict = db.verdict /\ out.db.order = db.order
  BY <1>2, AcquisitionLeaves DEF TabInv
<1>4. g \in Frames /\ g.kind = f.kind /\ g.wait = f.wait /\ g.step = "poll"
      /\ g.target = f.target /\ g.cand = f.cand /\ g.pack = f.pack
      /\ g.items = f.items /\ g.ticked = f.ticked /\ g.got = f.got /\ g.seen = f.seen
  BY <1>1 DEF Frames, Steps
<1> HIDE DEF out, g
<1>5. GoodFrame(g)
  BY <1>1, <1>4 DEF GoodFrame, Shape, Ordered, Acquiring, Reviewing, Decisions, Imports
<1>6. /\ TabInv'
      /\ ~out.ok => /\ Done(h) /\ screen'.cand = screen.cand
                    /\ screen'.pack = screen.pack /\ screen'.dedupe = screen.dedupe
                    /\ screen'.notice \in {screen.notice, <<"error", None>>}
  BY <1>1, <1>3, <1>5, CallTab DEF TabInv, TypeOK
<1>7. out.ok => Go(h, g) /\ screen' = screen
  BY <1>1 DEF Call
<1>8. Onward(h)
  BY <1>1, <1>4, <1>5, <1>6, <1>7 DEF Onward, Closed, Follows
<1>9. UNCHANGED <<history, bounds>> /\ db' = out.db
  BY <1>1 DEF Call, history, bounds
<1> QED
  BY <1>1, <1>3, <1>6, <1>7, <1>8, <1>9

LEMMA PollTab ==
  ASSUME TabInv, NEW h \in Slots, waitForAcquisition(h)
  PROVE  /\ TabInv' /\ UNCHANGED <<db, history, bounds>> /\ running[h] # None /\ Onward(h)
         /\ running[h].step = "polled" /\ running[h].kind = "acquire"
         /\ screen'.cand = screen.cand /\ screen'.pack = running[h].pack
         /\ screen'.dedupe = screen.dedupe
         /\ screen'.notice \in {screen.notice, <<"error", None>>}
<1> DEFINE f == running[h]
           shown == applyPack(screen, f.got)
           g == [f EXCEPT !.got = None, !.step = "trio"]
           n == f.tries + 1
           k == [f EXCEPT !.got = None, !.step = "poll", !.tries = n]
<1>1. /\ f \in Frames /\ Shape(f) /\ f.step = "polled" /\ f # None
      /\ UNCHANGED <<db, history, bounds>>
  BY FrameOf DEF waitForAcquisition, GoodFrame
<1>2. f.kind = "acquire"
  BY <1>1 DEF Shape, Acquiring
<1>9. {} \in SUBSET f.wait
  OBVIOUS
<1>3. /\ GoodScreen(shown) /\ shown.cand = screen.cand /\ shown.pack = f.pack
      /\ shown.busy = screen.busy /\ shown.dedupe = screen.dedupe
      /\ shown.notice = screen.notice
  BY <1>1, ShowsOwnPack
<1>4. g \in Frames /\ g.kind = f.kind /\ g.wait = f.wait /\ g.step = "trio"
      /\ g.target = f.target /\ g.cand = f.cand /\ g.pack = f.pack
      /\ g.items = f.items /\ g.ticked = f.ticked /\ g.got = None /\ g.seen = f.seen
  BY <1>1 DEF Frames, Steps
<1>5. k \in Frames /\ k.kind = f.kind /\ k.wait = f.wait /\ k.step = "poll"
      /\ k.target = f.target /\ k.cand = f.cand /\ k.pack = f.pack
      /\ k.items = f.items /\ k.ticked = f.ticked /\ k.got = None /\ k.seen = f.seen
  <2>1. n \in Nat
    BY <1>1 DEF Frames
  <2> HIDE DEF n
  <2> QED BY <1>1, <2>1 DEF Frames, Steps
<1>6. \/ Throw(h, shown, {})
      \/ screen' = shown /\ (Go(h, g) \/ Go(h, k))
  BY DEF waitForAcquisition
<1>7. CASE Throw(h, shown, {})
  <2>1. Done(h)
    BY <1>7 DEF Throw
  <2>2. GoodScreen(screen') /\ screen'.cand = shown.cand /\ screen'.pack = shown.pack
        /\ screen'.dedupe = shown.dedupe /\ screen'.notice \in {shown.notice, <<"error", None>>}
    <3> HIDE DEF shown
    <3> QED BY <1>1, <1>3, <1>7, <1>9, ThrowTab
  <2> QED BY <1>1, <1>2, <1>3, <2>1, <2>2, QuietTab DEF TabInv, Onward, Continues
<1>8. CASE screen' = shown /\ (Go(h, g) \/ Go(h, k))
  <2> HIDE DEF g, k
  <2>1. GoodFrame(g) /\ GoodFrame(k)
    BY <1>1, <1>2, <1>4, <1>5, ContentAssumption
    DEF GoodFrame, Shape, Ordered, Acquiring, Reviewing, Decisions, Imports
  <2>2. Onward(h)
    BY <1>1, <1>4, <1>5, <1>8, <2>1 DEF Onward, Closed, Follows
  <2>3. TabInv'
    BY <1>1, <1>3, <1>8, <2>2, OnwardContinues, QuietTab DEF TabInv
  <2> QED BY <1>1, <1>2, <1>3, <1>8, <2>2, <2>3
<1> QED
  BY <1>6, <1>7, <1>8

LEMMA DecisionTab ==
  ASSUME TabInv, NEW h \in Slots, PostDecision(h)
  PROVE  /\ TabInv' /\ UNCHANGED <<overlapped, bounds>> /\ running[h] # None /\ Onward(h)
         /\ running[h].step = "decide" /\ running[h].kind \in Decisions
         /\ running[h].target \in Candidates /\ running[h].target = running[h].cand
         /\ db'.order = db.order
         /\ \/ db'.verdict = db.verdict
            \/ /\ db.verdict[running[h].target] = "PENDING_APPROVAL"
               /\ \E v \in {"READY", "REJECTED"} :
                    db'.verdict = [db.verdict EXCEPT ![running[h].target] = v]
         /\ \/ Done(h)
            \/ /\ running[h].kind = "approve" => db'.verdict[running[h].target] = "READY"
               /\ running[h].kind = "reject" => db'.verdict[running[h].target] = "REJECTED"
         /\ surprises' # surprises => Chosen(db, running[h].cand, positions(running[h])) # running[h].ticked
         /\ screen'.cand = screen.cand /\ screen'.pack = screen.pack
         /\ screen'.dedupe = screen.dedupe
         /\ screen'.notice \in {screen.notice, <<"error", None>>, <<"none", None>>}
<1> DEFINE f == running[h]
           out == decide_candidate(db, f.cand, f.kind, positions(f))
           wait == {"open", "list"}
           g == [f EXCEPT !.step = "after", !.wait = wait]
<1>1. /\ f \in Frames /\ Shape(f) /\ f.step = "decide" /\ f # None
      /\ Call(h, "decide", out, g, opening(screen))
  BY FrameOf DEF PostDecision, GoodFrame, Call
<1>2. f.kind \in Decisions /\ f.target \in Candidates /\ f.target = f.cand
  BY <1>1 DEF Shape, Frames, Reviewing
<1>3. surprises' = IF out.db.verdict # db.verdict /\ f.kind = "approve"
                      /\ out.db.picked[f.cand] # f.ticked
                   THEN surprises \cup {f.cand} ELSE surprises
  BY DEF PostDecision
<1>4. LET final == IF f.kind = "approve" THEN "READY" ELSE "REJECTED" IN
      /\ GoodDb(out.db) /\ out.db.order = db.order
      /\ out.db.verdict = db.verdict
         \/ /\ db.verdict[f.cand] = "PENDING_APPROVAL"
            /\ out.db.verdict = [db.verdict EXCEPT ![f.cand] = final]
            /\ f.kind = "approve" => out.db.picked[f.cand] = Chosen(db, f.cand, positions(f))
      /\ out.ok /\ f.kind # "defer" => out.db.verdict[f.cand] = final
  <2> HIDE DEF f
  <2> QED BY <1>2, DecisionLeaves DEF TabInv
<1>5. wait \in SUBSET Waits
  BY DEF Waits
<1>6. g \in Frames /\ g.kind = f.kind /\ g.wait = wait /\ g.step = "after"
      /\ g.target = f.target /\ g.cand = f.cand /\ g.pack = f.pack
      /\ g.items = f.items /\ g.ticked = f.ticked /\ g.got = f.got /\ g.seen = f.seen
  <2> HIDE DEF wait
  <2> QED BY <1>1, <1>5 DEF Frames, Steps
<1>7. GoodFrame(g)
  <2> HIDE DEF g
  <2> QED BY <1>1, <1>2, <1>6, ContentAssumption
          DEF GoodFrame, Shape, Ordered, Acquiring, Reviewing, Decisions, Imports
<1> HIDE DEF out, g
<1>8. /\ GoodScreen(opening(screen)) /\ opening(screen).cand = screen.cand
      /\ opening(screen).pack = screen.pack /\ opening(screen).dedupe = screen.dedupe
      /\ opening(screen).notice = <<"none", None>>
  BY ShowsOpening DEF TabInv
<1>9. /\ TabInv'
      /\ ~out.ok => /\ Done(h) /\ screen'.cand = screen.cand
                    /\ screen'.pack = screen.pack /\ screen'.dedupe = screen.dedupe
                    /\ screen'.notice \in {screen.notice, <<"error", None>>}
  <2>1. surprises' \subseteq Candidates
    BY <1>2, <1>3 DEF TabInv, TypeOK
  <2> QED BY <1>1, <1>4, <1>7, <1>8, <2>1, CallTab
<1>10. (out.ok => Go(h, g) /\ screen' = opening(screen)) /\ db' = out.db
       /\ UNCHANGED <<overlapped, bounds>>
  BY <1>1 DEF Call
<1>11. Onward(h)
  BY <1>1, <1>6, <1>7, <1>9, <1>10 DEF Onward, Closed, Follows
<1>12. surprises' # surprises => Chosen(db, f.cand, positions(f)) # f.ticked
  BY <1>3, <1>4
<1>13. out.ok => /\ f.kind = "approve" => db'.verdict[f.target] = "READY"
                 /\ f.kind = "reject" => db'.verdict[f.target] = "REJECTED"
  BY <1>2, <1>4, <1>10
<1>14. \/ db'.verdict = db.verdict
       \/ /\ db.verdict[f.target] = "PENDING_APPROVAL"
          /\ \E v \in {"READY", "REJECTED"} : db'.verdict = [db.verdict EXCEPT ![f.target] = v]
  BY <1>2, <1>4, <1>10
<1> QED
  BY <1>1, <1>2, <1>4, <1>8, <1>9, <1>10, <1>11, <1>12, <1>13, <1>14

LEMMA ImportTab ==
  ASSUME TabInv, NEW h \in Slots, PostImport(h)
  PROVE  /\ TabInv' /\ UNCHANGED <<history, bounds>> /\ running[h] # None /\ Onward(h)
         /\ running[h].step = "import" /\ running[h].kind \in Imports
         /\ running[h].target \in Candidates
         /\ db'.order = db.order /\ db'.verdict[running[h].target] # "ABSENT"
         /\ \/ db'.verdict = db.verdict
            \/ /\ db.verdict[running[h].target] = "ABSENT"
               /\ db'.verdict = [db.verdict EXCEPT ![running[h].target] = "PENDING_APPROVAL"]
         /\ screen'.cand = screen.cand /\ screen'.pack = screen.pack
         /\ screen'.dedupe = screen.dedupe
         /\ screen'.notice \in {screen.notice, <<"none", None>>}
<1> DEFINE f == running[h]
           d == IF db.verdict[f.target] # "ABSENT" THEN db
                ELSE [db EXCEPT !.verdict[f.target] = "PENDING_APPROVAL"]
           out == [ok |-> TRUE, db |-> d]
           wait == IF f.kind = "upload" THEN {"list"} ELSE {"open", "list"}
           g == [f EXCEPT !.step = "after", !.wait = wait]
           shown == IF f.kind = "upload" THEN screen ELSE opening(screen)
<1>1. /\ f \in Frames /\ Shape(f) /\ f.step = "import" /\ f # None
      /\ Call(h, "import", out, g, shown) /\ UNCHANGED surprises
  BY FrameOf DEF PostImport, GoodFrame, Call
<1>2. f.kind \in Imports /\ f.target \in Candidates
  BY <1>1 DEF Shape, Frames
<1>3. /\ GoodDb(d) /\ d.order = db.order /\ d.verdict[f.target] # "ABSENT"
      /\ \/ d.verdict = db.verdict
         \/ /\ db.verdict[f.target] = "ABSENT"
            /\ d.verdict = [db.verdict EXCEPT ![f.target] = "PENDING_APPROVAL"]
  <2> DEFINE e == [db EXCEPT !.verdict[f.target] = "PENDING_APPROVAL"]
  <2>1. /\ e \in Databases /\ e.order = db.order /\ e.picked = db.picked
        /\ e.verdict = [db.verdict EXCEPT ![f.target] = "PENDING_APPROVAL"]
        /\ e.verdict[f.target] = "PENDING_APPROVAL"
    <3>1. db \in Databases /\ "PENDING_APPROVAL" \in Verdicts
      BY DEF TabInv, GoodDb, Verdicts
    <3> HIDE DEF f
    <3> QED BY <1>2, <3>1 DEF Databases
  <2>2. GoodDb(db)
    BY DEF TabInv
  <2>3. d = IF db.verdict[f.target] # "ABSENT" THEN db ELSE e
    OBVIOUS
  <2> HIDE DEF d, e, f
  <2> QED BY <2>1, <2>2, <2>3 DEF GoodDb
<1>4. wait \in SUBSET Waits /\ wait \in {{"list"}, {"open", "list"}}
  BY DEF Waits
<1>5. g \in Frames /\ g.kind = f.kind /\ g.wait = wait /\ g.step = "after"
      /\ g.target = f.target /\ g.cand = f.cand /\ g.pack = f.pack
      /\ g.items = f.items /\ g.ticked = f.ticked /\ g.got = f.got /\ g.seen = f.seen
  <2> HIDE DEF wait
  <2> QED BY <1>1, <1>4 DEF Frames, Steps
<1>6. GoodFrame(g)
  <2> HIDE DEF g, wait
  <2> QED BY <1>1, <1>2, <1>4, <1>5, ContentAssumption
          DEF GoodFrame, Shape, Ordered, Acquiring, Reviewing, Decisions, Imports
<1>7. /\ GoodScreen(shown) /\ shown.cand = screen.cand /\ shown.pack = screen.pack
      /\ shown.dedupe = screen.dedupe /\ shown.notice \in {screen.notice, <<"none", None>>}
  BY ShowsOpening DEF TabInv
<1>8. out.ok = TRUE /\ out.db = d
  OBVIOUS
<1> HIDE DEF out, g, shown, d
<1>9. TabInv'
  <2>1. surprises' \subseteq Candidates
    BY <1>1 DEF TabInv, TypeOK
  <2> QED BY <1>1, <1>3, <1>6, <1>7, <1>8, <2>1, CallTab
<1>10. Go(h, g) /\ screen' = shown /\ db' = d /\ UNCHANGED <<history, bounds>>
  BY <1>1, <1>8 DEF Call, history
<1>11. Onward(h)
  BY <1>1, <1>5, <1>6, <1>10 DEF Onward, Closed, Follows
<1> QED
  BY <1>1, <1>2, <1>3, <1>7, <1>9, <1>10, <1>11

LEMMA ClassifyTab ==
  ASSUME TabInv, NEW h \in Slots, classifyDuplicate(h)
  PROVE  /\ TabInv' /\ UNCHANGED <<db, history, bounds>> /\ running[h] # None /\ Done(h)
         /\ running[h].kind = "dedupe" /\ running[h].target = running[h].cand
         /\ screen'.cand = screen.cand /\ screen'.pack = screen.pack
         /\ screen'.dedupe = running[h].cand /\ screen'.notice = screen.notice
<1>1. /\ running[h] \in Frames /\ Shape(running[h]) /\ running[h].step = "classify"
      /\ running[h] # None /\ Done(h) /\ UNCHANGED <<db, history, bounds>>
      /\ screen' = [screen EXCEPT !.dedupe = running[h].target, !.busy = None]
  BY FrameOf DEF classifyDuplicate, GoodFrame
<1>2. running[h].kind = "dedupe" /\ running[h].target = running[h].cand
      /\ running[h].target \in Candidates
  BY <1>1 DEF Shape, Frames
<1>3. /\ GoodScreen(screen') /\ screen'.cand = screen.cand /\ screen'.pack = screen.pack
      /\ screen'.dedupe = running[h].cand /\ screen'.notice = screen.notice
  BY <1>1, <1>2 DEF TabInv, GoodScreen, Screens
<1> QED
  BY <1>1, <1>2, <1>3, QuietTab DEF TabInv, Continues

LEMMA ReadTab ==
  ASSUME TabInv, NEW h \in Slots, ReadOpen(h) \/ ReadList(h)
  PROVE  /\ TabInv' /\ UNCHANGED <<db, screen, history, bounds>> /\ running[h] # None /\ Onward(h)
         /\ running[h].step \in {"trio", "after"}
<1> DEFINE f == running[h]
<1>1. /\ f \in Frames /\ Shape(f) /\ f # None /\ f.wait \subseteq Waits
      /\ UNCHANGED <<db, screen, history, bounds>>
  BY FrameOf DEF ReadOpen, ReadList, GoodFrame, Frames
<1>2. CASE ReadOpen(h)
  <2> DEFINE p == ReadPack(f.target)
             wait == Settled(h, "open", {"openGot"})
             g == [f EXCEPT !.wait = wait, !.got = p]
  <2>1. "open" \in f.wait /\ Go(h, g)
    BY <1>2 DEF ReadOpen
  <2>2. f.step = "after" /\ f.target \in Candidates
    BY <1>1, <2>1 DEF Shape, Frames
  <2>3. p \in Packs /\ p.id = f.target /\ Content(p.id, p.items, p.ticked) /\ p # None
    BY <2>2, PackRead
  <2>4. wait = (f.wait \ {"open"}) \cup {"openGot"} /\ wait \subseteq Waits
    BY <1>1 DEF Settled, Waits
  <2>5. g \in Frames /\ g.kind = f.kind /\ g.wait = wait /\ g.step = f.step
        /\ g.target = f.target /\ g.cand = f.cand /\ g.pack = f.pack
        /\ g.items = f.items /\ g.ticked = f.ticked /\ g.got = p /\ g.seen = f.seen
    <3> HIDE DEF wait, p
    <3> QED BY <1>1, <2>3, <2>4 DEF Frames
  <2> HIDE DEF g, wait, p
  <2>6. GoodFrame(g)
    BY <1>1, <2>2, <2>3, <2>4, <2>5, ContentAssumption
    DEF GoodFrame, Shape, Ordered, Acquiring, Reviewing, Decisions, Imports
  <2>7. Onward(h)
    BY <2>1, <2>2, <2>5, <2>6 DEF Onward, Closed, Follows
  <2> QED BY <1>1, <2>2, <2>7, OnwardContinues, QuietTab DEF TabInv
<1>3. CASE ReadList(h)
  <2> DEFINE wait == IF f.step = "trio" THEN {"listGot"} ELSE Settled(h, "list", {"listGot"})
             seen == db.verdict
             g == [f EXCEPT !.wait = wait, !.step = "after", !.seen = seen]
  <2>1. ("list" \in f.wait \/ f.step = "trio") /\ Go(h, g)
    BY <1>3 DEF ReadList
  <2>2. f.step \in {"trio", "after"}
    BY <1>1, <2>1 DEF Shape
  <2>3. seen \in [Candidates -> Verdicts] /\ seen # None
    BY PackAssumption DEF TabInv, GoodDb, Databases
  <2>4. \/ f.step = "trio" /\ wait = {"listGot"}
        \/ f.step = "after" /\ wait = (f.wait \ {"list"}) \cup {"listGot"}
    BY <2>2 DEF Settled
  <2>5. wait \subseteq Waits
    <3> HIDE DEF wait
    <3> QED BY <1>1, <2>4 DEF Waits
  <2>6. g \in Frames /\ g.kind = f.kind /\ g.wait = wait /\ g.step = "after"
        /\ g.target = f.target /\ g.cand = f.cand /\ g.pack = f.pack
        /\ g.items = f.items /\ g.ticked = f.ticked /\ g.got = f.got /\ g.seen = seen
    <3> HIDE DEF wait, seen
    <3> QED BY <1>1, <2>3, <2>5 DEF Frames, Steps
  <2> HIDE DEF g, wait, seen
  <2>7. GoodFrame(g)
    BY <1>1, <2>3, <2>4, <2>6, ContentAssumption
    DEF GoodFrame, Shape, Ordered, Acquiring, Reviewing, Decisions, Imports
  <2>8. Onward(h)
    BY <2>1, <2>2, <2>6, <2>7 DEF Onward, Closed, Follows
  <2> QED BY <1>1, <2>2, <2>8, OnwardContinues, QuietTab DEF TabInv
<1> QED
  BY <1>2, <1>3

LEMMA ShowOpenTab ==
  ASSUME TabInv, NEW h \in Slots, ShowOpen(h)
  PROVE  /\ TabInv' /\ UNCHANGED <<db, history, bounds>> /\ running[h] # None /\ Onward(h)
         /\ running[h].step = "after"
         /\ screen'.cand = running[h].target /\ screen'.pack = running[h].target
         /\ screen'.dedupe = None
         /\ screen'.notice \in {screen.notice, <<running[h].kind, running[h].target>>}
<1> DEFINE f == running[h]
           base == applyPack(screen, f.got)
           shown == [base EXCEPT !.cand = f.target, !.dedupe = None, !.busy = None]
           left == Settled(h, "openGot", {})
           g == [f EXCEPT !.wait = left, !.got = None]
<1>1. /\ f \in Frames /\ Shape(f) /\ f # None /\ f.wait \subseteq Waits /\ "openGot" \in f.wait
      /\ UNCHANGED <<db, history, bounds>>
  BY FrameOf DEF ShowOpen, GoodFrame, Frames
<1>2. /\ f.step = "after" /\ f.target \in Candidates
      /\ f.got \in Packs /\ f.got.id = f.target /\ Content(f.got.id, f.got.items, f.got.ticked)
  BY <1>1 DEF Shape, Frames
<1>3. GoodScreen(base) /\ base.pack = f.target /\ base.notice = screen.notice
  BY <1>2, ShowsPack DEF TabInv
<1>4. /\ GoodScreen(shown) /\ shown.cand = f.target /\ shown.pack = f.target
      /\ shown.dedupe = None /\ shown.notice = screen.notice
  <2> HIDE DEF base
  <2> QED BY <1>2, <1>3 DEF GoodScreen, Screens
<1>5. \/ screen' = shown /\ (Done(h) \/ Go(h, g))
      \/ Finish(h, shown)
  BY DEF ShowOpen
<1>6. left \subseteq f.wait /\ left = f.wait \ {"openGot"}
  BY DEF Settled
<1>7. g \in Frames /\ g.kind = f.kind /\ g.wait = left /\ g.step = f.step
      /\ g.target = f.target /\ g.cand = f.cand /\ g.pack = f.pack
      /\ g.items = f.items /\ g.ticked = f.ticked /\ g.got = None /\ g.seen = f.seen
  <2> HIDE DEF left
  <2> QED BY <1>1, <1>6 DEF Frames
<1> HIDE DEF g, left, shown
<1>8. GoodFrame(g)
  BY <1>1, <1>2, <1>6, <1>7, ContentAssumption
  DEF GoodFrame, Shape, Ordered, Acquiring, Reviewing, Decisions, Imports
<1>9. CASE screen' = shown /\ (Done(h) \/ Go(h, g))
  <2>1. Onward(h)
    BY <1>2, <1>7, <1>8, <1>9 DEF Onward, Closed, Follows
  <2> QED BY <1>1, <1>2, <1>4, <1>9, <2>1, OnwardContinues, QuietTab DEF TabInv
<1>10. CASE Finish(h, shown)
  <2>1. /\ Done(h) /\ GoodScreen(screen') /\ screen'.cand = shown.cand
        /\ screen'.pack = shown.pack /\ screen'.dedupe = shown.dedupe
        /\ screen'.notice = <<f.kind, f.target>>
    BY <1>1, <1>4, <1>10, FinishTab
  <2> QED BY <1>1, <1>2, <1>4, <2>1, QuietTab DEF TabInv, Onward, Continues
<1> QED
  BY <1>5, <1>9, <1>10

LEMMA ShowListTab ==
  ASSUME TabInv, NEW h \in Slots, ShowList(h)
  PROVE  /\ TabInv' /\ UNCHANGED <<db, history, bounds>> /\ running[h] # None /\ Onward(h)
         /\ running[h].step = "after"
         /\ screen'.cand = screen.cand
            \/ (running[h].kind = "acquire" /\ screen'.cand = running[h].cand)
         /\ screen'.pack = screen.pack /\ screen'.dedupe = screen.dedupe
         /\ screen'.notice \in {screen.notice, <<"none", None>>, <<"error", None>>,
                                <<running[h].kind, running[h].target>>}
<1> DEFINE f == running[h]
           cand == IF f.kind = "acquire" THEN f.cand ELSE screen.cand
           shown == [screen EXCEPT !.listed = f.seen, !.cand = cand]
           left == Settled(h, "listGot", {})
           g == [f EXCEPT !.wait = {"open"}, !.seen = None]
           k == [f EXCEPT !.wait = left, !.seen = None]
<1>1. /\ f \in Frames /\ Shape(f) /\ f # None /\ f.wait \subseteq Waits /\ "listGot" \in f.wait
      /\ UNCHANGED <<db, history, bounds>>
  BY FrameOf DEF ShowList, GoodFrame, Frames
<1>2. f.step = "after" /\ f.seen \in [Candidates -> Verdicts]
  BY <1>1 DEF Shape, Frames
<1>3. cand \in Candidates \cup {None}
      /\ (cand = screen.cand \/ (f.kind = "acquire" /\ cand = f.cand))
  BY <1>1 DEF TabInv, GoodScreen, Screens, Frames
<1>4. /\ GoodScreen(shown) /\ shown.cand = cand /\ shown.pack = screen.pack
      /\ shown.dedupe = screen.dedupe /\ shown.notice = screen.notice
  <2> HIDE DEF cand
  <2> QED BY <1>2, <1>3 DEF TabInv, GoodScreen, Screens
<1>5. \/ screen' = shown /\ (Done(h) \/ Go(h, k))
      \/ screen' = opening(shown) /\ Go(h, g) /\ f.kind = "upload"
      \/ Finish(h, shown)
      \/ Throw(h, shown, {})
  BY DEF ShowList
<1>6. left \subseteq f.wait /\ left = f.wait \ {"listGot"}
  BY DEF Settled
<1>11. {"open"} \subseteq Waits /\ {} \in SUBSET f.wait
  BY DEF Waits
<1>7. g \in Frames /\ g.kind = f.kind /\ g.wait = {"open"} /\ g.step = f.step
      /\ g.target = f.target /\ g.cand = f.cand /\ g.pack = f.pack
      /\ g.items = f.items /\ g.ticked = f.ticked /\ g.got = f.got /\ g.seen = None
  BY <1>1, <1>11 DEF Frames
<1>8. k \in Frames /\ k.kind = f.kind /\ k.wait = left /\ k.step = f.step
      /\ k.target = f.target /\ k.cand = f.cand /\ k.pack = f.pack
      /\ k.items = f.items /\ k.ticked = f.ticked /\ k.got = f.got /\ k.seen = None
  <2> HIDE DEF left
  <2> QED BY <1>1, <1>6 DEF Frames
<1> HIDE DEF g, k, left, shown, cand
<1>9. GoodFrame(k) /\ (f.kind = "upload" => GoodFrame(g))
  BY <1>1, <1>2, <1>6, <1>7, <1>8, ContentAssumption
  DEF GoodFrame, Shape, Ordered, Acquiring, Reviewing, Decisions, Imports
<1>10. CASE screen' = shown /\ (Done(h) \/ Go(h, k))
  <2>1. Onward(h)
    BY <1>2, <1>8, <1>9, <1>10 DEF Onward, Closed, Follows
  <2> QED BY <1>1, <1>2, <1>3, <1>4, <1>10, <2>1, OnwardContinues, QuietTab DEF TabInv
<1>12. CASE screen' = opening(shown) /\ Go(h, g) /\ f.kind = "upload"
  <2>1. Onward(h)
    BY <1>2, <1>7, <1>9, <1>12 DEF Onward, Closed, Follows
  <2>2. /\ GoodScreen(screen') /\ screen'.cand = shown.cand /\ screen'.pack = shown.pack
        /\ screen'.dedupe = shown.dedupe /\ screen'.notice = <<"none", None>>
    BY <1>4, <1>12, ShowsOpening
  <2> QED BY <1>1, <1>2, <1>3, <1>4, <2>1, <2>2, OnwardContinues, QuietTab DEF TabInv
<1>13. CASE Finish(h, shown)
  <2>1. /\ Done(h) /\ GoodScreen(screen') /\ screen'.cand = shown.cand
        /\ screen'.pack = shown.pack /\ screen'.dedupe = shown.dedupe
        /\ screen'.notice = <<f.kind, f.target>>
    BY <1>1, <1>4, <1>13, FinishTab
  <2> QED BY <1>1, <1>2, <1>3, <1>4, <2>1, QuietTab DEF TabInv, Onward, Continues
<1>14. CASE Throw(h, shown, {})
  <2>1. Done(h)
    BY <1>14 DEF Throw
  <2>2. GoodScreen(screen') /\ screen'.cand = shown.cand /\ screen'.pack = shown.pack
        /\ screen'.dedupe = shown.dedupe /\ screen'.notice \in {shown.notice, <<"error", None>>}
    BY <1>1, <1>4, <1>11, <1>14, ThrowTab
  <2> QED BY <1>1, <1>2, <1>3, <1>4, <2>1, <2>2, QuietTab DEF TabInv, Onward, Continues
<1> QED
  BY <1>5, <1>10, <1>12, <1>13, <1>14

LEMMA SettlesTab ==
  ASSUME TabInv, NEW i \in Items, AcquireMedia(i)
  PROVE  /\ TabInv' /\ UNCHANGED <<screen, running, history, bounds>>
         /\ db'.verdict = db.verdict /\ db'.order = db.order
<1>1. /\ db \in Databases /\ db.queued \in SUBSET Items /\ db.queued \ {i} \in SUBSET Items
      /\ db.failed \in SUBSET Items /\ db.ready \in SUBSET Items
      /\ db.failed \ {i} \in SUBSET Items /\ db.failed \cup {i} \in SUBSET Items
      /\ db.ready \cup {i} \in SUBSET Items
  BY DEF TabInv, GoodDb, Databases
<1>2. PICK failed, ready, queued \in SUBSET Items :
        db' = [db EXCEPT !.failed = failed, !.ready = ready, !.queued = queued]
  <2> DEFINE Left(f, r, q) == [db EXCEPT !.failed = f, !.ready = r, !.queued = q]
  <2>1. \/ db' = Left(db.failed, db.ready, db.queued \ {i})
        \/ db' = Left(db.failed \ {i}, db.ready, db.queued)
        \/ db' = Left(db.failed \ {i}, db.ready \cup {i}, db.queued \ {i})
        \/ \E q \in {db.queued, db.queued \ {i}} : db' = Left(db.failed \cup {i}, db.ready, q)
    BY <1>1 DEF AcquireMedia, Databases
  <2> QED BY <1>1, <2>1
<1>3. /\ db' \in Databases /\ db'.verdict = db.verdict /\ db'.order = db.order
      /\ db'.picked = db.picked
  BY <1>1, <1>2 DEF Databases
<1>4. UNCHANGED <<screen, running, history, bounds>>
  BY DEF AcquireMedia
<1> QED
  BY <1>3, <1>4 DEF TabInv, TypeOK, GoodDb, GoodScreen, history, bounds

\* What the rows are after a request that failed, whether it arrived or not.
LEMMA OutcomeLeaves ==
  ASSUME TabInv, NEW h \in Slots, running[h] # None, NEW r \in Outstanding(running[h])
  PROVE  LET d == Outcome(h, r) IN
         /\ GoodDb(d)
         /\ \/ d.verdict = db.verdict
            \/ /\ running[h].target \in Candidates /\ db.verdict[running[h].target] = "ABSENT"
               /\ d.verdict = [db.verdict EXCEPT ![running[h].target] = "PENDING_APPROVAL"]
<1> DEFINE f == running[h]
<1>1. f \in Frames /\ Shape(f) /\ GoodDb(db)
  BY FrameOf DEF TabInv, GoodFrame
<1>2. CASE r \in {"order", "select", "queue"}
  <2>1. f.pack \in Candidates
    BY <1>1, <1>2 DEF Outstanding, Shape, Ordered, Acquiring, Frames
  <2>2. CASE r = "order"
    <3>1. f.items \in Seq(Items) /\ Range(f.items) = Range(FirstOrder[f.pack])
      BY <1>1, <2>1, ContentAssumption DEF Shape, Content, Frames
    <3>2. Outcome(h, r) = reorder_pack(db, f.pack, f.items).db
      BY <2>2 DEF Outcome
    <3> QED BY <1>1, <2>1, <3>1, <3>2, ReorderLeaves
  <2>3. CASE r = "select"
    <3>1. Outcome(h, r) = set_pack_selection(db, f.pack, positions(f)).db
      BY <2>3 DEF Outcome
    <3> QED BY <1>1, <2>1, <3>1, SelectionLeaves
  <2>4. CASE r = "queue"
    <3>1. Outcome(h, r) = enqueue_selected_acquisition(db, f.pack).db
      BY <2>4 DEF Outcome
    <3> QED BY <1>1, <2>1, <3>1, AcquisitionLeaves
  <2> QED BY <1>2, <2>2, <2>3, <2>4
<1>3. CASE r = "import" /\ db.verdict[f.target] = "ABSENT"
  <2> DEFINE e == [db EXCEPT !.verdict[f.target] = "PENDING_APPROVAL"]
  <2>1. f.target \in Candidates
    BY <1>1, <1>3 DEF Outstanding, Shape, Frames
  <2>2. /\ e \in Databases /\ e.order = db.order /\ e.picked = db.picked
        /\ e.verdict = [db.verdict EXCEPT ![f.target] = "PENDING_APPROVAL"]
    <3>1. db \in Databases /\ "PENDING_APPROVAL" \in Verdicts
      BY <1>1 DEF GoodDb, Verdicts
    <3> HIDE DEF f
    <3> QED BY <2>1, <3>1 DEF Databases
  <2>3. Outcome(h, r) = e
    BY <1>3 DEF Outcome
  <2> HIDE DEF e
  <2> QED BY <1>1, <1>3, <2>1, <2>2, <2>3 DEF GoodDb
<1>4. CASE r \notin {"order", "select", "queue"} /\ ~(r = "import" /\ db.verdict[f.target] = "ABSENT")
  <2>1. Outcome(h, r) = db
    BY <1>4 DEF Outcome
  <2> QED BY <1>1, <2>1
<1> QED
  BY <1>2, <1>3, <1>4

\* A handler that threw leaves at most an unawaited call behind.
Orphaned(h) == \E left : Go(h, [running[h] EXCEPT !.kind = "orphan", !.wait = left])

LEMMA FailureTab ==
  ASSUME TabInv, NEW h \in Slots, RequestFails(h)
  PROVE  /\ TabInv' /\ UNCHANGED <<history, clicks, edits>> /\ running[h] # None
         /\ faults' = faults + 1
         /\ Done(h) \/ Orphaned(h) \/ (Onward(h) /\ running[h].step = "after")
         /\ \/ db'.verdict = db.verdict
            \/ /\ running[h].target \in Candidates /\ db.verdict[running[h].target] = "ABSENT"
               /\ db'.verdict = [db.verdict EXCEPT ![running[h].target] = "PENDING_APPROVAL"]
         /\ screen'.cand = screen.cand /\ screen'.pack = screen.pack
         /\ screen'.dedupe = screen.dedupe
         /\ \/ screen'.notice \in {screen.notice, <<"error", None>>}
            \/ /\ running[h].step = "after"
               /\ screen'.notice = <<running[h].kind, running[h].target>>
<1> DEFINE f == running[h]
<1>1. PICK r \in Outstanding(f) :
        /\ db' \in {db, Outcome(h, r)}
        /\ LET left == Settled(h, r, {}) IN
           IF f.kind = "orphan"
           THEN /\ Done(h)
                /\ screen' = IF r = "open" THEN fail(screen) ELSE screen
           ELSE IF r # "open" \/ f.kind = "open" THEN Throw(h, screen, left)
           ELSE IF left = {} THEN Finish(h, fail(screen))
           ELSE screen' = fail(screen) /\ Go(h, [f EXCEPT !.wait = left])
  BY DEF RequestFails
<1>2. /\ running[h] # None /\ UNCHANGED <<history, clicks, edits>> /\ faults' = faults + 1
      /\ f \in Frames /\ Shape(f) /\ f.wait \subseteq Waits
  BY FrameOf DEF RequestFails, GoodFrame, Frames
<1>3. /\ GoodDb(db')
      /\ \/ db'.verdict = db.verdict
         \/ /\ f.target \in Candidates /\ db.verdict[f.target] = "ABSENT"
            /\ db'.verdict = [db.verdict EXCEPT ![f.target] = "PENDING_APPROVAL"]
  BY <1>1, <1>2, OutcomeLeaves DEF TabInv
<1>4. TypeOK /\ GoodScreen(screen)
  BY DEF TabInv
<1> DEFINE left == Settled(h, r, {})
           g == [f EXCEPT !.wait = left]
<1>5. left \in SUBSET f.wait
  BY DEF Settled
<1>6. /\ GoodScreen(fail(screen)) /\ fail(screen).cand = screen.cand
      /\ fail(screen).pack = screen.pack /\ fail(screen).dedupe = screen.dedupe
      /\ fail(screen).notice = <<"error", None>>
  BY <1>4, ShowsFailure
<1>7. /\ Continues(h) /\ GoodScreen(screen')
      /\ Done(h) \/ Orphaned(h) \/ (Onward(h) /\ f.step = "after")
      /\ screen'.cand = screen.cand /\ screen'.pack = screen.pack
      /\ screen'.dedupe = screen.dedupe
      /\ \/ screen'.notice \in {screen.notice, <<"error", None>>}
         \/ f.step = "after" /\ screen'.notice = <<f.kind, f.target>>
  <2>1. CASE f.kind = "orphan"
    BY <1>1, <1>4, <1>6, <2>1 DEF Continues
  <2>2. CASE Throw(h, screen, left)
    <3> HIDE DEF left
    <3> QED BY <1>2, <1>4, <1>5, <2>2, ThrowTab DEF Orphaned
  <2>3. CASE r = "open" /\ f.kind # "orphan" /\ f.kind # "open"
    <3>1. f.step = "after"
      <4>1. "open" \in f.wait
        BY <2>3 DEF Outstanding
      <4> QED BY <1>2, <4>1 DEF Shape
    <3>2. CASE left = {} /\ Finish(h, fail(screen))
      <4>1. /\ Done(h) /\ GoodScreen(screen') /\ screen'.cand = fail(screen).cand
            /\ screen'.pack = fail(screen).pack /\ screen'.dedupe = fail(screen).dedupe
            /\ screen'.notice = <<f.kind, f.target>>
        BY <1>2, <1>6, <3>2, FinishTab
      <4> QED BY <1>6, <3>1, <4>1 DEF Continues
    <3>3. CASE screen' = fail(screen) /\ Go(h, g)
      <4>1. g \in Frames /\ g.kind = f.kind /\ g.wait = left /\ g.step = f.step
            /\ g.target = f.target /\ g.cand = f.cand /\ g.pack = f.pack
            /\ g.items = f.items /\ g.ticked = f.ticked /\ g.got = f.got /\ g.seen = f.seen
        <5> HIDE DEF left
        <5> QED BY <1>2, <1>5 DEF Frames
      <4> HIDE DEF g, left
      <4>2. GoodFrame(g)
        BY <1>2, <1>5, <3>1, <4>1
        DEF GoodFrame, Shape, Ordered, Acquiring, Reviewing, Decisions, Imports
      <4>3. Onward(h)
        BY <3>1, <3>3, <4>1, <4>2 DEF Onward, Closed, Follows
      <4> QED BY <1>6, <3>1, <3>3, <4>3, OnwardContinues
    <3> QED BY <1>1, <2>3, <3>2, <3>3
  <2> QED BY <1>1, <2>1, <2>2, <2>3
<1>8. TabInv'
  BY <1>2, <1>3, <1>4, <1>7, Keeps DEF Continues, TypeOK, history
<1> QED
  BY <1>2, <1>3, <1>7, <1>8

-----------------------------------------------------------------------------
(* Types and shapes: the page and its handlers together                    *)

LEMMA TabInit == Init => TabInv
<1> SUFFICES ASSUME Init PROVE TabInv
  OBVIOUS
<1>1. /\ db = [order |-> FirstOrder, picked |-> [c \in Candidates |-> Range(FirstOrder[c])],
               verdict |-> [c \in Candidates |->
                              IF c \in Present THEN "PENDING_APPROVAL" ELSE "ABSENT"],
               ready |-> {}, failed |-> {}, queued |-> {}, asked |-> {}]
      /\ screen = [cand |-> None, pack |-> None, items |-> <<>>, ticked |-> {},
                   listed |-> db.verdict, busy |-> None, notice |-> <<"none", None>>,
                   dedupe |-> None]
  BY DEF Init
<1>2. /\ [c \in Candidates |-> Range(FirstOrder[c])] \in [Candidates -> SUBSET Items]
      /\ db.verdict \in [Candidates -> Verdicts]
  BY <1>1 DEF Items, Verdicts
<1>3. GoodDb(db)
  <2>1. db \in Databases
    BY <1>1, <1>2, PackAssumption DEF Databases
  <2>2. \A c \in Candidates : Content(c, db.order[c], db.picked[c])
    BY <1>1 DEF Content
  <2> QED BY <2>1, <2>2 DEF GoodDb
<1>4. GoodScreen(screen)
  <2>1. <<>> \in Seq(Items) /\ Range(<<>>) = {}
    BY DEF Range
  <2>2. screen \in Screens
    BY <1>1, <1>2, <2>1 DEF Screens
  <2> QED BY <1>1, <2>1, <2>2 DEF GoodScreen, Content
<1> QED
  BY <1>3, <1>4 DEF Init, TabInv, TypeOK, GoodDb, GoodScreen

LEMMA TabStep == TabInv /\ [Next]_vars => TabInv'
<1> SUFFICES ASSUME TabInv, [Next]_vars PROVE TabInv'
  OBVIOUS
<1>1. ASSUME NEW h \in Slots, Click(h) PROVE TabInv'
  BY <1>1, ClickTab
<1>2. ASSUME NEW h \in Slots, Answer(h) PROVE TabInv'
  BY <1>2, OrderTab, SelectionTab, ReadBackTab, AfterSaveTab, DecisionTab, QueueTab, PollTab,
     ImportTab, ClassifyTab, ReadTab, ShowOpenTab, ShowListTab DEF Answer
<1>3. ASSUME NEW h \in Slots, RequestFails(h) PROVE TabInv'
  BY <1>3, FailureTab
<1>4. ASSUME \/ \E i \in Items : toggleItem(i)
             \/ \E k \in DOMAIN screen.items : moveItem(k)
      PROVE  TabInv'
  BY <1>4, EditTab
<1>5. ASSUME NEW i \in Items, AcquireMedia(i) PROVE TabInv'
  BY <1>5, SettlesTab
<1>6. CASE UNCHANGED vars
  BY <1>6 DEF vars, TabInv, TypeOK, GoodDb, GoodScreen
<1> QED
  BY <1>1, <1>2, <1>3, <1>4, <1>5, <1>6 DEF Next

(* The page's state, its rows and every handler's closure keep their type   *)
(* for any candidates, packs and number of handlers.                        *)
THEOREM ContentTypes == Spec => []TypeOK
<1>1. TabInv => TypeOK
  BY DEF TabInv
<1> QED
  BY <1>1, TabInit, TabStep, PTL DEF Spec

-----------------------------------------------------------------------------
(* A success notice is true                                                 *)

\* What a handler of this kind may announce, given the rows.
Told(kind, c, d) ==
  /\ kind = "approve" => d.verdict[c] = "READY"
  /\ kind = "reject" => d.verdict[c] = "REJECTED"
  /\ kind \in Imports => d.verdict[c] # "ABSENT"

\* A handler past its last write may announce it, whatever the others did.
VerdictInv ==
  /\ TabInv
  /\ Told(screen.notice[1], screen.notice[2], db)
  /\ \A h \in Slots : running[h] # None /\ running[h].step = "after"
                        => Told(running[h].kind, running[h].target, db)

\* A verdict once given stays; a candidate once imported stays.
Stands(d, e) ==
  \A c : /\ d.verdict[c] \in {"READY", "REJECTED"} => e.verdict[c] = d.verdict[c]
         /\ d.verdict[c] # "ABSENT" => e.verdict[c] # "ABSENT"

LEMMA ToldStands ==
  ASSUME NEW kind, NEW c, NEW d, NEW e, Stands(d, e), Told(kind, c, d)
  PROVE  Told(kind, c, e)
BY DEF Stands, Told

LEMMA FromStands ==
  ASSUME TabInv, NEW c \in Candidates, NEW old, NEW new \in Verdicts \ {"ABSENT"},
         old \in {"ABSENT", "PENDING_APPROVAL"}, db.verdict[c] = old,
         db'.verdict = [db.verdict EXCEPT ![c] = new]
  PROVE  Stands(db, db')
<1>1. db.verdict \in [Candidates -> Verdicts]
  BY DEF TabInv, GoodDb, Databases
<1>2. \A a : a # c => db'.verdict[a] = db.verdict[a]
  BY <1>1
<1>3. db'.verdict[c] = new
  BY <1>1
<1> QED
  BY <1>2, <1>3 DEF Stands

\* The notice and the closures after a step that leaves the verdicts standing.
LEMMA NoticesStand ==
  ASSUME VerdictInv, TabInv', Stands(db, db'), NEW h \in Slots,
         \A g \in Slots : g # h => running'[g] = running[g],
         Told(screen'.notice[1], screen'.notice[2], db'),
         running'[h] # None /\ running'[h].step = "after"
           => Told(running'[h].kind, running'[h].target, db')
  PROVE  VerdictInv'
<1>1. \A g \in Slots : g # h /\ running[g] # None /\ running[g].step = "after"
        => Told(running[g].kind, running[g].target, db')
  BY ToldStands DEF VerdictInv
<1> QED
  BY <1>1 DEF VerdictInv

\* Nothing is announced by these.
LEMMA Silent ==
  ASSUME NEW kind \in {"none", "error", "save", "orphan"}, NEW c, NEW d
  PROVE  Told(kind, c, d)
BY DEF Told, Imports

\* The frame a handler goes on with, and the others untouched.
LEMMA GoesTo ==
  ASSUME TabInv, NEW h \in Slots, NEW f, Go(h, f) \/ Done(h)
  PROVE  /\ \A g \in Slots : g # h => running'[g] = running[g]
         /\ Go(h, f) => running'[h] = f
         /\ Done(h) => running'[h] = None
BY DEF TabInv, TypeOK, Go, Done

\* A handler that goes on announces after the step what it announced before,
\* or what it has just written.
LEMMA OnwardTold ==
  ASSUME VerdictInv, NEW h \in Slots, running[h] # None, Onward(h), Stands(db, db'),
         running[h].step \in {"decide", "import"} =>
           Done(h) \/ Told(running[h].kind, running[h].target, db')
  PROVE  /\ \A g \in Slots : g # h => running'[g] = running[g]
         /\ running'[h] # None /\ running'[h].step = "after"
              => Told(running'[h].kind, running'[h].target, db')
<1>0. TabInv
  BY DEF VerdictInv
<1>1. CASE Done(h)
  BY <1>0, <1>1, GoesTo
<1>2. ASSUME NEW g, GoodFrame(g), Go(h, g), Closed(running[h], g),
             Follows(running[h].step, g.step), ~Done(h)
      PROVE  /\ \A i \in Slots : i # h => running'[i] = running[i]
             /\ running'[h].step = "after" => Told(running'[h].kind, running'[h].target, db')
  <2>1. running'[h] = g /\ \A i \in Slots : i # h => running'[i] = running[i]
    BY <1>0, <1>2, GoesTo
  <2>2. g.kind = running[h].kind /\ g.target = running[h].target
    BY <1>2 DEF Closed
  <2>3. g.step = "after" => running[h].step \in {"decide", "trio", "import", "after"}
    BY <1>2 DEF Follows
  <2>4. CASE running[h].step \in {"decide", "import"}
    BY <1>2, <2>1, <2>2, <2>4
  <2>5. CASE running[h].step = "trio"
    <3>1. running[h].kind = "acquire"
      BY <1>0, <2>5, FrameOf DEF GoodFrame, Shape, Acquiring
    <3> QED BY <2>1, <2>2, <3>1 DEF Told, Imports
  <2>6. CASE running[h].step = "after"
    <3>1. Told(running[h].kind, running[h].target, db')
      BY <2>6, ToldStands DEF VerdictInv
    <3> QED BY <2>1, <2>2, <3>1
  <2> QED BY <2>1, <2>3, <2>4, <2>5, <2>6
<1> QED
  BY <1>1, <1>2 DEF Onward

\* A click opens a closure over the page and leaves the page's contents.
Opens(h) ==
  /\ \E f : /\ Start(h, f) /\ f.cand = screen.cand /\ f.pack = screen.pack
            /\ f.step \in {"order", "import", "classify", "after"} /\ f.kind # "orphan"
            /\ f.step = "after" => f.kind \in {"open", "refresh"}
            /\ f.step \in {"order", "import"} => screen'.busy # None
  /\ screen'.cand = screen.cand /\ screen'.pack = screen.pack
  /\ screen'.dedupe = screen.dedupe
  /\ screen'.notice \in {screen.notice, <<"none", None>>}

LEMMA ClickLeaves ==
  ASSUME TabInv, NEW h \in Slots, Click(h)
  PROVE  Opens(h)
<1>1. screen \in Screens
  BY DEF TabInv, GoodScreen
<1>2. ASSUME NEW kind, NEW step, NEW target, NEW wait
      PROVE  LET f == Frame(kind, step, target, wait) IN
             f.cand = screen.cand /\ f.pack = screen.pack /\ f.step = step /\ f.kind = kind
  BY DEF Frame
<1>3. ASSUME NEW k \in Kinds
      PROVE  LET s == [screen EXCEPT !.busy = k, !.notice = <<"none", None>>] IN
             /\ s.cand = screen.cand /\ s.pack = screen.pack /\ s.dedupe = screen.dedupe
             /\ s.notice = <<"none", None>> /\ s.busy # None
  BY <1>1, PackAssumption DEF Screens
<1>4. ASSUME NEW c \in Candidates, ClickOpen(h, c) PROVE Opens(h)
  <2> DEFINE f == Frame("open", "after", c, {"open"})
  <2>1. Start(h, f) /\ screen' = opening(screen)
    BY <1>4 DEF ClickOpen
  <2>2. f.cand = screen.cand /\ f.pack = screen.pack /\ f.step = "after" /\ f.kind = "open"
    BY <1>2
  <2> HIDE DEF f
  <2> QED BY <2>1, <2>2, ShowsOpening DEF TabInv, Opens
<1>5. ASSUME NEW c \in Candidates, NEW k \in Imports, ClickImport(h, k, c) PROVE Opens(h)
  <2> DEFINE f == Frame(k, "import", c, {})
  <2>1. Start(h, f) /\ screen' = [screen EXCEPT !.busy = k, !.notice = <<"none", None>>]
    BY <1>5 DEF ClickImport
  <2>2. f.cand = screen.cand /\ f.pack = screen.pack /\ f.step = "import" /\ f.kind = k
    BY <1>2
  <2>3. k \in Kinds /\ k # "orphan"
    BY DEF Kinds, Imports
  <2> HIDE DEF f
  <2> QED BY <1>3, <2>1, <2>2, <2>3 DEF Opens
<1>6. ASSUME NEW k \in Reviewing, ClickReview(h, k) PROVE Opens(h)
  <2> DEFINE f == Frame(k, "order", screen.cand, {})
  <2>1. Start(h, f) /\ screen' = [screen EXCEPT !.busy = k, !.notice = <<"none", None>>]
    BY <1>6 DEF ClickReview
  <2>2. f.cand = screen.cand /\ f.pack = screen.pack /\ f.step = "order" /\ f.kind = k
    BY <1>2
  <2>3. k \in Kinds /\ k # "orphan"
    BY DEF Kinds, Reviewing, Decisions
  <2> HIDE DEF f
  <2> QED BY <1>3, <2>1, <2>2, <2>3 DEF Opens
<1>7. CASE ClickRefresh(h)
  <2> DEFINE f == Frame("refresh", "after", None, {"list"})
  <2>1. Start(h, f) /\ screen' = screen
    BY <1>7 DEF ClickRefresh
  <2>2. f.cand = screen.cand /\ f.pack = screen.pack /\ f.step = "after" /\ f.kind = "refresh"
    BY <1>2
  <2> HIDE DEF f
  <2> QED BY <2>1, <2>2 DEF Opens
<1>8. CASE ClickDedupe(h)
  <2> DEFINE f == Frame("dedupe", "classify", screen.cand, {})
  <2>1. Start(h, f) /\ screen' = [screen EXCEPT !.busy = "dedupe"]
    BY <1>8 DEF ClickDedupe
  <2>2. f.cand = screen.cand /\ f.pack = screen.pack /\ f.step = "classify" /\ f.kind = "dedupe"
    BY <1>2
  <2>3. /\ screen'.cand = screen.cand /\ screen'.pack = screen.pack
        /\ screen'.dedupe = screen.dedupe /\ screen'.notice = screen.notice
    BY <1>1, <2>1 DEF Screens
  <2> HIDE DEF f
  <2> QED BY <2>1, <2>2, <2>3 DEF Opens
<1> QED
  BY <1>4, <1>5, <1>6, <1>7, <1>8 DEF Click

LEMMA VerdictInit == Init => VerdictInv
<1> SUFFICES ASSUME Init PROVE VerdictInv
  OBVIOUS
<1>1. screen.notice = <<"none", None>> /\ \A h \in Slots : running[h] = None
  BY DEF Init
<1> QED
  BY <1>1, TabInit DEF VerdictInv, Told, Imports

\* A notice is kept, is silent, or is that of a handler past its last write.
LEMMA NoticeTold ==
  ASSUME VerdictInv, Stands(db, db'), NEW h \in Slots, running[h] # None,
         \/ screen'.notice = screen.notice
         \/ \E kind \in {"none", "error", "save", "orphan"}, c \in Candidates \cup {None} :
              screen'.notice = <<kind, c>>
         \/ running[h].step = "after" /\ screen'.notice = <<running[h].kind, running[h].target>>
  PROVE  Told(screen'.notice[1], screen'.notice[2], db')
<1>1. CASE screen'.notice = screen.notice
  BY <1>1, ToldStands DEF VerdictInv
<1>2. CASE \E kind \in {"none", "error", "save", "orphan"}, c \in Candidates \cup {None} :
             screen'.notice = <<kind, c>>
  BY <1>2, Silent
<1>3. CASE running[h].step = "after" /\ screen'.notice = <<running[h].kind, running[h].target>>
  BY <1>3, ToldStands DEF VerdictInv
<1> QED
  BY <1>1, <1>2, <1>3

LEMMA VerdictAnswer ==
  ASSUME VerdictInv, NEW h \in Slots, Answer(h)
  PROVE  VerdictInv'
<1>0. TabInv /\ TabInv'
  BY TabStep DEF VerdictInv, Next
<1>1. ASSUME running[h] # None, Onward(h), Stands(db, db'),
             running[h].step \in {"decide", "import"} =>
               Done(h) \/ Told(running[h].kind, running[h].target, db'),
             \/ screen'.notice = screen.notice
             \/ \E kind \in {"none", "error", "save", "orphan"}, c \in Candidates \cup {None} :
                  screen'.notice = <<kind, c>>
             \/ /\ running[h].step = "after"
                /\ screen'.notice = <<running[h].kind, running[h].target>>
      PROVE  VerdictInv'
  <2>1. Told(screen'.notice[1], screen'.notice[2], db')
    BY <1>1, NoticeTold
  <2>2. /\ \A g \in Slots : g # h => running'[g] = running[g]
        /\ running'[h] # None /\ running'[h].step = "after"
             => Told(running'[h].kind, running'[h].target, db')
    BY <1>1, OnwardTold
  <2> QED BY <1>0, <1>1, <2>1, <2>2, NoticesStand
<1>2. db'.verdict = db.verdict => Stands(db, db')
  BY DEF Stands
<1>3. CASE PutOrder(h)
  <2>1. running[h] # None /\ Onward(h) /\ running[h].step = "order"
        /\ db'.verdict = db.verdict /\ screen' = screen
    BY <1>0, <1>3, OrderTab
  <2> QED BY <1>1, <1>2, <2>1
<1>4. CASE PutSelection(h) \/ PatchPack(h)
  <2>1. running[h] # None /\ Onward(h) /\ running[h].step = "pair"
        /\ db'.verdict = db.verdict /\ screen' = screen
    BY <1>0, <1>4, SelectionTab
  <2> QED BY <1>1, <1>2, <2>1
<1>5. CASE ReadBack(h)
  <2>1. running[h] # None /\ Onward(h) /\ running[h].step \in {"reread", "poll"}
        /\ db' = db /\ screen' = screen
    BY <1>0, <1>5, ReadBackTab DEF ReadBack
  <2> QED BY <1>1, <1>2, <2>1
<1>6. CASE AfterSave(h)
  <2>1. running[h] # None /\ Onward(h) /\ running[h].step = "saved" /\ db' = db
        /\ screen'.notice \in {screen.notice, <<"error", None>>, <<"save", running[h].target>>}
        /\ running[h].target \in Candidates \cup {None}
    BY <1>0, <1>6, AfterSaveTab, FrameOf DEF GoodFrame, Frames
  <2> QED BY <1>1, <1>2, <2>1
<1>7. CASE PostDecision(h)
  <2> DEFINE c == running[h].target
  <2>1. /\ running[h] # None /\ Onward(h) /\ c \in Candidates
        /\ running[h].kind \in Decisions
        /\ \/ db'.verdict = db.verdict
           \/ /\ db.verdict[c] = "PENDING_APPROVAL"
              /\ \E v \in {"READY", "REJECTED"} : db'.verdict = [db.verdict EXCEPT ![c] = v]
        /\ \/ Done(h)
           \/ /\ running[h].kind = "approve" => db'.verdict[c] = "READY"
              /\ running[h].kind = "reject" => db'.verdict[c] = "REJECTED"
        /\ screen'.notice \in {screen.notice, <<"error", None>>, <<"none", None>>}
    BY <1>0, <1>7, DecisionTab
  <2>2. Stands(db, db')
    BY <1>0, <1>2, <2>1, FromStands DEF Verdicts
  <2>3. Done(h) \/ Told(running[h].kind, c, db')
    BY <2>1 DEF Told, Imports, Decisions
  <2> QED BY <1>1, <2>1, <2>2, <2>3
<1>8. CASE QueueAcquisition(h)
  <2>1. /\ running[h] # None /\ Onward(h) /\ running[h].step = "queue"
        /\ db'.verdict = db.verdict
        /\ screen'.notice \in {screen.notice, <<"error", None>>}
    BY <1>0, <1>8, QueueTab DEF QueueAcquisition, Call
  <2> QED BY <1>1, <1>2, <2>1
<1>9. CASE waitForAcquisition(h)
  <2>1. /\ running[h] # None /\ Onward(h) /\ running[h].step = "polled" /\ db' = db
        /\ screen'.notice \in {screen.notice, <<"error", None>>}
    BY <1>0, <1>9, PollTab
  <2> QED BY <1>1, <1>2, <2>1
<1>10. CASE PostImport(h)
  <2> DEFINE c == running[h].target
  <2>1. /\ running[h] # None /\ Onward(h) /\ c \in Candidates /\ running[h].kind \in Imports
        /\ db'.verdict[c] # "ABSENT"
        /\ \/ db'.verdict = db.verdict
           \/ /\ db.verdict[c] = "ABSENT"
              /\ db'.verdict = [db.verdict EXCEPT ![c] = "PENDING_APPROVAL"]
        /\ screen'.notice \in {screen.notice, <<"none", None>>}
    BY <1>0, <1>10, ImportTab
  <2>2. Stands(db, db')
    BY <1>0, <1>2, <2>1, FromStands DEF Verdicts
  <2>3. Told(running[h].kind, c, db')
    BY <2>1 DEF Told, Imports
  <2> QED BY <1>1, <2>1, <2>2, <2>3
<1>11. CASE classifyDuplicate(h)
  <2>1. /\ running[h] # None /\ Done(h) /\ db' = db /\ screen'.notice = screen.notice
    BY <1>0, <1>11, ClassifyTab
  <2>2. Onward(h)
    BY <2>1 DEF Onward
  <2> QED BY <1>1, <1>2, <2>1, <2>2
<1>12. CASE ReadOpen(h) \/ ReadList(h)
  <2>1. running[h] # None /\ Onward(h) /\ running[h].step \in {"trio", "after"}
        /\ db' = db /\ screen' = screen
    BY <1>0, <1>12, ReadTab
  <2> QED BY <1>1, <1>2, <2>1
<1>13. CASE ShowOpen(h)
  <2>1. /\ running[h] # None /\ Onward(h) /\ running[h].step = "after" /\ db' = db
        /\ screen'.notice \in {screen.notice, <<running[h].kind, running[h].target>>}
    BY <1>0, <1>13, ShowOpenTab
  <2> QED BY <1>1, <1>2, <2>1
<1>14. CASE ShowList(h)
  <2>1. /\ running[h] # None /\ Onward(h) /\ running[h].step = "after" /\ db' = db
        /\ screen'.notice \in {screen.notice, <<"none", None>>, <<"error", None>>,
                               <<running[h].kind, running[h].target>>}
    BY <1>0, <1>14, ShowListTab
  <2> QED BY <1>1, <1>2, <2>1
<1> QED
  BY <1>3, <1>4, <1>5, <1>6, <1>7, <1>8, <1>9, <1>10, <1>11, <1>12, <1>13, <1>14 DEF Answer

LEMMA VerdictStep == VerdictInv /\ [Next]_vars => VerdictInv'
<1> SUFFICES ASSUME VerdictInv, [Next]_vars PROVE VerdictInv'
  OBVIOUS
<1>0. TabInv /\ TabInv'
  BY TabStep DEF VerdictInv
<1>1. ASSUME NEW h \in Slots, Click(h) PROVE VerdictInv'
  <2>1. PICK f : /\ Start(h, f)
                 /\ f.step = "after" => f.kind \in {"open", "refresh"}
    BY <1>0, <1>1, ClickLeaves DEF Opens
  <2>2. screen'.notice \in {screen.notice, <<"none", None>>}
    BY <1>0, <1>1, ClickLeaves DEF Opens
  <2>3. db' = db /\ Go(h, f)
    BY <2>1 DEF Start, Go
  <2>4. Stands(db, db')
    BY <2>3 DEF Stands
  <2>5. /\ \A g \in Slots : g # h => running'[g] = running[g]
        /\ running'[h] = f
    BY <1>0, <2>3, GoesTo
  <2>6. Told(screen'.notice[1], screen'.notice[2], db')
    BY <2>2, <2>4, ToldStands, Silent DEF VerdictInv
  <2>7. f.step = "after" => Told(f.kind, f.target, db')
    BY <2>1 DEF Told, Imports
  <2> QED BY <1>0, <2>4, <2>5, <2>6, <2>7, NoticesStand
<1>2. ASSUME NEW h \in Slots, Answer(h) PROVE VerdictInv'
  BY <1>2, VerdictAnswer
<1>3. ASSUME NEW h \in Slots, RequestFails(h) PROVE VerdictInv'
  <2>1. /\ running[h] # None
        /\ Done(h) \/ Orphaned(h) \/ (Onward(h) /\ running[h].step = "after")
        /\ \/ db'.verdict = db.verdict
           \/ /\ running[h].target \in Candidates /\ db.verdict[running[h].target] = "ABSENT"
              /\ db'.verdict = [db.verdict EXCEPT ![running[h].target] = "PENDING_APPROVAL"]
        /\ \/ screen'.notice \in {screen.notice, <<"error", None>>}
           \/ /\ running[h].step = "after"
              /\ screen'.notice = <<running[h].kind, running[h].target>>
    BY <1>0, <1>3, FailureTab
  <2>2. Stands(db, db')
    <3>1. db'.verdict = db.verdict => Stands(db, db')
      BY DEF Stands
    <3> QED BY <1>0, <2>1, <3>1, FromStands DEF Verdicts
  <2>3. Told(screen'.notice[1], screen'.notice[2], db')
    BY <2>1, <2>2, NoticeTold
  <2>4. CASE Done(h) \/ (Onward(h) /\ running[h].step = "after")
    <3>1. Onward(h) /\ (Done(h) \/ running[h].step = "after")
      BY <2>4 DEF Onward
    <3>2. /\ \A g \in Slots : g # h => running'[g] = running[g]
          /\ running'[h] # None /\ running'[h].step = "after"
               => Told(running'[h].kind, running'[h].target, db')
      BY <2>1, <2>2, <3>1, OnwardTold
    <3> QED BY <1>0, <2>2, <2>3, <3>2, NoticesStand
  <2>5. CASE Orphaned(h)
    <3>1. PICK left : Go(h, [running[h] EXCEPT !.kind = "orphan", !.wait = left])
      BY <2>5 DEF Orphaned
    <3> DEFINE f == [running[h] EXCEPT !.kind = "orphan", !.wait = left]
    <3>2. f.kind = "orphan"
      BY <1>0, <2>1, FrameOf DEF GoodFrame, Frames
    <3> HIDE DEF f
    <3>3. (\A g \in Slots : g # h => running'[g] = running[g]) /\ running'[h] = f
      BY <1>0, <3>1, GoesTo DEF f
    <3>4. Told(f.kind, f.target, db')
      BY <3>2, Silent
    <3> QED BY <1>0, <2>2, <2>3, <3>3, <3>4, NoticesStand
  <2> QED BY <2>1, <2>4, <2>5
<1>4. ASSUME UNCHANGED running, db'.verdict = db.verdict, screen'.notice = screen.notice
      PROVE  VerdictInv'
  <2>1. Stands(db, db')
    BY <1>4 DEF Stands
  <2> QED BY <1>0, <1>4, <2>1, ToldStands DEF VerdictInv
<1>5. ASSUME \/ \E i \in Items : toggleItem(i)
             \/ \E k \in DOMAIN screen.items : moveItem(k)
      PROVE  VerdictInv'
  BY <1>0, <1>4, <1>5, EditTab
<1>6. ASSUME NEW i \in Items, AcquireMedia(i) PROVE VerdictInv'
  BY <1>0, <1>4, <1>6, SettlesTab
<1>7. CASE UNCHANGED vars
  BY <1>4, <1>7 DEF vars
<1> QED
  BY <1>1, <1>2, <1>3, <1>5, <1>6, <1>7 DEF Next

(* A success notice tells the truth about the rows for good, with any       *)
(* number of handlers under way and whichever requests fail.                *)
THEOREM NoticesTrue == Spec => []NoticeIsTrue
<1>1. VerdictInv => NoticeIsTrue
  BY DEF VerdictInv, Told, NoticeIsTrue
<1> QED
  BY <1>1, VerdictInit, VerdictStep, PTL DEF Spec

-----------------------------------------------------------------------------
(* One handler at a time                                                    *)

\* What a lone handler can rely on: the page still shows its candidate, the
\* rows have the order it stored, and its button is disabled until it is done.
Held(f, s, d, n) ==
  /\ (f.kind \in Reviewing /\ f.step # "after") \/ f.kind \in {"acquire", "dedupe"}
       => f.cand = s.cand /\ f.pack = s.cand
  /\ f.kind \in Reviewing /\ f.step \in {"pair", "reread", "saved", "decide"}
       => d.order[f.pack] = f.items
  /\ n = 0 => /\ f.kind # "orphan"
              /\ f.step \in Ordered \cup {"decide", "queue", "import"} => s.busy # None

OnePage(s) == s.pack = s.cand /\ s.dedupe \in {None, s.cand}

AloneInv ==
  /\ TabInv
  /\ ~overlapped =>
       /\ \A g, h \in Slots : running[g] # None /\ running[h] # None => g = h
       /\ surprises = {}
       /\ OnePage(screen)
       /\ \A h \in Slots : running[h] # None => Held(running[h], screen, db, faults)

LEMMA AloneInit == Init => AloneInv
<1> SUFFICES ASSUME Init PROVE AloneInv
  OBVIOUS
<1>1. screen.pack = None /\ screen.cand = None /\ screen.dedupe = None /\ surprises = {}
      /\ \A h \in Slots : running[h] = None
  BY DEF Init
<1> QED
  BY <1>1, TabInit DEF AloneInv, OnePage

\* A step of the lone handler.
LEMMA AloneKeeps ==
  ASSUME AloneInv, TabInv', NEW h \in Slots, running[h] # None, overlapped' = overlapped,
         \A g \in Slots : g # h => running'[g] = running[g],
         ~overlapped => /\ surprises' = {} /\ OnePage(screen')
                        /\ running'[h] # None => Held(running'[h], screen', db', faults')
  PROVE  AloneInv'
<1>1. ~overlapped => \A g \in Slots : g # h => running'[g] = None
  BY DEF AloneInv
<1> QED
  BY <1>1 DEF AloneInv

LEMMA OnwardHeld ==
  ASSUME AloneInv, ~overlapped, NEW h \in Slots, running[h] # None, Onward(h),
         faults' \in {faults, faults + 1},
         screen'.cand = screen.cand \/ (running[h].step = "after" /\ running[h].kind # "acquire"),
         running[h].step \in Ordered => /\ Done(h) \/ screen'.busy = screen.busy
                                        /\ running[h].step = "order" \/ db'.order = db.order,
         running[h].step = "order" => db'.order[running[h].pack] = running[h].items
  PROVE  running'[h] # None => Held(running'[h], screen', db', faults')
<1> DEFINE f == running[h]
<1>0. TabInv /\ Shape(f) /\ Held(f, screen, db, faults) /\ faults \in Nat
  BY DEF AloneInv, TabInv, TypeOK
<1>1. CASE Done(h)
  BY <1>0, <1>1, GoesTo
<1>2. ASSUME NEW g, GoodFrame(g), Go(h, g), Closed(f, g), Follows(f.step, g.step), ~Done(h)
      PROVE  Held(running'[h], screen', db', faults')
  <2>1. running'[h] = g
    BY <1>0, <1>2, GoesTo
  <2>2. g.kind = f.kind /\ g.cand = f.cand /\ g.pack = f.pack /\ g.items = f.items
    BY <1>2 DEF Closed
  <2>3. (g.kind \in Reviewing /\ g.step # "after") \/ g.kind \in {"acquire", "dedupe"}
          => g.cand = screen'.cand /\ g.pack = screen'.cand
    <3>1. g.step # "after" => f.step # "after"
      BY <1>2 DEF Follows
    <3>2. f.kind = "dedupe" => f.step # "after"
      BY <1>0 DEF Shape
    <3> QED BY <1>0, <2>2, <3>1, <3>2 DEF Held
  <2>4. g.kind \in Reviewing /\ g.step \in {"pair", "reread", "saved", "decide"}
          => db'.order[g.pack] = g.items
    <3>1. g.step \in {"pair", "reread", "saved", "decide"}
            => f.step \in {"order", "pair", "reread", "saved"}
      BY <1>2 DEF Follows
    <3> QED BY <1>0, <2>2, <3>1 DEF Held, Ordered
  <2>5. faults' = 0 => /\ g.kind # "orphan"
                       /\ g.step \in Ordered \cup {"decide", "queue", "import"} => screen'.busy # None
    <3>1. g.step \in Ordered \cup {"decide", "queue", "import"} => f.step \in Ordered
      BY <1>2 DEF Follows, Ordered
    <3>2. faults' = 0 => faults = 0
      BY <1>0
    <3> QED BY <1>0, <1>2, <2>2, <3>1, <3>2 DEF Held
  <2> QED BY <2>1, <2>3, <2>4, <2>5 DEF Held
<1> QED
  BY <1>1, <1>2 DEF Onward

\* The rows chosen by position are the ticked ones while the order is the
\* handler's.
LEMMA TickedChosen ==
  ASSUME TabInv, NEW h \in Slots, running[h] # None, NEW c,
         db.order[c] = running[h].items
  PROVE  Chosen(db, c, positions(running[h])) = running[h].ticked
<1>1. Content(running[h].pack, running[h].items, running[h].ticked)
  BY FrameOf DEF GoodFrame, Shape
<1> QED
  BY <1>1 DEF Content, Chosen, positions, Range

LEMMA AloneAnswer ==
  ASSUME AloneInv, NEW h \in Slots, Answer(h)
  PROVE  AloneInv'
<1> DEFINE f == running[h]
<1>0. TabInv /\ TabInv'
  BY TabStep DEF AloneInv, Next
<1>1. ASSUME running[h] # None, Onward(h), UNCHANGED <<overlapped, faults>>,
             ~overlapped => /\ surprises' = surprises /\ OnePage(screen')
                            /\ screen'.cand = screen.cand
                               \/ (f.step = "after" /\ f.kind # "acquire"),
             f.step \in Ordered => /\ Done(h) \/ screen'.busy = screen.busy
                                   /\ f.step = "order" \/ db'.order = db.order,
             f.step = "order" => db'.order[f.pack] = f.items
      PROVE  AloneInv'
  <2>1. ~overlapped => (running'[h] # None => Held(running'[h], screen', db', faults'))
    BY <1>1, OnwardHeld
  <2>2. \A g \in Slots : g # h => running'[g] = running[g]
    BY <1>0, <1>1, GoesTo DEF Onward
  <2>3. ~overlapped => surprises' = {}
    BY <1>1 DEF AloneInv
  <2> QED BY <1>0, <1>1, <2>1, <2>2, <2>3, AloneKeeps
<1>2. ~overlapped => OnePage(screen) /\ (f # None => Held(f, screen, db, faults))
  BY DEF AloneInv
<1>3. ASSUME UNCHANGED <<history, bounds>>
      PROVE  UNCHANGED <<overlapped, faults, surprises>>
  BY <1>3 DEF history, bounds
<1>4. CASE PutOrder(h)
  <2>1. /\ f # None /\ Onward(h) /\ UNCHANGED <<screen, history, bounds>> /\ f.step = "order"
        /\ db'.order[f.pack] = f.items
    BY <1>0, <1>4, OrderTab
  <2> QED BY <1>1, <1>2, <1>3, <2>1
<1>5. CASE PutSelection(h) \/ PatchPack(h)
  <2>1. /\ f # None /\ Onward(h) /\ UNCHANGED <<screen, history, bounds>> /\ f.step = "pair"
        /\ db'.order = db.order
    BY <1>0, <1>5, SelectionTab
  <2> QED BY <1>1, <1>2, <1>3, <2>1
<1>6. CASE ReadBack(h)
  <2>1. /\ f # None /\ Onward(h) /\ UNCHANGED <<db, screen, history, bounds>>
        /\ f.step \in {"reread", "poll"}
    BY <1>0, <1>6, ReadBackTab DEF ReadBack
  <2> QED BY <1>1, <1>2, <1>3, <2>1
<1>7. CASE AfterSave(h)
  <2>1. /\ f # None /\ Onward(h) /\ UNCHANGED <<db, history, bounds>> /\ f.step = "saved"
        /\ f.kind \in Reviewing
        /\ screen'.cand = screen.cand /\ screen'.pack = f.pack
        /\ screen'.dedupe = screen.dedupe /\ (Done(h) \/ screen'.busy = screen.busy)
    BY <1>0, <1>7, AfterSaveTab
  <2>2. ~overlapped => OnePage(screen')
    BY <1>2, <2>1 DEF OnePage, Held
  <2> QED BY <1>1, <1>3, <2>1, <2>2
<1>8. CASE PostDecision(h)
  <2>1. /\ f # None /\ Onward(h) /\ UNCHANGED <<overlapped, bounds>> /\ f.step = "decide"
        /\ f.kind \in Decisions
        /\ surprises' # surprises => Chosen(db, f.cand, positions(f)) # f.ticked
        /\ screen'.cand = screen.cand /\ screen'.pack = screen.pack
        /\ screen'.dedupe = screen.dedupe
    BY <1>0, <1>8, DecisionTab
  <2>2. ~overlapped => db.order[f.cand] = f.items
    BY <1>2, <2>1 DEF Held, Reviewing
  <2>3. ~overlapped => surprises' = surprises
    BY <1>0, <2>1, <2>2, TickedChosen
  <2>4. ~overlapped => OnePage(screen')
    BY <1>2, <2>1 DEF OnePage
  <2>5. UNCHANGED <<overlapped, faults>>
    BY <2>1 DEF bounds
  <2> QED BY <1>1, <2>1, <2>3, <2>4, <2>5 DEF Ordered
<1>9. CASE QueueAcquisition(h)
  <2>1. /\ f # None /\ Onward(h) /\ UNCHANGED <<history, bounds>> /\ f.step = "queue"
        /\ screen'.cand = screen.cand /\ screen'.pack = screen.pack
        /\ screen'.dedupe = screen.dedupe
    BY <1>0, <1>9, QueueTab DEF QueueAcquisition, Call
  <2>2. ~overlapped => OnePage(screen')
    BY <1>2, <2>1 DEF OnePage
  <2> QED BY <1>1, <1>3, <2>1, <2>2 DEF Ordered
<1>10. CASE waitForAcquisition(h)
  <2>1. /\ f # None /\ Onward(h) /\ UNCHANGED <<history, bounds>> /\ f.step = "polled"
        /\ f.kind = "acquire" /\ screen'.cand = screen.cand /\ screen'.pack = f.pack
        /\ screen'.dedupe = screen.dedupe
    BY <1>0, <1>10, PollTab
  <2>2. ~overlapped => OnePage(screen')
    BY <1>2, <2>1 DEF OnePage, Held
  <2> QED BY <1>1, <1>3, <2>1, <2>2 DEF Ordered
<1>11. CASE PostImport(h)
  <2>1. /\ f # None /\ Onward(h) /\ UNCHANGED <<history, bounds>> /\ f.step = "import"
        /\ screen'.cand = screen.cand /\ screen'.pack = screen.pack
        /\ screen'.dedupe = screen.dedupe
    BY <1>0, <1>11, ImportTab
  <2>2. ~overlapped => OnePage(screen')
    BY <1>2, <2>1 DEF OnePage
  <2> QED BY <1>1, <1>3, <2>1, <2>2 DEF Ordered
<1>12. CASE classifyDuplicate(h)
  <2>1. /\ f # None /\ Done(h) /\ UNCHANGED <<history, bounds>> /\ f.step = "classify"
        /\ f.kind = "dedupe" /\ screen'.cand = screen.cand /\ screen'.pack = screen.pack
        /\ screen'.dedupe = f.cand
    BY <1>0, <1>12, ClassifyTab DEF classifyDuplicate
  <2>2. ~overlapped => OnePage(screen')
    BY <1>2, <2>1 DEF OnePage, Held
  <2> QED BY <1>1, <1>3, <2>1, <2>2 DEF Ordered, Onward
<1>13. CASE ReadOpen(h) \/ ReadList(h)
  <2>1. /\ f # None /\ Onward(h) /\ UNCHANGED <<screen, history, bounds>>
        /\ f.step \in {"trio", "after"}
    BY <1>0, <1>13, ReadTab
  <2> QED BY <1>1, <1>2, <1>3, <2>1 DEF Ordered
<1>14. CASE ShowOpen(h)
  <2>1. /\ f # None /\ Onward(h) /\ UNCHANGED <<history, bounds>> /\ f.step = "after"
        /\ screen'.cand = f.target /\ screen'.pack = f.target /\ screen'.dedupe = None
    BY <1>0, <1>14, ShowOpenTab
  <2>2. f.kind = "acquire" => f.target = f.cand
    BY <1>0, <2>1, FrameOf DEF GoodFrame, Shape, Reviewing
  <2>3. OnePage(screen')
    BY <2>1 DEF OnePage
  <2>4. ~overlapped /\ f.kind = "acquire" => screen'.cand = screen.cand
    BY <1>2, <2>1, <2>2 DEF Held
  <2> QED BY <1>1, <1>3, <2>1, <2>3, <2>4 DEF Ordered
<1>15. CASE ShowList(h)
  <2>1. /\ f # None /\ Onward(h) /\ UNCHANGED <<history, bounds>> /\ f.step = "after"
        /\ screen'.cand = screen.cand \/ (f.kind = "acquire" /\ screen'.cand = f.cand)
        /\ screen'.pack = screen.pack /\ screen'.dedupe = screen.dedupe
    BY <1>0, <1>15, ShowListTab
  <2>2. ~overlapped => screen'.cand = screen.cand
    BY <1>2, <2>1 DEF Held
  <2>3. ~overlapped => OnePage(screen')
    BY <1>2, <2>1, <2>2 DEF OnePage
  <2> QED BY <1>1, <1>3, <2>1, <2>2, <2>3 DEF Ordered
<1> QED
  BY <1>4, <1>5, <1>6, <1>7, <1>8, <1>9, <1>10, <1>11, <1>12, <1>13, <1>14, <1>15 DEF Answer

LEMMA AloneStep == AloneInv /\ [Next]_vars => AloneInv'
<1> SUFFICES ASSUME AloneInv, [Next]_vars PROVE AloneInv'
  OBVIOUS
<1>0. TabInv /\ TabInv'
  BY TabStep DEF AloneInv
<1>1. ASSUME NEW h \in Slots, Click(h) PROVE AloneInv'
  <2>1. PICK f : /\ Start(h, f) /\ f.cand = screen.cand /\ f.pack = screen.pack
                 /\ f.step \in {"order", "import", "classify", "after"} /\ f.kind # "orphan"
                 /\ f.step = "after" => f.kind \in {"open", "refresh"}
                 /\ f.step \in {"order", "import"} => screen'.busy # None
    BY <1>0, <1>1, ClickLeaves DEF Opens
  <2>2. screen'.cand = screen.cand /\ screen'.pack = screen.pack /\ screen'.dedupe = screen.dedupe
    BY <1>0, <1>1, ClickLeaves DEF Opens
  <2>3. /\ surprises' = surprises /\ Go(h, f)
        /\ ~overlapped' => ~overlapped /\ \A g \in Slots : running[g] = None
    BY <1>0, <2>1 DEF Start, Go, TabInv, TypeOK
  <2>4. /\ \A g \in Slots : g # h => running'[g] = running[g]
        /\ running'[h] = f
    BY <1>0, <2>3, GoesTo
  <2>5. ~overlapped => OnePage(screen) /\ OnePage(screen') /\ surprises = {}
    BY <2>2 DEF AloneInv, OnePage
  <2>6. ~overlapped => Held(f, screen', db', faults')
    BY <2>1, <2>2, <2>5 DEF Held, OnePage, Ordered, Reviewing, Decisions
  <2> QED BY <1>0, <2>3, <2>4, <2>5, <2>6 DEF AloneInv
<1>2. ASSUME NEW h \in Slots, Answer(h) PROVE AloneInv'
  BY <1>2, AloneAnswer
<1>3. ASSUME NEW h \in Slots, RequestFails(h) PROVE AloneInv'
  <2>1. /\ running[h] # None /\ UNCHANGED history /\ faults' = faults + 1
        /\ Done(h) \/ Orphaned(h) \/ (Onward(h) /\ running[h].step = "after")
        /\ screen'.cand = screen.cand /\ screen'.pack = screen.pack
        /\ screen'.dedupe = screen.dedupe
    BY <1>0, <1>3, FailureTab
  <2>2. overlapped' = overlapped /\ surprises' = surprises /\ faults' # 0
    BY <1>0, <2>1 DEF history, TabInv, TypeOK
  <2>3. ~overlapped => OnePage(screen') /\ surprises' = {}
    BY <2>1, <2>2 DEF AloneInv, OnePage
  <2>4. CASE Done(h)
    <3>1. (\A g \in Slots : g # h => running'[g] = running[g]) /\ running'[h] = None
      BY <1>0, <2>4, GoesTo
    <3> QED BY <1>0, <2>1, <2>2, <2>3, <3>1, AloneKeeps
  <2>5. CASE Orphaned(h)
    <3>1. PICK left : Go(h, [running[h] EXCEPT !.kind = "orphan", !.wait = left])
      BY <2>5 DEF Orphaned
    <3> DEFINE f == [running[h] EXCEPT !.kind = "orphan", !.wait = left]
    <3>2. f.kind = "orphan"
      BY <1>0, <2>1, FrameOf DEF GoodFrame, Frames
    <3> HIDE DEF f
    <3>3. (\A g \in Slots : g # h => running'[g] = running[g]) /\ running'[h] = f
      BY <1>0, <3>1, GoesTo DEF f
    <3>4. Held(f, screen', db', faults')
      BY <2>2, <3>2 DEF Held, Reviewing, Decisions
    <3> QED BY <1>0, <2>1, <2>2, <2>3, <3>3, <3>4, AloneKeeps
  <2>6. CASE Onward(h) /\ running[h].step = "after"
    <3>1. ~overlapped => (running'[h] # None => Held(running'[h], screen', db', faults'))
      BY <2>1, <2>6, OnwardHeld DEF Ordered
    <3>2. \A g \in Slots : g # h => running'[g] = running[g]
      BY <1>0, <2>6, GoesTo DEF Onward
    <3> QED BY <1>0, <2>1, <2>2, <2>3, <3>1, <3>2, AloneKeeps
  <2> QED BY <2>1, <2>4, <2>5, <2>6
<1>4. ASSUME UNCHANGED <<running, history, faults>>, db'.order = db.order,
             screen'.cand = screen.cand, screen'.pack = screen.pack,
             screen'.dedupe = screen.dedupe, screen'.busy = screen.busy
      PROVE  AloneInv'
  <2>1. UNCHANGED <<running, overlapped, surprises, faults>>
    BY <1>4 DEF history
  <2> QED BY <1>0, <1>4, <2>1 DEF AloneInv, OnePage, Held
<1>5. ASSUME \/ \E i \in Items : toggleItem(i)
             \/ \E k \in DOMAIN screen.items : moveItem(k)
      PROVE  AloneInv'
  <2>1. db' = db /\ UNCHANGED <<running, history, faults>>
    BY <1>0, <1>5, EditTab
  <2> QED BY <1>0, <1>4, <1>5, <2>1, EditTab
<1>6. ASSUME NEW i \in Items, AcquireMedia(i) PROVE AloneInv'
  <2>1. UNCHANGED <<screen, running, history, faults>> /\ db'.order = db.order
    BY <1>0, <1>6, SettlesTab DEF bounds
  <2> QED BY <1>4, <2>1
<1>7. CASE UNCHANGED vars
  <2>1. UNCHANGED <<db, screen, running, history, faults>>
    BY <1>7 DEF vars, history
  <2> QED BY <1>4, <2>1
<1> QED
  BY <1>1, <1>2, <1>3, <1>5, <1>6, <1>7 DEF Next

(* While handlers do not overlap, an approval marks exactly the items that  *)
(* were ticked when the button was pressed, whatever is ticked or moved     *)
(* meanwhile and whichever requests fail.                                   *)
THEOREM ApprovalsExact == Spec => []ApprovesTicked
<1>1. AloneInv => ApprovesTicked
  BY DEF AloneInv, ApprovesTicked, ApprovesOnlySelected
<1> QED
  BY <1>1, AloneInit, AloneStep, PTL DEF Spec

(* ... and candidate, pack and duplicate verdict on the page belong         *)
(* together.                                                                *)
THEOREM PageTogether == Spec => []PageIsOfOneCandidate
<1>1. AloneInv => PageIsOfOneCandidate
  BY DEF AloneInv, OnePage, PageIsOfOneCandidate
<1> QED
  BY <1>1, AloneInit, AloneStep, PTL DEF Spec

(* ... and, if no request fails, the buttons are disabled as long as a      *)
(* handler has something to write.                                          *)
THEOREM WritesDisable == Spec => []IdleMeansWritten
<1>1. ASSUME AloneInv PROVE IdleMeansWritten
  <2>1. SUFFICES ASSUME ~overlapped, faults = 0, NEW h \in Slots, Writing(running[h])
                 PROVE  screen.busy # None
    BY DEF IdleMeansWritten
  <2>2. Shape(running[h]) /\ Held(running[h], screen, db, faults)
    BY <1>1, <2>1 DEF AloneInv, TabInv, Writing
  <2>3. running[h].step \in Ordered \cup {"decide", "queue", "import"}
    BY <2>1, <2>2 DEF Writing, Shape, Ordered
  <2> QED BY <2>1, <2>2, <2>3 DEF Held
<1> QED
  BY <1>1, AloneInit, AloneStep, PTL DEF Spec

==============================================================================
