------------------------------ MODULE AdminConfig ------------------------------
(* The configuration page of the admin application: one form and one table  *)
(* over several resources, whose handlers await the configuration API.      *)
(* Rows are shown as the last load read them; toggle sends the opposite of  *)
(* what is shown, and a submit that comes back resets the form of whatever  *)
(* resource is selected by then.  Of a row's columns only the active one is *)
(* kept, ON or OFF; an id that was removed is never given out again.  The   *)
(* requests of one load are one step.                                       *)
EXTENDS Naturals, FiniteSets

CONSTANTS
  Resources,   \* the resource kinds, each with its own fields
  Rows,        \* row ids; each belongs to the resource RowOf names
  RowOf,
  Handlers,    \* handlers that may be under way at once
  Nothing,     \* no row, no handler
  MaxActs,     \* bound: buttons pressed
  MaxLost      \* bound: requests that fail

ASSUME ConfigAssumption ==
  /\ RowOf \in [Rows -> Resources] /\ Resources # {}
  /\ Nothing \notin Resources \cup Rows /\ MaxActs \in Nat /\ MaxLost \in Nat

VARIABLES
  table,     \* rows in the database: "ON" or "OFF", "NEW" before, "GONE" after
  page,      \* [selected, rows, form, editing, busy]; form is the resource
             \* whose defaults or row it holds, the row it was filled from and
             \* what its active field says
  acting,    \* the handler in each slot, Nothing when free
  crossed,   \* history: a handler ran beside another, or past a change of resource
  misfiled,  \* history: submits whose form was of another resource or row
  acts, lost

configVars == <<table, page, acting, crossed, misfiled, acts, lost>>

Kept == {"ON", "OFF"}
States == Kept \cup {"NEW", "GONE"}
Forms == [of : Resources, row : Rows \cup {Nothing}, state : Kept]
ClosureKinds == {"create", "save", "toggle", "remove", "load"}
Closures == [kind : ClosureKinds, row : Rows \cup {Nothing},
             want : States \cup {Nothing}, got : [Rows -> States] \cup {Nothing},
             step : {"write", "read", "show"}, of : Resources]

ASSUME NothingApart == Nothing \notin Closures

(* Every variable keeps its type; a handler that writes knows its row, and  *)
(* one that shows has read.                                                 *)
ConfigTypeOK ==
  /\ table \in [Rows -> States]
  /\ page \in [selected : Resources, rows : [Rows -> States], form : Forms,
               editing : Rows \cup {Nothing}, busy : BOOLEAN]
  /\ acting \in [Handlers -> Closures \cup {Nothing}]
  /\ \A h \in Handlers : acting[h] # Nothing =>
       /\ acting[h].step = "write" => acting[h].row \in Rows /\ acting[h].want \in States
       /\ acting[h].step = "show" => acting[h].got \in [Rows -> States]
  /\ crossed \in BOOLEAN /\ misfiled \subseteq Resources
  /\ acts \in Nat /\ lost \in Nat

defaults(r) == [of |-> r, row |-> Nothing, state |-> "ON"]
Running == {h \in Handlers : acting[h] # Nothing}

ConfigInit ==
  /\ table \in [Rows -> {"ON", "NEW"}]
  /\ \E r \in Resources :
       page = [selected |-> r, rows |-> table, form |-> defaults(r), editing |-> Nothing, busy |-> FALSE]
  /\ acting = [h \in Handlers |-> Nothing]
  /\ crossed = FALSE /\ misfiled = {}
  /\ acts = 0 /\ lost = 0

Press(h, frame) ==
  /\ acts < MaxActs /\ acting[h] = Nothing
  /\ acts' = acts + 1
  /\ acting' = [acting EXCEPT ![h] = frame]
  /\ crossed' = (crossed \/ Running # {})
  /\ UNCHANGED <<table, lost>>

\* what a handler closes over; want is the value it sends, got the rows it loads
Closure(kind, row, want) ==
  [kind |-> kind, row |-> row, want |-> want, got |-> Nothing, step |-> "write",
   of |-> page.selected]

Shown(r) == page.rows[r] \in Kept /\ RowOf[r] = page.selected
Filed == page.form.of = page.selected /\ page.form.row = page.editing

\* PATCH of the row being edited, or POST: the server makes a row
submit(h) ==
  /\ ~page.busy
  /\ \/ /\ page.editing # Nothing
        /\ Press(h, Closure("save", page.editing, page.form.state))
     \/ /\ page.editing = Nothing
        /\ \E r \in Rows : /\ RowOf[r] = page.selected /\ table[r] = "NEW"
                          /\ Press(h, Closure("create", r, page.form.state))
  /\ misfiled' = IF Filed THEN misfiled ELSE misfiled \cup {page.selected}
  /\ page' = [page EXCEPT !.busy = TRUE]

toggle(h, r) ==
  /\ Shown(r)
  /\ Press(h, Closure("toggle", r, IF page.rows[r] = "ON" THEN "OFF" ELSE "ON"))
  /\ UNCHANGED <<page, misfiled>>

remove(h, r) ==
  /\ Shown(r)
  /\ Press(h, Closure("remove", r, "GONE"))
  /\ UNCHANGED <<page, misfiled>>

load(h) ==
  /\ Press(h, [Closure("load", Nothing, Nothing) EXCEPT !.step = "read"])
  /\ UNCHANGED <<page, misfiled>>

edit(r) ==
  /\ Shown(r)
  /\ page' = [page EXCEPT !.editing = r, !.form =
                [of |-> page.selected, row |-> r, state |-> page.rows[r]]]
  /\ crossed' = (crossed \/ Running # {})
  /\ UNCHANGED <<table, acting, misfiled, acts, lost>>

\* the form's own active field
change ==
  /\ page' = [page EXCEPT !.form.state = IF @ = "ON" THEN "OFF" ELSE "ON"]
  /\ UNCHANGED <<table, acting, crossed, misfiled, acts, lost>>

cancel ==
  /\ page.editing # Nothing
  /\ page' = [page EXCEPT !.form = defaults(page.selected), !.editing = Nothing]
  /\ UNCHANGED <<table, acting, crossed, misfiled, acts, lost>>

\* mutant: no effect on [resource]
selectKeepsForm(r) ==
  /\ r # page.selected
  /\ page' = [page EXCEPT !.selected = r]
  /\ crossed' = (crossed \/ Running # {})
  /\ UNCHANGED <<table, acting, misfiled, acts, lost>>

\* the effect on [resource] empties the form
select(r) ==
  /\ r # page.selected
  /\ page' = [page EXCEPT !.selected = r, !.form = defaults(r), !.editing = Nothing]
  /\ crossed' = (crossed \/ Running # {})
  /\ UNCHANGED <<table, acting, misfiled, acts, lost>>

\* finally: a submit gives the button back; a handler that fails does no more
Submits(f) == f.kind \in {"create", "save"}
Ends(h) ==
  /\ acting' = [acting EXCEPT ![h] = Nothing]
  /\ page' = [page EXCEPT !.busy = @ /\ ~Submits(acting[h])]

\* a row that was removed cannot be changed or removed any more
Found(f) == f.kind = "create" \/ table[f.row] # "GONE"

\* mutant: the table is not loaded again
WriteOnly(h) ==
  LET f == acting[h] IN
  /\ f # Nothing /\ f.step = "write" /\ Found(f)
  /\ table' = [table EXCEPT ![f.row] = f.want]
  /\ Ends(h)
  /\ UNCHANGED <<crossed, misfiled, acts, lost>>

Write(h) ==
  LET f == acting[h] IN
  /\ f # Nothing /\ f.step = "write" /\ Found(f)
  /\ table' = [table EXCEPT ![f.row] = f.want]
  /\ acting' = [acting EXCEPT ![h].step = "read"]
  /\ UNCHANGED <<page, crossed, misfiled, acts, lost>>

\* 404 for a row that is gone, 409 or 422 for any: nothing is written and
\* nothing loaded, and a submit keeps its form and the row it edits
Refused(h) ==
  /\ acting[h] # Nothing /\ acting[h].step = "write"
  /\ Ends(h)
  /\ UNCHANGED <<table, crossed, misfiled, acts, lost>>

\* load: all resources read, the answer on its way
Read(h) ==
  /\ acting[h] # Nothing /\ acting[h].step = "read"
  /\ acting' = [acting EXCEPT ![h].step = "show", ![h].got = table]
  /\ UNCHANGED <<table, page, crossed, misfiled, acts, lost>>

\* the submit's closure still names the resource it was clicked on
Show(h) ==
  LET f == acting[h] IN
  /\ f # Nothing /\ f.step = "show"
  /\ page' = IF Submits(f)
             THEN [page EXCEPT !.rows = f.got, !.form = defaults(f.of), !.editing = Nothing, !.busy = FALSE]
             ELSE [page EXCEPT !.rows = f.got]
  /\ acting' = [acting EXCEPT ![h] = Nothing]
  /\ UNCHANGED <<table, crossed, misfiled, acts, lost>>

\* a request fails before or after the server acted
Fails(h) ==
  LET f == acting[h] IN
  /\ lost < MaxLost /\ f # Nothing /\ f.step \in {"write", "read"}
  /\ lost' = lost + 1
  /\ \/ UNCHANGED table
     \/ /\ f.step = "write" /\ Found(f)
        /\ table' = [table EXCEPT ![f.row] = f.want]
  /\ Ends(h)
  /\ UNCHANGED <<crossed, misfiled, acts>>

ConfigNext ==
  \/ \E h \in Handlers : \/ submit(h) \/ load(h) \/ Write(h) \/ Refused(h) \/ Read(h) \/ Show(h) \/ Fails(h)
                         \/ \E r \in Rows : toggle(h, r) \/ remove(h, r)
  \/ \E r \in Rows : edit(r)
  \/ \E r \in Resources : select(r)
  \/ change \/ cancel

ConfigSpec == ConfigInit /\ [][ConfigNext]_configVars

(* What a submit sends is the form of the selected resource and of the row  *)
(* being edited, as long as nothing is clicked under a pending handler: the *)
(* form, the selection and the edited row are three states that three       *)
(* handlers and an effect set.                                              *)
FormsAreFiled == ~crossed => misfiled = {}

(* Every toggle turns the row it was clicked on: with one handler at a time *)
(* and no request lost the table shown is the table stored whenever nothing *)
(* runs, requests the server refuses included, so the opposite of what is   *)
(* shown is the opposite of what is stored.                                 *)
TableIsCurrent == ~crossed /\ lost = 0 /\ Running = {} => page.rows = table
=============================================================================
