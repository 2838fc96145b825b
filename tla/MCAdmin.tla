-------------------------------- MODULE MCAdmin --------------------------------
(* The admin application for TLC.  One tab shows the content page or the    *)
(* configuration page: the pages share the browser's event loop and nothing *)
(* else, so a behaviour stays on the page it starts on.                     *)
(* Content: two candidates with two items and one; the second from Erome.   *)
(* Configuration: two resources with a row each.                            *)
EXTENDS AdminContent, AdminConfig, TLC

CONSTANTS c1, c2, i1, i2, j1, r1, r2, x1, x2

TwoPacks  == c1 :> <<i1, i2>> @@ c2 :> <<j1>>
OwnersRow == x1 :> r1 @@ x2 :> r2

VARIABLE route   \* the page the tab shows

mcvars == <<vars, route, configVars>>

\* a tab that stays on the content page needs one state of the other
MCInit ==
  /\ Init /\ ConfigInit
  /\ \/ route = "configuration"
     \/ route = "content" /\ page.selected = r1 /\ \A x \in Rows : table[x] = "ON"

MCNext ==
  /\ UNCHANGED route
  /\ \/ route = "content" /\ Next /\ UNCHANGED configVars
     \/ route = "configuration" /\ ConfigNext /\ UNCHANGED vars

MCSpec == MCInit /\ [][MCNext]_mcvars /\ Fairness
=============================================================================
