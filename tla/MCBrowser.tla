------------------------------ MODULE MCBrowser ------------------------------
(***************************************************************************)
(* A small instance of what runs in the browser.  Its parts share nothing  *)
(* that is modelled, so a behaviour moves one of them, the scene:          *)
(*   tabs    two tabs with a request each, and few tokens;                 *)
(*   shared  one tab with two requests that share its refresh;             *)
(*   visits  one tab on its way through the pages;                         *)
(*   board   the tasks on the screen of one member of the staff;           *)
(*   lists   one page with a list;                                         *)
(*   screens a press on a screen, and an answer of the server it is about. *)
(***************************************************************************)
EXTENDS PortalTabs, Navigation, TaskBoard, ListPages, QueryCache, TLC

CONSTANTS t1, t2, q1, q2, q3,
          Scenes  \* the scenes looked at

VARIABLE scene

MCTabOf == (q1 :> t1) @@ (q2 :> t1) @@ (q3 :> t2)

\* Without a filter there are two pages, with all that is asked for no rows.
MCPagesOf ==
  [x \in Texts \X Filters |->
     CASE x = <<"", All>> -> 2 [] x = <<"a", All>> -> 1 [] x[1] = "" -> 2 [] OTHER -> 0]

\* A scene starts in all its states, the others stay in one.
MCInit ==
  /\ scene \in Scenes
  /\ Init /\ NavInit /\ BoardInit /\ ListInit /\ KeptInit
  /\ scene # "visits" => account.staff
  /\ scene # "lists" => list.kind = "url" /\ list.box = ""
  /\ scene # "screens" => kept.class = CHOOSE class \in Classes : TRUE

\* The moves on the board are numbered in their order, and the cards by their first move.
InOrder ==
  /\ \A m, k \in Moves : m < k /\ move[m].pc = "new" => move[k].pc = "new"
  /\ \A m \in Moves : move[m].card <= m

\* One request stays away: the second of a tab, or that of the other tab.
Tabbing(away) == Next /\ req'[away].pc = "idle" /\ UNCHANGED <<navVars, boardVars, list, kept>>
Visiting == NavStep /\ UNCHANGED <<vars, boardVars, list, kept>>
Boarding == BoardStep /\ UNCHANGED <<vars, navVars, list, kept>>
Listing == ListStep /\ UNCHANGED <<vars, navVars, boardVars, kept>>
Keeping == KeptStep /\ UNCHANGED <<vars, navVars, boardVars, list>>

MCNext ==
  /\ UNCHANGED scene
  /\ \/ scene = "tabs" /\ Tabbing(q2)
     \/ scene = "shared" /\ Tabbing(q3)
     \/ scene = "visits" /\ Visiting
     \/ scene = "board" /\ Boarding /\ InOrder'
     \/ scene = "lists" /\ Listing
     \/ scene = "screens" /\ Keeping

MCSpec == MCInit /\ [][MCNext]_<<vars, navVars, boardVars, list, kept, scene>>

\* The fairness of the modules, for what moves in the scene.
MCFairness ==
  LET v == <<vars, navVars, boardVars, list, kept, scene>>
      tabs == scene \in {"tabs", "shared"} /\ UNCHANGED <<navVars, boardVars, list, kept, scene>>
      visits == scene = "visits" /\ UNCHANGED <<vars, boardVars, list, kept, scene>>
      lists == scene = "lists" /\ UNCHANGED <<vars, navVars, boardVars, kept, scene>>
  IN  /\ \A q \in Reqs : WF_v(tabs /\ Answering(q))
      /\ \A c \in Calls : WF_v(tabs /\ Resuming(c))
      /\ WF_v(visits /\ Answer) /\ WF_v(visits /\ Identifying) /\ WF_v(visits /\ Leaving)
      /\ WF_v(lists /\ Fire) /\ WF_v(lists /\ Land) /\ WF_v(lists /\ ShowRows)

MCFairSpec == MCSpec /\ MCFairness

MCTypeOK == TypeOK /\ NavTypeOK /\ BoardTypeOK /\ ListTypeOK /\ KeptTypeOK

(***************************************************************************)
(* What a browser is left with works: its cookie holds a live refresh      *)
(* token when no call is in flight, unless the session was ended or a call *)
(* failed (api.ts, auth.service.ts), and a visit comes to rest where it    *)
(* was meant to, with its user (middleware.ts, user-context.tsx).          *)
(***************************************************************************)
LeftInOrder == CookieWorks /\ VisitsLandRight

(***************************************************************************)
(* What the staff and clients see on lists and boards is what they did and *)
(* what the server holds: a dragged card stays where it was dropped until  *)
(* something newer moves it, and in the end board and server agree         *)
(* (useTaskMoveMutation); box, address and list agree too, on what was     *)
(* asked for last (the debounced searches of the list pages); who has done *)
(* something sees it done, and is offered what the server takes (the       *)
(* renewals after every mutation, and the conditions around the buttons).  *)
(***************************************************************************)
ScreensTellTruth ==
  /\ CardsStayWhereDropped /\ BoardTellsTruth
  /\ ListsShowWhatIsAsked
  /\ OwnWritesShow /\ RefusedOnlyWhenStale

\* The request q, the visit or the list of the scene has not come to its end.
Pending(q) ==
  CASE scene \in {"tabs", "shared"} -> req[q].pc # "idle"
    [] scene = "visits" -> ~AtRest
    [] scene = "lists" -> ~list.busy /\ ~Settled
    [] OTHER -> FALSE

(***************************************************************************)
(* Nothing in the browser hangs: requests that wait for a refresh end, no  *)
(* visit is redirected for ever, and a list settles (RequestsFinish,       *)
(* VisitsEnd and ListsSettle, each in its scene).                          *)
(***************************************************************************)
NothingHangs == \A q \in Reqs : Pending(q) ~> ~Pending(q)
=============================================================================
