------------------------------ MODULE ListPages ------------------------------
(***************************************************************************)
(* A page with a list, a search box, a filter and page numbers.  The code  *)
(* has three kinds of them, by what holds the query:                       *)
(*   "url"     the address (cases in the admin panel): the box follows the *)
(*             address and, some time after the last key, the address the  *)
(*             box;                                                        *)
(*   "local"   the state of the page (posts, clients, lawyers);            *)
(*   "portal"  the state of the page, which follows ?q= of the address     *)
(*             (cases in the portal).                                      *)
(* The header of every page has a search of its own that leads to the list *)
(* of cases.  The rows stay as they are while somebody looks at the list.  *)
(***************************************************************************)
EXTENDS Naturals

CONSTANTS
  Filters, All,  \* what the list may be narrowed to, and no filter
  PagesOf        \* pages of rows for each text and filter, 0 when there are none

Words == {"", "a", "a "}
Trim(x) == IF x = "a " THEN "a" ELSE x
Texts == {"", "a"}

ASSUME ListAssumption == All \in Filters /\ PagesOf \in [Texts \X Filters -> Nat]

VARIABLE list

Pages == 1..2
Query == [text : Texts, filter : Filters, page : Pages]
None == [text |-> "", filter |-> All, page |-> 0]   \* no query
Query1(text, filter) == [text |-> text, filter |-> filter, page |-> 1]

ListTypeOK ==
  list \in [kind : {"url", "local", "portal"},
            box : Words,               \* what is in the search box
            at : Query,                \* the query the page makes
            timer : BOOLEAN,           \* the box is looked at when it fires
            q : Texts,                 \* ?q= of the address, in the portal
            way : Query \cup {None},   \* the address on its way
            shown : Query \cup {None}, \* whose rows are on the screen: none while loading
            fetch : BOOLEAN,
            meant : Query,             \* what was last asked for; its page does not matter
            crossed : BOOLEAN,         \* something was asked for before the last thing had come through
            unheard : BOOLEAN,         \* the header asked for what the address said already
            early : BOOLEAN,           \* the page was chosen for another query
            busy : BOOLEAN]            \* the visitor is still at it

ListInit ==
  \E kind \in {"url", "local", "portal"}, text \in Texts :
    /\ kind = "local" => text = ""
    /\ list = [kind |-> kind, box |-> text, at |-> Query1(text, All), timer |-> kind # "url", q |-> text,
               way |-> None, shown |-> None, fetch |-> TRUE, meant |-> Query1(text, All),
               crossed |-> FALSE, unheard |-> FALSE, early |-> FALSE, busy |-> TRUE]
-----------------------------------------------------------------------------
OnTheWay == list.way # None

\* The page makes the query q: other rows than those it has are fetched, and
\* the old ones stay on the screen only where keepPreviousData says so.
Asks(l, q) ==
  IF q = l.at THEN l
  ELSE [l EXCEPT !.at = q, !.fetch = TRUE, !.shown = IF l.kind = "portal" THEN None ELSE @,
                 !.early = @ /\ q.page # 1]

\* setParams: from the address as it is, not from the one on its way.
SetParams(l, q) == [l EXCEPT !.way = q, !.crossed = @ \/ l.way # None]

\* The visitor asks for this now.
Meaning(l, text, filter) ==
  [l EXCEPT !.meant = Query1(text, filter), !.unheard = @ /\ text = l.meant.text]
-----------------------------------------------------------------------------
(***************************************************************************)
(* The list of cases in the admin panel.                                   *)
(***************************************************************************)
TypeUrl(x) ==
  /\ list.kind = "url" /\ x # list.box
  /\ list' = [Meaning(list, Trim(x), list.meant.filter) EXCEPT
                !.box = x, !.timer = Trim(x) # list.at.text, !.crossed = @ \/ OnTheWay]

FireUrl ==
  /\ list.kind = "url" /\ list.timer
  /\ list' = SetParams([list EXCEPT !.timer = FALSE], Query1(Trim(list.box), list.at.filter))

FilterUrl(f) ==
  /\ list.kind = "url" /\ f # list.at.filter
  /\ list' = SetParams(Meaning(list, list.meant.text, f), Query1(list.at.text, f))

\* The button of an empty list: the box is empty at once, the address later.
ClearUrl ==
  /\ list.kind = "url"
  /\ list.shown # None /\ list.shown.page > PagesOf[list.shown.text, list.shown.filter]
  /\ list.at # Query1("", All)
  /\ list' = SetParams([Meaning(list, "", All) EXCEPT !.box = "", !.timer = list.at.text # ""], Query1("", All))

\* The effects of the box: it takes over a new text of the address, and the
\* timer starts again whenever the address has changed.
LandUrl ==
  LET q == list.way
      box == IF q.text # list.at.text THEN q.text ELSE list.box
  IN  /\ list.kind = "url" /\ OnTheWay
      /\ list' = [Asks(list, q) EXCEPT
                    !.way = None, !.box = box,
                    !.timer = IF q = list.at THEN @ ELSE Trim(box) # q.text]

HeaderUrl(text) ==
  /\ list.kind = "url"
  /\ list' = SetParams([Meaning(list, text, All) EXCEPT !.crossed = @ \/ list.timer], Query1(text, All))
-----------------------------------------------------------------------------
(***************************************************************************)
(* The lists that keep their query themselves.                             *)
(***************************************************************************)
TypeLocal(x) ==
  /\ list.kind = "local" /\ x # list.box
  /\ list' = [Meaning(list, Trim(x), list.meant.filter) EXCEPT !.box = x, !.timer = TRUE]

\* Fault: the new search starts on the page the last one was on.
FireLocalInPlace ==
  /\ list.kind = "local" /\ list.timer
  /\ list' = Asks([list EXCEPT !.timer = FALSE], [list.at EXCEPT !.text = Trim(list.box)])

FireLocal ==
  /\ list.kind = "local" /\ list.timer
  /\ list' = Asks([list EXCEPT !.timer = FALSE], Query1(Trim(list.box), list.at.filter))

FilterLocal(f) ==
  /\ list.kind \in {"local", "portal"} /\ f # list.at.filter
  /\ list' = Asks(Meaning(list, list.meant.text, f), Query1(list.at.text, f))
-----------------------------------------------------------------------------
(***************************************************************************)
(* The list of cases in the portal.                                        *)
(***************************************************************************)
TypePortal(x) ==
  /\ list.kind = "portal" /\ x # list.box
  /\ list' = [Asks(Meaning(list, Trim(x), list.meant.filter), [list.at EXCEPT !.page = 1]) EXCEPT
                !.box = x, !.timer = TRUE, !.crossed = @ \/ OnTheWay]

\* Nothing is said of the page here.
FirePortal ==
  /\ list.kind = "portal" /\ list.timer
  /\ list' = Asks([list EXCEPT !.timer = FALSE], [list.at EXCEPT !.text = Trim(list.box)])

HeaderPortal(text) ==
  /\ list.kind = "portal"
  /\ list' = SetParams(Meaning(list, text, list.meant.filter), [list.at EXCEPT !.text = text])

\* The effect of a new ?q=; an address that did not change has none.
LandPortal ==
  LET text == list.way.text
  IN  /\ list.kind = "portal" /\ OnTheWay
      /\ list' = IF text = list.q THEN [list EXCEPT !.way = None, !.unheard = TRUE]
                 ELSE [Asks(list, [list.at EXCEPT !.text = text]) EXCEPT
                         !.way = None, !.q = text, !.box = text,
                         !.timer = IF text = list.box THEN @ ELSE TRUE,
                         !.early = list.at.page # 1]
-----------------------------------------------------------------------------
(***************************************************************************)
(* The numbers under the list are those of the rows on the screen, which   *)
(* may be the rows of the last query.                                      *)
(***************************************************************************)
ChoosePage(p) ==
  LET s == list.shown
      q == [list.at EXCEPT !.page = p]
      early == p # 1 /\ (s.text # list.at.text \/ s.filter # list.at.filter \/ list.timer)
  IN  /\ s # None /\ s.page <= PagesOf[s.text, s.filter]
      /\ p # s.page /\ p <= PagesOf[s.text, s.filter]
      /\ list' = [(IF list.kind = "url" THEN SetParams(list, q) ELSE Asks(list, q)) EXCEPT !.early = early]

\* useQuery: an answer belongs to its query, and only that of the page is shown.
ShowRows ==
  /\ list.fetch
  /\ list' = [list EXCEPT !.fetch = FALSE, !.shown = list.at]

RowsFail ==
  /\ list.fetch
  /\ list' = [list EXCEPT !.fetch = FALSE, !.shown = None]

Retry ==
  /\ ~list.fetch /\ list.shown = None
  /\ list' = [list EXCEPT !.fetch = TRUE]

Settled == ~list.timer /\ ~OnTheWay /\ ~list.fetch

Fire == FireUrl \/ FireLocal \/ FirePortal
Land == LandUrl \/ LandPortal

Pauses ==
  /\ list.busy
  /\ list' = [list EXCEPT !.busy = FALSE]

\* The visitor has read what is there, and goes on from it.
ComesBack ==
  LET fresh == list.at.text = Trim(list.box)
  IN  /\ ~list.busy /\ Settled
      /\ list' = [list EXCEPT !.busy = TRUE, !.crossed = @ /\ ~fresh, !.unheard = @ /\ ~fresh,
                    !.meant = IF fresh THEN Query1(list.at.text, list.at.filter) ELSE @]

ListStep ==
  \/ /\ list.busy
     /\ \/ \E x \in Words : TypeUrl(x) \/ TypeLocal(x) \/ TypePortal(x)
        \/ \E f \in Filters : FilterUrl(f) \/ FilterLocal(f)
        \/ \E text \in Texts : HeaderUrl(text) \/ HeaderPortal(text)
        \/ \E p \in Pages : ChoosePage(p)
        \/ ClearUrl \/ Retry
  \/ Pauses \/ ComesBack
  \/ Fire \/ Land \/ ShowRows \/ RowsFail

\* Timers fire, addresses arrive, and requests are answered.
ListFairness == WF_list(Fire) /\ WF_list(Land) /\ WF_list(ShowRows)
-----------------------------------------------------------------------------
(***************************************************************************)
(* Box, address and list agree in the end, although each follows the other *)
(* ("Debounced search box synced to ?search=", admin/cases/page.tsx:54):   *)
(* what was asked for last is what is shown, unless it was asked for       *)
(* before the last thing had come through, or the address said it already; *)
(* and the list is not left past its last page, unless the page was chosen *)
(* for another query.                                                      *)
(***************************************************************************)
ListsShowWhatIsAsked ==
  Settled =>
    /\ list.shown \in {list.at, None}
    /\ list.crossed \/ list.at.text = Trim(list.box)
    /\ list.unheard \/ list.crossed \/ (list.at.text = list.meant.text /\ list.at.filter = list.meant.filter)
    /\ list.early \/ list.at.page = 1 \/ list.at.page <= PagesOf[list.at.text, list.at.filter]

(***************************************************************************)
(* Box and address do not chase one another for ever: once nobody asks for *)
(* anything, timers, addresses and fetches come to an end.                 *)
(***************************************************************************)
ListsSettle == ~list.busy ~> Settled
=============================================================================
