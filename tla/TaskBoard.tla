------------------------------ MODULE TaskBoard ------------------------------
(***************************************************************************)
(* The board of tasks in the browser of one viewer: TaskBoard and          *)
(* TaskStatusActions of the admin panel over the list cached by the query  *)
(* client.  A card that is dragged changes its column at once and snaps    *)
(* back when the server refuses; the buttons wait for the answer.          *)
(*                                                                         *)
(* The server takes a change of status in one step here; its own races are *)
(* in Tasks.  Other users change the same tasks at any time.  The viewer   *)
(* has the rights it takes, the page stays open, and a list has room for   *)
(* all cards.                                                              *)
(***************************************************************************)
EXTENDS Naturals, FiniteSets

CONSTANTS
  Cards,  \* tasks on the board
  Moves,  \* changes of status the viewer may ask for, each once
  MaxByOthers  \* bound on the changes by other users

ASSUME BoardAssumption == Cards # {} /\ MaxByOthers \in Nat

VARIABLES
  card,   \* Task.status
  board,  \* the cached list, with the request for a new one
  move    \* where each change stands

boardVars == <<card, board, move>>

\* TASK_STATUS_TRANSITIONS
Onward ==
  [TODO |-> {"IN_PROGRESS", "CANCELLED"},
   IN_PROGRESS |-> {"TODO", "REVIEW", "CANCELLED"},
   REVIEW |-> {"IN_PROGRESS", "DONE", "CANCELLED"},
   DONE |-> {"CANCELLED"},
   CANCELLED |-> {}]

Columns == {"TODO", "IN_PROGRESS", "REVIEW", "DONE"}
Lists == [Cards -> DOMAIN Onward]
Nothing == [c \in {} |-> "TODO"]

Board ==
  [page : Lists,                             \* the status each card is shown with
   fetch : {"idle", "asked", "answered"},
   answer : Lists \cup {Nothing},
   behind : SUBSET Cards,                    \* changed without the viewer's browser being told
   failed : BOOLEAN,                         \* the last fetch has failed
   others : 0..MaxByOthers]                  \* changes by other users so far

Move ==
  [pc : {"new", "asked", "done", "refused", "over"},
   drag : BOOLEAN,                           \* dragged, or a button pressed
   card : Cards, to : Columns,
   before : Lists \cup {Nothing},            \* what was shown when it was dropped
   steady : BOOLEAN]                         \* nothing newer may have moved the card since

NoMove(pc) ==
  [pc |-> pc, drag |-> FALSE, card |-> CHOOSE c \in Cards : TRUE, to |-> "TODO",
   before |-> Nothing, steady |-> FALSE]

BoardTypeOK == card \in Lists /\ board \in Board /\ move \in [Moves -> Move]

BoardInit ==
  /\ card = [c \in Cards |-> "TODO"]
  /\ board = [page |-> card, fetch |-> "idle", answer |-> Nothing, behind |-> {}, failed |-> FALSE,
              others |-> 0]
  /\ move = [m \in Moves |-> NoMove("new")]
-----------------------------------------------------------------------------
\* invalidateQueries: a request under way is dropped for a new one.
Refetch(b) == [b EXCEPT !.fetch = "asked", !.answer = Nothing]

\* Where m now stands; the moves in unsteady can no longer count on what they showed.
Moved(m, s, unsteady) ==
  [k \in Moves |->
     IF k = m THEN s
     ELSE IF k \in unsteady THEN [move[k] EXCEPT !.steady = FALSE] ELSE move[k]]

UnderWay(m) == move[m].pc \in {"asked", "done", "refused"}
OnCard(c) == {k \in Moves : move[k].card = c}

\* Fault: the lists under way are not cancelled.
DragOverOldList(m, c, to) ==
  /\ move[m].pc = "new" /\ to \in Onward[board.page[c]] \cap Columns
  /\ move' = Moved(m, [pc |-> "asked", drag |-> TRUE, card |-> c, to |-> to,
                       before |-> board.page, steady |-> TRUE], OnCard(c))
  /\ board' = [board EXCEPT !.page[c] = to]
  /\ UNCHANGED card

\* onDragEnd and onMutate: no older list may undo what is shown now.
Drag(m, c, to) ==
  /\ move[m].pc = "new" /\ to \in Onward[board.page[c]] \cap Columns
  /\ move' = Moved(m, [pc |-> "asked", drag |-> TRUE, card |-> c, to |-> to,
                       before |-> board.page, steady |-> TRUE], OnCard(c))
  /\ board' = [board EXCEPT !.page[c] = to, !.fetch = "idle", !.answer = Nothing]
  /\ UNCHANGED card

\* A button of the card; its buttons are disabled until the answer is there.
Press(m, c, to) ==
  /\ \A k \in OnCard(c) : UnderWay(k) => move[k].drag
  /\ move[m].pc = "new" /\ to \in Onward[board.page[c]] \cap Columns
  /\ move' = Moved(m, [pc |-> "asked", drag |-> FALSE, card |-> c, to |-> to,
                       before |-> Nothing, steady |-> FALSE], {})
  /\ UNCHANGED <<card, board>>

\* PATCH /tasks/:id, on the server.
ServeMove(m) ==
  LET c == move[m].card
      ok == move[m].to \in Onward[card[c]] \cup {card[c]}
  IN  /\ move[m].pc = "asked"
      /\ card' = IF ok THEN [card EXCEPT ![c] = move[m].to] ELSE card
      /\ move' = [move EXCEPT ![m].pc = IF ok THEN "done" ELSE "refused"]
      /\ UNCHANGED board

\* The request never arrives, or its answer: an error to the browser.
LoseMove(m) ==
  /\ move[m].pc \in {"asked", "done"}
  /\ move' = [move EXCEPT ![m].pc = "refused"]
  /\ board' = IF move[m].pc = "done" /\ ~move[m].drag
              THEN [board EXCEPT !.behind = @ \cup {move[m].card}] ELSE board
  /\ UNCHANGED card

\* onSuccess, onSettled
MoveAccepted(m) ==
  /\ move[m].pc = "done"
  /\ move' = Moved(m, NoMove("over"), Moves)
  /\ board' = Refetch(board)
  /\ UNCHANGED card

\* Fault: the list is fetched again after a success only.
SnapBackOnly(m) ==
  /\ move[m].pc = "refused"
  /\ move' = Moved(m, NoMove("over"), IF move[m].drag THEN Moves ELSE {})
  /\ board' = IF move[m].drag THEN [board EXCEPT !.page = move[m].before] ELSE board
  /\ UNCHANGED card

\* onError and onSettled: a dragged card snaps back, with all that was shown
\* then, and the list is fetched again; a button only says that it failed.
SnapBack(m) ==
  /\ move[m].pc = "refused"
  /\ move' = Moved(m, NoMove("over"), IF move[m].drag THEN Moves ELSE {})
  /\ board' = IF move[m].drag THEN Refetch([board EXCEPT !.page = move[m].before]) ELSE board
  /\ UNCHANGED card

\* The page is opened again, or connected again.
Reload ==
  /\ board.fetch = "idle"
  /\ board' = Refetch(board)
  /\ move' = [m \in Moves |-> [move[m] EXCEPT !.steady = FALSE]]
  /\ UNCHANGED card

\* GET /tasks, on the server.
ServeList ==
  /\ board.fetch = "asked"
  /\ board' = [board EXCEPT !.fetch = "answered", !.answer = card, !.behind = {}]
  /\ UNCHANGED <<card, move>>

ShowList ==
  /\ board.fetch = "answered"
  /\ board' = [board EXCEPT !.page = board.answer, !.fetch = "idle", !.answer = Nothing, !.failed = FALSE]
  /\ UNCHANGED <<card, move>>

\* The query gives up, after one retry.
ListFails ==
  /\ board.fetch # "idle"
  /\ board' = [board EXCEPT !.fetch = "idle", !.answer = Nothing, !.failed = TRUE]
  /\ UNCHANGED <<card, move>>

\* Somebody else changes the status of a task.
ByOthers(c) ==
  /\ board.others < MaxByOthers
  /\ \E to \in Onward[card[c]] : card' = [card EXCEPT ![c] = to]
  /\ board' = [board EXCEPT !.behind = @ \cup {c}, !.others = @ + 1]
  /\ UNCHANGED move

BoardStep ==
  \/ \E m \in Moves, c \in Cards, to \in Columns : Drag(m, c, to) \/ Press(m, c, to)
  \/ \E m \in Moves : ServeMove(m) \/ LoseMove(m) \/ MoveAccepted(m) \/ SnapBack(m)
  \/ Reload \/ ServeList \/ ShowList \/ ListFails
  \/ \E c \in Cards : ByOthers(c)
-----------------------------------------------------------------------------
(***************************************************************************)
(* "The card changes column at once": while a drag is under way, only      *)
(* something newer may move the card - another drag of it, the end of      *)
(* another change, a reload - and never a list asked for before.           *)
(***************************************************************************)
CardsStayWhereDropped ==
  \A m \in Moves : UnderWay(m) /\ move[m].drag /\ move[m].steady => board.page[move[m].card] = move[m].to

(***************************************************************************)
(* When nothing is under way, the board shows the rows of the server,      *)
(* whatever was refused, lost, snapped back or overtaken: only a change    *)
(* nobody told the browser about, or a failed fetch, leaves it behind.     *)
(***************************************************************************)
BoardTellsTruth ==
  (board.fetch = "idle" /\ ~board.failed /\ \A m \in Moves : ~UnderWay(m)) =>
    \A c \in Cards \ board.behind : board.page[c] = card[c]
=============================================================================
