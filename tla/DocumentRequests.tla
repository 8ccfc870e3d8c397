-------------------------- MODULE DocumentRequests --------------------------
(***************************************************************************)
(* Document requests, documents and the files behind them:                 *)
(* DocumentRequestsService.create / update / remove / submit / review and  *)
(* DocumentsService.upload / remove / storeFile / discardStored.           *)
(*                                                                         *)
(* A document is a row in PostgreSQL and an object in the store, written   *)
(* and deleted one after the other; either system may fail, a call may be  *)
(* carried out and its answer lost, and the process may die in between.    *)
(* The status of a request is written under its old value; its wording     *)
(* and its deletion are not.  Who may call, the size and type of a file    *)
(* and the texts of notices are left out.                                  *)
(***************************************************************************)
CONSTANTS
  Requests,  \* document requests, created or not
  Files,     \* storage keys; a document row has the name of its key
  Calls,     \* HTTP requests the server may be working on at a time
  None

ASSUME DocumentRequestsAssumption == None \notin Requests

VARIABLES
  request,   \* the rows of DocumentRequest
  rows,      \* the rows of Document
  answers,   \* Document.requestId
  objects,   \* what the store holds
  used,      \* keys drawn so far (randomUUID)
  answered,  \* files that were recorded as part of an answer
  leftover,  \* files a failed or lost operation has left where they were
  call,      \* where each call stands, with what it read
  told       \* notifications created: request and kind

vars == <<request, rows, answers, objects, used, answered, leftover, call, told>>

Statuses == {"PENDING", "SUBMITTED", "UNDER_REVIEW", "APPROVED", "REJECTED"}

\* DOCUMENT_REQUEST_STATUS_TRANSITIONS; a row that is not there goes nowhere
Transitions ==
  [PENDING |-> {"SUBMITTED"},
   SUBMITTED |-> {"UNDER_REVIEW", "APPROVED", "REJECTED"},
   UNDER_REVIEW |-> {"APPROVED", "REJECTED"},
   REJECTED |-> {"SUBMITTED"},
   APPROVED |-> {},
   ABSENT |-> {},
   GONE |-> {}]

\* DOCUMENT_REQUEST_EDITABLE_STATUSES
Editable == {"PENDING", "REJECTED"}
Kinds == {"created", "submitted", "approved", "rejected"}

Row ==
  [status : Statuses \cup {"ABSENT", "GONE"},
   reason : BOOLEAN,    \* rejectionReason is set
   reviewed : BOOLEAN,  \* reviewedAt is set
   late : BOOLEAN]      \* reworded when the client had already answered

CallState ==
  [pc : {"idle", "editing", "dropping", "storing", "recording", "inserting", "discarding",
         "reviewing", "removing", "deleting", "announcing"},
   req : Requests \cup {None},
   read : Statuses \cup {None},    \* the status the handler loaded
   to : Statuses \cup {None},      \* the decision it is about to write
   todo : SUBSET Files,            \* files still to store
   stored : SUBSET Files,          \* files it has stored, or is removing
   unheard : BOOLEAN,              \* its commit went through, it was told it failed
   overtaken : BOOLEAN,            \* another call has moved the request since it loaded
   kind : Kinds \cup {None}]

TypeOK ==
  /\ request \in [Requests -> Row]
  /\ used \subseteq Files /\ rows \subseteq used /\ objects \subseteq used
  /\ leftover \subseteq used /\ answered \subseteq used
  /\ answers \in [Files -> Requests \cup {None}]
  /\ call \in [Calls -> CallState]
  /\ told \subseteq Requests \X Kinds

Idle == [pc |-> "idle", req |-> None, read |-> None, to |-> None, todo |-> {}, stored |-> {},
         unheard |-> FALSE, overtaken |-> FALSE, kind |-> None]

Loaded(pc, r) == [Idle EXCEPT !.pc = pc, !.req = r, !.read = request[r].status]

Announcing(r, k) == [Idle EXCEPT !.pc = "announcing", !.req = r, !.kind = k]

Blank == [status |-> "ABSENT", reason |-> FALSE, reviewed |-> FALSE, late |-> FALSE]

Init ==
  /\ request = [r \in Requests |-> Blank]
  /\ rows = {} /\ objects = {} /\ used = {} /\ answered = {} /\ leftover = {}
  /\ answers = [f \in Files |-> None]
  /\ call = [c \in Calls |-> Idle]
  /\ told = {}
-----------------------------------------------------------------------------
Exists(r) == request[r].status \in Statuses

AnswerOf(r) == {f \in rows : answers[f] = r}

\* The calls after c has moved request r and goes on as `next`.
Moved(c, r, next) ==
  [d \in Calls |->
     IF d = c THEN next
     ELSE IF call[d].pc \in {"editing", "dropping"} /\ call[d].req = r
          THEN [call[d] EXCEPT !.overtaken = TRUE]
          ELSE call[d]]

Goes(c, next) == call' = [call EXCEPT ![c] = next]

Create(c, r) ==
  /\ call[c] = Idle
  /\ request[r].status = "ABSENT"
  /\ request' = [request EXCEPT ![r] = [request[r] EXCEPT !.status = "PENDING"]]
  /\ Goes(c, Announcing(r, "created"))
  /\ UNCHANGED <<rows, answers, objects, used, answered, leftover, told>>

\* PATCH: the wording or the deadline; the write is by id.
EditRead(c, r) ==
  /\ call[c] = Idle
  /\ request[r].status \in Editable
  /\ Goes(c, Loaded("editing", r))
  /\ UNCHANGED <<request, rows, answers, objects, used, answered, leftover, told>>

EditWrite(c) ==
  LET r == call[c].req
      late == request[r].late \/ (Exists(r) /\ request[r].status \notin Editable)
  IN  /\ call[c].pc = "editing"
      /\ request' = [request EXCEPT ![r] = [request[r] EXCEPT !.late = late]]
      /\ Goes(c, Idle)
      /\ UNCHANGED <<rows, answers, objects, used, answered, leftover, told>>

\* Fault: the attached files are not counted.
DropReadUncounted(c, r) ==
  /\ call[c] = Idle
  /\ Exists(r)
  /\ Goes(c, Loaded("dropping", r))
  /\ UNCHANGED <<request, rows, answers, objects, used, answered, leftover, told>>

\* DELETE of a request: refused when files are attached, then by id.
DropRead(c, r) ==
  /\ call[c] = Idle
  /\ Exists(r)
  /\ AnswerOf(r) = {}
  /\ Goes(c, Loaded("dropping", r))
  /\ UNCHANGED <<request, rows, answers, objects, used, answered, leftover, told>>

\* Document.request is onDelete: SetNull.  A row that is gone is a 404.
DropWrite(c) ==
  LET r == call[c].req
  IN  /\ call[c].pc = "dropping"
      /\ request' = [request EXCEPT ![r] = [Blank EXCEPT !.status = "GONE"]]
      /\ answers' = [f \in Files |-> IF answers[f] = r THEN None ELSE answers[f]]
      /\ call' = Moved(c, r, Idle)
      /\ UNCHANGED <<rows, objects, used, answered, leftover, told>>
-----------------------------------------------------------------------------
(***************************************************************************)
(* submit: store the files one by one, then record them together with the  *)
(* new status; if anything fails, discard what was stored.                 *)
(***************************************************************************)
\* Fault: the key is made of the name of the file, so it may be taken.
SubmitReadNamed(c, r, F) ==
  /\ call[c] = Idle
  /\ F # {}
  /\ Exists(r) /\ "SUBMITTED" \in Transitions[request[r].status]
  /\ Goes(c, [Loaded("storing", r) EXCEPT !.todo = F])
  /\ UNCHANGED <<request, rows, answers, objects, used, answered, leftover, told>>

SubmitRead(c, r, F) ==
  /\ call[c] = Idle
  /\ F # {} /\ F \cap used = {}
  /\ Exists(r) /\ "SUBMITTED" \in Transitions[request[r].status]
  /\ Goes(c, [Loaded("storing", r) EXCEPT !.todo = F])
  /\ used' = used \cup F
  /\ UNCHANGED <<request, rows, answers, objects, answered, leftover, told>>

\* upload: a document outside any request.
UploadRead(c, f) ==
  /\ call[c] = Idle
  /\ f \notin used
  /\ Goes(c, [Idle EXCEPT !.pc = "storing", !.todo = {f}])
  /\ used' = used \cup {f}
  /\ UNCHANGED <<request, rows, answers, objects, answered, leftover, told>>

\* Where a call goes once its last file is stored.
AfterStoring(k) ==
  IF k.todo # {} THEN "storing" ELSE IF k.req = None THEN "inserting" ELSE "recording"

Store(c, f) ==
  LET k == [call[c] EXCEPT !.todo = call[c].todo \ {f}, !.stored = call[c].stored \cup {f}]
  IN  /\ call[c].pc = "storing"
      /\ f \in call[c].todo
      /\ objects' = objects \cup {f}
      /\ Goes(c, [k EXCEPT !.pc = AfterStoring(k)])
      /\ UNCHANGED <<request, rows, answers, used, answered, leftover, told>>

\* What a failed submission does: remove the objects it knows it has stored.
Discarding(k) ==
  IF k.stored = {} THEN Idle ELSE [Idle EXCEPT !.pc = "discarding", !.stored = k.stored,
                                              !.unheard = k.unheard]

\* The store refuses, or takes the file and the answer is lost.
StoreFails(c, f) ==
  /\ call[c].pc = "storing"
  /\ f \in call[c].todo
  /\ objects' \in {objects, objects \cup {f}}
  /\ leftover' = leftover \cup {f}
  /\ Goes(c, IF call[c].req = None THEN Idle ELSE Discarding(call[c]))
  /\ UNCHANGED <<request, rows, answers, used, answered, told>>

\* Fault: the old review stays on the request.
AnsweredKeeping(row) == [row EXCEPT !.status = "SUBMITTED"]

Answered(row) == [row EXCEPT !.status = "SUBMITTED", !.reason = FALSE, !.reviewed = FALSE]

\* The transaction of submit: status under its old value, then the rows.
Recorded(c) ==
  LET r == call[c].req
  IN  /\ call[c].pc = "recording"
      /\ request[r].status = call[c].read
      /\ request' = [request EXCEPT ![r] = Answered(request[r])]
      /\ rows' = rows \cup call[c].stored
      /\ answers' = [f \in Files |-> IF f \in call[c].stored THEN r ELSE answers[f]]
      /\ answered' = answered \cup call[c].stored

Record(c) ==
  /\ Recorded(c)
  /\ call' = Moved(c, call[c].req, Announcing(call[c].req, "submitted"))
  /\ UNCHANGED <<objects, used, leftover, told>>

\* It was committed, but the server only saw the connection break.
RecordUnheard(c) ==
  /\ Recorded(c)
  /\ call' = Moved(c, call[c].req, Discarding([call[c] EXCEPT !.unheard = TRUE]))
  /\ leftover' = leftover \cup call[c].stored
  /\ UNCHANGED <<objects, used, told>>

\* Fault: a submission that lost its race forgets its files.
RecordLostKeeping(c) ==
  /\ call[c].pc = "recording"
  /\ request[call[c].req].status # call[c].read
  /\ Goes(c, Idle)
  /\ UNCHANGED <<request, rows, answers, objects, used, answered, leftover, told>>

\* 409: someone else moved the request.
RecordLost(c) ==
  /\ call[c].pc = "recording"
  /\ request[call[c].req].status # call[c].read
  /\ Goes(c, Discarding(call[c]))
  /\ UNCHANGED <<request, rows, answers, objects, used, answered, leftover, told>>

RecordFails(c) ==
  /\ call[c].pc = "recording"
  /\ Goes(c, Discarding(call[c]))
  /\ UNCHANGED <<request, rows, answers, objects, used, answered, leftover, told>>

\* Fault: the cleanup removes the first file only.
DiscardFirst(c, f) ==
  /\ call[c].pc = "discarding"
  /\ f \in call[c].stored
  /\ objects' = objects \ {f}
  /\ Goes(c, Idle)
  /\ UNCHANGED <<request, rows, answers, used, answered, leftover, told>>

\* Fault: the cleanup removes every file that has ever answered a request.
DiscardAll(c, f) ==
  /\ call[c].pc = "discarding"
  /\ f \in call[c].stored
  /\ objects' = objects \ (answered \cup {f})
  /\ Goes(c, Discarding([call[c] EXCEPT !.stored = call[c].stored \ {f}]))
  /\ UNCHANGED <<request, rows, answers, used, answered, leftover, told>>

\* discardStored, one key after the other, best effort.
Discard(c, f) ==
  /\ call[c].pc = "discarding"
  /\ f \in call[c].stored
  /\ objects' = objects \ {f}
  /\ Goes(c, Discarding([call[c] EXCEPT !.stored = call[c].stored \ {f}]))
  /\ UNCHANGED <<request, rows, answers, used, answered, leftover, told>>

DiscardFails(c, f) ==
  /\ call[c].pc = "discarding"
  /\ f \in call[c].stored
  /\ leftover' = leftover \cup {f}
  /\ Goes(c, Discarding([call[c] EXCEPT !.stored = call[c].stored \ {f}]))
  /\ UNCHANGED <<request, rows, answers, objects, used, answered, told>>

Insert(c) ==
  /\ call[c].pc = "inserting"
  /\ rows' = rows \cup call[c].stored
  /\ Goes(c, Idle)
  /\ UNCHANGED <<request, answers, objects, used, answered, leftover, told>>

\* upload has no cleanup: the object stays, with or without its row.
InsertFails(c) ==
  /\ call[c].pc = "inserting"
  /\ rows' \in {rows, rows \cup call[c].stored}
  /\ leftover' = leftover \cup call[c].stored
  /\ Goes(c, Idle)
  /\ UNCHANGED <<request, answers, objects, used, answered, told>>
-----------------------------------------------------------------------------
\* Removal of a document: the object first, then the row.
RemoveRead(c, f) ==
  /\ call[c] = Idle
  /\ f \in rows
  /\ Goes(c, [Idle EXCEPT !.pc = "removing", !.stored = {f}])
  /\ UNCHANGED <<request, rows, answers, objects, used, answered, leftover, told>>

RemoveObject(c) ==
  /\ call[c].pc = "removing"
  /\ \/ objects' = objects \ call[c].stored /\ UNCHANGED leftover
     \/ UNCHANGED objects /\ leftover' = leftover \cup call[c].stored
  /\ Goes(c, [call[c] EXCEPT !.pc = "deleting"])
  /\ UNCHANGED <<request, rows, answers, used, answered, told>>

RemoveRow(c) ==
  /\ call[c].pc = "deleting"
  /\ rows' = rows \ call[c].stored
  /\ answers' = [f \in Files |-> IF f \in call[c].stored THEN None ELSE answers[f]]
  /\ Goes(c, Idle)
  /\ UNCHANGED <<request, objects, used, answered, leftover, told>>

RemoveRowFails(c) ==
  /\ call[c].pc = "deleting"
  /\ leftover' = leftover \cup call[c].stored
  /\ Goes(c, Idle)
  /\ UNCHANGED <<request, rows, answers, objects, used, answered, told>>
-----------------------------------------------------------------------------
\* review: a decision of the staff, written under the status it loaded.
ReviewRead(c, r, to) ==
  /\ call[c] = Idle
  /\ to \in Transitions[request[r].status] \ {"SUBMITTED"}
  /\ Goes(c, [Loaded("reviewing", r) EXCEPT !.to = to])
  /\ UNCHANGED <<request, rows, answers, objects, used, answered, leftover, told>>

Reviewed(row, to) ==
  [row EXCEPT !.status = to, !.reason = (to = "REJECTED"), !.reviewed = (to # "UNDER_REVIEW")]

\* Taking a request under review is not announced.
AfterReview(r, to) ==
  IF to = "UNDER_REVIEW" THEN Idle
  ELSE Announcing(r, IF to = "APPROVED" THEN "approved" ELSE "rejected")

\* Fault: the decision is written by id.
ReviewWriteById(c) ==
  LET r == call[c].req
  IN  /\ call[c].pc = "reviewing"
      /\ Exists(r)
      /\ request' = [request EXCEPT ![r] = Reviewed(request[r], call[c].to)]
      /\ call' = Moved(c, r, AfterReview(r, call[c].to))
      /\ UNCHANGED <<rows, answers, objects, used, answered, leftover, told>>

ReviewWrite(c) ==
  LET r == call[c].req
  IN  /\ call[c].pc = "reviewing"
      /\ request[r].status = call[c].read
      /\ request' = [request EXCEPT ![r] = Reviewed(request[r], call[c].to)]
      /\ call' = Moved(c, r, AfterReview(r, call[c].to))
      /\ UNCHANGED <<rows, answers, objects, used, answered, leftover, told>>

ReviewLost(c) ==
  /\ call[c].pc = "reviewing"
  /\ request[call[c].req].status # call[c].read
  /\ Goes(c, Idle)
  /\ UNCHANGED <<request, rows, answers, objects, used, answered, leftover, told>>

\* The notice, unless its insert fails or the row to announce is gone by now.
Announce(c) ==
  /\ call[c].pc = "announcing"
  /\ \/ told' = told \cup {<<call[c].req, call[c].kind>>}
     \/ UNCHANGED told
  /\ Goes(c, Idle)
  /\ UNCHANGED <<request, rows, answers, objects, used, answered, leftover>>

\* Files a call is storing, recording, discarding or removing.
Held == UNION {call[c].todo \cup call[c].stored : c \in Calls}

Crash ==
  /\ call' = [c \in Calls |-> Idle]
  /\ leftover' = leftover \cup Held
  /\ UNCHANGED <<request, rows, answers, objects, used, answered, told>>
-----------------------------------------------------------------------------
Resume(c) ==
  \/ EditWrite(c) \/ DropWrite(c)
  \/ \E f \in Files : Store(c, f) \/ StoreFails(c, f) \/ Discard(c, f) \/ DiscardFails(c, f)
  \/ Record(c) \/ RecordUnheard(c) \/ RecordLost(c) \/ RecordFails(c)
  \/ Insert(c) \/ InsertFails(c)
  \/ RemoveObject(c) \/ RemoveRow(c) \/ RemoveRowFails(c)
  \/ ReviewWrite(c) \/ ReviewLost(c) \/ Announce(c)

Start(c) ==
  \/ \E r \in Requests :
       \/ Create(c, r) \/ EditRead(c, r) \/ DropRead(c, r)
       \/ \E F \in SUBSET Files : SubmitRead(c, r, F)
       \/ \E to \in Statuses : ReviewRead(c, r, to)
  \/ \E f \in Files : UploadRead(c, f) \/ RemoveRead(c, f)

Next == (\E c \in Calls : Start(c) \/ Resume(c)) \/ Crash

Spec == Init /\ [][Next]_vars

\* Node resumes a handler once the database or the store has answered or failed.
Fairness == \A c \in Calls : WF_vars(Resume(c))

FairSpec == Spec /\ Fairness
-----------------------------------------------------------------------------
(***************************************************************************)
(* Rows and objects agree on every file that no call has in hand, except   *)
(* for files whose storing, discarding or removal has itself failed.  In   *)
(* particular a submission that lost its race to a review, to another      *)
(* submission or to the deletion of the request leaves nothing behind.     *)
(***************************************************************************)
RowsAndObjectsAgree ==
  \A f \in used \ (Held \cup leftover) : f \in rows <=> f \in objects

(***************************************************************************)
(* Whatever fails, a document in the list loses its file only to a removal *)
(* of that very document, or to the cleanup of a submission that was       *)
(* committed without the server hearing of it.                             *)
(***************************************************************************)
OnlyRemovalTakesTheFile ==
  [][\A f \in Files :
       (f \in rows' \ objects' /\ ~ f \in rows \ objects) =>
         \E c \in Calls :
           /\ f \in call[c].stored
           /\ call[c].pc = "removing" \/ (call[c].pc = "discarding" /\ call[c].unheard)]_vars

(***************************************************************************)
(* The review on a request is the one its status speaks of: a reason only  *)
(* while REJECTED, a date only after a decision, none of either left from  *)
(* an earlier round; and a client told of an approval has one.             *)
(***************************************************************************)
ReviewTellsStatus ==
  \A r \in Requests : Exists(r) =>
    /\ request[r].reason <=> request[r].status = "REJECTED"
    /\ request[r].reviewed <=> request[r].status \in {"APPROVED", "REJECTED"}
    /\ <<r, "approved">> \in told => request[r].status = "APPROVED"

(***************************************************************************)
(* "Only requests without any attached file can be deleted", and a request *)
(* is reworded only "while the client still has to act": both hold unless  *)
(* the request moved between the load of the call and its write.           *)
(***************************************************************************)
OnlyOvertakenCallsPassTheClient ==
  [][\A r \in Requests :
       LET dropped == Exists(r) /\ request'[r].status = "GONE"
           reworded == request'[r].late /\ ~ request[r].late
       IN  ((dropped /\ AnswerOf(r) # {}) \/ reworded) =>
             \E c \in Calls : call[c].req = r /\ call[c].overtaken /\ call'[c] = Idle]_vars

(***************************************************************************)
(* The files of a submission that did not go through are removed in the    *)
(* end, unless the removal itself fails or the process dies.               *)
(***************************************************************************)
DiscardedFilesGo ==
  \A f \in Files :
    (\E c \in Calls : call[c].pc = "discarding" /\ f \in call[c].stored)
      ~> (f \notin objects \/ f \in leftover)

Promise == INSTANCE SubmissionPromise
             WITH status <- [r \in Requests |-> request[r].status],
                  answer <- [r \in Requests |-> AnswerOf(r)],
                  seen <- answered

(***************************************************************************)
(* Refinement: the table of transitions is kept under every interleaving,  *)
(* and an answer becomes visible whole, in one step with its status.       *)
(***************************************************************************)
KeepsThePromise == Promise!Spec
=============================================================================
