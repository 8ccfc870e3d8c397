-------------------------------- MODULE Tasks --------------------------------
(***************************************************************************)
(* Staff tasks and the files attached to them: TasksService.create /       *)
(* update / remove, TaskAttachmentsService.upload / remove and the notice  *)
(* of an assignment.                                                       *)
(*                                                                         *)
(* Every write of a task is by id, from what was loaded some awaits        *)
(* before.  An attachment is a row, deleted with its task by the database, *)
(* and an object in the store, deleted by the handler.  Titles, due dates, *)
(* comments and the notices about a new status are left out; the last      *)
(* reminder of a task is in Reminders.                                     *)
(***************************************************************************)
EXTENDS FiniteSets

CONSTANTS
  Tasks,   \* tasks, created or not
  Staff,   \* lawyers and admins
  Admins,  \* the admins among them
  Team,    \* who works on the case of the tasks
  Files,   \* storage keys; an attachment row has the name of its key
  Calls,   \* HTTP requests the server may be working on at a time
  None

ASSUME TasksAssumption ==
  /\ Admins \subseteq Staff /\ Team \subseteq Staff
  /\ None \notin Tasks \cup Staff

VARIABLES
  task,      \* the rows of Task
  rows,      \* the rows of TaskAttachment
  taskOf,    \* TaskAttachment.taskId
  objects,   \* what the store holds
  used,      \* keys drawn so far (randomUUID)
  leftover,  \* files a failed or lost operation has left where they were
  late,      \* attachments deleted with a task that was listed without them
  call       \* where each call stands, with what it read

vars == <<task, rows, taskOf, objects, used, leftover, late, call>>
fileVars == <<rows, taskOf, objects, used, leftover, late>>

Statuses == {"TODO", "IN_PROGRESS", "REVIEW", "DONE", "CANCELLED"}

\* TASK_STATUS_TRANSITIONS; a row that is not there goes nowhere
Transitions ==
  [TODO |-> {"IN_PROGRESS", "CANCELLED"},
   IN_PROGRESS |-> {"TODO", "REVIEW", "CANCELLED"},
   REVIEW |-> {"IN_PROGRESS", "DONE", "CANCELLED"},
   DONE |-> {"CANCELLED"},
   CANCELLED |-> {},
   ABSENT |-> {},
   GONE |-> {}]

Row ==
  [status : Statuses \cup {"ABSENT", "GONE"},
   completed : BOOLEAN,               \* completedAt is set
   assignee : Staff \cup {None},
   creator : Staff \cup {None},
   aware : {"yes", "no", "lost"}]     \* the assignee was told; lost: the notice was

CallState ==
  [pc : {"idle", "writing", "announcing", "listing", "dropping", "clearing",
         "storing", "recording", "discarding", "removing", "deleting"},
   by : Staff \cup {None},
   tsk : Tasks \cup {None},
   to : Statuses \cup {None},      \* the status it is about to write
   who : Staff \cup {None},        \* the assignee it is about to write, or has written
   files : SUBSET Files,           \* the files it has listed, stored or is removing
   overtaken : BOOLEAN]            \* another call has written the task since it loaded

TypeOK ==
  /\ task \in [Tasks -> Row]
  /\ used \subseteq Files /\ rows \subseteq used /\ objects \subseteq used
  /\ leftover \subseteq used /\ late \subseteq used
  /\ taskOf \in [Files -> Tasks \cup {None}]
  /\ call \in [Calls -> CallState]

Blank == [status |-> "ABSENT", completed |-> FALSE, assignee |-> None, creator |-> None,
          aware |-> "yes"]

Idle == [pc |-> "idle", by |-> None, tsk |-> None, to |-> None, who |-> None, files |-> {},
         overtaken |-> FALSE]

Init ==
  /\ task = [t \in Tasks |-> Blank]
  /\ rows = {} /\ objects = {} /\ used = {} /\ leftover = {} /\ late = {}
  /\ taskOf = [f \in Files |-> None]
  /\ call = [c \in Calls |-> Idle]
-----------------------------------------------------------------------------
Exists(t) == task[t].status \in Statuses

\* permissionsFor and assertCanView
Owns(u, t) == u \in Admins \/ u = task[t].creator
MayMove(u, t) == Owns(u, t) \/ u = task[t].assignee
MaySee(u, t) == MayMove(u, t) \/ u \in Team

\* assertAssignable
MayAssign(u, who) == u \in Admins \/ who \in Team

FilesOf(t) == {f \in rows : taskOf[f] = t}

Goes(c, next) == call' = [call EXCEPT ![c] = next]

\* The calls after c has written task t and goes on as `next`.
Written(c, t, next) ==
  [d \in Calls |->
     IF d = c THEN next
     ELSE IF call[d].pc \in {"writing", "listing", "dropping"} /\ call[d].tsk = t
          THEN [call[d] EXCEPT !.overtaken = TRUE]
          ELSE call[d]]

\* The event task.assigned; its listener never writes to the one who acted.
Announcing(u, t, who) ==
  IF who \in {None, u} THEN Idle
  ELSE [Idle EXCEPT !.pc = "announcing", !.tsk = t, !.who = who]

Create(c, u, t, who) ==
  /\ call[c] = Idle
  /\ task[t].status = "ABSENT"
  /\ u \in Admins \cup Team /\ MayAssign(u, who)
  /\ task' = [task EXCEPT ![t] =
                [status |-> "TODO", completed |-> FALSE, assignee |-> who, creator |-> u,
                 aware |-> IF who = u THEN "yes" ELSE "no"]]
  /\ Goes(c, Announcing(u, t, who))
  /\ UNCHANGED fileVars

\* PATCH: to and who are None when the request leaves them as they were loaded.
UpdateRead(c, u, t, to, who) ==
  /\ call[c] = Idle
  /\ Exists(t)
  /\ to # None => to \in Transitions[task[t].status] /\ MayMove(u, t)
  /\ who # None => who # task[t].assignee /\ Owns(u, t) /\ MayAssign(u, who)
  /\ to # None \/ who # None
  /\ Goes(c, [Idle EXCEPT !.pc = "writing", !.by = u, !.tsk = t, !.to = to, !.who = who])
  /\ UNCHANGED <<task, fileVars>>

Moved(row, to) ==
  IF to = None THEN row ELSE [row EXCEPT !.status = to, !.completed = (to = "DONE")]

Assigned(row, u, who) ==
  IF who = None THEN row
  ELSE [row EXCEPT !.assignee = who, !.aware = IF who = u THEN "yes" ELSE "no"]

\* Fault: a new status alone is announced, a new assignee is not.
UpdateWriteUntold(c) ==
  LET k == call[c]
      t == k.tsk
  IN  /\ k.pc = "writing"
      /\ Exists(t)
      /\ task' = [task EXCEPT ![t] = Assigned(Moved(task[t], k.to), k.by, k.who)]
      /\ call' = Written(c, t, IF k.to # None THEN Idle ELSE Announcing(k.by, t, k.who))
      /\ UNCHANGED fileVars

UpdateWrite(c) ==
  LET k == call[c]
      t == k.tsk
  IN  /\ k.pc = "writing"
      /\ Exists(t)
      /\ task' = [task EXCEPT ![t] = Assigned(Moved(task[t], k.to), k.by, k.who)]
      /\ call' = Written(c, t, Announcing(k.by, t, k.who))
      /\ UNCHANGED fileVars

\* The row is gone by now: 404.
UpdateMisses(c) ==
  /\ call[c].pc = "writing"
  /\ ~ Exists(call[c].tsk)
  /\ Goes(c, Idle)
  /\ UNCHANGED <<task, fileVars>>

Tell(c, aware) ==
  LET t == call[c].tsk
      mine == task[t].assignee = call[c].who /\ task[t].aware = "no"
  IN  /\ call[c].pc = "announcing"
      /\ task' = IF mine THEN [task EXCEPT ![t] = [task[t] EXCEPT !.aware = aware]] ELSE task
      /\ Goes(c, Idle)
      /\ UNCHANGED fileVars
-----------------------------------------------------------------------------
(***************************************************************************)
(* remove: load the task, list its attachments, delete the row and with it *)
(* theirs (onDelete: Cascade), then the objects of the list.               *)
(***************************************************************************)
\* Fault: anyone who sees the task may delete it.
RemoveReadByAnyone(c, u, t) ==
  /\ call[c] = Idle
  /\ Exists(t) /\ MaySee(u, t)
  /\ Goes(c, [Idle EXCEPT !.pc = "listing", !.by = u, !.tsk = t])
  /\ UNCHANGED <<task, fileVars>>

RemoveRead(c, u, t) ==
  /\ call[c] = Idle
  /\ Exists(t) /\ MaySee(u, t) /\ Owns(u, t)
  /\ Goes(c, [Idle EXCEPT !.pc = "listing", !.by = u, !.tsk = t])
  /\ UNCHANGED <<task, fileVars>>

RemoveList(c) ==
  /\ call[c].pc = "listing"
  /\ Goes(c, [call[c] EXCEPT !.pc = "dropping", !.files = FilesOf(call[c].tsk)])
  /\ UNCHANGED <<task, fileVars>>

\* The objects still to go, one after the other.
Clearing(pc, F) == IF F = {} THEN Idle ELSE [Idle EXCEPT !.pc = pc, !.files = F]

RemoveRow(c) ==
  LET t == call[c].tsk
  IN  /\ call[c].pc = "dropping"
      /\ Exists(t)
      /\ task' = [task EXCEPT ![t] = [Blank EXCEPT !.status = "GONE"]]
      /\ rows' = rows \ FilesOf(t)
      /\ late' = late \cup (FilesOf(t) \ call[c].files)
      /\ call' = Written(c, t, Clearing("clearing", call[c].files))
      /\ UNCHANGED <<taskOf, objects, used, leftover>>

RemoveMisses(c) ==
  /\ call[c].pc \in {"listing", "dropping"}
  /\ ~ Exists(call[c].tsk)
  /\ Goes(c, Idle)
  /\ UNCHANGED <<task, fileVars>>

\* Fault: only the first object is discarded.
ClearFirst(c, f) ==
  /\ call[c].pc \in {"clearing", "discarding"}
  /\ f \in call[c].files
  /\ objects' = objects \ {f}
  /\ Goes(c, Idle)
  /\ UNCHANGED <<task, rows, taskOf, used, leftover, late>>

\* One object of a deleted task, or of an upload that failed, is discarded.
Clear(c, f) ==
  /\ call[c].pc \in {"clearing", "discarding"}
  /\ f \in call[c].files
  /\ objects' = objects \ {f}
  /\ Goes(c, Clearing(call[c].pc, call[c].files \ {f}))
  /\ UNCHANGED <<task, rows, taskOf, used, leftover, late>>

ClearFails(c, f) ==
  /\ call[c].pc \in {"clearing", "discarding"}
  /\ f \in call[c].files
  /\ leftover' = leftover \cup {f}
  /\ Goes(c, Clearing(call[c].pc, call[c].files \ {f}))
  /\ UNCHANGED <<task, rows, taskOf, objects, used, late>>
-----------------------------------------------------------------------------
\* Fault: the key is the name of the file, so it may be taken.
UploadReadNamed(c, u, t, f) ==
  /\ call[c] = Idle
  /\ Exists(t) /\ MaySee(u, t)
  /\ Goes(c, [Idle EXCEPT !.pc = "storing", !.tsk = t, !.files = {f}])
  /\ UNCHANGED <<task, fileVars>>

\* upload: the object first, then its row; a failed row discards the object.
UploadRead(c, u, t, f) ==
  /\ call[c] = Idle
  /\ f \notin used
  /\ Exists(t) /\ MaySee(u, t)
  /\ Goes(c, [Idle EXCEPT !.pc = "storing", !.tsk = t, !.files = {f}])
  /\ used' = used \cup {f}
  /\ UNCHANGED <<task, rows, taskOf, objects, leftover, late>>

Store(c) ==
  /\ call[c].pc = "storing"
  /\ objects' = objects \cup call[c].files
  /\ Goes(c, [call[c] EXCEPT !.pc = "recording"])
  /\ UNCHANGED <<task, rows, taskOf, used, leftover, late>>

\* The store refuses, or takes the file and the answer is lost.
StoreFails(c) ==
  /\ call[c].pc = "storing"
  /\ objects' \in {objects, objects \cup call[c].files}
  /\ leftover' = leftover \cup call[c].files
  /\ Goes(c, Idle)
  /\ UNCHANGED <<task, rows, taskOf, used, late>>

Record(c) ==
  LET t == call[c].tsk
  IN  /\ call[c].pc = "recording"
      /\ Exists(t)
      /\ rows' = rows \cup call[c].files
      /\ taskOf' = [f \in Files |-> IF f \in call[c].files THEN t ELSE taskOf[f]]
      /\ Goes(c, Idle)
      /\ UNCHANGED <<task, objects, used, leftover, late>>

\* Fault: the object of a row that was refused is left in the store.
RecordFailsKeeping(c) ==
  /\ call[c].pc = "recording"
  /\ Goes(c, Idle)
  /\ UNCHANGED <<task, fileVars>>

\* The task is gone (foreign key), or the database is.
RecordFails(c) ==
  /\ call[c].pc = "recording"
  /\ Goes(c, Clearing("discarding", call[c].files))
  /\ UNCHANGED <<task, fileVars>>

\* Removal of one attachment: the object first, whether or not it is there.
DetachRead(c, f) ==
  /\ call[c] = Idle
  /\ f \in rows
  /\ Goes(c, [Idle EXCEPT !.pc = "removing", !.files = {f}])
  /\ UNCHANGED <<task, fileVars>>

DetachObject(c) ==
  /\ call[c].pc = "removing"
  /\ \/ objects' = objects \ call[c].files /\ UNCHANGED leftover
     \/ UNCHANGED objects /\ leftover' = leftover \cup call[c].files
  /\ Goes(c, [call[c] EXCEPT !.pc = "deleting"])
  /\ UNCHANGED <<task, rows, taskOf, used, late>>

DetachRow(c) ==
  /\ call[c].pc = "deleting"
  /\ rows' = rows \ call[c].files
  /\ Goes(c, Idle)
  /\ UNCHANGED <<task, taskOf, objects, used, leftover, late>>

DetachRowFails(c) ==
  /\ call[c].pc = "deleting"
  /\ leftover' = leftover \cup call[c].files
  /\ Goes(c, Idle)
  /\ UNCHANGED <<task, rows, taskOf, objects, used, late>>

\* Files a call has in hand.
Held == UNION {call[c].files : c \in Calls}

Crash ==
  /\ call' = [c \in Calls |-> Idle]
  /\ leftover' = leftover \cup Held
  /\ task' = [t \in Tasks |-> IF task[t].aware = "no" THEN [task[t] EXCEPT !.aware = "lost"]
                              ELSE task[t]]
  /\ UNCHANGED <<rows, taskOf, objects, used, late>>
-----------------------------------------------------------------------------
Start(c) ==
  \/ \E u \in Staff, t \in Tasks :
       \/ \E who \in Staff : Create(c, u, t, who)
       \/ \E to \in Statuses \cup {None}, who \in Staff \cup {None} : UpdateRead(c, u, t, to, who)
       \/ RemoveRead(c, u, t)
       \/ \E f \in Files : UploadRead(c, u, t, f)
  \/ \E f \in Files : DetachRead(c, f)

Resume(c) ==
  \/ UpdateWrite(c) \/ UpdateMisses(c) \/ Tell(c, "yes") \/ Tell(c, "lost")
  \/ RemoveList(c) \/ RemoveRow(c) \/ RemoveMisses(c)
  \/ Store(c) \/ StoreFails(c) \/ Record(c) \/ RecordFails(c)
  \/ DetachObject(c) \/ DetachRow(c) \/ DetachRowFails(c)
  \/ \E f \in Files : Clear(c, f) \/ ClearFails(c, f)

Next == (\E c \in Calls : Start(c) \/ Resume(c)) \/ Crash

Spec == Init /\ [][Next]_vars
-----------------------------------------------------------------------------
(***************************************************************************)
(* Whoever is responsible for a task knows: once no call is announcing an  *)
(* assignment, the present assignee took the task over or has been told    *)
(* of it, however reassignments overlapped - unless the notice was lost.   *)
(* And completedAt is there exactly while the task is DONE ("DONE sets     *)
(* completedAt"), so the two never contradict one another after a race.    *)
(***************************************************************************)
TheAssigneeKnows ==
  \A t \in Tasks :
    /\ task[t].aware = "no" =>
         \E c \in Calls : call[c].pc = "announcing" /\ call[c].tsk = t
                            /\ call[c].who = task[t].assignee
    /\ task[t].completed <=> task[t].status = "DONE"

\* The step in which call c writes task t.
Writes(c, t) ==
  call[c].tsk = t /\ call[c].pc \in {"writing", "dropping"} /\ call'[c].pc # call[c].pc /\ Exists(t)

(***************************************************************************)
(* The table of transitions is kept, CANCELLED is final, and only those    *)
(* who may do so move, reassign or delete a task: all of this unless the   *)
(* task was written between the load of the call and its own write.        *)
(***************************************************************************)
OnlyOvertakenCallsBreakTheTask ==
  [][\A t \in Tasks, c \in Calls :
       LET u == call[c].by
       IN  (Writes(c, t) /\ ~ call[c].overtaken) =>
             \/ task'[t].status = "GONE" /\ Owns(u, t)
             \/ /\ task'[t].status # task[t].status =>
                     task'[t].status \in Transitions[task[t].status] /\ MayMove(u, t)
                /\ task'[t].assignee # task[t].assignee => Owns(u, t)]_vars

(***************************************************************************)
(* "Removed with the task": rows and objects agree on every attachment no  *)
(* call has in hand, unless its storing or removal has failed, or it was   *)
(* recorded between the listing of the attachments and the deletion of     *)
(* its task.  An upload that loses its race to the deletion, and one that  *)
(* wins it before the listing, leave nothing behind.                       *)
(***************************************************************************)
AttachmentsAgree ==
  \A f \in used \ (Held \cup leftover \cup late) : f \in rows <=> f \in objects
=============================================================================
