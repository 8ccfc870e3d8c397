----------------------------- MODULE TasksProofs -----------------------------
(***************************************************************************)
(* Proofs about Tasks, for any tasks, staff, teams, files and number of    *)
(* calls in flight: what a call holds, the rows and objects of             *)
(* attachments, who has been told of a task, and what a call that nobody   *)
(* overtook may do to it.                                                  *)
(***************************************************************************)
EXTENDS Tasks, TLAPS

\* The file of an upload: nobody else has it, and no row is there yet.
Own(k) == IF k.pc \in {"storing", "recording", "discarding"} THEN k.files ELSE {}

\* The locals of a call are what the step it stands at needs.
Sensible(k) ==
  /\ k \in CallState
  /\ k.pc \in {"writing", "listing", "dropping"} => k.by \in Staff
  /\ k.pc \in {"writing", "announcing", "listing", "dropping", "storing", "recording"} =>
       k.tsk \in Tasks
  /\ k.pc \in {"idle", "clearing", "discarding", "removing", "deleting"} => k.tsk = None
  /\ k.pc = "announcing" => k.who \in Staff
  /\ k.pc \in {"idle", "writing", "announcing", "listing"} => k.files = {}

TypeInv ==
  /\ TypeOK
  /\ \A c \in Calls : Sensible(call[c]) /\ call[c].files \subseteq used

OwnFilesNew ==
  \A c \in Calls, f \in Files : f \in Own(call[c]) =>
    /\ f \notin rows
    /\ f \in objects <=> call[c].pc # "storing"
    /\ \A d \in Calls \ {c} : f \notin call[d].files

\* Files of the attachments that a removal has listed, or has in hand.
OldFilesKnown ==
  \A c \in Calls, f \in Files : f \in call[c].files =>
    /\ call[c].pc = "dropping" => taskOf[f] = call[c].tsk
    /\ call[c].pc = "clearing" => f \notin rows
    /\ call[c].pc = "deleting" => f \notin objects \/ f \in leftover

\* A file is in the hand of a call that will still do something about it.
Busy(f) == \E c \in Calls : call[c].pc # "dropping" /\ f \in call[c].files

\* More than AttachmentsAgree: a list of files about to be deleted excuses nothing.
FilesSettled ==
  \A f \in used \ (leftover \cup late) : Busy(f) \/ (f \in rows <=> f \in objects)

FilesInv == OwnFilesNew /\ OldFilesKnown /\ FilesSettled

\* Nobody works on a task that was never there.
AbsentUntouched == \A c \in Calls : call[c].tsk # None => task[call[c].tsk].status # "ABSENT"

\* What k is about to do is allowed by the row.
RowAllows(row, k) ==
  /\ k.pc = "writing" /\ k.to # None =>
       k.to \in Transitions[row.status] /\ (k.by \in Admins \cup {row.creator, row.assignee})
  /\ k.pc = "writing" /\ k.who # None => k.by \in Admins \cup {row.creator}
  /\ k.pc \in {"listing", "dropping"} => k.by \in Admins \cup {row.creator}

FreshUnlessOvertaken ==
  \A c \in Calls, t \in Tasks :
    call[c].tsk = t => call[c].overtaken \/ RowAllows(task[t], call[c])

RightsInv == AbsentUntouched /\ FreshUnlessOvertaken
-----------------------------------------------------------------------------
(***************************************************************************)
(* What every step has in common: one call goes on as k, others stay as    *)
(* they were or are overtaken.                                             *)
(***************************************************************************)
GoesOn(c, k) == Goes(c, k) \/ \E t \in Tasks : call' = Written(c, t, k)

LEMMA OthersStay ==
  ASSUME TypeInv, NEW c \in Calls, NEW k, Sensible(k), GoesOn(c, k)
  PROVE  /\ call' \in [Calls -> CallState]
         /\ call'[c] = k
         /\ \A d \in Calls : Sensible(call'[d])
         /\ \A d \in Calls \ {c} :
              /\ call'[d].pc = call[d].pc /\ call'[d].by = call[d].by /\ call'[d].tsk = call[d].tsk
              /\ call'[d].to = call[d].to /\ call'[d].who = call[d].who
              /\ call'[d].files = call[d].files
              /\ call[d].overtaken => call'[d].overtaken
<1> DEFINE Late(d) == [call[d] EXCEPT !.overtaken = TRUE]
<1>1. ASSUME NEW d \in Calls
      PROVE  /\ Sensible(Late(d))
             /\ Late(d).pc = call[d].pc /\ Late(d).by = call[d].by /\ Late(d).tsk = call[d].tsk
             /\ Late(d).to = call[d].to /\ Late(d).who = call[d].who
             /\ Late(d).files = call[d].files
             /\ Late(d).overtaken
  BY DEF TypeInv, Sensible, CallState
<1>2. ASSUME NEW d \in Calls \ {c} PROVE call'[d] \in {call[d], Late(d)}
  BY DEF GoesOn, Goes, Written, TypeInv, TypeOK
<1>3. call'[c] = k
  BY DEF GoesOn, Goes, Written, TypeInv, TypeOK
<1>4. DOMAIN call' = Calls /\ call' = [d \in Calls |-> call'[d]]
  BY DEF GoesOn, Goes, Written, TypeInv, TypeOK
<1> HIDE DEF Late
<1>5. \A d \in Calls : Sensible(call'[d])
  BY <1>1, <1>2, <1>3 DEF TypeInv
<1>6. call' \in [Calls -> CallState]
  BY <1>4, <1>5 DEF Sensible
<1> QED BY <1>1, <1>2, <1>3, <1>5, <1>6

LEMMA WrittenOvertakes ==
  ASSUME TypeInv, NEW c \in Calls, NEW k, NEW t \in Tasks, call' = Written(c, t, k)
  PROVE  \A d \in Calls \ {c} :
           call[d].pc \in {"writing", "listing", "dropping"} /\ call[d].tsk = t => call'[d].overtaken
<1> SUFFICES ASSUME NEW d \in Calls \ {c}, call[d].tsk = t,
                    call[d].pc \in {"writing", "listing", "dropping"}
             PROVE  call'[d].overtaken
  OBVIOUS
<1>1. call'[d] = [call[d] EXCEPT !.overtaken = TRUE]
  BY DEF Written
<1>2. call[d] \in CallState
  BY DEF TypeInv, TypeOK
<1> QED BY <1>1, <1>2 DEF CallState

\* The call that takes a step, and what it goes on as.
LEMMA CallGoes ==
  ASSUME TypeInv, NEW c \in Calls
  PROVE  \A k : /\ Goes(c, k) => call'[c] = k /\ GoesOn(c, k)
                /\ \A t \in Tasks : call' = Written(c, t, k) => call'[c] = k /\ GoesOn(c, k)
<1>1. call \in [Calls -> CallState]
  BY DEF TypeInv, TypeOK
<1> QED BY <1>1 DEF Goes, Written, GoesOn

LEMMA IdleIsSensible ==
  /\ Sensible(Idle) /\ Idle.pc = "idle" /\ Idle.files = {} /\ Idle.tsk = None
  /\ ~ Idle.overtaken
BY DEF Sensible, Idle, CallState

LEMMA AnnouncingIsSensible ==
  ASSUME NEW u, NEW t \in Tasks, NEW who \in Staff \cup {None}
  PROVE  /\ Sensible(Announcing(u, t, who)) /\ Announcing(u, t, who).files = {}
         /\ Announcing(u, t, who).pc \in {"idle", "announcing"}
         /\ Announcing(u, t, who).tsk \in {None, t}
         /\ who \notin {None, u} =>
              LET k == Announcing(u, t, who)
              IN  k.pc = "announcing" /\ k.tsk = t /\ k.who = who
<1> DEFINE k == [Idle EXCEPT !.pc = "announcing", !.tsk = t, !.who = who]
<1>1. k.pc = "announcing" /\ k.tsk = t /\ k.who = who /\ k.files = {}
  BY DEF Idle
<1>2. k \in CallState
  BY DEF Idle, CallState
<1>3. CASE who \in {None, u}
  BY <1>3, IdleIsSensible DEF Announcing
<1>4. CASE who \notin {None, u}
  <2>1. Announcing(u, t, who) = k
    BY <1>4 DEF Announcing
  <2> HIDE DEF k
  <2> QED BY <1>1, <1>2, <1>4, <2>1 DEF Sensible
<1> QED BY <1>3, <1>4

LEMMA AnnouncingAtMost ==
  ASSUME NEW u, NEW t \in Tasks, NEW who \in Staff \cup {None}, NEW k, k = Announcing(u, t, who)
  PROVE  (k.pc = "idle" \/ k.pc = "announcing") /\ (k.tsk = None \/ k.tsk = t)
<1>1. /\ Announcing(u, t, who).pc \in {"idle", "announcing"}
      /\ Announcing(u, t, who).tsk \in {None, t}
  BY AnnouncingIsSensible
<1> QED BY <1>1

LEMMA ClearingIsSensible ==
  ASSUME NEW pc \in {"clearing", "discarding"}, NEW F \in SUBSET Files
  PROVE  /\ Sensible(Clearing(pc, F)) /\ Clearing(pc, F).files = F
         /\ Clearing(pc, F).pc = IF F = {} THEN "idle" ELSE pc
         /\ Clearing(pc, F).tsk = None
<1> DEFINE k == [Idle EXCEPT !.pc = pc, !.files = F]
<1>1. k.pc = pc /\ k.tsk = None /\ k.files = F
  BY DEF Idle
<1>2. k \in CallState
  BY DEF Idle, CallState
<1>3. CASE F = {}
  BY <1>3, IdleIsSensible DEF Clearing
<1>4. CASE F # {}
  <2>1. Clearing(pc, F) = k
    BY <1>4 DEF Clearing
  <2> HIDE DEF k
  <2> QED BY <1>1, <1>2, <1>4, <2>1 DEF Sensible
<1> QED BY <1>3, <1>4
-----------------------------------------------------------------------------
(***************************************************************************)
(* Action by action, what the call of the step goes on as.                 *)
(***************************************************************************)
\* The steps in which no file is touched.
WithoutFiles(c) ==
  \/ \E u \in Staff, t \in Tasks :
       \/ \E who \in Staff : Create(c, u, t, who)
       \/ \E to \in Statuses \cup {None}, who \in Staff \cup {None} : UpdateRead(c, u, t, to, who)
       \/ RemoveRead(c, u, t)
  \/ UpdateWrite(c) \/ UpdateMisses(c) \/ Tell(c, "yes") \/ Tell(c, "lost")

\* The steps that put nothing into the store and take no row.
Detaching(c) ==
  (\E f \in Files : DetachRead(c, f)) \/ DetachObject(c) \/ DetachRow(c) \/ DetachRowFails(c)

LEMMA RowsTyped ==
  ASSUME NEW row \in Row
  PROVE  /\ Blank \in Row /\ [Blank EXCEPT !.status = "GONE"] \in Row
         /\ \A to \in Statuses \cup {None} : Moved(row, to) \in Row
         /\ \A u, who \in Staff \cup {None} : Assigned(row, u, who) \in Row
         /\ \A aware \in {"yes", "no", "lost"} : [row EXCEPT !.aware = aware] \in Row
<1>1. Blank \in Row /\ [Blank EXCEPT !.status = "GONE"] \in Row
  BY DEF Row, Blank
<1>2. ASSUME NEW to \in Statuses \cup {None} PROVE Moved(row, to) \in Row
  BY DEF Row, Moved
<1>3. ASSUME NEW u \in Staff \cup {None}, NEW who \in Staff \cup {None}
      PROVE  Assigned(row, u, who) \in Row
  BY DEF Row, Assigned
<1>4. ASSUME NEW aware \in {"yes", "no", "lost"} PROVE [row EXCEPT !.aware = aware] \in Row
  BY DEF Row
<1> QED BY <1>1, <1>2, <1>3, <1>4

LEMMA CreateShape ==
  ASSUME TypeInv, NEW c \in Calls, NEW u \in Staff, NEW t \in Tasks, NEW who \in Staff,
         Create(c, u, t, who)
  PROVE  /\ GoesOn(c, call'[c]) /\ Sensible(call'[c])
         /\ call[c] = Idle /\ call'[c] = Announcing(u, t, who)
         /\ task' \in [Tasks -> Row]
         /\ UNCHANGED fileVars
<1> DEFINE row == [status |-> "TODO", completed |-> FALSE, assignee |-> who, creator |-> u,
                   aware |-> IF who = u THEN "yes" ELSE "no"]
<1>1. /\ Goes(c, Announcing(u, t, who)) /\ call[c] = Idle /\ UNCHANGED fileVars
      /\ task' = [task EXCEPT ![t] = row]
  BY DEF Create
<1>2. row \in Row
  BY DEF Row, Statuses
<1>3. task' \in [Tasks -> Row]
  BY <1>1, <1>2 DEF TypeInv, TypeOK
<1>4. call'[c] = Announcing(u, t, who) /\ GoesOn(c, call'[c])
  BY <1>1, CallGoes
<1>5. Sensible(Announcing(u, t, who))
  BY AnnouncingIsSensible
<1> QED BY <1>1, <1>3, <1>4, <1>5

LEMMA UpdateReadShape ==
  ASSUME TypeInv, NEW c \in Calls, NEW u \in Staff, NEW t \in Tasks,
         NEW to \in Statuses \cup {None}, NEW who \in Staff \cup {None},
         UpdateRead(c, u, t, to, who)
  PROVE  /\ GoesOn(c, call'[c]) /\ Sensible(call'[c]) /\ call[c] = Idle
         /\ call'[c].pc = "writing" /\ call'[c].by = u /\ call'[c].tsk = t
         /\ call'[c].to = to /\ call'[c].who = who /\ call'[c].files = {}
         /\ UNCHANGED <<task, fileVars>>
<1> DEFINE k == [Idle EXCEPT !.pc = "writing", !.by = u, !.tsk = t, !.to = to, !.who = who]
<1>1. Goes(c, k) /\ call[c] = Idle /\ UNCHANGED <<task, fileVars>>
  BY DEF UpdateRead
<1>2. /\ k.pc = "writing" /\ k.by = u /\ k.tsk = t /\ k.to = to /\ k.who = who /\ k.files = {}
      /\ k \in CallState
  BY DEF Idle, CallState
<1> HIDE DEF k
<1>3. Sensible(k)
  BY <1>2 DEF Sensible
<1> QED BY <1>1, <1>2, <1>3, CallGoes

LEMMA RemoveReadShape ==
  ASSUME TypeInv, NEW c \in Calls, NEW u \in Staff, NEW t \in Tasks, RemoveRead(c, u, t)
  PROVE  /\ GoesOn(c, call'[c]) /\ Sensible(call'[c]) /\ call[c] = Idle
         /\ call'[c].pc = "listing" /\ call'[c].by = u /\ call'[c].tsk = t
         /\ call'[c].files = {}
         /\ UNCHANGED <<task, fileVars>>
<1> DEFINE k == [Idle EXCEPT !.pc = "listing", !.by = u, !.tsk = t]
<1>1. Goes(c, k) /\ call[c] = Idle /\ UNCHANGED <<task, fileVars>>
  BY DEF RemoveRead
<1>2. k.pc = "listing" /\ k.by = u /\ k.tsk = t /\ k.files = {} /\ k \in CallState
  BY DEF Idle, CallState
<1> HIDE DEF k
<1>3. Sensible(k)
  BY <1>2 DEF Sensible
<1> QED BY <1>1, <1>2, <1>3, CallGoes

LEMMA UpdateWriteShape ==
  ASSUME TypeInv, NEW c \in Calls, UpdateWrite(c)
  PROVE  /\ GoesOn(c, call'[c]) /\ Sensible(call'[c])
         /\ call[c].pc = "writing" /\ call[c].files = {}
         /\ call[c].tsk \in Tasks /\ call[c].by \in Staff
         /\ call[c].to \in Statuses \cup {None} /\ call[c].who \in Staff \cup {None}
         /\ call'[c] = Announcing(call[c].by, call[c].tsk, call[c].who)
         /\ call' = Written(c, call[c].tsk, call'[c])
         /\ task' \in [Tasks -> Row]
         /\ UNCHANGED fileVars
<1> DEFINE k == call[c]
           t == k.tsk
<1>1. call \in [Calls -> CallState] /\ task \in [Tasks -> Row] /\ Sensible(k)
  BY DEF TypeInv, TypeOK
<1>2. /\ k.pc = "writing" /\ UNCHANGED fileVars
      /\ task' = [task EXCEPT ![t] = Assigned(Moved(task[t], k.to), k.by, k.who)]
      /\ call' = Written(c, t, Announcing(k.by, t, k.who))
  BY DEF UpdateWrite
<1>3. /\ k.files = {} /\ t \in Tasks /\ k.by \in Staff
      /\ k.to \in Statuses \cup {None} /\ k.who \in Staff \cup {None}
  BY <1>1, <1>2 DEF Sensible, CallState
<1>4. task' \in [Tasks -> Row]
  BY <1>1, <1>2, <1>3, RowsTyped
<1>5. GoesOn(c, call'[c]) /\ call'[c] = Announcing(k.by, t, k.who)
  BY <1>2, <1>3, CallGoes
<1>6. Sensible(call'[c])
  BY <1>3, <1>5, AnnouncingIsSensible
<1> QED BY <1>2, <1>3, <1>4, <1>5, <1>6

LEMMA TellShape ==
  ASSUME TypeInv, NEW c \in Calls, NEW aware \in {"yes", "lost"}, Tell(c, aware)
  PROVE  /\ GoesOn(c, call'[c]) /\ Sensible(call'[c]) /\ call'[c] = Idle
         /\ call[c].pc = "announcing" /\ call[c].files = {} /\ call[c].tsk \in Tasks
         /\ task' \in [Tasks -> Row]
         /\ UNCHANGED fileVars
<1> DEFINE t == call[c].tsk
<1>1. call \in [Calls -> CallState] /\ task \in [Tasks -> Row] /\ Sensible(call[c])
  BY DEF TypeInv, TypeOK
<1>2. /\ call[c].pc = "announcing" /\ UNCHANGED fileVars /\ Goes(c, Idle)
      /\ task' \in {task, [task EXCEPT ![t] = [task[t] EXCEPT !.aware = aware]]}
  BY DEF Tell
<1>3. t \in Tasks /\ call[c].files = {}
  BY <1>1, <1>2 DEF Sensible
<1>4. [task[t] EXCEPT !.aware = aware] \in Row
  BY <1>1, <1>3, RowsTyped
<1>5. task' \in [Tasks -> Row]
  BY <1>1, <1>2, <1>3, <1>4
<1> QED BY <1>2, <1>3, <1>5, CallGoes, IdleIsSensible

LEMMA MissesShape ==
  ASSUME TypeInv, NEW c \in Calls, UpdateMisses(c) \/ RemoveMisses(c)
  PROVE  /\ GoesOn(c, call'[c]) /\ Sensible(call'[c]) /\ call'[c] = Idle
         /\ call[c].pc \in {"writing", "listing", "dropping"} /\ ~ Exists(call[c].tsk)
         /\ UpdateMisses(c) => call[c].files = {}
         /\ UNCHANGED <<task, fileVars>>
<1>1. Goes(c, Idle) /\ call[c].pc \in {"writing", "listing", "dropping"} /\ ~ Exists(call[c].tsk)
      /\ UNCHANGED <<task, fileVars>>
  BY DEF UpdateMisses, RemoveMisses
<1>2. UpdateMisses(c) => call[c].files = {}
  BY DEF UpdateMisses, TypeInv, Sensible
<1> QED BY <1>1, <1>2, CallGoes, IdleIsSensible

LEMMA WithoutFilesShape ==
  ASSUME TypeInv, NEW c \in Calls, WithoutFiles(c)
  PROVE  /\ GoesOn(c, call'[c]) /\ Sensible(call'[c])
         /\ call[c].files = {} /\ call'[c].files = {}
         /\ task' \in [Tasks -> Row]
         /\ UNCHANGED fileVars
<1> DEFINE Shape == /\ GoesOn(c, call'[c]) /\ Sensible(call'[c])
                    /\ call[c].files = {} /\ call'[c].files = {}
                    /\ task' \in [Tasks -> Row]
                    /\ UNCHANGED fileVars
<1>1. task \in [Tasks -> Row]
  BY DEF TypeInv, TypeOK
<1>2. ASSUME NEW u \in Staff, NEW t \in Tasks, NEW who \in Staff, Create(c, u, t, who)
      PROVE  Shape
  BY <1>2, CreateShape, IdleIsSensible, AnnouncingIsSensible
<1>3. ASSUME NEW u \in Staff, NEW t \in Tasks,
             NEW to \in Statuses \cup {None}, NEW who \in Staff \cup {None},
             UpdateRead(c, u, t, to, who)
      PROVE  Shape
  BY <1>1, <1>3, UpdateReadShape, IdleIsSensible
<1>4. ASSUME NEW u \in Staff, NEW t \in Tasks, RemoveRead(c, u, t) PROVE Shape
  BY <1>1, <1>4, RemoveReadShape, IdleIsSensible
<1>5. ASSUME UpdateWrite(c) PROVE Shape
  BY <1>5, UpdateWriteShape, AnnouncingIsSensible
<1>6. ASSUME UpdateMisses(c) PROVE Shape
  BY <1>1, <1>6, MissesShape, IdleIsSensible
<1>7. ASSUME Tell(c, "yes") \/ Tell(c, "lost") PROVE Shape
  BY <1>7, TellShape, IdleIsSensible
<1> HIDE DEF Shape
<1>8. Shape
  BY <1>2, <1>3, <1>4, <1>5, <1>6, <1>7 DEF WithoutFiles
<1> QED BY <1>8 DEF Shape

LEMMA RemoveListShape ==
  ASSUME TypeInv, NEW c \in Calls, RemoveList(c)
  PROVE  /\ GoesOn(c, call'[c]) /\ Sensible(call'[c])
         /\ call[c].pc = "listing" /\ call[c].files = {}
         /\ call'[c].pc = "dropping" /\ call'[c].files = FilesOf(call[c].tsk)
         /\ call'[c].by = call[c].by /\ call'[c].tsk = call[c].tsk
         /\ call'[c].overtaken = call[c].overtaken
         /\ UNCHANGED <<task, fileVars>>
<1> DEFINE k == [call[c] EXCEPT !.pc = "dropping", !.files = FilesOf(call[c].tsk)]
<1>1. call[c].pc = "listing" /\ Goes(c, k) /\ UNCHANGED <<task, fileVars>>
  BY DEF RemoveList
<1>2. FilesOf(call[c].tsk) \subseteq Files /\ Sensible(call[c])
  BY DEF FilesOf, TypeInv, TypeOK
<1>3. /\ k.pc = "dropping" /\ k.files = FilesOf(call[c].tsk) /\ k.by = call[c].by
      /\ k.tsk = call[c].tsk /\ k.overtaken = call[c].overtaken /\ k \in CallState
  BY <1>2 DEF Sensible, CallState
<1> HIDE DEF k
<1>4. Sensible(k) /\ call[c].files = {}
  BY <1>1, <1>2, <1>3 DEF Sensible
<1> QED BY <1>1, <1>3, <1>4, CallGoes

LEMMA RemoveRowShape ==
  ASSUME TypeInv, NEW c \in Calls, RemoveRow(c)
  PROVE  /\ GoesOn(c, call'[c]) /\ Sensible(call'[c])
         /\ call[c].pc = "dropping" /\ call[c].tsk \in Tasks /\ Exists(call[c].tsk)
         /\ call'[c].pc \in {"idle", "clearing"} /\ call'[c].files = call[c].files
         /\ call'[c].tsk = None
         /\ call' = Written(c, call[c].tsk, call'[c])
         /\ task' = [task EXCEPT ![call[c].tsk] = [Blank EXCEPT !.status = "GONE"]]
         /\ task' \in [Tasks -> Row]
         /\ rows' = rows \ FilesOf(call[c].tsk)
         /\ late' = late \cup (FilesOf(call[c].tsk) \ call[c].files)
         /\ UNCHANGED <<taskOf, objects, used, leftover>>
<1> DEFINE t == call[c].tsk
<1>1. /\ call[c].pc = "dropping" /\ Exists(t)
      /\ call' = Written(c, t, Clearing("clearing", call[c].files))
      /\ task' = [task EXCEPT ![t] = [Blank EXCEPT !.status = "GONE"]]
      /\ rows' = rows \ FilesOf(t) /\ late' = late \cup (FilesOf(t) \ call[c].files)
      /\ UNCHANGED <<taskOf, objects, used, leftover>>
  BY DEF RemoveRow
<1>2. t \in Tasks /\ call[c].files \subseteq Files
  BY <1>1 DEF TypeInv, Sensible, CallState
<1>3. GoesOn(c, call'[c]) /\ call'[c] = Clearing("clearing", call[c].files)
  BY <1>1, <1>2, CallGoes
<1>4. Sensible(call'[c]) /\ call'[c].pc \in {"idle", "clearing"} /\ call'[c].files = call[c].files
      /\ call'[c].tsk = None
  BY <1>2, <1>3, ClearingIsSensible
<1>5. task' \in [Tasks -> Row]
  <2>1. \E row \in Row : TRUE
    BY <1>2 DEF TypeInv, TypeOK
  <2> QED BY <1>1, <2>1, RowsTyped DEF TypeInv, TypeOK
<1> QED BY <1>1, <1>2, <1>3, <1>4, <1>5

LEMMA ClearShape ==
  ASSUME TypeInv, NEW c \in Calls, NEW f \in Files, Clear(c, f) \/ ClearFails(c, f)
  PROVE  /\ GoesOn(c, call'[c]) /\ Sensible(call'[c])
         /\ call[c].pc \in {"clearing", "discarding"} /\ f \in call[c].files
         /\ call'[c].files = call[c].files \ {f}
         /\ call'[c].pc \in {"idle", call[c].pc}
         /\ call'[c].tsk = None
         /\ \/ objects' = objects \ {f} /\ UNCHANGED leftover
            \/ UNCHANGED objects /\ leftover' = leftover \cup {f}
         /\ UNCHANGED <<task, rows, taskOf, used, late>>
<1> DEFINE F == call[c].files \ {f}
<1>1. /\ call[c].pc \in {"clearing", "discarding"} /\ f \in call[c].files
      /\ Goes(c, Clearing(call[c].pc, F))
      /\ \/ objects' = objects \ {f} /\ UNCHANGED leftover
         \/ UNCHANGED objects /\ leftover' = leftover \cup {f}
      /\ UNCHANGED <<task, rows, taskOf, used, late>>
  BY DEF Clear, ClearFails
<1>2. F \subseteq Files
  BY DEF TypeInv, Sensible, CallState
<1>3. GoesOn(c, call'[c]) /\ call'[c] = Clearing(call[c].pc, F)
  BY <1>1, CallGoes
<1> HIDE DEF F
<1>4. /\ Sensible(call'[c]) /\ call'[c].pc \in {"idle", call[c].pc} /\ call'[c].files = F
      /\ call'[c].tsk = None
  BY <1>1, <1>2, <1>3, ClearingIsSensible
<1> QED BY <1>1, <1>3, <1>4 DEF F

LEMMA UploadReadShape ==
  ASSUME TypeInv, NEW c \in Calls, NEW u \in Staff, NEW t \in Tasks, NEW f \in Files,
         UploadRead(c, u, t, f)
  PROVE  /\ GoesOn(c, call'[c]) /\ Sensible(call'[c]) /\ call[c].files = {}
         /\ call'[c].pc = "storing" /\ call'[c].files = {f} /\ call'[c].tsk = t
         /\ Exists(t) /\ f \notin used /\ used' = used \cup {f}
         /\ UNCHANGED <<task, rows, taskOf, objects, leftover, late>>
<1> DEFINE k == [Idle EXCEPT !.pc = "storing", !.tsk = t, !.files = {f}]
<1>1. /\ call[c] = Idle /\ Goes(c, k) /\ Exists(t) /\ f \notin used /\ used' = used \cup {f}
      /\ UNCHANGED <<task, rows, taskOf, objects, leftover, late>>
  BY DEF UploadRead
<1>2. k.pc = "storing" /\ k.files = {f} /\ k.tsk = t /\ k \in CallState
  BY DEF Idle, CallState
<1> HIDE DEF k
<1>3. Sensible(k)
  BY <1>2 DEF Sensible
<1> QED BY <1>1, <1>2, <1>3, CallGoes, IdleIsSensible

LEMMA StoreShape ==
  ASSUME TypeInv, NEW c \in Calls, Store(c)
  PROVE  /\ GoesOn(c, call'[c]) /\ Sensible(call'[c])
         /\ call[c].pc = "storing" /\ call'[c].pc = "recording"
         /\ call'[c].files = call[c].files /\ call'[c].tsk = call[c].tsk
         /\ objects' = objects \cup call[c].files
         /\ UNCHANGED <<task, rows, taskOf, used, leftover, late>>
<1> DEFINE k == [call[c] EXCEPT !.pc = "recording"]
<1>1. /\ call[c].pc = "storing" /\ Goes(c, k) /\ objects' = objects \cup call[c].files
      /\ UNCHANGED <<task, rows, taskOf, used, leftover, late>>
  BY DEF Store
<1>2. Sensible(call[c])
  BY DEF TypeInv
<1>3. k.pc = "recording" /\ k.files = call[c].files /\ k.tsk = call[c].tsk /\ k \in CallState
  BY <1>2 DEF Sensible, CallState
<1> HIDE DEF k
<1>4. Sensible(k)
  BY <1>1, <1>2, <1>3 DEF Sensible
<1> QED BY <1>1, <1>3, <1>4, CallGoes

LEMMA UploadEndsShape ==
  ASSUME TypeInv, NEW c \in Calls, StoreFails(c) \/ Record(c)
  PROVE  /\ GoesOn(c, call'[c]) /\ Sensible(call'[c]) /\ call'[c] = Idle
         /\ call[c].pc \in {"storing", "recording"} /\ call[c].tsk \in Tasks
         /\ UNCHANGED <<task, used, late>>
         /\ \/ /\ objects' \in {objects, objects \cup call[c].files}
               /\ leftover' = leftover \cup call[c].files
               /\ UNCHANGED <<rows, taskOf>>
            \/ /\ call[c].pc = "recording" /\ Exists(call[c].tsk)
               /\ rows' = rows \cup call[c].files
               /\ taskOf' = [f \in Files |-> IF f \in call[c].files THEN call[c].tsk ELSE taskOf[f]]
               /\ UNCHANGED <<objects, leftover>>
<1>1. Goes(c, Idle) /\ call[c].pc \in {"storing", "recording"}
  BY DEF StoreFails, Record
<1>2. call[c].tsk \in Tasks
  BY <1>1 DEF TypeInv, Sensible
<1>3. GoesOn(c, call'[c]) /\ Sensible(call'[c]) /\ call'[c] = Idle
  BY <1>1, CallGoes, IdleIsSensible
<1> QED BY <1>1, <1>2, <1>3 DEF StoreFails, Record

LEMMA RecordFailsShape ==
  ASSUME TypeInv, NEW c \in Calls, RecordFails(c)
  PROVE  /\ GoesOn(c, call'[c]) /\ Sensible(call'[c])
         /\ call[c].pc = "recording" /\ call'[c].pc \in {"idle", "discarding"}
         /\ call'[c].files = call[c].files /\ call'[c].tsk = None
         /\ UNCHANGED <<task, fileVars>>
<1>1. /\ call[c].pc = "recording" /\ Goes(c, Clearing("discarding", call[c].files))
      /\ UNCHANGED <<task, fileVars>>
  BY DEF RecordFails
<1>2. call[c].files \subseteq Files
  BY DEF TypeInv, Sensible, CallState
<1>3. GoesOn(c, call'[c]) /\ call'[c] = Clearing("discarding", call[c].files)
  BY <1>1, CallGoes
<1>4. /\ Sensible(call'[c]) /\ call'[c].pc \in {"idle", "discarding"}
      /\ call'[c].files = call[c].files /\ call'[c].tsk = None
  BY <1>2, <1>3, ClearingIsSensible
<1> QED BY <1>1, <1>3, <1>4

LEMMA DetachShape ==
  ASSUME TypeInv, NEW c \in Calls, Detaching(c)
  PROVE  /\ GoesOn(c, call'[c]) /\ Sensible(call'[c]) /\ call'[c].tsk = None
         /\ UNCHANGED <<task, taskOf, used, late>>
         /\ \/ \E f \in rows : /\ call[c].files = {}
                               /\ call'[c].pc = "removing" /\ call'[c].files = {f}
                               /\ UNCHANGED <<rows, objects, leftover>>
            \/ /\ call[c].pc = "removing"
               /\ call'[c].pc = "deleting" /\ call'[c].files = call[c].files
               /\ \/ objects' = objects \ call[c].files /\ UNCHANGED leftover
                  \/ UNCHANGED objects /\ leftover' = leftover \cup call[c].files
               /\ UNCHANGED rows
            \/ /\ call[c].pc = "deleting" /\ call'[c] = Idle
               /\ \/ rows' = rows \ call[c].files /\ UNCHANGED leftover
                  \/ UNCHANGED rows /\ leftover' = leftover \cup call[c].files
               /\ UNCHANGED objects
<1>1. Sensible(call[c]) /\ rows \subseteq Files
  BY DEF TypeInv, TypeOK
<1>2. ASSUME NEW f \in Files, DetachRead(c, f)
      PROVE  /\ GoesOn(c, call'[c]) /\ Sensible(call'[c]) /\ call'[c].tsk = None
             /\ f \in rows /\ call[c].files = {} /\ call'[c].pc = "removing" /\ call'[c].files = {f}
             /\ UNCHANGED <<task, fileVars>>
  <2> DEFINE k == [Idle EXCEPT !.pc = "removing", !.files = {f}]
  <2>1. call[c] = Idle /\ f \in rows /\ Goes(c, k) /\ UNCHANGED <<task, fileVars>>
    BY <1>2 DEF DetachRead
  <2>2. k.pc = "removing" /\ k.files = {f} /\ k.tsk = None /\ k \in CallState
    BY DEF Idle, CallState
  <2> HIDE DEF k
  <2>3. Sensible(k)
    BY <2>2 DEF Sensible
  <2> QED BY <2>1, <2>2, <2>3, CallGoes, IdleIsSensible
<1>3. ASSUME DetachObject(c)
      PROVE  /\ GoesOn(c, call'[c]) /\ Sensible(call'[c]) /\ call'[c].tsk = None
             /\ call[c].pc = "removing" /\ call'[c].pc = "deleting" /\ call'[c].files = call[c].files
             /\ \/ objects' = objects \ call[c].files /\ UNCHANGED leftover
                \/ UNCHANGED objects /\ leftover' = leftover \cup call[c].files
             /\ UNCHANGED <<task, rows, taskOf, used, late>>
  <2> DEFINE k == [call[c] EXCEPT !.pc = "deleting"]
  <2>1. /\ call[c].pc = "removing" /\ Goes(c, k)
        /\ \/ objects' = objects \ call[c].files /\ UNCHANGED leftover
           \/ UNCHANGED objects /\ leftover' = leftover \cup call[c].files
        /\ UNCHANGED <<task, rows, taskOf, used, late>>
    BY <1>3 DEF DetachObject
  <2>2. k.pc = "deleting" /\ k.files = call[c].files /\ k.tsk = call[c].tsk /\ k \in CallState
    BY <1>1 DEF Sensible, CallState
  <2> HIDE DEF k
  <2>3. Sensible(k) /\ k.tsk = None
    BY <1>1, <2>1, <2>2 DEF Sensible
  <2> QED BY <2>1, <2>2, <2>3, CallGoes
<1>4. ASSUME DetachRow(c) \/ DetachRowFails(c)
      PROVE  /\ GoesOn(c, call'[c]) /\ Sensible(call'[c]) /\ call'[c] = Idle
             /\ call[c].pc = "deleting"
             /\ \/ rows' = rows \ call[c].files /\ UNCHANGED leftover
                \/ UNCHANGED rows /\ leftover' = leftover \cup call[c].files
             /\ UNCHANGED <<task, taskOf, objects, used, late>>
  <2>1. /\ call[c].pc = "deleting" /\ Goes(c, Idle)
        /\ \/ rows' = rows \ call[c].files /\ UNCHANGED leftover
           \/ UNCHANGED rows /\ leftover' = leftover \cup call[c].files
        /\ UNCHANGED <<task, taskOf, objects, used, late>>
    BY <1>4 DEF DetachRow, DetachRowFails
  <2> QED BY <2>1, CallGoes, IdleIsSensible
<1>5. CASE \E f \in Files : DetachRead(c, f)
  BY <1>2, <1>5 DEF fileVars
<1>6. CASE DetachObject(c)
  BY <1>3, <1>6
<1>7. CASE DetachRow(c) \/ DetachRowFails(c)
  BY <1>4, <1>7, IdleIsSensible
<1> QED BY <1>5, <1>6, <1>7 DEF Detaching

LEMMA StepCases ==
  ASSUME [Next]_vars
  PROVE  \/ \E c \in Calls :
              \/ WithoutFiles(c)
              \/ RemoveList(c) \/ RemoveRow(c) \/ RemoveMisses(c)
              \/ \E f \in Files : Clear(c, f) \/ ClearFails(c, f)
              \/ \E u \in Staff, t \in Tasks, f \in Files : UploadRead(c, u, t, f)
              \/ Store(c) \/ StoreFails(c) \/ Record(c) \/ RecordFails(c)
              \/ Detaching(c)
         \/ Crash
         \/ UNCHANGED vars
<1>1. ASSUME NEW c \in Calls, Start(c)
      PROVE  \/ WithoutFiles(c)
             \/ \E u \in Staff, t \in Tasks, f \in Files : UploadRead(c, u, t, f)
             \/ Detaching(c)
  BY <1>1 DEF Start, WithoutFiles, Detaching
<1>2. ASSUME NEW c \in Calls, Resume(c)
      PROVE  \/ WithoutFiles(c)
             \/ RemoveList(c) \/ RemoveRow(c) \/ RemoveMisses(c)
             \/ \E f \in Files : Clear(c, f) \/ ClearFails(c, f)
             \/ Store(c) \/ StoreFails(c) \/ Record(c) \/ RecordFails(c)
             \/ Detaching(c)
  BY <1>2 DEF Resume, WithoutFiles, Detaching
<1> QED BY <1>1, <1>2 DEF Next
-----------------------------------------------------------------------------
(***************************************************************************)
(* Type correctness.                                                       *)
(***************************************************************************)
LEMMA TypeKept ==
  ASSUME TypeInv, NEW c \in Calls, NEW k, Sensible(k), GoesOn(c, k),
         k.files \subseteq used', used \subseteq used', used' \subseteq Files,
         task' \in [Tasks -> Row], taskOf' \in [Files -> Tasks \cup {None}],
         rows' \subseteq used', objects' \subseteq used',
         leftover' \subseteq used', late' \subseteq used'
  PROVE  TypeInv'
<1>1. call' \in [Calls -> CallState] /\ \A d \in Calls : Sensible(call'[d])
  BY OthersStay
<1>2. \A d \in Calls : call'[d].files \subseteq used'
  BY OthersStay DEF TypeInv
<1> QED BY <1>1, <1>2 DEF TypeInv, TypeOK

LEMMA TypeInit == Init => TypeInv
<1> SUFFICES ASSUME Init PROVE TypeInv
  OBVIOUS
<1>1. Blank \in Row /\ Idle \in CallState
  BY IdleIsSensible DEF Sensible, Blank, Row
<1> QED BY <1>1, IdleIsSensible DEF Init, TypeInv, TypeOK

LEMMA TypeStep ==
  ASSUME TypeInv, [Next]_vars
  PROVE  TypeInv'
<1>1. /\ task \in [Tasks -> Row] /\ taskOf \in [Files -> Tasks \cup {None}]
      /\ used \subseteq Files /\ rows \subseteq used /\ objects \subseteq used
      /\ leftover \subseteq used /\ late \subseteq used
      /\ call \in [Calls -> CallState]
      /\ \A c \in Calls : Sensible(call[c]) /\ call[c].files \subseteq used
  BY DEF TypeInv, TypeOK
<1>2. \A t : FilesOf(t) \subseteq rows
  BY DEF FilesOf
<1>3. ASSUME NEW c \in Calls, WithoutFiles(c) PROVE TypeInv'
  <2>1. /\ GoesOn(c, call'[c]) /\ Sensible(call'[c]) /\ call'[c].files = {}
        /\ task' \in [Tasks -> Row] /\ UNCHANGED fileVars
    BY <1>3, WithoutFilesShape
  <2>2. UNCHANGED <<rows, taskOf, objects, used, leftover, late>>
    BY <2>1 DEF fileVars
  <2> QED BY <1>1, <2>1, <2>2, TypeKept
<1>4. ASSUME NEW c \in Calls, RemoveList(c) PROVE TypeInv'
  <2>1. /\ GoesOn(c, call'[c]) /\ Sensible(call'[c]) /\ call'[c].files = FilesOf(call[c].tsk)
        /\ UNCHANGED <<task, fileVars>>
    BY <1>4, RemoveListShape
  <2>2. UNCHANGED <<rows, taskOf, objects, used, leftover, late>>
    BY <2>1 DEF fileVars
  <2>3. call'[c].files \subseteq used
    BY <1>1, <1>2, <2>1
  <2> QED BY <1>1, <2>1, <2>2, <2>3, TypeKept
<1>5. ASSUME NEW c \in Calls, RemoveRow(c) PROVE TypeInv'
  <2>1. /\ GoesOn(c, call'[c]) /\ Sensible(call'[c]) /\ call'[c].files = call[c].files
        /\ task' \in [Tasks -> Row]
        /\ rows' = rows \ FilesOf(call[c].tsk)
        /\ late' = late \cup (FilesOf(call[c].tsk) \ call[c].files)
        /\ UNCHANGED <<taskOf, objects, used, leftover>>
    BY <1>5, RemoveRowShape
  <2>2. rows' \subseteq used /\ late' \subseteq used
    BY <1>1, <1>2, <2>1
  <2> QED BY <1>1, <2>1, <2>2, TypeKept
<1>6. ASSUME NEW c \in Calls, RemoveMisses(c) PROVE TypeInv'
  <2>1. /\ GoesOn(c, call'[c]) /\ Sensible(call'[c]) /\ call'[c] = Idle
        /\ UNCHANGED <<task, fileVars>>
    BY <1>6, MissesShape
  <2>2. UNCHANGED <<rows, taskOf, objects, used, leftover, late>> /\ call'[c].files = {}
    BY <2>1, IdleIsSensible DEF fileVars
  <2> QED BY <1>1, <2>1, <2>2, TypeKept
<1>7. ASSUME NEW c \in Calls, NEW f \in Files, Clear(c, f) \/ ClearFails(c, f) PROVE TypeInv'
  <2>1. /\ GoesOn(c, call'[c]) /\ Sensible(call'[c]) /\ f \in call[c].files
        /\ call'[c].files = call[c].files \ {f}
        /\ \/ objects' = objects \ {f} /\ UNCHANGED leftover
           \/ UNCHANGED objects /\ leftover' = leftover \cup {f}
        /\ UNCHANGED <<task, rows, taskOf, used, late>>
    BY <1>7, ClearShape
  <2>2. objects' \subseteq used /\ leftover' \subseteq used /\ call'[c].files \subseteq used
    BY <1>1, <2>1
  <2> QED BY <1>1, <2>1, <2>2, TypeKept
<1>8. ASSUME NEW c \in Calls, NEW u \in Staff, NEW t \in Tasks, NEW f \in Files,
             UploadRead(c, u, t, f)
      PROVE  TypeInv'
  <2>1. /\ GoesOn(c, call'[c]) /\ Sensible(call'[c]) /\ call'[c].files = {f}
        /\ used' = used \cup {f}
        /\ UNCHANGED <<task, rows, taskOf, objects, leftover, late>>
    BY <1>8, UploadReadShape
  <2> QED BY <1>1, <2>1, TypeKept
<1>9. ASSUME NEW c \in Calls, Store(c) PROVE TypeInv'
  <2>1. /\ GoesOn(c, call'[c]) /\ Sensible(call'[c]) /\ call'[c].files = call[c].files
        /\ objects' = objects \cup call[c].files
        /\ UNCHANGED <<task, rows, taskOf, used, leftover, late>>
    BY <1>9, StoreShape
  <2>2. objects' \subseteq used
    BY <1>1, <2>1
  <2> QED BY <1>1, <2>1, <2>2, TypeKept
<1>10. ASSUME NEW c \in Calls, StoreFails(c) \/ Record(c) PROVE TypeInv'
  <2>1. /\ GoesOn(c, call'[c]) /\ Sensible(call'[c]) /\ call'[c] = Idle /\ call[c].tsk \in Tasks
        /\ UNCHANGED <<task, used, late>>
        /\ \/ /\ objects' \in {objects, objects \cup call[c].files}
              /\ leftover' = leftover \cup call[c].files
              /\ UNCHANGED <<rows, taskOf>>
           \/ /\ rows' = rows \cup call[c].files
              /\ taskOf' = [f \in Files |-> IF f \in call[c].files THEN call[c].tsk ELSE taskOf[f]]
              /\ UNCHANGED <<objects, leftover>>
    BY <1>10, UploadEndsShape
  <2>2. /\ rows' \subseteq used /\ objects' \subseteq used /\ leftover' \subseteq used
        /\ call'[c].files = {}
    BY <1>1, <2>1, IdleIsSensible
  <2>3. taskOf' \in [Files -> Tasks \cup {None}]
    BY <1>1, <2>1
  <2> QED BY <1>1, <2>1, <2>2, <2>3, TypeKept
<1>11. ASSUME NEW c \in Calls, RecordFails(c) PROVE TypeInv'
  <2>1. /\ GoesOn(c, call'[c]) /\ Sensible(call'[c]) /\ call'[c].files = call[c].files
        /\ UNCHANGED <<task, fileVars>>
    BY <1>11, RecordFailsShape
  <2>2. UNCHANGED <<rows, taskOf, objects, used, leftover, late>>
    BY <2>1 DEF fileVars
  <2> QED BY <1>1, <2>1, <2>2, TypeKept
<1>12. ASSUME NEW c \in Calls, Detaching(c) PROVE TypeInv'
  <2>1. /\ GoesOn(c, call'[c]) /\ Sensible(call'[c])
        /\ UNCHANGED <<task, taskOf, used, late>>
        /\ \/ \E f \in rows : /\ call'[c].files = {f}
                              /\ UNCHANGED <<rows, objects, leftover>>
           \/ /\ call'[c].files = call[c].files
              /\ \/ objects' = objects \ call[c].files /\ UNCHANGED leftover
                 \/ UNCHANGED objects /\ leftover' = leftover \cup call[c].files
              /\ UNCHANGED rows
           \/ /\ call'[c] = Idle
              /\ \/ rows' = rows \ call[c].files /\ UNCHANGED leftover
                 \/ UNCHANGED rows /\ leftover' = leftover \cup call[c].files
              /\ UNCHANGED objects
    BY <1>12, DetachShape
  <2>2. /\ rows' \subseteq used /\ objects' \subseteq used /\ leftover' \subseteq used
        /\ call'[c].files \subseteq used
    BY <1>1, <2>1, IdleIsSensible
  <2> QED BY <1>1, <2>1, <2>2, TypeKept
<1>13. CASE Crash
  <2>1. /\ \A c \in Calls : call'[c] = Idle
        /\ leftover' = leftover \cup Held
        /\ task' = [t \in Tasks |-> IF task[t].aware = "no" THEN [task[t] EXCEPT !.aware = "lost"]
                                    ELSE task[t]]
        /\ UNCHANGED <<rows, taskOf, objects, used, late>>
    BY <1>13 DEF Crash
  <2>2. Held \subseteq used
    BY <1>1 DEF Held
  <2>3. call' \in [Calls -> CallState]
    BY <1>13, IdleIsSensible DEF Crash, Sensible
  <2>4. task' \in [Tasks -> Row]
    BY <1>1, <2>1, RowsTyped
  <2> QED BY <1>1, <2>1, <2>2, <2>3, <2>4, IdleIsSensible DEF TypeInv, TypeOK
<1>14. CASE UNCHANGED vars
  BY <1>14 DEF vars, TypeInv, TypeOK
<1> QED BY <1>3, <1>4, <1>5, <1>6, <1>7, <1>8, <1>9, <1>10, <1>11, <1>12, <1>13, <1>14, StepCases

(***************************************************************************)
(* Every reachable state is well-typed; in particular a storage key is     *)
(* drawn before a row or an object has it.                                 *)
(***************************************************************************)
THEOREM TypeCorrect == Spec => []TypeOK
<1>1. TypeInv /\ [Next]_vars => TypeInv'
  BY TypeStep
<1>2. TypeInv => TypeOK
  BY DEF TypeInv
<1> QED BY <1>1, <1>2, TypeInit, PTL DEF Spec
-----------------------------------------------------------------------------
(***************************************************************************)
(* Rows and objects.  A step touches only the files of the call that takes *)
(* it, or deletes the rows of a whole task, which are in the hand of that  *)
(* call or late.                                                           *)
(***************************************************************************)
LEMMA FilesMove ==
  ASSUME TypeInv, FilesInv, NEW c \in Calls, NEW k, Sensible(k), GoesOn(c, k),
         leftover \subseteq leftover', late \subseteq late', used' \subseteq used \cup Own(k),
         \A f \in Files : f \notin call[c].files =>
           /\ f \in rows' => f \in rows
           /\ f \in rows => f \in rows' \/ f \in late'
           /\ f \in objects' <=> f \in objects
           /\ taskOf'[f] = taskOf[f],
         \A f \in call[c].files : \/ f \in Own(call[c])
                                  \/ /\ taskOf'[f] = taskOf[f]
                                     /\ f \in rows' => f \in rows
                                     /\ f \in objects' => f \in objects,
         \A f \in k.files \ call[c].files : \A d \in Calls \ {c} : f \notin Own(call[d]),
         \A f \in Own(k) :
           /\ f \notin rows'
           /\ f \in objects' <=> k.pc # "storing"
           /\ \A d \in Calls \ {c} : f \notin call[d].files,
         \A f \in k.files :
           /\ k.pc = "dropping" => taskOf'[f] = k.tsk
           /\ k.pc = "clearing" => f \notin rows'
           /\ k.pc = "deleting" => f \notin objects' \/ f \in leftover',
         \A f \in call[c].files : \/ f \in k.files /\ k.pc # "dropping"
                                  \/ call[c].pc = "dropping" /\ f \notin k.files /\ UNCHANGED <<rows, objects>>
                                  \/ f \in leftover'
                                  \/ f \in rows' <=> f \in objects'
  PROVE  FilesInv'
<1>1. /\ call'[c] = k
      /\ \A d \in Calls \ {c} :
           /\ Own(call'[d]) = Own(call[d]) /\ call'[d].files = call[d].files
           /\ call'[d].pc = call[d].pc /\ call'[d].tsk = call[d].tsk
  BY OthersStay DEF Own
<1>2. \A d \in Calls : Own(call[d]) \subseteq call[d].files /\ Own(k) \subseteq k.files
  BY DEF Own
<1>3. OwnFilesNew'
  <2> SUFFICES ASSUME NEW d \in Calls, NEW f \in Files, f \in Own(call'[d])
               PROVE  /\ f \notin rows'
                      /\ f \in objects' <=> call'[d].pc # "storing"
                      /\ \A e \in Calls \ {d} : f \notin call'[e].files
    BY DEF OwnFilesNew
  <2>1. CASE d = c
    BY <1>1, <2>1
  <2>2. CASE d # c
    <3>1. /\ f \notin rows
          /\ f \in objects <=> call[d].pc # "storing"
          /\ \A e \in Calls \ {d} : f \notin call[e].files
      BY <1>1, <2>2 DEF FilesInv, OwnFilesNew
    <3>2. f \notin k.files
      BY <1>1, <2>2, <3>1
    <3> QED BY <1>1, <2>2, <3>1, <3>2
  <2> QED BY <2>1, <2>2
<1>4. OldFilesKnown'
  <2> SUFFICES ASSUME NEW d \in Calls, NEW f \in Files, f \in call'[d].files
               PROVE  /\ call'[d].pc = "dropping" => taskOf'[f] = call'[d].tsk
                      /\ call'[d].pc = "clearing" => f \notin rows'
                      /\ call'[d].pc = "deleting" => f \notin objects' \/ f \in leftover'
    BY DEF OldFilesKnown
  <2>1. CASE d = c
    BY <1>1, <2>1
  <2>2. CASE d # c
    <3>1. f \notin Own(call[c])
      BY <1>1, <2>2 DEF FilesInv, OwnFilesNew
    <3>2. /\ taskOf'[f] = taskOf[f]
          /\ f \in rows' => f \in rows
          /\ f \in objects' => f \in objects
      BY <3>1
    <3> QED BY <1>1, <2>2, <3>2 DEF FilesInv, OldFilesKnown
  <2> QED BY <2>1, <2>2
<1>5. FilesSettled'
  <2> SUFFICES ASSUME NEW f \in used', f \notin leftover', f \notin late', ~ Busy(f)'
               PROVE  f \in rows' <=> f \in objects'
    BY DEF FilesSettled
  <2>1. used \subseteq Files /\ k.files \subseteq Files
    BY DEF TypeInv, TypeOK, Sensible, CallState
  <2>2. /\ ~ (k.pc # "dropping" /\ f \in k.files)
        /\ \A d \in Calls \ {c} : ~ (call[d].pc # "dropping" /\ f \in call[d].files)
    BY <1>1 DEF Busy
  <2>3. CASE f \notin call[c].files
    <3>1. f \in used /\ f \in Files
      BY <2>1, <2>2 DEF Own
    <3>2. ~ Busy(f)
      BY <2>2, <2>3 DEF Busy
    <3>3. f \in rows <=> f \in objects
      BY <3>1, <3>2 DEF FilesInv, FilesSettled
    <3> QED BY <2>3, <3>1, <3>3
  <2>4. CASE f \in call[c].files
    <3>1. f \in used
      BY <2>4 DEF TypeInv
    <3>2. ASSUME call[c].pc = "dropping", UNCHANGED <<rows, objects>> PROVE f \in rows' <=> f \in objects'
      <4>1. ~ Busy(f)
        BY <2>2, <3>2 DEF Busy
      <4> QED BY <3>1, <3>2, <4>1 DEF FilesInv, FilesSettled
    <3> QED BY <2>2, <2>4, <3>2
  <2> QED BY <2>3, <2>4
<1> QED BY <1>3, <1>4, <1>5 DEF FilesInv

LEMMA FilesInit == Init => FilesInv
BY IdleIsSensible DEF Init, FilesInv, OwnFilesNew, OldFilesKnown, FilesSettled, Own

LEMMA FilesStep ==
  ASSUME TypeInv, FilesInv, [Next]_vars
  PROVE  FilesInv'
<1>1. /\ used \subseteq Files /\ rows \subseteq used /\ objects \subseteq used
      /\ \A c \in Calls : Sensible(call[c]) /\ call[c].files \subseteq used
      /\ taskOf \in [Files -> Tasks \cup {None}]
  BY DEF TypeInv, TypeOK
<1>2. \A c \in Calls, f \in Files : f \in Own(call[c]) =>
        /\ f \notin rows
        /\ f \in objects <=> call[c].pc # "storing"
        /\ \A d \in Calls \ {c} : f \notin call[d].files
  BY DEF FilesInv, OwnFilesNew
<1>3. ASSUME NEW c \in Calls, WithoutFiles(c) PROVE FilesInv'
  <2>1. /\ GoesOn(c, call'[c]) /\ Sensible(call'[c]) /\ call[c].files = {} /\ call'[c].files = {}
        /\ UNCHANGED fileVars
    BY <1>3, WithoutFilesShape
  <2>2. UNCHANGED <<rows, taskOf, objects, used, leftover, late>> /\ Own(call'[c]) = {}
    BY <2>1 DEF fileVars, Own
  <2> QED BY <2>1, <2>2, FilesMove
<1>4. ASSUME NEW c \in Calls, RemoveList(c) PROVE FilesInv'
  <2>1. /\ GoesOn(c, call'[c]) /\ Sensible(call'[c]) /\ call[c].files = {}
        /\ call'[c].pc = "dropping" /\ call'[c].files = FilesOf(call[c].tsk)
        /\ call'[c].tsk = call[c].tsk
        /\ UNCHANGED <<task, fileVars>>
    BY <1>4, RemoveListShape
  <2>2. /\ UNCHANGED <<rows, taskOf, objects, used, leftover, late>> /\ Own(call'[c]) = {}
        /\ \A f \in call'[c].files : f \in rows /\ taskOf[f] = call'[c].tsk
    BY <2>1 DEF fileVars, Own, FilesOf
  <2>3. \A f \in call'[c].files : \A d \in Calls : f \notin Own(call[d])
    BY <1>1, <1>2, <2>2
  <2> QED BY <2>1, <2>2, <2>3, FilesMove
<1>5. ASSUME NEW c \in Calls, RemoveRow(c) PROVE FilesInv'
  <2>1. /\ GoesOn(c, call'[c]) /\ Sensible(call'[c]) /\ call'[c].files = call[c].files
        /\ call[c].pc = "dropping" /\ call'[c].pc \in {"idle", "clearing"}
        /\ rows' = rows \ FilesOf(call[c].tsk)
        /\ late' = late \cup (FilesOf(call[c].tsk) \ call[c].files)
        /\ UNCHANGED <<taskOf, objects, used, leftover>>
    BY <1>5, RemoveRowShape
  <2>2. Own(call'[c]) = {}
    BY <2>1 DEF Own
  <2>3. \A f \in call[c].files : taskOf[f] = call[c].tsk /\ f \in Files
    BY <1>1, <2>1 DEF FilesInv, OldFilesKnown
  <2>4. \A f \in call[c].files : f \notin rows'
    BY <2>1, <2>3 DEF FilesOf
  <2>5. \A f \in Files : /\ f \in rows' => f \in rows
                         /\ f \in rows /\ f \notin call[c].files => f \in rows' \/ f \in late'
    BY <2>1
  <2>6. used' \subseteq used \cup Own(call'[c])
    BY <2>1
  <2> HIDE DEF Own
  <2>7. /\ \A f \in Files : f \notin call[c].files =>
             /\ f \in rows' => f \in rows
             /\ f \in rows => f \in rows' \/ f \in late'
             /\ f \in objects' <=> f \in objects
             /\ taskOf'[f] = taskOf[f]
        /\ \A f \in call[c].files : /\ taskOf'[f] = taskOf[f]
                                    /\ f \in rows' => f \in rows
                                    /\ f \in objects' => f \in objects
        /\ \A f \in call[c].files : f \in call'[c].files /\ call'[c].pc # "dropping"
    BY <2>1, <2>4, <2>5
  <2> QED BY <2>1, <2>2, <2>4, <2>6, <2>7, FilesMove
<1>6. ASSUME NEW c \in Calls, RemoveMisses(c) PROVE FilesInv'
  <2>1. /\ GoesOn(c, call'[c]) /\ Sensible(call'[c]) /\ call'[c] = Idle
        /\ UNCHANGED <<task, fileVars>>
    BY <1>6, MissesShape
  <2>2. /\ UNCHANGED <<rows, taskOf, objects, used, leftover, late>>
        /\ call'[c].files = {} /\ Own(call'[c]) = {}
    BY <2>1, IdleIsSensible DEF fileVars, Own
  <2>3. call[c].pc = "dropping" \/ call[c].files = {}
    BY <1>1, <1>6 DEF RemoveMisses, Sensible
  <2> QED BY <2>1, <2>2, <2>3, FilesMove
<1>7. ASSUME NEW c \in Calls, NEW f \in Files, Clear(c, f) \/ ClearFails(c, f) PROVE FilesInv'
  <2>1. /\ GoesOn(c, call'[c]) /\ Sensible(call'[c])
        /\ call[c].pc \in {"clearing", "discarding"} /\ f \in call[c].files
        /\ call'[c].files = call[c].files \ {f} /\ call'[c].pc \in {"idle", call[c].pc}
        /\ \/ objects' = objects \ {f} /\ UNCHANGED leftover
           \/ UNCHANGED objects /\ leftover' = leftover \cup {f}
        /\ UNCHANGED <<task, rows, taskOf, used, late>>
    BY <1>7, ClearShape
  <2>2. \A g \in call[c].files : g \notin rows /\ g \in Files
    BY <1>1, <1>2, <2>1 DEF FilesInv, OldFilesKnown, Own
  <2>3. \A g \in Own(call'[c]) : g \in Own(call[c]) /\ g # f /\ call'[c].pc = "discarding"
                                 /\ call[c].pc = "discarding"
    BY <2>1 DEF Own
  <2>4. \A g \in Own(call'[c]) :
          /\ g \notin rows' /\ (g \in objects' <=> call'[c].pc # "storing")
          /\ \A d \in Calls \ {c} : g \notin call[d].files
    <3> SUFFICES ASSUME NEW g \in Own(call'[c])
                 PROVE  /\ g \notin rows' /\ (g \in objects' <=> call'[c].pc # "storing")
                        /\ \A d \in Calls \ {c} : g \notin call[d].files
      OBVIOUS
    <3>1. g \in call[c].files /\ g \in Own(call[c]) /\ g # f
      BY <2>3 DEF Own
    <3>2. g \in Files /\ g \in objects /\ \A d \in Calls \ {c} : g \notin call[d].files
      BY <1>2, <2>2, <2>3, <3>1
    <3> QED BY <2>1, <2>2, <2>3, <3>1, <3>2
  <2>5. f \in leftover' \/ (f \in rows' <=> f \in objects')
    BY <2>1, <2>2
  <2>6. call'[c].files = {} \/ call'[c].pc \notin {"idle", "dropping", "deleting"}
    BY <2>1 DEF Sensible
  <2> QED BY <2>1, <2>2, <2>4, <2>5, <2>6, FilesMove
<1>8. ASSUME NEW c \in Calls, NEW u \in Staff, NEW t \in Tasks, NEW f \in Files,
             UploadRead(c, u, t, f)
      PROVE  FilesInv'
  <2>1. /\ GoesOn(c, call'[c]) /\ Sensible(call'[c]) /\ call[c].files = {}
        /\ call'[c].pc = "storing" /\ call'[c].files = {f}
        /\ f \notin used /\ used' = used \cup {f}
        /\ UNCHANGED <<task, rows, taskOf, objects, leftover, late>>
    BY <1>8, UploadReadShape
  <2>2. Own(call'[c]) = {f}
    BY <2>1 DEF Own
  <2>3. \A d \in Calls : f \notin call[d].files /\ f \notin Own(call[d])
    BY <1>1, <2>1 DEF Own
  <2> QED BY <1>1, <2>1, <2>2, <2>3, FilesMove
<1>9. ASSUME NEW c \in Calls, Store(c) PROVE FilesInv'
  <2>1. /\ GoesOn(c, call'[c]) /\ Sensible(call'[c])
        /\ call[c].pc = "storing" /\ call'[c].pc = "recording" /\ call'[c].files = call[c].files
        /\ objects' = objects \cup call[c].files
        /\ UNCHANGED <<task, rows, taskOf, used, leftover, late>>
    BY <1>9, StoreShape
  <2>2. Own(call'[c]) = call[c].files /\ Own(call[c]) = call[c].files /\ call[c].files \subseteq Files
    BY <1>1, <2>1 DEF Own
  <2> QED BY <1>2, <2>1, <2>2, FilesMove
<1>10. ASSUME NEW c \in Calls, StoreFails(c) \/ Record(c) PROVE FilesInv'
  <2>1. /\ GoesOn(c, call'[c]) /\ Sensible(call'[c]) /\ call'[c] = Idle
        /\ call[c].pc \in {"storing", "recording"}
        /\ UNCHANGED <<task, used, late>>
        /\ \/ /\ objects' \in {objects, objects \cup call[c].files}
              /\ leftover' = leftover \cup call[c].files
              /\ UNCHANGED <<rows, taskOf>>
           \/ /\ call[c].pc = "recording"
              /\ rows' = rows \cup call[c].files
              /\ taskOf' = [f \in Files |-> IF f \in call[c].files THEN call[c].tsk ELSE taskOf[f]]
              /\ UNCHANGED <<objects, leftover>>
    BY <1>10, UploadEndsShape
  <2>2. /\ Own(call'[c]) = {} /\ call'[c].files = {} /\ call'[c].pc = "idle"
        /\ Own(call[c]) = call[c].files /\ call[c].files \subseteq Files
    BY <1>1, <2>1, IdleIsSensible DEF Own
  <2>3. \A f \in call[c].files : f \in leftover' \/ (f \in rows' <=> f \in objects')
    BY <1>2, <2>1, <2>2
  <2>4. \A f \in Files : f \notin call[c].files =>
          /\ f \in rows' <=> f \in rows
          /\ f \in objects' <=> f \in objects
          /\ taskOf'[f] = taskOf[f]
    BY <2>1
  <2>5. leftover \subseteq leftover' /\ late \subseteq late' /\ used' \subseteq used
    BY <2>1
  <2> QED BY <2>1, <2>2, <2>3, <2>4, <2>5, FilesMove
<1>11. ASSUME NEW c \in Calls, RecordFails(c) PROVE FilesInv'
  <2>1. /\ GoesOn(c, call'[c]) /\ Sensible(call'[c]) /\ call'[c].files = call[c].files
        /\ call[c].pc = "recording" /\ call'[c].pc \in {"idle", "discarding"}
        /\ UNCHANGED <<task, fileVars>>
    BY <1>11, RecordFailsShape
  <2>2. /\ UNCHANGED <<rows, taskOf, objects, used, leftover, late>>
        /\ Own(call'[c]) \subseteq call[c].files /\ Own(call[c]) = call[c].files
        /\ call[c].files \subseteq Files
    BY <1>1, <2>1 DEF fileVars, Own
  <2> QED BY <1>2, <2>1, <2>2, FilesMove
<1>12. ASSUME NEW c \in Calls, Detaching(c) PROVE FilesInv'
  <2>1. /\ GoesOn(c, call'[c]) /\ Sensible(call'[c])
        /\ UNCHANGED <<task, taskOf, used, late>>
    BY <1>12, DetachShape
  <2>2. CASE \E f \in rows : /\ call[c].files = {}
                             /\ call'[c].pc = "removing" /\ call'[c].files = {f}
                             /\ UNCHANGED <<rows, objects, leftover>>
    <3>1. Own(call'[c]) = {} /\ \A f \in call'[c].files : f \in rows
      BY <2>2 DEF Own
    <3>2. \A f \in call'[c].files : \A d \in Calls : f \notin Own(call[d])
      BY <1>1, <1>2, <3>1
    <3> QED BY <2>1, <2>2, <3>1, <3>2, FilesMove
  <2>3. CASE /\ call[c].pc = "removing"
             /\ call'[c].pc = "deleting" /\ call'[c].files = call[c].files
             /\ \/ objects' = objects \ call[c].files /\ UNCHANGED leftover
                \/ UNCHANGED objects /\ leftover' = leftover \cup call[c].files
             /\ UNCHANGED rows
    <3>1. Own(call'[c]) = {}
      BY <2>3 DEF Own
    <3>2. /\ leftover \subseteq leftover'
          /\ \A f \in call[c].files : f \notin objects' \/ f \in leftover'
          /\ \A f \in Files : /\ f \in objects' => f \in objects
                              /\ f \notin call[c].files => (f \in objects' <=> f \in objects)
          /\ call[c].files \subseteq Files
      BY <1>1, <2>3
    <3> QED BY <2>1, <2>3, <3>1, <3>2, FilesMove
  <2>4. CASE /\ call[c].pc = "deleting" /\ call'[c] = Idle
             /\ \/ rows' = rows \ call[c].files /\ UNCHANGED leftover
                \/ UNCHANGED rows /\ leftover' = leftover \cup call[c].files
             /\ UNCHANGED objects
    <3>1. Own(call'[c]) = {} /\ call'[c].files = {}
      BY <2>4, IdleIsSensible DEF Own
    <3>2. \A f \in call[c].files : f \in Files /\ (f \notin objects \/ f \in leftover)
      BY <1>1, <2>4 DEF FilesInv, OldFilesKnown
    <3>3. /\ leftover \subseteq leftover'
          /\ \A f \in Files : /\ f \in rows' => f \in rows
                              /\ f \notin call[c].files => (f \in rows' <=> f \in rows)
          /\ \A f \in call[c].files : f \in leftover' \/ (f \in rows' <=> f \in objects')
      BY <2>4, <3>2
    <3> QED BY <2>1, <2>4, <3>1, <3>2, <3>3, FilesMove
  <2> QED BY <1>12, <2>2, <2>3, <2>4, DetachShape
<1>13. CASE Crash
  <2>1. /\ \A c \in Calls : call'[c].files = {} /\ Own(call'[c]) = {}
        /\ UNCHANGED <<rows, taskOf, objects, used, late>> /\ leftover' = leftover \cup Held
    BY <1>13, IdleIsSensible DEF Crash, Own
  <2>2. \A f : Busy(f) => f \in Held
    BY DEF Busy, Held
  <2> QED BY <2>1, <2>2 DEF FilesInv, OwnFilesNew, OldFilesKnown, FilesSettled
<1>14. CASE UNCHANGED vars
  BY <1>14 DEF vars, FilesInv, OwnFilesNew, OldFilesKnown, FilesSettled, Busy
<1> QED BY <1>3, <1>4, <1>5, <1>6, <1>7, <1>8, <1>9, <1>10, <1>11, <1>12, <1>13, <1>14, StepCases

(***************************************************************************)
(* "Removed with the task": rows and objects of attachments agree unless   *)
(* an operation on them failed or was overtaken by the listing.            *)
(***************************************************************************)
THEOREM FilesAccountedFor == Spec => []AttachmentsAgree
<1>1. TypeInv /\ FilesInv /\ [Next]_vars => TypeInv' /\ FilesInv'
  BY TypeStep, FilesStep
<1>2. FilesInv => AttachmentsAgree
  BY DEF FilesInv, FilesSettled, AttachmentsAgree, Busy, Held
<1> QED BY <1>1, <1>2, TypeInit, FilesInit, PTL DEF Spec
-----------------------------------------------------------------------------
(***************************************************************************)
(* The rows of tasks.  Create, UpdateWrite, Tell, RemoveRow and a crash    *)
(* write them; all other steps leave them alone.                           *)
(***************************************************************************)
Elsewhere(c) ==
  \/ UpdateMisses(c) \/ RemoveMisses(c) \/ RemoveList(c)
  \/ \E f \in Files : Clear(c, f) \/ ClearFails(c, f)
  \/ \E u \in Staff, t \in Tasks, f \in Files : UploadRead(c, u, t, f)
  \/ Store(c) \/ StoreFails(c) \/ Record(c) \/ RecordFails(c)
  \/ Detaching(c)

LEMMA TaskStepCases ==
  ASSUME [Next]_vars
  PROVE  \/ \E c \in Calls :
              \/ \E u \in Staff, t \in Tasks, who \in Staff : Create(c, u, t, who)
              \/ \E u \in Staff, t \in Tasks, to \in Statuses \cup {None}, who \in Staff \cup {None} :
                   UpdateRead(c, u, t, to, who)
              \/ \E u \in Staff, t \in Tasks : RemoveRead(c, u, t)
              \/ UpdateWrite(c) \/ Tell(c, "yes") \/ Tell(c, "lost") \/ RemoveRow(c)
              \/ Elsewhere(c)
         \/ Crash
         \/ UNCHANGED vars
<1>1. ASSUME NEW c \in Calls, WithoutFiles(c)
      PROVE  \/ \E u \in Staff, t \in Tasks, who \in Staff : Create(c, u, t, who)
             \/ \E u \in Staff, t \in Tasks, to \in Statuses \cup {None}, who \in Staff \cup {None} :
                  UpdateRead(c, u, t, to, who)
             \/ \E u \in Staff, t \in Tasks : RemoveRead(c, u, t)
             \/ UpdateWrite(c) \/ Tell(c, "yes") \/ Tell(c, "lost")
             \/ Elsewhere(c)
  BY <1>1 DEF WithoutFiles, Elsewhere
<1> QED BY <1>1, StepCases DEF Elsewhere

LEMMA ElsewhereShape ==
  ASSUME TypeInv, NEW c \in Calls, Elsewhere(c)
  PROVE  /\ GoesOn(c, call'[c]) /\ Sensible(call'[c]) /\ UNCHANGED task
         /\ call[c].pc # "announcing"
         /\ call[c].pc \in {"writing", "dropping"} => ~ Exists(call[c].tsk)
         /\ call'[c].pc \notin {"writing", "announcing", "listing"}
         /\ \/ call'[c].tsk \in {None, call[c].tsk}
            \/ call'[c].tsk \in Tasks /\ Exists(call'[c].tsk)
         /\ call'[c].pc = "dropping" =>
              /\ call[c].pc = "listing"
              /\ call'[c].by = call[c].by /\ call'[c].tsk = call[c].tsk
              /\ call'[c].overtaken = call[c].overtaken
<1> DEFINE Shape == /\ GoesOn(c, call'[c]) /\ Sensible(call'[c]) /\ UNCHANGED task
                    /\ call[c].pc # "announcing"
                    /\ call[c].pc \in {"writing", "dropping"} => ~ Exists(call[c].tsk)
                    /\ call'[c].pc \notin {"writing", "announcing", "listing"}
                    /\ \/ call'[c].tsk \in {None, call[c].tsk}
                       \/ call'[c].tsk \in Tasks /\ Exists(call'[c].tsk)
                    /\ call'[c].pc = "dropping" =>
                         /\ call[c].pc = "listing"
                         /\ call'[c].by = call[c].by /\ call'[c].tsk = call[c].tsk
                         /\ call'[c].overtaken = call[c].overtaken
<1>1. CASE UpdateMisses(c) \/ RemoveMisses(c)
  <2>1. Shape
    BY <1>1, MissesShape, IdleIsSensible
  <2> QED BY <2>1
<1>2. CASE RemoveList(c)
  BY <1>2, RemoveListShape
<1>3. ASSUME NEW f \in Files, Clear(c, f) \/ ClearFails(c, f) PROVE Shape
  BY <1>3, ClearShape
<1>4. ASSUME NEW u \in Staff, NEW t \in Tasks, NEW f \in Files, UploadRead(c, u, t, f) PROVE Shape
  BY <1>4, UploadReadShape, IdleIsSensible DEF UploadRead
<1>5. CASE Store(c)
  BY <1>5, StoreShape
<1>6. CASE StoreFails(c) \/ Record(c)
  BY <1>6, UploadEndsShape, IdleIsSensible
<1>7. CASE RecordFails(c)
  BY <1>7, RecordFailsShape
<1>8. CASE Detaching(c)
  <2>1. /\ call[c].pc \in {"idle", "removing", "deleting"}
        /\ call'[c].pc \in {"idle", "removing", "deleting"}
    <3>1. CASE \E f \in Files : DetachRead(c, f)
      <4>1. call[c].pc = "idle"
        BY <3>1, IdleIsSensible DEF DetachRead
      <4> QED BY <1>8, <4>1, DetachShape, IdleIsSensible
    <3>2. CASE DetachObject(c) \/ DetachRow(c) \/ DetachRowFails(c)
      <4>1. call[c].pc \in {"removing", "deleting"}
        BY <3>2 DEF DetachObject, DetachRow, DetachRowFails
      <4> QED BY <1>8, <4>1, DetachShape, IdleIsSensible
    <3> QED BY <1>8, <3>1, <3>2 DEF Detaching
  <2> QED BY <1>8, <2>1, DetachShape
<1> HIDE DEF Shape
<1>9. Shape
  BY <1>1, <1>2, <1>3, <1>4, <1>5, <1>6, <1>7, <1>8 DEF Elsewhere, Shape
<1> QED BY <1>9 DEF Shape

LEMMA RowWritten ==
  ASSUME NEW row \in Row, NEW u \in Staff, NEW to \in Statuses \cup {None},
         NEW who \in Staff \cup {None}
  PROVE  LET r == Assigned(Moved(row, to), u, who)
         IN  /\ r.status = IF to = None THEN row.status ELSE to
             /\ r.completed = IF to = None THEN row.completed ELSE to = "DONE"
             /\ r.creator = row.creator
             /\ r.assignee = IF who = None THEN row.assignee ELSE who
             /\ r.aware = IF who = None THEN row.aware ELSE IF who = u THEN "yes" ELSE "no"
<1> DEFINE m == Moved(row, to)
<1>1. /\ m \in Row
      /\ m.status = IF to = None THEN row.status ELSE to
      /\ m.completed = IF to = None THEN row.completed ELSE to = "DONE"
      /\ m.creator = row.creator /\ m.assignee = row.assignee /\ m.aware = row.aware
  BY DEF Moved, Row
<1> HIDE DEF m
<1>2. LET r == Assigned(m, u, who)
      IN  /\ r.status = m.status /\ r.completed = m.completed /\ r.creator = m.creator
          /\ r.assignee = IF who = None THEN m.assignee ELSE who
          /\ r.aware = IF who = None THEN m.aware ELSE IF who = u THEN "yes" ELSE "no"
  BY <1>1 DEF Assigned, Row
<1> QED BY <1>1, <1>2 DEF m
-----------------------------------------------------------------------------
(***************************************************************************)
(* Whoever is to be told is named by the call that is telling.             *)
(***************************************************************************)
LEMMA KnowsMove ==
  ASSUME TypeInv, TheAssigneeKnows, NEW c \in Calls, NEW k, Sensible(k), GoesOn(c, k),
         \A t \in Tasks : task'[t].completed <=> task'[t].status = "DONE",
         \A t \in Tasks : task'[t].aware = "no" =>
           \/ k.pc = "announcing" /\ k.tsk = t /\ k.who = task'[t].assignee
           \/ /\ task[t].aware = "no" /\ task'[t].assignee = task[t].assignee
              /\ ~ (call[c].pc = "announcing" /\ call[c].tsk = t /\ call[c].who = task[t].assignee)
  PROVE  TheAssigneeKnows'
<1>1. /\ call'[c] = k
      /\ \A d \in Calls \ {c} : /\ call'[d].pc = call[d].pc /\ call'[d].tsk = call[d].tsk
                                /\ call'[d].who = call[d].who
  BY OthersStay
<1>2. ASSUME NEW t \in Tasks, task'[t].aware = "no"
      PROVE  \E d \in Calls : call'[d].pc = "announcing" /\ call'[d].tsk = t
                                /\ call'[d].who = task'[t].assignee
  <2>1. CASE k.pc = "announcing" /\ k.tsk = t /\ k.who = task'[t].assignee
    BY <1>1, <2>1
  <2>2. CASE ~ (k.pc = "announcing" /\ k.tsk = t /\ k.who = task'[t].assignee)
    <3>1. PICK d \in Calls : call[d].pc = "announcing" /\ call[d].tsk = t
                               /\ call[d].who = task[t].assignee
      BY <1>2, <2>2 DEF TheAssigneeKnows
    <3>2. d # c
      BY <1>2, <2>2, <3>1
    <3> QED BY <1>1, <1>2, <2>2, <3>1, <3>2
  <2> QED BY <2>1, <2>2
<1> QED BY <1>2 DEF TheAssigneeKnows

LEMMA KnowsInit == Init => TheAssigneeKnows
BY DEF Init, TheAssigneeKnows, Blank

LEMMA KnowsStep ==
  ASSUME TypeInv, TheAssigneeKnows, [Next]_vars
  PROVE  TheAssigneeKnows'
<1>1. task \in [Tasks -> Row] /\ call \in [Calls -> CallState]
  BY DEF TypeInv, TypeOK
<1>2. \A t \in Tasks : task[t].completed <=> task[t].status = "DONE"
  BY DEF TheAssigneeKnows
<1>3. ASSUME NEW c \in Calls, GoesOn(c, call'[c]), Sensible(call'[c]), UNCHANGED task,
             call[c].pc # "announcing"
      PROVE  TheAssigneeKnows'
  BY <1>2, <1>3, KnowsMove
<1>4. ASSUME NEW c \in Calls, NEW u \in Staff, NEW t \in Tasks, NEW who \in Staff,
             Create(c, u, t, who)
      PROVE  TheAssigneeKnows'
  <2> DEFINE row == [status |-> "TODO", completed |-> FALSE, assignee |-> who, creator |-> u,
                     aware |-> IF who = u THEN "yes" ELSE "no"]
  <2>1. /\ GoesOn(c, call'[c]) /\ Sensible(call'[c])
        /\ call[c] = Idle /\ call'[c] = Announcing(u, t, who)
    BY <1>4, CreateShape
  <2>2. task' = [task EXCEPT ![t] = row]
    BY <1>4 DEF Create
  <2>3. /\ task'[t] = row
        /\ \A s \in Tasks \ {t} : task'[s] = task[s]
    BY <1>1, <2>2
  <2>4. row.completed = FALSE /\ row.status = "TODO" /\ row.assignee = who
        /\ row.aware = IF who = u THEN "yes" ELSE "no"
    OBVIOUS
  <2> HIDE DEF row
  <2>5. \A s \in Tasks : task'[s].completed <=> task'[s].status = "DONE"
    BY <1>2, <2>3, <2>4
  <2>6. row.aware = "no" =>
          call'[c].pc = "announcing" /\ call'[c].tsk = t /\ call'[c].who = row.assignee
    <3> SUFFICES ASSUME row.aware = "no"
                 PROVE  call'[c].pc = "announcing" /\ call'[c].tsk = t /\ call'[c].who = row.assignee
      OBVIOUS
    <3>1. who \notin {None, u}
      BY <2>4, TasksAssumption
    <3> QED BY <2>1, <2>4, <3>1, AnnouncingIsSensible
  <2>7. call[c].pc = "idle"
    BY <2>1, IdleIsSensible
  <2> QED BY <2>1, <2>3, <2>5, <2>6, <2>7, KnowsMove
<1>5. ASSUME NEW c \in Calls, UpdateWrite(c) PROVE TheAssigneeKnows'
  <2> DEFINE k == call[c]
             t == k.tsk
             row == Assigned(Moved(task[t], k.to), k.by, k.who)
  <2>1. /\ GoesOn(c, call'[c]) /\ Sensible(call'[c])
        /\ k.pc = "writing" /\ t \in Tasks /\ k.by \in Staff
        /\ k.to \in Statuses \cup {None} /\ k.who \in Staff \cup {None}
        /\ call'[c] = Announcing(k.by, t, k.who)
    BY <1>5, UpdateWriteShape
  <2>2. task' = [task EXCEPT ![t] = row] /\ Exists(t)
    BY <1>5 DEF UpdateWrite
  <2>3. /\ task'[t] = row
        /\ \A s \in Tasks \ {t} : task'[s] = task[s]
    BY <1>1, <2>1, <2>2
  <2>4. /\ row.status = IF k.to = None THEN task[t].status ELSE k.to
        /\ row.completed = IF k.to = None THEN task[t].completed ELSE k.to = "DONE"
        /\ row.assignee = IF k.who = None THEN task[t].assignee ELSE k.who
        /\ row.aware = IF k.who = None THEN task[t].aware ELSE IF k.who = k.by THEN "yes" ELSE "no"
    BY <1>1, <2>1, RowWritten
  <2> HIDE DEF row
  <2>5. \A s \in Tasks : task'[s].completed <=> task'[s].status = "DONE"
    BY <1>2, <2>1, <2>3, <2>4
  <2>6. row.aware = "no" /\ k.who # None =>
          call'[c].pc = "announcing" /\ call'[c].tsk = t /\ call'[c].who = row.assignee
    <3> SUFFICES ASSUME row.aware = "no", k.who # None
                 PROVE  call'[c].pc = "announcing" /\ call'[c].tsk = t /\ call'[c].who = row.assignee
      OBVIOUS
    <3>1. k.who \notin {None, k.by} /\ row.assignee = k.who
      BY <2>4
    <3> QED BY <2>1, <3>1, AnnouncingIsSensible
  <2> QED BY <2>1, <2>3, <2>4, <2>5, <2>6, KnowsMove
<1>6. ASSUME NEW c \in Calls, NEW aware \in {"yes", "lost"}, Tell(c, aware)
      PROVE  TheAssigneeKnows'
  <2> DEFINE t == call[c].tsk
             row == [task[t] EXCEPT !.aware = aware]
             mine == task[t].assignee = call[c].who /\ task[t].aware = "no"
  <2>1. /\ GoesOn(c, call'[c]) /\ Sensible(call'[c]) /\ t \in Tasks
    BY <1>6, TellShape
  <2>2. task' = IF mine THEN [task EXCEPT ![t] = row] ELSE task
    BY <1>6 DEF Tell
  <2>3. /\ row.status = task[t].status /\ row.completed = task[t].completed
        /\ row.aware = aware
    BY <1>1, <2>1 DEF Row
  <2>4. /\ mine => task'[t] = row
        /\ \A s \in Tasks : s # t \/ ~ mine => task'[s] = task[s]
    BY <1>1, <2>1, <2>2
  <2> HIDE DEF row
  <2>5. \A s \in Tasks : task'[s].completed <=> task'[s].status = "DONE"
    BY <1>2, <2>3, <2>4
  <2> QED BY <2>1, <2>3, <2>4, <2>5, KnowsMove
<1>7. ASSUME NEW c \in Calls, RemoveRow(c) PROVE TheAssigneeKnows'
  <2> DEFINE t == call[c].tsk
             row == [Blank EXCEPT !.status = "GONE"]
  <2>1. /\ GoesOn(c, call'[c]) /\ Sensible(call'[c]) /\ call[c].pc = "dropping" /\ t \in Tasks
        /\ task' = [task EXCEPT ![t] = row]
    BY <1>7, RemoveRowShape
  <2>2. /\ task'[t] = row
        /\ \A s \in Tasks \ {t} : task'[s] = task[s]
    BY <1>1, <2>1
  <2>3. row.status = "GONE" /\ row.completed = FALSE /\ row.aware = "yes"
    BY DEF Blank
  <2> HIDE DEF row
  <2>4. \A s \in Tasks : task'[s].completed <=> task'[s].status = "DONE"
    BY <1>2, <2>2, <2>3
  <2> QED BY <2>1, <2>2, <2>3, <2>4, KnowsMove
<1>8. CASE Crash
  <2>1. \A t \in Tasks : /\ task'[t].aware # "no"
                         /\ task'[t].status = task[t].status
                         /\ task'[t].completed = task[t].completed
    BY <1>1, <1>8 DEF Crash, Row
  <2> QED BY <1>2, <2>1 DEF TheAssigneeKnows
<1>9. CASE UNCHANGED vars
  BY <1>9 DEF vars, TheAssigneeKnows
<1>10. ASSUME NEW c \in Calls, NEW u \in Staff, NEW t \in Tasks,
              NEW to \in Statuses \cup {None}, NEW who \in Staff \cup {None},
              UpdateRead(c, u, t, to, who) \/ RemoveRead(c, u, t)
       PROVE  TheAssigneeKnows'
  BY <1>3, <1>10, UpdateReadShape, RemoveReadShape, IdleIsSensible
<1>11. ASSUME NEW c \in Calls, Elsewhere(c) PROVE TheAssigneeKnows'
  BY <1>3, <1>11, ElsewhereShape
<1> QED BY <1>4, <1>5, <1>6, <1>7, <1>8, <1>9, <1>10, <1>11, TaskStepCases

(***************************************************************************)
(* "You have been assigned": once nothing is being announced the assignee  *)
(* knows, or the notice was lost; and completedAt goes with DONE.          *)
(***************************************************************************)
THEOREM AssigneesAreTold == Spec => []TheAssigneeKnows
<1>1. TypeInv /\ TheAssigneeKnows /\ [Next]_vars => TypeInv' /\ TheAssigneeKnows'
  BY TypeStep, KnowsStep
<1> QED BY <1>1, TypeInit, KnowsInit, PTL DEF Spec
-----------------------------------------------------------------------------
(***************************************************************************)
(* What a call that nobody overtook may do.  A write of a row is either    *)
(* the first one, when no call has the task in hand, or it overtakes every *)
(* other call that has loaded it.                                          *)
(***************************************************************************)
\* The columns of the row that the rights depend on.
SameRights(t) ==
  /\ task'[t].status = task[t].status
  /\ task'[t].assignee = task[t].assignee
  /\ task'[t].creator = task[t].creator

LEMMA RightsMove ==
  ASSUME TypeInv, RightsInv, NEW c \in Calls, NEW k, Sensible(k), GoesOn(c, k),
         k.tsk # None => task'[k.tsk].status # "ABSENT",
         \A t \in Tasks : task[t].status # "ABSENT" => task'[t].status # "ABSENT",
         \A t \in Tasks : k.tsk = t => k.overtaken \/ RowAllows(task'[t], k),
         \A t \in Tasks : \/ task[t].status = "ABSENT"
                          \/ SameRights(t)
                          \/ \A d \in Calls \ {c} :
                               call[d].pc \in {"writing", "listing", "dropping"} /\ call[d].tsk = t
                                 => call'[d].overtaken
  PROVE  RightsInv'
<1>1. /\ call'[c] = k
      /\ \A d \in Calls \ {c} :
           /\ call'[d].pc = call[d].pc /\ call'[d].by = call[d].by /\ call'[d].tsk = call[d].tsk
           /\ call'[d].to = call[d].to /\ call'[d].who = call[d].who
           /\ call[d].overtaken => call'[d].overtaken
  BY OthersStay
<1>2. \A d \in Calls : call[d].tsk \in Tasks \cup {None}
  BY DEF TypeInv, TypeOK, CallState
<1>3. AbsentUntouched'
  <2> SUFFICES ASSUME NEW d \in Calls, call'[d].tsk # None
               PROVE  task'[call'[d].tsk].status # "ABSENT"
    BY DEF AbsentUntouched
  <2>1. CASE d = c
    BY <1>1, <2>1
  <2>2. CASE d # c
    BY <1>1, <1>2, <2>2 DEF RightsInv, AbsentUntouched
  <2> QED BY <2>1, <2>2
<1>4. FreshUnlessOvertaken'
  <2> SUFFICES ASSUME NEW d \in Calls, NEW t \in Tasks, call'[d].tsk = t, ~ call'[d].overtaken
               PROVE  RowAllows(task'[t], call'[d])
    BY DEF FreshUnlessOvertaken
  <2>1. CASE d = c
    BY <1>1, <2>1
  <2>2. CASE d # c
    <3>1. RowAllows(task[t], call[d]) /\ call[d].tsk = t
      BY <1>1, <2>2 DEF RightsInv, FreshUnlessOvertaken
    <3>2. task[t].status # "ABSENT"
      BY <3>1, TasksAssumption DEF RightsInv, AbsentUntouched
    <3>3. SameRights(t) \/ call[d].pc \notin {"writing", "listing", "dropping"}
      BY <2>2, <3>1, <3>2
    <3>4. CASE SameRights(t)
      BY <1>1, <2>2, <3>1, <3>4 DEF RowAllows, SameRights
    <3>5. CASE call[d].pc \notin {"writing", "listing", "dropping"}
      BY <1>1, <2>2, <3>5 DEF RowAllows
    <3> QED BY <3>3, <3>4, <3>5
  <2> QED BY <2>1, <2>2
<1> QED BY <1>3, <1>4 DEF RightsInv

LEMMA RightsInit == Init => RightsInv
BY IdleIsSensible, TasksAssumption DEF Init, RightsInv, AbsentUntouched, FreshUnlessOvertaken

LEMMA RightsStep ==
  ASSUME TypeInv, RightsInv, [Next]_vars
  PROVE  RightsInv'
<1>1. task \in [Tasks -> Row] /\ call \in [Calls -> CallState] /\ \A c \in Calls : Sensible(call[c])
  BY DEF TypeInv, TypeOK
<1>2. UNCHANGED task => \A t \in Tasks : SameRights(t)
  BY DEF SameRights
<1>3. ASSUME NEW c \in Calls, NEW u \in Staff, NEW t \in Tasks, NEW who \in Staff,
             Create(c, u, t, who)
      PROVE  RightsInv'
  <2>1. /\ GoesOn(c, call'[c]) /\ Sensible(call'[c])
        /\ call[c] = Idle /\ call'[c] = Announcing(u, t, who)
    BY <1>3, CreateShape
  <2>2. /\ task[t].status = "ABSENT" /\ task'[t].status = "TODO"
        /\ \A s \in Tasks \ {t} : task'[s] = task[s]
    BY <1>1, <1>3 DEF Create
  <2>3. (call'[c].pc = "idle" \/ call'[c].pc = "announcing") /\ (call'[c].tsk = None \/ call'[c].tsk = t)
    BY <2>1, AnnouncingAtMost
  <2>4. \A s \in Tasks : RowAllows(task'[s], call'[c])
    BY <2>3 DEF RowAllows
  <2>5. \A s \in Tasks : task[s].status = "ABSENT" \/ SameRights(s)
    BY <2>2 DEF SameRights
  <2> QED BY <2>1, <2>2, <2>3, <2>4, <2>5, RightsMove
<1>4. ASSUME NEW c \in Calls, NEW u \in Staff, NEW t \in Tasks,
             NEW to \in Statuses \cup {None}, NEW who \in Staff \cup {None},
             UpdateRead(c, u, t, to, who)
      PROVE  RightsInv'
  <2>1. /\ GoesOn(c, call'[c]) /\ Sensible(call'[c]) /\ call[c] = Idle
        /\ call'[c].pc = "writing" /\ call'[c].by = u /\ call'[c].tsk = t
        /\ call'[c].to = to /\ call'[c].who = who
        /\ UNCHANGED <<task, fileVars>>
    BY <1>4, UpdateReadShape
  <2>2. RowAllows(task[t], call'[c])
    BY <1>4, <2>1 DEF RowAllows, UpdateRead, MayMove, Owns
  <2>3. task[t].status # "ABSENT"
    BY <1>4 DEF UpdateRead, Exists, Statuses
  <2> QED BY <1>2, <2>1, <2>2, <2>3, RightsMove
<1>5. ASSUME NEW c \in Calls, NEW u \in Staff, NEW t \in Tasks, RemoveRead(c, u, t)
      PROVE  RightsInv'
  <2>1. /\ GoesOn(c, call'[c]) /\ Sensible(call'[c]) /\ call[c] = Idle
        /\ call'[c].pc = "listing" /\ call'[c].by = u /\ call'[c].tsk = t
        /\ UNCHANGED <<task, fileVars>>
    BY <1>5, RemoveReadShape
  <2>2. RowAllows(task[t], call'[c])
    BY <1>5, <2>1 DEF RowAllows, RemoveRead, Owns
  <2>3. task[t].status # "ABSENT"
    BY <1>5 DEF RemoveRead, Exists, Statuses
  <2> QED BY <1>2, <2>1, <2>2, <2>3, RightsMove
<1>6. ASSUME NEW c \in Calls, UpdateWrite(c) PROVE RightsInv'
  <2> DEFINE k == call[c]
             t == k.tsk
             row == Assigned(Moved(task[t], k.to), k.by, k.who)
  <2>1. /\ GoesOn(c, call'[c]) /\ Sensible(call'[c])
        /\ k.pc = "writing" /\ t \in Tasks /\ k.by \in Staff
        /\ k.to \in Statuses \cup {None} /\ k.who \in Staff \cup {None}
        /\ call'[c] = Announcing(k.by, t, k.who) /\ call' = Written(c, t, call'[c])
    BY <1>6, UpdateWriteShape
  <2>2. task' = [task EXCEPT ![t] = row] /\ Exists(t)
    BY <1>6 DEF UpdateWrite
  <2>3. /\ task'[t] = row
        /\ \A s \in Tasks \ {t} : task'[s] = task[s]
    BY <1>1, <2>1, <2>2
  <2>4. row.status = IF k.to = None THEN task[t].status ELSE k.to
    BY <1>1, <2>1, RowWritten
  <2> HIDE DEF row
  <2>5. task'[t].status # "ABSENT"
    BY <2>1, <2>2, <2>3, <2>4 DEF Exists, Statuses
  <2>6. (call'[c].pc = "idle" \/ call'[c].pc = "announcing") /\ (call'[c].tsk = None \/ call'[c].tsk = t)
    BY <2>1, AnnouncingAtMost
  <2>7. \A s \in Tasks : RowAllows(task'[s], call'[c])
    BY <2>6 DEF RowAllows
  <2>8. \A s \in Tasks \ {t} : SameRights(s)
    BY <2>3 DEF SameRights
  <2>9. \A d \in Calls \ {c} :
          call[d].pc \in {"writing", "listing", "dropping"} /\ call[d].tsk = t => call'[d].overtaken
    BY <2>1, WrittenOvertakes
  <2> QED BY <2>1, <2>3, <2>5, <2>6, <2>7, <2>8, <2>9, RightsMove
<1>7. ASSUME NEW c \in Calls, NEW aware \in {"yes", "lost"}, Tell(c, aware)
      PROVE  RightsInv'
  <2> DEFINE t == call[c].tsk
             row == [task[t] EXCEPT !.aware = aware]
  <2>1. /\ GoesOn(c, call'[c]) /\ Sensible(call'[c]) /\ t \in Tasks /\ call'[c] = Idle
    BY <1>7, TellShape
  <2>2. task' \in {task, [task EXCEPT ![t] = row]}
    BY <1>7 DEF Tell
  <2>3. row.status = task[t].status /\ row.assignee = task[t].assignee
        /\ row.creator = task[t].creator
    BY <1>1, <2>1 DEF Row
  <2> HIDE DEF row
  <2>4. \A s \in Tasks : SameRights(s)
    BY <1>1, <2>1, <2>2, <2>3 DEF SameRights
  <2>5. \A s \in Tasks : call'[c].tsk # s
    BY <2>1, IdleIsSensible, TasksAssumption
  <2>6. \A s \in Tasks : task[s].status # "ABSENT" => task'[s].status # "ABSENT"
    BY <2>4 DEF SameRights
  <2> QED BY <2>1, <2>4, <2>5, <2>6, IdleIsSensible, RightsMove
<1>8. ASSUME NEW c \in Calls, RemoveRow(c) PROVE RightsInv'
  <2> DEFINE t == call[c].tsk
             row == [Blank EXCEPT !.status = "GONE"]
  <2>1. /\ GoesOn(c, call'[c]) /\ Sensible(call'[c]) /\ call[c].pc = "dropping" /\ t \in Tasks
        /\ call'[c].tsk = None /\ task' = [task EXCEPT ![t] = row]
        /\ call' = Written(c, t, call'[c])
    BY <1>8, RemoveRowShape
  <2>2. /\ task'[t] = row
        /\ \A s \in Tasks \ {t} : task'[s] = task[s]
    BY <1>1, <2>1
  <2>3. row.status = "GONE"
    BY DEF Blank
  <2> HIDE DEF row
  <2>4. \A s \in Tasks \ {t} : SameRights(s)
    BY <2>2 DEF SameRights
  <2>5. \A d \in Calls \ {c} :
          call[d].pc \in {"writing", "listing", "dropping"} /\ call[d].tsk = t => call'[d].overtaken
    BY <2>1, WrittenOvertakes
  <2>6. \A s \in Tasks : call'[c].tsk # s
    BY <2>1, TasksAssumption
  <2> QED BY <2>1, <2>2, <2>3, <2>4, <2>5, <2>6, RightsMove
<1>9. ASSUME NEW c \in Calls, Elsewhere(c) PROVE RightsInv'
  <2>1. /\ GoesOn(c, call'[c]) /\ Sensible(call'[c]) /\ UNCHANGED task
        /\ call'[c].pc \notin {"writing", "announcing", "listing"}
        /\ \/ call'[c].tsk \in {None, call[c].tsk}
           \/ call'[c].tsk \in Tasks /\ Exists(call'[c].tsk)
        /\ call'[c].pc = "dropping" =>
             /\ call[c].pc = "listing"
             /\ call'[c].by = call[c].by /\ call'[c].tsk = call[c].tsk
             /\ call'[c].overtaken = call[c].overtaken
    BY <1>9, ElsewhereShape
  <2>2. call'[c].tsk # None => task[call'[c].tsk].status # "ABSENT"
    BY <1>1, <2>1 DEF RightsInv, AbsentUntouched, Exists, Statuses
  <2>3. ASSUME NEW t \in Tasks, call'[c].tsk = t, ~ call'[c].overtaken
        PROVE  RowAllows(task[t], call'[c])
    <3>1. CASE call'[c].pc = "dropping"
      <4>1. RowAllows(task[t], call[c])
        BY <2>1, <2>3, <3>1 DEF RightsInv, FreshUnlessOvertaken
      <4> QED BY <2>1, <3>1, <4>1 DEF RowAllows
    <3>2. CASE call'[c].pc # "dropping"
      BY <2>1, <3>2 DEF RowAllows
    <3> QED BY <3>1, <3>2
  <2> QED BY <1>2, <2>1, <2>2, <2>3, RightsMove
<1>10. CASE Crash
  <2>1. \A t \in Tasks : task'[t].status = task[t].status
    BY <1>1, <1>10 DEF Crash, Row
  <2>2. \A c \in Calls : call'[c].tsk = None
    BY <1>10, IdleIsSensible DEF Crash
  <2> QED BY <2>2, TasksAssumption DEF RightsInv, AbsentUntouched, FreshUnlessOvertaken
<1>11. CASE UNCHANGED vars
  BY <1>11 DEF vars, RightsInv, AbsentUntouched, FreshUnlessOvertaken
<1> QED BY <1>3, <1>4, <1>5, <1>6, <1>7, <1>8, <1>9, <1>10, <1>11, TaskStepCases

\* The step in which a call writes a task is one of its own.
LEMMA WritersMove ==
  ASSUME TypeInv, [Next]_vars, NEW c \in Calls, NEW t \in Tasks, Writes(c, t)
  PROVE  UpdateWrite(c) \/ RemoveRow(c) \/ Crash
<1>1. call[c].tsk = t /\ call[c].pc \in {"writing", "dropping"} /\ call'[c].pc # call[c].pc
      /\ Exists(t)
  BY DEF Writes
<1>2. ASSUME NEW d \in Calls, GoesOn(d, call'[d]), Sensible(call'[d]) PROVE d = c
  BY <1>1, <1>2, OthersStay
<1>3. ASSUME NEW d \in Calls, NEW u \in Staff, NEW s \in Tasks, NEW who \in Staff, Create(d, u, s, who)
      PROVE  FALSE
  BY <1>1, <1>2, <1>3, CreateShape, IdleIsSensible
<1>4. ASSUME NEW d \in Calls, NEW u \in Staff, NEW s \in Tasks,
             NEW to \in Statuses \cup {None}, NEW who \in Staff \cup {None},
             UpdateRead(d, u, s, to, who) \/ RemoveRead(d, u, s)
      PROVE  FALSE
  BY <1>1, <1>2, <1>4, UpdateReadShape, RemoveReadShape, IdleIsSensible
<1>5. ASSUME NEW d \in Calls, Tell(d, "yes") \/ Tell(d, "lost") PROVE FALSE
  BY <1>1, <1>2, <1>5, TellShape
<1>6. ASSUME NEW d \in Calls, Elsewhere(d) PROVE FALSE
  BY <1>1, <1>2, <1>6, ElsewhereShape
<1>7. ASSUME NEW d \in Calls, UpdateWrite(d) \/ RemoveRow(d) PROVE d = c
  BY <1>2, <1>7, UpdateWriteShape, RemoveRowShape
<1>8. CASE UNCHANGED vars
  BY <1>1, <1>8 DEF vars
<1> QED BY <1>3, <1>4, <1>5, <1>6, <1>7, <1>8, TaskStepCases

(***************************************************************************)
(* TASK_STATUS_TRANSITIONS and the rights to move, reassign and delete are *)
(* kept by every write of a task that nobody has written since the call    *)
(* loaded it.                                                              *)
(***************************************************************************)
THEOREM OnlyTheOvertakenBreakTheTask == Spec => OnlyOvertakenCallsBreakTheTask
<1> DEFINE Kept(t, c) ==
      LET u == call[c].by
      IN  (Writes(c, t) /\ ~ call[c].overtaken) =>
            \/ task'[t].status = "GONE" /\ Owns(u, t)
            \/ /\ task'[t].status # task[t].status =>
                    task'[t].status \in Transitions[task[t].status] /\ MayMove(u, t)
               /\ task'[t].assignee # task[t].assignee => Owns(u, t)
<1>1. ASSUME TypeInv, RightsInv, [Next]_vars, NEW t \in Tasks, NEW c \in Calls
      PROVE  Kept(t, c)
  <2> SUFFICES ASSUME Writes(c, t), ~ call[c].overtaken
               PROVE  \/ task'[t].status = "GONE" /\ Owns(call[c].by, t)
                      \/ /\ task'[t].status # task[t].status =>
                              task'[t].status \in Transitions[task[t].status] /\ MayMove(call[c].by, t)
                         /\ task'[t].assignee # task[t].assignee => Owns(call[c].by, t)
    OBVIOUS
  <2>1. task \in [Tasks -> Row] /\ call[c].tsk = t /\ RowAllows(task[t], call[c])
    BY <1>1 DEF TypeInv, TypeOK, Writes, RightsInv, FreshUnlessOvertaken
  <2>2. CASE UpdateWrite(c)
    <3> DEFINE k == call[c]
               row == Assigned(Moved(task[t], k.to), k.by, k.who)
    <3>1. /\ k.pc = "writing" /\ k.by \in Staff
          /\ k.to \in Statuses \cup {None} /\ k.who \in Staff \cup {None}
      BY <1>1, <2>2, UpdateWriteShape
    <3>2. task'[t] = row
      BY <2>1, <2>2 DEF UpdateWrite
    <3>3. /\ row.status = IF k.to = None THEN task[t].status ELSE k.to
          /\ row.assignee = IF k.who = None THEN task[t].assignee ELSE k.who
      BY <2>1, <3>1, RowWritten
    <3> HIDE DEF row
    <3> QED BY <2>1, <3>1, <3>2, <3>3 DEF RowAllows, MayMove, Owns
  <2>3. CASE RemoveRow(c)
    <3>1. call[c].pc = "dropping" /\ task' = [task EXCEPT ![t] = [Blank EXCEPT !.status = "GONE"]]
      BY <1>1, <2>1, <2>3, RemoveRowShape
    <3>2. task'[t].status = "GONE"
      BY <2>1, <3>1 DEF Blank
    <3> QED BY <2>1, <3>1, <3>2 DEF RowAllows, Owns
  <2>4. CASE Crash
    BY <2>1, <2>4 DEF Crash, Row
  <2> QED BY <1>1, <2>2, <2>3, <2>4, WritersMove
<1>2. TypeInv /\ RightsInv /\ [Next]_vars => [\A t \in Tasks, c \in Calls : Kept(t, c)]_vars
  BY <1>1
<1>3. TypeInv /\ RightsInv /\ [Next]_vars => TypeInv' /\ RightsInv'
  BY TypeStep, RightsStep
<1> QED BY <1>2, <1>3, TypeInit, RightsInit, PTL DEF Spec, OnlyOvertakenCallsBreakTheTask
=============================================================================
