----------------------- MODULE DocumentRequestsProofs -----------------------
(***************************************************************************)
(* Proofs about DocumentRequests, for any requests, files and number of    *)
(* calls in flight: what a call holds, the rows and objects of documents,  *)
(* the review of a request, what an overtaken call may do, and the         *)
(* refinement of SubmissionPromise.                                        *)
(***************************************************************************)
EXTENDS DocumentRequests, TLAPS

FilesOf(k) == k.todo \cup k.stored

\* The files a call brings: nobody else has them, and no row is there yet.
Own(k) == IF k.unheard \/ k.pc \in {"removing", "deleting"} THEN {} ELSE FilesOf(k)

\* The locals of a call are what the step it stands at needs.
Sensible(k) ==
  /\ k \in CallState
  /\ k.pc \in {"editing", "dropping", "recording", "reviewing", "announcing"} => k.req \in Requests
  /\ k.pc \in {"idle", "inserting", "discarding", "removing", "deleting"} => k.req = None
  /\ k.pc = "announcing" => k.kind \in Kinds
  /\ k.todo # {} => k.pc = "storing"
  /\ k.stored # {} =>
       k.pc \in {"storing", "recording", "inserting", "discarding", "removing", "deleting"}
  /\ k.unheard => k.pc = "discarding"
  /\ k.pc \in {"storing", "recording"} /\ k.req # None => k.read \in Editable
  /\ k.pc = "storing" /\ k.req = None => k.stored = {} /\ \E f \in Files : k.todo = {f}
  /\ k.pc = "recording" => k.stored # {}
  /\ k.pc \in {"removing", "deleting"} => \E f \in Files : k.stored = {f}
  /\ k.pc = "reviewing" => k.read \in Statuses /\ k.to \in Transitions[k.read] \ {"SUBMITTED"}

TypeInv ==
  /\ TypeOK
  /\ \A c \in Calls : Sensible(call[c]) /\ FilesOf(call[c]) \subseteq used

\* Own files are new, and owned by one call only.
OwnFilesNew ==
  \A c \in Calls, f \in Files : f \in Own(call[c]) =>
    /\ f \notin rows /\ f \notin answered
    /\ f \in objects <=> f \in call[c].stored
    /\ \A d \in Calls : d # c => f \notin FilesOf(call[d])

\* What a removal or a late cleanup has in hand.
OldFilesKnown ==
  \A c \in Calls, f \in Files : f \in call[c].stored =>
    /\ call[c].pc = "deleting" => f \notin objects \/ f \in leftover
    /\ call[c].unheard => f \in leftover

FilesInv == OwnFilesNew /\ OldFilesKnown /\ RowsAndObjectsAgree

\* Only files of an answer belong to a request, and only to one that is there.
AnswersKnown ==
  \A f \in Files : answers[f] # None => f \in answered /\ Exists(answers[f])

\* A request that is not there yet has nothing, and nobody works on it.
AbsentUntouched ==
  /\ \A r \in Requests : request[r].status = "ABSENT" => request[r] = Blank
  /\ \A c \in Calls : call[c].req # None => request[call[c].req].status # "ABSENT"

ApprovedStays ==
  /\ \A r \in Requests : <<r, "approved">> \in told => request[r].status \in {"APPROVED", "GONE"}
  /\ \A c \in Calls : call[c].pc = "announcing" /\ call[c].kind = "approved" =>
       request[call[c].req].status \in {"APPROVED", "GONE"}

\* What a call loaded is still true, unless another moved the request since.
FreshUnlessOvertaken ==
  \A c \in Calls : call[c].overtaken \/
    /\ call[c].pc = "editing" => request[call[c].req].status \in Editable
    /\ call[c].pc = "dropping" => Exists(call[c].req) /\ AnswerOf(call[c].req) = {}
-----------------------------------------------------------------------------
(***************************************************************************)
(* What every step has in common: one call goes on as k, others stay as    *)
(* they were or are overtaken.                                             *)
(***************************************************************************)
GoesOn(c, k) == Goes(c, k) \/ \E r \in Requests : call' = Moved(c, r, k)

LEMMA IdleIsSensible ==
  /\ Sensible(Idle)
  /\ FilesOf(Idle) = {} /\ Own(Idle) = {}
BY DEF Sensible, FilesOf, Own, Idle, CallState, Editable

LEMMA AnnouncingIsSensible ==
  ASSUME NEW r \in Requests, NEW kind \in Kinds
  PROVE  /\ Sensible(Announcing(r, kind))
         /\ FilesOf(Announcing(r, kind)) = {} /\ Own(Announcing(r, kind)) = {}
<1> DEFINE k == Announcing(r, kind)
<1>1. k.pc = "announcing" /\ k.req = r /\ k.kind = kind /\ k.todo = {} /\ k.stored = {} /\ ~ k.unheard
  BY DEF Announcing, Idle
<1>2. k \in CallState
  BY DEF Announcing, Idle, CallState
<1> QED BY <1>1, <1>2 DEF Sensible, FilesOf, Own

LEMMA OthersStay ==
  ASSUME TypeInv, NEW c \in Calls, NEW k, Sensible(k), GoesOn(c, k)
  PROVE  /\ call' \in [Calls -> CallState]
         /\ call'[c] = k
         /\ \A d \in Calls : Sensible(call'[d])
         /\ \A d \in Calls \ {c} :
              /\ call'[d].pc = call[d].pc /\ call'[d].req = call[d].req
              /\ call'[d].kind = call[d].kind /\ call'[d].unheard = call[d].unheard
              /\ call'[d].todo = call[d].todo /\ call'[d].stored = call[d].stored
              /\ call[d].overtaken => call'[d].overtaken
<1> DEFINE Late(d) == [call[d] EXCEPT !.overtaken = TRUE]
<1>1. ASSUME NEW d \in Calls
      PROVE  /\ Sensible(Late(d))
             /\ Late(d).pc = call[d].pc /\ Late(d).req = call[d].req
             /\ Late(d).kind = call[d].kind /\ Late(d).unheard = call[d].unheard
             /\ Late(d).todo = call[d].todo /\ Late(d).stored = call[d].stored
             /\ Late(d).overtaken
  <2>1. Sensible(call[d]) /\ call[d] \in CallState
    BY DEF TypeInv, Sensible
  <2>2. /\ Late(d) \in CallState /\ Late(d).read = call[d].read /\ Late(d).to = call[d].to
        /\ Late(d).pc = call[d].pc /\ Late(d).req = call[d].req
        /\ Late(d).kind = call[d].kind /\ Late(d).unheard = call[d].unheard
        /\ Late(d).todo = call[d].todo /\ Late(d).stored = call[d].stored
        /\ Late(d).overtaken
    BY <2>1 DEF CallState
  <2> HIDE DEF Late
  <2> QED BY <2>1, <2>2 DEF Sensible
<1>2. ASSUME NEW d \in Calls \ {c} PROVE call'[d] \in {call[d], Late(d)}
  BY DEF GoesOn, Goes, Moved, TypeInv, TypeOK
<1>3. call'[c] = k
  BY DEF GoesOn, Goes, Moved, TypeInv, TypeOK
<1>4. DOMAIN call' = Calls /\ call' = [d \in Calls |-> call'[d]]
  BY DEF GoesOn, Goes, Moved, TypeInv, TypeOK
<1> HIDE DEF Late
<1>5. \A d \in Calls : Sensible(call'[d])
  BY <1>1, <1>2, <1>3 DEF TypeInv
<1>6. call' \in [Calls -> CallState]
  BY <1>4, <1>5 DEF Sensible
<1> QED BY <1>1, <1>2, <1>3, <1>5, <1>6

\* A step that keeps the rows typed, and gives a call what it needs.
LEMMA TypeKept ==
  ASSUME TypeInv, NEW c \in Calls, NEW k, Sensible(k), GoesOn(c, k),
         FilesOf(k) \subseteq used', used \subseteq used',
         request' \in [Requests -> Row],
         used' \subseteq Files /\ rows' \subseteq used' /\ objects' \subseteq used',
         leftover' \subseteq used' /\ answered' \subseteq used',
         answers' \in [Files -> Requests \cup {None}],
         told' \subseteq Requests \X Kinds
  PROVE  TypeInv'
<1>1. call' \in [Calls -> CallState] /\ \A d \in Calls : Sensible(call'[d])
  BY OthersStay
<1>2. \A d \in Calls : FilesOf(call'[d]) \subseteq used'
  BY OthersStay DEF FilesOf, TypeInv
<1> QED BY <1>1, <1>2 DEF TypeInv, TypeOK
-----------------------------------------------------------------------------
(***************************************************************************)
(* Type correctness, action by action: the step of call c, and what the    *)
(* call goes on as.                                                        *)
(***************************************************************************)
LEMMA LoadedIsSensible ==
  ASSUME NEW r \in Requests, Exists(r)
  PROVE  /\ Sensible(Loaded("editing", r)) /\ FilesOf(Loaded("editing", r)) = {}
         /\ Sensible(Loaded("dropping", r)) /\ FilesOf(Loaded("dropping", r)) = {}
         /\ \A to \in Transitions[request[r].status] \ {"SUBMITTED"} :
              LET k == [Loaded("reviewing", r) EXCEPT !.to = to]
              IN  Sensible(k) /\ FilesOf(k) = {}
         /\ request[r].status \in Editable =>
              \A F \in SUBSET Files : F # {} =>
                LET k == [Loaded("storing", r) EXCEPT !.todo = F]
                IN  Sensible(k) /\ FilesOf(k) = F
<1>1. ASSUME NEW pc \in {"editing", "dropping", "storing", "reviewing"}
      PROVE  /\ Loaded(pc, r) \in CallState
             /\ Loaded(pc, r).pc = pc /\ Loaded(pc, r).req = r
             /\ Loaded(pc, r).read = request[r].status
             /\ Loaded(pc, r).todo = {} /\ Loaded(pc, r).stored = {} /\ ~ Loaded(pc, r).unheard
  BY <1>1 DEF Loaded, Idle, CallState, Exists
<1>2. \A to \in Transitions[request[r].status] \ {"SUBMITTED"} : to \in Statuses
  BY DEF Transitions, Statuses, Exists
<1>3. r # None
  BY DocumentRequestsAssumption
<1>4. ASSUME NEW pc \in {"editing", "dropping"}
      PROVE  Sensible(Loaded(pc, r)) /\ FilesOf(Loaded(pc, r)) = {}
  BY <1>1, <1>4 DEF Sensible, FilesOf
<1>5. ASSUME NEW to \in Transitions[request[r].status] \ {"SUBMITTED"}
      PROVE  LET k == [Loaded("reviewing", r) EXCEPT !.to = to]
             IN  Sensible(k) /\ FilesOf(k) = {}
  BY <1>1, <1>2, <1>5 DEF Sensible, FilesOf, CallState, Exists
<1>6. ASSUME request[r].status \in Editable, NEW F \in SUBSET Files, F # {}
      PROVE  LET k == [Loaded("storing", r) EXCEPT !.todo = F]
             IN  Sensible(k) /\ FilesOf(k) = F
  BY <1>1, <1>3, <1>6 DEF Sensible, FilesOf, CallState
<1> QED BY <1>4, <1>5, <1>6
\* The steps in which no file is touched.
WithoutFiles(c) ==
  \/ \E r \in Requests : \/ Create(c, r) \/ EditRead(c, r) \/ DropRead(c, r)
                         \/ \E to \in Statuses : ReviewRead(c, r, to)
  \/ EditWrite(c) \/ DropWrite(c) \/ ReviewWrite(c) \/ ReviewLost(c) \/ Announce(c)

LEMMA RowsTyped ==
  ASSUME NEW row \in Row
  PROVE  /\ Blank \in Row /\ [Blank EXCEPT !.status = "GONE"] \in Row
         /\ [row EXCEPT !.status = "PENDING"] \in Row
         /\ \A late \in BOOLEAN : [row EXCEPT !.late = late] \in Row
         /\ Answered(row) \in Row
         /\ \A to \in Statuses : Reviewed(row, to) \in Row
BY DEF Row, Blank, Answered, Reviewed, Statuses

LEMMA WithoutFilesShape ==
  ASSUME TypeInv, NEW c \in Calls, WithoutFiles(c)
  PROVE  /\ GoesOn(c, call'[c]) /\ Sensible(call'[c])
         /\ FilesOf(call[c]) = {} /\ FilesOf(call'[c]) = {}
         /\ UNCHANGED <<rows, objects, used, answered, leftover>>
         /\ request' \in [Requests -> Row]
         /\ answers' \in [Files -> Requests \cup {None}]
         /\ told' \subseteq Requests \X Kinds
<1> USE IdleIsSensible, AnnouncingIsSensible, LoadedIsSensible, RowsTyped
<1> DEFINE Shape == /\ GoesOn(c, call'[c]) /\ Sensible(call'[c])
                    /\ FilesOf(call[c]) = {} /\ FilesOf(call'[c]) = {}
                    /\ UNCHANGED <<rows, objects, used, answered, leftover>>
                    /\ request' \in [Requests -> Row]
                    /\ answers' \in [Files -> Requests \cup {None}]
                    /\ told' \subseteq Requests \X Kinds
<1>1. /\ request \in [Requests -> Row] /\ answers \in [Files -> Requests \cup {None}]
      /\ told \subseteq Requests \X Kinds /\ call \in [Calls -> CallState]
      /\ Sensible(call[c])
  BY DEF TypeInv, TypeOK
<1>2. \A k : /\ Goes(c, k) => call'[c] = k /\ GoesOn(c, k)
            /\ \A r \in Requests : call' = Moved(c, r, k) => call'[c] = k /\ GoesOn(c, k)
  BY <1>1 DEF Goes, Moved, GoesOn
<1>3. ASSUME NEW r \in Requests, Create(c, r) PROVE Shape
  BY <1>1, <1>2, <1>3 DEF Create, Kinds
<1>4. ASSUME NEW r \in Requests, EditRead(c, r) PROVE Shape
  BY <1>1, <1>2, <1>4 DEF EditRead, Exists, Editable, Statuses
<1>5. ASSUME NEW r \in Requests, DropRead(c, r) PROVE Shape
  BY <1>1, <1>2, <1>5 DEF DropRead
<1>6. ASSUME NEW r \in Requests, NEW to \in Statuses, ReviewRead(c, r, to) PROVE Shape
  <2>1. Exists(r)
    BY <1>1, <1>6 DEF ReviewRead, Exists, Transitions, Row
  <2> DEFINE k == [Loaded("reviewing", r) EXCEPT !.to = to]
  <2>2. /\ call[c] = Idle /\ Goes(c, k)
        /\ UNCHANGED <<request, rows, answers, objects, used, answered, leftover, told>>
    BY <1>6 DEF ReviewRead
  <2>3. Sensible(k) /\ FilesOf(k) = {}
    BY <1>6, <2>1, LoadedIsSensible DEF ReviewRead
  <2> HIDE DEF k
  <2>4. GoesOn(c, call'[c]) /\ Sensible(call'[c]) /\ FilesOf(call'[c]) = {}
    BY <1>2, <2>2, <2>3
  <2>5. FilesOf(call[c]) = {}
    BY <2>2, IdleIsSensible
  <2> QED BY <1>1, <2>2, <2>4, <2>5
<1>7. ASSUME EditWrite(c) PROVE Shape
  <2> DEFINE r == call[c].req
             late == request[r].late \/ (Exists(r) /\ request[r].status \notin Editable)
  <2>1. r \in Requests /\ FilesOf(call[c]) = {}
    BY <1>1, <1>7 DEF EditWrite, Sensible, FilesOf
  <2>2. late \in BOOLEAN
    OBVIOUS
  <2>3. request' = [request EXCEPT ![r] = [request[r] EXCEPT !.late = late]]
    BY <1>7 DEF EditWrite
  <2> HIDE DEF late
  <2>4. request' \in [Requests -> Row]
    BY <1>1, <2>1, <2>2, <2>3
  <2> QED BY <1>1, <1>2, <1>7, <2>1, <2>4 DEF EditWrite
<1>8. ASSUME DropWrite(c) PROVE Shape
  <2>1. call[c].req \in Requests /\ FilesOf(call[c]) = {}
    BY <1>1, <1>8 DEF DropWrite, Sensible, FilesOf
  <2> QED BY <1>1, <1>2, <1>8, <2>1 DEF DropWrite
<1>9. ASSUME ReviewWrite(c) PROVE Shape
  <2>1. call[c].req \in Requests /\ FilesOf(call[c]) = {} /\ call[c].to \in Statuses
    BY <1>1, <1>9 DEF ReviewWrite, Sensible, FilesOf, Transitions, Statuses
  <2>2. request' \in [Requests -> Row]
    BY <1>1, <1>9, <2>1 DEF ReviewWrite
  <2> QED BY <1>1, <1>2, <1>9, <2>1, <2>2 DEF ReviewWrite, AfterReview, Kinds
<1>10. ASSUME ReviewLost(c) PROVE Shape
  BY <1>1, <1>2, <1>10 DEF ReviewLost, Sensible, FilesOf
<1>11. ASSUME Announce(c) PROVE Shape
  BY <1>1, <1>2, <1>11 DEF Announce, Sensible, FilesOf
<1> QED BY <1>3, <1>4, <1>5, <1>6, <1>7, <1>8, <1>9, <1>10, <1>11 DEF WithoutFiles
\* A call takes new keys.
LEMMA BringShape ==
  ASSUME TypeInv, NEW c \in Calls, NEW F \in SUBSET Files,
         \/ \E r \in Requests : SubmitRead(c, r, F)
         \/ \E f \in F : F = {f} /\ UploadRead(c, f)
  PROVE  /\ GoesOn(c, call'[c]) /\ Sensible(call'[c])
         /\ FilesOf(call[c]) = {}
         /\ call'[c].req = None \/ Exists(call'[c].req)
         /\ call'[c].pc = "storing" /\ call'[c].todo = F /\ call'[c].stored = {} /\ ~ call'[c].unheard
         /\ F \cap used = {} /\ used' = used \cup F
         /\ UNCHANGED <<request, rows, answers, objects, answered, leftover, told>>
<1>1. call \in [Calls -> CallState] /\ Sensible(call[c]) /\ request \in [Requests -> Row]
  BY DEF TypeInv, TypeOK
<1>2. \A k : Goes(c, k) => call'[c] = k /\ GoesOn(c, k)
  BY <1>1 DEF Goes, GoesOn
<1>3. CASE \E r \in Requests : SubmitRead(c, r, F)
  <2>1. PICK r \in Requests : SubmitRead(c, r, F)
    BY <1>3
  <2>2. Exists(r) /\ request[r].status \in Editable
    BY <1>1, <2>1 DEF SubmitRead, Exists, Transitions, Statuses, Editable
  <2> DEFINE k == [Loaded("storing", r) EXCEPT !.todo = F]
  <2>3. Sensible(k)
    BY <2>1, <2>2, LoadedIsSensible DEF SubmitRead
  <2>4. k.pc = "storing" /\ k.req = r /\ k.todo = F /\ k.stored = {} /\ ~ k.unheard
    BY DEF Loaded, Idle
  <2> QED BY <1>2, <2>1, <2>3, <2>4, IdleIsSensible DEF SubmitRead
<1>4. CASE \E f \in F : F = {f} /\ UploadRead(c, f)
  <2>1. PICK f \in F : F = {f} /\ UploadRead(c, f)
    BY <1>4
  <2> DEFINE k == [Idle EXCEPT !.pc = "storing", !.todo = {f}]
  <2>2. k.pc = "storing" /\ k.todo = F /\ k.stored = {} /\ ~ k.unheard /\ k.req = None
    BY <2>1 DEF Idle
  <2>3. k \in CallState
    BY <2>1 DEF Idle, CallState
  <2>4. Sensible(k)
    BY <2>1, <2>2, <2>3 DEF Sensible
  <2> QED BY <1>2, <2>1, <2>2, <2>4, IdleIsSensible DEF UploadRead
<1> QED BY <1>3, <1>4

LEMMA StoreShape ==
  ASSUME TypeInv, NEW c \in Calls, NEW f \in Files, Store(c, f)
  PROVE  /\ GoesOn(c, call'[c]) /\ Sensible(call'[c])
         /\ call[c].pc = "storing" /\ f \in call[c].todo
         /\ call'[c].pc \in {"storing", "inserting", "recording"} /\ ~ call[c].unheard /\ ~ call'[c].unheard
         /\ call'[c].req = call[c].req
         /\ call'[c].todo = call[c].todo \ {f} /\ call'[c].stored = call[c].stored \cup {f}
<1> DEFINE k == [call[c] EXCEPT !.todo = call[c].todo \ {f}, !.stored = call[c].stored \cup {f}]
           pc == AfterStoring(k)
           j == [k EXCEPT !.pc = pc]
<1>1. call \in [Calls -> CallState] /\ Sensible(call[c])
  BY DEF TypeInv, TypeOK
<1>2. call[c].pc = "storing" /\ f \in call[c].todo /\ Goes(c, j)
  BY DEF Store
<1>3. /\ k \in CallState /\ k.req = call[c].req /\ k.read = call[c].read /\ k.unheard = call[c].unheard
      /\ k.todo = call[c].todo \ {f} /\ k.stored = call[c].stored \cup {f}
  BY <1>1 DEF CallState
<1>4. /\ pc = "storing" <=> k.todo # {}
      /\ pc = "inserting" <=> k.todo = {} /\ k.req = None
      /\ pc = "recording" <=> k.todo = {} /\ k.req # None
      /\ pc \in {"storing", "inserting", "recording"}
  BY DEF AfterStoring
<1>5. ~ call[c].unheard /\ (call[c].req = None => k.todo = {})
      /\ (call[c].req # None => call[c].read \in Editable)
  BY <1>1, <1>2, <1>3 DEF Sensible
<1> HIDE DEF pc, k
<1>6. /\ j \in CallState /\ j.pc = pc /\ j.req = k.req /\ j.read = k.read /\ j.unheard = k.unheard
      /\ j.todo = k.todo /\ j.stored = k.stored
  BY <1>3, <1>4 DEF CallState
<1>7. call'[c] = j /\ GoesOn(c, j)
  BY <1>1, <1>2 DEF Goes, GoesOn
<1>8. j.req \in Requests \cup {None}
  BY <1>6 DEF CallState
<1> HIDE DEF j
<1>9. Sensible(j)
  BY <1>2, <1>3, <1>4, <1>5, <1>6, <1>8 DEF Sensible
<1> QED BY <1>2, <1>3, <1>4, <1>5, <1>6, <1>7, <1>9
\* The cleanup of a submission, or nothing when it has stored no file.
LEMMA DiscardingShape ==
  ASSUME NEW k \in CallState
  PROVE  /\ Sensible(Discarding(k))
         /\ Discarding(k).todo = {} /\ Discarding(k).stored = k.stored
         /\ Discarding(k).pc \in {"idle", "discarding"}
         /\ k.stored # {} => Discarding(k).unheard = k.unheard
<1>1. CASE k.stored = {}
  BY <1>1, IdleIsSensible DEF Discarding, Idle
<1>2. CASE k.stored # {}
  <2> DEFINE d == [Idle EXCEPT !.pc = "discarding", !.stored = k.stored, !.unheard = k.unheard]
  <2>1. d = Discarding(k)
    BY <1>2 DEF Discarding
  <2>2. d.pc = "discarding" /\ d.req = None /\ d.todo = {} /\ d.stored = k.stored /\ d.unheard = k.unheard
    BY DEF Idle
  <2>3. d \in CallState
    BY DEF Idle, CallState
  <2> HIDE DEF d
  <2>4. Sensible(d)
    BY <2>2, <2>3 DEF Sensible
  <2> QED BY <2>1, <2>2, <2>4
<1> QED BY <1>1, <1>2

\* An upload or a submission gives up, or cleans up.
LEMMA GivesUpShape ==
  ASSUME TypeInv, NEW c \in Calls,
         \/ \E f \in Files : StoreFails(c, f) \/ Discard(c, f) \/ DiscardFails(c, f)
         \/ RecordLost(c) \/ RecordFails(c)
  PROVE  /\ GoesOn(c, call'[c]) /\ Sensible(call'[c])
         /\ call'[c].todo = {} /\ call'[c].pc \in {"idle", "discarding"}
         /\ call'[c].stored # {} => call'[c].unheard = call[c].unheard
         /\ \A f \in Files : Discard(c, f) \/ DiscardFails(c, f) =>
              call'[c].stored = call[c].stored \ {f}
         /\ (\E f \in Files : StoreFails(c, f)) \/ RecordLost(c) \/ RecordFails(c) =>
              call'[c].stored = call[c].stored
<1>1. call \in [Calls -> CallState] /\ Sensible(call[c]) /\ call[c] \in CallState
  BY DEF TypeInv, TypeOK
<1>2. \A k : Goes(c, k) => call'[c] = k /\ GoesOn(c, k)
  BY <1>1 DEF Goes, GoesOn
<1>3. ASSUME NEW f \in Files, StoreFails(c, f)
      PROVE  /\ GoesOn(c, call'[c]) /\ Sensible(call'[c])
             /\ call'[c].todo = {} /\ call'[c].pc \in {"idle", "discarding"}
             /\ call'[c].stored = call[c].stored
             /\ call'[c].stored # {} => call'[c].unheard = call[c].unheard
  <2>1. CASE call[c].req = None
    BY <1>1, <1>2, <1>3, <2>1, IdleIsSensible DEF StoreFails, Sensible, Idle
  <2>2. CASE call[c].req # None
    BY <1>1, <1>2, <1>3, <2>2, DiscardingShape DEF StoreFails
  <2> QED BY <2>1, <2>2
<1>4. ASSUME RecordLost(c) \/ RecordFails(c)
      PROVE  /\ GoesOn(c, call'[c]) /\ Sensible(call'[c])
             /\ call'[c].todo = {} /\ call'[c].pc \in {"idle", "discarding"}
             /\ call'[c].stored = call[c].stored
             /\ call'[c].stored # {} => call'[c].unheard = call[c].unheard
  BY <1>1, <1>2, <1>4, DiscardingShape DEF RecordLost, RecordFails
<1>5. ASSUME NEW f \in Files, Discard(c, f) \/ DiscardFails(c, f)
      PROVE  /\ GoesOn(c, call'[c]) /\ Sensible(call'[c])
             /\ call'[c].todo = {} /\ call'[c].pc \in {"idle", "discarding"}
             /\ call'[c].stored = call[c].stored \ {f}
             /\ call'[c].stored # {} => call'[c].unheard = call[c].unheard
  <2> DEFINE k == [call[c] EXCEPT !.stored = call[c].stored \ {f}]
  <2>1. k \in CallState /\ k.stored = call[c].stored \ {f} /\ k.unheard = call[c].unheard
    BY <1>1 DEF CallState
  <2>2. Goes(c, Discarding(k))
    BY <1>5 DEF Discard, DiscardFails
  <2> QED BY <1>2, <2>1, <2>2, DiscardingShape
<1> QED BY <1>3, <1>4, <1>5 DEF Discard, DiscardFails, StoreFails, RecordLost, RecordFails

\* The transaction of submit, heard of or not.
LEMMA RecordShape ==
  ASSUME TypeInv, NEW c \in Calls, Record(c) \/ RecordUnheard(c)
  PROVE  /\ GoesOn(c, call'[c]) /\ Sensible(call'[c])
         /\ call[c].pc = "recording" /\ call[c].req \in Requests /\ call[c].stored # {}
         /\ call[c].todo = {} /\ ~ call[c].unheard
         /\ request[call[c].req].status = call[c].read /\ call[c].read \in Editable
         /\ call' = Moved(c, call[c].req, call'[c])
         /\ request' \in [Requests -> Row] /\ answers' \in [Files -> Requests \cup {None}]
         /\ call'[c].todo = {}
         /\ Record(c) => call'[c] = Announcing(call[c].req, "submitted") /\ call'[c].stored = {}
         /\ RecordUnheard(c) => /\ call'[c].pc = "discarding" /\ call'[c].unheard
                                /\ call'[c].stored = call[c].stored
<1> DEFINE r == call[c].req
<1>1. call \in [Calls -> CallState] /\ Sensible(call[c]) /\ call[c] \in CallState
  BY DEF TypeInv, TypeOK
<1>2. Recorded(c)
  BY DEF Record, RecordUnheard
<1>3. /\ call[c].pc = "recording" /\ r \in Requests /\ call[c].stored # {}
      /\ call[c].todo = {} /\ ~ call[c].unheard
      /\ request[r].status = call[c].read /\ call[c].read \in Editable
  BY <1>1, <1>2, DocumentRequestsAssumption DEF Recorded, Sensible
<1>4. request' \in [Requests -> Row] /\ answers' \in [Files -> Requests \cup {None}]
  BY <1>2, <1>3, RowsTyped DEF Recorded, TypeInv, TypeOK
<1>5. \A k : call' = Moved(c, r, k) => call'[c] = k /\ GoesOn(c, k)
  BY <1>1, <1>3 DEF Moved, GoesOn
<1>6. CASE Record(c)
  <2>1. call' = Moved(c, r, Announcing(r, "submitted"))
    BY <1>6 DEF Record
  <2>2. Announcing(r, "submitted").todo = {} /\ Announcing(r, "submitted").stored = {}
        /\ ~ Announcing(r, "submitted").unheard
    BY DEF Announcing, Idle
  <2>3. ~ RecordUnheard(c)
    <3>1. SUFFICES ASSUME RecordUnheard(c) PROVE FALSE
      OBVIOUS
    <3>2. [call[c] EXCEPT !.unheard = TRUE] \in CallState
      BY <1>1 DEF CallState
    <3>3. call' = Moved(c, r, Discarding([call[c] EXCEPT !.unheard = TRUE]))
      BY <3>1 DEF RecordUnheard
    <3>4. call'[c].pc \in {"idle", "discarding"}
      BY <1>5, <3>2, <3>3, DiscardingShape
    <3> QED BY <1>5, <2>1, <3>4 DEF Announcing, Idle
  <2> QED BY <1>3, <1>4, <1>5, <2>1, <2>2, <2>3, AnnouncingIsSensible DEF Kinds
<1>7. CASE RecordUnheard(c)
  <2> DEFINE k == [call[c] EXCEPT !.unheard = TRUE]
  <2>1. k \in CallState /\ k.stored = call[c].stored /\ k.unheard
    BY <1>1 DEF CallState
  <2>2. call' = Moved(c, r, Discarding(k))
    BY <1>7 DEF RecordUnheard
  <2> HIDE DEF k
  <2>3. Discarding(k).pc = "discarding" /\ Discarding(k).unheard
    BY <1>3, <2>1 DEF Discarding, Idle
  <2>4. ~ Record(c)
    BY <1>5, <2>2, <2>3 DEF Record, Announcing, Idle
  <2> QED BY <1>3, <1>4, <1>5, <2>1, <2>2, <2>3, <2>4, DiscardingShape
<1> QED BY <1>6, <1>7

\* The row of an upload, and the removal of a document.
LEMMA RowShape ==
  ASSUME TypeInv, NEW c \in Calls,
         \/ Insert(c) \/ InsertFails(c) \/ RemoveObject(c) \/ RemoveRow(c) \/ RemoveRowFails(c)
         \/ \E f \in Files : RemoveRead(c, f)
  PROVE  /\ GoesOn(c, call'[c]) /\ Sensible(call'[c])
         /\ call[c].todo = {} /\ ~ call[c].unheard
         /\ call'[c].todo = {} /\ ~ call'[c].unheard
         /\ call[c].pc \in {"removing", "deleting"} => \E f \in Files : call[c].stored = {f}
         /\ RemoveObject(c) => call'[c].pc = "deleting" /\ call'[c].stored = call[c].stored
         /\ \A f \in Files : RemoveRead(c, f) =>
              /\ call[c].stored = {} /\ call'[c].pc = "removing" /\ call'[c].stored = {f}
         /\ Insert(c) \/ InsertFails(c) \/ RemoveRow(c) \/ RemoveRowFails(c) =>
              call'[c] = Idle
<1>1. call \in [Calls -> CallState] /\ Sensible(call[c]) /\ call[c] \in CallState
  BY DEF TypeInv, TypeOK
<1>2. \A k : Goes(c, k) => call'[c] = k /\ GoesOn(c, k)
  BY <1>1 DEF Goes, GoesOn
<1>3. Idle.pc = "idle" /\ Idle.todo = {} /\ Idle.stored = {} /\ ~ Idle.unheard
  BY DEF Idle
<1>4. CASE Insert(c) \/ InsertFails(c) \/ RemoveRow(c) \/ RemoveRowFails(c)
  <2>1. Goes(c, Idle) /\ call[c].pc \in {"inserting", "deleting"}
    BY <1>4 DEF Insert, InsertFails, RemoveRow, RemoveRowFails
  <2> QED BY <1>1, <1>2, <1>3, <1>4, <2>1, IdleIsSensible DEF Sensible, RemoveObject, RemoveRead
<1>5. CASE RemoveObject(c)
  <2> DEFINE k == [call[c] EXCEPT !.pc = "deleting"]
  <2>1. Goes(c, k) /\ call[c].pc = "removing"
    BY <1>5 DEF RemoveObject
  <2>2. /\ k \in CallState /\ k.pc = "deleting" /\ k.req = call[c].req /\ k.stored = call[c].stored
        /\ k.todo = call[c].todo /\ k.unheard = call[c].unheard
    BY <1>1 DEF CallState
  <2>3. Sensible(k)
    BY <1>1, <2>1, <2>2 DEF Sensible
  <2> HIDE DEF k
  <2>4. /\ ~ Insert(c) /\ ~ InsertFails(c) /\ ~ RemoveRow(c) /\ ~ RemoveRowFails(c)
        /\ \A f \in Files : ~ RemoveRead(c, f)
    BY <1>3, <2>1 DEF Insert, InsertFails, RemoveRow, RemoveRowFails, RemoveRead
  <2> QED BY <1>1, <1>2, <2>1, <2>2, <2>3, <2>4 DEF Sensible
<1>6. ASSUME NEW f \in Files, RemoveRead(c, f)
      PROVE  /\ GoesOn(c, call'[c]) /\ Sensible(call'[c]) /\ call[c] = Idle
             /\ call'[c].todo = {} /\ ~ call'[c].unheard
             /\ call'[c].pc = "removing" /\ call'[c].stored = {f}
  <2> DEFINE k == [Idle EXCEPT !.pc = "removing", !.stored = {f}]
  <2>1. Goes(c, k) /\ call[c] = Idle
    BY <1>6 DEF RemoveRead
  <2>2. k.pc = "removing" /\ k.req = None /\ k.stored = {f} /\ k.todo = {} /\ ~ k.unheard
    BY DEF Idle
  <2>3. k \in CallState
    BY DEF Idle, CallState
  <2>4. Sensible(k)
    BY <2>2, <2>3 DEF Sensible
  <2> QED BY <1>2, <2>1, <2>2, <2>4
<1>7. CASE \E f \in Files : RemoveRead(c, f)
  BY <1>3, <1>6, <1>7 DEF Insert, InsertFails, RemoveObject, RemoveRow, RemoveRowFails
<1> QED BY <1>4, <1>5, <1>7
LEMMA StepCases ==
  ASSUME [Next]_vars
  PROVE  \/ \E c \in Calls :
              \/ WithoutFiles(c)
              \/ \E F \in SUBSET Files : \/ \E r \in Requests : SubmitRead(c, r, F)
                                       \/ \E f \in F : F = {f} /\ UploadRead(c, f)
              \/ \E f \in Files : Store(c, f) \/ StoreFails(c, f) \/ Discard(c, f) \/ DiscardFails(c, f)
              \/ RecordLost(c) \/ RecordFails(c)
              \/ Record(c) \/ RecordUnheard(c)
              \/ Insert(c) \/ InsertFails(c) \/ RemoveObject(c) \/ RemoveRow(c) \/ RemoveRowFails(c)
              \/ \E f \in Files : RemoveRead(c, f)
         \/ Crash
         \/ UNCHANGED vars
<1>1. ASSUME NEW c \in Calls, NEW f \in Files, UploadRead(c, f)
      PROVE  \E F \in SUBSET Files : \E g \in F : F = {g} /\ UploadRead(c, g)
  <2>1. {f} \in SUBSET Files /\ f \in {f}
    OBVIOUS
  <2> QED BY <1>1, <2>1
<1>2. ASSUME NEW c \in Calls, Start(c)
      PROVE  \/ WithoutFiles(c)
             \/ \E F \in SUBSET Files : \/ \E r \in Requests : SubmitRead(c, r, F)
                                      \/ \E f \in F : F = {f} /\ UploadRead(c, f)
             \/ \E f \in Files : RemoveRead(c, f)
  BY <1>1, <1>2 DEF Start, WithoutFiles
<1>3. ASSUME NEW c \in Calls, Resume(c)
      PROVE  \/ WithoutFiles(c)
             \/ \E f \in Files : Store(c, f) \/ StoreFails(c, f) \/ Discard(c, f) \/ DiscardFails(c, f)
             \/ RecordLost(c) \/ RecordFails(c)
             \/ Record(c) \/ RecordUnheard(c)
             \/ Insert(c) \/ InsertFails(c) \/ RemoveObject(c) \/ RemoveRow(c) \/ RemoveRowFails(c)
  BY <1>3 DEF Resume, WithoutFiles
<1> QED BY <1>2, <1>3 DEF Next

LEMMA TypeInit == Init => TypeInv
<1> SUFFICES ASSUME Init PROVE TypeInv
  OBVIOUS
<1>1. Blank \in Row /\ Idle \in CallState
  BY IdleIsSensible DEF Sensible, Blank, Row
<1> QED BY <1>1, IdleIsSensible DEF Init, TypeInv, TypeOK

LEMMA TypeStep ==
  ASSUME TypeInv, [Next]_vars
  PROVE  TypeInv'
<1>1. /\ TypeOK /\ call \in [Calls -> CallState]
      /\ \A c \in Calls : Sensible(call[c]) /\ FilesOf(call[c]) \subseteq used
  BY DEF TypeInv, TypeOK
<1>2. ASSUME NEW c \in Calls, WithoutFiles(c) PROVE TypeInv'
  BY <1>1, <1>2, WithoutFilesShape, TypeKept DEF TypeOK
<1>3. ASSUME NEW c \in Calls, NEW F \in SUBSET Files,
             \/ \E r \in Requests : SubmitRead(c, r, F)
             \/ \E f \in F : F = {f} /\ UploadRead(c, f)
      PROVE  TypeInv'
  <2>1. /\ GoesOn(c, call'[c]) /\ Sensible(call'[c])
        /\ call'[c].todo = F /\ call'[c].stored = {} /\ used' = used \cup F
        /\ UNCHANGED <<request, rows, answers, objects, answered, leftover, told>>
    BY <1>3, BringShape
  <2>2. FilesOf(call'[c]) \subseteq used'
    BY <2>1 DEF FilesOf
  <2> QED BY <1>1, <2>1, <2>2, TypeKept DEF TypeOK
<1>4. ASSUME NEW c \in Calls, NEW f \in Files, Store(c, f) PROVE TypeInv'
  <2>1. /\ objects' = objects \cup {f} /\ f \in call[c].todo
        /\ UNCHANGED <<request, rows, answers, used, answered, leftover, told>>
    BY <1>4 DEF Store
  <2>2. /\ GoesOn(c, call'[c]) /\ Sensible(call'[c])
        /\ call'[c].todo = call[c].todo \ {f} /\ call'[c].stored = call[c].stored \cup {f}
    BY <1>4, StoreShape
  <2>3. FilesOf(call'[c]) \subseteq used' /\ f \in used
    BY <1>1, <2>1, <2>2 DEF FilesOf
  <2> QED BY <1>1, <2>1, <2>2, <2>3, TypeKept DEF TypeOK
<1>5. ASSUME NEW c \in Calls,
             \/ \E f \in Files : StoreFails(c, f) \/ Discard(c, f) \/ DiscardFails(c, f)
             \/ RecordLost(c) \/ RecordFails(c)
      PROVE  TypeInv'
  <2>1. FilesOf(call'[c]) \subseteq used
    BY <1>1, <1>5, GivesUpShape DEF FilesOf
  <2>2. objects' \subseteq used /\ leftover' \subseteq used
    BY <1>1, <1>5 DEF StoreFails, Discard, DiscardFails, RecordLost, RecordFails, FilesOf, TypeOK
  <2>3. UNCHANGED <<request, rows, answers, used, answered, told>>
    BY <1>5 DEF StoreFails, Discard, DiscardFails, RecordLost, RecordFails
  <2> QED BY <1>1, <1>5, <2>1, <2>2, <2>3, GivesUpShape, TypeKept DEF TypeOK
<1>6. ASSUME NEW c \in Calls, Record(c) \/ RecordUnheard(c) PROVE TypeInv'
  <2>1. FilesOf(call'[c]) \subseteq used
    BY <1>1, <1>6, RecordShape DEF FilesOf
  <2>2. rows' \subseteq used /\ answered' \subseteq used /\ leftover' \subseteq used
    BY <1>1, <1>6 DEF Record, RecordUnheard, Recorded, FilesOf, TypeOK
  <2>3. UNCHANGED <<objects, used, told>>
    BY <1>6 DEF Record, RecordUnheard
  <2> QED BY <1>1, <1>6, <2>1, <2>2, <2>3, RecordShape, TypeKept DEF TypeOK
<1>7. ASSUME NEW c \in Calls,
             \/ Insert(c) \/ InsertFails(c) \/ RemoveObject(c) \/ RemoveRow(c) \/ RemoveRowFails(c)
             \/ \E f \in Files : RemoveRead(c, f)
      PROVE  TypeInv'
  <2>1. FilesOf(call'[c]) \subseteq used
    <3>1. CASE \E f \in Files : RemoveRead(c, f)
      <4>1. PICK f \in Files : RemoveRead(c, f)
        BY <3>1
      <4>2. f \in used
        BY <1>1, <4>1 DEF RemoveRead, TypeOK
      <4>3. call'[c].todo = {} /\ call'[c].stored = {f}
        BY <4>1, RowShape
      <4> QED BY <4>2, <4>3 DEF FilesOf
    <3>2. CASE Insert(c) \/ InsertFails(c) \/ RemoveObject(c) \/ RemoveRow(c) \/ RemoveRowFails(c)
      BY <1>1, <3>2, RowShape, IdleIsSensible DEF FilesOf
    <3> QED BY <1>7, <3>1, <3>2
  <2>2. /\ rows' \subseteq used /\ objects' \subseteq used /\ leftover' \subseteq used
        /\ answers' \in [Files -> Requests \cup {None}]
        /\ UNCHANGED <<request, used, answered, told>>
    BY <1>1, <1>7 DEF Insert, InsertFails, RemoveObject, RemoveRow, RemoveRowFails, RemoveRead,
                      FilesOf, TypeOK
  <2> QED BY <1>1, <1>7, <2>1, <2>2, RowShape, TypeKept DEF TypeOK
<1>8. CASE Crash
  <2>1. Held \subseteq used
    BY <1>1 DEF Held, FilesOf
  <2>2. \A c \in Calls : call'[c] = Idle
    BY <1>8 DEF Crash
  <2>3. call' \in [Calls -> CallState]
    BY <1>8, IdleIsSensible DEF Crash, Sensible
  <2> QED BY <1>1, <1>8, <2>1, <2>2, <2>3, IdleIsSensible DEF Crash, TypeInv, TypeOK
<1>9. CASE UNCHANGED vars
  BY <1>9 DEF vars, TypeInv, TypeOK
<1> QED BY <1>2, <1>3, <1>4, <1>5, <1>6, <1>7, <1>8, <1>9, StepCases

(***************************************************************************)
(* Every reachable state is well-typed; in particular keys are drawn       *)
(* before they are used anywhere.                                          *)
(***************************************************************************)
THEOREM TypeCorrect == Spec => []TypeOK
<1>1. Init => TypeInv
  BY TypeInit
<1>2. TypeInv /\ [Next]_vars => TypeInv'
  BY TypeStep
<1>3. TypeInv => TypeOK
  BY DEF TypeInv
<1> QED BY <1>1, <1>2, <1>3, PTL DEF Spec
-----------------------------------------------------------------------------
(***************************************************************************)
(* Rows and objects.  A step touches only the files of the call that takes *)
(* it, and hands each of them on or leaves it as a row with an object, as  *)
(* neither, or as a leftover.                                              *)
(***************************************************************************)
LEMMA FilesMove ==
  ASSUME TypeInv, FilesInv, NEW c \in Calls, NEW k, Sensible(k), GoesOn(c, k),
         leftover \subseteq leftover', used' \subseteq used \cup FilesOf(k),
         \A f \in Files : f \notin FilesOf(call[c]) =>
           /\ f \in rows' <=> f \in rows
           /\ f \in answered' <=> f \in answered
           /\ f \in objects' <=> f \in objects,
         \A f \in Files : f \in objects' \ objects => f \in Own(call[c]),
         \A f \in FilesOf(k) \ FilesOf(call[c]) : \A d \in Calls \ {c} : f \notin Own(call[d]),
         \A f \in Own(k) :
           /\ f \notin rows' /\ f \notin answered'
           /\ f \in objects' <=> f \in k.stored
           /\ \A d \in Calls \ {c} : f \notin FilesOf(call[d]),
         \A f \in k.stored :
           /\ k.pc = "deleting" => f \notin objects' \/ f \in leftover'
           /\ k.unheard => f \in leftover',
         \A f \in FilesOf(call[c]) \ FilesOf(k) :
           f \in leftover' \/ (f \in rows' <=> f \in objects')
  PROVE  FilesInv'
<1>1. /\ call'[c] = k
      /\ \A d \in Calls \ {c} :
           /\ Own(call'[d]) = Own(call[d]) /\ FilesOf(call'[d]) = FilesOf(call[d])
           /\ call'[d].stored = call[d].stored /\ call'[d].unheard = call[d].unheard
           /\ call'[d].pc = call[d].pc
  BY OthersStay DEF Own, FilesOf
<1>2. \A d \in Calls, f \in Files :
        /\ f \in Own(call[d]) => f \in FilesOf(call[d])
        /\ f \in Own(k) => f \in FilesOf(k)
        /\ f \in call[d].stored => f \in FilesOf(call[d])
  BY DEF Own, FilesOf
<1>3. \A f \in Files : f \in Held <=> \E d \in Calls : f \in FilesOf(call[d])
  BY DEF Held, FilesOf
<1>4. \A f \in Files : f \in Held' <=> \E d \in Calls : f \in FilesOf(call'[d])
  BY DEF Held, FilesOf
<1>5. OwnFilesNew'
  <2> SUFFICES ASSUME NEW d \in Calls, NEW f \in Files, f \in Own(call'[d])
               PROVE  /\ f \notin rows' /\ f \notin answered'
                      /\ f \in objects' <=> f \in call'[d].stored
                      /\ \A e \in Calls : e # d => f \notin FilesOf(call'[e])
    BY DEF OwnFilesNew
  <2>1. CASE d = c
    BY <1>1, <2>1
  <2>2. CASE d # c
    <3>1. /\ f \notin rows /\ f \notin answered
          /\ f \in objects <=> f \in call[d].stored
          /\ \A e \in Calls : e # d => f \notin FilesOf(call[e])
      BY <1>1, <2>2 DEF FilesInv, OwnFilesNew
    <3>2. f \notin FilesOf(k)
      BY <1>1, <2>2, <3>1
    <3> QED BY <1>1, <2>2, <3>1, <3>2
  <2> QED BY <2>1, <2>2
<1>6. OldFilesKnown'
  <2> SUFFICES ASSUME NEW d \in Calls, NEW f \in Files, f \in call'[d].stored
               PROVE  /\ call'[d].pc = "deleting" => f \notin objects' \/ f \in leftover'
                      /\ call'[d].unheard => f \in leftover'
    BY DEF OldFilesKnown
  <2>1. CASE d = c
    BY <1>1, <2>1
  <2>2. CASE d # c
    <3>1. f \notin Own(call[c])
      BY <1>1, <1>2, <2>2 DEF FilesInv, OwnFilesNew
    <3> QED BY <1>1, <2>2, <3>1 DEF FilesInv, OldFilesKnown
  <2> QED BY <2>1, <2>2
<1>7. RowsAndObjectsAgree'
  <2> SUFFICES ASSUME NEW f \in used', f \notin Held', f \notin leftover'
               PROVE  f \in rows' <=> f \in objects'
    BY DEF RowsAndObjectsAgree
  <2>1. FilesOf(k) \subseteq Files /\ used \subseteq Files
    BY DEF Sensible, CallState, FilesOf, TypeInv, TypeOK
  <2>2. f \in Files /\ f \notin FilesOf(k) /\ f \in used
    BY <1>1, <1>4, <2>1
  <2>3. \A d \in Calls \ {c} : f \notin FilesOf(call[d])
    BY <1>1, <1>4, <2>2
  <2>4. CASE f \in FilesOf(call[c])
    BY <2>2, <2>4
  <2>5. CASE f \notin FilesOf(call[c])
    <3>1. f \notin Held /\ f \notin leftover
      BY <1>3, <2>2, <2>3, <2>5
    <3> QED BY <2>2, <2>5, <3>1 DEF FilesInv, RowsAndObjectsAgree
  <2> QED BY <2>4, <2>5
<1> QED BY <1>5, <1>6, <1>7 DEF FilesInv

LEMMA FilesInit == Init => FilesInv
BY IdleIsSensible DEF Init, FilesInv, OwnFilesNew, OldFilesKnown, RowsAndObjectsAgree, FilesOf, Own

LEMMA FilesStep ==
  ASSUME TypeInv, FilesInv, [Next]_vars
  PROVE  FilesInv'
<1>1. /\ call \in [Calls -> CallState]
      /\ \A c \in Calls : Sensible(call[c]) /\ FilesOf(call[c]) \subseteq used
      /\ rows \subseteq used /\ objects \subseteq used /\ answered \subseteq used /\ used \subseteq Files
  BY DEF TypeInv, TypeOK
<1>2. \A c \in Calls, f \in Files : f \in Own(call[c]) =>
        /\ f \notin rows /\ f \notin answered
        /\ f \in objects <=> f \in call[c].stored
        /\ \A d \in Calls \ {c} : f \notin FilesOf(call[d])
  BY DEF FilesInv, OwnFilesNew
<1>3. ASSUME NEW c \in Calls, WithoutFiles(c) PROVE FilesInv'
  <2>1. /\ GoesOn(c, call'[c]) /\ Sensible(call'[c])
        /\ FilesOf(call[c]) = {} /\ FilesOf(call'[c]) = {}
        /\ UNCHANGED <<rows, objects, used, answered, leftover>>
    BY <1>3, WithoutFilesShape
  <2>2. Own(call'[c]) = {} /\ call'[c].stored = {}
    BY <2>1 DEF Own, FilesOf
  <2> QED BY <2>1, <2>2, FilesMove
<1>4. ASSUME NEW c \in Calls, NEW F \in SUBSET Files,
             \/ \E r \in Requests : SubmitRead(c, r, F)
             \/ \E f \in F : F = {f} /\ UploadRead(c, f)
      PROVE  FilesInv'
  <2>1. /\ GoesOn(c, call'[c]) /\ Sensible(call'[c]) /\ FilesOf(call[c]) = {}
        /\ call'[c].pc = "storing" /\ call'[c].todo = F /\ call'[c].stored = {} /\ ~ call'[c].unheard
        /\ F \cap used = {} /\ used' = used \cup F
        /\ UNCHANGED <<request, rows, answers, objects, answered, leftover, told>>
    BY <1>4, BringShape
  <2>2. FilesOf(call'[c]) = F /\ Own(call'[c]) = F
    BY <2>1 DEF FilesOf, Own
  <2>3. \A d \in Calls, f \in F : f \notin FilesOf(call[d]) /\ f \notin Own(call[d])
    BY <1>1, <2>1 DEF Own
  <2> QED BY <1>1, <2>1, <2>2, <2>3, FilesMove
<1>5. ASSUME NEW c \in Calls, NEW f \in Files, Store(c, f) PROVE FilesInv'
  <2>1. /\ objects' = objects \cup {f} /\ f \in call[c].todo
        /\ UNCHANGED <<request, rows, answers, used, answered, leftover, told>>
    BY <1>5 DEF Store
  <2>2. /\ GoesOn(c, call'[c]) /\ Sensible(call'[c])
        /\ call[c].pc = "storing" /\ ~ call[c].unheard /\ ~ call'[c].unheard
        /\ call'[c].pc \in {"storing", "inserting", "recording"}
        /\ call'[c].todo = call[c].todo \ {f} /\ call'[c].stored = call[c].stored \cup {f}
    BY <1>5, StoreShape
  <2>3. FilesOf(call'[c]) = FilesOf(call[c]) /\ f \in FilesOf(call[c])
    BY <2>1, <2>2 DEF FilesOf
  <2>4. Own(call[c]) = FilesOf(call[c]) /\ Own(call'[c]) = FilesOf(call[c])
    BY <2>2, <2>3 DEF Own
  <2>5. FilesOf(call[c]) \subseteq Files
    BY <1>1
  <2> QED BY <1>2, <2>1, <2>2, <2>3, <2>4, <2>5, FilesMove
<1>6. ASSUME NEW c \in Calls,
             (\E f \in Files : StoreFails(c, f)) \/ RecordLost(c) \/ RecordFails(c)
      PROVE  FilesInv'
  <2>1. /\ GoesOn(c, call'[c]) /\ Sensible(call'[c])
        /\ call'[c].todo = {} /\ call'[c].pc \in {"idle", "discarding"}
        /\ call'[c].stored # {} => call'[c].unheard = call[c].unheard
        /\ call'[c].stored = call[c].stored
    BY <1>6, GivesUpShape
  <2>2. /\ call[c].pc \in {"storing", "recording"}
        /\ UNCHANGED <<rows, used, answered>>
    BY <1>6 DEF StoreFails, RecordLost, RecordFails
  <2>3. \/ call[c].todo = {} /\ UNCHANGED <<objects, leftover>>
        \/ \E f \in call[c].todo : /\ objects' \in {objects, objects \cup {f}}
                                   /\ leftover' = leftover \cup {f}
    BY <1>1, <1>6 DEF StoreFails, RecordLost, RecordFails, Sensible
  <2>4. ~ call[c].unheard
    BY <1>1, <2>2 DEF Sensible
  <2>5. FilesOf(call'[c]) = call[c].stored /\ call[c].todo \subseteq FilesOf(call[c])
        /\ call[c].stored \subseteq FilesOf(call[c])
    BY <2>1 DEF FilesOf
  <2>6. Own(call[c]) = FilesOf(call[c]) /\ Own(call'[c]) = call[c].stored
    BY <2>1, <2>2, <2>4 DEF Own, FilesOf
  <2>7. FilesOf(call[c]) \subseteq Files /\ leftover \subseteq leftover'
    BY <1>1, <2>3
  <2>8. \A f \in call'[c].stored : call'[c].pc # "deleting" /\ ~ call'[c].unheard
    BY <2>1, <2>4
  <2>9. ASSUME NEW f \in FilesOf(call[c])
        PROVE  /\ f \in objects' \/ f \in objects => f \in call[c].stored \/ f \in leftover'
               /\ f \in call[c].stored => f \in objects'
    BY <1>2, <2>3, <2>6, <2>7
  <2>10. \A f \in Files : f \notin FilesOf(call[c]) => (f \in objects' <=> f \in objects)
    BY <2>3, <2>5
  <2>11. \A f \in Own(call'[c]) :
           /\ f \notin rows' /\ f \notin answered'
           /\ f \in objects' <=> f \in call'[c].stored
           /\ \A d \in Calls \ {c} : f \notin FilesOf(call[d])
    BY <1>2, <2>1, <2>2, <2>5, <2>6, <2>7, <2>9
  <2>12. \A f \in FilesOf(call[c]) \ FilesOf(call'[c]) :
           f \in leftover' \/ (f \in rows' <=> f \in objects')
    BY <1>2, <2>2, <2>5, <2>6, <2>7, <2>9
  <2>13. \A f \in Files : f \in objects' \ objects => f \in Own(call[c])
    BY <2>6, <2>10
  <2> QED BY <2>1, <2>2, <2>5, <2>7, <2>8, <2>10, <2>11, <2>12, <2>13, FilesMove
<1>7. ASSUME NEW c \in Calls, NEW f \in Files, Discard(c, f) \/ DiscardFails(c, f)
      PROVE  FilesInv'
  <2>1. /\ GoesOn(c, call'[c]) /\ Sensible(call'[c])
        /\ call'[c].todo = {} /\ call'[c].pc \in {"idle", "discarding"}
        /\ call'[c].stored # {} => call'[c].unheard = call[c].unheard
        /\ call'[c].stored = call[c].stored \ {f}
    BY <1>7, GivesUpShape
  <2>2. /\ call[c].pc = "discarding" /\ f \in call[c].stored
        /\ UNCHANGED <<rows, used, answered>>
        /\ \/ objects' = objects \ {f} /\ UNCHANGED leftover
           \/ UNCHANGED objects /\ leftover' = leftover \cup {f}
    BY <1>7 DEF Discard, DiscardFails
  <2>3. call[c].todo = {} /\ FilesOf(call[c]) = call[c].stored
        /\ FilesOf(call'[c]) = call[c].stored \ {f} /\ call[c].stored \subseteq Files
    BY <1>1, <2>1, <2>2 DEF Sensible, FilesOf, CallState
  <2>4. \A g \in call'[c].stored : call[c].unheard => g \in leftover
    BY <2>1, <2>3 DEF FilesInv, OldFilesKnown
  <2>5. /\ Own(call[c]) = IF call[c].unheard THEN {} ELSE call[c].stored
        /\ \A g \in Own(call'[c]) : g \in call'[c].stored /\ ~ call[c].unheard
    BY <2>1, <2>2, <2>3 DEF Own, FilesOf
  <2>6. f \in leftover' \/ (f \in rows' <=> f \in objects')
    BY <1>2, <2>2, <2>5 DEF FilesInv, OldFilesKnown
  <2>7. \A g \in Own(call'[c]) :
          /\ g \notin rows' /\ g \notin answered'
          /\ g \in objects' <=> g \in call'[c].stored
          /\ \A d \in Calls \ {c} : g \notin FilesOf(call[d])
    BY <1>2, <2>1, <2>2, <2>3, <2>5
  <2> QED BY <2>1, <2>2, <2>3, <2>4, <2>6, <2>7, FilesMove
<1>8. ASSUME NEW c \in Calls, Record(c) \/ RecordUnheard(c) PROVE FilesInv'
  <2>1. /\ GoesOn(c, call'[c]) /\ Sensible(call'[c])
        /\ call[c].pc = "recording" /\ call[c].todo = {} /\ ~ call[c].unheard
        /\ call'[c].todo = {}
        /\ \/ Record(c) /\ call'[c].stored = {}
           \/ RecordUnheard(c) /\ call'[c].pc = "discarding" /\ call'[c].unheard
              /\ call'[c].stored = call[c].stored
    BY <1>8, RecordShape
  <2>2. /\ rows' = rows \cup call[c].stored /\ answered' = answered \cup call[c].stored
        /\ UNCHANGED <<objects, used>>
        /\ Record(c) => UNCHANGED leftover
        /\ RecordUnheard(c) => leftover' = leftover \cup call[c].stored
    BY <1>8 DEF Record, RecordUnheard, Recorded
  <2>3. FilesOf(call[c]) = call[c].stored /\ Own(call[c]) = call[c].stored
        /\ FilesOf(call'[c]) = call'[c].stored /\ Own(call'[c]) = {} /\ call[c].stored \subseteq Files
    BY <1>1, <2>1 DEF FilesOf, Own
  <2>4. \A f \in call[c].stored : f \in rows' /\ f \in objects'
    BY <1>2, <2>2, <2>3
  <2>5. \A f \in call'[c].stored : f \in leftover' /\ f \in call[c].stored /\ call'[c].pc # "deleting"
    BY <2>1, <2>2
  <2>6. leftover \subseteq leftover'
    BY <1>8, <2>2
  <2> QED BY <2>1, <2>2, <2>3, <2>4, <2>5, <2>6, FilesMove
<1>9. ASSUME NEW c \in Calls, Insert(c) \/ InsertFails(c) \/ RemoveRow(c) \/ RemoveRowFails(c)
      PROVE  FilesInv'
  <2>1. /\ GoesOn(c, call'[c]) /\ Sensible(call'[c])
        /\ call[c].todo = {} /\ ~ call[c].unheard /\ call'[c] = Idle
    BY <1>9, RowShape
  <2>2. /\ FilesOf(call[c]) = call[c].stored /\ call[c].stored \subseteq Files
        /\ FilesOf(call'[c]) = {} /\ Own(call'[c]) = {} /\ call'[c].stored = {}
    BY <1>1, <2>1, IdleIsSensible DEF FilesOf, Idle
  <2>3. /\ UNCHANGED <<objects, used, answered>> /\ leftover \subseteq leftover'
        /\ \A f \in Files : f \notin call[c].stored => (f \in rows' <=> f \in rows)
    BY <1>9 DEF Insert, InsertFails, RemoveRow, RemoveRowFails
  <2>4. \A f \in call[c].stored : f \in leftover' \/ (f \in rows' <=> f \in objects')
    <3>1. CASE Insert(c)
      <4>1. Own(call[c]) = call[c].stored /\ rows' = rows \cup call[c].stored /\ UNCHANGED objects
        BY <2>1, <2>2, <3>1 DEF Own, Insert
      <4> QED BY <1>2, <2>2, <4>1
    <3>2. CASE RemoveRow(c)
      <4>1. call[c].pc = "deleting" /\ rows' = rows \ call[c].stored /\ UNCHANGED <<objects, leftover>>
        BY <3>2 DEF RemoveRow
      <4> QED BY <2>2, <4>1 DEF FilesInv, OldFilesKnown
    <3>3. CASE InsertFails(c) \/ RemoveRowFails(c)
      BY <3>3 DEF InsertFails, RemoveRowFails
    <3> QED BY <1>9, <3>1, <3>2, <3>3
  <2> QED BY <2>1, <2>2, <2>3, <2>4, FilesMove
<1>10. ASSUME NEW c \in Calls, RemoveObject(c) PROVE FilesInv'
  <2>1. /\ GoesOn(c, call'[c]) /\ Sensible(call'[c])
        /\ call[c].todo = {} /\ ~ call[c].unheard /\ call'[c].todo = {} /\ ~ call'[c].unheard
        /\ call'[c].pc = "deleting" /\ call'[c].stored = call[c].stored
    BY <1>10, RowShape
  <2>2. /\ FilesOf(call[c]) = call[c].stored /\ call[c].stored \subseteq Files
        /\ FilesOf(call'[c]) = call[c].stored /\ Own(call'[c]) = {}
    BY <1>1, <2>1 DEF FilesOf, Own
  <2>3. /\ UNCHANGED <<rows, used, answered>>
        /\ \/ objects' = objects \ call[c].stored /\ UNCHANGED leftover
           \/ UNCHANGED objects /\ leftover' = leftover \cup call[c].stored
    BY <1>10 DEF RemoveObject
  <2> QED BY <2>1, <2>2, <2>3, FilesMove
<1>11. ASSUME NEW c \in Calls, NEW f \in Files, RemoveRead(c, f) PROVE FilesInv'
  <2>1. /\ GoesOn(c, call'[c]) /\ Sensible(call'[c])
        /\ call[c].todo = {} /\ call[c].stored = {} /\ call'[c].todo = {} /\ ~ call'[c].unheard
        /\ call'[c].pc = "removing" /\ call'[c].stored = {f}
    BY <1>11, RowShape
  <2>2. FilesOf(call[c]) = {} /\ FilesOf(call'[c]) = {f} /\ Own(call'[c]) = {}
    BY <2>1 DEF FilesOf, Own
  <2>3. f \in rows /\ UNCHANGED <<rows, objects, used, answered, leftover>>
    BY <1>11 DEF RemoveRead
  <2>4. \A d \in Calls : f \notin Own(call[d])
    BY <1>2, <2>3
  <2> QED BY <2>1, <2>2, <2>3, <2>4, FilesMove
<1>12. CASE Crash
  <2>1. /\ \A c \in Calls : FilesOf(call'[c]) = {} /\ Own(call'[c]) = {} /\ call'[c].stored = {}
        /\ UNCHANGED <<rows, objects, used, answered>> /\ leftover' = leftover \cup Held
    BY <1>12, IdleIsSensible DEF Crash, FilesOf
  <2> QED BY <2>1 DEF FilesInv, OwnFilesNew, OldFilesKnown, RowsAndObjectsAgree
<1>13. CASE UNCHANGED vars
  BY <1>13 DEF vars, FilesInv, OwnFilesNew, OldFilesKnown, RowsAndObjectsAgree, Held
<1> QED BY <1>3, <1>4, <1>5, <1>6, <1>7, <1>8, <1>9, <1>10, <1>11, <1>12, <1>13, StepCases

(***************************************************************************)
(* However submissions, reviews, uploads and removals interleave, fail or  *)
(* die, rows and objects agree on every file no call has in hand and no    *)
(* failed operation has left behind.                                       *)
(***************************************************************************)
THEOREM FilesAccountedFor == Spec => []RowsAndObjectsAgree
<1>1. Init => TypeInv /\ FilesInv
  BY TypeInit, FilesInit
<1>2. TypeInv /\ FilesInv /\ [Next]_vars => TypeInv' /\ FilesInv'
  BY TypeStep, FilesStep
<1>3. FilesInv => RowsAndObjectsAgree
  BY DEF FilesInv
<1> QED BY <1>1, <1>2, <1>3, PTL DEF Spec

LEMMA TakingStep ==
  ASSUME TypeInv, FilesInv, [Next]_vars, NEW f \in Files,
         f \in rows' \ objects', f \notin rows \ objects
  PROVE  \E c \in Calls :
           /\ f \in call[c].stored
           /\ call[c].pc = "removing" \/ (call[c].pc = "discarding" /\ call[c].unheard)
<1> DEFINE Taken == \E c \in Calls :
             /\ f \in call[c].stored
             /\ call[c].pc = "removing" \/ (call[c].pc = "discarding" /\ call[c].unheard)
<1>1. \A c \in Calls : f \in Own(call[c]) => f \notin rows /\ (f \in objects <=> f \in call[c].stored)
  BY DEF FilesInv, OwnFilesNew
<1>2. ASSUME NEW c \in Calls, f \in call[c].stored, ~ call[c].unheard,
             call[c].pc \notin {"removing", "deleting"}
      PROVE  f \in objects /\ f \notin rows
  BY <1>1, <1>2 DEF Own, FilesOf
<1>3. ASSUME NEW c \in Calls, WithoutFiles(c) PROVE FALSE
  BY <1>3, WithoutFilesShape
<1>4. ASSUME NEW c \in Calls, NEW F \in SUBSET Files,
             \/ \E r \in Requests : SubmitRead(c, r, F)
             \/ \E g \in F : F = {g} /\ UploadRead(c, g)
      PROVE  FALSE
  BY <1>4, BringShape
<1>5. ASSUME NEW c \in Calls,
             \/ \E g \in Files : Store(c, g) \/ StoreFails(c, g) \/ DiscardFails(c, g) \/ RemoveRead(c, g)
             \/ RecordLost(c) \/ RecordFails(c) \/ RemoveRow(c) \/ RemoveRowFails(c)
      PROVE  FALSE
  <2>1. rows' \subseteq rows /\ objects \subseteq objects'
    BY <1>5 DEF Store, StoreFails, DiscardFails, RemoveRead, RecordLost, RecordFails, RemoveRow,
                RemoveRowFails
  <2> QED BY <2>1
<1>6. ASSUME NEW c \in Calls, NEW g \in Files, Discard(c, g) PROVE Taken
  <2>1. call[c].pc = "discarding" /\ g \in call[c].stored /\ objects' = objects \ {g} /\ UNCHANGED rows
    BY <1>6 DEF Discard
  <2> QED BY <1>2, <2>1
<1>7. ASSUME NEW c \in Calls, Record(c) \/ RecordUnheard(c) PROVE FALSE
  <2>1. call[c].pc = "recording" /\ ~ call[c].unheard
    BY <1>7, RecordShape
  <2>2. rows' = rows \cup call[c].stored /\ UNCHANGED objects
    BY <1>7 DEF Record, RecordUnheard, Recorded
  <2> QED BY <1>2, <2>1, <2>2
<1>8. ASSUME NEW c \in Calls, Insert(c) \/ InsertFails(c) PROVE FALSE
  <2>1. call[c].pc = "inserting" /\ rows' \subseteq rows \cup call[c].stored /\ UNCHANGED objects
    BY <1>8 DEF Insert, InsertFails
  <2>2. ~ call[c].unheard
    BY <1>8, RowShape
  <2> QED BY <1>2, <2>1, <2>2
<1>9. ASSUME NEW c \in Calls, RemoveObject(c) PROVE Taken
  BY <1>9 DEF RemoveObject
<1>10. ~ Crash /\ ~ UNCHANGED vars
  BY DEF Crash, vars
<1> QED BY <1>3, <1>4, <1>5, <1>6, <1>7, <1>8, <1>9, <1>10, StepCases

(***************************************************************************)
(* A document in the list loses its file only to a removal of that very    *)
(* document, or to the cleanup after a commit the server did not hear of.  *)
(***************************************************************************)
THEOREM ListedFilesStay == Spec => OnlyRemovalTakesTheFile
<1> DEFINE Step == \A f \in Files :
             (f \in rows' \ objects' /\ ~ f \in rows \ objects) =>
               \E c \in Calls :
                 /\ f \in call[c].stored
                 /\ call[c].pc = "removing" \/ (call[c].pc = "discarding" /\ call[c].unheard)
<1>1. Init => TypeInv /\ FilesInv
  BY TypeInit, FilesInit
<1>2. TypeInv /\ FilesInv /\ [Next]_vars => TypeInv' /\ FilesInv'
  BY TypeStep, FilesStep
<1>3. TypeInv /\ FilesInv /\ [Next]_vars => [Step]_vars
  BY TakingStep
<1> QED BY <1>1, <1>2, <1>3, PTL DEF Spec, OnlyRemovalTakesTheFile
-----------------------------------------------------------------------------
(***************************************************************************)
(* The row of a request: what a step may make of it.                       *)
(***************************************************************************)
\* The review on the row is the one its status speaks of.
RowTells(row) ==
  row.status \in Statuses =>
    /\ row.reason <=> row.status = "REJECTED"
    /\ row.reviewed <=> row.status \in {"APPROVED", "REJECTED"}

ReviewInv == AbsentUntouched /\ ApprovedStays /\ \A r \in Requests : RowTells(request[r])

Lawful(old, new) ==
  \/ new = old
  \/ /\ new.status # "ABSENT" /\ RowTells(new)
     /\ old.status = "APPROVED" => new.status \in {"APPROVED", "GONE"}
     /\ old.status = "GONE" => new.status = "GONE"

LEMMA ReviewMove ==
  ASSUME TypeInv, ReviewInv, NEW c \in Calls, NEW k, Sensible(k), GoesOn(c, k),
         \A r \in Requests : Lawful(request[r], request'[r]),
         \A x \in told' : x \in told \/ (call[c].pc = "announcing" /\ x = <<call[c].req, call[c].kind>>),
         k.req # None => request'[k.req].status # "ABSENT",
         k.pc = "announcing" /\ k.kind = "approved" => request'[k.req].status = "APPROVED"
  PROVE  ReviewInv'
<1>1. /\ call'[c] = k /\ call' \in [Calls -> CallState]
      /\ \A d \in Calls : Sensible(call'[d])
      /\ \A d \in Calls \ {c} :
           call'[d].pc = call[d].pc /\ call'[d].req = call[d].req /\ call'[d].kind = call[d].kind
  BY OthersStay
<1>2. \A d \in Calls : /\ Sensible(call[d])
                       /\ call[d].req \in Requests \cup {None}
                       /\ call[d].pc = "announcing" => call[d].req \in Requests
  BY DEF TypeInv, Sensible, CallState
<1>3. \A r \in Requests :
        /\ request'[r].status = "ABSENT" => request'[r] = request[r]
        /\ request[r].status # "ABSENT" => request'[r].status # "ABSENT"
        /\ request[r].status \in {"APPROVED", "GONE"} => request'[r].status \in {"APPROVED", "GONE"}
        /\ RowTells(request'[r])
  BY DEF Lawful, ReviewInv
<1>4. AbsentUntouched'
  <2>1. \A r \in Requests : request'[r].status = "ABSENT" => request'[r] = Blank
    BY <1>3 DEF ReviewInv, AbsentUntouched
  <2>2. ASSUME NEW d \in Calls, call'[d].req # None PROVE request'[call'[d].req].status # "ABSENT"
    BY <1>1, <1>2, <1>3, <2>2 DEF ReviewInv, AbsentUntouched
  <2> QED BY <2>1, <2>2 DEF AbsentUntouched, Blank
<1>5. ApprovedStays'
  <2>1. ASSUME NEW r \in Requests, <<r, "approved">> \in told'
        PROVE  request'[r].status \in {"APPROVED", "GONE"}
    <3>1. CASE <<r, "approved">> \in told
      BY <1>3, <3>1 DEF ReviewInv, ApprovedStays
    <3>2. CASE call[c].pc = "announcing" /\ <<r, "approved">> = <<call[c].req, call[c].kind>>
      BY <1>3, <3>2 DEF ReviewInv, ApprovedStays
    <3> QED BY <2>1, <3>1, <3>2
  <2>2. ASSUME NEW d \in Calls, call'[d].pc = "announcing" /\ call'[d].kind = "approved"
        PROVE  request'[call'[d].req].status \in {"APPROVED", "GONE"}
    <3>1. CASE d = c
      BY <1>1, <2>2, <3>1
    <3>2. CASE d # c
      <4>1. /\ call[d].pc = "announcing" /\ call[d].kind = "approved"
            /\ call'[d].req = call[d].req /\ call[d].req \in Requests
        BY <1>1, <1>2, <2>2, <3>2
      <4> QED BY <1>3, <4>1 DEF ReviewInv, ApprovedStays
    <3> QED BY <3>1, <3>2
  <2> QED BY <2>1, <2>2 DEF ApprovedStays
<1> QED BY <1>3, <1>4, <1>5 DEF ReviewInv

LEMMA RowsLawful ==
  ASSUME NEW row \in Row, RowTells(row)
  PROVE  /\ row = Blank => Lawful(row, [row EXCEPT !.status = "PENDING"])
         /\ Lawful(row, [Blank EXCEPT !.status = "GONE"])
         /\ row.status # "ABSENT" => \A late \in BOOLEAN : Lawful(row, [row EXCEPT !.late = late])
         /\ row.status \in Editable => Lawful(row, Answered(row))
         /\ \A to \in Transitions[row.status] \ {"SUBMITTED"} : Lawful(row, Reviewed(row, to))
<1>1. row.status \in Statuses \cup {"ABSENT", "GONE"}
  BY DEF Row
<1>2. ASSUME row = Blank PROVE Lawful(row, [row EXCEPT !.status = "PENDING"])
  BY <1>2 DEF Lawful, RowTells, Blank
<1>3. Lawful(row, [Blank EXCEPT !.status = "GONE"])
  BY DEF Lawful, RowTells, Blank, Statuses
<1>4. ASSUME row.status # "ABSENT", NEW late \in BOOLEAN
      PROVE  Lawful(row, [row EXCEPT !.late = late])
  <2>1. /\ [row EXCEPT !.late = late].status = row.status
        /\ [row EXCEPT !.late = late].reason = row.reason
        /\ [row EXCEPT !.late = late].reviewed = row.reviewed
    BY DEF Row
  <2> QED BY <1>4, <2>1 DEF Lawful, RowTells
<1>5. ASSUME row.status \in Editable PROVE Lawful(row, Answered(row))
  <2>1. Answered(row).status = "SUBMITTED" /\ ~ Answered(row).reason /\ ~ Answered(row).reviewed
    BY DEF Answered, Row
  <2> QED BY <1>5, <2>1 DEF Lawful, RowTells, Editable
<1>6. ASSUME NEW to \in Transitions[row.status] \ {"SUBMITTED"}
      PROVE  Lawful(row, Reviewed(row, to))
  <2>1. /\ Reviewed(row, to).status = to /\ Reviewed(row, to).reason = (to = "REJECTED")
        /\ Reviewed(row, to).reviewed = (to # "UNDER_REVIEW")
    BY DEF Reviewed, Row
  <2>2. /\ to \in {"UNDER_REVIEW", "APPROVED", "REJECTED"}
        /\ row.status \notin {"APPROVED", "GONE"}
    BY <1>1 DEF Transitions, Statuses
  <2> QED BY <2>1, <2>2 DEF Lawful, RowTells
<1> QED BY <1>2, <1>3, <1>4, <1>5, <1>6

LEMMA ReviewInit == Init => ReviewInv
BY DEF Init, ReviewInv, RowTells, AbsentUntouched, ApprovedStays, Blank, Idle, Statuses

LEMMA ReviewStep ==
  ASSUME TypeInv, ReviewInv, [Next]_vars
  PROVE  ReviewInv'
<1>1. /\ call \in [Calls -> CallState] /\ request \in [Requests -> Row]
      /\ \A c \in Calls : Sensible(call[c])
      /\ \A c \in Calls : call[c].req # None =>
           call[c].req \in Requests /\ request[call[c].req].status # "ABSENT"
      /\ \A r \in Requests : /\ request[r] \in Row /\ RowTells(request[r])
                             /\ request[r].status = "ABSENT" => request[r] = Blank
                             /\ Lawful(request[r], request[r])
  BY DEF TypeInv, TypeOK, ReviewInv, AbsentUntouched, CallState, Lawful
<1>2. \A r \in Requests : Exists(r) => request[r].status # "ABSENT"
  BY DEF Exists, Statuses
\* Steps that leave requests and notices alone.
<1>3. ASSUME NEW c \in Calls, GoesOn(c, call'[c]), Sensible(call'[c]), UNCHANGED <<request, told>>,
             \/ call'[c].req = None
             \/ call'[c].req = call[c].req
             \/ call'[c].req \in Requests /\ Exists(call'[c].req),
             call'[c].pc # "announcing"
      PROVE  ReviewInv'
  <2>1. call'[c].req # None => request'[call'[c].req].status # "ABSENT"
    BY <1>1, <1>2, <1>3
  <2> QED BY <1>1, <1>3, <2>1, ReviewMove
<1>4. ASSUME NEW c \in Calls, WithoutFiles(c) PROVE ReviewInv'
  <2>1. GoesOn(c, call'[c]) /\ Sensible(call'[c])
    BY <1>4, WithoutFilesShape
  <2>2. \A k : /\ Goes(c, k) => call'[c] = k
               /\ \A r \in Requests : call' = Moved(c, r, k) => call'[c] = k
    BY <1>1 DEF Goes, Moved
  <2>3. ASSUME NEW r \in Requests, Create(c, r) PROVE ReviewInv'
    <3>1. call'[c].req = r /\ call'[c].kind = "created"
      BY <2>2, <2>3 DEF Create, Announcing, Idle
    <3>2. /\ request[r] = Blank /\ request' = [request EXCEPT ![r] = [request[r] EXCEPT !.status = "PENDING"]]
          /\ UNCHANGED told
      BY <1>1, <2>3 DEF Create
    <3>3. \A s \in Requests : Lawful(request[s], request'[s])
      BY <1>1, <3>2, RowsLawful
    <3>4. request'[r].status # "ABSENT"
      BY <1>1, <3>2 DEF Blank
    <3> QED BY <2>1, <3>1, <3>2, <3>3, <3>4, ReviewMove
  <2>4. ASSUME NEW r \in Requests, EditRead(c, r) \/ DropRead(c, r) PROVE ReviewInv'
    <3>1. call'[c].req = r /\ call'[c].pc \in {"editing", "dropping"}
      BY <2>2, <2>4 DEF EditRead, DropRead, Loaded, Idle
    <3>2. Exists(r) /\ UNCHANGED <<request, told>>
      BY <2>4 DEF EditRead, DropRead, Exists, Editable, Statuses
    <3> QED BY <1>3, <2>1, <3>1, <3>2
  <2>5. ASSUME NEW r \in Requests, NEW to \in Statuses, ReviewRead(c, r, to) PROVE ReviewInv'
    <3>1. call'[c].req = r /\ call'[c].pc = "reviewing"
      BY <2>2, <2>5 DEF ReviewRead, Loaded, Idle
    <3>2. Exists(r) /\ UNCHANGED <<request, told>>
      BY <1>1, <2>5 DEF ReviewRead, Exists, Transitions, Row
    <3> QED BY <1>3, <2>1, <3>1, <3>2
  <2>6. ASSUME EditWrite(c) PROVE ReviewInv'
    <3> DEFINE r == call[c].req
               late == request[r].late \/ (Exists(r) /\ request[r].status \notin Editable)
    <3>1. call'[c].req = None /\ call'[c].pc = "idle" /\ UNCHANGED told
      BY <2>2, <2>6 DEF EditWrite, Idle
    <3>2. r \in Requests /\ request[r].status # "ABSENT"
      BY <1>1, <2>6, DocumentRequestsAssumption DEF EditWrite, Sensible
    <3>3. late \in BOOLEAN /\ request' = [request EXCEPT ![r] = [request[r] EXCEPT !.late = late]]
      BY <2>6 DEF EditWrite
    <3> HIDE DEF late
    <3>4. \A s \in Requests : Lawful(request[s], request'[s])
      BY <1>1, <3>2, <3>3, RowsLawful
    <3> QED BY <2>1, <3>1, <3>4, ReviewMove
  <2>7. ASSUME DropWrite(c) PROVE ReviewInv'
    <3> DEFINE r == call[c].req
    <3>1. r \in Requests
      BY <1>1, <2>7 DEF DropWrite, Sensible
    <3>2. call'[c].req = None /\ call'[c].pc = "idle"
      <4>1. call' = Moved(c, r, Idle)
        BY <2>7 DEF DropWrite
      <4>2. call'[c] = Idle
        BY <2>2, <3>1, <4>1
      <4> QED BY <4>2 DEF Idle
    <3>3. request' = [request EXCEPT ![r] = [Blank EXCEPT !.status = "GONE"]] /\ UNCHANGED told
      BY <2>7 DEF DropWrite
    <3>4. \A s \in Requests : Lawful(request[s], request'[s])
      BY <1>1, <3>1, <3>3, RowsLawful
    <3> QED BY <2>1, <3>2, <3>3, <3>4, ReviewMove
  <2>8. ASSUME ReviewWrite(c) PROVE ReviewInv'
    <3> DEFINE r == call[c].req
               to == call[c].to
    <3>1. r \in Requests /\ to \in Transitions[request[r].status] \ {"SUBMITTED"} /\ to \in Statuses
      BY <1>1, <2>8 DEF ReviewWrite, Sensible, Transitions, Statuses
    <3>2. call'[c] = AfterReview(r, to)
      BY <2>2, <2>8, <3>1 DEF ReviewWrite
    <3>3. request' = [request EXCEPT ![r] = Reviewed(request[r], to)] /\ UNCHANGED told
      BY <2>8 DEF ReviewWrite
    <3>4. \A s \in Requests : Lawful(request[s], request'[s])
      BY <1>1, <3>1, <3>3, RowsLawful
    <3>5. request'[r].status = to
      BY <1>1, <3>1, <3>3 DEF Reviewed, Row
    <3>6. /\ call'[c].req \in {None, r}
          /\ call'[c].pc = "announcing" /\ call'[c].kind = "approved" =>
               call'[c].req = r /\ to = "APPROVED"
      BY <3>2 DEF AfterReview, Announcing, Idle
    <3>7. to # "ABSENT"
      BY <3>1 DEF Statuses
    <3> QED BY <2>1, <3>3, <3>4, <3>5, <3>6, <3>7, ReviewMove
  <2>9. ASSUME ReviewLost(c) PROVE ReviewInv'
    <3>1. call'[c].req = None /\ call'[c].pc = "idle" /\ UNCHANGED <<request, told>>
      BY <2>2, <2>9 DEF ReviewLost, Idle
    <3> QED BY <1>3, <2>1, <3>1
  <2>10. ASSUME Announce(c) PROVE ReviewInv'
    <3>1. call'[c].req = None /\ call'[c].pc = "idle" /\ UNCHANGED request
      BY <2>2, <2>10 DEF Announce, Idle
    <3>2. \A x \in told' : x \in told \/ (call[c].pc = "announcing" /\ x = <<call[c].req, call[c].kind>>)
      BY <2>10 DEF Announce
    <3> QED BY <1>1, <2>1, <3>1, <3>2, ReviewMove
  <2> QED BY <1>4, <2>3, <2>4, <2>5, <2>6, <2>7, <2>8, <2>9, <2>10 DEF WithoutFiles
<1>5. ASSUME NEW c \in Calls, NEW F \in SUBSET Files,
             \/ \E r \in Requests : SubmitRead(c, r, F)
             \/ \E f \in F : F = {f} /\ UploadRead(c, f)
      PROVE  ReviewInv'
  <2>1. /\ GoesOn(c, call'[c]) /\ Sensible(call'[c]) /\ call'[c].pc = "storing"
        /\ call'[c].req = None \/ Exists(call'[c].req)
        /\ UNCHANGED <<request, rows, answers, objects, answered, leftover, told>>
    BY <1>5, BringShape
  <2>2. call'[c].req \in Requests \cup {None}
    BY <2>1 DEF Sensible, CallState
  <2> QED BY <1>3, <2>1, <2>2
<1>6. ASSUME NEW c \in Calls, NEW f \in Files, Store(c, f) PROVE ReviewInv'
  <2>1. /\ GoesOn(c, call'[c]) /\ Sensible(call'[c])
        /\ call'[c].pc \in {"storing", "inserting", "recording"} /\ call'[c].req = call[c].req
    BY <1>6, StoreShape
  <2>2. UNCHANGED <<request, told>>
    BY <1>6 DEF Store
  <2> QED BY <1>3, <2>1, <2>2
<1>7. ASSUME NEW c \in Calls,
             \/ \E f \in Files : StoreFails(c, f) \/ Discard(c, f) \/ DiscardFails(c, f)
             \/ RecordLost(c) \/ RecordFails(c)
      PROVE  ReviewInv'
  <2>1. GoesOn(c, call'[c]) /\ Sensible(call'[c]) /\ call'[c].pc \in {"idle", "discarding"}
    BY <1>7, GivesUpShape
  <2>2. UNCHANGED <<request, told>>
    BY <1>7 DEF StoreFails, Discard, DiscardFails, RecordLost, RecordFails
  <2>3. call'[c].req = None
    BY <2>1 DEF Sensible
  <2> QED BY <1>3, <2>1, <2>2, <2>3
<1>8. ASSUME NEW c \in Calls, Record(c) \/ RecordUnheard(c) PROVE ReviewInv'
  <2> DEFINE r == call[c].req
  <2>1. /\ GoesOn(c, call'[c]) /\ Sensible(call'[c])
        /\ r \in Requests /\ request[r].status \in Editable
        /\ \/ call'[c] = Announcing(r, "submitted")
           \/ call'[c].pc = "discarding"
    BY <1>8, RecordShape
  <2>2. request' = [request EXCEPT ![r] = Answered(request[r])] /\ UNCHANGED told
    BY <1>8 DEF Record, RecordUnheard, Recorded
  <2>3. \A s \in Requests : Lawful(request[s], request'[s])
    BY <1>1, <2>1, <2>2, RowsLawful
  <2>4. request'[r].status = "SUBMITTED"
    BY <1>1, <2>1, <2>2 DEF Answered, Row
  <2>5. /\ call'[c].req \in {None, r}
        /\ call'[c].pc = "announcing" => call'[c].kind # "approved"
    BY <2>1 DEF Sensible, Announcing, Idle
  <2> QED BY <2>1, <2>2, <2>3, <2>4, <2>5, ReviewMove
<1>9. ASSUME NEW c \in Calls,
             \/ Insert(c) \/ InsertFails(c) \/ RemoveObject(c) \/ RemoveRow(c) \/ RemoveRowFails(c)
             \/ \E f \in Files : RemoveRead(c, f)
      PROVE  ReviewInv'
  <2>1. /\ GoesOn(c, call'[c]) /\ Sensible(call'[c])
        /\ RemoveObject(c) => call'[c].pc = "deleting"
        /\ \A f \in Files : RemoveRead(c, f) => call'[c].pc = "removing"
        /\ Insert(c) \/ InsertFails(c) \/ RemoveRow(c) \/ RemoveRowFails(c) => call'[c] = Idle
    BY <1>9, RowShape
  <2>2. UNCHANGED <<request, told>>
    BY <1>9 DEF Insert, InsertFails, RemoveObject, RemoveRow, RemoveRowFails, RemoveRead
  <2>3. Idle.pc = "idle"
    BY DEF Idle
  <2>4. call'[c].pc \in {"idle", "removing", "deleting"}
    BY <1>9, <2>1, <2>3
  <2>5. call'[c].req = None
    BY <2>1, <2>4 DEF Sensible
  <2> QED BY <1>3, <2>1, <2>2, <2>4, <2>5
<1>10. CASE Crash
  <2>1. UNCHANGED <<request, told>> /\ \A c \in Calls : call'[c] = Idle
    BY <1>10 DEF Crash
  <2> QED BY <2>1 DEF ReviewInv, AbsentUntouched, ApprovedStays, Idle
<1>11. CASE UNCHANGED vars
  BY <1>11 DEF vars, ReviewInv, AbsentUntouched, ApprovedStays
<1> QED BY <1>4, <1>5, <1>6, <1>7, <1>8, <1>9, <1>10, <1>11, StepCases

(***************************************************************************)
(* The reason and the date on a request are those of its status, and a     *)
(* client told of an approval has one, however reviews and answers race.   *)
(***************************************************************************)
THEOREM ReviewsTold == Spec => []ReviewTellsStatus
<1>1. Init => TypeInv /\ ReviewInv
  BY TypeInit, ReviewInit
<1>2. TypeInv /\ ReviewInv /\ [Next]_vars => TypeInv' /\ ReviewInv'
  BY TypeStep, ReviewStep
<1>3. ReviewInv => ReviewTellsStatus
  BY DEF ReviewInv, RowTells, ApprovedStays, ReviewTellsStatus, Exists, Statuses
<1> QED BY <1>1, <1>2, <1>3, PTL DEF Spec
-----------------------------------------------------------------------------
(***************************************************************************)
(* Answers, and the calls that act on what they loaded: a request moves,   *)
(* or gets files, only in steps that mark those calls as overtaken.        *)
(***************************************************************************)
AnswersInv == AnswersKnown /\ FreshUnlessOvertaken

ClientInv == TypeInv /\ FilesInv /\ ReviewInv /\ AnswersInv

LEMMA MovedOvertakes ==
  ASSUME TypeInv, NEW c \in Calls, NEW k, NEW r \in Requests, call' = Moved(c, r, k)
  PROVE  \A d \in Calls \ {c} :
           call[d].pc \in {"editing", "dropping"} /\ call[d].req = r => call'[d].overtaken
<1>1. SUFFICES ASSUME NEW d \in Calls \ {c}, call[d].pc \in {"editing", "dropping"}, call[d].req = r
               PROVE  call'[d].overtaken
  OBVIOUS
<1>2. call'[d] = [call[d] EXCEPT !.overtaken = TRUE]
  BY <1>1 DEF Moved
<1>3. call[d] \in CallState
  BY <1>1 DEF TypeInv, TypeOK
<1> QED BY <1>2, <1>3 DEF CallState

LEMMA AnswersMove ==
  ASSUME ClientInv, NEW c \in Calls, NEW k, Sensible(k), GoesOn(c, k),
         rows' \subseteq Files,
         \A r \in Requests :
           \/ request'[r].status = request[r].status
           \/ request[r].status = "ABSENT"
           \/ call' = Moved(c, r, k),
         answers' \in [Files -> Requests \cup {None}],
         \A f \in Files, r \in Requests : answers'[f] = r =>
           /\ f \in answered' /\ request'[r].status \in Statuses
           /\ (f \in rows /\ answers[f] = r) \/ f \notin rows' \/ call' = Moved(c, r, k),
         ~ k.overtaken =>
           /\ k.pc = "editing" => request'[k.req].status \in Editable
           /\ k.pc = "dropping" => /\ request'[k.req].status \in Statuses
                                   /\ \A f \in rows' : answers'[f] # k.req
  PROVE  AnswersInv'
<1>1. /\ call'[c] = k /\ call' \in [Calls -> CallState]
      /\ \A d \in Calls \ {c} :
           /\ call'[d].pc = call[d].pc /\ call'[d].req = call[d].req
           /\ call[d].overtaken => call'[d].overtaken
  BY OthersStay DEF ClientInv
<1>2. AnswersKnown'
  BY DEF ClientInv, AnswersInv, AnswersKnown, Exists
<1>3. ASSUME NEW d \in Calls, ~ call'[d].overtaken
      PROVE  /\ call'[d].pc = "editing" => request'[call'[d].req].status \in Editable
             /\ call'[d].pc = "dropping" => /\ request'[call'[d].req].status \in Statuses
                                          /\ \A f \in rows' : answers'[f] # call'[d].req
  <2>1. CASE d = c
    BY <1>1, <1>3, <2>1
  <2>2. CASE d # c /\ call[d].pc \in {"editing", "dropping"}
    <3> DEFINE r == call[d].req
    <3>1. r \in Requests /\ request[r].status # "ABSENT" /\ r # None
      BY <2>2, DocumentRequestsAssumption
         DEF ClientInv, TypeInv, Sensible, ReviewInv, AbsentUntouched
    <3>2. ~ call[d].overtaken /\ call' # Moved(c, r, k)
      BY <1>1, <1>3, <2>2, <3>1, MovedOvertakes DEF ClientInv
    <3>3. /\ call[d].pc = "editing" => request[r].status \in Editable
          /\ call[d].pc = "dropping" => Exists(r) /\ AnswerOf(r) = {}
      BY <3>2 DEF ClientInv, AnswersInv, FreshUnlessOvertaken
    <3>4. request'[r].status = request[r].status
      BY <3>1, <3>2
    <3>5. ASSUME NEW f \in rows', answers'[f] = r PROVE f \in rows /\ answers[f] = r
      BY <3>1, <3>2, <3>5
    <3> QED BY <1>1, <2>2, <3>3, <3>4, <3>5 DEF Exists, AnswerOf
  <2> QED BY <1>1, <2>1, <2>2
<1>4. FreshUnlessOvertaken'
  BY <1>3 DEF FreshUnlessOvertaken, Exists, AnswerOf
<1> QED BY <1>2, <1>4 DEF AnswersInv

LEMMA AnswersInit == Init => AnswersInv
BY DEF Init, AnswersInv, AnswersKnown, FreshUnlessOvertaken, Idle

LEMMA AnswersStep ==
  ASSUME ClientInv, [Next]_vars
  PROVE  AnswersInv'
<1>1. /\ call \in [Calls -> CallState] /\ request \in [Requests -> Row]
      /\ answers \in [Files -> Requests \cup {None}]
      /\ rows \subseteq Files /\ rows' \subseteq Files /\ answers' \in [Files -> Requests \cup {None}]
      /\ TypeInv /\ \A c \in Calls : Sensible(call[c])
  <2>1. TypeInv'
    BY TypeStep DEF ClientInv
  <2> QED BY <2>1 DEF ClientInv, TypeInv, TypeOK
<1>2. \A f \in Files : answers[f] # None =>
        f \in answered /\ answers[f] \in Requests /\ request[answers[f]].status \in Statuses
  BY <1>1 DEF ClientInv, AnswersInv, AnswersKnown, Exists
<1>3. \A c \in Calls, f \in Files : f \in Own(call[c]) => f \notin answered /\ f \notin rows
  BY DEF ClientInv, FilesInv, OwnFilesNew
\* Steps that leave the answers alone.
<1>4. ASSUME NEW c \in Calls, GoesOn(c, call'[c]), Sensible(call'[c]),
             UNCHANGED <<rows, answers, answered>>,
             \A r \in Requests :
               \/ request'[r].status = request[r].status
               \/ /\ request[r].status = "ABSENT" \/ call' = Moved(c, r, call'[c])
                  /\ request'[r].status \in Statuses,
             call'[c].pc = "editing" => request'[call'[c].req].status \in Editable,
             call'[c].pc = "dropping" => /\ request'[call'[c].req].status \in Statuses
                                         /\ \A f \in rows' : answers'[f] # call'[c].req
      PROVE  AnswersInv'
  <2>1. \A f \in Files, r \in Requests : answers'[f] = r =>
          f \in answered' /\ request'[r].status \in Statuses /\ answers[f] = r
    BY <1>2, <1>4, DocumentRequestsAssumption
  <2> QED BY <1>1, <1>4, <2>1, AnswersMove
<1>5. ASSUME NEW c \in Calls, WithoutFiles(c) PROVE AnswersInv'
  <2>1. GoesOn(c, call'[c]) /\ Sensible(call'[c]) /\ UNCHANGED <<rows, answered>>
    BY <1>5, WithoutFilesShape DEF ClientInv
  <2>2. \A k : /\ Goes(c, k) => call'[c] = k
               /\ \A r \in Requests : call' = Moved(c, r, k) => call'[c] = k
    BY <1>1 DEF Goes, Moved
  <2>3. ASSUME NEW r \in Requests, Create(c, r) PROVE AnswersInv'
    <3>1. call'[c].pc = "announcing" /\ UNCHANGED answers
      BY <2>2, <2>3 DEF Create, Announcing, Idle
    <3>2. \A s \in Requests :
            \/ request'[s].status = request[s].status
            \/ request[s].status = "ABSENT" /\ request'[s].status \in Statuses
      BY <1>1, <2>3 DEF Create, Statuses, Row
    <3> QED BY <1>4, <2>1, <3>1, <3>2
  <2>4. ASSUME NEW r \in Requests, EditRead(c, r) \/ DropRead(c, r) PROVE AnswersInv'
    <3>1. /\ call'[c].req = r /\ UNCHANGED <<request, answers>>
          /\ EditRead(c, r) => call'[c].pc = "editing"
          /\ DropRead(c, r) => call'[c].pc = "dropping"
      BY <2>2, <2>4 DEF EditRead, DropRead, Loaded, Idle
    <3>2. EditRead(c, r) => request[r].status \in Editable
      BY DEF EditRead
    <3>3. DropRead(c, r) => request[r].status \in Statuses /\ \A f \in rows : answers[f] # r
      BY DEF DropRead, Exists, AnswerOf
    <3> QED BY <1>4, <2>1, <2>4, <3>1, <3>2, <3>3
  <2>5. ASSUME NEW r \in Requests, NEW to \in Statuses, ReviewRead(c, r, to) PROVE AnswersInv'
    <3>1. call'[c].pc = "reviewing" /\ UNCHANGED <<request, answers>>
      BY <2>2, <2>5 DEF ReviewRead, Loaded, Idle
    <3> QED BY <1>4, <2>1, <3>1
  <2>6. ASSUME EditWrite(c) PROVE AnswersInv'
    <3> DEFINE r == call[c].req
               late == request[r].late \/ (Exists(r) /\ request[r].status \notin Editable)
    <3>1. call'[c].pc = "idle" /\ UNCHANGED answers
      BY <2>2, <2>6 DEF EditWrite, Idle
    <3>2. r \in Requests
      BY <1>1, <2>6 DEF EditWrite, Sensible
    <3>3. request' = [request EXCEPT ![r] = [request[r] EXCEPT !.late = late]]
      BY <2>6 DEF EditWrite
    <3> HIDE DEF late
    <3>4. \A s \in Requests : request'[s].status = request[s].status
      BY <1>1, <3>2, <3>3 DEF Row
    <3> QED BY <1>4, <2>1, <3>1, <3>4
  <2>7. ASSUME DropWrite(c) PROVE AnswersInv'
    <3> DEFINE r == call[c].req
    <3>1. r \in Requests
      BY <1>1, <2>7 DEF DropWrite, Sensible
    <3>2. /\ request' = [request EXCEPT ![r] = [Blank EXCEPT !.status = "GONE"]]
          /\ answers' = [f \in Files |-> IF answers[f] = r THEN None ELSE answers[f]]
          /\ call' = Moved(c, r, Idle)
      BY <2>7 DEF DropWrite
    <3>3. call'[c] = Idle
      BY <2>2, <3>1, <3>2
    <3>4. call'[c].pc = "idle" /\ call' = Moved(c, r, call'[c])
      BY <3>2, <3>3 DEF Idle
    <3>5. \A s \in Requests : \/ request'[s].status = request[s].status
                              \/ call' = Moved(c, s, call'[c])
      BY <1>1, <3>1, <3>2, <3>4
    <3>6. \A f \in Files, s \in Requests : answers'[f] = s =>
            f \in answered' /\ request'[s].status \in Statuses /\ answers[f] = s
      BY <1>1, <1>2, <2>1, <3>1, <3>2, DocumentRequestsAssumption
    <3> QED BY <1>1, <2>1, <3>4, <3>5, <3>6, AnswersMove
  <2>8. ASSUME ReviewWrite(c) PROVE AnswersInv'
    <3> DEFINE r == call[c].req
               to == call[c].to
    <3>1. r \in Requests /\ to \in Statuses
      BY <1>1, <2>8 DEF ReviewWrite, Sensible, Transitions, Statuses
    <3>2. /\ call' = Moved(c, r, AfterReview(r, to)) /\ UNCHANGED answers
          /\ request' = [request EXCEPT ![r] = Reviewed(request[r], to)]
      BY <2>8 DEF ReviewWrite
    <3>3. call'[c] = AfterReview(r, to)
      BY <2>2, <3>1, <3>2
    <3>4. call'[c].pc \in {"idle", "announcing"} /\ call' = Moved(c, r, call'[c])
      <4>1. call'[c].pc \in {"idle", "announcing"}
        BY <3>3 DEF AfterReview, Announcing, Idle
      <4> QED BY <3>2, <3>3, <4>1
    <3>5. Reviewed(request[r], to).status = to
      BY <1>1, <3>1 DEF Reviewed, Row
    <3>6. \A s \in Requests : \/ request'[s].status = request[s].status
                              \/ s = r /\ request'[s].status \in Statuses
      BY <1>1, <3>1, <3>2, <3>5
    <3> QED BY <1>4, <2>1, <3>2, <3>4, <3>6
  <2>9. ASSUME ReviewLost(c) PROVE AnswersInv'
    <3>1. call'[c].pc = "idle" /\ UNCHANGED <<request, answers>>
      BY <2>2, <2>9 DEF ReviewLost, Idle
    <3> QED BY <1>4, <2>1, <3>1
  <2>10. ASSUME Announce(c) PROVE AnswersInv'
    <3>1. call'[c].pc = "idle" /\ UNCHANGED <<request, answers>>
      BY <2>2, <2>10 DEF Announce, Idle
    <3> QED BY <1>4, <2>1, <3>1
  <2> QED BY <1>5, <2>3, <2>4, <2>5, <2>6, <2>7, <2>8, <2>9, <2>10 DEF WithoutFiles
<1>6. ASSUME NEW c \in Calls, NEW F \in SUBSET Files,
             \/ \E r \in Requests : SubmitRead(c, r, F)
             \/ \E f \in F : F = {f} /\ UploadRead(c, f)
      PROVE  AnswersInv'
  <2>1. /\ GoesOn(c, call'[c]) /\ Sensible(call'[c]) /\ call'[c].pc = "storing"
        /\ UNCHANGED <<request, rows, answers, objects, answered, leftover, told>>
    BY <1>1, <1>6, BringShape
  <2> QED BY <1>4, <2>1
<1>7. ASSUME NEW c \in Calls, NEW f \in Files, Store(c, f) PROVE AnswersInv'
  <2>1. /\ GoesOn(c, call'[c]) /\ Sensible(call'[c])
        /\ call'[c].pc \in {"storing", "inserting", "recording"}
    BY <1>1, <1>7, StoreShape
  <2>2. UNCHANGED <<request, rows, answers, answered>>
    BY <1>7 DEF Store
  <2> QED BY <1>4, <2>1, <2>2
<1>8. ASSUME NEW c \in Calls,
             \/ \E f \in Files : StoreFails(c, f) \/ Discard(c, f) \/ DiscardFails(c, f)
             \/ RecordLost(c) \/ RecordFails(c)
      PROVE  AnswersInv'
  <2>1. GoesOn(c, call'[c]) /\ Sensible(call'[c]) /\ call'[c].pc \in {"idle", "discarding"}
    BY <1>1, <1>8, GivesUpShape
  <2>2. UNCHANGED <<request, rows, answers, answered>>
    BY <1>8 DEF StoreFails, Discard, DiscardFails, RecordLost, RecordFails
  <2> QED BY <1>4, <2>1, <2>2
<1>9. ASSUME NEW c \in Calls, Record(c) \/ RecordUnheard(c) PROVE AnswersInv'
  <2> DEFINE r == call[c].req
  <2>1. /\ GoesOn(c, call'[c]) /\ Sensible(call'[c])
        /\ r \in Requests /\ call' = Moved(c, r, call'[c])
        /\ \/ call'[c] = Announcing(r, "submitted")
           \/ call'[c].pc = "discarding"
    BY <1>1, <1>9, RecordShape
  <2>2. call'[c].pc \notin {"editing", "dropping"}
    BY <2>1 DEF Announcing, Idle
  <2>3. /\ request' = [request EXCEPT ![r] = Answered(request[r])]
        /\ rows' = rows \cup call[c].stored /\ answered' = answered \cup call[c].stored
        /\ answers' = [f \in Files |-> IF f \in call[c].stored THEN r ELSE answers[f]]
    BY <1>9 DEF Record, RecordUnheard, Recorded
  <2>4. Answered(request[r]).status = "SUBMITTED"
    BY <1>1, <2>1 DEF Answered, Row
  <2>5. \A s \in Requests : \/ s # r /\ request'[s].status = request[s].status
                            \/ s = r /\ request'[s].status \in Statuses
    BY <1>1, <2>1, <2>3, <2>4 DEF Statuses
  <2>6. \A f \in Files, s \in Requests : answers'[f] = s =>
          /\ f \in answered' /\ request'[s].status \in Statuses
          /\ s = r \/ (answers[f] = s /\ f \notin call[c].stored)
    <3> SUFFICES ASSUME NEW f \in Files, NEW s \in Requests, answers'[f] = s
                 PROVE  /\ f \in answered' /\ request'[s].status \in Statuses
                        /\ s = r \/ (answers[f] = s /\ f \notin call[c].stored)
      OBVIOUS
    <3>1. CASE f \in call[c].stored
      <4>1. s = r /\ f \in answered'
        BY <2>3, <3>1
      <4>2. request'[s].status \in Statuses
        BY <2>1, <2>5, <4>1
      <4> HIDE DEF r
      <4> QED BY <4>1, <4>2
    <3>2. CASE f \notin call[c].stored
      <4>1. answers[f] = s
        BY <2>3, <3>2
      <4>2. f \in answered /\ request[s].status \in Statuses
        BY <1>2, <4>1, DocumentRequestsAssumption
      <4>3. f \in answered'
        BY <2>3, <4>2
      <4>4. request'[s].status \in Statuses
        BY <2>5, <4>2
      <4> QED BY <3>2, <4>1, <4>3, <4>4
    <3> QED BY <3>1, <3>2
  <2>7. \A f \in Files, s \in Requests : answers'[f] = s =>
          /\ f \in answered' /\ request'[s].status \in Statuses
          /\ (f \in rows /\ answers[f] = s) \/ f \notin rows' \/ call' = Moved(c, s, call'[c])
    BY <2>1, <2>3, <2>6
  <2>8. \A s \in Requests : request'[s].status = request[s].status \/ call' = Moved(c, s, call'[c])
    BY <2>1, <2>5
  <2> QED BY <1>1, <2>1, <2>2, <2>7, <2>8, AnswersMove
<1>10. ASSUME NEW c \in Calls, Insert(c) \/ InsertFails(c) \/ RemoveRow(c) \/ RemoveRowFails(c)
       PROVE  AnswersInv'
  <2>1. /\ GoesOn(c, call'[c]) /\ Sensible(call'[c])
        /\ ~ call[c].unheard /\ call'[c] = Idle
    BY <1>1, <1>10, RowShape
  <2>2. call'[c].pc = "idle"
    BY <2>1 DEF Idle
  <2>3. UNCHANGED <<request, answered>> /\ \A f \in Files : answers'[f] \in {answers[f], None}
    BY <1>1, <1>10 DEF Insert, InsertFails, RemoveRow, RemoveRowFails
  <2>4. \A f \in rows' \ rows : answers[f] = None /\ UNCHANGED answers
    <3>1. CASE Insert(c) \/ InsertFails(c)
      <4>1. call[c].pc = "inserting" /\ rows' \subseteq rows \cup call[c].stored /\ UNCHANGED answers
        BY <3>1 DEF Insert, InsertFails
      <4>2. call[c].stored \subseteq Own(call[c])
        BY <2>1, <4>1 DEF Own, FilesOf
      <4> QED BY <1>1, <1>2, <1>3, <4>1, <4>2
    <3>2. CASE RemoveRow(c) \/ RemoveRowFails(c)
      BY <3>2 DEF RemoveRow, RemoveRowFails
    <3> QED BY <1>10, <3>1, <3>2
  <2>5. \A f \in Files, s \in Requests : answers'[f] = s =>
          /\ f \in answered' /\ request'[s].status \in Statuses
          /\ answers[f] = s /\ (f \in rows \/ f \notin rows')
    BY <1>2, <2>3, <2>4, DocumentRequestsAssumption
  <2> QED BY <1>1, <2>1, <2>2, <2>3, <2>5, AnswersMove
<1>11. ASSUME NEW c \in Calls, RemoveObject(c) \/ \E f \in Files : RemoveRead(c, f)
       PROVE  AnswersInv'
  <2>1. /\ GoesOn(c, call'[c]) /\ Sensible(call'[c])
        /\ RemoveObject(c) => call'[c].pc = "deleting"
        /\ \A f \in Files : RemoveRead(c, f) => call'[c].pc = "removing"
    BY <1>1, <1>11, RowShape
  <2>2. UNCHANGED <<request, rows, answers, answered>>
    BY <1>11 DEF RemoveObject, RemoveRead
  <2>3. call'[c].pc \in {"removing", "deleting"}
    BY <1>11, <2>1
  <2> QED BY <1>4, <2>1, <2>2, <2>3
<1>12. CASE Crash
  <2>1. UNCHANGED <<request, rows, answers, answered>> /\ \A c \in Calls : call'[c] = Idle
    BY <1>12 DEF Crash
  <2> QED BY <2>1 DEF ClientInv, AnswersInv, AnswersKnown, FreshUnlessOvertaken, Exists, Idle
<1>13. CASE UNCHANGED vars
  BY <1>13 DEF vars, ClientInv, AnswersInv, AnswersKnown, FreshUnlessOvertaken, Exists, AnswerOf
<1> QED BY <1>5, <1>6, <1>7, <1>8, <1>9, <1>10, <1>11, <1>12, <1>13, StepCases

LEMMA ClientInit == Init => ClientInv
BY TypeInit, FilesInit, ReviewInit, AnswersInit DEF ClientInv

LEMMA ClientStep == ClientInv /\ [Next]_vars => ClientInv'
BY TypeStep, FilesStep, ReviewStep, AnswersStep DEF ClientInv

LEMMA PassingStep ==
  ASSUME ClientInv, [Next]_vars, NEW r \in Requests,
         \/ Exists(r) /\ request'[r].status = "GONE" /\ AnswerOf(r) # {}
         \/ request'[r].late /\ ~ request[r].late
  PROVE  \E c \in Calls : call[c].req = r /\ call[c].overtaken /\ call'[c] = Idle
<1> DEFINE Passed == \E c \in Calls : call[c].req = r /\ call[c].overtaken /\ call'[c] = Idle
<1>1. /\ call \in [Calls -> CallState] /\ request \in [Requests -> Row] /\ TypeInv
      /\ \A c \in Calls : Sensible(call[c])
  BY DEF ClientInv, TypeInv, TypeOK
<1>2. request'[r] # request[r]
  BY DEF Exists, Statuses
<1>3. ASSUME NEW c \in Calls, WithoutFiles(c) PROVE Passed
  <2>1. ASSUME NEW s \in Requests, Create(c, s) PROVE FALSE
    BY <1>1, <1>2, <2>1 DEF Create, Row, Exists
  <2>2. ASSUME EditWrite(c) PROVE Passed
    <3> DEFINE s == call[c].req
               late == request[s].late \/ (Exists(s) /\ request[s].status \notin Editable)
    <3>1. /\ s \in Requests /\ call[c].pc = "editing"
          /\ request' = [request EXCEPT ![s] = [request[s] EXCEPT !.late = late]]
          /\ call'[c] = Idle
      BY <1>1, <2>2 DEF EditWrite, Sensible, Goes
    <3>2. s = r
      BY <1>1, <1>2, <3>1
    <3>3. request'[r].status = request[r].status /\ request'[r].late = late
      BY <1>1, <3>1, <3>2 DEF Row
    <3>4. Exists(r) /\ request[r].status \notin Editable
      BY <3>2, <3>3 DEF Exists, Statuses
    <3>5. call[c].overtaken
      BY <3>1, <3>2, <3>4 DEF ClientInv, AnswersInv, FreshUnlessOvertaken
    <3> QED BY <3>1, <3>2, <3>5
  <2>3. ASSUME DropWrite(c) PROVE Passed
    <3> DEFINE s == call[c].req
    <3>1. s \in Requests /\ call[c].pc = "dropping"
      BY <1>1, <2>3 DEF DropWrite, Sensible
    <3>2. /\ request' = [request EXCEPT ![s] = [Blank EXCEPT !.status = "GONE"]]
          /\ call' = Moved(c, s, Idle)
      BY <2>3 DEF DropWrite
    <3>3. s = r /\ call'[c] = Idle
      BY <1>1, <1>2, <3>1, <3>2 DEF Moved
    <3>4. ~ request'[r].late
      BY <1>1, <3>1, <3>2, <3>3 DEF Blank
    <3>5. call[c].overtaken
      BY <3>1, <3>3, <3>4 DEF ClientInv, AnswersInv, FreshUnlessOvertaken
    <3> QED BY <3>3, <3>5
  <2>4. ASSUME ReviewWrite(c) PROVE FALSE
    <3> DEFINE s == call[c].req
               to == call[c].to
    <3>1. s \in Requests /\ to \in Statuses
      BY <1>1, <2>4 DEF ReviewWrite, Sensible, Transitions, Statuses
    <3>2. request' = [request EXCEPT ![s] = Reviewed(request[s], to)]
      BY <2>4 DEF ReviewWrite
    <3>3. s = r
      BY <1>1, <1>2, <3>1, <3>2
    <3>4. request'[r].late = request[r].late /\ request'[r].status = to
      BY <1>1, <3>2, <3>3 DEF Reviewed, Row
    <3> QED BY <3>1, <3>4 DEF Statuses
  <2>5. WithoutFiles(c) => \/ UNCHANGED request
                           \/ \E s \in Requests : Create(c, s)
                           \/ EditWrite(c) \/ DropWrite(c) \/ ReviewWrite(c)
    BY DEF WithoutFiles, EditRead, DropRead, ReviewRead, ReviewLost, Announce
  <2> QED BY <1>2, <1>3, <2>1, <2>2, <2>3, <2>4, <2>5
<1>4. ASSUME NEW c \in Calls, NEW F \in SUBSET Files,
             \/ \E s \in Requests : SubmitRead(c, s, F)
             \/ \E f \in F : F = {f} /\ UploadRead(c, f)
      PROVE  FALSE
  BY <1>1, <1>2, <1>4, BringShape
<1>5. ASSUME NEW c \in Calls,
             \/ \E f \in Files : Store(c, f) \/ StoreFails(c, f) \/ Discard(c, f) \/ DiscardFails(c, f)
             \/ RecordLost(c) \/ RecordFails(c)
             \/ Insert(c) \/ InsertFails(c) \/ RemoveObject(c) \/ RemoveRow(c) \/ RemoveRowFails(c)
             \/ \E f \in Files : RemoveRead(c, f)
      PROVE  FALSE
  BY <1>2, <1>5 DEF Store, StoreFails, Discard, DiscardFails, RecordLost, RecordFails, Insert,
                    InsertFails, RemoveObject, RemoveRow, RemoveRowFails, RemoveRead
<1>6. ASSUME NEW c \in Calls, Record(c) \/ RecordUnheard(c) PROVE FALSE
  <2> DEFINE s == call[c].req
  <2>1. s \in Requests
    BY <1>1, <1>6, RecordShape
  <2>2. request' = [request EXCEPT ![s] = Answered(request[s])]
    BY <1>6 DEF Record, RecordUnheard, Recorded
  <2>3. s = r
    BY <1>1, <1>2, <2>1, <2>2
  <2>4. request'[r].late = request[r].late /\ request'[r].status = "SUBMITTED"
    BY <1>1, <2>2, <2>3 DEF Answered, Row
  <2> QED BY <2>4
<1>7. ~ Crash /\ ~ UNCHANGED vars
  BY <1>2 DEF Crash, vars
<1> QED BY <1>3, <1>4, <1>5, <1>6, <1>7, StepCases

(***************************************************************************)
(* A request with files is deleted, or reworded under a client who has     *)
(* answered, only by a call that was overtaken since its load.             *)
(***************************************************************************)
THEOREM TheClientComesFirst == Spec => OnlyOvertakenCallsPassTheClient
<1> DEFINE Step == \A r \in Requests :
             LET dropped == Exists(r) /\ request'[r].status = "GONE"
                 reworded == request'[r].late /\ ~ request[r].late
             IN  ((dropped /\ AnswerOf(r) # {}) \/ reworded) =>
                   \E c \in Calls : call[c].req = r /\ call[c].overtaken /\ call'[c] = Idle
<1>1. ClientInv /\ [Next]_vars => [Step]_vars
  BY PassingStep
<1> QED BY <1>1, ClientInit, ClientStep, PTL DEF Spec, OnlyOvertakenCallsPassTheClient
-----------------------------------------------------------------------------
(***************************************************************************)
(* The refinement of SubmissionPromise.  Ask is Create, Answer the commit  *)
(* of a submission, heard of or not, Decide the write of a review,         *)
(* Withdraw and DropFile the deletion of a row that is still there.        *)
(***************************************************************************)
LEMMA PromiseStutters ==
  ASSUME \A r \in Requests : request'[r].status = request[r].status,
         \A r \in Requests : AnswerOf(r)' = AnswerOf(r),
         UNCHANGED answered
  PROVE  UNCHANGED Promise!vars
BY DEF Promise!vars

LEMMA AnswerGrows ==
  ASSUME NEW r \in Requests, NEW F \in SUBSET Files, F \cap rows = {}, rows \subseteq Files,
         rows' = rows \cup F,
         answers' = [f \in Files |-> IF f \in F THEN r ELSE answers[f]]
  PROVE  \A s \in Requests : AnswerOf(s)' = IF s = r THEN AnswerOf(s) \cup F ELSE AnswerOf(s)
<1> SUFFICES ASSUME NEW s \in Requests, NEW f
             PROVE  f \in AnswerOf(s)' <=> f \in IF s = r THEN AnswerOf(s) \cup F ELSE AnswerOf(s)
  OBVIOUS
<1>1. CASE f \in F
  BY <1>1 DEF AnswerOf
<1>2. CASE f \notin F
  BY <1>2 DEF AnswerOf
<1> QED BY <1>1, <1>2

LEMMA PromiseStep ==
  ASSUME ClientInv, [Next]_vars
  PROVE  [Promise!Next]_(Promise!vars)
<1>1. /\ call \in [Calls -> CallState] /\ request \in [Requests -> Row] /\ TypeInv
      /\ answers \in [Files -> Requests \cup {None}] /\ rows \subseteq Files
      /\ \A c \in Calls : Sensible(call[c])
  BY DEF ClientInv, TypeInv, TypeOK
<1>2. \A f \in Files : answers[f] # None => f \in answered /\ request[answers[f]].status \in Statuses
  BY DEF ClientInv, AnswersInv, AnswersKnown, Exists
<1>3. \A c \in Calls, f \in Files : f \in Own(call[c]) => f \notin answered /\ f \notin rows
  BY DEF ClientInv, FilesInv, OwnFilesNew
<1>4. (\A r \in Requests : request'[r].status = request[r].status) /\ UNCHANGED <<rows, answers, answered>>
        => UNCHANGED Promise!vars
  BY PromiseStutters DEF AnswerOf
<1>5. ASSUME NEW c \in Calls, WithoutFiles(c) PROVE [Promise!Next]_(Promise!vars)
  <2>1. UNCHANGED <<rows, answered>>
    BY <1>1, <1>5, WithoutFilesShape
  <2>2. ASSUME NEW r \in Requests, Create(c, r) PROVE Promise!Next
    <3>1. /\ request[r].status = "ABSENT" /\ UNCHANGED answers
          /\ request' = [request EXCEPT ![r] = [request[r] EXCEPT !.status = "PENDING"]]
      BY <2>2 DEF Create
    <3>2. \A s \in Requests : request'[s].status = IF s = r THEN "PENDING" ELSE request[s].status
      BY <1>1, <3>1 DEF Row
    <3>3. \A s \in Requests : AnswerOf(s)' = AnswerOf(s)
      BY <2>1, <3>1 DEF AnswerOf
    <3>4. Promise!Ask(r)
      BY <2>1, <3>1, <3>2, <3>3 DEF Promise!Ask
    <3> QED BY <3>4 DEF Promise!Next
  <2>3. ASSUME EditWrite(c) PROVE UNCHANGED Promise!vars
    <3> DEFINE r == call[c].req
               late == request[r].late \/ (Exists(r) /\ request[r].status \notin Editable)
    <3>1. /\ request' = [request EXCEPT ![r] = [request[r] EXCEPT !.late = late]]
          /\ UNCHANGED answers
      BY <2>3 DEF EditWrite
    <3>2. r \in Requests
      BY <1>1, <2>3 DEF EditWrite, Sensible
    <3>3. \A s \in Requests : request'[s].status = request[s].status
      BY <1>1, <3>1, <3>2 DEF Row
    <3> QED BY <1>4, <2>1, <3>1, <3>3
  <2>4. ASSUME DropWrite(c) PROVE [Promise!Next]_(Promise!vars)
    <3> DEFINE r == call[c].req
    <3>1. r \in Requests /\ request[r].status # "ABSENT" /\ r # None
      BY <1>1, <2>4, DocumentRequestsAssumption
         DEF DropWrite, Sensible, ClientInv, ReviewInv, AbsentUntouched
    <3>2. /\ request' = [request EXCEPT ![r] = [Blank EXCEPT !.status = "GONE"]]
          /\ answers' = [f \in Files |-> IF answers[f] = r THEN None ELSE answers[f]]
      BY <2>4 DEF DropWrite
    <3>3. \A s \in Requests : request'[s].status = IF s = r THEN "GONE" ELSE request[s].status
      BY <1>1, <3>1, <3>2 DEF Blank
    <3>4. \A s \in Requests : AnswerOf(s)' = IF s = r THEN {} ELSE AnswerOf(s)
      BY <1>1, <2>1, <3>1, <3>2, DocumentRequestsAssumption DEF AnswerOf
    <3>5. CASE Exists(r)
      <4>1. request[r].status \notin {"ABSENT", "GONE"}
        BY <3>5 DEF Exists, Statuses
      <4>2. PICK s \in Requests : s = r
        BY <3>1
      <4>3. Promise!Withdraw(s)
        BY <2>1, <3>3, <3>4, <4>1, <4>2 DEF Promise!Withdraw
      <4> QED BY <4>3 DEF Promise!Next
    <3>6. CASE ~ Exists(r)
      <4>1. request[r].status = "GONE"
        BY <1>1, <3>1, <3>6 DEF Exists, Row
      <4>2. \A f \in Files : answers[f] # r
        BY <1>2, <3>1, <3>6 DEF Exists
      <4>3. AnswerOf(r) = {}
        BY <1>1, <4>2 DEF AnswerOf
      <4>4. /\ \A s \in Requests : request'[s].status = request[s].status
            /\ \A s \in Requests : AnswerOf(s)' = AnswerOf(s)
        BY <3>3, <3>4, <4>1, <4>3
      <4> QED BY <2>1, <4>4, PromiseStutters
    <3> QED BY <3>5, <3>6
  <2>5. ASSUME ReviewWrite(c) PROVE Promise!Next
    <3> DEFINE r == call[c].req
               to == call[c].to
    <3>1. /\ request[r].status = call[c].read /\ UNCHANGED answers
          /\ request' = [request EXCEPT ![r] = Reviewed(request[r], to)]
      BY <2>5 DEF ReviewWrite
    <3>2. /\ r \in Requests /\ call[c].read \in Statuses
          /\ to \in Transitions[request[r].status] \ {"SUBMITTED"}
      BY <1>1, <2>5, <3>1 DEF ReviewWrite, Sensible
    <3>3. \A s \in Requests : request'[s].status = IF s = r THEN to ELSE request[s].status
      BY <1>1, <3>1, <3>2 DEF Row, Reviewed
    <3>4. \A s \in Requests : AnswerOf(s)' = AnswerOf(s)
      BY <2>1, <3>1 DEF AnswerOf
    <3>5. to \in Promise!Transitions[request[r].status] \ {"SUBMITTED"}
      BY <3>2 DEF Transitions, Promise!Transitions
    <3>6. to \in DOMAIN Promise!Transitions
      BY <1>1, <3>1, <3>2 DEF Transitions, Promise!Transitions, Statuses
    <3>7. PICK s \in Requests, t \in DOMAIN Promise!Transitions : s = r /\ t = to
      BY <3>2, <3>6
    <3>8. Promise!Decide(s, t)
      BY <2>1, <3>3, <3>4, <3>5, <3>7 DEF Promise!Decide
    <3> QED BY <3>8 DEF Promise!Next
  <2>6. \/ \E r \in Requests : Create(c, r)
        \/ EditWrite(c) \/ DropWrite(c) \/ ReviewWrite(c)
        \/ UNCHANGED <<request, answers>>
    BY <1>5 DEF WithoutFiles, EditRead, DropRead, ReviewRead, ReviewLost, Announce
  <2> QED BY <1>4, <2>1, <2>2, <2>3, <2>4, <2>5, <2>6
<1>6. ASSUME NEW c \in Calls, NEW F \in SUBSET Files,
             \/ \E r \in Requests : SubmitRead(c, r, F)
             \/ \E f \in F : F = {f} /\ UploadRead(c, f)
      PROVE  UNCHANGED Promise!vars
  <2>1. UNCHANGED <<request, rows, answers, objects, answered, leftover, told>>
    BY <1>1, <1>6, BringShape
  <2> QED BY <1>4, <2>1
<1>7. ASSUME NEW c \in Calls,
             \/ \E f \in Files : Store(c, f) \/ StoreFails(c, f) \/ Discard(c, f) \/ DiscardFails(c, f)
             \/ RecordLost(c) \/ RecordFails(c)
             \/ RemoveObject(c) \/ RemoveRowFails(c)
             \/ \E f \in Files : RemoveRead(c, f)
      PROVE  UNCHANGED Promise!vars
  <2>1. UNCHANGED <<request, rows, answers, answered>>
    BY <1>7 DEF Store, StoreFails, Discard, DiscardFails, RecordLost, RecordFails, RemoveObject,
                RemoveRowFails, RemoveRead
  <2> QED BY <1>4, <2>1
<1>8. ASSUME NEW c \in Calls, Record(c) \/ RecordUnheard(c) PROVE Promise!Next
  <2> DEFINE r == call[c].req
             F == call[c].stored
  <2>1. /\ r \in Requests /\ F # {} /\ call[c].pc = "recording" /\ ~ call[c].unheard
        /\ request[r].status \in Editable
    BY <1>1, <1>8, RecordShape
  <2>2. /\ request' = [request EXCEPT ![r] = Answered(request[r])]
        /\ rows' = rows \cup F /\ answered' = answered \cup F
        /\ answers' = [f \in Files |-> IF f \in F THEN r ELSE answers[f]]
    BY <1>8 DEF Record, RecordUnheard, Recorded
  <2>3. F \in SUBSET Files /\ F \subseteq Own(call[c])
    BY <1>1, <2>1 DEF Own, FilesOf, CallState
  <2>4. F \cap rows = {} /\ F \cap answered = {}
    BY <1>3, <2>3
  <2>5. \A s \in Requests : request'[s].status = IF s = r THEN "SUBMITTED" ELSE request[s].status
    BY <1>1, <2>1, <2>2 DEF Row, Answered
  <2>6. \A s \in Requests : AnswerOf(s)' = IF s = r THEN AnswerOf(s) \cup F ELSE AnswerOf(s)
    BY <1>1, <2>1, <2>2, <2>3, <2>4, AnswerGrows
  <2>7. "SUBMITTED" \in Promise!Transitions[request[r].status]
    BY <2>1 DEF Editable, Promise!Transitions
  <2>8. PICK s \in Requests, G \in SUBSET Files : s = r /\ G = F
    BY <2>1, <2>3
  <2> HIDE DEF r, F
  <2>9. Promise!Answer(s, G)
    BY <2>1, <2>2, <2>4, <2>5, <2>6, <2>7, <2>8 DEF Promise!Answer
  <2> QED BY <2>9 DEF Promise!Next
<1>9. ASSUME NEW c \in Calls, Insert(c) \/ InsertFails(c) PROVE UNCHANGED Promise!vars
  <2>1. /\ call[c].pc = "inserting" /\ UNCHANGED <<request, answers, answered>>
        /\ rows' \in {rows, rows \cup call[c].stored}
    BY <1>9 DEF Insert, InsertFails
  <2>2. ~ call[c].unheard
    BY <1>1, <2>1 DEF Sensible
  <2>3. call[c].stored \subseteq Own(call[c]) /\ call[c].stored \subseteq Files
    BY <1>1, <2>1, <2>2 DEF Own, FilesOf, CallState
  <2>4. \A f \in call[c].stored : answers[f] = None
    BY <1>2, <1>3, <2>3
  <2>5. \A s \in Requests : AnswerOf(s)' = AnswerOf(s)
    BY <2>1, <2>4, DocumentRequestsAssumption DEF AnswerOf
  <2> QED BY <2>1, <2>5, PromiseStutters
<1>10. ASSUME NEW c \in Calls, RemoveRow(c) PROVE [Promise!Next]_(Promise!vars)
  <2>1. /\ rows' = rows \ call[c].stored /\ UNCHANGED <<request, answered>>
        /\ answers' = [f \in Files |-> IF f \in call[c].stored THEN None ELSE answers[f]]
        /\ call[c].pc = "deleting"
    BY <1>10 DEF RemoveRow
  <2>2. PICK f \in Files : call[c].stored = {f}
    BY <1>1, <2>1 DEF Sensible
  <2>3. \A s \in Requests : AnswerOf(s)' = AnswerOf(s) \ {f}
    BY <1>1, <2>1, <2>2 DEF AnswerOf
  <2>4. CASE \E r \in Requests : f \in AnswerOf(r)
    <3>1. PICK r \in Requests : f \in AnswerOf(r)
      BY <2>4
    <3>2. \A s \in Requests : AnswerOf(s)' = IF s = r THEN AnswerOf(s) \ {f} ELSE AnswerOf(s)
      BY <2>3, <3>1 DEF AnswerOf
    <3>3. Promise!DropFile(r, f)
      BY <2>1, <3>1, <3>2 DEF Promise!DropFile
    <3> QED BY <3>3 DEF Promise!Next
  <2>5. CASE \A r \in Requests : f \notin AnswerOf(r)
    <3>1. \A s \in Requests : AnswerOf(s)' = AnswerOf(s)
      BY <2>3, <2>5
    <3> QED BY <2>1, <3>1, PromiseStutters
  <2> QED BY <2>4, <2>5
<1>11. Crash \/ UNCHANGED vars => UNCHANGED Promise!vars
  BY <1>4 DEF Crash, vars
<1> QED BY <1>5, <1>6, <1>7, <1>8, <1>9, <1>10, <1>11, StepCases

(***************************************************************************)
(* Whatever fails or races, requests move as the table says and an answer  *)
(* becomes visible whole, with its status, of files that are all new.      *)
(***************************************************************************)
THEOREM PromiseKept == Spec => KeepsThePromise
<1>1. Init => Promise!Init
  BY DEF Init, Promise!Init, Blank, AnswerOf
<1>2. ClientInv /\ [Next]_vars => [Promise!Next]_(Promise!vars)
  BY PromiseStep
<1> QED BY <1>1, <1>2, ClientInit, ClientStep, PTL DEF Spec, KeepsThePromise, Promise!Spec
=============================================================================
