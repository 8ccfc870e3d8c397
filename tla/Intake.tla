------------------------------- MODULE Intake -------------------------------
(***************************************************************************)
(* Intake: service requests (service-requests.service.ts) and the opening  *)
(* of cases (ServiceRequestsService.openCase, CasesService.create), with   *)
(* the case numbers both of them draw from one sequence.                   *)
(*                                                                         *)
(* One action per database round trip of a handler: between two awaits any *)
(* other handler may run.  An interactive transaction is one action, since *)
(* it holds the row locks its guards were evaluated under until it         *)
(* commits.  A refused request (4xx) changes nothing, so a check that      *)
(* refuses the first step of a call is a guard here.                       *)
(***************************************************************************)
EXTENDS Numbering, FiniteSets

CONSTANTS
  Requests,   \* service request rows, submitted or not
  Clients,    \* users with role CLIENT
  Lawyers,    \* users who lead cases: lawyers, and admins who open one for themselves
  Requester,  \* the client who submits each request
  Calls,      \* HTTP requests the server may be working on at a time
  MaxNumberAttempts,
  None

ASSUME IntakeAssumption ==
  /\ Requester \in [Requests -> Clients]
  /\ MaxNumberAttempts \in Nat \ {0}
  /\ None \notin Requests \cup Clients \cup Lawyers

VARIABLES
  status,   \* ServiceRequest.status; ABSENT before the row exists
  link,     \* ServiceRequest.assignedCaseId, as the number of that case; 0 is null
  cases,    \* Case rows: the number (unique) and the request they came from
  active,   \* User.isActive
  call,     \* where each call stands, with its local variables
  outbox,   \* events emitted whose listener has not run yet
  notices   \* notifications created, per request and kind

vars == <<status, link, cases, active, call, outbox, notices>>

Users == Clients \cup Lawyers
Statuses == {"ABSENT", "NEW", "ACCEPTED", "REJECTED", "CONVERTED"}
Kinds == {"created", "accepted", "rejected", "assigned"}

\* The team a case starts with is the subject of CaseTeam.
Case == [number : Nat \ {0}, from : Requests \cup {None}]

UsedNumbers == {c.number : c \in cases}

CallState ==
  [pc : {"idle", "vetting", "numbering", "inserting", "emitting"},
   req : Requests \cup {None},         \* None: a case opened directly by staff
   team : SUBSET Lawyers,              \* lead and members, until they are checked
   number : Nat,                       \* caseNumber, once read
   attempt : 0 .. MaxNumberAttempts,
   kind : Kinds \cup {None}]           \* the event still to be emitted

Idle == [pc |-> "idle", req |-> None, team |-> {}, number |-> 0,
         attempt |-> 0, kind |-> None]

Emitting(r, k) == [Idle EXCEPT !.pc = "emitting", !.req = r, !.kind = k]

Vetting(r, team) == [Idle EXCEPT !.pc = "vetting", !.req = r, !.team = team]

Numbered(r) == [Idle EXCEPT !.pc = "numbering", !.req = r, !.attempt = 1]

Retry(s) == [s EXCEPT !.pc = "numbering", !.attempt = @ + 1]

TypeOK ==
  /\ status \in [Requests -> Statuses]
  /\ link \in [Requests -> Nat]
  /\ cases \subseteq Case
  /\ active \in [Users -> BOOLEAN]
  /\ call \in [Calls -> CallState]
  /\ outbox \in [Requests \X Kinds -> Nat]
  /\ notices \in [Requests \X Kinds -> Nat]

Init ==
  /\ status = [r \in Requests |-> "ABSENT"]
  /\ link = [r \in Requests |-> 0]
  /\ cases = {}
  /\ active = [u \in Users |-> TRUE]
  /\ call = [c \in Calls |-> Idle]
  /\ outbox = [m \in Requests \X Kinds |-> 0]
  /\ notices = [m \in Requests \X Kinds |-> 0]
-----------------------------------------------------------------------------
(***************************************************************************)
(* Requests: create, accept, reject.  accept and reject are one guarded    *)
(* updateMany (claim); the event is emitted after another await (findOne). *)
(***************************************************************************)
Claim(c, r, from, to, k) ==
  /\ call[c] = Idle
  /\ status[r] \in from
  /\ status' = [status EXCEPT ![r] = to]
  /\ call' = [call EXCEPT ![c] = Emitting(r, k)]
  /\ UNCHANGED <<link, cases, active, outbox, notices>>

Create(c, r) ==
  /\ active[Requester[r]]
  /\ Claim(c, r, {"ABSENT"}, "NEW", "created")

\* Fault: the status check was left out of the update.
AcceptUnguarded(c, r) ==
  Claim(c, r, {"NEW", "ACCEPTED", "REJECTED"}, "ACCEPTED", "accepted")

Accept(c, r) == Claim(c, r, {"NEW"}, "ACCEPTED", "accepted")

\* Fault: a request whose case is already open can still be rejected.
RejectConverted(c, r) ==
  Claim(c, r, {"NEW", "ACCEPTED", "CONVERTED"}, "REJECTED", "rejected")

Reject(c, r) == Claim(c, r, {"NEW", "ACCEPTED"}, "REJECTED", "rejected")

(***************************************************************************)
(* assign: read the request and its requester, check the lawyers, then     *)
(* openCase.  The team is a lead and other members (assignmentTeam).       *)
(***************************************************************************)
Assign(c, r, team) ==
  /\ call[c] = Idle
  /\ status[r] = "ACCEPTED"
  /\ active[Requester[r]]
  /\ call' = [call EXCEPT ![c] = Vetting(r, team)]
  /\ UNCHANGED <<status, link, cases, active, outbox, notices>>

\* CasesService.create by an admin: the client is checked first, the lawyer next.
OpenForClient(c, client, lead) ==
  /\ call[c] = Idle
  /\ active[client]
  /\ call' = [call EXCEPT ![c] = Vetting(None, {lead})]
  /\ UNCHANGED <<status, link, cases, active, outbox, notices>>

\* CasesService.create by a lawyer or an admin for themselves: no second check.
OpenOwn(c, client, lead) ==
  /\ call[c] = Idle
  /\ active[client] /\ active[lead]
  /\ call' = [call EXCEPT ![c] = Numbered(None)]
  /\ UNCHANGED <<status, link, cases, active, outbox, notices>>

\* assertActiveLawyers / assertUserWithRole: 400 unless all of them are active.
\* A role that was changed meanwhile refuses the call in the same way; the roles
\* of those who lead are the subject of CaseTeam.
Vet(c) ==
  /\ call[c].pc = "vetting"
  /\ call' = [call EXCEPT ![c] =
                IF \A u \in call[c].team : active[u] THEN Numbered(call[c].req)
                ELSE Idle]
  /\ UNCHANGED <<status, link, cases, active, outbox, notices>>

\* Fault: each retry skips one number more than the last.
ReadNumberSkipping(c) ==
  /\ call[c].pc = "numbering"
  /\ call' = [call EXCEPT ![c].pc = "inserting",
                          ![c].number = NextNumber(UsedNumbers) + call[c].attempt - 1]
  /\ UNCHANGED <<status, link, cases, active, outbox, notices>>

ReadNumber(c) ==
  /\ call[c].pc = "numbering"
  /\ call' = [call EXCEPT ![c].pc = "inserting", ![c].number = NextNumber(UsedNumbers)]
  /\ UNCHANGED <<status, link, cases, active, outbox, notices>>

NewCase(s) == [number |-> s.number, from |-> s.req]

StillWanted(c) == call[c].req # None => status[call[c].req] = "ACCEPTED"

\* Fault: the transaction converts the request without looking at its status.
InsertUnguarded(c) ==
  LET s == call[c]
  IN  /\ s.pc = "inserting"
      /\ s.number \notin UsedNumbers
      /\ cases' = cases \cup {NewCase(s)}
      /\ status' = [r \in Requests |-> IF r = s.req THEN "CONVERTED" ELSE status[r]]
      /\ link' = [r \in Requests |-> IF r = s.req THEN s.number ELSE link[r]]
      /\ call' = [call EXCEPT ![c] = IF s.req = None THEN Idle ELSE Emitting(s.req, "assigned")]
      /\ UNCHANGED <<active, outbox, notices>>

(***************************************************************************)
(* The transaction of openCase: claim ACCEPTED -> CONVERTED, create the    *)
(* case with its team, link it.  CasesService.create is the same insert    *)
(* without a request.                                                      *)
(***************************************************************************)
Insert(c) ==
  LET s == call[c]
  IN  /\ s.pc = "inserting"
      /\ StillWanted(c)
      /\ s.number \notin UsedNumbers
      /\ cases' = cases \cup {NewCase(s)}
      /\ status' = [r \in Requests |-> IF r = s.req THEN "CONVERTED" ELSE status[r]]
      /\ link' = [r \in Requests |-> IF r = s.req THEN s.number ELSE link[r]]
      /\ call' = [call EXCEPT ![c] = IF s.req = None THEN Idle ELSE Emitting(s.req, "assigned")]
      /\ UNCHANGED <<active, outbox, notices>>

\* updateMany matched no ACCEPTED row: 400, nothing is written.
InsertRefused(c) ==
  /\ call[c].pc = "inserting"
  /\ ~ StillWanted(c)
  /\ call' = [call EXCEPT ![c] = Idle]
  /\ UNCHANGED <<status, link, cases, active, outbox, notices>>

\* Fault: the attempt counter is checked one retry too late.
InsertClashOnceMore(c) ==
  /\ call[c].pc = "inserting"
  /\ StillWanted(c)
  /\ call[c].number \in UsedNumbers
  /\ call' = [call EXCEPT ![c] =
                IF call[c].attempt <= MaxNumberAttempts
                THEN Retry(call[c])
                ELSE Idle]
  /\ UNCHANGED <<status, link, cases, active, outbox, notices>>

\* Fault: the loop retries for as long as the number is taken.
InsertClashForever(c) ==
  /\ call[c].pc = "inserting"
  /\ StillWanted(c)
  /\ call[c].number \in UsedNumbers
  /\ call' = [call EXCEPT ![c].pc = "numbering"]
  /\ UNCHANGED <<status, link, cases, active, outbox, notices>>

\* Unique violation on the number: everything rolls back; retry or give up.
InsertClash(c) ==
  /\ call[c].pc = "inserting"
  /\ StillWanted(c)
  /\ call[c].number \in UsedNumbers
  /\ call' = [call EXCEPT ![c] =
                IF call[c].attempt < MaxNumberAttempts
                THEN Retry(call[c])
                ELSE Idle]
  /\ UNCHANGED <<status, link, cases, active, outbox, notices>>
-----------------------------------------------------------------------------
(***************************************************************************)
(* Events.  emit does not wait for the listener; the listener swallows a   *)
(* failed insert.  A crash loses the calls in flight and the events whose  *)
(* listener has not finished.                                              *)
(***************************************************************************)
Emit(c) ==
  LET m == <<call[c].req, call[c].kind>>
  IN  /\ call[c].pc = "emitting"
      /\ outbox' = [outbox EXCEPT ![m] = @ + 1]
      /\ call' = [call EXCEPT ![c] = Idle]
      /\ UNCHANGED <<status, link, cases, active, notices>>

Notify(m) ==
  /\ outbox[m] > 0
  /\ outbox' = [outbox EXCEPT ![m] = @ - 1]
  /\ \/ notices' = [notices EXCEPT ![m] = @ + 1]
     \/ UNCHANGED notices
  /\ UNCHANGED <<status, link, cases, active, call>>

Crash ==
  /\ call' = [c \in Calls |-> Idle]
  /\ outbox' = [m \in Requests \X Kinds |-> 0]
  /\ UNCHANGED <<status, link, cases, active, notices>>

\* UsersService.update / deactivate, seen from here.
SetActive(u) ==
  /\ active' = [active EXCEPT ![u] = ~ @]
  /\ UNCHANGED <<status, link, cases, call, outbox, notices>>

Advance(c) ==
  \/ Vet(c) \/ ReadNumber(c)
  \/ Insert(c) \/ InsertRefused(c) \/ InsertClash(c)
  \/ Emit(c)

Next ==
  \/ \E c \in Calls, r \in Requests :
       \/ Create(c, r) \/ Accept(c, r) \/ Reject(c, r)
       \/ \E team \in SUBSET Lawyers \ {{}} : Assign(c, r, team)
  \/ \E c \in Calls, client \in Clients, lead \in Lawyers :
       OpenForClient(c, client, lead) \/ OpenOwn(c, client, lead)
  \/ \E c \in Calls : Advance(c)
  \/ \E m \in Requests \X Kinds : Notify(m)
  \/ Crash
  \/ \E u \in Users : SetActive(u)

\* Node resumes every handler whose query was answered.
Fairness == \A c \in Calls : WF_vars(Advance(c))

Spec == Init /\ [][Next]_vars

FairSpec == Spec /\ Fairness
-----------------------------------------------------------------------------
(***************************************************************************)
(* A request is CONVERTED exactly when one case was opened from it, and    *)
(* that case is the one it links to.  Concurrent assigns, rejections and   *)
(* the retry loop of openCase must never open a second case or leave a     *)
(* case behind for a request that is not converted.                        *)
(***************************************************************************)
OneCasePerRequest ==
  \A r \in Requests :
    /\ status[r] # "CONVERTED" =>
         link[r] = 0 /\ \A c \in cases : c.from # r
    /\ status[r] = "CONVERTED" =>
         \E c \in cases : /\ c.from = r
                          /\ c.number = link[r]
                          /\ \A d \in cases : d.from = r => d = c

(***************************************************************************)
(* Case numbers are handed out without gaps: no interleaving of reads,     *)
(* rollbacks and retries skips a number.                                   *)
(***************************************************************************)
NumbersHaveNoGaps ==
  \A n \in UsedNumbers : \A m \in 1 .. n : m \in UsedNumbers

Told(r, k) == status[r] \in
  CASE k = "created"  -> Statuses \ {"ABSENT"}
    [] k = "accepted" -> {"ACCEPTED", "REJECTED", "CONVERTED"}
    [] k = "rejected" -> {"REJECTED"}
    [] k = "assigned" -> {"CONVERTED"}

Speaks(c, r, k) == call[c].pc = "emitting" /\ call[c].req = r /\ call[c].kind = k

(***************************************************************************)
(* Each decision about a request is announced at most once, and only a     *)
(* decision that was really taken: whether it sits in a call about to      *)
(* emit, in an event on its way to the listener or in a notification, an   *)
(* announcement exists in one place only, and nobody reads of a rejection  *)
(* of a request that has a case.                                           *)
(***************************************************************************)
NoticesMatchDecisions ==
  \A r \in Requests, k \in Kinds :
    /\ notices[<<r, k>>] + outbox[<<r, k>>] <= 1
    /\ \A c \in Calls : Speaks(c, r, k) =>
         /\ notices[<<r, k>>] + outbox[<<r, k>>] = 0
         /\ \A d \in Calls : Speaks(d, r, k) => d = c
    /\ (notices[<<r, k>>] + outbox[<<r, k>>] > 0 \/ \E c \in Calls : Speaks(c, r, k))
         => Told(r, k)

(***************************************************************************)
(* Every call comes to an end, also when the numbers it is offered are     *)
(* taken over and over again (the retry loop is bounded).                  *)
(***************************************************************************)
CallsFinish == \A c \in Calls : call[c].pc # "idle" ~> call[c].pc = "idle"

(***************************************************************************)
(* The number offered to the next case is a free one, whatever was opened  *)
(* before: "lastNumber is the highest existing number for the same prefix" *)
(* (case-number.ts:18).                                                    *)
(***************************************************************************)
NextNumberIsFree == NextNumber(UsedNumbers) \notin UsedNumbers

(***************************************************************************)
(* The intake implements its promise: seen through the rows alone, each    *)
(* handler is one indivisible move of IntakePromise or changes nothing.    *)
(***************************************************************************)
Promise == INSTANCE IntakePromise WITH
  casesOf <- [r \in Requests |-> {c.number : c \in {d \in cases : d.from = r}}]

KeepsThePromise == Promise!Spec
=============================================================================
