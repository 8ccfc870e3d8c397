-------------------------- MODULE SubmissionPromise --------------------------
(***************************************************************************)
(* What document requests promise, without calls, stored objects or        *)
(* failures: a request moves as DOCUMENT_REQUEST_STATUS_TRANSITIONS says,  *)
(* the files of an answer appear all at once, in the step that makes the   *)
(* request SUBMITTED, and none of them has answered a request before.      *)
(***************************************************************************)
CONSTANTS Requests, Files

VARIABLES status, answer, seen   \* seen: files that have been part of an answer

vars == <<status, answer, seen>>

Init ==
  /\ status = [r \in Requests |-> "ABSENT"]
  /\ answer = [r \in Requests |-> {}]
  /\ seen = {}

Transitions ==
  [PENDING |-> {"SUBMITTED"},
   SUBMITTED |-> {"UNDER_REVIEW", "APPROVED", "REJECTED"},
   UNDER_REVIEW |-> {"APPROVED", "REJECTED"},
   REJECTED |-> {"SUBMITTED"},
   APPROVED |-> {},
   ABSENT |-> {},
   GONE |-> {}]

Ask(r) ==
  /\ status[r] = "ABSENT"
  /\ status' = [status EXCEPT ![r] = "PENDING"]
  /\ UNCHANGED <<answer, seen>>

Answer(r, F) ==
  /\ "SUBMITTED" \in Transitions[status[r]]
  /\ F # {} /\ F \cap seen = {}
  /\ status' = [status EXCEPT ![r] = "SUBMITTED"]
  /\ answer' = [answer EXCEPT ![r] = answer[r] \cup F]
  /\ seen' = seen \cup F

Decide(r, to) ==
  /\ to \in Transitions[status[r]] \ {"SUBMITTED"}
  /\ status' = [status EXCEPT ![r] = to]
  /\ UNCHANGED <<answer, seen>>

\* The request is deleted; files it may have stay with the case.
Withdraw(r) ==
  /\ status[r] \notin {"ABSENT", "GONE"}
  /\ status' = [status EXCEPT ![r] = "GONE"]
  /\ answer' = [answer EXCEPT ![r] = {}]
  /\ UNCHANGED seen

DropFile(r, f) ==
  /\ f \in answer[r]
  /\ answer' = [answer EXCEPT ![r] = answer[r] \ {f}]
  /\ UNCHANGED <<status, seen>>

Next ==
  \E r \in Requests :
    \/ Ask(r) \/ Withdraw(r)
    \/ \E F \in SUBSET Files : Answer(r, F)
    \/ \E to \in DOMAIN Transitions : Decide(r, to)
    \/ \E f \in Files : DropFile(r, f)

Spec == Init /\ [][Next]_vars
=============================================================================
