--------------------------- MODULE IntakePromise ---------------------------
(***************************************************************************)
(* What the intake of service requests promises, without calls, retries or *)
(* numbers in dispute: a request moves along                               *)
(*   NEW -> ACCEPTED -> CONVERTED,  NEW or ACCEPTED -> REJECTED            *)
(* in indivisible steps, a case is opened for it exactly in the step that  *)
(* converts it, and nothing ever touches a REJECTED or CONVERTED request   *)
(* or the case opened for it.                                              *)
(***************************************************************************)
CONSTANT Requests

VARIABLES
  status,    \* where each request stands; ABSENT before it is submitted
  casesOf    \* the cases opened from each request

Statuses == {"ABSENT", "NEW", "ACCEPTED", "REJECTED", "CONVERTED"}

vars == <<status, casesOf>>

Init ==
  /\ status = [r \in Requests |-> "ABSENT"]
  /\ casesOf = [r \in Requests |-> {}]

Move(r, from, to) ==
  /\ status[r] \in from
  /\ status' = [status EXCEPT ![r] = to]

Submit(r) == Move(r, {"ABSENT"}, "NEW") /\ UNCHANGED casesOf

Accept(r) == Move(r, {"NEW"}, "ACCEPTED") /\ UNCHANGED casesOf

Reject(r) == Move(r, {"NEW", "ACCEPTED"}, "REJECTED") /\ UNCHANGED casesOf

\* The case is a new one: no other request has it.
Convert(r) ==
  /\ Move(r, {"ACCEPTED"}, "CONVERTED")
  /\ \E n \in casesOf'[r] :
       /\ \A q \in Requests : n \notin casesOf[q]
       /\ casesOf' = [casesOf EXCEPT ![r] = {n}]

Next == \E r \in Requests : Submit(r) \/ Accept(r) \/ Reject(r) \/ Convert(r)

Spec == Init /\ [][Next]_vars
=============================================================================
