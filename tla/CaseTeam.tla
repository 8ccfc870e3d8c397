------------------------------ MODULE CaseTeam ------------------------------
(***************************************************************************)
(* The team and the core data of one case: CaseMembersService.add,         *)
(* updateRole and remove, CasesService.update and close; and               *)
(* UsersService.update, which changes the role of a user whom these        *)
(* handlers check or have checked.                                         *)
(*                                                                         *)
(* Each handler loads what it checks, awaits, and writes in a transaction  *)
(* of its own.  The database runs at READ COMMITTED: the update that       *)
(* demotes "the current LEAD" selects its rows when it starts, may wait    *)
(* for a lock, and then changes those of them that are still LEAD; rows    *)
(* that became LEAD meanwhile are not in its selection.  So a hand-over is *)
(* two steps, Scan and the commit of all its writes; the other writes      *)
(* address rows by key and are one step.  The role of the user a call      *)
(* names is checked before its transaction, never in it; all that is read  *)
(* before the transaction is read in one step.  Who may call a             *)
(* handler, and whether the staff named in it are active, only refuses     *)
(* calls and is not modelled.                                              *)
(***************************************************************************)
CONSTANTS
  Staff,         \* users who are, or were once, lawyers or admins
  OpenStatuses,  \* NEW, IN_PROGRESS, WAITING
  Calls,         \* HTTP requests the server may be working on at a time
  None

ASSUME CaseTeamAssumption ==
  /\ "CLOSED" \notin OpenStatuses
  /\ None \notin Staff \cup OpenStatuses \cup {"CLOSED"}

Statuses == OpenStatuses \cup {"CLOSED"}

VARIABLES
  role,     \* User.role, which an admin may change at any time
  team,     \* CaseMember.role of each user; NONE without a row
  case,     \* the Case row
  event,    \* the latest STATUS_CHANGE on the timeline
  call      \* where each call stands, with what it loaded

vars == <<role, team, case, event, call>>

Roles == {"LAWYER", "ADMIN", "CLIENT"}

CaseRow == [lawyer : Staff, status : Statuses, closedAt : BOOLEAN]

\* The new case's status has no event: it starts with from = to.
StatusChange == [from : Statuses, to : Statuses]

CallState ==
  [pc : {"idle", "joining", "demoting", "handing", "removing", "editing"},
   user : Staff \cup {None},              \* whom the call is about; the lawyerId an edit sends
   create : BOOLEAN,                      \* the hand-over adds its new lead to the team
   leads : SUBSET Staff,                  \* the LEAD rows its demotion selected
   lawyer : Staff \cup {None},            \* the loaded lawyerId, if an edit replaces it
   from : Statuses \cup {None},           \* the loaded status, if an edit changes it
   to : Statuses \cup {None},             \* what it changes the status to
   overtaken : BOOLEAN,                   \* another call committed since it loaded
   recast : BOOLEAN]                      \* the lawyer it appoints has had another role since

TypeOK ==
  /\ role \in [Staff -> Roles]
  /\ team \in [Staff -> {"NONE", "MEMBER", "LEAD"}]
  /\ case \in CaseRow
  /\ event \in StatusChange
  /\ call \in [Calls -> CallState]

Idle == [pc |-> "idle", user |-> None, create |-> FALSE, leads |-> {},
         lawyer |-> None, from |-> None, to |-> None, overtaken |-> FALSE,
         recast |-> FALSE]

\* A new case.  It is opened as NEW, which the handlers do not tell from the
\* other open statuses: any of them may stand for it.  Its lead was checked
\* to be a lawyer - but an admin who names himself is not checked, and leads
\* it as an admin.
Init ==
  /\ role \in [Staff -> Roles]
  /\ \E lead \in Staff, first \in OpenStatuses :
       /\ role[lead] \in {"LAWYER", "ADMIN"}
       /\ team = [u \in Staff |-> IF u = lead THEN "LEAD" ELSE "NONE"]
       /\ case = [lawyer |-> lead, status |-> first, closedAt |-> FALSE]
       /\ event = [from |-> first, to |-> first]
  /\ call = [c \in Calls |-> Idle]

Leads == {u \in Staff : team[u] = "LEAD"}

Start(c, s) ==
  /\ call[c] = Idle
  /\ call' = [call EXCEPT ![c] = s]
  /\ UNCHANGED <<role, team, case, event>>

\* c commits: every other call in flight has been overtaken.
Commit(c) ==
  call' = [d \in Calls |-> IF d = c \/ call[d] = Idle THEN Idle
                           ELSE [call[d] EXCEPT !.overtaken = TRUE]]

\* c fails on a constraint or a missing row: its transaction rolls back.
Fail(c) ==
  /\ call' = [call EXCEPT ![c] = Idle]
  /\ UNCHANGED <<role, team, case, event>>
-----------------------------------------------------------------------------
\* The call makes its user the lead, whom it has found to be a lawyer.
Appoints(s) == s.pc \in {"demoting", "handing"} \/ s.lawyer # None

(***************************************************************************)
(* UsersService.update: the account gets another role, and nothing looks   *)
(* at the cases it leads or works on.  The calls in flight that have       *)
(* checked the old role go on.                                             *)
(***************************************************************************)
ChangeRole(u, r) ==
  /\ r # role[u]
  /\ role' = [role EXCEPT ![u] = r]
  /\ call' = [c \in Calls |->
                [call[c] EXCEPT !.recast = @ \/ (Appoints(call[c]) /\ call[c].user = u)]]
  /\ UNCHANGED <<team, case, event>>
-----------------------------------------------------------------------------
(***************************************************************************)
(* CaseMembersService.add, updateRole, remove.                             *)
(***************************************************************************)
\* assertStaffUser: a member is of the staff, a lead a lawyer.
AddMember(c, u) ==
  /\ role[u] \in {"LAWYER", "ADMIN"}
  /\ team[u] = "NONE"
  /\ Start(c, [Idle EXCEPT !.pc = "joining", !.user = u])

Join(c) ==
  /\ call[c].pc = "joining"
  /\ IF team[call[c].user] = "NONE"
     THEN /\ team' = [team EXCEPT ![call[c].user] = "MEMBER"]
          /\ Commit(c)
          /\ UNCHANGED <<role, case, event>>
     ELSE Fail(c)

\* Fault: anybody on the staff may be appointed, as for a plain member.
AddLeadAnyone(c, u) ==
  /\ role[u] \in {"LAWYER", "ADMIN"}
  /\ team[u] = "NONE"
  /\ Start(c, [Idle EXCEPT !.pc = "demoting", !.user = u, !.create = TRUE])

AddLead(c, u) ==
  /\ role[u] = "LAWYER"
  /\ team[u] = "NONE"
  /\ Start(c, [Idle EXCEPT !.pc = "demoting", !.user = u, !.create = TRUE])

Promote(c, u) ==
  /\ role[u] = "LAWYER"
  /\ team[u] = "MEMBER"
  /\ Start(c, [Idle EXCEPT !.pc = "demoting", !.user = u])

\* demoteCurrentLead starts: it selects the rows that are LEAD now.
Scan(c) ==
  /\ call[c].pc = "demoting"
  /\ call' = [call EXCEPT ![c].pc = "handing", ![c].leads = Leads]
  /\ UNCHANGED <<role, team, case, event>>

\* create needs that the row is not there, update that it is.
TargetFits(s) == s.create <=> team[s.user] = "NONE"

\* Fault: the previous lead is not demoted.
HandOverOnly(c) ==
  LET s == call[c]
  IN  /\ s.pc = "handing"
      /\ IF TargetFits(s)
         THEN /\ team' = [team EXCEPT ![s.user] = "LEAD"]
              /\ case' = [case EXCEPT !.lawyer = s.user]
              /\ Commit(c)
              /\ UNCHANGED <<role, event>>
         ELSE Fail(c)

HandOver(c) ==
  LET s == call[c]
  IN  /\ s.pc = "handing"
      /\ IF TargetFits(s)
         THEN /\ team' = [u \in Staff |->
                           IF u = s.user THEN "LEAD"
                           ELSE IF u \in s.leads \cap Leads THEN "MEMBER"
                           ELSE team[u]]
              /\ case' = [case EXCEPT !.lawyer = s.user]
              /\ Commit(c)
              /\ UNCHANGED <<role, event>>
         ELSE Fail(c)

\* The LEAD cannot be removed - as far as the call has seen.
RemoveMember(c, u) ==
  /\ team[u] = "MEMBER"
  /\ Start(c, [Idle EXCEPT !.pc = "removing", !.user = u])

Remove(c) ==
  /\ call[c].pc = "removing"
  /\ IF team[call[c].user] # "NONE"
     THEN /\ team' = [team EXCEPT ![call[c].user] = "NONE"]
          /\ Commit(c)
          /\ UNCHANGED <<role, case, event>>
     ELSE Fail(c)
-----------------------------------------------------------------------------
(***************************************************************************)
(* CasesService.update and close.  An edit names a lawyer, a status, both  *)
(* or neither; the form may send the loaded lawyer back unchanged, and is  *)
(* then not asked whether that is a lawyer.  close writes as an edit to    *)
(* CLOSED does.                                                            *)
(***************************************************************************)
\* What is loaded decides whether the lead (newLeadId) and the status
\* (statusChanged) are written at all.
LoadEdit(c, lead, to) ==
  LET newLead == lead \notin {None, case.lawyer}
      changed == to \notin {None, case.status}
  IN  Start(c, [Idle EXCEPT !.pc = "editing",
                            !.user = lead, !.lawyer = IF newLead THEN case.lawyer ELSE None,
                            !.from = IF changed THEN case.status ELSE None,
                            !.to = IF changed THEN to ELSE None])

Edit(c, lead, to) ==
  /\ lead \in Staff \ {case.lawyer} => role[lead] = "LAWYER"
  /\ LoadEdit(c, lead, to)

Close(c) == case.status # "CLOSED" /\ LoadEdit(c, None, "CLOSED")

\* Fault: the closing date is set by close, not by an edit of the status.
EditedUndated(s) ==
  [lawyer |-> IF s.user = None THEN case.lawyer ELSE s.user,
   status |-> IF s.to = None THEN case.status ELSE s.to,
   closedAt |-> s.from # "CLOSED" /\ case.closedAt]

\* Fault: an edit without a lawyer clears the field.
EditedCleared(s) ==
  [lawyer |-> s.user,
   status |-> IF s.to = None THEN case.status ELSE s.to,
   closedAt |-> s.to = "CLOSED" \/ (s.from # "CLOSED" /\ case.closedAt)]

\* The row after the edit s.
Edited(s) ==
  [lawyer |-> IF s.user = None THEN case.lawyer ELSE s.user,
   status |-> IF s.to = None THEN case.status ELSE s.to,
   closedAt |-> s.to = "CLOSED" \/ (s.from # "CLOSED" /\ case.closedAt)]

\* One transaction: the old lead's row goes, the new one's becomes LEAD.
Save(c) ==
  LET s == call[c]
  IN  /\ s.pc = "editing"
      /\ case' = Edited(s)
      /\ event' = IF s.to = None THEN event ELSE [from |-> s.from, to |-> s.to]
      /\ team' = IF s.lawyer = None THEN team
                 ELSE [team EXCEPT ![s.lawyer] = "NONE", ![s.user] = "LEAD"]
      /\ Commit(c)
      /\ UNCHANGED role

Next ==
  \/ \E u \in Staff, r \in Roles : ChangeRole(u, r)
  \/ \E c \in Calls :
       \/ \E u \in Staff : \/ AddMember(c, u) \/ AddLead(c, u)
                           \/ Promote(c, u) \/ RemoveMember(c, u)
       \/ Join(c) \/ Scan(c) \/ HandOver(c) \/ Remove(c)
       \/ \E lead \in Staff \cup {None}, to \in Statuses \cup {None} : Edit(c, lead, to)
       \/ Close(c)
       \/ Save(c)

Spec == Init /\ [][Next]_vars
-----------------------------------------------------------------------------
(***************************************************************************)
(* The timeline and the row tell the same status, and a closed case has a  *)
(* closing date: every write of the status takes both along, also when the *)
(* status it started from is out of date.                                  *)
(***************************************************************************)
TimelineTellsStatus ==
  /\ event.to = case.status
  /\ case.status = "CLOSED" => case.closedAt

(***************************************************************************)
(* "The case's lawyerId is always its single LEAD member"                  *)
(* (case-members.service.ts:28, schema.prisma:326).                        *)
(***************************************************************************)
LeadIsLawyer == Leads = {case.lawyer}

\* What one call ends with.
Ends(c) == call[c] # Idle /\ call'[c] = Idle

(***************************************************************************)
(* Only a lawyer is appointed as lead (assertStaffUser,                    *)
(* assertUserWithRole): whoever becomes LEAD or lawyerId is a lawyer now.  *)
(***************************************************************************)
NewLeadsAreLawyers ==
  \A u \in Staff : team'[u] = "LEAD" /\ team[u] # "LEAD" => role[u] = "LAWYER"
NewLawyerIsLawyer == case'.lawyer # case.lawyer => role[case'.lawyer] = "LAWYER"

(***************************************************************************)
(* Every handler on its own keeps the case in order - the lead is the      *)
(* lawyerId and the only LEAD, an open case has no closing date, the       *)
(* timeline goes on from the status the case had - so it takes a call      *)
(* overtaken by another one to break any of it.  Nobody but a lawyer is    *)
(* made LEAD, also by a call that others overtook, unless the role was     *)
(* taken away after the call checked it; the lawyerId alone can in         *)
(* addition be put back, unchecked, by an edit that was overtaken.         *)
(***************************************************************************)
OnlyOvertakenCallsBreakTheCase ==
  [][\A c \in Calls :
       Ends(c) =>
         /\ ~ call[c].recast => NewLeadsAreLawyers
         /\ ~ call[c].overtaken =>
              /\ ~ call[c].recast => NewLawyerIsLawyer
              /\ LeadIsLawyer => LeadIsLawyer'
              /\ (case.closedAt => case.status = "CLOSED")
                   => (case'.closedAt => case'.status = "CLOSED")
              /\ event' # event => event'.from = case.status]_vars
=============================================================================
