-------------------------------- MODULE Access --------------------------------
(***************************************************************************)
(* Who may see and do what around a case.  The code states most of these   *)
(* rules twice: as a filter of a query, for lists and counts, and as a     *)
(* check of the row a request names; some a third time in the web client.  *)
(* A list and a check that part show rows that cannot be opened, or hide   *)
(* rows that can.                                                          *)
(*                                                                         *)
(* u is the signed-in user, [id, role]; c a case, [client, lawyer, team],  *)
(* with team the role of each of its members; t a task, [assignee,         *)
(* creator]; d a document, [uploader, visible]; m a message, [sender,      *)
(* senderRole, read].                                                      *)
(***************************************************************************)
CasesOf(Users) ==
  [client : Users, lawyer : Users, team : UNION {[S -> {"LEAD", "MEMBER"}] : S \in SUBSET Users}]

Viewers(Users) == [id : Users, role : {"ADMIN", "LAWYER", "CLIENT"}]

\* The rows of CaseMember.
OnTeam(c, id) == id \in DOMAIN c.team

\* isMember, isLead: "the lead lawyer (lawyerId) always counts"
IsMember(c, id) == c.lawyer = id \/ OnTeam(c, id)
IsLead(c, id) == c.lawyer = id \/ (OnTeam(c, id) /\ c.team[id] = "LEAD")
-----------------------------------------------------------------------------
\* scopeFor: the cases of every list, count and badge
InScope(u, c) ==
  \/ u.role = "ADMIN"
  \/ u.role = "LAWYER" /\ OnTeam(c, u.id)
  \/ u.role = "CLIENT" /\ c.client = u.id

\* assertAccess
MayOpen(u, c) ==
  \/ u.role = "ADMIN"
  \/ u.role = "LAWYER" /\ IsMember(c, u.id)
  \/ u.role = "CLIENT" /\ c.client = u.id

\* assertStaffAccess
MayWork(u, c) == u.role = "ADMIN" \/ (u.role = "LAWYER" /\ IsMember(c, u.id))

\* assertLeadAccess
MayLead(u, c) == u.role = "ADMIN" \/ (u.role = "LAWYER" /\ IsLead(c, u.id))
-----------------------------------------------------------------------------
\* Documents: findByCase and downloadUrl, remove, and what upload records.
DocumentListed(u, d, c) == MayOpen(u, c) /\ (u.role = "CLIENT" => d.visible)
MayDownload(u, d, c) == MayOpen(u, c) /\ ~(u.role = "CLIENT" /\ ~d.visible)

MayRemoveDocument(u, d, c) ==
  u.role = "ADMIN" \/ (u.role = "LAWYER" /\ d.uploader = u.id /\ MayWork(u, c))

Uploaded(u, visible) == [uploader |-> u.id, visible |-> u.role = "CLIENT" \/ visible]
-----------------------------------------------------------------------------
\* Tasks on a case: visibleWhere, assertCanView and permissionsFor.
TaskInScope(u, t, c) ==
  \/ u.role = "ADMIN"
  \/ u.role = "LAWYER" /\ (u.id \in {t.assignee, t.creator} \/ OnTeam(c, u.id))

MayViewTask(u, t, c) ==
  \/ u.role = "ADMIN"
  \/ u.role = "LAWYER" /\ (u.id \in {t.assignee, t.creator} \/ IsMember(c, u.id))

MayEditTask(u, t, c) == MayViewTask(u, t, c) /\ (u.role = "ADMIN" \/ t.creator = u.id)

MayMoveTask(u, t, c) ==
  MayViewTask(u, t, c) /\ (u.role = "ADMIN" \/ u.id \in {t.creator, t.assignee})

\* canChangeTaskStatus of the web client
TaskButtonsShown(u, t) == u.role = "ADMIN" \/ t.assignee = u.id \/ t.creator = u.id

\* assertAssignable for an active member of the staff, in a task on a case
MayAssign(u, c, id) == u.role = "ADMIN" \/ IsMember(c, id)
-----------------------------------------------------------------------------
\* Messages: unreadWhere on the server, isUnreadFor in the thread on the screen.
UnreadOnServer(u, m, c) ==
  /\ ~m.read
  /\ \/ u.role = "CLIENT" /\ m.sender # u.id /\ c.client = u.id
     \/ u.role = "LAWYER" /\ m.senderRole = "CLIENT" /\ OnTeam(c, u.id)

UnreadOnScreen(u, m) ==
  /\ ~m.read
  /\ \/ u.role = "CLIENT" /\ m.sender # u.id
     \/ u.role = "LAWYER" /\ m.senderRole = "CLIENT"
-----------------------------------------------------------------------------
\* visibleStaff of the workload reports: p is another member of the staff,
\* active like u, and Cases are all cases.
ColleagueInScope(u, p, Cases) ==
  \/ u.role = "ADMIN"
  \/ /\ u.role = "LAWYER"
     /\ p.id = u.id \/ \E c \in Cases : OnTeam(c, u.id) /\ OnTeam(c, p.id)
=============================================================================
