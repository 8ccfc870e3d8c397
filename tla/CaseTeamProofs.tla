--------------------------- MODULE CaseTeamProofs ---------------------------
(***************************************************************************)
(* Proofs about CaseTeam, for any staff, any statuses and any number of    *)
(* calls in flight, and about the rules of Access, for any case and any    *)
(* viewer.                                                                 *)
(***************************************************************************)
EXTENDS CaseTeam, Access, TLAPS

\* The locals of a call are what the step it stands at needs.
Sensible(s) ==
  /\ s \in CallState
  /\ s.pc \in {"joining", "removing"} \/ Appoints(s) => s.user \in Staff
  /\ s.lawyer # None => s.pc = "editing"
  /\ s.to = None <=> s.from = None

\* What a call loaded is still true.
Fresh(s) ==
  /\ s.pc = "joining" => team[s.user] = "NONE"
  /\ s.pc \in {"demoting", "handing"} => TargetFits(s)
  /\ s.pc = "handing" => s.leads = Leads
  /\ s.pc = "removing" => team[s.user] = "MEMBER"
  /\ s.pc = "editing" => /\ s.user \in {None, case.lawyer} \/ s.lawyer = case.lawyer
                         /\ s.lawyer # None => s.lawyer = case.lawyer
                         /\ s.from \in {None, case.status}

TypeInv == TypeOK /\ \A c \in Calls : Sensible(call[c])

FreshUnlessOvertaken == \A c \in Calls : call[c].overtaken \/ Fresh(call[c])

\* The call has found the lead it appoints to be a lawyer, which is still true.
Checked(s) == Appoints(s) /\ ~ s.recast => role[s.user] = "LAWYER"

CheckedUnlessRecast == \A c \in Calls : Checked(call[c])

\* The steps that begin a call.
Begins(c) ==
  \/ \E u \in Staff : AddMember(c, u) \/ AddLead(c, u) \/ Promote(c, u) \/ RemoveMember(c, u)
  \/ \E lead \in Staff \cup {None}, to \in Statuses \cup {None} : Edit(c, lead, to)
  \/ Close(c)

LEMMA IdleIsSensible ==
  /\ Sensible(Idle)
  /\ ~ Idle.overtaken
  /\ Fresh(Idle) /\ Checked(Idle)
BY DEF Sensible, Fresh, Checked, Appoints, Idle, CallState

\* A call begins well-formed, and with what is true at that moment.
LEMMA BeginShape ==
  ASSUME TypeInv, NEW c \in Calls, Begins(c)
  PROVE  \E s : /\ Start(c, s) /\ Sensible(s) /\ Fresh(s) /\ Checked(s)
                /\ ~ s.overtaken /\ s # Idle
<1> USE IdleIsSensible
<1>1. "CLOSED" \in Statuses /\ None \notin Staff \cup Statuses
  BY CaseTeamAssumption DEF Statuses
<1>2. ASSUME NEW u \in Staff, AddMember(c, u)
      PROVE  \E s : /\ Start(c, s) /\ Sensible(s) /\ Fresh(s) /\ Checked(s)
                    /\ ~ s.overtaken /\ s # Idle
  <2> DEFINE s == [Idle EXCEPT !.pc = "joining", !.user = u]
  <2>1. Start(c, s) /\ team[u] = "NONE"
    BY <1>2 DEF AddMember
  <2>2. Sensible(s) /\ Fresh(s) /\ Checked(s) /\ ~ s.overtaken /\ s # Idle
    BY <2>1 DEF Sensible, Fresh, Checked, Appoints, Idle, CallState
  <2> QED BY <2>1, <2>2
<1>3. ASSUME NEW u \in Staff, AddLead(c, u)
      PROVE  \E s : /\ Start(c, s) /\ Sensible(s) /\ Fresh(s) /\ Checked(s)
                    /\ ~ s.overtaken /\ s # Idle
  <2> DEFINE s == [Idle EXCEPT !.pc = "demoting", !.user = u, !.create = TRUE]
  <2>1. Start(c, s) /\ team[u] = "NONE" /\ role[u] = "LAWYER"
    BY <1>3 DEF AddLead
  <2>2. Sensible(s) /\ Fresh(s) /\ Checked(s) /\ ~ s.overtaken /\ s # Idle
    BY <2>1 DEF Sensible, Fresh, Checked, Appoints, TargetFits, Idle, CallState
  <2> QED BY <2>1, <2>2
<1>4. ASSUME NEW u \in Staff, Promote(c, u)
      PROVE  \E s : /\ Start(c, s) /\ Sensible(s) /\ Fresh(s) /\ Checked(s)
                    /\ ~ s.overtaken /\ s # Idle
  <2> DEFINE s == [Idle EXCEPT !.pc = "demoting", !.user = u]
  <2>1. Start(c, s) /\ team[u] = "MEMBER" /\ role[u] = "LAWYER"
    BY <1>4 DEF Promote
  <2>2. Sensible(s) /\ Fresh(s) /\ Checked(s) /\ ~ s.overtaken /\ s # Idle
    BY <2>1 DEF Sensible, Fresh, Checked, Appoints, TargetFits, Idle, CallState
  <2> QED BY <2>1, <2>2
<1>5. ASSUME NEW u \in Staff, RemoveMember(c, u)
      PROVE  \E s : /\ Start(c, s) /\ Sensible(s) /\ Fresh(s) /\ Checked(s)
                    /\ ~ s.overtaken /\ s # Idle
  <2> DEFINE s == [Idle EXCEPT !.pc = "removing", !.user = u]
  <2>1. Start(c, s) /\ team[u] = "MEMBER"
    BY <1>5 DEF RemoveMember
  <2>2. Sensible(s) /\ Fresh(s) /\ Checked(s) /\ ~ s.overtaken /\ s # Idle
    BY <2>1 DEF Sensible, Fresh, Checked, Appoints, Idle, CallState
  <2> QED BY <2>1, <2>2
<1>6. ASSUME NEW lead \in Staff \cup {None}, NEW to \in Statuses \cup {None},
             lead \in Staff \ {case.lawyer} => role[lead] = "LAWYER", LoadEdit(c, lead, to)
      PROVE  \E s : /\ Start(c, s) /\ Sensible(s) /\ Fresh(s) /\ Checked(s)
                    /\ ~ s.overtaken /\ s # Idle
  <2> DEFINE lawyer == IF lead \notin {None, case.lawyer} THEN case.lawyer ELSE None
             from == IF to \notin {None, case.status} THEN case.status ELSE None
             new == IF to \notin {None, case.status} THEN to ELSE None
             s == [Idle EXCEPT !.pc = "editing", !.user = lead, !.lawyer = lawyer,
                               !.from = from, !.to = new]
  <2>1. Start(c, s) /\ case.lawyer \in Staff /\ case.status \in Statuses
    BY <1>6 DEF LoadEdit, TypeInv, TypeOK, CaseRow
  <2>2. s \in CallState /\ ~ s.overtaken /\ s # Idle
    BY <2>1 DEF Idle, CallState
  <2>3. /\ s.pc = "editing" /\ s.user = lead /\ s.lawyer = lawyer
        /\ s.from = from /\ s.to = new
    BY DEF Idle
  <2>4. lawyer # None => lead \in Staff /\ role[lead] = "LAWYER"
    BY <1>6
  <2> HIDE DEF s
  <2>5. Sensible(s)
    BY <1>1, <2>1, <2>2, <2>3, <2>4 DEF Sensible, Appoints
  <2>6. Fresh(s)
    BY <2>3 DEF Fresh
  <2>7. Checked(s)
    BY <2>3, <2>4 DEF Checked, Appoints
  <2> QED BY <2>1, <2>2, <2>5, <2>6, <2>7
<1>7. ASSUME Close(c) PROVE LoadEdit(c, None, "CLOSED")
  BY <1>7 DEF Close
<1>8. ASSUME NEW lead \in Staff \cup {None}, NEW to \in Statuses \cup {None}, Edit(c, lead, to)
      PROVE  (lead \in Staff \ {case.lawyer} => role[lead] = "LAWYER") /\ LoadEdit(c, lead, to)
  BY <1>8 DEF Edit
<1> QED BY <1>1, <1>2, <1>3, <1>4, <1>5, <1>6, <1>7, <1>8 DEF Begins

\* A call that commits ends; the others are as they were, but overtaken.
LEMMA CommitShape ==
  ASSUME TypeInv, NEW c \in Calls, Commit(c)
  PROVE  /\ call' \in [Calls -> CallState]
         /\ \A d \in Calls : Sensible(call'[d])
         /\ \A d \in Calls : call'[d] = Idle \/ call'[d].overtaken
         /\ \A d \in Calls : d # c /\ call[d] # Idle => call'[d] # Idle
<1> USE IdleIsSensible
<1> DEFINE Late(d) == [call[d] EXCEPT !.overtaken = TRUE]
<1>1. \A d \in Calls : call'[d] = IF d = c \/ call[d] = Idle THEN Idle ELSE Late(d)
  BY DEF Commit
<1>2. ASSUME NEW d \in Calls PROVE Sensible(Late(d)) /\ Late(d).overtaken
  BY DEF TypeInv, Sensible, Appoints, CallState
<1>3. \A d \in Calls : Late(d) # Idle
  BY <1>2
<1>4. call' \in [Calls -> CallState]
  <2>1. \A d \in Calls : call'[d] \in CallState
    BY <1>1, <1>2 DEF Sensible
  <2>2. call' = [d \in Calls |-> call'[d]]
    BY DEF Commit
  <2> QED BY <2>1, <2>2
<1> HIDE DEF Late
<1> QED BY <1>1, <1>2, <1>3, <1>4

LEMMA TypeInit == Init => TypeInv /\ FreshUnlessOvertaken /\ CheckedUnlessRecast
<1> SUFFICES ASSUME Init PROVE TypeInv /\ FreshUnlessOvertaken /\ CheckedUnlessRecast
  OBVIOUS
<1>1. \A c \in Calls : call[c] = Idle
  BY DEF Init
<1>2. TypeOK
  BY IdleIsSensible DEF Init, TypeOK, Sensible, Statuses, CaseRow, StatusChange
<1> QED BY <1>1, <1>2, IdleIsSensible DEF TypeInv, FreshUnlessOvertaken, CheckedUnlessRecast

LEMMA StepCases ==
  ASSUME [Next]_vars
  PROVE  \/ \E c \in Calls : \/ Begins(c) \/ Join(c) \/ Scan(c) \/ HandOver(c)
                             \/ Remove(c) \/ Save(c)
         \/ \E u \in Staff, r \in Roles : ChangeRole(u, r)
         \/ UNCHANGED vars
BY DEF Next, Begins

\* Every step but a commit keeps the rows, and changes one call.
LEMMA QuietKept ==
  ASSUME TypeInv, UNCHANGED <<role, team, case, event>>,
         NEW c \in Calls, NEW s, Sensible(s), call' = [call EXCEPT ![c] = s]
  PROVE  TypeInv'
BY DEF TypeInv, TypeOK, Sensible

\* A change of role touches nothing in a call but the mark.
LEMMA RecastShape ==
  ASSUME TypeInv, NEW u \in Staff, NEW r \in Roles, ChangeRole(u, r)
  PROVE  /\ call' \in [Calls -> CallState]
         /\ \A c \in Calls : /\ Sensible(call'[c])
                             /\ call'[c].overtaken = call[c].overtaken
                             /\ Fresh(call[c]) => Fresh(call'[c])
                             /\ Checked(call[c]) => Checked(call[c])'
                             /\ call'[c] = Idle => call[c] = Idle
<1> DEFINE mark(c) == call[c].recast \/ (Appoints(call[c]) /\ call[c].user = u)
           Marked(c) == [call[c] EXCEPT !.recast = mark(c)]
<1>1. call' = [c \in Calls |-> Marked(c)]
  BY DEF ChangeRole
<1>2. ASSUME NEW c \in Calls
      PROVE  /\ Sensible(Marked(c))
             /\ Marked(c).overtaken = call[c].overtaken
             /\ Fresh(call[c]) => Fresh(Marked(c))
             /\ Marked(c) = Idle => call[c] = Idle
  <2>1. call[c] \in CallState /\ Sensible(call[c]) /\ call[c].recast \in BOOLEAN
    BY DEF TypeInv, Sensible, CallState
  <2>2. /\ Marked(c) \in CallState /\ Marked(c).overtaken = call[c].overtaken
        /\ Sensible(Marked(c)) /\ (Fresh(call[c]) => Fresh(Marked(c)))
    BY <2>1 DEF Sensible, Appoints, Fresh, TargetFits, CallState
  <2>3. Marked(c) = Idle => call[c] = Idle
    BY <2>1 DEF Idle, CallState
  <2> QED BY <2>2, <2>3
<1>3. ASSUME NEW c \in Calls, Checked(call[c]) PROVE Checked(call[c])'
  <2>1. /\ call'[c].pc = call[c].pc /\ call'[c].lawyer = call[c].lawyer
        /\ call'[c].user = call[c].user /\ call'[c].recast = mark(c)
    BY <1>1 DEF TypeInv, Sensible, CallState
  <2>2. \A v : v # u => role'[v] = role[v]
    BY DEF ChangeRole, TypeInv, TypeOK
  <2> QED BY <1>3, <2>1, <2>2 DEF Checked, Appoints
<1>4. \A c \in Calls : call'[c] = Marked(c)
  BY <1>1
<1>5. call' \in [Calls -> CallState]
  BY <1>1, <1>2 DEF Sensible
<1> HIDE DEF Marked
<1> QED BY <1>2, <1>3, <1>4, <1>5

LEMMA ScanShape ==
  ASSUME TypeInv, NEW c \in Calls, Scan(c)
  PROVE  \E s : /\ call' = [call EXCEPT ![c] = s] /\ Sensible(s)
                /\ s # Idle /\ s.overtaken = call[c].overtaken
                /\ Fresh(call[c]) => Fresh(s)
                /\ Checked(call[c]) => Checked(s)
<1> DEFINE s == [call[c] EXCEPT !.pc = "handing", !.leads = Leads]
<1>1. call' = [call EXCEPT ![c] = s]
  BY DEF Scan, TypeInv, TypeOK, CallState
<1>2. Sensible(s)
  BY DEF Scan, TypeInv, Sensible, Appoints, CallState, Leads
<1>3. s # Idle /\ s.overtaken = call[c].overtaken
  BY DEF TypeInv, Sensible, CallState, Idle
<1>4. Fresh(call[c]) => Fresh(s)
  BY DEF Scan, TypeInv, Sensible, CallState, Fresh, TargetFits
<1>5. Checked(call[c]) => Checked(s)
  BY DEF Scan, TypeInv, Sensible, CallState, Checked, Appoints
<1> HIDE DEF s
<1> QED BY <1>1, <1>2, <1>3, <1>4, <1>5

LEMMA TypeStep ==
  ASSUME TypeInv, [Next]_vars
  PROVE  TypeInv'
<1>1. ASSUME NEW c \in Calls, Begins(c) PROVE TypeInv'
  BY <1>1, BeginShape, QuietKept DEF Start
<1>2. ASSUME NEW c \in Calls, Scan(c) PROVE TypeInv'
  BY <1>2, ScanShape, QuietKept DEF Scan
<1>3. ASSUME NEW c \in Calls, Fail(c) PROVE TypeInv'
  BY <1>3, IdleIsSensible, QuietKept DEF Fail
<1>4. ASSUME NEW c \in Calls, Commit(c), UNCHANGED <<role, event>>,
             team' \in [Staff -> {"NONE", "MEMBER", "LEAD"}], case' \in CaseRow
      PROVE  TypeInv'
  BY <1>4, CommitShape DEF TypeInv, TypeOK, Sensible
<1>5. ASSUME NEW c \in Calls, Join(c) \/ Remove(c) PROVE TypeInv'
  <2>1. CASE Fail(c)
    BY <2>1, <1>3
  <2>2. CASE ~ Fail(c)
    <3>1. Commit(c) /\ UNCHANGED <<role, case, event>>
      BY <1>5, <2>2 DEF Join, Remove
    <3>2. team' \in [Staff -> {"NONE", "MEMBER", "LEAD"}]
      BY <1>5, <2>2 DEF Join, Remove, TypeInv, TypeOK
    <3> QED BY <3>1, <3>2, <1>4 DEF TypeInv, TypeOK
  <2> QED BY <2>1, <2>2
<1>6. ASSUME NEW c \in Calls, HandOver(c) PROVE TypeInv'
  <2>1. CASE Fail(c)
    BY <2>1, <1>3
  <2>2. CASE ~ Fail(c)
    <3>1. Commit(c) /\ UNCHANGED <<role, event>>
      BY <1>6, <2>2 DEF HandOver
    <3>2. team' \in [Staff -> {"NONE", "MEMBER", "LEAD"}]
      BY <1>6, <2>2 DEF HandOver, TypeInv, TypeOK
    <3>3. case' \in CaseRow
      BY <1>6, <2>2 DEF HandOver, TypeInv, TypeOK, Sensible, Appoints, CaseRow
    <3> QED BY <3>1, <3>2, <3>3, <1>4
  <2> QED BY <2>1, <2>2
<1>7. ASSUME NEW c \in Calls, Save(c) PROVE TypeInv'
  <2>1. /\ call[c].user \in Staff \cup {None}
        /\ call[c].to \in Statuses \cup {None} /\ call[c].from \in Statuses \cup {None}
        /\ call[c].to = None <=> call[c].from = None
    BY DEF TypeInv, Sensible, CallState
  <2>2. team' \in [Staff -> {"NONE", "MEMBER", "LEAD"}]
    BY <1>7 DEF Save, TypeInv, TypeOK
  <2>3. case' \in CaseRow
    BY <1>7, <2>1 DEF Save, Edited, TypeInv, TypeOK, CaseRow
  <2>4. event' \in StatusChange
    BY <1>7, <2>1 DEF Save, TypeInv, TypeOK, StatusChange
  <2> QED BY <1>7, <2>2, <2>3, <2>4, CommitShape DEF Save, TypeInv, TypeOK
<1>8. CASE UNCHANGED vars
  BY <1>8 DEF vars, TypeInv, TypeOK, Sensible
<1>9. ASSUME NEW u \in Staff, NEW r \in Roles, ChangeRole(u, r) PROVE TypeInv'
  <2>1. role' \in [Staff -> Roles] /\ UNCHANGED <<team, case, event>>
    BY <1>9 DEF ChangeRole, TypeInv, TypeOK
  <2> QED BY <1>9, <2>1, RecastShape DEF TypeInv, TypeOK, Sensible
<1> QED BY <1>1, <1>2, <1>5, <1>6, <1>7, <1>8, <1>9, StepCases

(***************************************************************************)
(* Every reachable state is well-typed: whatever edits and hand-overs      *)
(* overtake each other, the case keeps a lawyerId of the staff and a       *)
(* status it can have.  What roles its leads have is another matter: see   *)
(* AloneNothingBreaks.                                                     *)
(***************************************************************************)
THEOREM TypeCorrect == Spec => []TypeOK
<1>1. Init => TypeInv
  BY TypeInit
<1>2. TypeInv /\ [Next]_vars => TypeInv'
  BY TypeStep
<1>3. TypeInv => TypeOK
  BY DEF TypeInv
<1> QED BY <1>1, <1>2, <1>3, PTL DEF Spec
-----------------------------------------------------------------------------
(***************************************************************************)
(* Timeline and row.  Only Save writes either of them, and it decides      *)
(* about both by the same comparison, so the invariant is inductive.       *)
(***************************************************************************)
LEMMA TimelineStep ==
  ASSUME TypeInv, TimelineTellsStatus, [Next]_vars
  PROVE  TimelineTellsStatus'
<1>1. ASSUME NEW c \in Calls, Save(c) PROVE TimelineTellsStatus'
  <2>1. call[c].to = None <=> call[c].from = None
    BY DEF TypeInv, Sensible
  <2>2. "CLOSED" # None
    BY CaseTeamAssumption
  <2> QED BY <1>1, <2>1, <2>2 DEF Save, Edited, TimelineTellsStatus
<1>2. ASSUME NEW c \in Calls, HandOver(c) PROVE TimelineTellsStatus'
  <2>1. UNCHANGED event /\ case'.status = case.status /\ case'.closedAt = case.closedAt
    BY <1>2 DEF HandOver, Fail, TypeInv, TypeOK, CaseRow
  <2> QED BY <2>1 DEF TimelineTellsStatus
<1>3. CASE UNCHANGED <<case, event>>
  BY <1>3 DEF TimelineTellsStatus
<1>4. ASSUME NEW c \in Calls, Begins(c) \/ Join(c) \/ Scan(c) \/ Remove(c)
      PROVE  UNCHANGED <<case, event>>
  BY <1>4 DEF Begins, AddMember, AddLead, Promote, RemoveMember, Edit, Close, LoadEdit,
              Start, Join, Scan, Remove, Fail
<1>5. ASSUME NEW u \in Staff, NEW r \in Roles, ChangeRole(u, r) PROVE UNCHANGED <<case, event>>
  BY <1>5 DEF ChangeRole
<1> QED BY <1>1, <1>2, <1>3, <1>4, <1>5, StepCases DEF vars

(***************************************************************************)
(* Whatever edits and closings overtake each other, the newest             *)
(* STATUS_CHANGE names the status of the case, and a closed case has a     *)
(* closing date.                                                           *)
(***************************************************************************)
THEOREM TimelineAlwaysTellsStatus == Spec => []TimelineTellsStatus
<1>1. Init => TypeInv /\ TimelineTellsStatus
  <2> SUFFICES ASSUME Init PROVE TimelineTellsStatus
    BY TypeInit
  <2>1. event.to = case.status /\ case.status \in OpenStatuses
    BY DEF Init
  <2> QED BY <2>1, CaseTeamAssumption DEF TimelineTellsStatus
<1>2. (TypeInv /\ TimelineTellsStatus) /\ [Next]_vars => (TypeInv /\ TimelineTellsStatus)'
  BY TypeStep, TimelineStep
<1> QED BY <1>1, <1>2, PTL DEF Spec
-----------------------------------------------------------------------------
(***************************************************************************)
(* What one handler does on its own.  The invariant that carries it: what  *)
(* a call has loaded is still true, unless another call committed since.   *)
(***************************************************************************)
LEMMA FreshStep ==
  ASSUME TypeInv, FreshUnlessOvertaken, [Next]_vars
  PROVE  FreshUnlessOvertaken'
<1>1. ASSUME NEW c \in Calls, NEW s, s.overtaken \/ Fresh(s),
             call' = [call EXCEPT ![c] = s], UNCHANGED <<role, team, case, event>>
      PROVE  FreshUnlessOvertaken'
  <2>1. \A d \in Calls : call'[d] = IF d = c THEN s ELSE call[d]
    BY <1>1 DEF TypeInv, TypeOK
  <2>2. ASSUME NEW d \in Calls PROVE call'[d].overtaken \/ Fresh(call'[d])
    BY <1>1, <2>1 DEF FreshUnlessOvertaken
  <2> QED BY <1>1, <2>1, <2>2 DEF FreshUnlessOvertaken, Fresh, TargetFits, Leads
<1>2. ASSUME NEW c \in Calls, Begins(c) PROVE FreshUnlessOvertaken'
  <2>1. PICK s : Start(c, s) /\ Fresh(s)
    BY <1>2, BeginShape
  <2> QED BY <2>1, <1>1 DEF Start
<1>3. ASSUME NEW c \in Calls, Scan(c) PROVE FreshUnlessOvertaken'
  <2>1. PICK s : /\ call' = [call EXCEPT ![c] = s]
                 /\ s.overtaken = call[c].overtaken
                 /\ Fresh(call[c]) => Fresh(s)
    BY <1>3, ScanShape
  <2>2. s.overtaken \/ Fresh(s)
    BY <2>1 DEF FreshUnlessOvertaken
  <2> QED BY <1>3, <2>1, <2>2, <1>1 DEF Scan
<1>4. ASSUME NEW c \in Calls, Fail(c) PROVE FreshUnlessOvertaken'
  BY <1>4, IdleIsSensible, <1>1 DEF Fail
<1>5. ASSUME NEW c \in Calls, Commit(c) PROVE FreshUnlessOvertaken'
  BY <1>5, CommitShape DEF FreshUnlessOvertaken, Fresh, Idle
<1>6. ASSUME NEW c \in Calls, Join(c) \/ HandOver(c) \/ Remove(c) \/ Save(c)
      PROVE  Commit(c) \/ Fail(c)
  BY <1>6 DEF Join, HandOver, Remove, Save
<1>7. CASE UNCHANGED vars
  BY <1>7 DEF vars, FreshUnlessOvertaken, Fresh, TargetFits, Leads
<1>8. ASSUME NEW u \in Staff, NEW r \in Roles, ChangeRole(u, r) PROVE FreshUnlessOvertaken'
  <2>1. \A c \in Calls : call'[c].overtaken \/ Fresh(call'[c])
    BY <1>8, RecastShape DEF FreshUnlessOvertaken
  <2>2. UNCHANGED <<team, case, event>>
    BY <1>8 DEF ChangeRole
  <2> QED BY <2>1, <2>2 DEF FreshUnlessOvertaken, Fresh, TargetFits, Leads
<1> QED BY <1>2, <1>3, <1>4, <1>5, <1>6, <1>7, <1>8, StepCases

\* Roles change beside the calls, and each change marks those it concerns.
LEMMA CheckedStep ==
  ASSUME TypeInv, CheckedUnlessRecast, [Next]_vars
  PROVE  CheckedUnlessRecast'
<1>1. ASSUME NEW c \in Calls, NEW s, Checked(s), call' = [call EXCEPT ![c] = s], UNCHANGED role
      PROVE  CheckedUnlessRecast'
  <2>1. \A d \in Calls : call'[d] = IF d = c THEN s ELSE call[d]
    BY <1>1 DEF TypeInv, TypeOK
  <2> QED BY <1>1, <2>1 DEF CheckedUnlessRecast, Checked, Appoints
<1>2. ASSUME NEW c \in Calls, Begins(c) PROVE CheckedUnlessRecast'
  BY <1>2, BeginShape, <1>1 DEF Start
<1>3. ASSUME NEW c \in Calls, Scan(c) PROVE CheckedUnlessRecast'
  <2>1. Checked(call[c]) /\ UNCHANGED role
    BY <1>3 DEF Scan, CheckedUnlessRecast
  <2> QED BY <1>3, <2>1, ScanShape, <1>1
<1>4. ASSUME NEW c \in Calls, Join(c) \/ HandOver(c) \/ Remove(c) \/ Save(c)
      PROVE  CheckedUnlessRecast'
  <2>1. CASE Fail(c)
    BY <2>1, IdleIsSensible, <1>1 DEF Fail
  <2>2. CASE Commit(c) /\ UNCHANGED role
    <3>1. ASSUME NEW d \in Calls
          PROVE  \/ call'[d] = Idle
                 \/ /\ call'[d].pc = call[d].pc /\ call'[d].lawyer = call[d].lawyer
                    /\ call'[d].user = call[d].user /\ call'[d].recast = call[d].recast
      BY <2>2 DEF Commit, TypeInv, Sensible, CallState
    <3>2. Appoints(Idle) = FALSE
      BY DEF Appoints, Idle
    <3> QED BY <2>2, <3>1, <3>2 DEF CheckedUnlessRecast, Checked, Appoints
  <2> QED BY <1>4, <2>1, <2>2 DEF Join, HandOver, Remove, Save
<1>5. CASE UNCHANGED vars
  BY <1>5 DEF vars, CheckedUnlessRecast, Checked, Appoints
<1>6. ASSUME NEW u \in Staff, NEW r \in Roles, ChangeRole(u, r) PROVE CheckedUnlessRecast'
  BY <1>6, RecastShape DEF CheckedUnlessRecast
<1> QED BY <1>2, <1>3, <1>4, <1>5, <1>6, StepCases

\* What carries the theorems about single handlers.
CallsInv == TypeInv /\ FreshUnlessOvertaken /\ CheckedUnlessRecast

LEMMA CallsInductive ==
  /\ Init => CallsInv
  /\ CallsInv /\ [Next]_vars => CallsInv'
BY TypeInit, TypeStep, FreshStep, CheckedStep DEF CallsInv

\* What a call must leave in order.
KeepsOrder(c) ==
  /\ ~ call[c].recast => NewLawyerIsLawyer
  /\ LeadIsLawyer => LeadIsLawyer'
  /\ (case.closedAt => case.status = "CLOSED") => (case'.closedAt => case'.status = "CLOSED")
  /\ event' # event => event'.from = case.status

\* A call that is not overtaken commits what it should.
LEMMA AloneKeepsOrder ==
  ASSUME CallsInv, NEW c \in Calls, ~ call[c].overtaken,
         Join(c) \/ HandOver(c) \/ Remove(c) \/ Save(c)
  PROVE  KeepsOrder(c)
<1>b. Fresh(call[c]) /\ Checked(call[c]) /\ Sensible(call[c]) /\ call[c] \in CallState
  BY DEF CallsInv, FreshUnlessOvertaken, CheckedUnlessRecast, TypeInv, Sensible
<1>a. team \in [Staff -> {"NONE", "MEMBER", "LEAD"}] /\ case \in CaseRow
  BY DEF CallsInv, TypeInv, TypeOK
<1>1. CASE Fail(c)
  BY <1>1 DEF Fail, KeepsOrder, NewLawyerIsLawyer, LeadIsLawyer, Leads
<1>2. CASE (Join(c) \/ Remove(c)) /\ ~ Fail(c)
  <2>1. UNCHANGED <<case, event>>
    BY <1>2 DEF Join, Remove
  <2>2. call[c].user \in Staff /\ team[call[c].user] # "LEAD"
    BY <1>b, <1>2 DEF Fresh, Sensible, Join, Remove
  <2>3. \A u \in Staff : team'[u] = "LEAD" <=> team[u] = "LEAD"
    BY <1>2, <1>a, <2>2 DEF Join, Remove
  <2> QED BY <2>1, <2>3 DEF KeepsOrder, NewLawyerIsLawyer, LeadIsLawyer, Leads
<1>3. CASE HandOver(c) /\ ~ Fail(c)
  <2>1. /\ UNCHANGED event
        /\ case'.lawyer = call[c].user
        /\ case'.status = case.status
        /\ case'.closedAt = case.closedAt
    BY <1>3, <1>a DEF HandOver, CaseRow
  <2>2. Appoints(call[c]) /\ call[c].user \in Staff /\ call[c].leads = Leads
    BY <1>b, <1>3 DEF Fresh, Sensible, Appoints, HandOver
  <2>3. \A u \in Staff : team'[u] = "LEAD" <=> u = call[c].user
    BY <1>3, <1>a, <2>2 DEF HandOver, Leads
  <2>4. ~ call[c].recast => NewLawyerIsLawyer
    BY <1>b, <2>1, <2>2 DEF Checked, NewLawyerIsLawyer
  <2> QED BY <2>1, <2>2, <2>3, <2>4 DEF KeepsOrder, LeadIsLawyer, Leads
<1>4. CASE Save(c)
  <2> DEFINE s == call[c]
  <2>1. /\ s.user \in {None, case.lawyer} \/ s.lawyer = case.lawyer
        /\ s.lawyer # None => /\ s.lawyer = case.lawyer /\ s.user \in Staff
                              /\ Appoints(s)
        /\ s.from \in {None, case.status}
        /\ s.to = None <=> s.from = None
    BY <1>b, <1>4 DEF Fresh, Sensible, Appoints, Save
  <2>2. /\ case'.lawyer = IF s.user = None THEN case.lawyer ELSE s.user
        /\ case'.status = IF s.to = None THEN case.status ELSE s.to
        /\ case'.closedAt <=> s.to = "CLOSED" \/ (s.from # "CLOSED" /\ case.closedAt)
    BY <1>4 DEF Save, Edited
  <2>3. case.lawyer # None /\ None \notin Staff
    BY <1>a, CaseTeamAssumption DEF CaseRow
  <2>4. ~ s.recast => NewLawyerIsLawyer
    BY <1>b, <2>1, <2>2, <2>3 DEF Checked, NewLawyerIsLawyer
  <2>5. LeadIsLawyer => LeadIsLawyer'
    <3> SUFFICES ASSUME LeadIsLawyer PROVE LeadIsLawyer'
      OBVIOUS
    <3>1. CASE s.lawyer = None
      <4>1. team' = team /\ case'.lawyer = case.lawyer
        BY <1>4, <2>1, <2>2, <2>3, <3>1 DEF Save
      <4> QED BY <4>1 DEF LeadIsLawyer, Leads
    <3>2. CASE s.lawyer # None
      <4>1. /\ s.lawyer = case.lawyer /\ s.user \in Staff
            /\ team' = [team EXCEPT ![s.lawyer] = "NONE", ![s.user] = "LEAD"]
        BY <1>4, <2>1, <3>2 DEF Save
      <4>2. \A u \in Staff : team[u] = "LEAD" => u = s.lawyer
        BY <4>1 DEF LeadIsLawyer, Leads
      <4>3. \A u \in Staff : team'[u] = "LEAD" <=> u = s.user
        BY <1>a, <4>1, <4>2
      <4>4. case'.lawyer = s.user
        BY <2>2, <2>3, <4>1
      <4> QED BY <4>1, <4>3, <4>4 DEF LeadIsLawyer, Leads
    <3> QED BY <3>1, <3>2
  <2>6. (case.closedAt => case.status = "CLOSED") => (case'.closedAt => case'.status = "CLOSED")
    BY <2>1, <2>2, CaseTeamAssumption
  <2>7. event' # event => event'.from = case.status
    BY <1>4, <2>1 DEF Save
  <2> QED BY <2>4, <2>5, <2>6, <2>7 DEF KeepsOrder
<1> QED BY <1>1, <1>2, <1>3, <1>4

\* A call commits no new lead but a lawyer, be it overtaken or not.
LEMMA LeadsAreChecked ==
  ASSUME CallsInv, NEW c \in Calls, ~ call[c].recast,
         Join(c) \/ HandOver(c) \/ Remove(c) \/ Save(c)
  PROVE  NewLeadsAreLawyers
<1>1. /\ Appoints(call[c]) => call[c].user \in Staff /\ role[call[c].user] = "LAWYER"
      /\ team \in [Staff -> {"NONE", "MEMBER", "LEAD"}]
  BY DEF CallsInv, TypeInv, TypeOK, CheckedUnlessRecast, Checked, Sensible
<1>2. CASE Fail(c)
  BY <1>2 DEF Fail, NewLeadsAreLawyers
<1>3. CASE (Join(c) \/ Remove(c)) /\ ~ Fail(c)
  BY <1>1, <1>3 DEF Join, Remove, NewLeadsAreLawyers
<1>4. CASE HandOver(c) /\ ~ Fail(c)
  <2>1. Appoints(call[c])
    BY <1>4 DEF HandOver, Appoints
  <2> QED BY <1>1, <1>4, <2>1 DEF HandOver, NewLeadsAreLawyers
<1>5. CASE Save(c)
  <2>1. CASE call[c].lawyer = None
    BY <1>5, <2>1 DEF Save, NewLeadsAreLawyers
  <2>2. CASE call[c].lawyer # None
    BY <1>1, <1>5, <2>2 DEF Save, Appoints, NewLeadsAreLawyers
  <2> QED BY <2>1, <2>2
<1> QED BY <1>2, <1>3, <1>4, <1>5

LEMMA AloneStep ==
  ASSUME CallsInv, [Next]_vars, NEW c \in Calls, Ends(c)
  PROVE  /\ ~ call[c].recast => NewLeadsAreLawyers
         /\ ~ call[c].overtaken => KeepsOrder(c)
<1> USE DEF CallsInv
<1>1. ASSUME NEW d \in Calls, NEW s, s # Idle, call' = [call EXCEPT ![d] = s]
      PROVE  FALSE
  BY <1>1 DEF Ends, TypeInv, TypeOK
<1>2. ASSUME NEW d \in Calls, Begins(d) PROVE FALSE
  BY <1>2, BeginShape, <1>1 DEF Start
<1>3. ASSUME NEW d \in Calls, Scan(d) PROVE FALSE
  BY <1>3, ScanShape, <1>1
<1>4. ASSUME NEW d \in Calls, Join(d) \/ HandOver(d) \/ Remove(d) \/ Save(d)
      PROVE  d = c
  <2>1. CASE Commit(d)
    BY <2>1, CommitShape DEF Ends
  <2>2. CASE Fail(d)
    BY <2>2 DEF Ends, Fail, TypeInv, TypeOK
  <2> QED BY <1>4, <2>1, <2>2 DEF Join, HandOver, Remove, Save
<1>5. ASSUME NEW u \in Staff, NEW r \in Roles, ChangeRole(u, r) PROVE FALSE
  BY <1>5, RecastShape DEF Ends
<1>6. ~ UNCHANGED vars
  BY DEF Ends, vars
<1>7. Join(c) \/ HandOver(c) \/ Remove(c) \/ Save(c)
  BY <1>2, <1>3, <1>4, <1>5, <1>6, StepCases
<1> QED BY <1>7, AloneKeepsOrder, LeadsAreChecked

(***************************************************************************)
(* A handler nobody overtakes keeps the lead, the closing date and the     *)
(* timeline in order, whatever the others are doing: the invariants of a   *)
(* case are lost only by a call that writes from what is out of date.  And *)
(* no handler, overtaken or not, makes anybody LEAD who is not a lawyer,   *)
(* unless that role was changed between its check and its commit.          *)
(***************************************************************************)
THEOREM AloneNothingBreaks == Spec => OnlyOvertakenCallsBreakTheCase
<1>1. CallsInv /\ [Next]_vars =>
        [\A c \in Calls :
           Ends(c) =>
             /\ ~ call[c].recast => NewLeadsAreLawyers
             /\ ~ call[c].overtaken =>
                  /\ ~ call[c].recast => NewLawyerIsLawyer
                  /\ LeadIsLawyer => LeadIsLawyer'
                  /\ (case.closedAt => case.status = "CLOSED")
                       => (case'.closedAt => case'.status = "CLOSED")
                  /\ event' # event => event'.from = case.status]_vars
  BY AloneStep DEF KeepsOrder
<1> QED BY <1>1, CallsInductive, PTL DEF Spec, OnlyOvertakenCallsBreakTheCase
-----------------------------------------------------------------------------
(***************************************************************************)
(* A case that is listed for somebody opens for them (scopeFor against     *)
(* assertAccess); and whoever may open a case finds it in their lists, as  *)
(* long as its lawyer has a row in the team: isMember counts the lawyerId, *)
(* the queries do not.                                                     *)
(***************************************************************************)
THEOREM CaseListsAgree ==
  ASSUME NEW Users, NEW c \in CasesOf(Users), NEW u \in Viewers(Users)
  PROVE  /\ InScope(u, c) => MayOpen(u, c)
         /\ OnTeam(c, c.lawyer) => (MayOpen(u, c) => InScope(u, c))
BY DEF CasesOf, Viewers, InScope, MayOpen, IsMember, OnTeam

\* Leading a case includes working on it, and that includes reading it.
LEMMA RightsNest ==
  ASSUME NEW Users, NEW c \in CasesOf(Users), NEW u \in Viewers(Users)
  PROVE  /\ MayLead(u, c) => MayWork(u, c)
         /\ MayWork(u, c) => MayOpen(u, c)
BY DEF CasesOf, Viewers, MayLead, MayWork, MayOpen, IsLead, IsMember, OnTeam

(***************************************************************************)
(* The three statements of the rules for tasks agree: a listed task opens, *)
(* one that opens is listed while the case's lawyer is on the team, and    *)
(* the status buttons of the web client stand exactly where the server     *)
(* takes the change.  Whom a lawyer may give a task of a case may work on  *)
(* that case.                                                              *)
(***************************************************************************)
THEOREM TaskRulesAgree ==
  ASSUME NEW Users, NEW c \in CasesOf(Users), NEW u \in Viewers(Users),
         NEW t \in [assignee : Users, creator : Users]
  PROVE  /\ TaskInScope(u, t, c) => MayViewTask(u, t, c)
         /\ OnTeam(c, c.lawyer) => (MayViewTask(u, t, c) => TaskInScope(u, t, c))
         /\ MayViewTask(u, t, c) => (TaskButtonsShown(u, t) <=> MayMoveTask(u, t, c))
         /\ MayEditTask(u, t, c) => MayMoveTask(u, t, c)
         /\ \A p \in Viewers(Users) :
              u.role = "LAWYER" /\ MayAssign(u, c, p.id) /\ p.role # "CLIENT" => MayWork(p, c)
<1> USE DEF CasesOf, Viewers, TaskInScope, MayViewTask, MayEditTask, MayMoveTask,
            TaskButtonsShown, IsMember, OnTeam
<1>1. TaskInScope(u, t, c) => MayViewTask(u, t, c)
  OBVIOUS
<1>2. OnTeam(c, c.lawyer) => (MayViewTask(u, t, c) => TaskInScope(u, t, c))
  OBVIOUS
<1>3. MayViewTask(u, t, c) => (TaskButtonsShown(u, t) <=> MayMoveTask(u, t, c))
  OBVIOUS
<1>4. MayEditTask(u, t, c) => MayMoveTask(u, t, c)
  OBVIOUS
<1>5. ASSUME NEW p \in Viewers(Users), u.role = "LAWYER", MayAssign(u, c, p.id), p.role # "CLIENT"
      PROVE  MayWork(p, c)
  BY <1>5 DEF MayAssign, MayWork
<1> QED BY <1>1, <1>2, <1>3, <1>4, <1>5

(***************************************************************************)
(* A document in the list of a case can be downloaded and the other way    *)
(* round; what somebody with access uploads stays in their own list,       *)
(* whatever they tick; and who may delete a document may see it.           *)
(***************************************************************************)
THEOREM DocumentRulesAgree ==
  ASSUME NEW Users, NEW c \in CasesOf(Users), NEW u \in Viewers(Users),
         NEW d \in [uploader : Users, visible : BOOLEAN]
  PROVE  /\ DocumentListed(u, d, c) <=> MayDownload(u, d, c)
         /\ \A ticked \in BOOLEAN : MayOpen(u, c) => DocumentListed(u, Uploaded(u, ticked), c)
         /\ MayRemoveDocument(u, d, c) => MayDownload(u, d, c)
<1> USE DEF Viewers, DocumentListed, MayDownload, Uploaded
<1>1. DocumentListed(u, d, c) <=> MayDownload(u, d, c)
  OBVIOUS
<1>2. \A ticked \in BOOLEAN : MayOpen(u, c) => DocumentListed(u, Uploaded(u, ticked), c)
  OBVIOUS
<1>3. MayRemoveDocument(u, d, c) => MayDownload(u, d, c)
  BY RightsNest DEF MayRemoveDocument, MayOpen
<1> QED BY <1>1, <1>2, <1>3

(***************************************************************************)
(* "Mirrors the API" (web lib/messages.ts): in a thread that opens, the    *)
(* screen marks as unread what the server counts, while the case's lawyer  *)
(* is on the team.                                                         *)
(***************************************************************************)
THEOREM UnreadRulesAgree ==
  ASSUME NEW Users, NEW c \in CasesOf(Users), NEW u \in Viewers(Users),
         NEW m \in [sender : Users, senderRole : {"ADMIN", "LAWYER", "CLIENT"}, read : BOOLEAN],
         MayOpen(u, c), OnTeam(c, c.lawyer)
  PROVE  UnreadOnServer(u, m, c) <=> UnreadOnScreen(u, m)
BY DEF CasesOf, Viewers, MayOpen, UnreadOnServer, UnreadOnScreen, IsMember, OnTeam

(***************************************************************************)
(* The workload reports are mutual between lawyers: who sees the report of *)
(* a colleague is seen by that colleague, through a case both may open.    *)
(***************************************************************************)
THEOREM ColleaguesAreMutual ==
  ASSUME NEW Users, NEW Cases \in SUBSET CasesOf(Users),
         NEW u \in Viewers(Users), NEW p \in Viewers(Users),
         u.role = "LAWYER", p.role = "LAWYER", u.id # p.id
  PROVE  /\ ColleagueInScope(u, p, Cases) <=> ColleagueInScope(p, u, Cases)
         /\ ColleagueInScope(u, p, Cases) => \E c \in Cases : MayOpen(u, c) /\ MayOpen(p, c)
BY DEF ColleagueInScope, MayOpen, IsMember

\* The case the handlers of CaseTeam leave; its client plays no part for the staff.
TheCase ==
  [client |-> None, lawyer |-> case.lawyer,
   team |-> [u \in {v \in Staff : team[v] # "NONE"} |-> team[u]]]

\* Every lawyer who may open the case has it in their lists.
ListsAgree ==
  \A id \in Staff : LET u == [id |-> id, role |-> "LAWYER"]
                    IN  InScope(u, TheCase) <=> MayOpen(u, TheCase)

LEMMA LeadIsListed ==
  ASSUME TypeInv, LeadIsLawyer
  PROVE  ListsAgree
<1>1. case.lawyer \in Staff /\ team[case.lawyer] = "LEAD"
  BY DEF LeadIsLawyer, Leads
<1>2. \A id : OnTeam(TheCase, id) <=> id \in {v \in Staff : team[v] # "NONE"}
  BY DEF OnTeam, TheCase
<1>3. TheCase.lawyer = case.lawyer
  BY DEF TheCase
<1>4. OnTeam(TheCase, case.lawyer)
  BY <1>1, <1>2
<1> QED BY <1>3, <1>4 DEF ListsAgree, InScope, MayOpen, IsMember

(***************************************************************************)
(* A new case is in the lists of every lawyer who may open it; and while   *)
(* the lawyerId is the only LEAD, a handler nobody overtakes leaves it so, *)
(* whatever the others are doing.                                          *)
(***************************************************************************)
THEOREM AloneHidesNothing ==
  Spec => /\ ListsAgree
          /\ [][\A c \in Calls : Ends(c) /\ ~ call[c].overtaken => (LeadIsLawyer => ListsAgree')]_vars
<1>1. Init => ListsAgree
  <2> SUFFICES ASSUME Init PROVE ListsAgree
    OBVIOUS
  <2>1. PICK lead \in Staff : /\ team = [u \in Staff |-> IF u = lead THEN "LEAD" ELSE "NONE"]
                              /\ case.lawyer = lead
    BY DEF Init
  <2>2. LeadIsLawyer
    BY <2>1 DEF LeadIsLawyer, Leads
  <2> QED BY <2>2, TypeInit, LeadIsListed
<1>2. CallsInv /\ CallsInv' /\ [Next]_vars =>
        [\A c \in Calls : Ends(c) /\ ~ call[c].overtaken => (LeadIsLawyer => ListsAgree')]_vars
  <2> SUFFICES ASSUME CallsInv, CallsInv', [Next]_vars,
                      NEW c \in Calls, Ends(c), ~ call[c].overtaken, LeadIsLawyer
               PROVE  ListsAgree'
    OBVIOUS
  <2>1. LeadIsLawyer'
    BY AloneStep DEF KeepsOrder
  <2>2. TypeInv' /\ LeadIsLawyer' => ListsAgree'
    BY LeadIsListed, PTL
  <2>3. TypeInv'
    BY DEF CallsInv
  <2> QED BY <2>1, <2>2, <2>3
<1> QED BY <1>1, <1>2, CallsInductive, PTL DEF Spec
=============================================================================
