----------------------------- MODULE QueryCache -----------------------------
(***************************************************************************)
(* What the query client keeps of the server while a user presses and      *)
(* looks (query-provider.tsx, and the useQuery and useMutation of every    *)
(* page).  It is looked at one press of a screen and one kept answer at a  *)
(* time: one that the press changes, or the one it is offered on.          *)
(*                                                                         *)
(* An answer is shown for 30 seconds without asking again; there is no     *)
(* clock, so it is asked for again or not.                                 *)
(***************************************************************************)
EXTENDS Naturals

CONSTANT MaxElsewhere    \* what others change

ASSUME MaxElsewhereAssumption == MaxElsewhere \in Nat

Staff == INSTANCE StaffScreens
Portal == INSTANCE PortalScreens

VARIABLE kept

Unloaded == 0
-----------------------------------------------------------------------------
\* What a press changes and does not renew.  It is seen when the answer ages,
\* or when the page is loaded anew.
LeftByStaff ==
  LET work == {Staff!WorkOverview, Staff!WorkByUser, Staff!WorkTimeline, Staff!WorkOfUser}
      tasks == {p \in UNION {s.presses : s \in {Staff!CasePage, Staff!TasksPage, Staff!TaskPage}} : Staff!EveryTask \in {p.renews, p.marks}}
      team == {Staff!SaveOverview, Staff!AddMember, Staff!Promote, Staff!RemoveMember, Staff!OpenCase, Staff!AssignRequest}
      lawyers == {Staff!Lawyers, Staff!LawyerOptions, Staff!StaffOptions}
      caseLists == {Staff!Cases, Staff!NewestCases, Staff!CasesToBill, Staff!CasesForTasks, Staff!ClientCases}
      onTab == Staff!InvoiceActions(Staff!CaseInvoices, Staff!OfOneCase)
      onList == Staff!InvoiceActions(Staff!Invoices, Staff!OfInvoiceList)
      toggle == Staff!ToggleActive("lawyer", Staff!Lawyer)
  IN  UNION {
        \* The counts of the work done, and the suggestions.
        (tasks \cup team \cup {Staff!AddLawyer, toggle, Staff!EditUser("lawyer", Staff!Lawyer)}) \X work,
        {Staff!Statuses, Staff!CloseCase, Staff!SaveOverview, Staff!AddMember, Staff!Promote, Staff!OpenCase,
         Staff!AddLawyer, toggle, Staff!SaveProfile, Staff!SaveOwnProfile} \X {Staff!Suggested},
        \* The page of an invoice, and on a case the badge of reported payments.
        (onTab \cup onList) \X {Staff!Invoice},
        onTab \X {Staff!PaymentSummary},
        {Staff!EnterInvoice(Staff!OfInvoiceList)} \X (caseLists \cup {Staff!Case}),
        \* The case a request is given, and the counts of the dashboard.
        {Staff!AssignRequest} \X caseLists,
        {Staff!AcceptRequest, Staff!RejectRequest, Staff!AssignRequest, Staff!AddLawyer, toggle} \X {Staff!Stats},
        \* Lists of the staff.
        {Staff!AddLawyer, Staff!SaveOwnProfile, Staff!SaveAccount("lawyer")} \X lawyers,
        {Staff!AddLawyer, toggle} \X {Staff!MemberCandidates},
        {Staff!SaveAccount("lawyer")} \X (work \cup {Staff!Lawyer}),
        \* The text of a post, as its editor gets it.
        {Staff!SavePost} \X {Staff!Post}}

LeftInPortal == {Portal!Upload, Portal!Submit} \X {Portal!Case, Portal!Cases, Portal!AllCases}

\* What is offered on rows the server has it not for: leading, of a lawyer who is deactivated.
OfferedInVain == {Staff!Promote}
-----------------------------------------------------------------------------
\* A press p of the screen s and an answer k: all that matters of them.
Class(s, p, k, left) ==
  [here |-> k \in s.shows,
   changed |-> p.write.changes \cap k.facts # {},
   rows |-> k.key = p.from,
   sound |-> k.key = p.from => p.offered \subseteq p.write.takes,
   vain |-> p \in OfferedInVain,
   renewed |-> Staff!Under(p.renews, k),
   marked |-> Staff!Under(p.marks, k),
   put |-> k.key \in p.puts,
   left |-> <<p, k>> \in left]

ClassesOf(screens, left) ==
  LET all == UNION {s.shows : s \in screens}
      about(p) == {k \in all : p.write.changes \cap k.facts # {} \/ k.key = p.from}
  IN  UNION {UNION {{Class(s, p, k, left) : k \in about(p)} : p \in s.presses} : s \in screens}

Classes == ClassesOf(Staff!StaffScreens, LeftByStaff) \cup ClassesOf(Portal!PortalScreens, LeftInPortal)
-----------------------------------------------------------------------------
\* Versions of the answer: at is that of the server, copy the one kept, got the
\* one a fetch brings, saw the one on the screen at the press, met the one the
\* server had when it took or refused the press; there is none where it is Unloaded.
Versions == 0..(MaxElsewhere + 2)

KeptTypeOK ==
  kept \in [class : Classes, at : Versions, others : 0..MaxElsewhere,
            copy : Versions, seen : BOOLEAN, invalid : BOOLEAN,
            fetch : {"idle", "asked", "read", "failed"}, got : Versions, raced : BOOLEAN,
            press : {"no", "asked", "written", "done", "refused", "lost"},
            saw : Versions, met : Versions]

KeptInit ==
  \E class \in Classes :
    kept = [class |-> class, at |-> 1, others |-> 0, copy |-> Unloaded, seen |-> FALSE, invalid |-> FALSE,
            fetch |-> "idle", got |-> Unloaded, raced |-> FALSE, press |-> "no", saw |-> Unloaded, met |-> Unloaded]

Fetching == kept.fetch \in {"asked", "read"}
AskedAnew(k) == [k EXCEPT !.fetch = "asked", !.raced = FALSE]

\* Somebody else changes what the answer tells.
Elsewhere ==
  /\ kept.others < MaxElsewhere
  /\ kept' = [kept EXCEPT !.others = @ + 1, !.at = @ + 1]

\* The answer comes on the screen: what is missing or marked is asked for, and
\* what has aged.
Look ==
  /\ ~kept.seen
  /\ LET k == [kept EXCEPT !.seen = TRUE]
     IN  \/ ~Fetching /\ kept' = AskedAnew(k)
         \/ Fetching /\ kept' = k
         \/ kept.copy # Unloaded /\ ~kept.invalid /\ kept' = k

LookAway == kept.seen /\ kept' = [kept EXCEPT !.seen = FALSE]

\* A poll, or the network is back.
LookAgain == kept.seen /\ ~Fetching /\ kept' = AskedAnew(kept)

ServerReads ==
  /\ kept.fetch = "asked"
  /\ kept' = [kept EXCEPT !.fetch = "read", !.got = kept.at]

Arrive ==
  /\ kept.fetch = "read"
  /\ kept' = [kept EXCEPT !.fetch = "idle", !.copy = kept.got, !.got = Unloaded, !.invalid = FALSE]

\* The fetch and its retry fail: the copy stays, and is asked for at the next look.
FetchFails ==
  /\ Fetching
  /\ kept' = [kept EXCEPT !.fetch = "failed", !.got = Unloaded, !.invalid = TRUE, !.raced = FALSE]

\* The user presses, on the screen, where the rows on it offer the press.
PressIt ==
  /\ kept.press = "no"
  /\ kept.seen = kept.class.here
  /\ kept.class.rows => kept.copy # Unloaded
  /\ kept' = [kept EXCEPT !.press = "asked", !.saw = kept.copy]

ServerTakes ==
  /\ kept.press = "asked"
  /\ LET now == IF kept.class.changed THEN kept.at + 1 ELSE kept.at
     IN  kept' = [kept EXCEPT !.press = "written", !.at = now, !.met = now]

\* For a row that is no longer as it was shown, or is not one it is taken for.
ServerRefuses ==
  /\ kept.press = "asked" /\ kept.class.rows
  /\ kept.saw < kept.at \/ ~kept.class.sound
  /\ kept' = [kept EXCEPT !.press = "refused", !.met = kept.at]

\* The answer to the press is lost.
PressIsLost == kept.press \in {"asked", "written"} /\ kept' = [kept EXCEPT !.press = "lost"]

\* What a taken press does with the copy: setQueryData, then invalidateQueries.
\* What is on the screen is asked for again in place of a fetch under way, which
\* a first load is not: that one is joined.
WithAnswer(k) ==
  IF k.class.put
  THEN [k EXCEPT !.copy = k.met, !.invalid = FALSE, !.raced = k.fetch = "read"]
  ELSE k
Renewed(k) ==
  CASE ~k.class.renewed /\ ~k.class.marked -> k
    [] k.class.renewed /\ k.seen /\ (Fetching => k.copy # Unloaded) ->
         AskedAnew([k EXCEPT !.invalid = TRUE, !.got = Unloaded])
    [] OTHER -> [k EXCEPT !.invalid = TRUE, !.raced = k.fetch = "read"]

PressIsDone ==
  /\ kept.press = "written"
  /\ kept' = Renewed(WithAnswer([kept EXCEPT !.press = "done"]))

KeptStep ==
  \/ Elsewhere \/ Look \/ LookAway \/ LookAgain \/ ServerReads \/ Arrive \/ FetchFails
  \/ PressIt \/ ServerTakes \/ ServerRefuses \/ PressIsLost \/ PressIsDone
-----------------------------------------------------------------------------
(***************************************************************************)
(* Who has done something and looks at it sees it done: what a screen      *)
(* shows, once nothing is on its way to it, is not older than the user's   *)
(* own taken press (the renewals in onSuccess of every mutation, against   *)
(* what staleTime lets stand).  But for what LeftByStaff and LeftInPortal  *)
(* name, and a load that the server answered before the press and that was *)
(* under way when the renewal came, or one that is marked only and is      *)
(* asked for at the next look.                                             *)
(***************************************************************************)
OwnWritesShow ==
  /\ kept.press = "done" /\ kept.seen /\ kept.fetch = "idle" /\ kept.class.changed
     /\ ~kept.class.left /\ ~kept.raced
     /\ ~(kept.invalid /\ kept.class.marked)
       => kept.copy >= kept.met
  /\ kept.class.left => ~kept.class.renewed /\ ~kept.class.marked /\ ~kept.class.put

(***************************************************************************)
(* A press that is refused was offered on an older state of the row than   *)
(* the server had: no button is offered that the server takes for no such  *)
(* row (the conditions around the buttons, against the checks of the       *)
(* handlers).  But for what OfferedInVain names.                           *)
(***************************************************************************)
RefusedOnlyWhenStale == kept.press = "refused" => kept.saw < kept.met \/ kept.class.vain
=============================================================================
