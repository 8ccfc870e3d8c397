-------------------------------- MODULE Office --------------------------------
(***************************************************************************)
(* The parts of the server that share the mail, and the public site, in    *)
(* one process: the daily reminders, the one-time links, a conversation,   *)
(* testimonials and posts.  They run side by side, and die together when   *)
(* the process does; the rows stay.                                        *)
(***************************************************************************)
EXTENDS Reminders, OneTimeLinks, Conversations, PublicSite

\* A run of the reminders is no request of a user: their letters differ.
ASSUME OfficeAssumption == Runs \cap (IssueCalls \cup UseCalls \cup Messages) = {}

officeVars == <<mail, reminderVars, linkVars, talkVars, siteVars>>

TypeOK == MailTypeOK /\ ReminderTypeOK /\ LinksTypeOK /\ TalkTypeOK /\ SiteTypeOK

Init == MailInit /\ ReminderInit /\ LinksInit /\ TalkInit /\ SiteInit

Mailing(l) == MailStep(l) /\ UNCHANGED <<reminderVars, linkVars, talkVars, siteVars>>
Reminding == ReminderStep /\ UNCHANGED <<linkVars, talkVars, siteVars>>
Linking == LinkStep /\ UNCHANGED <<reminderVars, talkVars, siteVars>>
Talking == TalkStep /\ UNCHANGED <<reminderVars, linkVars, siteVars>>
Publishing == SiteStep /\ UNCHANGED <<mail, reminderVars, linkVars, talkVars>>

\* The API process dies and is started again.
Crash ==
  /\ mail' = MailAfterCrash
  /\ run' = RunsAfterCrash
  /\ linkCall' = LinkCallsAfterCrash
  /\ message' = TalkAfterCrash
  /\ desk' = DeskAfterCrash
  /\ UNCHANGED <<clock, row, notices, link, bell, chat, story, post, page>>

Next ==
  \/ \E l \in Letters : Mailing(l)
  \/ Reminding \/ Linking \/ Talking \/ Publishing
  \/ Crash

Spec == Init /\ [][Next]_officeVars

\* What is sure to go on; the rest is up to people, or is a failure.
Fetching == ChatFetches /\ UNCHANGED <<reminderVars, linkVars, siteVars>>
Marking == ChatMarks /\ UNCHANGED <<reminderVars, linkVars, siteVars>>
Ageing(i) == Outdated(i) /\ UNCHANGED <<mail, reminderVars, linkVars, talkVars>>
Visiting(i) == Visit(i) /\ UNCHANGED <<mail, reminderVars, linkVars, talkVars>>
Making(i) == MakePage(i) /\ UNCHANGED <<mail, reminderVars, linkVars, talkVars>>

(***************************************************************************)
(* The event loop serves what is queued, timers fire, and a request that   *)
(* does not fail is answered; visitors keep coming to the public pages.    *)
(* That people act, or that anything fails, is never assumed.              *)
(***************************************************************************)
Fairness ==
  /\ \A l \in Letters : WF_officeVars(Mailing(l))
  /\ WF_officeVars(Fetching) /\ WF_officeVars(Marking)
  /\ \A i \in Items : WF_officeVars(Ageing(i)) /\ WF_officeVars(Visiting(i)) /\ WF_officeVars(Making(i))

FairSpec == Spec /\ Fairness
=============================================================================
