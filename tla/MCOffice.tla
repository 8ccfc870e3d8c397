------------------------------- MODULE MCOffice -------------------------------
(***************************************************************************)
(* A small instance of Office.  Its components share no state but the mail *)
(* and the process, so a behaviour here moves one of them, the scene, and  *)
(* the whole is the sum of the scenes, not their product.                  *)
(***************************************************************************)
EXTENDS Office

CONSTANT Scenes  \* the scenes looked at

VARIABLE scene

MCDue == [x \in Rows |-> IF x \in RequestRows THEN -1 ELSE 1]
MCStaffOf == [x \in Rows |-> "lawyer"]
MCLetters ==
  Runs \X {"lawyer"} \cup IssueCalls \X {"link"} \cup UseCalls \X {"changed"} \cup Messages \X {"new"}

MCInit == Init /\ scene \in Scenes

Quiet == \A x \in RequestRows : ~row[x].moved
OneRun == \A r, s \in Runs : r # s => "new" \in {run[r].pc, run[s].pc}
OnlySent == \A m \in Messages : message[m].pc \in {"unsent", "checking"}
OneUpdate ==
  \A d \in Desks :
    desk[d].pc = "idle"
      \/ /\ \A e \in Desks : e # d => desk[e].pc = "idle"
         /\ desk[d].pc = "story" => desk[d].data.consent = Keep /\ desk[d].data.note = Keep

\* day: several runs of the reminders; the digests stay queued.  The document
\* request is never answered; the invoice has the same changes of state, and more.
\* mail: one run, and all that can happen to its digest.
\* links: calls that overlap; letters with a link just arrive, others stay queued.
\* bell: the listeners of messages.  chat: the thread on the reader's screen.
\* stories, posts: updates that overlap.  pages: one plain update at a time.
MCNext ==
  /\ UNCHANGED scene
  /\ \/ scene = "day" /\ Reminding /\ Quiet'
     \/ scene = "mail" /\ Reminding /\ OneRun' /\ Quiet'
     \/ scene = "mail" /\ \E l \in Letters : Mailing(l)
     \/ scene = "links" /\ Linking
     \/ scene = "links" /\ \E c \in IssueCalls :
          (Begin(<<c, "link">>) \/ Deliver(<<c, "link">>)) /\ Mailing(<<c, "link">>)
     \/ scene = "bell" /\ Talking /\ UNCHANGED chat
     \/ scene = "chat" /\ Talking /\ UNCHANGED <<bell, mail>> /\ OnlySent'
     \/ scene = "stories" /\ Publishing /\ UNCHANGED <<post, page>>
     \/ scene = "posts" /\ Publishing /\ UNCHANGED <<story, page>>
     \/ scene = "pages" /\ Publishing /\ OneUpdate'
     \/ Crash

\* The fairness of Office for what moves in the scene.
MCFairness ==
  LET v == <<officeVars, scene>>
  IN  /\ \A l \in Letters : WF_v(scene = "mail" /\ Mailing(l) /\ UNCHANGED scene)
      /\ WF_v(scene = "chat" /\ Fetching /\ UNCHANGED scene)
      /\ WF_v(scene = "chat" /\ Marking /\ UNCHANGED scene)
      /\ \A i \in Items :
           /\ WF_v(scene = "pages" /\ Ageing(i) /\ UNCHANGED scene)
           /\ WF_v(scene = "pages" /\ Visiting(i) /\ UNCHANGED scene)
           /\ WF_v(scene = "pages" /\ Making(i) /\ UNCHANGED scene)

(***************************************************************************)
(* No letter is tried for ever: it is logged, or lost with the process     *)
(* (MailService.send).  In the other scenes the letters just stay queued.  *)
(***************************************************************************)
MCLettersEnd == scene = "mail" => LettersEnd

(***************************************************************************)
(* What a browser shows catches up with the server: the thread of a chat   *)
(* (chat-thread.tsx), and the cached pages of the public site, on which    *)
(* nothing stays that was withdrawn (revalidate).                          *)
(***************************************************************************)
ScreensCatchUp == ReaderAndServerAgree /\ WithdrawnLeavesTheSite

MCSpec == MCInit /\ [][MCNext]_<<officeVars, scene>> /\ MCFairness
=============================================================================
