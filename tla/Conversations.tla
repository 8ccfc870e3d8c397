---------------------------- MODULE Conversations ----------------------------
(***************************************************************************)
(* The conversation of one case, from one side: MessagesService.send and   *)
(* markRead, the listener that rings the bell of the recipient and writes  *)
(* to him, and the ChatThread component in the recipient's browser.        *)
(*                                                                         *)
(* The component polls the thread while it is visible, and asks the server *)
(* to mark messages read once per batch of unread ones.  A refetch cancels *)
(* the one under way, so one page at most is on its way.  The texts, older *)
(* pages and the counts shown elsewhere are left out.                      *)
(***************************************************************************)
EXTENDS Mail, FiniteSets

CONSTANTS
  Messages,  \* messages to the reader, each of them sent once at most
  MaxMarks   \* bound: the thread is opened again with fewer mark requests on their way

ASSUME ConversationsAssumption ==
  IsFiniteSet(Messages) /\ Messages \X {"new"} \subseteq Letters /\ MaxMarks \in Nat

VARIABLES
  message,  \* the rows, and where the listener of each message stands
  bell,     \* notices of type MESSAGE about this case
  chat      \* the reader's ChatThread

talkVars == <<message, bell, chat>>

\* What a page says of a message: absent, "unread" or "read".
Pages == [Messages -> {"absent", "unread", "read"}]

TalkTypeOK ==
  /\ message \in [Messages -> [pc : {"unsent", "checking", "creating", "mailing", "over"},
                               read : BOOLEAN,
                               late : BOOLEAN]]  \* a notice appeared after its check
  /\ bell \in [Messages -> {"none", "unread", "read"}]
  /\ chat \in [view : {"away", "hidden", "active"},
               page : Pages,                    \* what is on the screen
               fetch : {"idle", "asked", "answered"},
               answer : Pages,                  \* the page on its way
               marked : SUBSET Messages,        \* lastMarkedKey
               asking : 0..MaxMarks + 2 * Cardinality(Messages),   \* mark requests under way
               answers : 0..MaxMarks + 2 * Cardinality(Messages),  \* answers on their way
               failed : BOOLEAN]                \* a request of the component failed

Blank == [m \in Messages |-> "absent"]

TalkInit ==
  /\ message = [m \in Messages |-> [pc |-> "unsent", read |-> FALSE, late |-> FALSE]]
  /\ bell = [m \in Messages |-> "none"]
  /\ chat = [view |-> "away", page |-> Blank, fetch |-> "idle", answer |-> Blank,
             marked |-> {}, asking |-> 0, answers |-> 0, failed |-> FALSE]
-----------------------------------------------------------------------------
Sent(m) == message[m].pc # "unsent"

\* send: the row is there, the listener is called.
Send(m) ==
  /\ message[m].pc = "unsent"
  /\ message' = [message EXCEPT ![m] = [message[m] EXCEPT !.pc = "checking"]]
  /\ UNCHANGED <<bell, chat, mail>>

HasUnread == \E n \in Messages : bell[n] = "unread"

\* Fault: asks for an unread notice of this very message.
CheckBellOfOwn(m) ==
  /\ message[m].pc = "checking"
  /\ message' = [message EXCEPT ![m] =
       [message[m] EXCEPT !.pc = IF bell[m] = "unread" THEN "over" ELSE "creating"]]
  /\ UNCHANGED <<bell, chat, mail>>

CheckBell(m) ==
  /\ message[m].pc = "checking"
  /\ message' = [message EXCEPT ![m] =
       [message[m] EXCEPT !.pc = IF HasUnread THEN "over" ELSE "creating"]]
  /\ UNCHANGED <<bell, chat, mail>>

CreateNotice(m) ==
  /\ message[m].pc = "creating"
  /\ bell' = [bell EXCEPT ![m] = "unread"]
  /\ message' = [n \in Messages |->
       IF n = m THEN [message[m] EXCEPT !.pc = "mailing"]
       ELSE IF message[n].pc = "creating" THEN [message[n] EXCEPT !.late = TRUE]
       ELSE message[n]]
  /\ UNCHANGED <<chat, mail>>

WriteToReader(m) ==
  /\ message[m].pc = "mailing"
  /\ message' = [message EXCEPT ![m] = [message[m] EXCEPT !.pc = "over"]]
  /\ mail' = Queued({<<m, "new">>})
  /\ UNCHANGED <<bell, chat>>

\* The listener catches what fails, and logs it.
NotifyFails(m) ==
  /\ message[m].pc \notin {"unsent", "over"}
  /\ message' = [message EXCEPT ![m] = [message[m] EXCEPT !.pc = "over"]]
  /\ UNCHANGED <<bell, chat, mail>>

TalkAfterCrash ==
  [m \in Messages |-> IF Sent(m) THEN [message[m] EXCEPT !.pc = "over"] ELSE message[m]]

\* markRead and markAllRead of the notices; S is one of them, or all.
ReadBell(S) ==
  /\ \E n \in S : bell[n] = "unread"
  /\ bell' = [n \in Messages |-> IF n \in S /\ bell[n] = "unread" THEN "read" ELSE bell[n]]
  /\ UNCHANGED <<message, chat, mail>>
-----------------------------------------------------------------------------
ServerPage ==
  [m \in Messages |-> IF ~Sent(m) THEN "absent" ELSE IF message[m].read THEN "read" ELSE "unread"]

Unread(page) == {m \in Messages : page[m] = "unread"}

\* Fault: only the first batch is marked.
MarkedOnce(c) ==
  IF c.view = "active" /\ Unread(c.page) # {} /\ c.marked = {}
  THEN [c EXCEPT !.marked = Unread(c.page), !.asking = c.asking + 1] ELSE c

\* The effect that marks a new batch, after each change of what is shown.
Marked(c) ==
  IF c.view = "active" /\ Unread(c.page) # {} /\ c.marked # Unread(c.page)
  THEN [c EXCEPT !.marked = Unread(c.page), !.asking = c.asking + 1] ELSE c

\* The component is mounted; what it showed before may still be in the cache.
OpenThread ==
  /\ chat.view = "away" /\ chat.asking + chat.answers < MaxMarks
  /\ chat' = Marked([chat EXCEPT !.view = "active", !.fetch = "asked", !.answer = Blank, !.marked = {}])
  /\ UNCHANGED <<message, bell, mail>>

LeaveThread ==
  /\ chat.view # "away"
  /\ chat' = [chat EXCEPT !.view = "away", !.fetch = "idle", !.answer = Blank]
  /\ UNCHANGED <<message, bell, mail>>

\* Another tab of the case page, and back.
HideThread ==
  /\ chat.view = "active"
  /\ chat' = [chat EXCEPT !.view = "hidden"]
  /\ UNCHANGED <<message, bell, mail>>

ShowThread ==
  /\ chat.view = "hidden"
  /\ chat' = Marked([chat EXCEPT !.view = "active"])
  /\ UNCHANGED <<message, bell, mail>>

Poll ==
  /\ chat.view = "active" /\ chat.fetch = "idle"
  /\ chat' = [chat EXCEPT !.fetch = "asked"]
  /\ UNCHANGED <<message, bell, mail>>

\* list, on the server.
ServePage ==
  /\ chat.fetch = "asked"
  /\ chat' = [chat EXCEPT !.fetch = "answered", !.answer = ServerPage]
  /\ UNCHANGED <<message, bell, mail>>

ShowPage ==
  /\ chat.fetch = "answered"
  /\ chat' = Marked([chat EXCEPT !.page = chat.answer, !.fetch = "idle", !.answer = Blank])
  /\ UNCHANGED <<message, bell, mail>>

PageFails ==
  /\ chat.fetch # "idle"
  /\ chat' = [chat EXCEPT !.fetch = "idle", !.answer = Blank, !.failed = TRUE]
  /\ UNCHANGED <<message, bell, mail>>

\* markRead, on the server: everything unread by now, shown or not.
MarkRead ==
  /\ chat.asking > 0
  /\ message' = [m \in Messages |-> IF Sent(m) THEN [message[m] EXCEPT !.read = TRUE] ELSE message[m]]
  /\ chat' = [chat EXCEPT !.asking = chat.asking - 1, !.answers = chat.answers + 1]
  /\ UNCHANGED <<bell, mail>>

\* onSuccess; the query is fetched again while the component is mounted.
MarkAnswered ==
  /\ chat.answers > 0
  /\ chat' = [chat EXCEPT !.answers = chat.answers - 1,
                          !.answer = Blank,
                          !.fetch = IF chat.view = "away" THEN "idle" ELSE "asked"]
  /\ UNCHANGED <<message, bell, mail>>

\* A mark request is lost, or its answer; it is not asked again for this batch.
MarkFails ==
  /\ \/ chat.asking > 0 /\ chat' = [chat EXCEPT !.asking = chat.asking - 1, !.failed = TRUE]
     \/ chat.answers > 0 /\ chat' = [chat EXCEPT !.answers = chat.answers - 1, !.failed = TRUE]
  /\ UNCHANGED <<message, bell, mail>>

ChatFetches == Poll \/ ServePage \/ ShowPage
ChatMarks == MarkRead \/ MarkAnswered

TalkStep ==
  \/ \E m \in Messages :
       Send(m) \/ CheckBell(m) \/ CreateNotice(m) \/ WriteToReader(m) \/ NotifyFails(m)
  \/ (\E m \in Messages : ReadBell({m})) \/ ReadBell(Messages)
  \/ OpenThread \/ LeaveThread \/ HideThread \/ ShowThread
  \/ ChatFetches \/ PageFails \/ ChatMarks \/ MarkFails
-----------------------------------------------------------------------------
(***************************************************************************)
(* "One unread notification per conversation": two unread notices mean     *)
(* that two messages came so close together that the second was checked    *)
(* before the notice of the first was there.                               *)
(***************************************************************************)
OnlyOverlappingMessagesRepeat ==
  \A m, n \in Messages :
    (m # n /\ bell[m] = "unread" /\ bell[n] = "unread") => message[m].late \/ message[n].late

(***************************************************************************)
(* While the thread stays open and none of its requests fails, the screen  *)
(* and the server come to agree: every message sent is shown, and read on  *)
(* both sides - also one that came while an earlier batch was marked.      *)
(***************************************************************************)
ReaderAndServerAgree ==
  (<>[](chat.view = "active") /\ []~chat.failed) =>
    <>[](\A m \in Messages : Sent(m) => message[m].read /\ chat.page[m] = "read")
=============================================================================
