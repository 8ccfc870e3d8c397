----------------------------- MODULE OfficeProofs -----------------------------
(***************************************************************************)
(* Proofs about Office, for any number of letters, attempts, rows, runs,   *)
(* days, links, messages, testimonials, posts and calls in flight.  The    *)
(* components share the mail and the process only, so each has an          *)
(* invariant of its own, which the steps of the others leave alone; one    *)
(* more relates the mail to who has still to write it.                     *)
(***************************************************************************)
EXTENDS Office, FiniteSetTheorems, TLAPS

(***************************************************************************)
(* Mail.  A letter that is tried has attempts left; what it got and what   *)
(* is about to be logged go together.                                      *)
(***************************************************************************)
LetterFits(k) ==
  /\ k \in Letter
  /\ k.got =< k.tries
  /\ k.pc \in {"unwritten", "queued"} => k.tries = 0 /\ k.log = "none"
  /\ k.pc = "trying" => k.tries < MaxTries /\ k.log = "none" /\ (k.got > 0 => k.unheard)
  /\ k.log = "SENT" => k.got > 0
  /\ k.log = "SKIPPED" => k.got = 0
  /\ k.log = "FAILED" /\ k.got > 0 => k.unheard
  /\ k.got > 1 => k.unheard

MailInv == MailTypeOK /\ \A l \in Letters : LetterFits(mail[l])

\* Whoever may still write a letter has not written it before.
UnwrittenYet ==
  /\ \A r \in Runs, x \in TaskRows \cup InvoiceRows :
       run[r].pc \notin {"over", "dead"} => mail[<<r, StaffOf[x]>>].pc = "unwritten"
  /\ \A c \in IssueCalls : linkCall[c].pc # "over" => mail[<<c, "link">>].pc = "unwritten"
  /\ \A c \in UseCalls : linkCall[c].pc # "over" => mail[<<c, "changed">>].pc = "unwritten"
  /\ \A m \in Messages : message[m].pc # "over" => mail[<<m, "new">>].pc = "unwritten"

(***************************************************************************)
(* Reminders.                                                              *)
(***************************************************************************)
\* The rows a reminder of this kind may be about on a day.
Fits(x, kind, day) ==
  \/ kind = "tasks" /\ x \in TaskRows
  \/ kind = "overdue" /\ x \in InvoiceRows /\ Due[x] < day
  \/ kind = "tomorrow" /\ x \in InvoiceRows /\ Due[x] = day + 1
  \/ kind = "requests" /\ x \in RequestRows

RunsFit ==
  /\ \A r \in Runs :
       /\ run[r].pc = "new" => run[r].ids = {} /\ run[r].found = {}
       /\ run[r].pc # "new" => run[r].now \in Times
       /\ \A x \in run[r].ids : Fits(x, KindOf(r), Day(run[r].now))
       /\ \A x \in Rows, kind \in Kinds :
            <<x, kind>> \in run[r].found => Fits(x, kind, Day(run[r].now))
  /\ \A n \in notices : Fits(n.row, n.kind, Day(n.at))

\* A reminder of x at time t was sent, is on its way, or was when its run died.
Reminded(x, kind, t) ==
  \/ t # 0 /\ row[x].last = t /\ Fits(x, kind, Day(t))
  \/ \E n \in notices : n.row = x /\ n.kind = kind /\ n.at = t
  \/ \E r \in Runs : run[r].now = t /\ <<x, kind>> \in run[r].found

\* The marks of a row tell which reminders there were.
MarksKept ==
  \A x \in Rows, kind \in Kinds, t \in Times : Reminded(x, kind, t) =>
    /\ kind # "overdue" => row[x].last # 0 /\ Day(t) =< Day(row[x].last)
    /\ kind = "overdue" => row[x].state # "waiting" \/ row[x].back

OneADay ==
  \A x \in Rows, kind, kind2 \in Kinds, t, u \in Times :
    Reminded(x, kind, t) /\ Reminded(x, kind2, u) /\ Day(t) = Day(u) =>
      t = u \/ (kind = "overdue" /\ kind2 = "overdue" /\ row[x].back)

\* Run r, unless it dies, will create the reminder that the mark of x stands for.
Bears(r, x) ==
  /\ run[r].now = row[x].last
  /\ \/ run[r].pc = "dead"
     \/ run[r].pc = "collecting" /\ x \in Claimed(r)
     \/ /\ run[r].pc \in {"finding", "claiming", "collecting", "telling"}
        /\ \E kind \in Kinds : <<x, kind>> \in run[r].found

MarksBorne ==
  \A x \in Rows :
    \/ row[x].last = 0 \/ row[x].moved
    \/ \E n \in notices : n.row = x /\ n.at = row[x].last
    \/ \E r \in Runs : Bears(r, x)

ReminderInv == ReminderTypeOK /\ RunsFit /\ MarksKept /\ OneADay /\ MarksBorne

(***************************************************************************)
(* One-time links.                                                         *)
(***************************************************************************)
\* The row of a link is made by its own call, once.
LinkMadeOnce ==
  \A c \in IssueCalls : linkCall[c].pc \in {"new", "deleting", "creating"} =>
    link[c].row = "none" /\ link[c].made = 0

\* A use that was not overtaken has deleted the row of its link itself.
Burnt(c) == linkCall[c].set \/ linkCall[c].pc = "setting"
BurntByOne ==
  /\ \A c \in UseCalls :
       /\ linkCall[c].pc \in {"new", "deleting"} => ~ linkCall[c].set
       /\ linkCall[c].pc # "new" => link[linkCall[c].of].row # "none" \/ ~ Burnt(c)
       /\ linkCall[c].pc = "deleting" => link[linkCall[c].of].row # "none"
       /\ Burnt(c) /\ ~ linkCall[c].late => link[linkCall[c].of].row = "deleted"
  /\ \A c, d \in UseCalls :
       c # d /\ Burnt(c) /\ Burnt(d) /\ linkCall[c].of = linkCall[d].of =>
         linkCall[c].late \/ linkCall[d].late

\* A call that is to create a link, and was not overtaken, finds no other one.
OthersCleared ==
  /\ \A c, l \in IssueCalls :
       linkCall[c].pc = "creating" /\ ~ linkCall[c].late /\ c # l /\ Stored(l) =>
         link[l].purpose # link[c].purpose
  /\ \A k, l \in IssueCalls :
       k # l /\ Stored(k) /\ Stored(l) /\ link[k].purpose = link[l].purpose =>
         linkCall[k].late \/ linkCall[l].late

LinkInv == LinksTypeOK /\ LinkMadeOnce /\ BurntByOne /\ OthersCleared

(***************************************************************************)
(* The conversation.                                                       *)
(***************************************************************************)
\* A listener about to ring, and not overtaken, finds no unread notice.
BellFree ==
  \A m \in Messages :
    /\ message[m].pc = "creating" /\ ~ message[m].late => ~ HasUnread
    /\ message[m].pc \in {"unsent", "checking", "creating"} => bell[m] = "none"

\* What a page shows of a message never goes back.
NotBefore(p, q) ==
  \A m \in Messages : p[m] = q[m] \/ p[m] = "absent" \/ q[m] = "read"

PagesInOrder ==
  /\ NotBefore(chat.page, ServerPage)
  /\ chat.fetch = "answered" => NotBefore(chat.page, chat.answer) /\ NotBefore(chat.answer, ServerPage)

\* How far the page on the screen has come.
Progress(p) ==
  Cardinality({m \in Messages : p[m] # "absent"}) + Cardinality({m \in Messages : p[m] = "read"})

\* Each mark request needs a page that has come further.
MarksBounded ==
  /\ chat.asking + chat.answers =< MaxMarks + Progress(chat.page)
  /\ Unread(chat.page) \notin {{}, chat.marked} =>
       chat.asking + chat.answers < MaxMarks + Progress(chat.page)

TalkInv == TalkTypeOK /\ BellFree /\ OnlyOverlappingMessagesRepeat /\ PagesInOrder /\ MarksBounded

(***************************************************************************)
(* The public site.  What an update is about to write was decided on the   *)
(* row as it still is, unless the update was overtaken.                    *)
(***************************************************************************)
FitsStory(update, now) ==
  LET data == update.data
  IN  /\ now.status # "none"
      /\ ~ update.stale /\ now.status \notin Absent /\ Given(data.status, now.status) = "PUBLISHED" =>
           /\ Given(data.consent, now.consent) /\ Given(data.note, now.note)
           /\ now.status = "PUBLISHED" \/ data.dated = TRUE
           /\ data.dated # FALSE

FitsPost(update, now) ==
  LET data == update.data
  IN  /\ now.status # "none"
      /\ data.status = "PUBLISHED" => data.date # "none"
      /\ ~ update.stale /\ ~ data.named /\ now.status \notin Absent => data.status = now.status

UpdatesFit ==
  \A d \in Desks :
    /\ desk[d].pc = "story" => FitsStory(desk[d], story[desk[d].item])
    /\ desk[d].pc = "post" => FitsPost(desk[d], post[desk[d].item])

SiteInv == SiteTypeOK /\ OnlyOvertakenCallsMispublish /\ UpdatesFit

OfficeInv == MailInv /\ UnwrittenYet /\ ReminderInv /\ LinkInv /\ TalkInv /\ SiteInv
-----------------------------------------------------------------------------
(***************************************************************************)
(* Mail.                                                                   *)
(***************************************************************************)
LEMMA MailInitFits == MailInit => MailInv
BY MailAssumption DEF MailInit, MailInv, MailTypeOK, LetterFits, Letter

\* One letter gets further.
LEMMA LetterFurther ==
  ASSUME MailInv, NEW l \in Letters, NEW k, LetterFits(k), mail' = [mail EXCEPT ![l] = k]
  PROVE  MailInv'
<1>1. \A m \in Letters : mail'[m] = IF m = l THEN k ELSE mail[m]
  BY DEF MailInv, MailTypeOK
<1>2. mail' \in [Letters -> Letter]
  BY DEF MailInv, MailTypeOK, LetterFits
<1> QED BY <1>1, <1>2 DEF MailInv, MailTypeOK

LEMMA MailStepFits ==
  ASSUME MailInv, NEW l \in Letters, MailStep(l)
  PROVE  MailInv'
<1> DEFINE k == mail[l]
           n == k.tries + 1
<1>1. LetterFits(k) /\ MaxTries \in Nat \ {0}
  BY MailAssumption DEF MailInv
<1>2. CASE Skip(l)
  <2> DEFINE s == [k EXCEPT !.pc = "logging", !.log = "SKIPPED"]
  <2>1. k.pc = "queued" /\ k.tries = 0 /\ k.got \in Nat /\ k.got =< k.tries
    BY <1>1, <1>2 DEF Skip, LetterFits, Letter
  <2>2. s \in Letter /\ s.pc = "logging" /\ s.log = "SKIPPED" /\ s.got = k.got /\ s.tries = k.tries
    BY <1>1 DEF LetterFits, Letter
  <2> HIDE DEF s
  <2>3. s.got = 0 /\ s.tries = 0
    BY <2>1, <2>2
  <2>4. LetterFits(s)
    BY <1>1, <2>2, <2>3 DEF LetterFits
  <2> USE DEF s
  <2> QED BY <1>2, <2>4, LetterFurther DEF Skip
<1>3. CASE Begin(l)
  <2> DEFINE s == [k EXCEPT !.pc = "trying"]
  <2>1. LetterFits(s)
    BY <1>1, <1>3 DEF Begin, LetterFits, Letter
  <2> QED BY <1>3, <2>1, LetterFurther DEF Begin
<1>4. CASE BeginFails(l)
  <2> DEFINE s == [k EXCEPT !.pc = "ended"]
  <2>1. LetterFits(s)
    BY <1>1, <1>4 DEF BeginFails, LetterFits, Letter
  <2> QED BY <1>4, <2>1, LetterFurther DEF BeginFails
<1>5. CASE Deliver(l)
  <2> DEFINE s == [k EXCEPT !.tries = k.tries + 1, !.got = k.got + 1, !.pc = "logging", !.log = "SENT"]
  <2>1. /\ k.pc = "trying" /\ k.tries \in Nat /\ k.got \in Nat
        /\ k.tries < MaxTries /\ k.got =< k.tries /\ (k.got > 0 => k.unheard)
    BY <1>1, <1>5 DEF Deliver, LetterFits, Letter
  <2>2. /\ s.tries = n /\ s.got = k.got + 1 /\ s.unheard = k.unheard
        /\ s.pc = "logging" /\ s.log = "SENT"
    BY <1>1 DEF LetterFits, Letter
  <2>3. n \in 0..MaxTries /\ k.got + 1 \in 0..MaxTries
    BY <1>1, <2>1
  <2>4. s \in Letter
    BY <1>1, <2>3 DEF LetterFits, Letter
  <2> HIDE DEF s
  <2>5. LetterFits(s)
    BY <1>1, <2>1, <2>2, <2>4 DEF LetterFits
  <2> USE DEF s
  <2> QED BY <1>5, <2>5, LetterFurther DEF Deliver
<1>6. ASSUME NEW got \in 0..MaxTries, DeliverFails(l, got) PROVE MailInv'
  <2> DEFINE s == [k EXCEPT !.tries = n, !.got = got, !.unheard = k.unheard \/ got # k.got,
                            !.pc = IF n < MaxTries THEN "trying" ELSE "logging",
                            !.log = IF n < MaxTries THEN "none" ELSE "FAILED"]
  <2>1. k.pc = "trying" /\ got \in {k.got, k.got + 1} /\ mail' = [mail EXCEPT ![l] = s]
    BY <1>6 DEF DeliverFails
  <2>2. /\ s.tries = n /\ s.got = got /\ s.unheard = (k.unheard \/ got # k.got)
        /\ s.pc = (IF n < MaxTries THEN "trying" ELSE "logging")
        /\ s.log = (IF n < MaxTries THEN "none" ELSE "FAILED")
    BY <1>1 DEF LetterFits, Letter
  <2>3. s \in Letter
    <3> DEFINE unheard == k.unheard \/ got # k.got
    <3>1. n \in 0..MaxTries /\ unheard \in BOOLEAN
      BY <1>1, <2>1 DEF LetterFits, Letter
    <3> HIDE DEF unheard
    <3>2. s = [k EXCEPT !.tries = n, !.got = got, !.unheard = unheard,
                        !.pc = IF n < MaxTries THEN "trying" ELSE "logging",
                        !.log = IF n < MaxTries THEN "none" ELSE "FAILED"]
      BY DEF unheard
    <3> QED BY <1>1, <3>1, <3>2 DEF LetterFits, Letter
  <2> HIDE DEF s
  <2>4. /\ k.tries \in Nat /\ k.got \in Nat /\ k.tries < MaxTries /\ k.got =< k.tries
        /\ k.got > 0 => k.unheard
    BY <1>1, <2>1 DEF LetterFits, Letter
  <2>5. s.got > 0 => s.unheard
    BY <2>1, <2>2, <2>4
  <2>6. LetterFits(s)
    BY <1>1, <2>1, <2>2, <2>3, <2>4, <2>5 DEF LetterFits
  <2> QED BY <2>1, <2>6, LetterFurther
<1>7. CASE Record(l)
  <2>1. PICK log \in {k.log, "none"} : mail' = [mail EXCEPT ![l] = [k EXCEPT !.pc = "ended", !.log = log]]
    BY <1>7 DEF Record
  <2> DEFINE s == [k EXCEPT !.pc = "ended", !.log = log]
  <2>2. LetterFits(s)
    BY <1>1, <1>7, <2>1 DEF Record, LetterFits, Letter
  <2> QED BY <2>1, <2>2, LetterFurther
<1> QED BY <1>2, <1>3, <1>4, <1>5, <1>6, <1>7 DEF MailStep

\* What is written was not written before.
LEMMA QueuedFits ==
  ASSUME MailInv, NEW L, \A l \in L \cap Letters : mail[l].pc = "unwritten", mail' = Queued(L)
  PROVE  MailInv'
<1>1. ASSUME NEW l \in Letters PROVE LetterFits(mail'[l])
  <2>1. LetterFits(mail[l])
    BY DEF MailInv
  <2>2. CASE l \in L
    <3> DEFINE s == [mail[l] EXCEPT !.pc = "queued"]
    <3>1. mail'[l] = s
      BY <2>2 DEF Queued
    <3>2. LetterFits(s)
      BY <2>1, <2>2 DEF LetterFits, Letter
    <3> QED BY <3>1, <3>2
  <2>3. CASE l \notin L
    BY <2>1, <2>3 DEF Queued
  <2> QED BY <2>2, <2>3
<1>2. DOMAIN mail' = Letters /\ mail' = [l \in Letters |-> mail'[l]]
  BY DEF Queued
<1>3. mail' \in [Letters -> Letter]
  BY <1>1, <1>2 DEF LetterFits
<1> QED BY <1>1, <1>3 DEF MailInv, MailTypeOK

LEMMA MailCrashFits ==
  ASSUME MailInv, mail' = MailAfterCrash
  PROVE  MailInv'
<1>1. ASSUME NEW l \in Letters PROVE LetterFits(mail'[l])
  <2>1. LetterFits(mail[l])
    BY DEF MailInv
  <2> DEFINE s == [mail[l] EXCEPT !.pc = "ended", !.log = "none"]
  <2>2. LetterFits(s)
    BY <2>1 DEF LetterFits, Letter
  <2>3. mail'[l] = s \/ mail'[l] = mail[l]
    BY DEF MailAfterCrash
  <2> QED BY <2>1, <2>2, <2>3
<1>2. DOMAIN mail' = Letters /\ mail' = [l \in Letters |-> mail'[l]]
  BY DEF MailAfterCrash
<1>3. mail' \in [Letters -> Letter]
  BY <1>1, <1>2 DEF LetterFits
<1> QED BY <1>1, <1>3 DEF MailInv, MailTypeOK

LEMMA MailStays == MailInv /\ UNCHANGED mail => MailInv'
BY DEF MailInv, MailTypeOK
-----------------------------------------------------------------------------
(***************************************************************************)
(* Reminders.                                                              *)
(***************************************************************************)
LEMMA DayTyped == \A t \in Nat : Day(t) \in Int
BY RemindersAssumption DEF Day

LEMMA TimesTyped == \A t \in Times : t \in Nat /\ t # 0 /\ Day(t) \in Int
BY RemindersAssumption, DayTyped DEF Times

LEMMA FitsOneKind ==
  ASSUME NEW x \in Rows, NEW kind, NEW kind2, NEW day \in Int, Fits(x, kind, day), Fits(x, kind2, day)
  PROVE  kind = kind2
<1>1. Due[x] \in Int
  BY RemindersAssumption
<1> QED BY <1>1, RemindersAssumption DEF Fits

LEMMA WantedFits ==
  ASSUME NEW kind, NEW day, NEW x \in Wanted(kind, day)
  PROVE  /\ x \in Rows /\ Fits(x, kind, day) /\ row[x].state = "waiting"
         /\ kind # "overdue" => NotReminded(x, day)
BY DEF Wanted, Fits

LEMMA KindsTyped ==
  /\ Kinds = {"tasks", "overdue", "tomorrow", "requests"}
  /\ \A r \in Runs : ReminderTypeOK => KindOf(r) \in Kinds
<1>1. DOMAIN Phases = 1..4
  BY DEF Phases
<1>2. Kinds = {Phases[1], Phases[2], Phases[3], Phases[4]}
  BY <1>1 DEF Kinds
<1>3. Kinds = {"tasks", "overdue", "tomorrow", "requests"}
  BY <1>2 DEF Phases
<1>4. ASSUME NEW r \in Runs, ReminderTypeOK PROVE KindOf(r) \in Kinds
  BY <1>4 DEF ReminderTypeOK, RunState, KindOf, Kinds
<1> QED BY <1>3, <1>4

LEMMA RemindedFits ==
  ASSUME RunsFit, NEW x \in Rows, NEW kind \in Kinds, NEW t, Reminded(x, kind, t)
  PROVE  Fits(x, kind, Day(t))
BY DEF RunsFit, Reminded

LEMMA ReminderInitFits == ReminderInit => ReminderInv
<1> SUFFICES ASSUME ReminderInit PROVE ReminderInv
  OBVIOUS
<1>1. ReminderTypeOK
  <2>1. 1 \in DOMAIN Phases
    BY DEF Phases
  <2> QED BY <2>1, RemindersAssumption DEF ReminderInit, ReminderTypeOK, Times, RowState, RunState
<1>2. RunsFit
  BY DEF ReminderInit, RunsFit
<1>3. \A x \in Rows, kind \in Kinds, t \in Times : ~ Reminded(x, kind, t)
  BY DEF ReminderInit, Reminded
<1>4. MarksBorne
  BY DEF ReminderInit, MarksBorne
<1> QED BY <1>1, <1>2, <1>3, <1>4 DEF ReminderInv, MarksKept, OneADay

(***************************************************************************)
(* Run r goes on as k; no row changes.  Its new reminders are those that   *)
(* the rows have the mark of, the notices it creates are those it found.   *)
(***************************************************************************)
Creates(r) ==
  /\ notices \subseteq notices'
  /\ notices' \subseteq [row : Rows, kind : Kinds, at : Times, by : Runs]
  /\ \A n \in notices' \ notices : n.at = run[r].now /\ <<n.row, n.kind>> \in run[r].found

LEMMA CreatesNone == ReminderTypeOK /\ UNCHANGED notices => \A r \in Runs : Creates(r)
BY DEF ReminderTypeOK, Creates

LEMMA RunMoves ==
  ASSUME ReminderInv, NEW r \in Runs, NEW k \in RunState, run' = [run EXCEPT ![r] = k],
         UNCHANGED row, clock' \in Times,
         k.pc # "new", k.now \in Times, k.now = run[r].now \/ run[r].pc = "new",
         \A x \in k.ids : Fits(x, Phases[k.phase], Day(k.now)),
         \A x \in Rows, kind \in Kinds : <<x, kind>> \in k.found =>
           <<x, kind>> \in run[r].found \/ (row[x].last = k.now /\ Fits(x, kind, Day(k.now))),
         Creates(r),
         \A x \in Rows : Bears(r, x) =>
           \/ k.pc = "dead"
           \/ /\ k.pc \in {"finding", "claiming", "collecting", "telling"}
              /\ \E kind \in Kinds : <<x, kind>> \in k.found
           \/ \E n \in notices' : n.row = x /\ n.at = row[x].last
  PROVE  ReminderInv'
<1>1. /\ ReminderTypeOK /\ RunsFit /\ MarksKept /\ OneADay /\ MarksBorne
      /\ run \in [Runs -> RunState]
  BY DEF ReminderInv, ReminderTypeOK
<1>2. /\ run'[r] = k /\ run' \in [Runs -> RunState]
      /\ \A q \in Runs \ {r} : run'[q] = run[q]
  BY <1>1
<1>3. ReminderTypeOK'
  BY <1>1, <1>2 DEF ReminderTypeOK, Creates
<1>4. \A x \in Rows, kind \in Kinds : <<x, kind>> \in k.found =>
        \/ k.now = run[r].now /\ <<x, kind>> \in run[r].found
        \/ row[x].last = k.now /\ Fits(x, kind, Day(k.now))
  BY <1>1 DEF RunsFit
<1>5. \A x \in Rows, kind \in Kinds, t \in Times : Reminded(x, kind, t)' => Reminded(x, kind, t)
  <2> SUFFICES ASSUME NEW x \in Rows, NEW kind \in Kinds, NEW t \in Times, Reminded(x, kind, t)'
               PROVE  Reminded(x, kind, t)
    OBVIOUS
  <2>1. CASE row'[x].last = t /\ Fits(x, kind, Day(t))
    BY <2>1, TimesTyped DEF Reminded
  <2>2. ASSUME NEW n \in notices', n.row = x, n.kind = kind, n.at = t PROVE Reminded(x, kind, t)
    BY <2>2 DEF Reminded, Creates
  <2>3. ASSUME NEW q \in Runs, run'[q].now = t, <<x, kind>> \in run'[q].found
        PROVE  Reminded(x, kind, t)
    <3>1. CASE q = r
      BY <1>2, <1>4, <2>3, <3>1, TimesTyped DEF Reminded
    <3>2. CASE q # r
      BY <1>2, <2>3, <3>2 DEF Reminded
    <3> QED BY <3>1, <3>2
  <2> QED BY <2>1, <2>2, <2>3 DEF Reminded, Fits
<1>6. MarksKept' /\ OneADay'
  BY <1>1, <1>5 DEF MarksKept, OneADay
<1>7. RunsFit'
  <2>1. ASSUME NEW q \in Runs
        PROVE  /\ run'[q].pc = "new" => run'[q].ids = {} /\ run'[q].found = {}
               /\ run'[q].pc # "new" => run'[q].now \in Times
               /\ \A x \in run'[q].ids : Fits(x, Phases[run'[q].phase], Day(run'[q].now))
               /\ \A x \in Rows, kind \in Kinds :
                    <<x, kind>> \in run'[q].found => Fits(x, kind, Day(run'[q].now))
    <3>1. CASE q = r
      BY <1>1, <1>2, <1>4, <3>1 DEF RunsFit
    <3>2. CASE q # r
      BY <1>1, <1>2, <3>2 DEF RunsFit, KindOf
    <3> QED BY <3>1, <3>2
  <2>2. ASSUME NEW n \in notices' PROVE Fits(n.row, n.kind, Day(n.at))
    <3>1. n.row \in Rows /\ n.kind \in Kinds
      BY DEF Creates
    <3>2. CASE n \in notices
      BY <1>1, <3>2 DEF RunsFit
    <3>3. CASE n \notin notices
      <4>1. n.at = run[r].now /\ <<n.row, n.kind>> \in run[r].found
        BY <3>3 DEF Creates
      <4>2. Fits(n.row, n.kind, Day(run[r].now))
        BY <1>1, <3>1, <4>1 DEF RunsFit
      <4> QED BY <4>1, <4>2
    <3> QED BY <3>2, <3>3
  <2> QED BY <2>1, <2>2 DEF RunsFit, KindOf, Fits, Day
<1>8. MarksBorne'
  <2> SUFFICES ASSUME NEW x \in Rows, row[x].last # 0, ~ row[x].moved,
                      ~ \E n \in notices' : n.row = x /\ n.at = row[x].last
               PROVE  \E q \in Runs : Bears(q, x)'
    BY DEF MarksBorne
  <2>1. PICK q \in Runs : Bears(q, x)
    <3>1. ~ \E n \in notices : n.row = x /\ n.at = row[x].last
      BY DEF Creates
    <3> QED BY <1>1, <3>1 DEF MarksBorne
  <2>2. CASE q = r
    <3>1. run[r].pc # "new"
      BY <2>1, <2>2 DEF Bears
    <3> QED BY <1>2, <2>1, <2>2, <3>1 DEF Bears
  <2>3. CASE q # r
    BY <1>2, <2>1, <2>3 DEF Bears, Claimed, KindOf
  <2> QED BY <2>2, <2>3
<1> QED BY <1>3, <1>6, <1>7, <1>8 DEF ReminderInv

\* The phase is over.
LEMMA FurtherShape ==
  ASSUME ReminderTypeOK, NEW r \in Runs, NEW found \in SUBSET (Rows \X Kinds), NEW k, k = Further(r, found)
  PROVE  /\ k \in RunState /\ k.now = run[r].now /\ k.ids = {} /\ k.found = found
         /\ k.pc = "finding" \/ k.pc = "telling" \/ (k.pc = "over" /\ found = {})
<1>1. run[r] \in RunState /\ DOMAIN Phases = 1..4
  BY DEF ReminderTypeOK, Phases
<1>2. CASE run[r].phase < 4
  <2>1. k = [run[r] EXCEPT !.pc = "finding", !.phase = run[r].phase + 1, !.ids = {}, !.found = found]
    BY <1>2 DEF Further
  <2>2. run[r].phase + 1 \in DOMAIN Phases
    BY <1>1, <1>2 DEF RunState
  <2> QED BY <1>1, <2>1, <2>2 DEF RunState
<1>3. CASE ~ run[r].phase < 4 /\ found = {}
  BY <1>1, <1>3 DEF Further, RunState
<1>4. CASE ~ run[r].phase < 4 /\ found # {}
  BY <1>1, <1>4 DEF Further, RunState
<1> QED BY <1>2, <1>3, <1>4

LEMMA StartRunFits ==
  ASSUME ReminderInv, NEW r \in Runs, StartRun(r)
  PROVE  ReminderInv'
<1> DEFINE k == [run[r] EXCEPT !.pc = "finding", !.now = clock]
<1>1. /\ run[r] \in RunState /\ clock \in Times /\ run[r].ids = {} /\ run[r].found = {}
      /\ ReminderTypeOK
  BY DEF ReminderInv, ReminderTypeOK, RunsFit, StartRun
<1>2. run[r].pc = "new" /\ run' = [run EXCEPT ![r] = k] /\ UNCHANGED <<clock, row, notices>>
  BY DEF StartRun
<1>3. clock \in 0..MaxClock
  BY <1>1, RemindersAssumption DEF Times
<1>4. k \in RunState /\ k.pc = "finding" /\ k.now = clock /\ k.ids = {} /\ k.found = {}
  BY <1>1, <1>3 DEF RunState
<1> HIDE DEF k
<1>5. \A x \in Rows : ~ Bears(r, x)
  BY <1>2 DEF Bears
<1> QED BY <1>1, <1>2, <1>4, <1>5, CreatesNone, RunMoves

LEMMA FindFits ==
  ASSUME ReminderInv, NEW r \in Runs, Find(r)
  PROVE  ReminderInv'
<1> DEFINE ids == Wanted(KindOf(r), Day(run[r].now))
           k == IF ids = {} THEN Further(r, run[r].found)
                ELSE [run[r] EXCEPT !.pc = "claiming", !.ids = ids]
<1>1. /\ ReminderTypeOK /\ run[r] \in RunState /\ clock \in Times
      /\ ReminderTypeOK
  BY DEF ReminderInv, ReminderTypeOK
<1>2. run[r].pc = "finding" /\ run' = [run EXCEPT ![r] = k] /\ UNCHANGED <<clock, row, notices>>
  BY DEF Find
<1>3. run[r].now \in Times /\ run[r].found \in SUBSET (Rows \X Kinds)
  BY <1>1, <1>2 DEF ReminderInv, RunsFit, RunState
<1>4. \A x \in ids : x \in Rows /\ Fits(x, KindOf(r), Day(run[r].now))
  BY WantedFits
<1>5. \A x \in Rows : Bears(r, x) => \E kind \in Kinds : <<x, kind>> \in run[r].found
  BY <1>2 DEF Bears
<1>6. CASE ids = {}
  <2>1. k = Further(r, run[r].found)
    BY <1>6
  <2> HIDE DEF k
  <2>2. /\ k \in RunState /\ k.now = run[r].now /\ k.ids = {} /\ k.found = run[r].found
        /\ k.pc = "finding" \/ k.pc = "telling" \/ (k.pc = "over" /\ run[r].found = {})
    BY <1>1, <1>3, <2>1, FurtherShape
  <2> QED BY <1>1, <1>2, <1>3, <1>5, <2>2, CreatesNone, RunMoves
<1>7. CASE ids # {}
  <2> HIDE DEF ids
  <2>1. /\ k \in RunState /\ k.pc = "claiming" /\ k.now = run[r].now /\ k.ids = ids
        /\ k.found = run[r].found /\ k.phase = run[r].phase
    BY <1>1, <1>4, <1>7 DEF RunState
  <2> HIDE DEF k
  <2>2. \A x \in k.ids : Fits(x, Phases[k.phase], Day(k.now))
    BY <1>4, <2>1 DEF KindOf
  <2> QED BY <1>1, <1>2, <1>3, <1>5, <2>1, <2>2, CreatesNone, RunMoves
<1> QED BY <1>6, <1>7

LEMMA CollectFits ==
  ASSUME ReminderInv, NEW r \in Runs, Collect(r)
  PROVE  ReminderInv'
<1> DEFINE found == run[r].found \cup (Claimed(r) \X {KindOf(r)})
           k == Further(r, found)
<1>1. /\ ReminderTypeOK /\ run[r] \in RunState /\ clock \in Times
      /\ ReminderTypeOK
      /\ KindOf(r) \in Kinds
  BY KindsTyped DEF ReminderInv, ReminderTypeOK
<1>2. run[r].pc = "collecting" /\ run' = [run EXCEPT ![r] = k] /\ UNCHANGED <<clock, row, notices>>
  BY DEF Collect
<1>3. /\ run[r].now \in Times /\ run[r].found \subseteq Rows \X Kinds
      /\ \A x \in Claimed(r) : /\ x \in Rows /\ row[x].last = run[r].now
                               /\ Fits(x, KindOf(r), Day(run[r].now))
  BY <1>1, <1>2 DEF ReminderInv, RunsFit, RunState, Claimed
<1>4. found \in SUBSET (Rows \X Kinds)
  BY <1>1, <1>3
<1>5. \A x, kind : <<x, kind>> \in found <=>
        <<x, kind>> \in run[r].found \/ (x \in Claimed(r) /\ kind = KindOf(r))
  OBVIOUS
<1> HIDE DEF found
<1>6. /\ k \in RunState /\ k.now = run[r].now /\ k.ids = {} /\ k.found = found
      /\ k.pc = "finding" \/ k.pc = "telling" \/ (k.pc = "over" /\ found = {})
  BY <1>1, <1>4, FurtherShape
<1> HIDE DEF k
<1>7. \A x \in Rows, kind \in Kinds : <<x, kind>> \in k.found =>
        <<x, kind>> \in run[r].found \/ (row[x].last = k.now /\ Fits(x, kind, Day(k.now)))
  BY <1>3, <1>5, <1>6
<1>8. \A x \in Rows : Bears(r, x) => \E kind \in Kinds : <<x, kind>> \in k.found
  BY <1>1, <1>2, <1>5, <1>6 DEF Bears
<1> QED BY <1>1, <1>2, <1>3, <1>6, <1>7, <1>8, CreatesNone, RunMoves

LEMMA TellFits ==
  ASSUME ReminderInv, NEW r \in Runs, Tell(r)
  PROVE  ReminderInv'
<1> DEFINE k == [run[r] EXCEPT !.pc = "mailing"]
           new == {[row |-> p[1], kind |-> p[2], at |-> run[r].now, by |-> r] : p \in run[r].found}
<1>1. /\ run[r] \in RunState /\ clock \in Times
      /\ notices \subseteq [row : Rows, kind : Kinds, at : Times, by : Runs]
  BY DEF ReminderInv, ReminderTypeOK
<1>2. /\ run[r].pc = "telling" /\ run' = [run EXCEPT ![r] = k] /\ notices' = notices \cup new
      /\ UNCHANGED <<clock, row>>
  BY DEF Tell
<1>3. /\ run[r].now \in Times /\ run[r].found \subseteq Rows \X Kinds
      /\ \A x \in run[r].ids : Fits(x, Phases[run[r].phase], Day(run[r].now))
  BY <1>1, <1>2 DEF ReminderInv, RunsFit, RunState, KindOf
<1>4. /\ k \in RunState /\ k.pc = "mailing" /\ k.now = run[r].now /\ k.ids = run[r].ids
      /\ k.found = run[r].found /\ k.phase = run[r].phase
  BY <1>1 DEF RunState
<1>5. /\ new \subseteq [row : Rows, kind : Kinds, at : Times, by : Runs]
      /\ \A n \in new : n.at = run[r].now /\ <<n.row, n.kind>> \in run[r].found
  BY <1>3
<1>6. ASSUME NEW x \in Rows, Bears(r, x)
      PROVE  \E n \in new : n.row = x /\ n.at = row[x].last
  <2>1. run[r].now = row[x].last /\ \E kind \in Kinds : <<x, kind>> \in run[r].found
    BY <1>2, <1>6 DEF Bears
  <2>2. PICK kind \in Kinds : <<x, kind>> \in run[r].found
    BY <2>1
  <2>3. [row |-> x, kind |-> kind, at |-> run[r].now, by |-> r] \in new
    BY <2>2
  <2> QED BY <2>1, <2>3
<1> HIDE DEF k, new
<1>7. /\ Creates(r)
      /\ \A x \in Rows : Bears(r, x) => \E n \in notices' : n.row = x /\ n.at = row[x].last
  BY <1>1, <1>2, <1>5, <1>6 DEF Creates
<1>8. \A x \in Rows, kind \in Kinds : <<x, kind>> \in k.found => <<x, kind>> \in run[r].found
  BY <1>4
<1>9. \A x \in k.ids : Fits(x, Phases[k.phase], Day(k.now))
  BY <1>3, <1>4
<1>10. /\ run' = [run EXCEPT ![r] = k] /\ UNCHANGED row /\ clock' \in Times /\ k \in RunState
       /\ k.pc = "mailing" /\ k.now \in Times /\ k.now = run[r].now
  BY <1>1, <1>2, <1>3, <1>4
<1> QED BY <1>7, <1>8, <1>9, <1>10, RunMoves

LEMMA RunEndsFits ==
  ASSUME ReminderInv, NEW r \in Runs, Digest(r) \/ RunFails(r)
  PROVE  ReminderInv'
<1>1. /\ run[r] \in RunState /\ clock \in Times
      /\ ReminderTypeOK
  BY DEF ReminderInv, ReminderTypeOK
<1>2. CASE Digest(r)
  <2> DEFINE k == [run[r] EXCEPT !.pc = "over", !.found = {}]
  <2>1. run[r].pc = "mailing" /\ run' = [run EXCEPT ![r] = k] /\ UNCHANGED <<clock, row, notices>>
    BY <1>2 DEF Digest
  <2>2. run[r].now \in Times /\ \A x \in run[r].ids : Fits(x, Phases[run[r].phase], Day(run[r].now))
    BY <2>1 DEF ReminderInv, RunsFit, KindOf
  <2>3. /\ k \in RunState /\ k.pc = "over" /\ k.now = run[r].now /\ k.ids = run[r].ids
        /\ k.found = {} /\ k.phase = run[r].phase
    BY <1>1 DEF RunState
  <2>4. \A x \in Rows : ~ Bears(r, x)
    BY <2>1 DEF Bears
  <2> HIDE DEF k
  <2> QED BY <1>1, <2>1, <2>2, <2>3, <2>4, CreatesNone, RunMoves
<1>3. CASE RunFails(r)
  <2> DEFINE k == [run[r] EXCEPT !.pc = "dead", !.ids = {}, !.found = {}]
  <2>1. run[r].pc # "new" /\ run' = [run EXCEPT ![r] = k] /\ UNCHANGED <<clock, row, notices>>
    BY <1>3 DEF RunFails
  <2>2. run[r].now \in Times
    BY <2>1 DEF ReminderInv, RunsFit
  <2>3. k \in RunState /\ k.pc = "dead" /\ k.now = run[r].now /\ k.ids = {} /\ k.found = {}
    BY <1>1 DEF RunState
  <2> HIDE DEF k
  <2> QED BY <1>1, <2>1, <2>2, <2>3, CreatesNone, RunMoves
<1> QED BY <1>2, <1>3

(***************************************************************************)
(* The rows that run r claims are marked; the conditions of the search are *)
(* repeated, so none of them was reminded of today.                        *)
(***************************************************************************)
LEMMA ClaimFits ==
  ASSUME ReminderInv, NEW r \in Runs, Claim(r)
  PROVE  ReminderInv'
<1> DEFINE kind == KindOf(r)
           now == run[r].now
           W == run[r].ids \cap Wanted(kind, Day(now))
           k == [run[r] EXCEPT !.pc = "collecting"]
           Mark(x) == [row[x] EXCEPT !.last = now, !.moved = FALSE,
                                     !.state = IF kind = "overdue" THEN "overdue" ELSE row[x].state]
<1>1. /\ ReminderTypeOK /\ RunsFit /\ MarksKept /\ OneADay /\ MarksBorne
      /\ run \in [Runs -> RunState] /\ row \in [Rows -> RowState] /\ kind \in Kinds
  BY KindsTyped DEF ReminderInv, ReminderTypeOK
<1>2. /\ run[r].pc = "claiming" /\ run' = [run EXCEPT ![r] = k]
      /\ row' = [x \in Rows |-> IF x \in W THEN Mark(x) ELSE row[x]]
      /\ UNCHANGED <<clock, notices>>
  BY DEF Claim
<1>3. /\ k \in RunState /\ k.pc = "collecting" /\ k.now = now /\ k.ids = run[r].ids
      /\ k.found = run[r].found /\ k.phase = run[r].phase
  BY <1>1 DEF RunState
<1>4. /\ run'[r] = k /\ run' \in [Runs -> RunState]
      /\ \A q \in Runs \ {r} : run'[q] = run[q]
  BY <1>1, <1>2, <1>3
<1>5. now \in Times /\ now # 0 /\ now \in 0..MaxClock /\ Day(now) \in Int
  BY <1>1, <1>2, TimesTyped DEF RunsFit, RunState
<1>6. \A x \in W : /\ x \in Rows /\ x \in run[r].ids /\ Fits(x, kind, Day(now))
                   /\ row[x].state = "waiting"
                   /\ kind # "overdue" => NotReminded(x, Day(now))
  BY WantedFits
<1>7. \A x \in Rows : /\ Mark(x) \in RowState
                      /\ Mark(x).last = now /\ Mark(x).moved = FALSE /\ Mark(x).back = row[x].back
                      /\ Mark(x).state = IF kind = "overdue" THEN "overdue" ELSE row[x].state
  BY <1>1, <1>5 DEF RowState
<1>8. \A x \in Rows : row'[x] = IF x \in W THEN Mark(x) ELSE row[x]
  BY <1>2
<1> HIDE DEF k, W, Mark
<1>9. row' \in [Rows -> RowState]
  BY <1>1, <1>2, <1>7
<1>10. ReminderTypeOK'
  BY <1>1, <1>2, <1>4, <1>9 DEF ReminderTypeOK
<1>11. RunsFit'
  <2>1. ASSUME NEW q \in Runs
        PROVE  run'[q].now = run[q].now /\ run'[q].ids = run[q].ids /\ run'[q].found = run[q].found
               /\ run'[q].phase = run[q].phase /\ (run'[q].pc = "new" <=> run[q].pc = "new")
    BY <1>2, <1>3, <1>4
  <2> QED BY <1>1, <1>2, <2>1 DEF RunsFit, KindOf, Fits, Day
<1>12. \A x \in Rows, kind2 \in Kinds, t \in Times : Reminded(x, kind2, t)' =>
         Reminded(x, kind2, t) \/ (x \in W /\ t = now /\ kind2 = kind)
  <2> SUFFICES ASSUME NEW x \in Rows, NEW kind2 \in Kinds, NEW t \in Times, Reminded(x, kind2, t)'
               PROVE  Reminded(x, kind2, t) \/ (x \in W /\ t = now /\ kind2 = kind)
    OBVIOUS
  <2>1. CASE row'[x].last = t /\ Fits(x, kind2, Day(t))
    <3>1. CASE x \in W
      <4>1. t = now /\ Fits(x, kind, Day(t))
        BY <1>6, <1>7, <1>8, <2>1, <3>1
      <4> QED BY <1>5, <2>1, <3>1, <4>1, FitsOneKind
    <3>2. CASE x \notin W
      BY <1>8, <2>1, <3>2, TimesTyped DEF Reminded
    <3> QED BY <3>1, <3>2
  <2>2. CASE \E n \in notices : n.row = x /\ n.kind = kind2 /\ n.at = t
    BY <2>2 DEF Reminded
  <2>3. ASSUME NEW q \in Runs, run'[q].now = t, <<x, kind2>> \in run'[q].found
        PROVE  Reminded(x, kind2, t)
    <3>1. run[q].now = t /\ <<x, kind2>> \in run[q].found
      BY <1>3, <1>4, <2>3
    <3> QED BY <3>1 DEF Reminded
  <2> QED BY <1>2, <2>1, <2>2, <2>3 DEF Reminded, Fits
<1>13. ASSUME NEW x \in W, NEW kind2 \in Kinds, NEW t \in Times, Reminded(x, kind2, t)
       PROVE  /\ kind2 # "overdue" => Day(t) =< Day(now)
              /\ Day(t) = Day(now) => kind = "overdue" /\ kind2 = "overdue" /\ row[x].back
  <2>1. /\ Fits(x, kind2, Day(t)) /\ Fits(x, kind, Day(now)) /\ x \in Rows
        /\ Day(t) \in Int /\ Day(now) \in Int /\ Due[x] \in Int
    BY <1>1, <1>5, <1>6, <1>13, RemindedFits, TimesTyped, RemindersAssumption
  <2>2. kind2 # "overdue" => row[x].last # 0 /\ Day(t) =< Day(row[x].last)
    BY <1>1, <1>13, <2>1 DEF MarksKept
  <2>3. Day(row[x].last) \in Int
    BY <1>1, <2>1, DayTyped DEF RowState
  <2>4. CASE kind # "overdue"
    <3>1. row[x].last = 0 \/ Day(row[x].last) < Day(now)
      BY <1>6, <2>4 DEF NotReminded
    <3>2. kind2 # "overdue" => Day(t) < Day(now)
      BY <2>1, <2>2, <2>3, <3>1
    <3>3. Day(t) = Day(now) => kind2 = kind
      BY <2>1, FitsOneKind
    <3> QED BY <2>1, <2>4, <3>2, <3>3
  <2>5. CASE kind = "overdue"
    <3>1. x \in InvoiceRows /\ Due[x] < Day(now)
      BY <2>1, <2>5 DEF Fits
    <3>2. kind2 # "overdue" => Due[x] = Day(t) + 1
      BY <2>1, <3>1, RemindersAssumption DEF Fits
    <3>3. kind2 = "overdue" => row[x].back
      BY <1>1, <1>6, <1>13, <2>1 DEF MarksKept
    <3> QED BY <2>1, <2>5, <3>1, <3>2, <3>3
  <2> QED BY <2>4, <2>5
<1>14. \A x \in Rows : row'[x].back = row[x].back
  BY <1>7, <1>8
<1>15. MarksKept'
  <2> SUFFICES ASSUME NEW x \in Rows, NEW kind2 \in Kinds, NEW t \in Times, Reminded(x, kind2, t)'
               PROVE  /\ kind2 # "overdue" => row'[x].last # 0 /\ Day(t) =< Day(row'[x].last)
                      /\ kind2 = "overdue" => row'[x].state # "waiting" \/ row'[x].back
    BY DEF MarksKept, Day
  <2>1. Day(t) \in Int
    BY TimesTyped
  <2>2. CASE x \in W
    <3>1. /\ row'[x].last = now /\ row'[x].back = row[x].back
          /\ row'[x].state = IF kind = "overdue" THEN "overdue" ELSE row[x].state
      BY <1>7, <1>8, <2>2
    <3>2. CASE t = now /\ kind2 = kind
      BY <1>5, <3>1, <3>2
    <3>3. CASE Reminded(x, kind2, t)
      <4>1. kind2 # "overdue" => Day(t) =< Day(now)
        BY <1>13, <2>2, <3>3
      <4>2. kind2 = "overdue" => row[x].state # "waiting" \/ row[x].back
        BY <1>1, <3>3 DEF MarksKept
      <4> QED BY <1>5, <3>1, <4>1, <4>2
    <3> QED BY <1>12, <3>2, <3>3
  <2>3. CASE x \notin W
    <3>1. row'[x] = row[x] /\ Reminded(x, kind2, t)
      BY <1>8, <1>12, <2>3
    <3> QED BY <1>1, <3>1 DEF MarksKept
  <2> QED BY <2>2, <2>3
<1>16. OneADay'
  <2> SUFFICES ASSUME NEW x \in Rows, NEW a \in Kinds, NEW b \in Kinds, NEW t \in Times, NEW u \in Times,
                      Reminded(x, a, t)', Reminded(x, b, u)', Day(t) = Day(u)
               PROVE  t = u \/ (a = "overdue" /\ b = "overdue" /\ row'[x].back)
    BY DEF OneADay, Day
  <2>1. CASE Reminded(x, a, t) /\ Reminded(x, b, u)
    BY <1>1, <1>14, <2>1 DEF OneADay
  <2>2. CASE Reminded(x, a, t) /\ x \in W /\ u = now /\ b = kind
    BY <1>13, <1>14, <2>2
  <2>3. CASE Reminded(x, b, u) /\ x \in W /\ t = now /\ a = kind
    BY <1>13, <1>14, <2>3
  <2>4. CASE t = now /\ u = now
    BY <2>4
  <2> QED BY <1>12, <2>1, <2>2, <2>3, <2>4
<1>17. MarksBorne'
  <2> SUFFICES ASSUME NEW x \in Rows, row'[x].last # 0, ~ row'[x].moved,
                      ~ \E n \in notices : n.row = x /\ n.at = row'[x].last
               PROVE  \E q \in Runs : Bears(q, x)'
    BY <1>2 DEF MarksBorne
  <2>1. CASE x \in W
    <3>1. x \in run'[r].ids /\ row'[x].last = run'[r].now /\ run'[r].pc = "collecting"
      BY <1>3, <1>4, <1>6, <1>7, <1>8, <2>1
    <3>2. Phases[run'[r].phase] = "overdue" => row'[x].state = "overdue"
      BY <1>3, <1>4, <1>7, <1>8, <2>1 DEF KindOf
    <3>3. x \in Claimed(r)'
      BY <3>1, <3>2 DEF Claimed, KindOf
    <3> QED BY <3>1, <3>3 DEF Bears
  <2>2. CASE x \notin W
    <3>1. row'[x] = row[x]
      BY <1>8, <2>2
    <3>2. PICK q \in Runs : Bears(q, x)
      BY <1>1, <3>1 DEF MarksBorne
    <3>3. CASE q = r
      BY <1>2, <1>3, <1>4, <3>1, <3>2, <3>3 DEF Bears
    <3>4. CASE q # r
      BY <1>4, <3>1, <3>2, <3>4 DEF Bears, Claimed, KindOf
    <3> QED BY <3>3, <3>4
  <2> QED BY <2>1, <2>2
<1> QED BY <1>10, <1>11, <1>15, <1>16, <1>17 DEF ReminderInv

\* Somebody else settles a row, or puts it back.
LEMMA RowMovesFits ==
  ASSUME ReminderInv, NEW x \in Rows, Settle(x) \/ PutBack(x)
  PROVE  ReminderInv'
<1>1. /\ ReminderTypeOK /\ RunsFit /\ MarksKept /\ OneADay /\ MarksBorne
      /\ run \in [Runs -> RunState] /\ row \in [Rows -> RowState]
  BY DEF ReminderInv, ReminderTypeOK
<1>2. PICK k \in RowState :
        /\ row' = [row EXCEPT ![x] = k]
        /\ k.last = row[x].last /\ k.moved /\ (row[x].back => k.back)
        /\ k.state # "waiting" \/ k.back
  <2>1. CASE Settle(x)
    <3> DEFINE k == [row[x] EXCEPT !.state = "settled", !.moved = TRUE]
    <3>1. k \in RowState /\ k.last = row[x].last /\ k.moved /\ k.back = row[x].back /\ k.state = "settled"
      BY <1>1 DEF RowState
    <3> QED BY <2>1, <3>1 DEF Settle
  <2>2. CASE PutBack(x)
    <3> DEFINE k == [row[x] EXCEPT !.state = "waiting", !.moved = TRUE, !.back = TRUE]
    <3>1. k \in RowState /\ k.last = row[x].last /\ k.moved /\ k.back
      BY <1>1 DEF RowState
    <3> QED BY <2>2, <3>1 DEF PutBack
  <2> QED BY <2>1, <2>2
<1>3. UNCHANGED <<clock, run, notices>>
  BY DEF Settle, PutBack
<1>4. /\ row' \in [Rows -> RowState] /\ row'[x] = k
      /\ \A y \in Rows \ {x} : row'[y] = row[y]
  BY <1>1, <1>2
<1>5. \A y \in Rows : row'[y].last = row[y].last /\ (row[y].back => row'[y].back)
  BY <1>2, <1>4
<1>6. \A y \in Rows, kind \in Kinds, t \in Times : Reminded(y, kind, t)' => Reminded(y, kind, t)
  BY <1>3, <1>5 DEF Reminded, Fits, Day
<1>7. ReminderTypeOK'
  BY <1>1, <1>3, <1>4 DEF ReminderTypeOK
<1>8. RunsFit'
  BY <1>1, <1>3 DEF RunsFit, KindOf, Fits, Day
<1>9. MarksKept'
  <2> SUFFICES ASSUME NEW y \in Rows, NEW kind \in Kinds, NEW t \in Times, Reminded(y, kind, t)
               PROVE  /\ kind # "overdue" => row'[y].last # 0 /\ Day(t) =< Day(row'[y].last)
                      /\ kind = "overdue" => row'[y].state # "waiting" \/ row'[y].back
    BY <1>6 DEF MarksKept, Day
  <2>1. /\ kind # "overdue" => row[y].last # 0 /\ Day(t) =< Day(row[y].last)
        /\ kind = "overdue" => row[y].state # "waiting" \/ row[y].back
    BY <1>1 DEF MarksKept
  <2>2. row'[y] = row[y] \/ row'[y].state # "waiting" \/ row'[y].back
    BY <1>2, <1>4
  <2> QED BY <1>5, <2>1, <2>2
<1>10. OneADay'
  BY <1>1, <1>5, <1>6 DEF OneADay, Day
<1>11. MarksBorne'
  <2> SUFFICES ASSUME NEW y \in Rows, row'[y].last # 0, ~ row'[y].moved,
                      ~ \E n \in notices : n.row = y /\ n.at = row'[y].last
               PROVE  \E q \in Runs : Bears(q, y)'
    BY <1>3 DEF MarksBorne
  <2>1. row'[y] = row[y]
    BY <1>2, <1>4
  <2>2. PICK q \in Runs : Bears(q, y)
    BY <1>1, <2>1 DEF MarksBorne
  <2> QED BY <1>3, <2>1, <2>2 DEF Bears, Claimed, KindOf
<1> QED BY <1>7, <1>8, <1>9, <1>10, <1>11 DEF ReminderInv

\* Time passes, or other parts of the server are at work.
LEMMA RemindersStay ==
  ASSUME ReminderInv, UNCHANGED <<row, run, notices>>, clock' \in Times
  PROVE  ReminderInv'
<1>1. /\ ReminderTypeOK /\ RunsFit /\ MarksKept /\ OneADay /\ MarksBorne
  BY DEF ReminderInv
<1>2. ReminderTypeOK'
  BY <1>1 DEF ReminderTypeOK
<1>3. RunsFit'
  BY <1>1 DEF RunsFit, KindOf, Fits, Day
<1>4. \A y \in Rows, kind \in Kinds, t \in Times : Reminded(y, kind, t)' <=> Reminded(y, kind, t)
  BY DEF Reminded, Fits, Day
<1>5. MarksKept' /\ OneADay'
  BY <1>1, <1>4 DEF MarksKept, OneADay, Day
<1>6. MarksBorne'
  BY <1>1 DEF MarksBorne, Bears, Claimed, KindOf
<1> QED BY <1>2, <1>3, <1>5, <1>6 DEF ReminderInv

LEMMA RemindersCrash ==
  ASSUME ReminderInv, run' = RunsAfterCrash, UNCHANGED <<clock, row, notices>>
  PROVE  ReminderInv'
<1>1. /\ ReminderTypeOK /\ RunsFit /\ MarksKept /\ OneADay /\ MarksBorne
      /\ run \in [Runs -> RunState]
  BY DEF ReminderInv, ReminderTypeOK
<1>2. ASSUME NEW r \in Runs
      PROVE  /\ run'[r] \in RunState /\ run'[r].now = run[r].now
             /\ run'[r].phase = run[r].phase
             /\ run'[r].ids \subseteq run[r].ids /\ run'[r].found \subseteq run[r].found
             /\ run'[r].pc = "new" <=> run[r].pc = "new"
             /\ run[r].pc \notin {"new", "over"} => run'[r].pc = "dead"
  <2>1. CASE run[r].pc \in {"new", "over"}
    BY <1>1, <2>1 DEF RunsAfterCrash
  <2>2. CASE run[r].pc \notin {"new", "over"}
    <3>1. run'[r] = [run[r] EXCEPT !.pc = "dead", !.ids = {}, !.found = {}]
      BY <2>2 DEF RunsAfterCrash
    <3> QED BY <1>1, <2>2, <3>1 DEF RunState
  <2> QED BY <2>1, <2>2
<1>3. run' \in [Runs -> RunState]
  BY <1>2 DEF RunsAfterCrash
<1>4. ReminderTypeOK'
  BY <1>1, <1>3 DEF ReminderTypeOK
<1>5. RunsFit'
  <2>1. ASSUME NEW r \in Runs
        PROVE  /\ run'[r].pc = "new" => run'[r].ids = {} /\ run'[r].found = {}
               /\ run'[r].pc # "new" => run'[r].now \in Times
               /\ \A x \in run'[r].ids : Fits(x, Phases[run'[r].phase], Day(run'[r].now))
               /\ \A x \in Rows, kind \in Kinds :
                    <<x, kind>> \in run'[r].found => Fits(x, kind, Day(run'[r].now))
    BY <1>1, <1>2 DEF RunsFit, KindOf
  <2> QED BY <1>1, <2>1 DEF RunsFit, KindOf, Fits, Day
<1>6. \A y \in Rows, kind \in Kinds, t \in Times : Reminded(y, kind, t)' => Reminded(y, kind, t)
  BY <1>2 DEF Reminded, Fits, Day
<1>7. MarksKept' /\ OneADay'
  BY <1>1, <1>6 DEF MarksKept, OneADay, Day
<1>8. MarksBorne'
  <2> SUFFICES ASSUME NEW x \in Rows, row[x].last # 0, ~ row[x].moved,
                      ~ \E n \in notices : n.row = x /\ n.at = row[x].last
               PROVE  \E q \in Runs : Bears(q, x)'
    BY DEF MarksBorne
  <2>1. PICK q \in Runs : Bears(q, x)
    BY <1>1 DEF MarksBorne
  <2> QED BY <1>2, <2>1 DEF Bears
<1> QED BY <1>4, <1>5, <1>7, <1>8 DEF ReminderInv

LEMMA ReminderStepFits == ReminderInv /\ ReminderStep => ReminderInv'
<1> SUFFICES ASSUME ReminderInv, ReminderStep PROVE ReminderInv'
  OBVIOUS
<1>1. CASE Tick
  <2>1. clock \in Nat /\ clock' \in Times
    BY <1>1, RemindersAssumption DEF Tick, Times, ReminderInv, ReminderTypeOK
  <2> QED BY <1>1, <2>1, RemindersStay DEF Tick
<1> QED BY <1>1, StartRunFits, FindFits, ClaimFits, CollectFits, TellFits, RunEndsFits, RowMovesFits
        DEF ReminderStep

(***************************************************************************)
(* At most one reminder a day, and no mark without a reminder.             *)
(***************************************************************************)
LEMMA ReminderInvMeans == ReminderInv => OncePerDay /\ MarksAreTold
<1> SUFFICES ASSUME ReminderInv PROVE OncePerDay /\ MarksAreTold
  OBVIOUS
<1>1. /\ RunsFit /\ OneADay /\ MarksBorne
      /\ notices \subseteq [row : Rows, kind : Kinds, at : Times, by : Runs]
  BY DEF ReminderInv, ReminderTypeOK
<1>2. OncePerDay
  <2> SUFFICES ASSUME NEW m \in notices, NEW n \in notices, m # n, m.row = n.row, Day(m.at) = Day(n.at)
               PROVE  \/ m.at = n.at /\ m.by # n.by
                      \/ m.kind = "overdue" /\ n.kind = "overdue" /\ row[m.row].back
    BY DEF OncePerDay
  <2>1. /\ m.row \in Rows /\ m.kind \in Kinds /\ n.kind \in Kinds /\ m.at \in Times /\ n.at \in Times
        /\ m = [row |-> m.row, kind |-> m.kind, at |-> m.at, by |-> m.by]
        /\ n = [row |-> n.row, kind |-> n.kind, at |-> n.at, by |-> n.by]
    BY <1>1
  <2>2. Reminded(m.row, m.kind, m.at) /\ Reminded(m.row, n.kind, n.at)
    BY DEF Reminded
  <2>3. m.at = n.at \/ (m.kind = "overdue" /\ n.kind = "overdue" /\ row[m.row].back)
    BY <1>1, <2>1, <2>2 DEF OneADay
  <2>4. m.kind = n.kind
    <3>1. Fits(m.row, m.kind, Day(m.at)) /\ Fits(m.row, n.kind, Day(m.at)) /\ Day(m.at) \in Int
      BY <1>1, <2>1, TimesTyped DEF RunsFit
    <3> QED BY <2>1, <3>1, FitsOneKind
  <2> QED BY <2>1, <2>3, <2>4
<1>3. MarksAreTold
  BY <1>1 DEF MarksBorne, MarksAreTold, Bears
<1> QED BY <1>2, <1>3
-----------------------------------------------------------------------------
(***************************************************************************)
(* One-time links.                                                         *)
(***************************************************************************)
LinkCallers == IssueCalls \cup UseCalls

LinkRow ==
  [row : {"none", "live", "expired", "deleted"}, used : BOOLEAN, purpose : Purposes,
   made : 0..Cardinality(IssueCalls)]

LinkCallState ==
  [pc : {"new", "deleting", "creating", "setting", "revoking", "mailing", "over"},
   of : IssueCalls, set : BOOLEAN, late : BOOLEAN]

LEMMA LinksTyped ==
  LinksTypeOK <=> link \in [IssueCalls -> LinkRow] /\ linkCall \in [LinkCallers -> LinkCallState]
BY DEF LinksTypeOK, LinkRow, LinkCallState, LinkCallers

LEMMA IssueCallsCounted == Cardinality(IssueCalls) \in Nat
BY LinksAssumption, FS_CardinalityType

LEMMA LinksInitFits == LinksInit => LinkInv
<1> SUFFICES ASSUME LinksInit PROVE LinkInv
  OBVIOUS
<1>1. (CHOOSE l \in IssueCalls : TRUE) \in IssueCalls
  BY LinksAssumption
<1>2. LinksTypeOK
  <2> DEFINE first == CHOOSE l \in IssueCalls : TRUE
  <2>1. linkCall = [c \in LinkCallers |-> [pc |-> "new", of |-> first, set |-> FALSE, late |-> FALSE]]
    BY DEF LinksInit, LinkCallers
  <2> HIDE DEF first
  <2>2. linkCall \in [LinkCallers -> LinkCallState]
    BY <1>1, <2>1 DEF LinkCallState, first
  <2>3. link \in [IssueCalls -> LinkRow]
    BY IssueCallsCounted DEF LinksInit, LinkRow, Purposes
  <2> QED BY <2>2, <2>3, LinksTyped
<1> QED BY <1>2 DEF LinksInit, LinkInv, LinkMadeOnce, BurntByOne, OthersCleared, Burnt, Stored

\* Rows are not made twice, and what is deleted stays so.
LinksForward ==
  \A l \in IssueCalls :
    /\ link[l].row = "deleted" => link'[l].row = "deleted"
    /\ link[l].row # "none" => link'[l].row # "none"

\* Call d stays where it is, or gives up, or is about to end.
Quiet(d) ==
  /\ linkCall'[d].of = linkCall[d].of /\ linkCall'[d].set = linkCall[d].set
  /\ linkCall'[d].late = linkCall[d].late
  /\ linkCall'[d].pc = linkCall[d].pc
       \/ (linkCall[d].pc # "new" /\ linkCall'[d].pc \in {"mailing", "over"})

LEMMA UsesMove ==
  ASSUME LinkInv, LinksTypeOK', LinksForward, NEW c, \A d \in UseCalls \ {c} : Quiet(d),
         c \in UseCalls =>
           /\ linkCall'[c].pc \in {"new", "deleting"} => ~ linkCall'[c].set
           /\ linkCall'[c].pc # "new" => link'[linkCall'[c].of].row # "none" \/ ~ Burnt(c)'
           /\ linkCall'[c].pc = "deleting" => link'[linkCall'[c].of].row # "none"
           /\ Burnt(c)' /\ ~ linkCall'[c].late => link'[linkCall'[c].of].row = "deleted"
           /\ \A d \in UseCalls \ {c} :
                Burnt(c)' /\ Burnt(d) /\ linkCall'[c].of = linkCall[d].of =>
                  linkCall'[c].late \/ linkCall[d].late
  PROVE  BurntByOne'
<1>1. \A d \in UseCalls : linkCall[d].of \in IssueCalls /\ linkCall'[d].of \in IssueCalls
  BY LinksTyped DEF LinkInv, LinksTypeOK
<1>2. \A d \in UseCalls \ {c} : Burnt(d)' => Burnt(d)
  BY DEF Quiet, Burnt
<1>3. ASSUME NEW d \in UseCalls
      PROVE  /\ linkCall'[d].pc \in {"new", "deleting"} => ~ linkCall'[d].set
             /\ linkCall'[d].pc # "new" => link'[linkCall'[d].of].row # "none" \/ ~ Burnt(d)'
             /\ linkCall'[d].pc = "deleting" => link'[linkCall'[d].of].row # "none"
             /\ Burnt(d)' /\ ~ linkCall'[d].late => link'[linkCall'[d].of].row = "deleted"
  <2>1. CASE d = c
    BY <2>1
  <2>2. CASE d # c
    <3>1. /\ linkCall[d].pc \in {"new", "deleting"} => ~ linkCall[d].set
          /\ linkCall[d].pc # "new" => link[linkCall[d].of].row # "none" \/ ~ Burnt(d)
          /\ linkCall[d].pc = "deleting" => link[linkCall[d].of].row # "none"
          /\ Burnt(d) /\ ~ linkCall[d].late => link[linkCall[d].of].row = "deleted"
      BY DEF LinkInv, BurntByOne
    <3>2. Quiet(d) /\ (Burnt(d)' => Burnt(d))
      BY <1>2, <2>2
    <3> HIDE DEF Burnt
    <3> QED BY <1>1, <3>1, <3>2 DEF Quiet, LinksForward
  <2> QED BY <2>1, <2>2
<1>4. ASSUME NEW d \in UseCalls, NEW e \in UseCalls, d # e, Burnt(d)', Burnt(e)',
             linkCall'[d].of = linkCall'[e].of
      PROVE  linkCall'[d].late \/ linkCall'[e].late
  <2>1. CASE d # c /\ e # c
    BY <1>2, <1>4, <2>1 DEF LinkInv, BurntByOne, Quiet
  <2>2. CASE d = c
    <3>1. Burnt(e) /\ linkCall'[e].of = linkCall[e].of /\ linkCall'[e].late = linkCall[e].late
      BY <1>2, <1>4, <2>2 DEF Quiet
    <3> QED BY <1>4, <2>2, <3>1
  <2>3. CASE e = c
    <3>1. Burnt(d) /\ linkCall'[d].of = linkCall[d].of /\ linkCall'[d].late = linkCall[d].late
      BY <1>2, <1>4, <2>3 DEF Quiet
    <3> QED BY <1>4, <2>3, <3>1
  <2> QED BY <2>1, <2>2, <2>3
<1> QED BY <1>3, <1>4 DEF BurntByOne

LEMMA IssuesMove ==
  ASSUME LinkInv,
         \A l \in IssueCalls :
           /\ link'[l].purpose = link[l].purpose /\ (Stored(l)' => Stored(l))
           /\ link[l].row = "none" => link'[l].row = "none" /\ link'[l].made = link[l].made
           /\ linkCall'[l].late = linkCall[l].late
           /\ linkCall'[l].pc = linkCall[l].pc \/ linkCall'[l].pc \in {"mailing", "over"}
  PROVE  LinkMadeOnce' /\ OthersCleared'
<1>1. LinkMadeOnce'
  BY DEF LinkInv, LinkMadeOnce
<1>2. OthersCleared'
  <2>1. ASSUME NEW c \in IssueCalls, NEW l \in IssueCalls,
               linkCall'[c].pc = "creating", ~ linkCall'[c].late, c # l, Stored(l)'
        PROVE  link'[l].purpose # link'[c].purpose
    BY <2>1 DEF LinkInv, OthersCleared
  <2>2. ASSUME NEW k \in IssueCalls, NEW l \in IssueCalls, k # l, Stored(k)', Stored(l)',
               link'[k].purpose = link'[l].purpose
        PROVE  linkCall'[k].late \/ linkCall'[l].late
    BY <2>2 DEF LinkInv, OthersCleared
  <2> QED BY <2>1, <2>2 DEF OthersCleared
<1> QED BY <1>1, <1>2

LEMMA WithoutLinksShape ==
  ASSUME LinksTypeOK, NEW purpose
  PROVE  /\ WithoutLinks(purpose) \in [IssueCalls -> LinkRow]
         /\ \A l \in IssueCalls :
              LET k == WithoutLinks(purpose)[l]
              IN  /\ k.purpose = link[l].purpose /\ k.made = link[l].made
                  /\ k.row = IF Stored(l) /\ link[l].purpose = purpose THEN "deleted" ELSE link[l].row
<1>1. ASSUME NEW l \in IssueCalls
      PROVE  LET k == WithoutLinks(purpose)[l]
             IN  /\ k \in LinkRow
                 /\ k.purpose = link[l].purpose /\ k.made = link[l].made
                 /\ k.row = IF Stored(l) /\ link[l].purpose = purpose THEN "deleted" ELSE link[l].row
  <2> DEFINE s == [link[l] EXCEPT !.row = "deleted"]
  <2>1. /\ s \in LinkRow /\ s.purpose = link[l].purpose /\ s.made = link[l].made
        /\ s.row = "deleted" /\ link[l] \in LinkRow
    BY LinksTyped DEF LinkRow
  <2>2. WithoutLinks(purpose)[l] = IF Stored(l) /\ link[l].purpose = purpose THEN s ELSE link[l]
    BY DEF WithoutLinks
  <2> HIDE DEF s
  <2> QED BY <2>1, <2>2
<1>2. WithoutLinks(purpose) = [l \in IssueCalls |-> WithoutLinks(purpose)[l]]
  BY DEF WithoutLinks
<1> QED BY <1>1, <1>2

LEMMA LinkCallMoves ==
  ASSUME LinksTypeOK, NEW c \in LinkCallers, NEW k \in LinkCallState,
         linkCall' = [linkCall EXCEPT ![c] = k]
  PROVE  /\ linkCall' \in [LinkCallers -> LinkCallState]
         /\ linkCall'[c] = k
         /\ \A d \in LinkCallers \ {c} : linkCall'[d] = linkCall[d]
BY LinksTyped

LEMMA LinkRowMoves ==
  ASSUME LinksTypeOK, NEW l \in IssueCalls, NEW k \in LinkRow, link' = [link EXCEPT ![l] = k]
  PROVE  /\ link' \in [IssueCalls -> LinkRow]
         /\ link'[l] = k
         /\ \A d \in IssueCalls \ {l} : link'[d] = link[d]
BY LinksTyped

LEMMA LinkCallersApart ==
  /\ IssueCalls \subseteq LinkCallers /\ UseCalls \subseteq LinkCallers
  /\ \A c \in IssueCalls : c \notin UseCalls
BY LinksAssumption DEF LinkCallers

LEMMA LinkInvParts ==
  LinkInv =>
    /\ LinksTypeOK /\ LinkMadeOnce /\ BurntByOne /\ OthersCleared
    /\ link \in [IssueCalls -> LinkRow] /\ linkCall \in [LinkCallers -> LinkCallState]
BY LinksTyped DEF LinkInv

LEMMA IssueLinkFits ==
  ASSUME LinkInv, NEW c \in IssueCalls, NEW p \in Purposes, IssueLink(c, p)
  PROVE  LinkInv'
<1> DEFINE k == [linkCall[c] EXCEPT !.pc = "deleting", !.of = c]
           w == [link[c] EXCEPT !.purpose = p]
<1>1. /\ LinksTypeOK /\ LinkMadeOnce /\ OthersCleared /\ c \in LinkCallers
      /\ link[c] \in LinkRow /\ linkCall[c] \in LinkCallState
  BY LinkInvParts, LinkCallersApart
<1>2. /\ linkCall[c].pc = "new" /\ link[c].row = "none" /\ link[c].made = 0
      /\ linkCall' = [linkCall EXCEPT ![c] = k] /\ link' = [link EXCEPT ![c] = w]
  BY <1>1 DEF IssueLink, LinkMadeOnce
<1>3. k \in LinkCallState /\ k.pc = "deleting" /\ k.late = linkCall[c].late
  BY <1>1 DEF LinkCallState
<1>4. w \in LinkRow /\ w.row = "none" /\ w.made = 0
  BY <1>1, <1>2 DEF LinkRow
<1> HIDE DEF k, w
<1>5. /\ linkCall' \in [LinkCallers -> LinkCallState] /\ linkCall'[c] = k
      /\ \A d \in LinkCallers \ {c} : linkCall'[d] = linkCall[d]
  BY <1>1, <1>2, <1>3, LinkCallMoves
<1>6. /\ link' \in [IssueCalls -> LinkRow] /\ link'[c] = w
      /\ \A d \in IssueCalls \ {c} : link'[d] = link[d]
  BY <1>1, <1>2, <1>4, LinkRowMoves
<1>7. LinksTypeOK'
  BY <1>5, <1>6, LinksTyped DEF LinksTypeOK, LinkRow, LinkCallState, LinkCallers
<1>8. LinksForward
  BY <1>2, <1>4, <1>6 DEF LinksForward
<1>9. \A d \in UseCalls \ {c} : Quiet(d)
  BY <1>5, LinkCallersApart DEF Quiet
<1>10. BurntByOne'
  BY <1>7, <1>8, <1>9, UsesMove, LinkCallersApart
<1>11. LinkMadeOnce'
  BY <1>1, <1>3, <1>4, <1>5, <1>6, LinkCallersApart DEF LinkMadeOnce
<1>12. OthersCleared'
  <2>1. ~ Stored(c)' /\ \A l \in IssueCalls \ {c} : Stored(l)' <=> Stored(l)
    BY <1>4, <1>6 DEF Stored
  <2> HIDE DEF Stored
  <2> QED BY <1>1, <1>3, <1>5, <1>6, <2>1, LinkCallersApart DEF OthersCleared
<1> QED BY <1>7, <1>10, <1>11, <1>12 DEF LinkInv

LEMMA ClearOlderFits ==
  ASSUME LinkInv, NEW c \in IssueCalls, ClearOlder(c)
  PROVE  LinkInv'
<1> DEFINE k == [linkCall[c] EXCEPT !.pc = "creating"]
<1>1. /\ LinksTypeOK /\ LinkMadeOnce /\ OthersCleared /\ c \in LinkCallers
      /\ link \in [IssueCalls -> LinkRow] /\ linkCall[c] \in LinkCallState
  BY LinkInvParts, LinkCallersApart
<1>2. /\ linkCall[c].pc = "deleting"
      /\ linkCall' = [linkCall EXCEPT ![c] = k] /\ link' = WithoutLinks(link[c].purpose)
  BY DEF ClearOlder, At
<1>3. k \in LinkCallState /\ k.pc = "creating" /\ k.late = linkCall[c].late
  BY <1>1 DEF LinkCallState
<1> HIDE DEF k
<1>4. /\ linkCall' \in [LinkCallers -> LinkCallState] /\ linkCall'[c] = k
      /\ \A d \in LinkCallers \ {c} : linkCall'[d] = linkCall[d]
  BY <1>1, <1>2, <1>3, LinkCallMoves
<1>5. /\ link' \in [IssueCalls -> LinkRow]
      /\ \A l \in IssueCalls :
           /\ link'[l].purpose = link[l].purpose /\ link'[l].made = link[l].made
           /\ link'[l].row = IF Stored(l) /\ link[l].purpose = link[c].purpose
                             THEN "deleted" ELSE link[l].row
  BY <1>1, <1>2, WithoutLinksShape
<1>6. LinksTypeOK'
  BY <1>4, <1>5 DEF LinksTypeOK, LinkRow, LinkCallState, LinkCallers
<1>7. LinksForward
  BY <1>5 DEF LinksForward, Stored
<1>8. BurntByOne'
  <2>1. \A d \in UseCalls \ {c} : Quiet(d)
    BY <1>4, LinkCallersApart DEF Quiet
  <2> QED BY <1>6, <1>7, <2>1, UsesMove, LinkCallersApart
<1>9. LinkMadeOnce'
  BY <1>1, <1>2, <1>4, <1>5, LinkCallersApart DEF LinkMadeOnce, Stored
<1>10. OthersCleared'
  <2>1. \A l \in IssueCalls :
          Stored(l)' => Stored(l) /\ link[l].purpose # link[c].purpose
    BY <1>5 DEF Stored
  <2> HIDE DEF Stored
  <2> QED BY <1>1, <1>3, <1>4, <1>5, <2>1, LinkCallersApart DEF OthersCleared
<1> QED BY <1>6, <1>8, <1>9, <1>10 DEF LinkInv

LEMMA CreateLinkFits ==
  ASSUME LinkInv, NEW c \in IssueCalls, CreateLink(c)
  PROVE  LinkInv'
<1> DEFINE w == [link[c] EXCEPT !.row = "live", !.made = Made + 1]
<1>1. /\ LinksTypeOK /\ LinkMadeOnce /\ OthersCleared /\ c \in LinkCallers
      /\ link \in [IssueCalls -> LinkRow] /\ linkCall \in [LinkCallers -> LinkCallState]
  BY LinkInvParts, LinkCallersApart
<1>2. /\ linkCall[c].pc = "creating" /\ link[c].row = "none" /\ link[c].made = 0
      /\ link' = [link EXCEPT ![c] = w]
  BY <1>1 DEF CreateLink, LinkMadeOnce
<1>3. Made + 1 \in 0..Cardinality(IssueCalls)
  <2> DEFINE S == {l \in IssueCalls : link[l].made > 0}
  <2>1. S \subseteq IssueCalls \ {c}
    BY <1>2
  <2>2. /\ IsFiniteSet(IssueCalls \ {c})
        /\ Cardinality(IssueCalls \ {c}) = Cardinality(IssueCalls) - 1
    BY LinksAssumption, FS_RemoveElement
  <2>3. Cardinality(S) \in Nat /\ Cardinality(S) =< Cardinality(IssueCalls) - 1
    BY <2>1, <2>2, FS_Subset, FS_CardinalityType
  <2> QED BY <2>3, IssueCallsCounted DEF Made
<1>4. w \in LinkRow /\ w.row = "live" /\ w.purpose = link[c].purpose
  BY <1>1, <1>3 DEF LinkRow
<1> HIDE DEF w
<1>5. /\ link' \in [IssueCalls -> LinkRow] /\ link'[c] = w
      /\ \A d \in IssueCalls \ {c} : link'[d] = link[d]
  BY <1>1, <1>2, <1>4, LinkRowMoves
<1>6. ASSUME NEW d \in LinkCallers
      PROVE  /\ linkCall'[d] \in LinkCallState
             /\ linkCall'[d].of = linkCall[d].of /\ linkCall'[d].set = linkCall[d].set
             /\ linkCall'[d].pc = IF d = c THEN "mailing" ELSE linkCall[d].pc
             /\ linkCall[d].late => linkCall'[d].late
             /\ d \notin IssueCalls => linkCall'[d] = linkCall[d]
             /\ d \in IssueCalls /\ d # c /\ linkCall[d].pc = "creating"
                  /\ link[d].purpose = link[c].purpose => linkCall'[d].late
  <2> DEFINE k == [linkCall[c] EXCEPT !.pc = "mailing"]
             q == [linkCall[d] EXCEPT !.late = TRUE]
  <2>1. /\ k \in LinkCallState /\ k.pc = "mailing" /\ k.of = linkCall[c].of
        /\ k.set = linkCall[c].set /\ k.late = linkCall[c].late
    BY <1>1 DEF LinkCallState
  <2>2. /\ q \in LinkCallState /\ q.pc = linkCall[d].pc /\ q.of = linkCall[d].of
        /\ q.set = linkCall[d].set /\ q.late = TRUE
    BY <1>1 DEF LinkCallState
  <2>3. linkCall'[d] = IF d = c THEN k
                       ELSE IF d \in IssueCalls /\ linkCall[d].pc = "creating"
                                 /\ link[d].purpose = link[c].purpose
                            THEN q ELSE linkCall[d]
    BY <1>1 DEF CreateLink
  <2> HIDE DEF k, q
  <2> QED BY <1>1, <2>1, <2>2, <2>3
<1>7. linkCall' \in [LinkCallers -> LinkCallState]
  BY <1>1, <1>6 DEF CreateLink
<1>8. LinksTypeOK'
  BY <1>5, <1>7 DEF LinksTypeOK, LinkRow, LinkCallState, LinkCallers
<1>9. LinksForward
  BY <1>2, <1>4, <1>5 DEF LinksForward
<1>10. BurntByOne'
  <2>1. \A d \in UseCalls \ {c} : Quiet(d)
    BY <1>6, LinkCallersApart DEF Quiet
  <2> QED BY <1>8, <1>9, <2>1, UsesMove, LinkCallersApart
<1>11. LinkMadeOnce'
  BY <1>1, <1>5, <1>6, LinkCallersApart DEF LinkMadeOnce
<1>12. OthersCleared'
  <2>1. \A l \in IssueCalls : link'[l].purpose = link[l].purpose
    BY <1>4, <1>5
  <2>2. \A l \in IssueCalls \ {c} : Stored(l)' <=> Stored(l)
    BY <1>5 DEF Stored
  <2> HIDE DEF Stored
  <2>3. ASSUME NEW d \in IssueCalls, NEW l \in IssueCalls,
               linkCall'[d].pc = "creating", ~ linkCall'[d].late, d # l, Stored(l)'
        PROVE  link'[l].purpose # link'[d].purpose
    <3>1. d # c /\ linkCall[d].pc = "creating" /\ ~ linkCall[d].late
      BY <1>6, <2>3, LinkCallersApart
    <3>2. CASE l = c
      BY <1>6, <2>1, <2>3, <3>1, <3>2, LinkCallersApart
    <3>3. CASE l # c
      BY <1>1, <2>1, <2>2, <2>3, <3>1, <3>3 DEF OthersCleared
    <3> QED BY <3>2, <3>3
  <2>4. ASSUME NEW k \in IssueCalls, NEW l \in IssueCalls, k # l, Stored(k)', Stored(l)',
               link'[k].purpose = link'[l].purpose
        PROVE  linkCall'[k].late \/ linkCall'[l].late
    <3>1. CASE k # c /\ l # c
      <4>1. linkCall[k].late \/ linkCall[l].late
        BY <1>1, <2>1, <2>2, <2>4, <3>1 DEF OthersCleared
      <4> QED BY <1>6, <4>1, LinkCallersApart
    <3>2. CASE k = c
      <4>1. linkCall[c].late
        BY <1>1, <1>2, <2>1, <2>2, <2>4, <3>2 DEF OthersCleared
      <4> QED BY <1>1, <1>6, <3>2, <4>1
    <3>3. CASE l = c
      <4>1. linkCall[c].late
        BY <1>1, <1>2, <2>1, <2>2, <2>4, <3>3 DEF OthersCleared
      <4> QED BY <1>1, <1>6, <3>3, <4>1
    <3> QED BY <3>1, <3>2, <3>3
  <2> QED BY <2>3, <2>4 DEF OthersCleared
<1> QED BY <1>8, <1>10, <1>11, <1>12 DEF LinkInv

\* A call goes on to its letter, or ends.
LEMMA CallEndsFits ==
  ASSUME LinkInv, NEW c \in LinkCallers, NEW pc \in {"mailing", "over"},
         linkCall[c].pc # "new", At(c, pc), UNCHANGED link
  PROVE  LinkInv'
<1> DEFINE k == [linkCall[c] EXCEPT !.pc = pc]
<1>1. /\ LinksTypeOK /\ link \in [IssueCalls -> LinkRow]
      /\ linkCall[c] \in LinkCallState /\ linkCall' = [linkCall EXCEPT ![c] = k]
  BY LinkInvParts DEF At
<1>2. /\ k \in LinkCallState /\ k.pc = pc /\ k.late = linkCall[c].late
      /\ k.of = linkCall[c].of /\ k.set = linkCall[c].set
  BY <1>1 DEF LinkCallState
<1> HIDE DEF k
<1>3. /\ linkCall' \in [LinkCallers -> LinkCallState] /\ linkCall'[c] = k
      /\ \A d \in LinkCallers \ {c} : linkCall'[d] = linkCall[d]
  BY <1>1, <1>2, LinkCallMoves
<1>4. LinksTypeOK'
  BY <1>1, <1>3 DEF LinksTypeOK, LinkRow, LinkCallState, LinkCallers
<1>5. LinksForward
  BY DEF LinksForward
<1>6. \A d \in LinkCallers : Quiet(d)
  BY <1>2, <1>3 DEF Quiet
<1>7. BurntByOne'
  <2>1. ASSUME c \in UseCalls
        PROVE  /\ linkCall'[c].pc \in {"new", "deleting"} => ~ linkCall'[c].set
               /\ linkCall'[c].pc # "new" => link'[linkCall'[c].of].row # "none" \/ ~ Burnt(c)'
               /\ linkCall'[c].pc = "deleting" => link'[linkCall'[c].of].row # "none"
               /\ Burnt(c)' /\ ~ linkCall'[c].late => link'[linkCall'[c].of].row = "deleted"
               /\ \A d \in UseCalls \ {c} :
                    Burnt(c)' /\ Burnt(d) /\ linkCall'[c].of = linkCall[d].of =>
                      linkCall'[c].late \/ linkCall[d].late
    <3>1. /\ linkCall'[c].pc = pc /\ linkCall'[c].of = linkCall[c].of
          /\ linkCall'[c].late = linkCall[c].late
      BY <1>2, <1>3
    <3>2. Burnt(c)' => Burnt(c)
      BY <1>2, <1>3 DEF Burnt
    <3>3. /\ linkCall[c].pc # "new" => link[linkCall[c].of].row # "none" \/ ~ Burnt(c)
          /\ Burnt(c) /\ ~ linkCall[c].late => link[linkCall[c].of].row = "deleted"
          /\ \A d \in UseCalls \ {c} :
               Burnt(c) /\ Burnt(d) /\ linkCall[c].of = linkCall[d].of =>
                 linkCall[c].late \/ linkCall[d].late
      BY <2>1, LinkInvParts DEF BurntByOne
    <3> HIDE DEF Burnt
    <3> QED BY <3>1, <3>2, <3>3
  <2> QED BY <1>4, <1>5, <1>6, <2>1, UsesMove, LinkCallersApart
<1>8. LinkMadeOnce' /\ OthersCleared'
  <2>1. \A l \in IssueCalls :
          /\ link'[l].purpose = link[l].purpose /\ (Stored(l)' => Stored(l))
          /\ link[l].row = "none" => link'[l].row = "none" /\ link'[l].made = link[l].made
          /\ linkCall'[l].late = linkCall[l].late
          /\ linkCall'[l].pc = linkCall[l].pc \/ linkCall'[l].pc \in {"mailing", "over"}
    BY <1>6, LinkCallersApart DEF Quiet, Stored
  <2> QED BY <2>1, IssuesMove
<1> QED BY <1>4, <1>7, <1>8 DEF LinkInv

\* A call that presents a link gets further; rows are deleted at most.
LEMMA UseMovesFits ==
  ASSUME LinkInv, NEW c \in UseCalls, NEW k \in LinkCallState,
         linkCall' = [linkCall EXCEPT ![c] = k],
         link' \in [IssueCalls -> LinkRow], LinksForward,
         \A l \in IssueCalls :
           /\ link'[l].purpose = link[l].purpose /\ (Stored(l)' => Stored(l))
           /\ link[l].row = "none" => link'[l].row = "none" /\ link'[l].made = link[l].made,
         k.pc # "new",
         k.pc = "deleting" => ~ k.set /\ link'[k.of].row # "none",
         k.set \/ k.pc = "setting" =>
           /\ link'[k.of].row # "none" /\ (~ k.late => link'[k.of].row = "deleted")
           /\ \A d \in UseCalls \ {c} :
                Burnt(d) /\ k.of = linkCall[d].of => k.late \/ linkCall[d].late
  PROVE  LinkInv'
<1>1. LinksTypeOK /\ c \in LinkCallers /\ c \notin IssueCalls
  BY LinkInvParts, LinkCallersApart
<1>2. /\ linkCall' \in [LinkCallers -> LinkCallState] /\ linkCall'[c] = k
      /\ \A d \in LinkCallers \ {c} : linkCall'[d] = linkCall[d]
  BY <1>1, LinkCallMoves
<1>3. LinksTypeOK'
  BY <1>2 DEF LinksTypeOK, LinkRow, LinkCallState, LinkCallers
<1>4. BurntByOne'
  <2>1. \A d \in UseCalls \ {c} : Quiet(d)
    BY <1>2, LinkCallersApart DEF Quiet
  <2>2. Burnt(c)' => k.set \/ k.pc = "setting"
    BY <1>2 DEF Burnt
  <2> HIDE DEF Burnt
  <2>3. /\ linkCall'[c].pc \in {"new", "deleting"} => ~ linkCall'[c].set
        /\ linkCall'[c].pc # "new" => link'[linkCall'[c].of].row # "none" \/ ~ Burnt(c)'
        /\ linkCall'[c].pc = "deleting" => link'[linkCall'[c].of].row # "none"
        /\ Burnt(c)' /\ ~ linkCall'[c].late => link'[linkCall'[c].of].row = "deleted"
        /\ \A d \in UseCalls \ {c} :
             Burnt(c)' /\ Burnt(d) /\ linkCall'[c].of = linkCall[d].of =>
               linkCall'[c].late \/ linkCall[d].late
    BY <1>2, <2>2
  <2> QED BY <1>3, <2>1, <2>3, UsesMove
<1>5. LinkMadeOnce' /\ OthersCleared'
  <2>1. \A l \in IssueCalls : linkCall'[l] = linkCall[l]
    BY <1>1, <1>2, LinkCallersApart
  <2> QED BY <2>1, IssuesMove
<1> QED BY <1>3, <1>4, <1>5 DEF LinkInv

LEMMA PresentLinkFits ==
  ASSUME LinkInv, NEW c \in UseCalls, NEW l \in IssueCalls, PresentLink(c, l)
  PROVE  LinkInv'
<1> DEFINE k == [linkCall[c] EXCEPT !.pc = "deleting", !.of = l]
<1>1. /\ LinksTypeOK /\ BurntByOne /\ link \in [IssueCalls -> LinkRow] /\ linkCall[c] \in LinkCallState
  BY LinkInvParts, LinkCallersApart
<1>2. /\ linkCall[c].pc = "new" /\ link[l].row = "live" /\ link' = link
      /\ linkCall' = [linkCall EXCEPT ![c] = k]
  BY DEF PresentLink, Usable
<1>3. ~ linkCall[c].set
  BY <1>1, <1>2 DEF BurntByOne
<1>4. k \in LinkCallState /\ k.pc = "deleting" /\ k.of = l /\ ~ k.set
  BY <1>1, <1>3 DEF LinkCallState
<1> HIDE DEF k
<1>5. LinksForward
  BY <1>2 DEF LinksForward
<1>6. \A m \in IssueCalls : Stored(m)' => Stored(m)
  BY <1>2 DEF Stored
<1> QED BY <1>1, <1>2, <1>4, <1>5, <1>6, UseMovesFits

LEMMA BurnLinksFits ==
  ASSUME LinkInv, NEW c \in UseCalls, BurnLinks(c)
  PROVE  LinkInv'
<1> DEFINE l == linkCall[c].of
           late == ~ Stored(l)
           k == [linkCall[c] EXCEPT !.pc = "setting", !.late = late]
<1>1. /\ LinksTypeOK /\ BurntByOne /\ link \in [IssueCalls -> LinkRow] /\ linkCall[c] \in LinkCallState
  BY LinkInvParts, LinkCallersApart
<1>2. /\ linkCall[c].pc = "deleting" /\ link' = WithoutLinks(link[l].purpose)
      /\ linkCall' = [linkCall EXCEPT ![c] = k]
  BY DEF BurnLinks
<1>3. link[l].row # "none" /\ l \in IssueCalls
  BY <1>1, <1>2 DEF BurntByOne, LinkCallState
<1>4. /\ link' \in [IssueCalls -> LinkRow]
      /\ \A m \in IssueCalls :
           /\ link'[m].purpose = link[m].purpose /\ link'[m].made = link[m].made
           /\ link'[m].row = IF Stored(m) /\ link[m].purpose = link[l].purpose
                             THEN "deleted" ELSE link[m].row
  BY <1>1, <1>2, WithoutLinksShape
<1>5. LinksForward
  BY <1>4 DEF LinksForward, Stored
<1>6. \A m \in IssueCalls :
        /\ link'[m].purpose = link[m].purpose /\ (Stored(m)' => Stored(m))
        /\ link[m].row = "none" => link'[m].row = "none" /\ link'[m].made = link[m].made
  BY <1>4 DEF Stored
<1>7. late \in BOOLEAN /\ (~ late => Stored(l))
  BY DEF Stored
<1>8. link[l].row = "deleted" => late
  BY DEF Stored
<1> HIDE DEF late
<1>9. k \in LinkCallState /\ k.pc = "setting" /\ k.of = l /\ k.late = late
  BY <1>1, <1>7 DEF LinkCallState
<1>10. link'[l].row # "none" /\ (~ late => link'[l].row = "deleted")
  BY <1>3, <1>4, <1>7
<1>11. ASSUME NEW d \in UseCalls \ {c}, Burnt(d), l = linkCall[d].of
       PROVE  late \/ linkCall[d].late
  BY <1>1, <1>8, <1>11 DEF BurntByOne
<1> HIDE DEF k, l
<1> QED BY <1>2, <1>4, <1>5, <1>6, <1>9, <1>10, <1>11, UseMovesFits

LEMMA SetPasswordFits ==
  ASSUME LinkInv, NEW c \in UseCalls, SetPassword(c)
  PROVE  LinkInv'
<1> DEFINE k == [linkCall[c] EXCEPT !.pc = "revoking", !.set = TRUE]
<1>1. /\ LinksTypeOK /\ BurntByOne /\ link \in [IssueCalls -> LinkRow] /\ linkCall[c] \in LinkCallState
  BY LinkInvParts, LinkCallersApart
<1>2. /\ linkCall[c].pc = "setting" /\ link' = link /\ linkCall' = [linkCall EXCEPT ![c] = k]
  BY DEF SetPassword
<1>3. /\ k \in LinkCallState /\ k.pc = "revoking" /\ k.of = linkCall[c].of
      /\ k.late = linkCall[c].late
  BY <1>1 DEF LinkCallState
<1> HIDE DEF k
<1>4. LinksForward /\ \A m \in IssueCalls : Stored(m)' => Stored(m)
  BY <1>2 DEF LinksForward, Stored
<1>5. Burnt(c)
  BY <1>2 DEF Burnt
<1>6. /\ link[k.of].row # "none" /\ (~ k.late => link[k.of].row = "deleted")
      /\ \A d \in UseCalls \ {c} :
           Burnt(d) /\ k.of = linkCall[d].of => k.late \/ linkCall[d].late
  <2> HIDE DEF Burnt
  <2> QED BY <1>1, <1>2, <1>3, <1>5 DEF BurntByOne
<1> QED BY <1>1, <1>2, <1>3, <1>4, <1>6, UseMovesFits

LEMMA LinkExpiresFits ==
  ASSUME LinkInv, NEW l \in IssueCalls, LinkExpires(l)
  PROVE  LinkInv'
<1> DEFINE w == [link[l] EXCEPT !.row = "expired"]
<1>1. /\ LinksTypeOK /\ link[l] \in LinkRow /\ linkCall \in [LinkCallers -> LinkCallState]
  BY LinkInvParts
<1>2. link[l].row = "live" /\ link' = [link EXCEPT ![l] = w] /\ linkCall' = linkCall
  BY DEF LinkExpires
<1>3. w \in LinkRow /\ w.row = "expired" /\ w.purpose = link[l].purpose
  BY <1>1 DEF LinkRow
<1> HIDE DEF w
<1>4. /\ link' \in [IssueCalls -> LinkRow] /\ link'[l] = w
      /\ \A d \in IssueCalls \ {l} : link'[d] = link[d]
  BY <1>1, <1>2, <1>3, LinkRowMoves
<1>5. LinksTypeOK'
  BY <1>1, <1>2, <1>4 DEF LinksTypeOK, LinkRow, LinkCallState, LinkCallers
<1>6. LinksForward
  BY <1>2, <1>3, <1>4 DEF LinksForward
<1>7. BurntByOne'
  <2>1. \A d \in UseCalls \ {l} : Quiet(d)
    BY <1>2 DEF Quiet
  <2> QED BY <1>5, <1>6, <2>1, UsesMove, LinkCallersApart
<1>8. LinkMadeOnce' /\ OthersCleared'
  <2>1. \A m \in IssueCalls :
           /\ link'[m].purpose = link[m].purpose /\ (Stored(m)' => Stored(m))
           /\ link[m].row = "none" => link'[m].row = "none" /\ link'[m].made = link[m].made
    BY <1>2, <1>3, <1>4 DEF Stored
  <2> QED BY <1>2, <2>1, IssuesMove
<1> QED BY <1>5, <1>7, <1>8 DEF LinkInv

LEMMA LinksCrash ==
  ASSUME LinkInv, linkCall' = LinkCallsAfterCrash, UNCHANGED link
  PROVE  LinkInv'
<1>1. /\ LinksTypeOK /\ BurntByOne /\ link \in [IssueCalls -> LinkRow]
      /\ linkCall \in [LinkCallers -> LinkCallState]
  BY LinkInvParts
<1>2. ASSUME NEW d \in LinkCallers PROVE linkCall'[d] \in LinkCallState /\ Quiet(d)
  <2> DEFINE k == [linkCall[d] EXCEPT !.pc = "over"]
  <2>1. /\ k \in LinkCallState /\ k.pc = "over" /\ k.of = linkCall[d].of
        /\ k.set = linkCall[d].set /\ k.late = linkCall[d].late
    BY <1>1 DEF LinkCallState
  <2>2. linkCall'[d] = IF linkCall[d].pc = "new" THEN linkCall[d] ELSE k
    BY <1>1 DEF LinkCallsAfterCrash
  <2> HIDE DEF k
  <2> QED BY <1>1, <2>1, <2>2 DEF Quiet
<1>3. linkCall' \in [LinkCallers -> LinkCallState]
  BY <1>1, <1>2 DEF LinkCallsAfterCrash
<1>4. LinksTypeOK'
  BY <1>1, <1>3 DEF LinksTypeOK, LinkRow, LinkCallState, LinkCallers
<1>5. LinksForward /\ \A m \in IssueCalls : Stored(m)' => Stored(m)
  BY DEF LinksForward, Stored
<1>6. BurntByOne'
  <2>1. PICK c : c \notin UseCalls
    BY LinksAssumption
  <2> QED BY <1>2, <1>4, <1>5, <2>1, UsesMove, LinkCallersApart
<1>7. LinkMadeOnce' /\ OthersCleared'
  BY <1>2, <1>5, IssuesMove, LinkCallersApart DEF Quiet
<1> QED BY <1>4, <1>6, <1>7 DEF LinkInv

LEMMA LinksStay == LinkInv /\ UNCHANGED linkVars => LinkInv'
<1> SUFFICES ASSUME LinkInv, UNCHANGED linkVars PROVE LinkInv'
  OBVIOUS
<1>1. link' = link /\ linkCall' = linkCall
  BY DEF linkVars
<1> QED BY <1>1 DEF LinkInv, LinksTypeOK, LinkMadeOnce, BurntByOne, OthersCleared, Burnt, Stored

LEMMA LinkStepFits == LinkInv /\ LinkStep => LinkInv'
<1> SUFFICES ASSUME LinkInv, LinkStep PROVE LinkInv'
  OBVIOUS
<1>1. ASSUME NEW c \in IssueCalls, MailLink(c) PROVE LinkInv'
  BY <1>1, CallEndsFits, LinkCallersApart DEF MailLink
<1>2. ASSUME NEW c \in UseCalls, EndSessions(c) PROVE LinkInv'
  BY <1>2, CallEndsFits, LinkCallersApart DEF EndSessions
<1>3. ASSUME NEW c \in UseCalls, MailChanged(c) PROVE LinkInv'
  BY <1>3, CallEndsFits, LinkCallersApart DEF MailChanged
<1>4. ASSUME NEW c \in LinkCallers, LinkCallFails(c) PROVE LinkInv'
  BY <1>4, CallEndsFits DEF LinkCallFails
<1> QED BY <1>1, <1>2, <1>3, <1>4, IssueLinkFits, ClearOlderFits, CreateLinkFits, PresentLinkFits,
           BurnLinksFits, SetPasswordFits, LinkExpiresFits DEF LinkStep, LinkCallers

LEMMA LinkInvMeans == LinkInv => LinksWorkOnce
<1> SUFFICES ASSUME LinkInv PROVE LinksWorkOnce
  OBVIOUS
<1>1. BurntByOne /\ OthersCleared
  BY LinkInvParts
<1>2. ASSUME NEW c \in UseCalls, NEW d \in UseCalls, c # d, linkCall[c].set, linkCall[d].set,
             linkCall[c].of = linkCall[d].of
      PROVE  linkCall[c].late \/ linkCall[d].late
  BY <1>1, <1>2 DEF BurntByOne, Burnt
<1>3. ASSUME NEW k \in IssueCalls, NEW l \in IssueCalls, k # l, Usable(k), Usable(l),
             link[k].purpose = link[l].purpose
      PROVE  linkCall[k].late \/ linkCall[l].late
  BY <1>1, <1>3 DEF OthersCleared, Usable, Stored
<1> QED BY <1>2, <1>3 DEF LinksWorkOnce
-----------------------------------------------------------------------------
(***************************************************************************)
(* The conversation.  The counts of mark requests are bounded by how far   *)
(* the page on the screen has come, so the steps are followed with any     *)
(* counts, and the bound of the type is a consequence.                     *)
(***************************************************************************)
MessageState ==
  [pc : {"unsent", "checking", "creating", "mailing", "over"}, read : BOOLEAN, late : BOOLEAN]

Chat ==
  [view : {"away", "hidden", "active"}, page : Pages, fetch : {"idle", "asked", "answered"},
   answer : Pages, marked : SUBSET Messages, asking : Nat, answers : Nat, failed : BOOLEAN]

Bounded(k) ==
  /\ k.asking + k.answers =< MaxMarks + Progress(k.page)
  /\ Unread(k.page) \notin {{}, k.marked} => k.asking + k.answers < MaxMarks + Progress(k.page)

BellInv ==
  /\ message \in [Messages -> MessageState] /\ bell \in [Messages -> {"none", "unread", "read"}]
  /\ BellFree /\ OnlyOverlappingMessagesRepeat

ChatInv == chat \in Chat /\ PagesInOrder /\ Bounded(chat)

LEMMA ProgressTyped ==
  ASSUME NEW p \in Pages
  PROVE  Progress(p) \in 0..2 * Cardinality(Messages)
<1> DEFINE S == {m \in Messages : p[m] # "absent"}
           T == {m \in Messages : p[m] = "read"}
<1>1. /\ Cardinality(S) \in Nat /\ Cardinality(S) =< Cardinality(Messages)
      /\ Cardinality(T) \in Nat /\ Cardinality(T) =< Cardinality(Messages)
      /\ Cardinality(Messages) \in Nat
  BY ConversationsAssumption, FS_Subset, FS_CardinalityType
<1> QED BY <1>1 DEF Progress

LEMMA ProgressForward ==
  ASSUME NEW p \in Pages, NEW q \in Pages, NotBefore(p, q)
  PROVE  p = q \/ Progress(p) < Progress(q)
<1> DEFINE S(r) == {m \in Messages : r[m] # "absent"}
           T(r) == {m \in Messages : r[m] = "read"}
<1>1. /\ S(p) \subseteq S(q) /\ T(p) \subseteq T(q)
      /\ IsFiniteSet(S(q)) /\ IsFiniteSet(T(q))
  BY ConversationsAssumption, FS_Subset DEF NotBefore, Pages
<1>2. /\ Cardinality(S(p)) \in Nat /\ Cardinality(S(q)) \in Nat
      /\ Cardinality(T(p)) \in Nat /\ Cardinality(T(q)) \in Nat
      /\ Cardinality(S(p)) =< Cardinality(S(q)) /\ Cardinality(T(p)) =< Cardinality(T(q))
      /\ Cardinality(S(p)) = Cardinality(S(q)) => S(p) = S(q)
      /\ Cardinality(T(p)) = Cardinality(T(q)) => T(p) = T(q)
  <2>1. IsFiniteSet(S(p)) /\ IsFiniteSet(T(p))
    BY ConversationsAssumption, FS_Subset
  <2> HIDE DEF S, T
  <2> QED BY <1>1, <2>1, FS_Subset, FS_CardinalityType
<1>3. CASE p = q
  BY <1>3
<1>4. CASE p # q
  <2>1. PICK m \in Messages : p[m] # q[m]
    BY <1>4 DEF Pages
  <2>2. m \in S(q) \ S(p) \/ m \in T(q) \ T(p)
    BY <2>1 DEF NotBefore, Pages
  <2>3. S(p) # S(q) \/ T(p) # T(q)
    BY <2>2
  <2>4. Progress(p) = Cardinality(S(p)) + Cardinality(T(p)) /\ Progress(q) = Cardinality(S(q)) + Cardinality(T(q))
    BY DEF Progress
  <2> HIDE DEF S, T
  <2> QED BY <1>2, <2>3, <2>4
<1> QED BY <1>3, <1>4

LEMMA TalkInvParts == TalkInv <=> BellInv /\ ChatInv
<1>1. ASSUME TalkInv PROVE BellInv /\ ChatInv
  BY <1>1, ConversationsAssumption, FS_CardinalityType
  DEF TalkInv, TalkTypeOK, BellInv, ChatInv, MessageState, Chat, MarksBounded, Bounded
<1>2. ASSUME BellInv, ChatInv PROVE TalkInv
  <2> DEFINE B == MaxMarks + 2 * Cardinality(Messages)
  <2>1. chat \in Chat /\ Bounded(chat)
    BY <1>2 DEF ChatInv
  <2>2. /\ chat.page \in Pages /\ chat.asking \in Nat /\ chat.answers \in Nat
        /\ chat.asking + chat.answers =< MaxMarks + Progress(chat.page)
    BY <2>1 DEF Chat, Bounded
  <2>3. Cardinality(Messages) \in Nat /\ MaxMarks \in Nat
    BY ConversationsAssumption, FS_CardinalityType
  <2>4. Progress(chat.page) \in 0..2 * Cardinality(Messages)
    BY <2>2, ProgressTyped
  <2>5. chat.asking \in 0..B /\ chat.answers \in 0..B
    BY <2>2, <2>3, <2>4
  <2> HIDE DEF B
  <2>6. chat \in [view : {"away", "hidden", "active"}, page : Pages,
                  fetch : {"idle", "asked", "answered"}, answer : Pages,
                  marked : SUBSET Messages, asking : 0..B, answers : 0..B, failed : BOOLEAN]
    BY <2>1, <2>5 DEF Chat
  <2>7. TalkTypeOK
    BY <1>2, <2>6 DEF TalkTypeOK, BellInv, MessageState, B
  <2> QED BY <1>2, <2>7 DEF TalkInv, BellInv, ChatInv, MarksBounded, Bounded
<1> QED BY <1>1, <1>2

LEMMA TalkInvPartsNext == BellInv' /\ ChatInv' => TalkInv'
BY TalkInvParts, PTL

LEMMA TalkInitFits == TalkInit => TalkInv
<1> SUFFICES ASSUME TalkInit PROVE BellInv /\ ChatInv
  BY TalkInvParts
<1>1. Blank \in Pages /\ Unread(Blank) = {} /\ Progress(Blank) \in Nat
  BY ProgressTyped, ConversationsAssumption, FS_CardinalityType DEF Blank, Pages, Unread
<1>2. BellInv
  BY DEF TalkInit, BellInv, MessageState, BellFree, HasUnread, OnlyOverlappingMessagesRepeat
<1>3. chat \in Chat
  BY <1>1 DEF TalkInit, Chat
<1>4. PagesInOrder
  BY DEF TalkInit, PagesInOrder, NotBefore, Blank
<1>5. Bounded(chat)
  BY <1>1, ConversationsAssumption DEF TalkInit, Bounded
<1> QED BY <1>2, <1>3, <1>4, <1>5 DEF ChatInv

\* A message and its listener get further; no notice appears.
LEMMA BellKept ==
  ASSUME BellInv, message' \in [Messages -> MessageState],
         bell' \in [Messages -> {"none", "unread", "read"}],
         \A m \in Messages :
           /\ bell'[m] = bell[m] \/ (bell[m] = "unread" /\ bell'[m] = "read")
           /\ message[m].late => message'[m].late
           /\ \/ message'[m].pc = message[m].pc
              \/ message'[m].pc \in {"mailing", "over"}
              \/ message[m].pc = "unsent" /\ message'[m].pc = "checking"
              \/ message[m].pc = "checking" /\ message'[m].pc = "creating" /\ ~ HasUnread
  PROVE  BellInv'
<1>1. HasUnread' => HasUnread
  BY DEF HasUnread
<1>2. BellFree'
  <2> HIDE DEF HasUnread
  <2> QED BY <1>1 DEF BellInv, BellFree
<1>3. OnlyOverlappingMessagesRepeat'
  BY DEF BellInv, OnlyOverlappingMessagesRepeat
<1> QED BY <1>2, <1>3 DEF BellInv

\* The server knows more, the chat is as it was.
LEMMA ServerForward ==
  ASSUME ChatInv, chat' = chat, message' \in [Messages -> MessageState],
         \A m \in Messages : (Sent(m) => Sent(m)') /\ (message[m].read => message'[m].read)
  PROVE  ChatInv'
<1>1. NotBefore(ServerPage, ServerPage')
  BY DEF NotBefore, ServerPage, Sent
<1> HIDE DEF ServerPage
<1>2. PagesInOrder'
  BY <1>1 DEF ChatInv, PagesInOrder, NotBefore
<1> QED BY <1>2 DEF ChatInv, Bounded

LEMMA MessageMoves ==
  ASSUME BellInv, NEW m \in Messages, NEW k \in MessageState, message' = [message EXCEPT ![m] = k]
  PROVE  /\ message' \in [Messages -> MessageState] /\ message'[m] = k
         /\ \A n \in Messages \ {m} : message'[n] = message[n]
BY DEF BellInv

LEMMA ListenerFits ==
  ASSUME TalkInv, NEW m \in Messages,
         NEW pc \in {"unsent", "checking", "creating", "mailing", "over"},
         message' = [message EXCEPT ![m] = [message[m] EXCEPT !.pc = pc]],
         UNCHANGED <<bell, chat>>,
         \/ message[m].pc # "unsent" /\ pc = "over"
         \/ message[m].pc = "unsent" /\ pc = "checking"
         \/ message[m].pc = "checking" /\ pc = "creating" /\ ~ HasUnread
  PROVE  TalkInv'
<1> DEFINE k == [message[m] EXCEPT !.pc = pc]
<1>1. BellInv /\ ChatInv /\ message[m] \in MessageState
  BY TalkInvParts DEF BellInv
<1>2. /\ k \in MessageState /\ k.pc = pc /\ k.read = message[m].read /\ k.late = message[m].late
      /\ message' = [message EXCEPT ![m] = k]
  BY <1>1 DEF MessageState
<1> HIDE DEF k
<1>3. /\ message' \in [Messages -> MessageState] /\ message'[m] = k
      /\ \A n \in Messages \ {m} : message'[n] = message[n]
  BY <1>1, <1>2, MessageMoves
<1>4. \A n \in Messages :
           /\ bell'[n] = bell[n]
           /\ message[n].late => message'[n].late
           /\ \/ message'[n].pc = message[n].pc
              \/ message'[n].pc \in {"mailing", "over"}
              \/ message[n].pc = "unsent" /\ message'[n].pc = "checking"
              \/ message[n].pc = "checking" /\ message'[n].pc = "creating" /\ ~ HasUnread
  <2> HIDE DEF HasUnread
  <2> QED BY <1>2, <1>3
<1>5. bell' \in [Messages -> {"none", "unread", "read"}]
  BY <1>1 DEF BellInv
<1>6. BellInv'
  BY <1>1, <1>3, <1>4, <1>5, BellKept
<1>7. ChatInv'
  <2>1. \A n \in Messages : (Sent(n) => Sent(n)') /\ (message[n].read => message'[n].read)
    BY <1>2, <1>3 DEF Sent
  <2> QED BY <1>1, <1>3, <2>1, ServerForward
<1> QED BY <1>6, <1>7, TalkInvPartsNext

LEMMA CreateNoticeFits ==
  ASSUME TalkInv, NEW m \in Messages, CreateNotice(m)
  PROVE  TalkInv'
<1>1. BellInv /\ ChatInv /\ message \in [Messages -> MessageState]
  BY TalkInvParts DEF BellInv
<1>2. ASSUME NEW n \in Messages
      PROVE  /\ message'[n] \in MessageState /\ message'[n].read = message[n].read
             /\ message'[n].pc = IF n = m THEN "mailing" ELSE message[n].pc
             /\ message[n].late => message'[n].late
             /\ n # m /\ message[n].pc = "creating" => message'[n].late
  <2> DEFINE k == [message[m] EXCEPT !.pc = "mailing"]
             q == [message[n] EXCEPT !.late = TRUE]
  <2>1. k \in MessageState /\ k.pc = "mailing" /\ k.read = message[m].read /\ k.late = message[m].late
    BY <1>1 DEF MessageState
  <2>2. q \in MessageState /\ q.pc = message[n].pc /\ q.read = message[n].read /\ q.late
    BY <1>1 DEF MessageState
  <2>3. message'[n] = IF n = m THEN k ELSE IF message[n].pc = "creating" THEN q ELSE message[n]
    BY DEF CreateNotice
  <2> HIDE DEF k, q
  <2> QED BY <1>1, <2>1, <2>2, <2>3
<1>3. message' \in [Messages -> MessageState]
  BY <1>2 DEF CreateNotice
<1>4. /\ message[m].pc = "creating" /\ chat' = chat
      /\ bell' \in [Messages -> {"none", "unread", "read"}]
      /\ bell'[m] = "unread" /\ \A n \in Messages \ {m} : bell'[n] = bell[n]
  BY <1>1 DEF CreateNotice, BellInv
<1>5. BellFree'
  <2>1. ASSUME NEW n \in Messages, message'[n].pc = "creating", ~ message'[n].late PROVE FALSE
    BY <1>2, <2>1
  <2>2. ASSUME NEW n \in Messages, message'[n].pc \in {"unsent", "checking", "creating"}
        PROVE  bell'[n] = "none"
    BY <1>1, <1>2, <1>4, <2>2 DEF BellInv, BellFree
  <2> QED BY <2>1, <2>2 DEF BellFree
<1>6. OnlyOverlappingMessagesRepeat'
  <2> SUFFICES ASSUME NEW n \in Messages, NEW o \in Messages, n # o,
                      bell'[n] = "unread", bell'[o] = "unread"
               PROVE  message'[n].late \/ message'[o].late
    BY DEF OnlyOverlappingMessagesRepeat
  <2>1. CASE n # m /\ o # m
    BY <1>1, <1>2, <1>4, <2>1 DEF BellInv, OnlyOverlappingMessagesRepeat
  <2>2. CASE n = m
    <3>1. message[m].late
      BY <1>1, <1>4, <2>2 DEF BellInv, BellFree, HasUnread
    <3> QED BY <1>2, <2>2, <3>1
  <2>3. CASE o = m
    <3>1. message[m].late
      BY <1>1, <1>4, <2>3 DEF BellInv, BellFree, HasUnread
    <3> QED BY <1>2, <2>3, <3>1
  <2> QED BY <2>1, <2>2, <2>3
<1>7. ChatInv'
  <2>1. \A n \in Messages : (Sent(n) => Sent(n)') /\ (message[n].read => message'[n].read)
    BY <1>2, <1>4 DEF Sent
  <2> QED BY <1>1, <1>3, <1>4, <2>1, ServerForward
<1>8. BellInv'
  BY <1>3, <1>4, <1>5, <1>6 DEF BellInv
<1> QED BY <1>7, <1>8, TalkInvPartsNext

LEMMA ReadBellFits ==
  ASSUME TalkInv, NEW S, ReadBell(S)
  PROVE  TalkInv'
<1>1. BellInv /\ ChatInv /\ message' = message /\ chat' = chat
  BY TalkInvParts DEF ReadBell
<1>2. /\ bell' \in [Messages -> {"none", "unread", "read"}]
      /\ \A m \in Messages : bell'[m] = bell[m] \/ (bell[m] = "unread" /\ bell'[m] = "read")
  BY <1>1 DEF ReadBell, BellInv
<1>3. BellInv'
  BY <1>1, <1>2, BellKept DEF BellInv
<1>4. ChatInv'
  BY <1>1, ServerForward DEF BellInv, Sent
<1> QED BY <1>3, <1>4, TalkInvPartsNext

LEMMA TalkCrash ==
  ASSUME TalkInv, message' = TalkAfterCrash, UNCHANGED <<bell, chat>>
  PROVE  TalkInv'
<1>1. BellInv /\ ChatInv /\ message \in [Messages -> MessageState]
  BY TalkInvParts DEF BellInv
<1>2. ASSUME NEW n \in Messages
      PROVE  /\ message'[n] \in MessageState /\ message'[n].read = message[n].read
             /\ message'[n].late = message[n].late
             /\ message'[n].pc = message[n].pc \/ message'[n].pc = "over"
             /\ Sent(n) => Sent(n)'
  <2> DEFINE q == [message[n] EXCEPT !.pc = "over"]
  <2>1. q \in MessageState /\ q.pc = "over" /\ q.read = message[n].read /\ q.late = message[n].late
    BY <1>1 DEF MessageState
  <2>2. message'[n] = IF Sent(n) THEN q ELSE message[n]
    BY DEF TalkAfterCrash
  <2> HIDE DEF q
  <2> QED BY <1>1, <2>1, <2>2 DEF Sent
<1>3. message' \in [Messages -> MessageState]
  BY <1>2 DEF TalkAfterCrash
<1>4. BellInv'
  BY <1>1, <1>2, <1>3, BellKept DEF BellInv
<1>5. ChatInv'
  BY <1>1, <1>2, <1>3, ServerForward
<1> QED BY <1>4, <1>5, TalkInvPartsNext

LEMMA TalkStays == TalkInv /\ UNCHANGED talkVars => TalkInv'
<1> SUFFICES ASSUME TalkInv, message' = message, bell' = bell, chat' = chat PROVE TalkInv'
  BY DEF talkVars
<1>1. BellInv /\ ChatInv
  BY TalkInvParts
<1>2. BellInv'
  BY <1>1, BellKept DEF BellInv
<1>3. ChatInv'
  BY <1>1, ServerForward DEF BellInv, Sent
<1> QED BY <1>2, <1>3, TalkInvPartsNext

\* The effect asks once for each batch.
LEMMA MarkedShape ==
  ASSUME NEW c \in Chat
  PROVE  /\ Marked(c) \in Chat
         /\ Marked(c).page = c.page /\ Marked(c).fetch = c.fetch /\ Marked(c).answer = c.answer
         /\ Bounded(c) => Bounded(Marked(c))
<1> DEFINE n == c.asking + 1
           s == [c EXCEPT !.marked = Unread(c.page), !.asking = n]
<1>1. CASE c.view = "active" /\ Unread(c.page) # {} /\ c.marked # Unread(c.page)
  <2>1. n \in Nat /\ Unread(c.page) \in SUBSET Messages
    BY DEF Chat, Unread
  <2>2. /\ s \in Chat /\ s.page = c.page /\ s.fetch = c.fetch /\ s.answer = c.answer
        /\ s.asking = n /\ s.answers = c.answers /\ s.marked = Unread(c.page)
    <3> HIDE DEF n
    <3> QED BY <2>1 DEF Chat
  <2>3. Marked(c) = s
    BY <1>1 DEF Marked
  <2>4. Bounded(c) => Bounded(s)
    <3> SUFFICES ASSUME Bounded(c) PROVE Bounded(s)
      OBVIOUS
    <3>1. c.asking + c.answers < MaxMarks + Progress(c.page)
      BY <1>1 DEF Bounded
    <3>2. c.asking \in Nat /\ c.answers \in Nat /\ Progress(c.page) \in Int /\ MaxMarks \in Nat
      BY ProgressTyped, ConversationsAssumption, FS_CardinalityType DEF Chat
    <3> HIDE DEF s
    <3> QED BY <2>2, <3>1, <3>2 DEF Bounded
  <2> QED BY <2>2, <2>3, <2>4
<1>2. CASE ~ (c.view = "active" /\ Unread(c.page) # {} /\ c.marked # Unread(c.page))
  BY <1>2 DEF Marked
<1> QED BY <1>1, <1>2

\* Something happens in the browser, or on its way to the server.
LEMMA ChatMoves ==
  ASSUME TalkInv, NEW k \in Chat, Bounded(k), chat' \in {k, Marked(k)},
         UNCHANGED <<message, bell>>,
         NotBefore(k.page, ServerPage),
         k.fetch = "answered" => NotBefore(k.page, k.answer) /\ NotBefore(k.answer, ServerPage)
  PROVE  TalkInv'
<1>1. BellInv /\ ChatInv
  BY TalkInvParts
<1>2. BellInv'
  BY <1>1, BellKept DEF BellInv
<1>3. /\ chat' \in Chat /\ Bounded(chat')
      /\ chat'.page = k.page /\ chat'.fetch = k.fetch /\ chat'.answer = k.answer
  BY MarkedShape
<1>4. PagesInOrder'
  <2>1. ServerPage' = ServerPage
    BY DEF ServerPage, Sent
  <2> HIDE DEF ServerPage
  <2> QED BY <1>3, <2>1 DEF PagesInOrder, NotBefore
<1>5. Bounded(chat)'
  BY <1>3 DEF Bounded, Progress, Unread
<1>6. ChatInv'
  BY <1>3, <1>4, <1>5 DEF ChatInv
<1> QED BY <1>2, <1>6, TalkInvPartsNext

\* Fewer requests are as bounded as more.
LEMMA ChatTyped ==
  ASSUME TalkInv
  PROVE  /\ chat \in Chat /\ PagesInOrder /\ Bounded(chat)
         /\ chat.asking \in Nat /\ chat.answers \in Nat /\ chat.page \in Pages /\ chat.answer \in Pages
         /\ Progress(chat.page) \in Nat /\ MaxMarks \in Nat
         /\ Blank \in Pages /\ ServerPage \in Pages
<1>1. chat \in Chat /\ PagesInOrder /\ Bounded(chat) /\ message \in [Messages -> MessageState]
  BY TalkInvParts DEF ChatInv, BellInv
<1>2. chat.page \in Pages /\ Blank \in Pages /\ ServerPage \in Pages
  BY <1>1 DEF Chat, Blank, Pages, ServerPage
<1> QED BY <1>1, <1>2, ProgressTyped, ConversationsAssumption, FS_CardinalityType DEF Chat

LEMMA OpenThreadFits == TalkInv /\ OpenThread => TalkInv'
<1> SUFFICES ASSUME TalkInv, OpenThread PROVE TalkInv'
  OBVIOUS
<1> DEFINE k == [chat EXCEPT !.view = "active", !.fetch = "asked", !.answer = Blank, !.marked = {}]
<1>1. /\ chat' = Marked(k) /\ chat.asking + chat.answers < MaxMarks
      /\ UNCHANGED <<message, bell>>
  BY DEF OpenThread
<1>2. /\ k \in Chat /\ k.page = chat.page /\ k.fetch = "asked" /\ k.marked = {}
      /\ k.asking = chat.asking /\ k.answers = chat.answers
  BY ChatTyped DEF Chat
<1> HIDE DEF k
<1>3. Bounded(k)
  BY <1>1, <1>2, ChatTyped DEF Bounded
<1>4. NotBefore(k.page, ServerPage)
  BY <1>2, ChatTyped DEF PagesInOrder
<1> QED BY <1>1, <1>2, <1>3, <1>4, ChatMoves

LEMMA LeaveThreadFits == TalkInv /\ LeaveThread => TalkInv'
<1> SUFFICES ASSUME TalkInv, LeaveThread PROVE TalkInv'
  OBVIOUS
<1> DEFINE k == [chat EXCEPT !.view = "away", !.fetch = "idle", !.answer = Blank]
<1>1. chat' = k /\ UNCHANGED <<message, bell>>
  BY DEF LeaveThread
<1>2. /\ k \in Chat /\ k.page = chat.page /\ k.fetch = "idle" /\ k.marked = chat.marked
      /\ k.asking = chat.asking /\ k.answers = chat.answers
  BY ChatTyped DEF Chat
<1> HIDE DEF k
<1>3. Bounded(k) /\ NotBefore(k.page, ServerPage)
  BY <1>2, ChatTyped DEF Bounded, PagesInOrder
<1> QED BY <1>1, <1>2, <1>3, ChatMoves

LEMMA ShownOrHiddenFits == TalkInv /\ (HideThread \/ ShowThread \/ Poll) => TalkInv'
<1> SUFFICES ASSUME TalkInv, HideThread \/ ShowThread \/ Poll PROVE TalkInv'
  OBVIOUS
<1>1. ASSUME NEW view \in {"hidden", "active"}, NEW fetch \in {chat.fetch, "asked"},
             chat' \in {[chat EXCEPT !.view = view, !.fetch = fetch],
                        Marked([chat EXCEPT !.view = view, !.fetch = fetch])},
             UNCHANGED <<message, bell>>
      PROVE  TalkInv'
  <2> DEFINE k == [chat EXCEPT !.view = view, !.fetch = fetch]
  <2>1. chat' \in {k, Marked(k)} /\ UNCHANGED <<message, bell>>
    BY <1>1
  <2>2. /\ k \in Chat /\ k.page = chat.page /\ k.fetch = fetch /\ k.marked = chat.marked
        /\ k.asking = chat.asking /\ k.answers = chat.answers /\ k.answer = chat.answer
    BY ChatTyped DEF Chat
  <2> HIDE DEF k
  <2>3. Bounded(k) /\ NotBefore(k.page, ServerPage)
    BY <2>2, ChatTyped DEF Bounded, PagesInOrder
  <2>4. k.fetch = "answered" => NotBefore(k.page, k.answer) /\ NotBefore(k.answer, ServerPage)
    BY <2>2, ChatTyped DEF PagesInOrder
  <2> QED BY <2>1, <2>2, <2>3, <2>4, ChatMoves
<1>2. chat \in Chat
  BY ChatTyped
<1>3. CASE HideThread
  <2>1. chat' = [chat EXCEPT !.view = "hidden", !.fetch = chat.fetch]
    BY <1>2, <1>3 DEF HideThread, Chat
  <2> QED BY <1>1, <1>3, <2>1 DEF HideThread
<1>4. CASE ShowThread
  <2>1. [chat EXCEPT !.view = "active"] = [chat EXCEPT !.view = "active", !.fetch = chat.fetch]
    BY <1>2 DEF Chat
  <2>2. chat' = Marked([chat EXCEPT !.view = "active", !.fetch = chat.fetch])
    BY <1>4, <2>1 DEF ShowThread
  <2> QED BY <1>1, <1>4, <2>2 DEF ShowThread
<1>5. CASE Poll
  <2>1. chat' = [chat EXCEPT !.view = "active", !.fetch = "asked"]
    BY <1>2, <1>5 DEF Poll, Chat
  <2> QED BY <1>1, <1>5, <2>1 DEF Poll
<1> QED BY <1>3, <1>4, <1>5

LEMMA ServePageFits == TalkInv /\ ServePage => TalkInv'
<1> SUFFICES ASSUME TalkInv, ServePage PROVE TalkInv'
  OBVIOUS
<1> DEFINE p == ServerPage
           k == [chat EXCEPT !.fetch = "answered", !.answer = p]
<1>1. chat' = k /\ UNCHANGED <<message, bell>>
  BY DEF ServePage
<1>2. p \in Pages /\ NotBefore(chat.page, p) /\ NotBefore(p, p)
  BY ChatTyped DEF PagesInOrder, NotBefore
<1> HIDE DEF p
<1>3. /\ k \in Chat /\ k.page = chat.page /\ k.marked = chat.marked /\ k.answer = p
      /\ k.asking = chat.asking /\ k.answers = chat.answers
  BY <1>2, ChatTyped DEF Chat
<1> HIDE DEF k
<1>4. Bounded(k)
  BY <1>3, ChatTyped DEF Bounded
<1> USE DEF p
<1> QED BY <1>1, <1>2, <1>3, <1>4, ChatMoves

LEMMA ShowPageFits == TalkInv /\ ShowPage => TalkInv'
<1> SUFFICES ASSUME TalkInv, ShowPage PROVE TalkInv'
  OBVIOUS
<1> DEFINE k == [chat EXCEPT !.page = chat.answer, !.fetch = "idle", !.answer = Blank]
<1>1. /\ chat' = Marked(k) /\ UNCHANGED <<message, bell>>
      /\ NotBefore(chat.page, chat.answer) /\ NotBefore(chat.answer, ServerPage)
  BY ChatTyped DEF ShowPage, PagesInOrder
<1>2. /\ k \in Chat /\ k.page = chat.answer /\ k.fetch = "idle" /\ k.marked = chat.marked
      /\ k.asking = chat.asking /\ k.answers = chat.answers
  BY ChatTyped DEF Chat
<1> HIDE DEF k
<1>3. Bounded(k)
  <2>1. chat.page = k.page \/ Progress(chat.page) < Progress(k.page)
    BY <1>1, <1>2, ChatTyped, ProgressForward
  <2>2. Progress(k.page) \in Nat
    BY <1>2, ChatTyped, ProgressTyped, ConversationsAssumption, FS_CardinalityType
  <2>3. CASE chat.page = k.page
    BY <1>2, <2>3, ChatTyped DEF Bounded
  <2>4. CASE Progress(chat.page) < Progress(k.page)
    <3>1. chat.asking + chat.answers =< MaxMarks + Progress(chat.page)
      BY ChatTyped DEF Bounded
    <3>2. k.asking + k.answers < MaxMarks + Progress(k.page)
      BY <1>2, <2>2, <2>4, <3>1, ChatTyped
    <3> QED BY <1>2, <2>2, <3>2, ChatTyped DEF Bounded
  <2> QED BY <2>1, <2>3, <2>4
<1> QED BY <1>1, <1>2, <1>3, ChatMoves

LEMMA PageFailsFits == TalkInv /\ PageFails => TalkInv'
<1> SUFFICES ASSUME TalkInv, PageFails PROVE TalkInv'
  OBVIOUS
<1> DEFINE k == [chat EXCEPT !.fetch = "idle", !.answer = Blank, !.failed = TRUE]
<1>1. chat' = k /\ UNCHANGED <<message, bell>>
  BY DEF PageFails
<1>2. /\ k \in Chat /\ k.page = chat.page /\ k.fetch = "idle" /\ k.marked = chat.marked
      /\ k.asking = chat.asking /\ k.answers = chat.answers
  BY ChatTyped DEF Chat
<1> HIDE DEF k
<1>3. Bounded(k) /\ NotBefore(k.page, ServerPage)
  BY <1>2, ChatTyped DEF Bounded, PagesInOrder
<1> QED BY <1>1, <1>2, <1>3, ChatMoves

LEMMA MarkReadFits == TalkInv /\ MarkRead => TalkInv'
<1> SUFFICES ASSUME TalkInv, MarkRead PROVE TalkInv'
  OBVIOUS
<1> DEFINE n == chat.asking - 1
           o == chat.answers + 1
           k == [chat EXCEPT !.asking = n, !.answers = o]
<1>1. BellInv /\ ChatInv /\ message \in [Messages -> MessageState]
  BY TalkInvParts DEF BellInv
<1>2. /\ chat' = k /\ bell' = bell /\ n \in Nat /\ o \in Nat
      /\ n + o = chat.asking + chat.answers
  BY ChatTyped DEF MarkRead
<1>3. ASSUME NEW m \in Messages
      PROVE  /\ message'[m] \in MessageState /\ message'[m].pc = message[m].pc
             /\ message'[m].late = message[m].late /\ (message[m].read => message'[m].read)
  <2> DEFINE q == [message[m] EXCEPT !.read = TRUE]
  <2>1. q \in MessageState /\ q.pc = message[m].pc /\ q.read /\ q.late = message[m].late
    BY <1>1 DEF MessageState
  <2>2. message'[m] = IF Sent(m) THEN q ELSE message[m]
    BY DEF MarkRead
  <2> HIDE DEF q
  <2> QED BY <1>1, <2>1, <2>2
<1>4. message' \in [Messages -> MessageState]
  BY <1>3 DEF MarkRead
<1>5. BellInv'
  BY <1>1, <1>2, <1>3, <1>4, BellKept DEF BellInv
<1> HIDE DEF n, o
<1>6. /\ k \in Chat /\ k.page = chat.page /\ k.fetch = chat.fetch /\ k.answer = chat.answer
      /\ k.marked = chat.marked /\ k.asking = n /\ k.answers = o
  BY <1>2, ChatTyped DEF Chat
<1> HIDE DEF k
<1>7. Bounded(chat)'
  <2>1. Bounded(k)
    BY <1>2, <1>6, ChatTyped DEF Bounded
  <2> QED BY <1>2, <2>1 DEF Bounded, Progress, Unread
<1>8. PagesInOrder'
  <2>1. NotBefore(ServerPage, ServerPage')
    BY <1>3 DEF NotBefore, ServerPage, Sent
  <2> HIDE DEF ServerPage
  <2> QED BY <1>2, <1>6, <2>1, ChatTyped DEF PagesInOrder, NotBefore
<1>9. ChatInv'
  BY <1>2, <1>6, <1>7, <1>8 DEF ChatInv
<1> QED BY <1>5, <1>9, TalkInvPartsNext

LEMMA MarkAnsweredFits == TalkInv /\ MarkAnswered => TalkInv'
<1> SUFFICES ASSUME TalkInv, MarkAnswered PROVE TalkInv'
  OBVIOUS
<1> DEFINE n == chat.answers - 1
           fetch == IF chat.view = "away" THEN "idle" ELSE "asked"
           k == [chat EXCEPT !.answers = n, !.answer = Blank, !.fetch = fetch]
<1>1. chat' = k /\ UNCHANGED <<message, bell>> /\ n \in Nat /\ n < chat.answers
  BY ChatTyped DEF MarkAnswered
<1>2. fetch \in {"idle", "asked"}
  OBVIOUS
<1> HIDE DEF n, fetch
<1>3. /\ k \in Chat /\ k.page = chat.page /\ k.fetch = fetch /\ k.marked = chat.marked
      /\ k.asking = chat.asking /\ k.answers = n
  BY <1>1, <1>2, ChatTyped DEF Chat
<1> HIDE DEF k
<1>4. Bounded(k) /\ NotBefore(k.page, ServerPage)
  BY <1>1, <1>3, ChatTyped DEF Bounded, PagesInOrder
<1> QED BY <1>1, <1>2, <1>3, <1>4, ChatMoves

LEMMA MarkFailsFits == TalkInv /\ MarkFails => TalkInv'
<1> SUFFICES ASSUME TalkInv, MarkFails PROVE TalkInv'
  OBVIOUS
<1>1. PICK n \in Nat, o \in Nat :
        /\ n =< chat.asking /\ o =< chat.answers
        /\ chat' = [chat EXCEPT !.asking = n, !.answers = o, !.failed = TRUE]
  <2>1. CASE chat.asking > 0 /\ chat' = [chat EXCEPT !.asking = chat.asking - 1, !.failed = TRUE]
    <3>1. chat' = [chat EXCEPT !.asking = chat.asking - 1, !.answers = chat.answers, !.failed = TRUE]
      BY <2>1, ChatTyped DEF Chat
    <3>2. chat.asking - 1 \in Nat /\ chat.asking - 1 =< chat.asking /\ chat.answers =< chat.answers
      BY <2>1, ChatTyped
    <3> QED BY <3>1, <3>2, ChatTyped
  <2>2. CASE chat.answers > 0 /\ chat' = [chat EXCEPT !.answers = chat.answers - 1, !.failed = TRUE]
    <3>1. chat' = [chat EXCEPT !.asking = chat.asking, !.answers = chat.answers - 1, !.failed = TRUE]
      BY <2>2, ChatTyped DEF Chat
    <3>2. chat.answers - 1 \in Nat /\ chat.answers - 1 =< chat.answers /\ chat.asking =< chat.asking
      BY <2>2, ChatTyped
    <3> QED BY <3>1, <3>2, ChatTyped
  <2> QED BY <2>1, <2>2 DEF MarkFails
<1> DEFINE k == [chat EXCEPT !.asking = n, !.answers = o, !.failed = TRUE]
<1>2. /\ k \in Chat /\ k.page = chat.page /\ k.fetch = chat.fetch /\ k.answer = chat.answer
      /\ k.marked = chat.marked /\ k.asking = n /\ k.answers = o
  BY <1>1, ChatTyped DEF Chat
<1>3. chat' = k /\ UNCHANGED <<message, bell>>
  BY <1>1 DEF MarkFails
<1> HIDE DEF k
<1>4. Bounded(k)
  BY <1>1, <1>2, ChatTyped DEF Bounded
<1>5. /\ NotBefore(k.page, ServerPage)
      /\ k.fetch = "answered" => NotBefore(k.page, k.answer) /\ NotBefore(k.answer, ServerPage)
  BY <1>2, ChatTyped DEF PagesInOrder
<1> QED BY <1>2, <1>3, <1>4, <1>5, ChatMoves

LEMMA TalkStepFits == TalkInv /\ TalkStep => TalkInv'
<1> SUFFICES ASSUME TalkInv, TalkStep PROVE TalkInv'
  OBVIOUS
<1>1. ASSUME NEW m \in Messages,
             Send(m) \/ CheckBell(m) \/ WriteToReader(m) \/ NotifyFails(m)
      PROVE  TalkInv'
  <2>1. CASE Send(m)
    BY <2>1, ListenerFits DEF Send
  <2>2. CASE CheckBell(m)
    <3>1. CASE HasUnread
      <4>1. message' = [message EXCEPT ![m] = [message[m] EXCEPT !.pc = "over"]]
        BY <2>2, <3>1 DEF CheckBell
      <4> QED BY <2>2, <4>1, ListenerFits DEF CheckBell
    <3>2. CASE ~ HasUnread
      <4>1. message' = [message EXCEPT ![m] = [message[m] EXCEPT !.pc = "creating"]]
        BY <2>2, <3>2 DEF CheckBell
      <4> QED BY <2>2, <3>2, <4>1, ListenerFits DEF CheckBell
    <3> QED BY <3>1, <3>2
  <2>3. CASE WriteToReader(m)
    BY <2>3, ListenerFits DEF WriteToReader
  <2>4. CASE NotifyFails(m)
    BY <2>4, ListenerFits DEF NotifyFails
  <2> QED BY <1>1, <2>1, <2>2, <2>3, <2>4
<1> QED BY <1>1, CreateNoticeFits, ReadBellFits, OpenThreadFits, LeaveThreadFits, ShownOrHiddenFits,
           ServePageFits, ShowPageFits, PageFailsFits, MarkReadFits, MarkAnsweredFits, MarkFailsFits
        DEF TalkStep, ChatFetches, ChatMarks
-----------------------------------------------------------------------------
(***************************************************************************)
(* The public site.                                                        *)
(***************************************************************************)
StoryUpdate == [pc : {"story"}, item : Stories, data : StoryData, stale : BOOLEAN]
PostUpdate == [pc : {"post"}, item : Posts, data : PostData, stale : BOOLEAN]
PageState == [shown : BOOLEAN, fresh : BOOLEAN, next : {"none", "with", "without"}]

LEMMA SiteTyped ==
  SiteTypeOK <=>
    /\ story \in [Stories -> StoryRow] /\ post \in [Posts -> PostRow]
    /\ desk \in [Desks -> Updates] /\ page \in [Items -> PageState]
BY DEF SiteTypeOK, PageState

LEMMA UpdateTyped ==
  ASSUME NEW u \in Updates
  PROVE  /\ u.pc \in {"idle", "story", "post"}
         /\ u.pc = "idle" => u = IdleDesk
         /\ u.pc = "story" => u \in StoryUpdate
         /\ u.pc = "post" => u \in PostUpdate
BY DEF Updates, IdleDesk, StoryUpdate, PostUpdate

LEMMA IdleTyped == IdleDesk \in Updates /\ IdleDesk.pc = "idle"
BY DEF Updates, IdleDesk

LEMMA SiteInitFits == SiteInit => SiteInv
<1> SUFFICES ASSUME SiteInit PROVE SiteInv
  OBVIOUS
<1>1. story \in [Stories -> StoryRow] /\ post \in [Posts -> PostRow] /\ page \in [Items -> PageState]
  BY DEF SiteInit, StoryRow, PostRow, PageState, Absent, StoryStatus, PostStatus, Dates
<1>2. desk \in [Desks -> Updates] /\ UpdatesFit
  <2>1. desk = [d \in Desks |-> IdleDesk]
    BY DEF SiteInit
  <2> QED BY <2>1, IdleTyped DEF UpdatesFit
<1>3. OnlyOvertakenCallsMispublish
  BY DEF SiteInit, OnlyOvertakenCallsMispublish, Absent
<1> QED BY <1>1, <1>2, <1>3, SiteTyped DEF SiteInv

LEMMA OvertakenShape ==
  ASSUME NEW desks \in [Desks -> Updates], NEW i
  PROVE  /\ Overtaken(desks, i) \in [Desks -> Updates]
         /\ \A e \in Desks :
              LET u == Overtaken(desks, i)[e]
              IN  \/ u = desks[e] /\ (u.pc = "idle" \/ u.item # i)
                  \/ /\ u.pc = desks[e].pc /\ u.pc # "idle"
                     /\ u.item = desks[e].item /\ u.data = desks[e].data /\ u.stale = TRUE
<1>1. ASSUME NEW e \in Desks
      PROVE  LET u == Overtaken(desks, i)[e]
             IN  /\ u \in Updates
                 /\ \/ u = desks[e] /\ (u.pc = "idle" \/ u.item # i)
                    \/ /\ u.pc = desks[e].pc /\ u.pc # "idle"
                       /\ u.item = desks[e].item /\ u.data = desks[e].data /\ u.stale = TRUE
  <2> DEFINE v == desks[e]
             k == [v EXCEPT !.stale = TRUE]
  <2>1. CASE v.pc # "idle" /\ v.item = i
    <3>1. Overtaken(desks, i)[e] = k
      BY <2>1 DEF Overtaken
    <3>2. CASE v \in StoryUpdate
      <4>1. k \in StoryUpdate /\ k.pc = v.pc /\ k.item = v.item /\ k.data = v.data /\ k.stale = TRUE
        BY <3>2 DEF StoryUpdate
      <4> HIDE DEF k
      <4> QED BY <2>1, <3>1, <4>1 DEF Updates, StoryUpdate
    <3>3. CASE v \in PostUpdate
      <4>1. k \in PostUpdate /\ k.pc = v.pc /\ k.item = v.item /\ k.data = v.data /\ k.stale = TRUE
        BY <3>3 DEF PostUpdate
      <4> HIDE DEF k
      <4> QED BY <2>1, <3>1, <4>1 DEF Updates, PostUpdate
    <3> QED BY <2>1, <3>2, <3>3, UpdateTyped
  <2>2. CASE ~ (v.pc # "idle" /\ v.item = i)
    <3>1. Overtaken(desks, i)[e] = v
      BY <2>2 DEF Overtaken
    <3> QED BY <2>2, <3>1
  <2> QED BY <2>1, <2>2
<1>2. Overtaken(desks, i) = [e \in Desks |-> Overtaken(desks, i)[e]]
  BY DEF Overtaken
<1> QED BY <1>1, <1>2

LEMMA SiteInvParts ==
  SiteInv =>
    /\ story \in [Stories -> StoryRow] /\ post \in [Posts -> PostRow]
    /\ desk \in [Desks -> Updates] /\ page \in [Items -> PageState]
    /\ OnlyOvertakenCallsMispublish /\ UpdatesFit
BY SiteTyped DEF SiteInv

\* A testimonial is written; updates that have loaded it are overtaken.
LEMMA StoryWritten ==
  ASSUME SiteInv, NEW s \in Stories, NEW k \in StoryRow, story' = [story EXCEPT ![s] = k],
         UNCHANGED <<post, page>>, k.status # "none",
         k.status = "PUBLISHED" /\ ~ k.stale => k.consent /\ k.note /\ k.dated,
         NEW desks \in [Desks -> Updates], \A e \in Desks : desks[e] \in {desk[e], IdleDesk},
         \/ desk' = Overtaken(desks, s)
         \/ desk' = desks /\ (k.status \in Absent \/ story[s].status = "none")
  PROVE  SiteInv'
<1>1. /\ story \in [Stories -> StoryRow] /\ post \in [Posts -> PostRow]
      /\ desk \in [Desks -> Updates] /\ page \in [Items -> PageState]
      /\ OnlyOvertakenCallsMispublish /\ UpdatesFit
  BY SiteInvParts
<1>2. /\ story' \in [Stories -> StoryRow] /\ story'[s] = k
      /\ \A t \in Stories \ {s} : story'[t] = story[t]
  BY <1>1
<1>3. /\ desk' \in [Desks -> Updates]
      /\ \A e \in Desks :
           \/ desk'[e] = desks[e] /\ (desk' = desks \/ desk'[e].pc = "idle" \/ desk'[e].item # s)
           \/ /\ desk'[e].pc = desks[e].pc /\ desk'[e].pc # "idle"
              /\ desk'[e].item = desks[e].item /\ desk'[e].data = desks[e].data
              /\ desk'[e].stale = TRUE
  <2>1. CASE desk' = desks
    BY <2>1
  <2>2. CASE desk' = Overtaken(desks, s)
    <3>1. Overtaken(desks, s) \in [Desks -> Updates]
      BY OvertakenShape
    <3>2. ASSUME NEW e \in Desks
          PROVE  LET u == Overtaken(desks, s)[e]
                 IN  \/ u = desks[e] /\ (u.pc = "idle" \/ u.item # s)
                     \/ /\ u.pc = desks[e].pc /\ u.pc # "idle"
                        /\ u.item = desks[e].item /\ u.data = desks[e].data /\ u.stale = TRUE
      BY OvertakenShape
    <3> QED BY <2>2, <3>1, <3>2
  <2> QED BY <2>1, <2>2
<1>4. SiteTypeOK'
  BY <1>1, <1>2, <1>3 DEF SiteTypeOK, PageState
<1>5. OnlyOvertakenCallsMispublish'
  BY <1>1, <1>2 DEF OnlyOvertakenCallsMispublish
<1>6. ASSUME NEW e \in Desks
      PROVE  /\ desk'[e].pc = "story" => FitsStory(desk'[e], story'[desk'[e].item])
             /\ desk'[e].pc = "post" => FitsPost(desk'[e], post[desk'[e].item])
  <2> DEFINE u == desk'[e]
  <2>1. \/ u.pc = "idle"
        \/ u = desk[e]
        \/ u.pc = desk[e].pc /\ u.item = desk[e].item /\ u.data = desk[e].data /\ u.stale = TRUE
    BY <1>3, IdleTyped
  <2>2. CASE u.pc = "story"
    <3>1. FitsStory(desk[e], story[desk[e].item]) /\ u.item = desk[e].item /\ u.item \in Stories
      BY <1>1, <1>3, <2>1, <2>2, UpdateTyped DEF UpdatesFit, StoryUpdate
    <3>2. CASE u.item = s
      <4>1. u.stale = TRUE \/ k.status \in Absent
        <5>1. story[s].status # "none"
          BY <3>1, <3>2 DEF FitsStory
        <5>2. CASE desk' = desks /\ (k.status \in Absent \/ story[s].status = "none")
          BY <5>1, <5>2
        <5>3. CASE desk' = Overtaken(desks, s)
          <6>1. LET v == Overtaken(desks, s)[e]
                IN  \/ v = desks[e] /\ (v.pc = "idle" \/ v.item # s)
                    \/ v.stale = TRUE
            BY OvertakenShape
          <6> QED BY <2>2, <3>2, <5>3, <6>1
        <5> QED BY <5>2, <5>3
      <4>2. story'[u.item] = k
        BY <1>2, <3>2
      <4> HIDE DEF u
      <4> QED BY <2>2, <4>1, <4>2 DEF FitsStory, u
    <3>3. CASE u.item # s
      <4>1. story'[u.item] = story[desk[e].item]
        BY <1>2, <3>1, <3>3
      <4> QED BY <2>1, <2>2, <3>1, <4>1 DEF FitsStory
    <3> QED BY <3>2, <3>3
  <2>3. CASE u.pc = "post"
    <3>1. FitsPost(desk[e], post[desk[e].item])
      BY <1>1, <2>1, <2>3 DEF UpdatesFit
    <3> QED BY <2>1, <2>3, <3>1 DEF FitsPost
  <2> QED BY <2>1, <2>2, <2>3
<1>7. UpdatesFit'
  BY <1>6 DEF UpdatesFit, FitsStory, FitsPost, Given
<1> QED BY <1>4, <1>5, <1>7 DEF SiteInv

LEMMA StoryActionsFit ==
  ASSUME SiteInv, NEW s \in Stories,
         \/ \E consent, note \in BOOLEAN : AddStory(s, consent, note)
         \/ RevokeConsent(s) \/ RemoveStory(s)
  PROVE  SiteInv'
<1>1. desk \in [Desks -> Updates]
  BY SiteInvParts
<1>2. ASSUME NEW consent \in BOOLEAN, NEW note \in BOOLEAN, AddStory(s, consent, note)
      PROVE  SiteInv'
  <2> DEFINE k == [status |-> "PENDING", consent |-> consent, note |-> note,
                   dated |-> FALSE, stale |-> FALSE]
  <2>1. k \in StoryRow /\ k.status = "PENDING"
    BY DEF StoryRow, StoryStatus
  <2>2. story' = [story EXCEPT ![s] = k] /\ story[s].status = "none" /\ UNCHANGED <<post, desk, page>>
    BY <1>2 DEF AddStory
  <2> HIDE DEF k
  <2> QED BY <1>1, <2>1, <2>2, StoryWritten
<1>3. CASE RevokeConsent(s)
  <2> DEFINE k == [status |-> "PENDING", consent |-> FALSE, note |-> TRUE,
                   dated |-> FALSE, stale |-> FALSE]
  <2>1. k \in StoryRow /\ k.status = "PENDING"
    BY DEF StoryRow, StoryStatus
  <2>2. story' = [story EXCEPT ![s] = k] /\ desk' = Overtaken(desk, s) /\ UNCHANGED <<post, page>>
    BY <1>3 DEF RevokeConsent
  <2> HIDE DEF k
  <2> QED BY <1>1, <2>1, <2>2, StoryWritten
<1>4. CASE RemoveStory(s)
  <2> DEFINE k == [status |-> "removed", consent |-> FALSE, note |-> FALSE,
                   dated |-> FALSE, stale |-> FALSE]
  <2>1. k \in StoryRow /\ k.status = "removed" /\ k.status \in Absent
    BY DEF StoryRow, Absent
  <2>2. story' = [story EXCEPT ![s] = k] /\ UNCHANGED <<post, desk, page>>
    BY <1>4 DEF RemoveStory
  <2> HIDE DEF k
  <2> QED BY <1>1, <2>1, <2>2, StoryWritten
<1> QED BY <1>2, <1>3, <1>4

\* Updates end, or one is begun that fits; the rows are as they were.
LEMMA DesksMove ==
  ASSUME SiteInv, desk' \in [Desks -> Updates],
         UNCHANGED <<story, post, page>>,
         \A e \in Desks :
           \/ desk'[e] \in {desk[e], IdleDesk}
           \/ desk'[e] \in StoryUpdate /\ FitsStory(desk'[e], story[desk'[e].item])
           \/ desk'[e] \in PostUpdate /\ FitsPost(desk'[e], post[desk'[e].item])
  PROVE  SiteInv'
<1>1. SiteTypeOK' /\ OnlyOvertakenCallsMispublish'
  BY SiteInvParts DEF SiteTypeOK, PageState, OnlyOvertakenCallsMispublish
<1>2. ASSUME NEW e \in Desks
      PROVE  /\ desk'[e].pc = "story" => FitsStory(desk'[e], story[desk'[e].item])
             /\ desk'[e].pc = "post" => FitsPost(desk'[e], post[desk'[e].item])
  BY SiteInvParts, IdleTyped DEF UpdatesFit, StoryUpdate, PostUpdate
<1>3. UpdatesFit'
  BY <1>2 DEF UpdatesFit, FitsStory, FitsPost, Given
<1> QED BY <1>1, <1>3 DEF SiteInv

LEMMA EditStoryFits ==
  ASSUME SiteInv, NEW d \in Desks, NEW s \in Stories, NEW input \in StoryInput, EditStory(d, s, input)
  PROVE  SiteInv'
<1> DEFINE now == story[s]
           publishing == Given(input.status, now.status) = "PUBLISHED"
           was == now.status = "PUBLISHED"
           dated == IF publishing # was THEN publishing ELSE Keep
           data == [status |-> input.status, consent |-> input.consent, note |-> input.note,
                    dated |-> dated]
           u == [pc |-> "story", item |-> s, data |-> data, stale |-> FALSE]
<1>1. desk \in [Desks -> Updates] /\ now \in StoryRow
  BY SiteInvParts
<1>2. /\ now.status \notin Absent /\ MayPublish(now, input)
      /\ desk' = [desk EXCEPT ![d] = u] /\ UNCHANGED <<story, post, page>>
  BY DEF EditStory, StoryChanges
<1>3. dated \in {TRUE, FALSE, Keep}
  OBVIOUS
<1>4. publishing => (was \/ dated = TRUE) /\ dated # FALSE
  BY SiteAssumption
<1>5. publishing => Given(input.consent, now.consent) /\ Given(input.note, now.note)
  BY <1>2 DEF MayPublish
<1> HIDE DEF dated
<1>6. data \in StoryData
  BY <1>3 DEF StoryInput, StoryData
<1>7. u \in StoryUpdate /\ u.pc = "story" /\ u.item = s /\ u.data = data
  BY <1>6 DEF StoryUpdate
<1>8. FitsStory(u, now)
  <2>1. now.status # "none"
    BY <1>2 DEF Absent
  <2> QED BY <1>4, <1>5, <1>7, <2>1 DEF FitsStory
<1> HIDE DEF u, data
<1>9. u \in Updates
  BY <1>7 DEF Updates, StoryUpdate
<1>10. /\ desk' \in [Desks -> Updates] /\ desk'[d] = u
       /\ \A e \in Desks \ {d} : desk'[e] = desk[e]
  BY <1>1, <1>2, <1>9
<1> QED BY <1>2, <1>7, <1>8, <1>10, DesksMove

LEMMA WriteStoryFits ==
  ASSUME SiteInv, NEW d \in Desks, WriteStory(d)
  PROVE  SiteInv'
<1> DEFINE s == desk[d].item
           data == desk[d].data
           now == story[s]
<1>1. /\ desk \in [Desks -> Updates] /\ story \in [Stories -> StoryRow]
      /\ OnlyOvertakenCallsMispublish /\ UpdatesFit
  BY SiteInvParts
<1>2. desk[d].pc = "story"
  BY DEF WriteStory
<1>3. /\ desk[d] \in StoryUpdate /\ s \in Stories /\ data \in StoryData /\ desk[d].stale \in BOOLEAN
      /\ now \in StoryRow
  BY <1>1, <1>2, UpdateTyped DEF StoryUpdate
<1>4. FitsStory(desk[d], now)
  BY <1>1, <1>2 DEF UpdatesFit
<1>5. /\ Over(d) \in [Desks -> Updates] /\ Over(d)[d] = IdleDesk
      /\ \A e \in Desks \ {d} : Over(d)[e] = desk[e]
  BY <1>1, IdleTyped DEF Over
<1>6. CASE now.status \in Absent
  <2>1. story' = story /\ desk' = Over(d) /\ UNCHANGED <<post, page>>
    BY <1>6 DEF WriteStory
  <2> QED BY <1>5, <2>1, DesksMove
<1>7. CASE now.status \notin Absent
  <2> DEFINE status == Given(data.status, now.status)
             consent == Given(data.consent, now.consent)
             note == Given(data.note, now.note)
             dated == Given(data.dated, now.dated)
             stale == now.stale \/ desk[d].stale
             k == [status |-> status, consent |-> consent, note |-> note, dated |-> dated, stale |-> stale]
  <2>1. story' = [story EXCEPT ![s] = k] /\ desk' = Overtaken(Over(d), s) /\ UNCHANGED <<post, page>>
    BY <1>7 DEF WriteStory
  <2>2. status \in StoryStatus
    BY <1>3, <1>7 DEF Given, StoryData, StoryRow
  <2>3. consent \in BOOLEAN /\ note \in BOOLEAN /\ dated \in BOOLEAN
    BY <1>3 DEF Given, StoryData, StoryRow
  <2>4. stale \in BOOLEAN
    BY <1>3 DEF StoryRow
  <2>5. ~ stale => ~ now.stale /\ ~ desk[d].stale
    OBVIOUS
  <2>6. ASSUME status = "PUBLISHED", ~ stale PROVE consent /\ note /\ dated
    <3>1. /\ Given(data.consent, now.consent) /\ Given(data.note, now.note)
          /\ now.status = "PUBLISHED" \/ data.dated = TRUE
          /\ data.dated # FALSE
      BY <1>4, <1>7, <2>5, <2>6 DEF FitsStory
    <3>2. CASE data.dated = TRUE
      <4>1. dated
        BY <3>2, SiteAssumption DEF Given
      <4> QED BY <3>1, <4>1
    <3>3. CASE now.status = "PUBLISHED" /\ data.dated # TRUE
      <4>1. now.dated
        BY <1>1, <1>3, <2>5, <2>6, <3>3 DEF OnlyOvertakenCallsMispublish
      <4>2. data.dated = Keep
        BY <1>3, <3>1, <3>3 DEF StoryData
      <4> QED BY <3>1, <4>1, <4>2 DEF Given
    <3> QED BY <3>1, <3>2, <3>3
  <2> HIDE DEF status, consent, note, dated, stale
  <2>7. k \in StoryRow
    BY <2>2, <2>3, <2>4 DEF StoryRow
  <2>8. /\ k.status = status /\ k.consent = consent /\ k.note = note
        /\ k.dated = dated /\ k.stale = stale /\ k.status # "none"
    BY <2>2 DEF StoryStatus
  <2> HIDE DEF k
  <2>9. k.status = "PUBLISHED" /\ ~ k.stale => k.consent /\ k.note /\ k.dated
    BY <2>6, <2>8
  <2>10. \A e \in Desks : Over(d)[e] \in {desk[e], IdleDesk}
    BY <1>5
  <2> HIDE DEF s
  <2> QED BY <1>3, <1>5, <2>1, <2>7, <2>8, <2>9, <2>10, StoryWritten
<1> QED BY <1>6, <1>7

\* A post is written; updates that have loaded it are overtaken.
LEMMA PostWritten ==
  ASSUME SiteInv, NEW s \in Posts, NEW k \in PostRow, post' = [post EXCEPT ![s] = k],
         UNCHANGED <<story, page>>, k.status # "none",
         k.status \notin Absent /\ ~ k.stale =>
           k.status = k.asked /\ (k.status = "PUBLISHED" => k.date # "none"),
         NEW desks \in [Desks -> Updates], \A e \in Desks : desks[e] \in {desk[e], IdleDesk},
         \/ desk' = Overtaken(desks, s)
         \/ desk' = desks /\ (k.status \in Absent \/ post[s].status = "none")
  PROVE  SiteInv'
<1>1. /\ story \in [Stories -> StoryRow] /\ post \in [Posts -> PostRow]
      /\ desk \in [Desks -> Updates] /\ page \in [Items -> PageState]
      /\ OnlyOvertakenCallsMispublish /\ UpdatesFit
  BY SiteInvParts
<1>2. /\ post' \in [Posts -> PostRow] /\ post'[s] = k
      /\ \A t \in Posts \ {s} : post'[t] = post[t]
  BY <1>1
<1>3. /\ desk' \in [Desks -> Updates]
      /\ \A e \in Desks :
           \/ desk'[e] = desks[e] /\ (desk' = desks \/ desk'[e].pc = "idle" \/ desk'[e].item # s)
           \/ /\ desk'[e].pc = desks[e].pc /\ desk'[e].pc # "idle"
              /\ desk'[e].item = desks[e].item /\ desk'[e].data = desks[e].data
              /\ desk'[e].stale = TRUE
  <2>1. CASE desk' = desks
    BY <2>1
  <2>2. CASE desk' = Overtaken(desks, s)
    <3>1. Overtaken(desks, s) \in [Desks -> Updates]
      BY OvertakenShape
    <3>2. ASSUME NEW e \in Desks
          PROVE  LET u == Overtaken(desks, s)[e]
                 IN  \/ u = desks[e] /\ (u.pc = "idle" \/ u.item # s)
                     \/ /\ u.pc = desks[e].pc /\ u.pc # "idle"
                        /\ u.item = desks[e].item /\ u.data = desks[e].data /\ u.stale = TRUE
      BY OvertakenShape
    <3> QED BY <2>2, <3>1, <3>2
  <2> QED BY <2>1, <2>2
<1>4. SiteTypeOK'
  BY <1>1, <1>2, <1>3 DEF SiteTypeOK, PageState
<1>5. OnlyOvertakenCallsMispublish'
  BY <1>1, <1>2 DEF OnlyOvertakenCallsMispublish
<1>6. ASSUME NEW e \in Desks
      PROVE  /\ desk'[e].pc = "story" => FitsStory(desk'[e], story[desk'[e].item])
             /\ desk'[e].pc = "post" => FitsPost(desk'[e], post'[desk'[e].item])
  <2> DEFINE u == desk'[e]
  <2>1. \/ u.pc = "idle"
        \/ u = desk[e]
        \/ u.pc = desk[e].pc /\ u.item = desk[e].item /\ u.data = desk[e].data /\ u.stale = TRUE
    BY <1>3, IdleTyped
  <2>2. CASE u.pc = "story"
    <3>1. FitsStory(desk[e], story[desk[e].item])
      BY <1>1, <2>1, <2>2 DEF UpdatesFit
    <3> QED BY <2>1, <2>2, <3>1 DEF FitsStory
  <2>3. CASE u.pc = "post"
    <3>1. FitsPost(desk[e], post[desk[e].item]) /\ u.item = desk[e].item /\ u.item \in Posts
      BY <1>1, <1>3, <2>1, <2>3, UpdateTyped DEF UpdatesFit, PostUpdate
    <3>2. CASE u.item = s
      <4>1. u.stale = TRUE \/ k.status \in Absent
        <5>1. post[s].status # "none"
          BY <3>1, <3>2 DEF FitsPost
        <5>2. CASE desk' = desks /\ (k.status \in Absent \/ post[s].status = "none")
          BY <5>1, <5>2
        <5>3. CASE desk' = Overtaken(desks, s)
          <6>1. LET v == Overtaken(desks, s)[e]
                IN  \/ v = desks[e] /\ (v.pc = "idle" \/ v.item # s)
                    \/ v.stale = TRUE
            BY OvertakenShape
          <6> QED BY <2>3, <3>2, <5>3, <6>1
        <5> QED BY <5>2, <5>3
      <4>2. post'[u.item] = k
        BY <1>2, <3>2
      <4>3. u.data = desk[e].data
        BY <2>1, <2>3
      <4> HIDE DEF u
      <4> QED BY <2>3, <3>1, <4>1, <4>2, <4>3 DEF FitsPost, u
    <3>3. CASE u.item # s
      <4>1. post'[u.item] = post[desk[e].item]
        BY <1>2, <3>1, <3>3
      <4> QED BY <2>1, <2>3, <3>1, <4>1 DEF FitsPost
    <3> QED BY <3>2, <3>3
  <2> QED BY <2>1, <2>2, <2>3
<1>7. UpdatesFit'
  BY <1>6 DEF UpdatesFit, FitsStory, FitsPost, Given
<1> QED BY <1>4, <1>5, <1>7 DEF SiteInv


LEMMA DatesTyped ==
  /\ \A status \in PostStatus, date \in Dates :
       /\ PublishedAt(status, date) \in Dates
       /\ status = "PUBLISHED" => PublishedAt(status, date) # "none"
  /\ \A date \in Dates : Came(date) \in Dates /\ (Came(date) = "none" <=> date = "none")
BY DEF PublishedAt, Came, Dates

LEMMA PostActionsFit ==
  ASSUME SiteInv, NEW p \in Posts,
         \/ \E status \in PostStatus, date \in Dates : AddPost(p, status, date)
         \/ RemovePost(p)
  PROVE  SiteInv'
<1>1. desk \in [Desks -> Updates]
  BY SiteInvParts
<1>2. ASSUME NEW status \in PostStatus, NEW date \in Dates, AddPost(p, status, date)
      PROVE  SiteInv'
  <2> DEFINE at == PublishedAt(status, date)
             k == [status |-> status, date |-> at, asked |-> status, stale |-> FALSE]
  <2>1. at \in Dates /\ (status = "PUBLISHED" => at # "none")
    BY DatesTyped
  <2>2. post' = [post EXCEPT ![p] = k] /\ post[p].status = "none" /\ UNCHANGED <<story, desk, page>>
    BY <1>2 DEF AddPost
  <2> HIDE DEF at
  <2>3. /\ k \in PostRow /\ k.status = status /\ k.asked = status /\ k.date = at
        /\ status # "none"
    BY <2>1 DEF PostRow, PostStatus
  <2> HIDE DEF k
  <2> QED BY <1>1, <2>1, <2>2, <2>3, PostWritten
<1>3. CASE RemovePost(p)
  <2> DEFINE k == [status |-> "removed", date |-> "none", asked |-> "DRAFT", stale |-> FALSE]
  <2>1. k \in PostRow /\ k.status = "removed" /\ k.status \in Absent
    BY DEF PostRow, Absent, PostStatus, Dates
  <2>2. post' = [post EXCEPT ![p] = k] /\ UNCHANGED <<story, desk, page>>
    BY <1>3 DEF RemovePost
  <2> HIDE DEF k
  <2> QED BY <1>1, <2>1, <2>2, PostWritten
<1> QED BY <1>2, <1>3

LEMMA EditPostFits ==
  ASSUME SiteInv, NEW d \in Desks, NEW p \in Posts, NEW input \in PostInput, EditPost(d, p, input)
  PROVE  SiteInv'
<1> DEFINE now == post[p]
           status == Given(input.status, now.status)
           date == Given(input.date, now.date)
           at == PublishedAt(status, date)
           named == input.status # Keep
           data == [status |-> status, date |-> at, named |-> named]
           u == [pc |-> "post", item |-> p, data |-> data, stale |-> FALSE]
<1>1. desk \in [Desks -> Updates] /\ now \in PostRow
  BY SiteInvParts
<1>2. /\ now.status \notin Absent
      /\ desk' = [desk EXCEPT ![d] = u] /\ UNCHANGED <<story, post, page>>
  BY DEF EditPost, PostChanges
<1>3. status \in PostStatus /\ date \in Dates /\ (~ named => status = now.status)
  BY <1>1, <1>2 DEF Given, PostInput, PostRow, Dates
<1>4. named \in BOOLEAN
  OBVIOUS
<1> HIDE DEF status, date, named
<1>5. at \in Dates /\ (status = "PUBLISHED" => at # "none")
  BY <1>3, DatesTyped
<1> HIDE DEF at
<1>6. data \in PostData /\ data.status = status /\ data.date = at /\ data.named = named
  BY <1>3, <1>4, <1>5 DEF PostData
<1> HIDE DEF data
<1>7. u \in PostUpdate /\ u.pc = "post" /\ u.item = p /\ u.data = data
  BY <1>6 DEF PostUpdate
<1> HIDE DEF u
<1>8. FitsPost(u, now)
  <2>1. now.status # "none"
    BY <1>2 DEF Absent
  <2> QED BY <1>3, <1>5, <1>6, <1>7, <2>1 DEF FitsPost
<1>9. u \in Updates
  BY <1>7 DEF Updates, PostUpdate
<1>10. /\ desk' \in [Desks -> Updates] /\ desk'[d] = u
       /\ \A e \in Desks \ {d} : desk'[e] = desk[e]
  BY <1>1, <1>2, <1>9
<1> QED BY <1>2, <1>7, <1>8, <1>10, DesksMove

LEMMA WritePostFits ==
  ASSUME SiteInv, NEW d \in Desks, WritePost(d)
  PROVE  SiteInv'
<1> DEFINE p == desk[d].item
           data == desk[d].data
           now == post[p]
<1>1. /\ desk \in [Desks -> Updates] /\ post \in [Posts -> PostRow]
      /\ OnlyOvertakenCallsMispublish /\ UpdatesFit
  BY SiteInvParts
<1>2. desk[d].pc = "post"
  BY DEF WritePost
<1>3. /\ desk[d] \in PostUpdate /\ p \in Posts /\ data \in PostData /\ desk[d].stale \in BOOLEAN
      /\ now \in PostRow
  BY <1>1, <1>2, UpdateTyped DEF PostUpdate
<1>4. FitsPost(desk[d], now)
  BY <1>1, <1>2 DEF UpdatesFit
<1>5. /\ Over(d) \in [Desks -> Updates] /\ Over(d)[d] = IdleDesk
      /\ \A e \in Desks \ {d} : Over(d)[e] = desk[e]
  BY <1>1, IdleTyped DEF Over
<1>6. CASE now.status \in Absent
  <2>1. post' = post /\ desk' = Over(d) /\ UNCHANGED <<story, page>>
    BY <1>6 DEF WritePost
  <2> QED BY <1>5, <2>1, DesksMove
<1>7. CASE now.status \notin Absent
  <2> DEFINE asked == IF data.named THEN data.status ELSE now.asked
             stale == desk[d].stale \/ (now.stale /\ ~ data.named)
             k == [status |-> data.status, date |-> data.date, asked |-> asked, stale |-> stale]
  <2>1. post' = [post EXCEPT ![p] = k] /\ desk' = Overtaken(Over(d), p) /\ UNCHANGED <<story, page>>
    BY <1>7 DEF WritePost
  <2>2. asked \in PostStatus /\ stale \in BOOLEAN
    BY <1>3 DEF PostData, PostRow
  <2>3. ASSUME ~ stale PROVE data.status = asked
    <3>1. CASE data.named
      BY <3>1
    <3>2. CASE ~ data.named
      <4>1. ~ desk[d].stale /\ ~ now.stale
        BY <2>3, <3>2
      <4>2. data.status = now.status
        BY <1>4, <1>7, <3>2, <4>1 DEF FitsPost
      <4>3. now.status = now.asked
        BY <1>1, <1>3, <1>7, <4>1 DEF OnlyOvertakenCallsMispublish
      <4> QED BY <3>2, <4>2, <4>3
    <3> QED BY <3>1, <3>2
  <2> HIDE DEF asked, stale
  <2>4. /\ k \in PostRow /\ k.status = data.status /\ k.date = data.date
        /\ k.asked = asked /\ k.stale = stale /\ k.status # "none"
    BY <1>3, <2>2 DEF PostRow, PostData, PostStatus
  <2> HIDE DEF k
  <2>5. k.status \notin Absent /\ ~ k.stale =>
          k.status = k.asked /\ (k.status = "PUBLISHED" => k.date # "none")
    BY <1>4, <2>3, <2>4 DEF FitsPost
  <2>6. \A e \in Desks : Over(d)[e] \in {desk[e], IdleDesk}
    BY <1>5
  <2> HIDE DEF p
  <2> QED BY <1>3, <1>5, <2>1, <2>4, <2>5, <2>6, PostWritten
<1> QED BY <1>6, <1>7

LEMMA DayComesFits == SiteInv /\ DayComes => SiteInv'
<1> SUFFICES ASSUME SiteInv, DayComes PROVE SiteInv'
  OBVIOUS
<1>1. /\ story \in [Stories -> StoryRow] /\ post \in [Posts -> PostRow]
      /\ desk \in [Desks -> Updates] /\ page \in [Items -> PageState]
      /\ OnlyOvertakenCallsMispublish /\ UpdatesFit /\ UNCHANGED <<story, page>>
  BY SiteInvParts DEF DayComes
<1>2. ASSUME NEW p \in Posts
      PROVE  /\ post'[p] \in PostRow /\ post'[p].status = post[p].status
             /\ post'[p].asked = post[p].asked /\ post'[p].stale = post[p].stale
             /\ post'[p].date = "none" <=> post[p].date = "none"
  <2> DEFINE date == Came(post[p].date)
             k == [post[p] EXCEPT !.date = date]
  <2>1. date \in Dates /\ (date = "none" <=> post[p].date = "none")
    BY <1>1, DatesTyped DEF PostRow
  <2>2. post'[p] = k
    BY DEF DayComes
  <2> HIDE DEF date
  <2>3. /\ k \in PostRow /\ k.status = post[p].status /\ k.asked = post[p].asked
        /\ k.stale = post[p].stale /\ k.date = date
    BY <1>1, <2>1 DEF PostRow
  <2> HIDE DEF k
  <2> QED BY <2>1, <2>2, <2>3
<1>3. post' \in [Posts -> PostRow]
  BY <1>2 DEF DayComes
<1>4. ASSUME NEW d \in Desks
      PROVE  /\ desk'[d] \in Updates
             /\ desk'[d].pc = "story" => FitsStory(desk'[d], story'[desk'[d].item])
             /\ desk'[d].pc = "post" => FitsPost(desk'[d], post'[desk'[d].item])
  <2>1. CASE desk[d].pc # "post"
    <3>1. desk'[d] = desk[d]
      BY <2>1 DEF DayComes
    <3>2. desk[d].pc = "story" => FitsStory(desk[d], story[desk[d].item])
      BY <1>1 DEF UpdatesFit
    <3> QED BY <1>1, <2>1, <3>1, <3>2
  <2>2. CASE desk[d].pc = "post"
    <3> DEFINE u == desk[d]
               date == Came(u.data.date)
               data == [u.data EXCEPT !.date = date]
               k == [u EXCEPT !.data = data]
    <3>1. u \in PostUpdate /\ u.data \in PostData /\ u.item \in Posts /\ FitsPost(u, post[u.item])
      BY <1>1, <2>2, UpdateTyped DEF PostUpdate, UpdatesFit
    <3>2. date \in Dates /\ (date = "none" <=> u.data.date = "none")
      BY <3>1, DatesTyped DEF PostData
    <3>3. desk'[d] = k
      BY <2>2 DEF DayComes
    <3> HIDE DEF date
    <3>4. /\ data \in PostData /\ data.status = u.data.status /\ data.named = u.data.named
          /\ data.date = date
      BY <3>1, <3>2 DEF PostData
    <3> HIDE DEF data
    <3>5. k \in PostUpdate /\ k.pc = "post" /\ k.item = u.item /\ k.data = data /\ k.stale = u.stale
      BY <3>1, <3>4 DEF PostUpdate
    <3> HIDE DEF k
    <3>6. FitsPost(k, post'[k.item])
      BY <1>2, <3>1, <3>2, <3>4, <3>5 DEF FitsPost
    <3> QED BY <3>3, <3>5, <3>6 DEF Updates, PostUpdate
  <2> QED BY <2>1, <2>2
<1>5. desk' \in [Desks -> Updates]
  BY <1>4 DEF DayComes
<1>6. SiteTypeOK'
  BY <1>1, <1>3, <1>5 DEF SiteTypeOK, PageState
<1>7. OnlyOvertakenCallsMispublish'
  BY <1>1, <1>2 DEF OnlyOvertakenCallsMispublish
<1>8. UpdatesFit'
  BY <1>4 DEF UpdatesFit, FitsStory, FitsPost, Given
<1> QED BY <1>6, <1>7, <1>8 DEF SiteInv

\* Visitors come, and pages are made.
LEMMA PagesFit ==
  ASSUME SiteInv, NEW i \in Items, Outdated(i) \/ Visit(i) \/ MakePage(i)
  PROVE  SiteInv'
<1>1. page[i] \in PageState /\ page \in [Items -> PageState]
  BY SiteInvParts
<1>2. PICK k \in PageState : page' = [page EXCEPT ![i] = k]
  <2>1. CASE Outdated(i)
    <3>1. [page[i] EXCEPT !.fresh = FALSE] \in PageState
      BY <1>1 DEF PageState
    <3> QED BY <2>1, <3>1 DEF Outdated
  <2>2. CASE Visit(i)
    <3>1. PICK next \in {"with", "without"} : page' = [page EXCEPT ![i] = [page[i] EXCEPT !.next = next]]
      BY <2>2 DEF Visit
    <3>2. [page[i] EXCEPT !.next = next] \in PageState
      BY <1>1 DEF PageState
    <3> QED BY <3>1, <3>2
  <2>3. CASE MakePage(i)
    <3> DEFINE shown == page[i].next = "with"
    <3>1. shown \in BOOLEAN
      OBVIOUS
    <3> HIDE DEF shown
    <3>2. [shown |-> shown, fresh |-> TRUE, next |-> "none"] \in PageState
      BY <3>1 DEF PageState
    <3> USE DEF shown
    <3> QED BY <2>3, <3>2 DEF MakePage
  <2> QED BY <2>1, <2>2, <2>3
<1>3. page' \in [Items -> PageState] /\ UNCHANGED <<story, post, desk>>
  BY <1>1, <1>2 DEF Outdated, Visit, MakePage
<1>4. SiteTypeOK'
  BY <1>3, SiteInvParts DEF SiteTypeOK, PageState
<1>5. OnlyOvertakenCallsMispublish'
  BY <1>3, SiteInvParts DEF OnlyOvertakenCallsMispublish
<1>6. UpdatesFit'
  BY <1>3, SiteInvParts DEF UpdatesFit, FitsStory, FitsPost, Given
<1> QED BY <1>4, <1>5, <1>6 DEF SiteInv

LEMMA SiteStays == SiteInv /\ UNCHANGED siteVars => SiteInv'
<1> SUFFICES ASSUME SiteInv, UNCHANGED siteVars PROVE SiteInv'
  OBVIOUS
<1>1. SiteTypeOK' /\ OnlyOvertakenCallsMispublish'
  BY DEF siteVars, SiteInv, SiteTypeOK, OnlyOvertakenCallsMispublish
<1>2. UpdatesFit'
  BY DEF siteVars, SiteInv, UpdatesFit, FitsStory, FitsPost, Given
<1> QED BY <1>1, <1>2 DEF SiteInv

LEMMA SiteCrash ==
  ASSUME SiteInv, desk' = DeskAfterCrash, UNCHANGED <<story, post, page>>
  PROVE  SiteInv'
<1>1. desk' \in [Desks -> Updates] /\ \A e \in Desks : desk'[e] = IdleDesk
  BY IdleTyped DEF DeskAfterCrash
<1> QED BY <1>1, DesksMove

LEMMA SiteStepFits == SiteInv /\ SiteStep => SiteInv'
BY StoryActionsFit, PostActionsFit, EditStoryFits, WriteStoryFits, EditPostFits, WritePostFits,
   DayComesFits, PagesFit DEF SiteStep
-----------------------------------------------------------------------------
(***************************************************************************)
(* Who writes letters writes each of them once: a run, a call or a         *)
(* listener that has ended never comes back.                               *)
(***************************************************************************)
RunsOnlyEnd == \A r \in Runs : run[r].pc \in {"over", "dead"} => run'[r].pc \in {"over", "dead"}
LinksOnlyEnd == \A c \in LinkCallers : linkCall[c].pc = "over" => linkCall'[c].pc = "over"
TalkOnlyEnds == \A m \in Messages : message[m].pc = "over" => message'[m].pc = "over"

\* The letters of L are written, and their writers are done.
LEMMA LettersWritten ==
  ASSUME MailInv, UnwrittenYet, NEW L, RunsOnlyEnd, LinksOnlyEnd, TalkOnlyEnds,
         mail' = Queued(L) \/ (L = {} /\ mail' = mail),
         \A l \in L \cap Letters : mail[l].pc = "unwritten",
         \A r \in Runs, x \in TaskRows \cup InvoiceRows :
           <<r, StaffOf[x]>> \in L => run'[r].pc \in {"over", "dead"},
         \A c \in IssueCalls : <<c, "link">> \in L => linkCall'[c].pc = "over",
         \A c \in UseCalls : <<c, "changed">> \in L => linkCall'[c].pc = "over",
         \A m \in Messages : <<m, "new">> \in L => message'[m].pc = "over"
  PROVE  MailInv' /\ UnwrittenYet'
<1>1. MailInv'
  BY QueuedFits, MailStays
<1>2. \A l \in Letters \ L : mail'[l] = mail[l]
  BY DEF Queued
<1>3. UnwrittenYet'
  <2>1. /\ \A r \in Runs, x \in TaskRows \cup InvoiceRows : <<r, StaffOf[x]>> \in Letters
        /\ \A c \in IssueCalls : <<c, "link">> \in Letters
        /\ \A c \in UseCalls : <<c, "changed">> \in Letters
        /\ \A m \in Messages : <<m, "new">> \in Letters
    BY RemindersAssumption, LinksAssumption, ConversationsAssumption
  <2>2. ASSUME NEW r \in Runs, NEW x \in TaskRows \cup InvoiceRows, run'[r].pc \notin {"over", "dead"}
        PROVE  mail'[<<r, StaffOf[x]>>].pc = "unwritten"
    BY <1>2, <2>1, <2>2 DEF UnwrittenYet, RunsOnlyEnd
  <2>3. ASSUME NEW c \in IssueCalls, linkCall'[c].pc # "over"
        PROVE  mail'[<<c, "link">>].pc = "unwritten"
    BY <1>2, <2>1, <2>3, LinkCallersApart DEF UnwrittenYet, LinksOnlyEnd
  <2>4. ASSUME NEW c \in UseCalls, linkCall'[c].pc # "over"
        PROVE  mail'[<<c, "changed">>].pc = "unwritten"
    BY <1>2, <2>1, <2>4, LinkCallersApart DEF UnwrittenYet, LinksOnlyEnd
  <2>5. ASSUME NEW m \in Messages, message'[m].pc # "over"
        PROVE  mail'[<<m, "new">>].pc = "unwritten"
    BY <1>2, <2>1, <2>5 DEF UnwrittenYet, TalkOnlyEnds
  <2> QED BY <2>2, <2>3, <2>4, <2>5 DEF UnwrittenYet
<1> QED BY <1>1, <1>3

\* Nothing is written.
LEMMA NoLetters ==
  ASSUME MailInv, UnwrittenYet, RunsOnlyEnd, LinksOnlyEnd, TalkOnlyEnds, UNCHANGED mail
  PROVE  MailInv' /\ UnwrittenYet'
<1> DEFINE L == {}
<1>1. L = {} /\ \A l : l \notin L
  OBVIOUS
<1> HIDE DEF L
<1> QED BY <1>1, LettersWritten

LEMMA RunsEnd == ReminderTypeOK /\ ReminderStep => RunsOnlyEnd
<1> SUFFICES ASSUME ReminderTypeOK, ReminderStep PROVE RunsOnlyEnd
  OBVIOUS
<1>1. run \in [Runs -> RunState]
  BY DEF ReminderTypeOK
<1>2. ASSUME NEW r \in Runs,
             StartRun(r) \/ Find(r) \/ Claim(r) \/ Collect(r) \/ Tell(r) \/ Digest(r) \/ RunFails(r)
      PROVE  RunsOnlyEnd
  <2>1. \A q \in Runs \ {r} : run'[q] = run[q]
    BY <1>1, <1>2 DEF StartRun, Find, Claim, Collect, Tell, Digest, RunFails
  <2>2. run[r].pc \notin {"over", "dead"}
    BY <1>2 DEF StartRun, Find, Claim, Collect, Tell, Digest, RunFails
  <2> QED BY <2>1, <2>2 DEF RunsOnlyEnd
<1>3. CASE UNCHANGED run
  BY <1>3 DEF RunsOnlyEnd
<1> QED BY <1>2, <1>3 DEF ReminderStep, Tick, Settle, PutBack

LEMMA LinksEnd == LinkInv /\ LinkStep => LinksOnlyEnd
<1> SUFFICES ASSUME LinkInv, LinkStep PROVE LinksOnlyEnd
  OBVIOUS
<1>1. linkCall \in [LinkCallers -> LinkCallState]
  BY LinkInvParts
<1>2. ASSUME NEW c \in LinkCallers, linkCall[c].pc # "over",
             \A d \in LinkCallers \ {c} : linkCall'[d].pc = linkCall[d].pc
      PROVE  LinksOnlyEnd
  BY <1>2 DEF LinksOnlyEnd
<1>3. ASSUME NEW c \in IssueCalls,
             (\E p \in Purposes : IssueLink(c, p)) \/ ClearOlder(c) \/ MailLink(c)
      PROVE  LinksOnlyEnd
  <2>1. linkCall[c].pc # "over" /\ \A d \in LinkCallers \ {c} : linkCall'[d] = linkCall[d]
    BY <1>1, <1>3 DEF IssueLink, ClearOlder, MailLink, At
  <2> QED BY <1>2, <2>1, LinkCallersApart
<1>4. ASSUME NEW c \in IssueCalls, CreateLink(c) PROVE LinksOnlyEnd
  <2>1. ASSUME NEW d \in LinkCallers \ {c} PROVE linkCall'[d].pc = linkCall[d].pc
    <3> DEFINE q == [linkCall[d] EXCEPT !.late = TRUE]
    <3>1. q.pc = linkCall[d].pc
      BY <1>1 DEF LinkCallState
    <3>2. linkCall'[d] \in {q, linkCall[d]}
      BY <1>1, <1>4 DEF CreateLink
    <3> QED BY <3>1, <3>2
  <2>2. linkCall[c].pc # "over"
    BY <1>4 DEF CreateLink
  <2> QED BY <1>2, <2>1, <2>2, LinkCallersApart
<1>5. ASSUME NEW c \in UseCalls,
             (\E l \in IssueCalls : PresentLink(c, l)) \/ BurnLinks(c) \/ SetPassword(c)
               \/ EndSessions(c) \/ MailChanged(c)
      PROVE  LinksOnlyEnd
  <2>1. linkCall[c].pc # "over" /\ \A d \in LinkCallers \ {c} : linkCall'[d] = linkCall[d]
    BY <1>1, <1>5 DEF PresentLink, BurnLinks, SetPassword, EndSessions, MailChanged, At
  <2> QED BY <1>2, <2>1, LinkCallersApart
<1>6. ASSUME NEW c \in LinkCallers, LinkCallFails(c) PROVE LinksOnlyEnd
  <2>1. linkCall[c].pc # "over" /\ \A d \in LinkCallers \ {c} : linkCall'[d] = linkCall[d]
    BY <1>1, <1>6 DEF LinkCallFails, At
  <2> QED BY <1>2, <2>1
<1>7. CASE UNCHANGED linkCall
  BY <1>7 DEF LinksOnlyEnd
<1> QED BY <1>3, <1>4, <1>5, <1>6, <1>7 DEF LinkStep, LinkExpires, LinkCallers

LEMMA TalkEnds == TalkInv /\ TalkStep => TalkOnlyEnds
<1> SUFFICES ASSUME TalkInv, TalkStep PROVE TalkOnlyEnds
  OBVIOUS
<1>1. message \in [Messages -> MessageState]
  BY TalkInvParts DEF BellInv
<1>2. ASSUME NEW m \in Messages, message[m].pc # "over",
             \A n \in Messages \ {m} : message'[n].pc = message[n].pc
      PROVE  TalkOnlyEnds
  BY <1>2 DEF TalkOnlyEnds
<1>3. ASSUME NEW m \in Messages, Send(m) \/ CheckBell(m) \/ WriteToReader(m) \/ NotifyFails(m)
      PROVE  TalkOnlyEnds
  <2>1. message[m].pc # "over" /\ \A n \in Messages \ {m} : message'[n] = message[n]
    BY <1>1, <1>3 DEF Send, CheckBell, WriteToReader, NotifyFails
  <2> QED BY <1>2, <2>1
<1>4. ASSUME NEW m \in Messages, CreateNotice(m) PROVE TalkOnlyEnds
  <2>1. ASSUME NEW n \in Messages \ {m} PROVE message'[n].pc = message[n].pc
    <3> DEFINE q == [message[n] EXCEPT !.late = TRUE]
    <3>1. q.pc = message[n].pc
      BY <1>1 DEF MessageState
    <3>2. message'[n] \in {q, message[n]}
      BY <1>4 DEF CreateNotice
    <3> QED BY <3>1, <3>2
  <2>2. message[m].pc # "over"
    BY <1>4 DEF CreateNotice
  <2> QED BY <1>2, <2>1, <2>2
<1>5. CASE MarkRead
  <2>1. ASSUME NEW n \in Messages PROVE message'[n].pc = message[n].pc
    <3> DEFINE q == [message[n] EXCEPT !.read = TRUE]
    <3>1. q.pc = message[n].pc
      BY <1>1 DEF MessageState
    <3>2. message'[n] \in {q, message[n]}
      BY <1>5 DEF MarkRead
    <3> QED BY <3>1, <3>2
  <2> QED BY <2>1 DEF TalkOnlyEnds
<1>6. CASE UNCHANGED message
  BY <1>6 DEF TalkOnlyEnds
<1> QED BY <1>3, <1>4, <1>5, <1>6
        DEF TalkStep, ReadBell, OpenThread, LeaveThread, HideThread, ShowThread, ChatFetches,
            ChatMarks, Poll, ServePage, ShowPage, PageFails, MarkAnswered, MarkFails
-----------------------------------------------------------------------------
(***************************************************************************)
(* The server as a whole.                                                  *)
(***************************************************************************)
LEMMA OfficeInitFits == Init => OfficeInv
<1> SUFFICES ASSUME Init PROVE OfficeInv
  OBVIOUS
<1>1. MailInit /\ ReminderInit /\ LinksInit /\ TalkInit /\ SiteInit
  BY DEF Init
<1>2. MailInv /\ ReminderInv /\ LinkInv /\ TalkInv /\ SiteInv
  BY <1>1, MailInitFits, ReminderInitFits, LinksInitFits, TalkInitFits, SiteInitFits
<1>3. UnwrittenYet
  <2>1. \A l \in Letters : mail[l].pc = "unwritten"
    BY <1>1 DEF MailInit
  <2> QED BY <2>1, RemindersAssumption, LinksAssumption, ConversationsAssumption DEF UnwrittenYet
<1> QED BY <1>2, <1>3 DEF OfficeInv

\* What only delivers, or dies, writes nothing.
LEMMA UnwrittenKept ==
  ASSUME UnwrittenYet, RunsOnlyEnd, LinksOnlyEnd, TalkOnlyEnds,
         \A l \in Letters : mail[l].pc = "unwritten" => mail'[l].pc = "unwritten"
  PROVE  UnwrittenYet'
<1>1. /\ \A r \in Runs, x \in TaskRows \cup InvoiceRows : <<r, StaffOf[x]>> \in Letters
      /\ \A c \in IssueCalls : <<c, "link">> \in Letters
      /\ \A c \in UseCalls : <<c, "changed">> \in Letters
      /\ \A m \in Messages : <<m, "new">> \in Letters
  BY RemindersAssumption, LinksAssumption, ConversationsAssumption
<1> QED BY <1>1, LinkCallersApart DEF UnwrittenYet, RunsOnlyEnd, LinksOnlyEnd, TalkOnlyEnds

LEMMA MailingFits ==
  ASSUME OfficeInv, NEW l \in Letters, Mailing(l)
  PROVE  OfficeInv'
<1>1. /\ MailInv /\ UnwrittenYet /\ ReminderInv /\ LinkInv /\ TalkInv /\ SiteInv
      /\ MailStep(l) /\ UNCHANGED <<reminderVars, linkVars, talkVars, siteVars>>
  BY DEF OfficeInv, Mailing
<1>2. MailInv'
  BY <1>1, MailStepFits
<1>3. UnwrittenYet'
  <2>1. mail[l].pc # "unwritten" /\ \A m \in Letters \ {l} : mail'[m] = mail[m]
    BY <1>1 DEF MailStep, Skip, Begin, BeginFails, Deliver, DeliverFails, Record, MailInv, MailTypeOK
  <2>2. RunsOnlyEnd /\ LinksOnlyEnd /\ TalkOnlyEnds
    BY <1>1 DEF reminderVars, linkVars, talkVars, RunsOnlyEnd, LinksOnlyEnd, TalkOnlyEnds
  <2> QED BY <1>1, <2>1, <2>2, UnwrittenKept
<1>4. ReminderInv'
  <2>1. clock \in Times
    BY <1>1 DEF ReminderInv, ReminderTypeOK
  <2> QED BY <1>1, <2>1, RemindersStay DEF reminderVars
<1>5. LinkInv' /\ TalkInv' /\ SiteInv'
  BY <1>1, LinksStay, TalkStays, SiteStays
<1> QED BY <1>2, <1>3, <1>4, <1>5 DEF OfficeInv

\* A digest goes to the staff of the rows that the run has found.
LEMMA DigestLetters ==
  ASSUME ReminderInv, UnwrittenYet, NEW r \in Runs, Digest(r), NEW S \in SUBSET DigestTo(r)
  PROVE  /\ \A l \in {r} \X S : mail[l].pc = "unwritten"
         /\ run'[r].pc = "over"
<1>1. /\ run[r] \in RunState /\ run \in [Runs -> RunState] /\ RunsFit /\ run[r].pc = "mailing"
  BY DEF ReminderInv, ReminderTypeOK, Digest
<1>2. ASSUME NEW p \in run[r].found, p[2] \in {"tasks", "overdue"}
      PROVE  p[1] \in TaskRows \cup InvoiceRows
  <2>1. p \in Rows \X Kinds
    BY <1>1 DEF RunState
  <2>2. PICK x \in Rows, kind \in Kinds : p = <<x, kind>>
    BY <2>1
  <2>3. Fits(x, kind, Day(run[r].now))
    BY <1>1, <1>2, <2>2 DEF RunsFit
  <2> QED BY <1>2, <2>2, <2>3 DEF Fits
<1>3. ASSUME NEW y \in S PROVE mail[<<r, y>>].pc = "unwritten"
  <2>1. PICK p \in run[r].found : p[2] \in {"tasks", "overdue"} /\ y = StaffOf[p[1]]
    BY DEF DigestTo
  <2> QED BY <1>1, <1>2, <2>1 DEF UnwrittenYet
<1>4. run'[r].pc = "over"
  <2>1. run'[r] = [run[r] EXCEPT !.pc = "over", !.found = {}]
    BY <1>1 DEF Digest
  <2> QED BY <1>1, <2>1 DEF RunState
<1>5. ASSUME NEW l \in {r} \X S PROVE mail[l].pc = "unwritten"
  <2>1. PICK y \in S : l = <<r, y>>
    BY <1>5
  <2> QED BY <1>3, <2>1
<1> QED BY <1>4, <1>5

LEMMA RemindingFits == OfficeInv /\ Reminding => OfficeInv'
<1> SUFFICES ASSUME OfficeInv, Reminding PROVE OfficeInv'
  OBVIOUS
<1>1. /\ MailInv /\ UnwrittenYet /\ ReminderInv /\ LinkInv /\ TalkInv /\ SiteInv
      /\ ReminderStep /\ UNCHANGED <<linkVars, talkVars, siteVars>>
  BY DEF OfficeInv, Reminding
<1>2. ReminderInv' /\ LinkInv' /\ TalkInv' /\ SiteInv'
  BY <1>1, ReminderStepFits, LinksStay, TalkStays, SiteStays
<1>3. RunsOnlyEnd /\ LinksOnlyEnd /\ TalkOnlyEnds
  BY <1>1, RunsEnd DEF ReminderInv, linkVars, talkVars, LinksOnlyEnd, TalkOnlyEnds
<1>4. MailInv' /\ UnwrittenYet'
  <2>1. CASE UNCHANGED mail
    BY <1>1, <1>3, <2>1, NoLetters
  <2>2. ASSUME NEW r \in Runs, Digest(r) PROVE MailInv' /\ UnwrittenYet'
    <3>1. PICK S \in SUBSET DigestTo(r) : mail' = Queued({r} \X S)
      BY <2>2 DEF Digest
    <3>2. /\ \A l \in {r} \X S : mail[l].pc = "unwritten"
          /\ run'[r].pc = "over"
      BY <1>1, <2>2, DigestLetters
    <3> DEFINE L == {r} \X S
    <3>3. \A q, y : <<q, y>> \in L => q = r
      OBVIOUS
    <3>4. mail' = Queued(L) /\ \A l \in L \cap Letters : mail[l].pc = "unwritten"
      BY <3>1, <3>2
    <3> HIDE DEF L
    <3>5. /\ \A q \in Runs, x \in TaskRows \cup InvoiceRows :
               <<q, StaffOf[x]>> \in L => run'[q].pc \in {"over", "dead"}
          /\ \A c \in IssueCalls : <<c, "link">> \notin L
          /\ \A c \in UseCalls : <<c, "changed">> \notin L
          /\ \A m \in Messages : <<m, "new">> \notin L
      BY <3>2, <3>3, OfficeAssumption
    <3> QED BY <1>1, <1>3, <3>4, <3>5, LettersWritten
  <2> QED BY <1>1, <2>1, <2>2
          DEF ReminderStep, Tick, StartRun, Find, Claim, Collect, Tell, RunFails, Settle, PutBack
<1> QED BY <1>2, <1>4 DEF OfficeInv

LEMMA LinkingFits == OfficeInv /\ Linking => OfficeInv'
<1> SUFFICES ASSUME OfficeInv, Linking PROVE OfficeInv'
  OBVIOUS
<1>1. /\ MailInv /\ UnwrittenYet /\ ReminderInv /\ LinkInv /\ TalkInv /\ SiteInv
      /\ LinkStep /\ UNCHANGED <<reminderVars, talkVars, siteVars>>
  BY DEF OfficeInv, Linking
<1>2. LinkInv' /\ TalkInv' /\ SiteInv'
  BY <1>1, LinkStepFits, TalkStays, SiteStays
<1>3. ReminderInv'
  <2>1. clock \in Times
    BY <1>1 DEF ReminderInv, ReminderTypeOK
  <2> QED BY <1>1, <2>1, RemindersStay DEF reminderVars
<1>4. RunsOnlyEnd /\ LinksOnlyEnd /\ TalkOnlyEnds
  BY <1>1, LinksEnd DEF reminderVars, talkVars, RunsOnlyEnd, TalkOnlyEnds
<1>5. linkCall \in [LinkCallers -> LinkCallState]
  BY <1>1, LinkInvParts
<1>6. ASSUME NEW c \in LinkCallers, At(c, "over") PROVE linkCall'[c].pc = "over"
  <2>1. linkCall'[c] = [linkCall[c] EXCEPT !.pc = "over"]
    BY <1>5, <1>6 DEF At
  <2> QED BY <1>5, <2>1 DEF LinkCallState
<1>7. ASSUME NEW c \in IssueCalls, MailLink(c) PROVE MailInv' /\ UnwrittenYet'
  <2> DEFINE L == {<<c, "link">>}
  <2>1. linkCall'[c].pc = "over" /\ linkCall[c].pc = "mailing"
    BY <1>6, <1>7, LinkCallersApart DEF MailLink
  <2>2. mail' = Queued(L) /\ \A l \in L : mail[l].pc = "unwritten"
    BY <1>1, <1>7, <2>1 DEF MailLink, UnwrittenYet
  <2>3. \A d, y : <<d, y>> \in L <=> d = c /\ y = "link"
    OBVIOUS
  <2> HIDE DEF L
  <2>4. \A r \in Runs : r # c
    BY OfficeAssumption
  <2> QED BY <1>1, <1>4, <2>1, <2>2, <2>3, <2>4, LettersWritten
<1>8. ASSUME NEW c \in UseCalls, MailChanged(c) PROVE MailInv' /\ UnwrittenYet'
  <2> DEFINE L == {<<c, "changed">>}
  <2>1. linkCall'[c].pc = "over" /\ linkCall[c].pc = "mailing"
    BY <1>6, <1>8, LinkCallersApart DEF MailChanged
  <2>2. mail' = Queued(L) /\ \A l \in L : mail[l].pc = "unwritten"
    BY <1>1, <1>8, <2>1 DEF MailChanged, UnwrittenYet
  <2>3. \A d, y : <<d, y>> \in L <=> d = c /\ y = "changed"
    OBVIOUS
  <2> HIDE DEF L
  <2>4. \A r \in Runs : r # c
    BY OfficeAssumption
  <2> QED BY <1>1, <1>4, <2>1, <2>2, <2>3, <2>4, LettersWritten
<1>9. ASSUME UNCHANGED mail PROVE MailInv' /\ UnwrittenYet'
  BY <1>1, <1>4, <1>9, NoLetters
<1>10. MailInv' /\ UnwrittenYet'
  <2>1. \A c \in IssueCalls :
          (\E p \in Purposes : IssueLink(c, p)) \/ ClearOlder(c) \/ CreateLink(c) => UNCHANGED mail
    BY DEF IssueLink, ClearOlder, CreateLink
  <2>2. \A c \in UseCalls :
          (\E l \in IssueCalls : PresentLink(c, l)) \/ BurnLinks(c) \/ SetPassword(c) \/ EndSessions(c)
            => UNCHANGED mail
    BY DEF PresentLink, BurnLinks, SetPassword, EndSessions
  <2>3. \A c : LinkCallFails(c) \/ LinkExpires(c) => UNCHANGED mail
    BY DEF LinkCallFails, LinkExpires
  <2> QED BY <1>1, <1>7, <1>8, <1>9, <2>1, <2>2, <2>3 DEF LinkStep
<1> QED BY <1>2, <1>3, <1>10 DEF OfficeInv

LEMMA TalkingFits == OfficeInv /\ Talking => OfficeInv'
<1> SUFFICES ASSUME OfficeInv, Talking PROVE OfficeInv'
  OBVIOUS
<1>1. /\ MailInv /\ UnwrittenYet /\ ReminderInv /\ LinkInv /\ TalkInv /\ SiteInv
      /\ TalkStep /\ UNCHANGED <<reminderVars, linkVars, siteVars>>
  BY DEF OfficeInv, Talking
<1>2. TalkInv' /\ LinkInv' /\ SiteInv'
  BY <1>1, TalkStepFits, LinksStay, SiteStays
<1>3. ReminderInv'
  <2>1. clock \in Times
    BY <1>1 DEF ReminderInv, ReminderTypeOK
  <2> QED BY <1>1, <2>1, RemindersStay DEF reminderVars
<1>4. RunsOnlyEnd /\ LinksOnlyEnd /\ TalkOnlyEnds
  BY <1>1, TalkEnds DEF reminderVars, linkVars, RunsOnlyEnd, LinksOnlyEnd
<1>5. ASSUME NEW m \in Messages, WriteToReader(m) PROVE MailInv' /\ UnwrittenYet'
  <2> DEFINE L == {<<m, "new">>}
  <2>1. message \in [Messages -> MessageState] /\ message[m].pc = "mailing"
    BY <1>1, <1>5, TalkInvParts DEF BellInv, WriteToReader
  <2>2. message'[m].pc = "over"
    <3>1. message'[m] = [message[m] EXCEPT !.pc = "over"]
      BY <1>5, <2>1 DEF WriteToReader
    <3> QED BY <2>1, <3>1 DEF MessageState
  <2>3. mail' = Queued(L) /\ \A l \in L : mail[l].pc = "unwritten"
    BY <1>1, <1>5, <2>1 DEF WriteToReader, UnwrittenYet
  <2>4. \A n, y : <<n, y>> \in L <=> n = m /\ y = "new"
    OBVIOUS
  <2> HIDE DEF L
  <2>5. \A r \in Runs : r # m
    BY OfficeAssumption
  <2> QED BY <1>1, <1>4, <2>2, <2>3, <2>4, <2>5, LettersWritten
<1>6. ASSUME UNCHANGED mail PROVE MailInv' /\ UnwrittenYet'
  BY <1>1, <1>4, <1>6, NoLetters
<1>7. MailInv' /\ UnwrittenYet'
  BY <1>1, <1>5, <1>6
  DEF TalkStep, Send, CheckBell, CreateNotice, NotifyFails, ReadBell, OpenThread, LeaveThread,
      HideThread, ShowThread, ChatFetches, ChatMarks, Poll, ServePage, ShowPage, PageFails,
      MarkRead, MarkAnswered, MarkFails
<1> QED BY <1>2, <1>3, <1>7 DEF OfficeInv

LEMMA PublishingFits == OfficeInv /\ Publishing => OfficeInv'
<1> SUFFICES ASSUME OfficeInv, Publishing PROVE OfficeInv'
  OBVIOUS
<1>1. /\ MailInv /\ UnwrittenYet /\ ReminderInv /\ LinkInv /\ TalkInv /\ SiteInv
      /\ SiteStep /\ UNCHANGED <<mail, reminderVars, linkVars, talkVars>>
  BY DEF OfficeInv, Publishing
<1>2. SiteInv' /\ LinkInv' /\ TalkInv'
  BY <1>1, SiteStepFits, LinksStay, TalkStays
<1>3. ReminderInv'
  <2>1. clock \in Times
    BY <1>1 DEF ReminderInv, ReminderTypeOK
  <2> QED BY <1>1, <2>1, RemindersStay DEF reminderVars
<1>4. MailInv' /\ UnwrittenYet'
  <2>1. RunsOnlyEnd /\ LinksOnlyEnd /\ TalkOnlyEnds
    BY <1>1 DEF reminderVars, linkVars, talkVars, RunsOnlyEnd, LinksOnlyEnd, TalkOnlyEnds
  <2> QED BY <1>1, <2>1, NoLetters
<1> QED BY <1>2, <1>3, <1>4 DEF OfficeInv

LEMMA CrashFits == OfficeInv /\ Crash => OfficeInv'
<1> SUFFICES ASSUME OfficeInv, Crash PROVE OfficeInv'
  OBVIOUS
<1>1. /\ MailInv /\ UnwrittenYet /\ ReminderInv /\ LinkInv /\ TalkInv /\ SiteInv
  BY DEF OfficeInv
<1>2. MailInv' /\ ReminderInv' /\ LinkInv' /\ TalkInv' /\ SiteInv'
  BY <1>1, MailCrashFits, RemindersCrash, LinksCrash, TalkCrash, SiteCrash DEF Crash
<1>3. \A l \in Letters : mail[l].pc = "unwritten" => mail'[l].pc = "unwritten"
  BY DEF Crash, MailAfterCrash
<1>4. RunsOnlyEnd
  <2>1. ASSUME NEW r \in Runs, run[r].pc \in {"over", "dead"} PROVE run'[r].pc \in {"over", "dead"}
    <3> DEFINE k == [run[r] EXCEPT !.pc = "dead", !.ids = {}, !.found = {}]
    <3>1. k.pc = "dead"
      BY <1>1 DEF ReminderInv, ReminderTypeOK, RunState
    <3>2. run'[r] \in {run[r], k}
      BY DEF Crash, RunsAfterCrash
    <3> QED BY <2>1, <3>1, <3>2
  <2> QED BY <2>1 DEF RunsOnlyEnd
<1>5. LinksOnlyEnd
  <2>1. ASSUME NEW c \in LinkCallers, linkCall[c].pc = "over" PROVE linkCall'[c].pc = "over"
    <3>1. linkCall \in [LinkCallers -> LinkCallState]
      BY <1>1, LinkInvParts
    <3>2. linkCall'[c] = [linkCall[c] EXCEPT !.pc = "over"]
      BY <2>1, <3>1 DEF Crash, LinkCallsAfterCrash
    <3> QED BY <3>1, <3>2 DEF LinkCallState
  <2> QED BY <2>1 DEF LinksOnlyEnd
<1>6. TalkOnlyEnds
  <2>1. ASSUME NEW m \in Messages, message[m].pc = "over" PROVE message'[m].pc = "over"
    <3>1. message[m] \in MessageState
      BY <1>1, TalkInvParts DEF BellInv
    <3>2. message'[m] = [message[m] EXCEPT !.pc = "over"]
      BY <2>1 DEF Crash, TalkAfterCrash, Sent
    <3> QED BY <3>1, <3>2 DEF MessageState
  <2> QED BY <2>1 DEF TalkOnlyEnds
<1>7. UnwrittenYet'
  BY <1>1, <1>3, <1>4, <1>5, <1>6, UnwrittenKept
<1> QED BY <1>2, <1>7 DEF OfficeInv

LEMMA OfficeStays == OfficeInv /\ UNCHANGED officeVars => OfficeInv'
<1> SUFFICES ASSUME OfficeInv, UNCHANGED officeVars PROVE OfficeInv'
  OBVIOUS
<1>1. /\ MailInv /\ UnwrittenYet /\ ReminderInv /\ LinkInv /\ TalkInv /\ SiteInv
      /\ UNCHANGED <<mail, reminderVars, linkVars, talkVars, siteVars>>
  BY DEF OfficeInv, officeVars
<1>2. SiteInv' /\ LinkInv' /\ TalkInv'
  BY <1>1, SiteStays, LinksStay, TalkStays
<1>3. ReminderInv'
  <2>1. clock \in Times
    BY <1>1 DEF ReminderInv, ReminderTypeOK
  <2> QED BY <1>1, <2>1, RemindersStay DEF reminderVars
<1>4. MailInv' /\ UnwrittenYet'
  <2>1. RunsOnlyEnd /\ LinksOnlyEnd /\ TalkOnlyEnds
    BY <1>1 DEF reminderVars, linkVars, talkVars, RunsOnlyEnd, LinksOnlyEnd, TalkOnlyEnds
  <2> QED BY <1>1, <2>1, NoLetters
<1> QED BY <1>2, <1>3, <1>4 DEF OfficeInv

(***************************************************************************)
(* The invariants of the five components hold together, through every      *)
(* interleaving of their calls and every death of the process, and nobody  *)
(* who may still write a letter finds it written.                          *)
(***************************************************************************)
THEOREM OfficeInvariant == Spec => []OfficeInv
<1>1. OfficeInv /\ [Next]_officeVars => OfficeInv'
  BY MailingFits, RemindingFits, LinkingFits, TalkingFits, PublishingFits, CrashFits, OfficeStays
  DEF Next
<1> QED BY <1>1, OfficeInitFits, PTL DEF Spec
-----------------------------------------------------------------------------
(***************************************************************************)
(* Every row, run, call, letter and page is of its type; in particular the *)
(* mark requests of the chat stay within their bound.                      *)
(***************************************************************************)
THEOREM TypeCorrect == Spec => []TypeOK
<1>1. OfficeInv => TypeOK
  BY DEF OfficeInv, MailInv, ReminderInv, LinkInv, TalkInv, SiteInv, TypeOK
<1> QED BY <1>1, OfficeInvariant, PTL

(***************************************************************************)
(* The log of e-mails tells what was delivered, whatever fails and         *)
(* whenever the process dies; a letter arrives twice only if a delivery    *)
(* was reported as a failure.  A letter is never queued a second time.     *)
(***************************************************************************)
THEOREM LettersLoggedTruly == Spec => []LogTellsDelivery
<1>1. OfficeInv => LogTellsDelivery
  BY DEF OfficeInv, MailInv, LetterFits, LogTellsDelivery
<1> QED BY <1>1, OfficeInvariant, PTL

(***************************************************************************)
(* Each row gets one reminder a day at most, by however many runs, unless  *)
(* two started at the very same time or the invoice was put back.          *)
(***************************************************************************)
THEOREM RemindedOnceADay == Spec => []OncePerDay
<1>1. OfficeInv => OncePerDay
  BY ReminderInvMeans DEF OfficeInv
<1> QED BY <1>1, OfficeInvariant, PTL

(***************************************************************************)
(* A row marked as reminded has its notice, or a run on its way to it,     *)
(* unless that run died or somebody settled the row.                       *)
(***************************************************************************)
THEOREM MarksStandForReminders == Spec => []MarksAreTold
<1>1. OfficeInv => MarksAreTold
  BY ReminderInvMeans DEF OfficeInv
<1> QED BY <1>1, OfficeInvariant, PTL

(***************************************************************************)
(* A one-time link sets the password once, and two links of a kind are not *)
(* usable side by side, unless the calls overlapped.                       *)
(***************************************************************************)
THEOREM LinksAreOneTime == Spec => []LinksWorkOnce
<1>1. OfficeInv => LinksWorkOnce
  BY LinkInvMeans DEF OfficeInv
<1> QED BY <1>1, OfficeInvariant, PTL

(***************************************************************************)
(* One unread notice per conversation, unless messages came so close that  *)
(* the second was checked before the notice of the first was there.        *)
(***************************************************************************)
THEOREM OneBellPerConversation == Spec => []OnlyOverlappingMessagesRepeat
<1>1. OfficeInv => OnlyOverlappingMessagesRepeat
  BY DEF OfficeInv, TalkInv
<1> QED BY <1>1, OfficeInvariant, PTL

(***************************************************************************)
(* What is published has its consent and its date, unless an update was    *)
(* overtaken by another write between its check and its own write.         *)
(***************************************************************************)
THEOREM PublishedWithConsent == Spec => []OnlyOvertakenCallsMispublish
<1>1. OfficeInv => OnlyOvertakenCallsMispublish
  BY DEF OfficeInv, SiteInv
<1> QED BY <1>1, OfficeInvariant, PTL
=============================================================================
