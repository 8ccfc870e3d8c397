------------------------------ MODULE Reminders ------------------------------
(***************************************************************************)
(* The daily reminders: RemindersService.runDaily, started by the          *)
(* scheduler or by an admin, over tasks, invoices and document requests.   *)
(*                                                                         *)
(* A run goes through four kinds of reminder; for each it finds rows,      *)
(* claims them by lastReminderAt = now, and reads back what it claimed.    *)
(* Only then are the notices of all four created and the digests mailed.   *)
(* Rows are reduced to whether they still wait for somebody; the wording   *)
(* of notices and the counts in the digest are left out.                   *)
(***************************************************************************)
EXTENDS Mail, Integers, FiniteSets

CONSTANTS
  TaskRows, InvoiceRows, RequestRows,  \* the rows, all of them open at first
  Due,          \* the day each row is due; the first day is 0
  StaffOf,      \* the assignee of a task, the lead lawyer of an invoice's case
  Runs,         \* runs of the job; each of them is started once
  TicksPerDay,  \* distinct times `new Date()` may return on one day
  MaxClock      \* bound: the last time looked at

Rows == TaskRows \cup InvoiceRows \cup RequestRows

ASSUME RemindersAssumption ==
  /\ TicksPerDay \in Nat \ {0} /\ MaxClock \in Nat \ {0}
  /\ TaskRows \cap InvoiceRows = {} /\ RequestRows \cap (TaskRows \cup InvoiceRows) = {}
  /\ Due \in [Rows -> Int]
  /\ \A r \in Runs, x \in TaskRows \cup InvoiceRows : <<r, StaffOf[x]>> \in Letters

VARIABLES
  clock,   \* the server's time
  row,     \* the rows
  run,     \* where each run stands
  notices  \* the reminders created

reminderVars == <<clock, row, run, notices>>

\* Never 0, which stands for no reminder yet: the first day is one tick shorter.
Times == 1..MaxClock
Day(t) == t \div TicksPerDay

Phases == <<"tasks", "overdue", "tomorrow", "requests">>
Kinds == {Phases[i] : i \in DOMAIN Phases}

RowState ==
  [state : {"waiting", "overdue", "settled"},  \* overdue: InvoiceStatus.OVERDUE
   last : 0..MaxClock,   \* lastReminderAt
   moved : BOOLEAN,      \* somebody changed its status since
   back : BOOLEAN]       \* it waits again after it was settled

RunState ==
  [pc : {"new", "finding", "claiming", "collecting", "telling", "mailing", "over", "dead"},
   phase : DOMAIN Phases,
   now : 0..MaxClock,
   ids : SUBSET Rows,               \* candidates of the phase
   found : SUBSET (Rows \X Kinds)]  \* inputs

ReminderTypeOK ==
  /\ clock \in Times
  /\ row \in [Rows -> RowState]
  /\ run \in [Runs -> RunState]
  /\ notices \subseteq [row : Rows, kind : Kinds, at : Times, by : Runs]

ReminderInit ==
  /\ clock = 1
  /\ row = [x \in Rows |-> [state |-> "waiting", last |-> 0, moved |-> FALSE, back |-> FALSE]]
  /\ run = [r \in Runs |-> [pc |-> "new", phase |-> 1, now |-> 0, ids |-> {}, found |-> {}]]
  /\ notices = {}
-----------------------------------------------------------------------------
\* notRemindedToday
NotReminded(x, today) == row[x].last = 0 \/ Day(row[x].last) < today

\* The `where` of each kind of reminder.
Wanted(kind, today) ==
  {x \in Rows :
     /\ row[x].state = "waiting"
     /\ \/ kind = "tasks" /\ x \in TaskRows /\ Due[x] < today + 2 /\ NotReminded(x, today)
        \/ kind = "overdue" /\ x \in InvoiceRows /\ Due[x] < today
        \/ kind = "tomorrow" /\ x \in InvoiceRows /\ Due[x] = today + 1 /\ NotReminded(x, today)
        \/ kind = "requests" /\ x \in RequestRows /\ Due[x] < today /\ NotReminded(x, today)}

KindOf(r) == Phases[run[r].phase]

\* A run that is done with its phase, with `found` in hand.
Further(r, found) ==
  IF run[r].phase < 4
  THEN [run[r] EXCEPT !.pc = "finding", !.phase = run[r].phase + 1, !.ids = {}, !.found = found]
  ELSE [run[r] EXCEPT !.pc = IF found = {} THEN "over" ELSE "telling", !.ids = {}, !.found = found]

StartRun(r) ==
  /\ run[r].pc = "new"
  /\ run' = [run EXCEPT ![r] = [run[r] EXCEPT !.pc = "finding", !.now = clock]]
  /\ UNCHANGED <<clock, row, notices, mail>>

Find(r) ==
  LET ids == Wanted(KindOf(r), Day(run[r].now))
  IN  /\ run[r].pc = "finding"
      /\ run' = [run EXCEPT ![r] =
                   IF ids = {} THEN Further(r, run[r].found)
                   ELSE [run[r] EXCEPT !.pc = "claiming", !.ids = ids]]
      /\ UNCHANGED <<clock, row, notices, mail>>

\* Fault: the update does not repeat the conditions of the search.
ClaimById(r) ==
  LET kind == KindOf(r)
  IN  /\ run[r].pc = "claiming"
      /\ row' = [x \in Rows |->
                   IF x \in run[r].ids
                   THEN [row[x] EXCEPT !.last = run[r].now, !.moved = FALSE,
                                       !.state = IF kind = "overdue" THEN "overdue" ELSE row[x].state]
                   ELSE row[x]]
      /\ run' = [run EXCEPT ![r] = [run[r] EXCEPT !.pc = "collecting"]]
      /\ UNCHANGED <<clock, notices, mail>>

Claim(r) ==
  LET kind == KindOf(r)
  IN  /\ run[r].pc = "claiming"
      /\ row' = [x \in Rows |->
                   IF x \in run[r].ids \cap Wanted(kind, Day(run[r].now))
                   THEN [row[x] EXCEPT !.last = run[r].now, !.moved = FALSE,
                                       !.state = IF kind = "overdue" THEN "overdue" ELSE row[x].state]
                   ELSE row[x]]
      /\ run' = [run EXCEPT ![r] = [run[r] EXCEPT !.pc = "collecting"]]
      /\ UNCHANGED <<clock, notices, mail>>

\* What carries this run's time is taken for claimed by it.
Claimed(r) ==
  {x \in run[r].ids : row[x].last = run[r].now /\ (KindOf(r) = "overdue" => row[x].state = "overdue")}

\* Fault: the reminders of the last kind replace those of the others.
CollectLast(r) ==
  /\ run[r].pc = "collecting"
  /\ run' = [run EXCEPT ![r] = Further(r, Claimed(r) \X {KindOf(r)})]
  /\ UNCHANGED <<clock, row, notices, mail>>

Collect(r) ==
  /\ run[r].pc = "collecting"
  /\ run' = [run EXCEPT ![r] = Further(r, run[r].found \cup (Claimed(r) \X {KindOf(r)}))]
  /\ UNCHANGED <<clock, row, notices, mail>>

\* createMany
Tell(r) ==
  /\ run[r].pc = "telling"
  /\ notices' = notices \cup {[row |-> p[1], kind |-> p[2], at |-> run[r].now, by |-> r] :
                                p \in run[r].found}
  /\ run' = [run EXCEPT ![r] = [run[r] EXCEPT !.pc = "mailing"]]
  /\ UNCHANGED <<clock, row, mail>>

\* The staff who got a notice; clients are written to directly.
DigestTo(r) == {StaffOf[p[1]] : p \in {q \in run[r].found : q[2] \in {"tasks", "overdue"}}}

\* sendDigests: all of them, or those before the first query that failed.
Digest(r) ==
  /\ run[r].pc = "mailing"
  /\ \E S \in SUBSET DigestTo(r) : mail' = Queued({r} \X S)
  /\ run' = [run EXCEPT ![r] = [run[r] EXCEPT !.pc = "over", !.found = {}]]
  /\ UNCHANGED <<clock, row, notices>>

\* A query fails, and with it the run.
RunFails(r) ==
  /\ run[r].pc \notin {"new", "mailing", "over", "dead"}
  /\ run' = [run EXCEPT ![r] = [run[r] EXCEPT !.pc = "dead", !.ids = {}, !.found = {}]]
  /\ UNCHANGED <<clock, row, notices, mail>>

\* Tasks are finished, invoices reported or cancelled, requests answered.
Settle(x) ==
  /\ row[x].state # "settled"
  /\ row' = [row EXCEPT ![x] = [row[x] EXCEPT !.state = "settled", !.moved = TRUE]]
  /\ UNCHANGED <<clock, run, notices, mail>>

\* A report is rejected (back to SENT), or an answer is.
PutBack(x) ==
  /\ x \in InvoiceRows \cup RequestRows
  /\ row[x].state = "settled"
  /\ row' = [row EXCEPT ![x] = [row[x] EXCEPT !.state = "waiting", !.moved = TRUE, !.back = TRUE]]
  /\ UNCHANGED <<clock, run, notices, mail>>

Tick ==
  /\ clock < MaxClock
  /\ clock' = clock + 1
  /\ UNCHANGED <<row, run, notices, mail>>

RunsAfterCrash ==
  [r \in Runs |-> IF run[r].pc \in {"new", "over"} THEN run[r]
                  ELSE [run[r] EXCEPT !.pc = "dead", !.ids = {}, !.found = {}]]

ReminderStep ==
  \/ Tick
  \/ \E r \in Runs : StartRun(r) \/ Find(r) \/ Claim(r) \/ Collect(r) \/ Tell(r) \/ Digest(r) \/ RunFails(r)
  \/ \E x \in Rows : Settle(x) \/ PutBack(x)
-----------------------------------------------------------------------------
(***************************************************************************)
(* "Each task, invoice and document request gets at most one reminder per  *)
(* day", by however many runs: unless two runs were started at the very    *)
(* same time and cannot tell their claims apart, or the invoice was put    *)
(* back to SENT and became overdue a second time.                          *)
(***************************************************************************)
OncePerDay ==
  \A m, n \in notices :
    (m # n /\ m.row = n.row /\ Day(m.at) = Day(n.at)) =>
      \/ m.at = n.at /\ m.by # n.by
      \/ m.kind = "overdue" /\ n.kind = "overdue" /\ row[m.row].back

(***************************************************************************)
(* A row that carries the mark of a reminder got one: its notice exists,   *)
(* or the run that marked it is still on its way - unless that run died,   *)
(* or the row was settled since.  So nobody is silently passed over until  *)
(* the next day.                                                           *)
(***************************************************************************)
MarksAreTold ==
  \A x \in Rows :
    row[x].last = 0 \/ row[x].moved
      \/ (\E n \in notices : n.row = x /\ n.at = row[x].last)
      \/ (\E r \in Runs : run[r].now = row[x].last /\ run[r].pc \notin {"mailing", "over"})
=============================================================================
