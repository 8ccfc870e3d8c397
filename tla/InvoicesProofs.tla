--------------------------- MODULE InvoicesProofs ---------------------------
(***************************************************************************)
(* Proofs about Invoices, for any invoices, any calls and runs of the      *)
(* sweep, and any bound on the reports.                                    *)
(***************************************************************************)
EXTENDS Invoices, FiniteSetTheorems, TLAPS

\* The locals of a call are what its handler has checked.
Sensible(s) ==
  /\ s \in CallState
  /\ s.pc # "idle" => s.inv \in Invoices
  /\ s.pc = "marking" => s.read \in Payable
  /\ s.pc = "deciding" => s.read = "AWAITING_CONFIRMATION"
  /\ s.pc = "announcing" => s.kind \in Kinds
  /\ s.pc = "editing" =>
       /\ s.read \in Statuses /\ s.to \in Statuses
       /\ CanTransition(s.read, s.to)
       /\ s.to # s.read => s.to # "AWAITING_CONFIRMATION"
       /\ s.content => s.read = "DRAFT"

TypeInv == TypeOK /\ \A c \in Calls : Sensible(call[c])

LEMMA CallShapes ==
  /\ Sensible(Idle)
  /\ \A i \in Invoices, k \in Kinds : Sensible(Announcing(i, k))
<1>1. Sensible(Idle)
  BY DEF Sensible, Idle, CallState
<1>2. ASSUME NEW i \in Invoices, NEW k \in Kinds PROVE Sensible(Announcing(i, k))
  BY DEF Sensible, Announcing, Idle, CallState
<1> QED BY <1>1, <1>2

\* The steps that begin a call: they load the row and change only the call.
Begins(c, i) ==
  \/ \E to \in Statuses, content \in BOOLEAN : EditRead(c, i, to, content)
  \/ MarkPaidRead(c, i)
  \/ \E to \in {"PAID", "SENT"} : DecisionRead(c, i, to)

LEMMA LoadedShape ==
  ASSUME TypeInv, NEW i \in Invoices, Exists(i),
         NEW pc \in {"editing", "marking", "deciding"}, NEW to \in Statuses,
         NEW content \in BOOLEAN
  PROVE  LET s == [Loaded(pc, i, to) EXCEPT !.content = content]
         IN  /\ s \in CallState
             /\ s.pc = pc /\ s.inv = i /\ s.read = invoice[i].status
             /\ s.to = to /\ s.content = content
             /\ s.read \in Statuses
BY DEF Loaded, Idle, CallState, Exists, TypeInv, TypeOK, Row

LEMMA BeginShape ==
  ASSUME TypeInv, NEW c \in Calls, NEW i \in Invoices, Begins(c, i)
  PROVE  \E s : /\ call' = [call EXCEPT ![c] = s] /\ Sensible(s)
                /\ s.pc # "announcing"
                /\ call[c] = Idle
                /\ UNCHANGED <<invoice, sweep, notices, history>>
<1>1. ASSUME NEW to \in Statuses, NEW content \in BOOLEAN, EditRead(c, i, to, content)
      PROVE  \E s : /\ call' = [call EXCEPT ![c] = s] /\ Sensible(s)
                    /\ s.pc # "announcing"
  <2> DEFINE s == [Loaded("editing", i, to) EXCEPT !.content = content]
  <2>1. /\ call' = [call EXCEPT ![c] = s]
        /\ Exists(i)
        /\ CanTransition(invoice[i].status, to)
        /\ to # invoice[i].status => to # "AWAITING_CONFIRMATION"
        /\ content => invoice[i].status = "DRAFT"
    BY <1>1 DEF EditRead
  <2>2. /\ s \in CallState
        /\ s.pc = "editing" /\ s.inv = i /\ s.read = invoice[i].status
        /\ s.to = to /\ s.content = content
        /\ s.read \in Statuses
    BY <2>1, LoadedShape
  <2> HIDE DEF s
  <2> QED BY <2>1, <2>2 DEF Sensible
<1>2. ASSUME MarkPaidRead(c, i)
      PROVE  \E s : /\ call' = [call EXCEPT ![c] = s] /\ Sensible(s)
                    /\ s.pc # "announcing"
  <2> DEFINE s == Loaded("marking", i, "AWAITING_CONFIRMATION")
  <2>1. call' = [call EXCEPT ![c] = s] /\ invoice[i].status \in Payable
    BY <1>2 DEF MarkPaidRead
  <2>2. Sensible(s) /\ s.pc = "marking"
    BY <2>1 DEF Sensible, Loaded, Idle, CallState, Payable, Statuses
  <2> QED BY <2>1, <2>2
<1>3. ASSUME NEW to \in {"PAID", "SENT"}, DecisionRead(c, i, to)
      PROVE  \E s : /\ call' = [call EXCEPT ![c] = s] /\ Sensible(s)
                    /\ s.pc # "announcing"
  <2> DEFINE s == Loaded("deciding", i, to)
  <2>1. call' = [call EXCEPT ![c] = s] /\ invoice[i].status = "AWAITING_CONFIRMATION"
    BY <1>3 DEF DecisionRead
  <2>2. Sensible(s) /\ s.pc = "deciding"
    BY <2>1 DEF Sensible, Loaded, Idle, CallState, Statuses
  <2> QED BY <2>1, <2>2
<1>4. call[c] = Idle /\ UNCHANGED <<invoice, sweep, notices, history>>
  BY DEF Begins, EditRead, MarkPaidRead, DecisionRead
<1> QED BY <1>1, <1>2, <1>3, <1>4 DEF Begins

\* What the write of an edit leaves on the rows.
LEMMA EditShape ==
  ASSUME TypeInv, NEW c \in Calls, EditWrite(c)
  PROVE  LET e == call[c]
             i == e.inv
             changed == e.to # e.read
         IN  /\ i \in Invoices
             /\ invoice' \in [Invoices -> Row]
             /\ \A j \in Invoices : j # i => invoice'[j] = invoice[j]
             /\ invoice'[i].status = IF changed THEN e.to ELSE invoice[i].status
             /\ changed /\ e.to = "PAID" => invoice'[i].paidAt
             /\ invoice[i].paidAt => invoice'[i].paidAt
             /\ invoice'[i].late # invoice[i].late => e.content /\ invoice[i].status # "DRAFT"
             /\ invoice'[i].markedAt = invoice[i].markedAt
             /\ invoice'[i].rejectedAt = invoice[i].rejectedAt
<1> DEFINE e == call[c]
           i == e.inv
<1>1. i \in Invoices /\ e \in CallState /\ e.to \in Statuses
  BY DEF EditWrite, TypeInv, Sensible
<1>2. invoice \in [Invoices -> Row] /\ invoice[i] \in Row
  BY <1>1 DEF TypeInv, TypeOK
<1>3. PICK past \in BOOLEAN : invoice' = [invoice EXCEPT ![i] = EditedRow(invoice[i], e, past)]
  BY <1>2 DEF EditWrite, Row
<1> DEFINE row == EditedRow(invoice[i], e, past)
<1>4. row \in Row
  <2> DEFINE status == IF e.to # e.read THEN e.to ELSE invoice[i].status
             paid == invoice[i].paidAt \/ (e.to # e.read /\ e.to = "PAID")
             late == invoice[i].late \/ (e.content /\ invoice[i].status # "DRAFT")
  <2>1. late \in BOOLEAN /\ paid \in BOOLEAN
    OBVIOUS
  <2>2. status \in Statuses \cup {"ABSENT"}
    BY <1>1, <1>2 DEF Row
  <2>3. row = [invoice[i] EXCEPT !.status = status, !.paidAt = paid, !.late = late, !.pastDue = past]
    BY DEF EditedRow
  <2> HIDE DEF status, paid, late, row
  <2> QED BY <1>2, <2>1, <2>2, <2>3 DEF Row
<1>5. /\ row.status = IF e.to # e.read THEN e.to ELSE invoice[i].status
      /\ e.to # e.read /\ e.to = "PAID" => row.paidAt
      /\ invoice[i].paidAt => row.paidAt
      /\ row.markedAt = invoice[i].markedAt
      /\ row.rejectedAt = invoice[i].rejectedAt
  BY <1>2 DEF EditedRow, Row
<1>6. row.late # invoice[i].late => e.content /\ invoice[i].status # "DRAFT"
  BY <1>2 DEF EditedRow, Row
<1>7. /\ invoice' \in [Invoices -> Row]
      /\ invoice'[i] = row
      /\ \A j \in Invoices : j # i => invoice'[j] = invoice[j]
  <2>1. invoice' = [invoice EXCEPT ![i] = row]
    BY <1>3
  <2> HIDE DEF row
  <2> QED BY <1>1, <1>2, <1>4, <2>1
<1> HIDE DEF row
<1> QED BY <1>1, <1>5, <1>6, <1>7

\* A payment report or a decision is written on the status it was checked with.
LEMMA MoveShape ==
  ASSUME TypeInv, NEW c \in Calls, MarkPaidWrite(c) \/ ConfirmWrite(c) \/ RejectWrite(c)
  PROVE  LET i == call[c].inv
         IN  /\ i \in Invoices
             /\ invoice[i].status = call[c].read
             /\ invoice' \in [Invoices -> Row]
             /\ \A j \in Invoices : j # i => invoice'[j] = invoice[j]
             /\ invoice'[i].late = invoice[i].late
             /\ MarkPaidWrite(c) => /\ invoice[i].status \in Payable
                                    /\ invoice'[i].status = "AWAITING_CONFIRMATION"
                                    /\ invoice'[i].markedAt /\ ~ invoice'[i].rejectedAt
             /\ ConfirmWrite(c) => /\ invoice[i].status = "AWAITING_CONFIRMATION"
                                   /\ invoice'[i].status = "PAID"
                                   /\ invoice'[i].paidAt
             /\ RejectWrite(c) => /\ invoice[i].status = "AWAITING_CONFIRMATION"
                                  /\ invoice'[i].status = "SENT"
<1> DEFINE i == call[c].inv
<1>1. /\ i \in Invoices /\ invoice \in [Invoices -> Row] /\ invoice[i] \in Row
      /\ call[c].pc = "marking" => call[c].read \in Payable
      /\ call[c].pc = "deciding" => call[c].read = "AWAITING_CONFIRMATION"
  BY DEF TypeInv, TypeOK, Sensible, MarkPaidWrite, ConfirmWrite, RejectWrite
<1>2. CASE MarkPaidWrite(c)
  <2> DEFINE row == [invoice[i] EXCEPT !.status = "AWAITING_CONFIRMATION",
                               !.markedAt = TRUE, !.rejectedAt = FALSE]
  <2>1. /\ invoice' = [invoice EXCEPT ![i] = row]
        /\ row \in Row /\ row.late = invoice[i].late
        /\ row.status = "AWAITING_CONFIRMATION" /\ row.markedAt /\ ~ row.rejectedAt
    <3>1. invoice' = [invoice EXCEPT ![i] = row]
      BY <1>2 DEF MarkPaidWrite
    <3>2. /\ row \in Row /\ row.late = invoice[i].late
          /\ row.status = "AWAITING_CONFIRMATION" /\ row.markedAt /\ ~ row.rejectedAt
      BY <1>1 DEF Row, Statuses
    <3> HIDE DEF row
    <3> QED BY <3>1, <3>2
  <2>2. call[c].pc = "marking" /\ invoice[i].status = call[c].read
    BY <1>2 DEF MarkPaidWrite
  <2>3. ~ ConfirmWrite(c) /\ ~ RejectWrite(c)
    BY <2>2 DEF ConfirmWrite, RejectWrite
  <2> HIDE DEF row
  <2> QED BY <1>1, <2>1, <2>2, <2>3
<1>3. CASE ConfirmWrite(c)
  <2> DEFINE row == [invoice[i] EXCEPT !.status = "PAID", !.paidAt = TRUE]
  <2>1. /\ invoice' = [invoice EXCEPT ![i] = row]
        /\ row \in Row /\ row.late = invoice[i].late
        /\ row.status = "PAID" /\ row.paidAt
    <3>1. invoice' = [invoice EXCEPT ![i] = row]
      BY <1>3 DEF ConfirmWrite
    <3>2. /\ row \in Row /\ row.late = invoice[i].late
          /\ row.status = "PAID" /\ row.paidAt
      BY <1>1 DEF Row, Statuses
    <3> HIDE DEF row
    <3> QED BY <3>1, <3>2
  <2>2. call[c].pc = "deciding" /\ call[c].to = "PAID" /\ invoice[i].status = call[c].read
    BY <1>3 DEF ConfirmWrite
  <2>3. ~ MarkPaidWrite(c) /\ ~ RejectWrite(c)
    BY <2>2 DEF MarkPaidWrite, RejectWrite
  <2> HIDE DEF row
  <2> QED BY <1>1, <2>1, <2>2, <2>3
<1>4. CASE RejectWrite(c)
  <2> DEFINE row == [invoice[i] EXCEPT !.status = "SENT", !.paidAt = FALSE, !.rejectedAt = TRUE]
  <2>1. /\ invoice' = [invoice EXCEPT ![i] = row]
        /\ row \in Row /\ row.late = invoice[i].late
        /\ row.status = "SENT"
    <3>1. invoice' = [invoice EXCEPT ![i] = row]
      BY <1>4 DEF RejectWrite
    <3>2. /\ row \in Row /\ row.late = invoice[i].late
          /\ row.status = "SENT"
      BY <1>1 DEF Row, Statuses
    <3> HIDE DEF row
    <3> QED BY <3>1, <3>2
  <2>2. call[c].pc = "deciding" /\ call[c].to = "SENT" /\ invoice[i].status = call[c].read
    BY <1>4 DEF RejectWrite
  <2>3. ~ MarkPaidWrite(c) /\ ~ ConfirmWrite(c)
    BY <2>2 DEF MarkPaidWrite, ConfirmWrite
  <2> HIDE DEF row
  <2> QED BY <1>1, <2>1, <2>2, <2>3
<1> QED BY <1>2, <1>3, <1>4

\* The steps of the calendar, the sweep, and the creation of a row.
LEMMA OtherRowShape ==
  ASSUME TypeInv,
         \/ \E i \in Invoices : Create(i) \/ DayPasses(i)
         \/ \E w \in Sweeps : SweepRead(w) \/ SweepWrite(w)
  PROVE  /\ UNCHANGED <<call, notices, history>>
         /\ sweep' \in [Sweeps -> SUBSET Invoices]
         /\ invoice' \in [Invoices -> Row]
         /\ \A i \in Invoices :
              /\ invoice'[i].late = invoice[i].late
              /\ \/ invoice[i].status = "ABSENT" /\ invoice'[i].status = "DRAFT"
                 \/ invoice[i].status = "SENT" /\ invoice'[i].status = "OVERDUE"
                 \/ /\ invoice'[i].status = invoice[i].status
                    /\ invoice'[i].paidAt = invoice[i].paidAt
                    /\ invoice'[i].markedAt = invoice[i].markedAt
                    /\ invoice'[i].rejectedAt = invoice[i].rejectedAt
<1>1. invoice \in [Invoices -> Row] /\ sweep \in [Sweeps -> SUBSET Invoices]
  BY DEF TypeInv, TypeOK
<1>2. CASE \E i \in Invoices : Create(i)
  BY <1>1, <1>2 DEF Create, Exists, Row, Statuses
<1>3. CASE \E i \in Invoices : DayPasses(i)
  <2>1. PICK i \in Invoices : DayPasses(i)
    BY <1>3
  <2>2. invoice' = [invoice EXCEPT ![i] = [invoice[i] EXCEPT !.pastDue = TRUE]]
    BY <1>1, <2>1 DEF DayPasses, Row
  <2>3. \A j \in Invoices : /\ invoice'[j] \in Row
                            /\ invoice'[j].late = invoice[j].late
                            /\ invoice'[j].status = invoice[j].status
                            /\ invoice'[j].paidAt = invoice[j].paidAt
                            /\ invoice'[j].markedAt = invoice[j].markedAt
                            /\ invoice'[j].rejectedAt = invoice[j].rejectedAt
    BY <1>1, <2>2 DEF Row
  <2> QED BY <1>1, <2>1, <2>2, <2>3 DEF DayPasses
<1>4. CASE \E w \in Sweeps : SweepRead(w)
  <2>1. Overdue \in SUBSET Invoices
    BY DEF Overdue
  <2> QED BY <1>1, <1>4, <2>1 DEF SweepRead
<1>5. CASE \E w \in Sweeps : SweepWrite(w)
  <2>1. PICK w \in Sweeps : SweepWrite(w)
    BY <1>5
  <2>2. \A i \in Invoices : [invoice[i] EXCEPT !.status = "OVERDUE"] \in Row
    BY <1>1 DEF Row, Statuses
  <2>3. \A i \in Invoices :
          \/ invoice'[i] = invoice[i]
          \/ invoice[i].status = "SENT" /\ invoice'[i] = [invoice[i] EXCEPT !.status = "OVERDUE"]
    BY <2>1 DEF SweepWrite, Overdue
  <2>4. invoice' \in [Invoices -> Row]
    <3>1. \A i \in Invoices : invoice'[i] \in Row
      BY <1>1, <2>2, <2>3
    <3>2. invoice' = [i \in Invoices |-> invoice'[i]]
      BY <2>1 DEF SweepWrite
    <3> QED BY <3>1, <3>2
  <2>5. \A i \in Invoices : invoice'[i].late = invoice[i].late
    BY <1>1, <2>3 DEF Row
  <2>6. \A i \in Invoices : [invoice[i] EXCEPT !.status = "OVERDUE"].status = "OVERDUE"
    BY <1>1 DEF Row
  <2> QED BY <1>1, <2>1, <2>3, <2>4, <2>5, <2>6 DEF SweepWrite
<1> QED BY <1>2, <1>3, <1>4, <1>5

LEMMA StepCases ==
  ASSUME [Next]_vars
  PROVE  \/ \E i \in Invoices : Create(i) \/ DayPasses(i)
         \/ \E w \in Sweeps : SweepRead(w) \/ SweepWrite(w)
         \/ \E c \in Calls, i \in Invoices : Begins(c, i)
         \/ \E c \in Calls : EditWrite(c)
         \/ \E c \in Calls : MarkPaidWrite(c) \/ ConfirmWrite(c) \/ RejectWrite(c)
         \/ \E c \in Calls : MoveLost(c) \/ Announce(c)
         \/ UNCHANGED vars
BY DEF Next, Begins, Resume

\* The fields of history a reported payment and its answers are counted in.
LEMMA HistoryShape ==
  ASSUME TypeInv, NEW c \in Calls, MarkPaidWrite(c) \/ ConfirmWrite(c) \/ RejectWrite(c)
  PROVE  LET i == call[c].inv
         IN  /\ history' \in [Invoices -> History]
             /\ \A j \in Invoices : j # i => history'[j] = history[j]
             /\ history'[i].reported =
                  history[i].reported + (IF MarkPaidWrite(c) THEN 1 ELSE 0)
             /\ history'[i].confirmed =
                  history[i].confirmed + (IF ConfirmWrite(c) THEN 1 ELSE 0)
             /\ history'[i].rejected =
                  history[i].rejected + (IF RejectWrite(c) THEN 1 ELSE 0)
<1> DEFINE i == call[c].inv
<1>1. i \in Invoices /\ history \in [Invoices -> History] /\ history[i] \in History
  BY MoveShape DEF TypeInv, TypeOK
<1>2. CASE MarkPaidWrite(c)
  <2>1. history' = [history EXCEPT ![i].reported = history[i].reported + 1]
    BY <1>2 DEF MarkPaidWrite
  <2>2. ~ ConfirmWrite(c) /\ ~ RejectWrite(c)
    BY <1>2 DEF MarkPaidWrite, ConfirmWrite, RejectWrite
  <2> QED BY <1>1, <1>2, <2>1, <2>2 DEF History
<1>3. CASE ConfirmWrite(c)
  <2>1. history' = [history EXCEPT ![i].confirmed = history[i].confirmed + 1]
    BY <1>3 DEF ConfirmWrite
  <2>2. ~ MarkPaidWrite(c) /\ ~ RejectWrite(c)
    BY <1>3 DEF MarkPaidWrite, ConfirmWrite, RejectWrite
  <2> QED BY <1>1, <1>3, <2>1, <2>2 DEF History
<1>4. CASE RejectWrite(c)
  <2>1. history' = [history EXCEPT ![i].rejected = history[i].rejected + 1]
    BY <1>4 DEF RejectWrite
  <2>2. ~ MarkPaidWrite(c) /\ ~ ConfirmWrite(c)
    BY <1>4 DEF MarkPaidWrite, ConfirmWrite, RejectWrite
  <2> QED BY <1>1, <1>4, <2>1, <2>2 DEF History
<1> QED BY <1>2, <1>3, <1>4

LEMMA TypeInit == Init => TypeInv
<1> SUFFICES ASSUME Init PROVE TypeInv
  OBVIOUS
<1>1. \A c \in Calls : call[c] = Idle
  BY DEF Init
<1>2. NoRow \in Row /\ [reported |-> 0, confirmed |-> 0, rejected |-> 0] \in History
  BY DEF NoRow, Row, History
<1>3. TypeOK
  BY <1>2, CallShapes DEF Init, TypeOK, Sensible
<1> QED BY <1>1, <1>3, CallShapes DEF TypeInv

\* One call changed, into a well-formed state.
LEMMA CallsKept ==
  ASSUME TypeInv, NEW c \in Calls, NEW s, Sensible(s), call' = [call EXCEPT ![c] = s]
  PROVE  call' \in [Calls -> CallState] /\ \A d \in Calls : Sensible(call'[d])
BY DEF TypeInv, TypeOK, Sensible

LEMMA TypeStep ==
  ASSUME TypeInv, [Next]_vars
  PROVE  TypeInv'
<1>1. CASE \/ \E i \in Invoices : Create(i) \/ DayPasses(i)
           \/ \E w \in Sweeps : SweepRead(w) \/ SweepWrite(w)
  BY <1>1, OtherRowShape DEF TypeInv, TypeOK, Sensible
<1>2. ASSUME NEW c \in Calls, NEW i \in Invoices, Begins(c, i) PROVE TypeInv'
  BY <1>2, BeginShape, CallsKept DEF TypeInv, TypeOK, Sensible
<1>3. ASSUME NEW c \in Calls, EditWrite(c) PROVE TypeInv'
  <2>1. invoice' \in [Invoices -> Row] /\ call[c].inv \in Invoices
    BY <1>3, EditShape
  <2>2. PICK s \in {Idle, Announcing(call[c].inv, "issued")} : call' = [call EXCEPT ![c] = s]
    BY <1>3 DEF EditWrite
  <2>3. Sensible(s)
    BY <2>1, <2>2, CallShapes DEF Kinds
  <2> QED BY <1>3, <2>1, <2>2, <2>3, CallsKept DEF EditWrite, TypeInv, TypeOK, Sensible
<1>4. ASSUME NEW c \in Calls, MarkPaidWrite(c) \/ ConfirmWrite(c) \/ RejectWrite(c)
      PROVE  TypeInv'
  <2>1. invoice' \in [Invoices -> Row] /\ call[c].inv \in Invoices
    BY <1>4, MoveShape
  <2>2. history' \in [Invoices -> History]
    BY <1>4, HistoryShape
  <2>3. PICK k \in Kinds : call' = [call EXCEPT ![c] = Announcing(call[c].inv, k)]
    BY <1>4 DEF MarkPaidWrite, ConfirmWrite, RejectWrite, Kinds
  <2>4. call' \in [Calls -> CallState] /\ \A d \in Calls : Sensible(call'[d])
    BY <2>1, <2>3, CallShapes, CallsKept
  <2>5. UNCHANGED <<sweep, notices>>
    BY <1>4 DEF MarkPaidWrite, ConfirmWrite, RejectWrite
  <2> QED BY <2>1, <2>2, <2>4, <2>5 DEF TypeInv, TypeOK, Sensible
<1>5. ASSUME NEW c \in Calls, MoveLost(c) \/ Announce(c) PROVE TypeInv'
  <2>1. call' = [call EXCEPT ![c] = Idle] /\ UNCHANGED <<invoice, sweep, history>>
    BY <1>5 DEF MoveLost, Announce
  <2>2. call' \in [Calls -> CallState] /\ \A d \in Calls : Sensible(call'[d])
    BY <2>1, CallShapes, CallsKept
  <2>3. notices' \in [Invoices -> [Kinds -> Nat]]
    <3>1. CASE UNCHANGED notices
      BY <3>1 DEF TypeInv, TypeOK
    <3>2. CASE ~ UNCHANGED notices
      <4> DEFINE i == call[c].inv
                 k == call[c].kind
      <4>1. i \in Invoices /\ k \in Kinds
        BY <1>5, <3>2 DEF MoveLost, Announce, TypeInv, Sensible
      <4>2. notices' = [notices EXCEPT ![i] = [notices[i] EXCEPT ![k] = notices[i][k] + 1]]
        BY <1>5, <3>2 DEF MoveLost, Announce
      <4>3. [notices[i] EXCEPT ![k] = notices[i][k] + 1] \in [Kinds -> Nat]
        BY <4>1 DEF TypeInv, TypeOK
      <4> QED BY <4>1, <4>2, <4>3 DEF TypeInv, TypeOK
    <3> QED BY <3>1, <3>2
  <2> QED BY <2>1, <2>2, <2>3 DEF TypeInv, TypeOK, Sensible
<1>6. CASE UNCHANGED vars
  BY <1>6 DEF vars, TypeInv, TypeOK, Sensible
<1> QED BY <1>1, <1>2, <1>3, <1>4, <1>5, <1>6, StepCases

(***************************************************************************)
(* Every reachable state is well-typed: no race of edits, payments and the *)
(* sweep writes a status an invoice cannot have.                           *)
(***************************************************************************)
THEOREM TypeCorrect == Spec => []TypeOK
<1>1. Init => TypeInv
  BY TypeInit
<1>2. TypeInv /\ [Next]_vars => TypeInv'
  BY TypeStep
<1>3. TypeInv => TypeOK
  BY DEF TypeInv
<1> QED BY <1>1, <1>2, <1>3, PTL DEF Spec
-----------------------------------------------------------------------------
(***************************************************************************)
(* Dates.  The invariant is inductive: an edit never moves a row to or     *)
(* from AWAITING_CONFIRMATION, and the payment handlers write the status   *)
(* and its dates in one statement.                                         *)
(***************************************************************************)
LEMMA DatesStep ==
  ASSUME TypeInv, DatesMatchStatus, [Next]_vars
  PROVE  DatesMatchStatus'
<1>1. CASE \/ \E i \in Invoices : Create(i) \/ DayPasses(i)
           \/ \E w \in Sweeps : SweepRead(w) \/ SweepWrite(w)
  BY <1>1, OtherRowShape DEF DatesMatchStatus
<1>2. CASE UNCHANGED invoice
  BY <1>2 DEF DatesMatchStatus
<1>3. ASSUME NEW c \in Calls, EditWrite(c) PROVE DatesMatchStatus'
  <2>1. call[c].to # call[c].read => call[c].to # "AWAITING_CONFIRMATION"
    BY <1>3 DEF EditWrite, TypeInv, Sensible
  <2> QED BY <1>3, <2>1, EditShape DEF DatesMatchStatus
<1>4. ASSUME NEW c \in Calls, MarkPaidWrite(c) \/ ConfirmWrite(c) \/ RejectWrite(c)
      PROVE  DatesMatchStatus'
  BY <1>4, MoveShape DEF DatesMatchStatus
<1>5. ASSUME NEW c \in Calls, NEW i \in Invoices, Begins(c, i) PROVE UNCHANGED invoice
  BY <1>5, BeginShape
<1>6. ASSUME NEW c \in Calls, MoveLost(c) \/ Announce(c) PROVE UNCHANGED invoice
  BY <1>6 DEF MoveLost, Announce
<1> QED BY <1>1, <1>2, <1>3, <1>4, <1>5, <1>6, StepCases DEF vars

(***************************************************************************)
(* Whichever handlers write an invoice and in which order, a payment       *)
(* waiting for confirmation is reported and not rejected, and a PAID       *)
(* invoice has its payment date.                                           *)
(***************************************************************************)
THEOREM DatesAlwaysMatch == Spec => []DatesMatchStatus
<1>1. Init => TypeInv /\ DatesMatchStatus
  BY TypeInit DEF Init, NoRow, DatesMatchStatus
<1>2. (TypeInv /\ DatesMatchStatus) /\ [Next]_vars => (TypeInv /\ DatesMatchStatus)'
  BY TypeStep, DatesStep
<1> QED BY <1>1, <1>2, PTL DEF Spec
-----------------------------------------------------------------------------
(***************************************************************************)
(* The table of transitions.  What an edit checked when it loaded the row  *)
(* is kept in the call (Sensible); if the row still has that status, the   *)
(* write is a step of the table.                                           *)
(***************************************************************************)
LeavesTable(i) ==
  /\ invoice[i].status # "ABSENT"
  /\ ~ CanTransition(invoice[i].status, invoice'[i].status) \/ invoice'[i].late # invoice[i].late

LEMMA TableStep ==
  ASSUME TypeInv, [Next]_vars, NEW i \in Invoices, LeavesTable(i)
  PROVE  StaleEdit(i)
<1>0. ASSUME invoice'[i].status = invoice[i].status, invoice'[i].late = invoice[i].late
      PROVE  FALSE
  BY <1>0 DEF LeavesTable, CanTransition
<1>1. CASE \/ \E j \in Invoices : Create(j) \/ DayPasses(j)
           \/ \E w \in Sweeps : SweepRead(w) \/ SweepWrite(w)
  BY <1>0, <1>1, OtherRowShape DEF LeavesTable, CanTransition, Transitions
<1>2. ASSUME NEW c \in Calls, EditWrite(c) PROVE StaleEdit(i)
  <2>1. call[c].inv = i
    BY <1>0, <1>2, EditShape
  <2>2. call[c].pc = "editing" /\ call'[c].pc # "editing"
    BY <1>2 DEF EditWrite, Announcing, Idle, TypeInv, TypeOK
  <2>3. ASSUME call[c].read = invoice[i].status PROVE FALSE
    <3>1. CanTransition(call[c].read, call[c].to) /\ (call[c].content => call[c].read = "DRAFT")
      BY <2>2 DEF TypeInv, Sensible
    <3>2. invoice'[i].status = call[c].to
      BY <1>2, <2>1, <2>3, EditShape
    <3>3. invoice'[i].late = invoice[i].late
      BY <1>2, <2>1, <2>3, <3>1, EditShape
    <3> QED BY <2>3, <3>1, <3>2, <3>3 DEF LeavesTable
  <2> QED BY <2>1, <2>2, <2>3 DEF StaleEdit
<1>3. ASSUME NEW c \in Calls, MarkPaidWrite(c) \/ ConfirmWrite(c) \/ RejectWrite(c)
      PROVE  FALSE
  <2>1. call[c].inv = i
    BY <1>0, <1>3, MoveShape
  <2> QED BY <1>3, <2>1, MoveShape DEF LeavesTable, CanTransition, Transitions, Payable
<1>4. ASSUME NEW c \in Calls, NEW j \in Invoices, Begins(c, j) PROVE FALSE
  BY <1>0, <1>4, BeginShape
<1>5. ASSUME NEW c \in Calls, MoveLost(c) \/ Announce(c) PROVE FALSE
  BY <1>0, <1>5 DEF MoveLost, Announce
<1>6. ~ UNCHANGED vars
  BY <1>0 DEF vars
<1> QED BY <1>1, <1>2, <1>3, <1>4, <1>5, <1>6, StepCases

(***************************************************************************)
(* Payments, decisions, the sweep and the calendar move an invoice along   *)
(* the table of transitions only, and never touch the content of one that  *)
(* has left DRAFT; so does every edit whose row has not moved since it     *)
(* was loaded.                                                             *)
(***************************************************************************)
THEOREM OnlyStaleEditsEverBreakTheTable == Spec => OnlyStaleEditsBreakTheTable
<1>1. Init => TypeInv
  BY TypeInit
<1>2. TypeInv /\ [Next]_vars => TypeInv'
  BY TypeStep
<1>3. TypeInv /\ [Next]_vars =>
        [\A i \in Invoices :
           LET from == invoice[i].status
               to == invoice'[i].status
           IN  (from # "ABSENT" /\ (~ CanTransition(from, to) \/ invoice'[i].late # invoice[i].late))
                 => StaleEdit(i)]_vars
  BY TableStep DEF LeavesTable
<1> QED BY <1>1, <1>2, <1>3, PTL DEF Spec, OnlyStaleEditsBreakTheTable
-----------------------------------------------------------------------------
(***************************************************************************)
(* One decision per report.  A decision finds the row waiting (the read    *)
(* status is repeated in the write), so a report is still unanswered; and  *)
(* a call speaks of what it wrote once.                                    *)
(***************************************************************************)
Answered ==
  \A i \in Invoices :
    /\ history[i].confirmed + history[i].rejected <= history[i].reported
    /\ invoice[i].status = "AWAITING_CONFIRMATION" =>
         history[i].confirmed + history[i].rejected < history[i].reported

\* How often the change of kind k was made.
Made(i, k) == IF k = "marked" THEN history[i].reported
              ELSE IF k = "confirmed" THEN history[i].confirmed
              ELSE history[i].rejected

ToldOnce ==
  \A i \in Invoices, k \in Kinds \ {"issued"} : notices[i][k] + Pending(i, k) <= Made(i, k)

LEMMA DecisionParts == OneDecisionPerReport <=> Answered /\ ToldOnce
BY SMT DEF OneDecisionPerReport, Answered, ToldOnce, Made, Kinds

LEMMA AnsweredStep ==
  ASSUME TypeInv, Answered, [Next]_vars
  PROVE  Answered'
<1>0. \A i \in Invoices : /\ history[i].reported \in Nat
                          /\ history[i].confirmed \in Nat
                          /\ history[i].rejected \in Nat
  BY DEF TypeInv, TypeOK, History
<1>1. CASE \/ \E i \in Invoices : Create(i) \/ DayPasses(i)
           \/ \E w \in Sweeps : SweepRead(w) \/ SweepWrite(w)
  BY <1>1, OtherRowShape DEF Answered
<1>2. CASE UNCHANGED <<invoice, history>>
  BY <1>2 DEF Answered
<1>3. ASSUME NEW c \in Calls, EditWrite(c) PROVE Answered'
  <2>1. call[c].to # call[c].read => call[c].to # "AWAITING_CONFIRMATION"
    BY <1>3 DEF EditWrite, TypeInv, Sensible
  <2>2. UNCHANGED history
    BY <1>3 DEF EditWrite
  <2>3. \A i \in Invoices : invoice'[i].status = "AWAITING_CONFIRMATION"
                              => invoice[i].status = "AWAITING_CONFIRMATION"
    BY <1>3, <2>1, EditShape
  <2> QED BY <2>2, <2>3 DEF Answered
<1>4. ASSUME NEW c \in Calls, MarkPaidWrite(c) \/ ConfirmWrite(c) \/ RejectWrite(c)
      PROVE  Answered'
  <2>1. ASSUME NEW i \in Invoices, i # call[c].inv
        PROVE  invoice'[i] = invoice[i] /\ history'[i] = history[i]
    BY <1>4, <2>1, MoveShape, HistoryShape
  <2> DEFINE i == call[c].inv
  <2>2. CASE MarkPaidWrite(c)
    <3>1. history'[i].reported = history[i].reported + 1
          /\ history'[i].confirmed = history[i].confirmed
          /\ history'[i].rejected = history[i].rejected
      <4>1. ~ ConfirmWrite(c) /\ ~ RejectWrite(c)
        BY <2>2 DEF MarkPaidWrite, ConfirmWrite, RejectWrite
      <4> QED BY <1>0, <2>2, <4>1, MoveShape, HistoryShape
    <3> QED BY <1>0, <1>4, <2>1, <3>1, MoveShape DEF Answered
  <2>3. CASE ConfirmWrite(c) \/ RejectWrite(c)
    <3>1. /\ history'[i].reported = history[i].reported
          /\ history'[i].confirmed + history'[i].rejected
               = history[i].confirmed + history[i].rejected + 1
      <4>1. ~ MarkPaidWrite(c) /\ ~ (ConfirmWrite(c) /\ RejectWrite(c))
        BY <2>3 DEF MarkPaidWrite, ConfirmWrite, RejectWrite
      <4> QED BY <1>0, <2>3, <4>1, MoveShape, HistoryShape
    <3>2. /\ invoice[i].status = "AWAITING_CONFIRMATION"
          /\ invoice'[i].status # "AWAITING_CONFIRMATION"
      BY <2>3, MoveShape
    <3> QED BY <1>0, <1>4, <2>1, <3>1, <3>2, MoveShape DEF Answered
  <2> QED BY <1>4, <2>2, <2>3
<1>5. ASSUME NEW c \in Calls, NEW i \in Invoices, Begins(c, i)
      PROVE  UNCHANGED <<invoice, history>>
  BY <1>5, BeginShape
<1>6. ASSUME NEW c \in Calls, MoveLost(c) \/ Announce(c) PROVE UNCHANGED <<invoice, history>>
  BY <1>6 DEF MoveLost, Announce
<1> QED BY <1>1, <1>2, <1>3, <1>4, <1>5, <1>6, StepCases DEF vars

Speaks(s, i, k) == s.pc = "announcing" /\ s.inv = i /\ s.kind = k

LEMMA SpeechShapes ==
  /\ Idle.pc # "announcing"
  /\ \A i, k : /\ Announcing(i, k).pc = "announcing"
               /\ Announcing(i, k).inv = i
               /\ Announcing(i, k).kind = k
BY DEF Idle, Announcing

\* How the number of calls about to speak of (i, k) changes with one call.
LEMMA PendingChange ==
  ASSUME TypeInv, NEW c \in Calls, NEW s, call' = [call EXCEPT ![c] = s],
         NEW i \in Invoices, NEW k \in Kinds
  PROVE  /\ Pending(i, k) \in Nat
         /\ Pending(i, k)' \in Nat
         /\ Speaks(s, i, k) /\ ~ Speaks(call[c], i, k) => Pending(i, k)' = Pending(i, k) + 1
         /\ ~ Speaks(s, i, k) /\ Speaks(call[c], i, k) => Pending(i, k)' = Pending(i, k) - 1
         /\ ~ Speaks(s, i, k) /\ ~ Speaks(call[c], i, k) => Pending(i, k)' = Pending(i, k)
<1> DEFINE before == {d \in Calls : call[d].pc = "announcing" /\ call[d].inv = i /\ call[d].kind = k}
           after == {d \in Calls : call'[d].pc = "announcing" /\ call'[d].inv = i /\ call'[d].kind = k}
           rest == before \ {c}
<1>1. IsFiniteSet(before) /\ IsFiniteSet(rest)
  BY InvoicesAssumption, FS_Subset
<1>2. Pending(i, k) = Cardinality(before) /\ Pending(i, k)' = Cardinality(after)
  BY DEF Pending
<1>3. \A d \in Calls : call'[d] = IF d = c THEN s ELSE call[d]
  BY DEF TypeInv, TypeOK
<1>4. /\ before = IF Speaks(call[c], i, k) THEN rest \cup {c} ELSE rest
      /\ after = IF Speaks(s, i, k) THEN rest \cup {c} ELSE rest
  BY <1>3 DEF Speaks
<1>5. c \notin rest
  OBVIOUS
<1> HIDE DEF before, after, rest
<1>6. Cardinality(rest) \in Nat /\ Cardinality(rest \cup {c}) = Cardinality(rest) + 1
  BY <1>1, <1>5, FS_AddElement, FS_CardinalityType
<1> QED BY <1>2, <1>4, <1>6

LEMMA ToldStep ==
  ASSUME TypeInv, ToldOnce, [Next]_vars
  PROVE  ToldOnce'
<1>0. \A i \in Invoices, k \in Kinds :
        notices[i][k] \in Nat /\ (k # "issued" => Made(i, k) \in Nat)
  BY DEF TypeInv, TypeOK, History, Made, Kinds
<1>1. CASE UNCHANGED <<call, notices, history>>
  BY <1>1 DEF ToldOnce, Pending, Made
<1>2. ASSUME NEW c \in Calls, NEW s, call' = [call EXCEPT ![c] = s],
             s.pc = "announcing" => s.kind = "issued",
             UNCHANGED <<notices, history>>
      PROVE  ToldOnce'
  <2> SUFFICES ASSUME NEW i \in Invoices, NEW k \in Kinds \ {"issued"}
               PROVE  notices'[i][k] + Pending(i, k)' <= Made(i, k)'
    BY DEF ToldOnce
  <2>1. Pending(i, k) \in Nat /\ Pending(i, k)' \in Nat /\ Pending(i, k)' <= Pending(i, k)
    <3>1. ~ Speaks(s, i, k)
      BY <1>2 DEF Speaks
    <3>2. /\ Pending(i, k) \in Nat
          /\ Pending(i, k)' \in Nat
          /\ \/ Pending(i, k)' = Pending(i, k) - 1
             \/ Pending(i, k)' = Pending(i, k)
      BY <1>2, <3>1, PendingChange, Zenon
    <3> QED BY <3>2
  <2>2. Made(i, k)' = Made(i, k) /\ notices'[i][k] = notices[i][k]
    BY <1>2 DEF Made
  <2>3. notices[i][k] + Pending(i, k) <= Made(i, k)
    BY DEF ToldOnce
  <2> QED BY <1>0, <2>1, <2>2, <2>3
<1>3. ASSUME NEW c \in Calls, NEW i \in Invoices, Begins(c, i) PROVE ToldOnce'
  BY <1>3, <1>2, BeginShape
<1>4. ASSUME NEW c \in Calls, EditWrite(c) \/ MoveLost(c) PROVE ToldOnce'
  <2>1. PICK s \in {Idle, Announcing(call[c].inv, "issued")} : call' = [call EXCEPT ![c] = s]
    BY <1>4 DEF EditWrite, MoveLost
  <2>2. s.pc = "announcing" => s.kind = "issued"
    BY <2>1, SpeechShapes
  <2> QED BY <1>4, <1>2, <2>1, <2>2 DEF EditWrite, MoveLost
<1>5. ASSUME NEW c \in Calls, MarkPaidWrite(c) \/ ConfirmWrite(c) \/ RejectWrite(c)
      PROVE  ToldOnce'
  <2> DEFINE j == call[c].inv
             kind == IF MarkPaidWrite(c) THEN "marked"
                     ELSE IF ConfirmWrite(c) THEN "confirmed" ELSE "rejected"
  <2>1. /\ ~ (MarkPaidWrite(c) /\ ConfirmWrite(c))
        /\ ~ (MarkPaidWrite(c) /\ RejectWrite(c))
        /\ ~ (ConfirmWrite(c) /\ RejectWrite(c))
    BY DEF MarkPaidWrite, ConfirmWrite, RejectWrite
  <2>2. call' = [call EXCEPT ![c] = Announcing(j, kind)] /\ UNCHANGED notices
    BY <1>5, <2>1 DEF MarkPaidWrite, ConfirmWrite, RejectWrite
  <2> SUFFICES ASSUME NEW i \in Invoices, NEW k \in Kinds \ {"issued"}
               PROVE  notices'[i][k] + Pending(i, k)' <= Made(i, k)'
    BY DEF ToldOnce
  <2>3. Made(i, k)' = Made(i, k) + (IF i = j /\ k = kind THEN 1 ELSE 0)
    <3>1. CASE i = j
      BY <1>0, <1>5, <2>1, <3>1, HistoryShape DEF Made, Kinds, TypeInv, TypeOK, History
    <3>2. CASE i # j
      <4>1. history'[i] = history[i]
        BY <1>5, <3>2, HistoryShape
      <4> QED BY <1>0, <3>2, <4>1 DEF Made
    <3> QED BY <3>1, <3>2
  <2>4. ~ Speaks(call[c], i, k)
    BY <1>5 DEF Speaks, MarkPaidWrite, ConfirmWrite, RejectWrite
  <2>5. Speaks(Announcing(j, kind), i, k) <=> i = j /\ k = kind
    BY SpeechShapes DEF Speaks
  <2> HIDE DEF kind, j
  <2>6. /\ Pending(i, k) \in Nat /\ Pending(i, k)' \in Nat
        /\ i = j /\ k = kind => Pending(i, k)' = Pending(i, k) + 1
        /\ ~ (i = j /\ k = kind) => Pending(i, k)' = Pending(i, k)
    BY <2>2, <2>4, <2>5, PendingChange, Zenon
  <2>7. notices[i][k] + Pending(i, k) <= Made(i, k)
    BY DEF ToldOnce
  <2> QED BY <1>0, <2>2, <2>3, <2>6, <2>7
<1>6. ASSUME NEW c \in Calls, Announce(c) PROVE ToldOnce'
  <2> SUFFICES ASSUME NEW i \in Invoices, NEW k \in Kinds \ {"issued"}
               PROVE  notices'[i][k] + Pending(i, k)' <= Made(i, k)'
    BY DEF ToldOnce
  <2>1. call' = [call EXCEPT ![c] = Idle] /\ UNCHANGED history
    BY <1>6 DEF Announce
  <2>2. call[c].inv \in Invoices /\ call[c].kind \in Kinds /\ call[c].pc = "announcing"
    BY <1>6 DEF Announce, TypeInv, Sensible
  <2>3. /\ Pending(i, k) \in Nat /\ Pending(i, k)' \in Nat
        /\ Speaks(call[c], i, k) => Pending(i, k)' = Pending(i, k) - 1
        /\ ~ Speaks(call[c], i, k) => Pending(i, k)' = Pending(i, k)
    <3>1. ~ Speaks(Idle, i, k)
      BY SpeechShapes DEF Speaks
    <3> QED BY <2>1, <3>1, PendingChange, Zenon
  <2>4. notices'[i][k] \in {notices[i][k], notices[i][k] + (IF Speaks(call[c], i, k) THEN 1 ELSE 0)}
    BY <1>0, <1>6, <2>2 DEF Announce, Speaks, TypeInv, TypeOK
  <2>5. notices[i][k] + Pending(i, k) <= Made(i, k) /\ Made(i, k)' = Made(i, k)
    BY <2>1 DEF ToldOnce, Made
  <2> QED BY <1>0, <2>3, <2>4, <2>5
<1>7. CASE \/ \E i \in Invoices : Create(i) \/ DayPasses(i)
           \/ \E w \in Sweeps : SweepRead(w) \/ SweepWrite(w)
  BY <1>1, <1>7, OtherRowShape
<1> QED BY <1>1, <1>3, <1>4, <1>5, <1>6, <1>7, StepCases DEF vars

(***************************************************************************)
(* However members of staff, clients, edits and the sweep race, every      *)
(* confirmation and rejection answers a report of its own, and the people  *)
(* concerned are told of each report and decision at most once.            *)
(***************************************************************************)
THEOREM OneDecisionAlways == Spec => []OneDecisionPerReport
<1>1. Init => TypeInv /\ Answered /\ ToldOnce
  <2> SUFFICES ASSUME Init PROVE Answered /\ ToldOnce
    BY TypeInit
  <2>1. Answered
    BY DEF Init, NoRow, Answered
  <2>2. ASSUME NEW i \in Invoices, NEW k \in Kinds PROVE Pending(i, k) = 0
    <3>1. {c \in Calls : call[c].pc = "announcing" /\ call[c].inv = i /\ call[c].kind = k} = {}
      BY DEF Init, Idle
    <3> QED BY <3>1, FS_EmptySet DEF Pending
  <2>3. ToldOnce
    BY <2>2 DEF Init, ToldOnce, Made, Kinds
  <2> QED BY <2>1, <2>3
<1>2. (TypeInv /\ Answered /\ ToldOnce) /\ [Next]_vars => (TypeInv /\ Answered /\ ToldOnce)'
  BY TypeStep, AnsweredStep, ToldStep
<1>3. Answered /\ ToldOnce => OneDecisionPerReport
  BY DecisionParts
<1> QED BY <1>1, <1>2, <1>3, PTL DEF Spec
=============================================================================
