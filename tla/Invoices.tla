------------------------------ MODULE Invoices ------------------------------
(***************************************************************************)
(* Invoices and bank-transfer payments: InvoicesService.create / update,   *)
(* InvoicePaymentsService.markPaid / confirm / reject, and the sweep of    *)
(* RemindersService.overdueInvoices that marks invoices OVERDUE.           *)
(*                                                                         *)
(* Every handler reads the invoice, awaits, and writes it.  The payment    *)
(* handlers and the sweep repeat the status in the WHERE clause of the     *)
(* write; update does not, so whatever was written in between is           *)
(* overwritten.  The number of a new invoice is drawn as in Intake; an     *)
(* attempt that clashes writes nothing.  A process that dies is a call     *)
(* that is never resumed.  Who may make a request is not modelled.         *)
(***************************************************************************)
EXTENDS Naturals, FiniteSets

CONSTANTS
  Invoices,    \* invoice rows, created or not
  Calls,       \* HTTP requests the server may be working on at a time
  Sweeps,      \* runs of the reminders: the daily one, an admin's by hand
  MaxReports,  \* bound: times a client reports a payment of one invoice
  None

ASSUME InvoicesAssumption ==
  /\ MaxReports \in Nat
  /\ None \notin Invoices
  /\ IsFiniteSet(Calls)

VARIABLES
  invoice,   \* the rows
  call,      \* where each call stands, with what it read
  sweep,     \* the ids each run of the reminders has selected; {} before it has
  notices,   \* notifications created, per invoice and kind
  history    \* payments reported, confirmed and rejected so far

vars == <<invoice, call, sweep, notices, history>>

Statuses == {"DRAFT", "SENT", "AWAITING_CONFIRMATION", "PAID", "OVERDUE", "CANCELLED"}

\* INVOICE_STATUS_TRANSITIONS
Transitions ==
  [DRAFT |-> {"SENT", "CANCELLED"},
   SENT |-> {"AWAITING_CONFIRMATION", "PAID", "OVERDUE", "CANCELLED"},
   OVERDUE |-> {"AWAITING_CONFIRMATION", "PAID", "CANCELLED"},
   AWAITING_CONFIRMATION |-> {"PAID", "SENT"},
   PAID |-> {},
   CANCELLED |-> {}]

CanTransition(from, to) == from = to \/ to \in Transitions[from]

Payable == {"SENT", "OVERDUE"}
Kinds == {"issued", "marked", "confirmed", "rejected"}

Row ==
  [status : Statuses \cup {"ABSENT"},
   late : BOOLEAN,       \* the content was changed after the row left DRAFT
   paidAt : BOOLEAN,     \* paidAt and confirmedById, always written together
   markedAt : BOOLEAN,   \* paymentMarkedAt
   rejectedAt : BOOLEAN, \* paymentRejectedAt and paymentRejectionReason
   pastDue : BOOLEAN]    \* dueDate is before today

CallState ==
  [pc : {"idle", "editing", "marking", "deciding", "announcing"},
   inv : Invoices \cup {None},
   read : Statuses \cup {None},      \* the status the handler loaded
   to : Statuses \cup {None},        \* the status it is about to write
   content : BOOLEAN,                \* the edit changes amount, description or due date
   kind : Kinds \cup {None}]         \* the notice it is about to create

History == [reported : Nat, confirmed : Nat, rejected : Nat]

TypeOK ==
  /\ invoice \in [Invoices -> Row]
  /\ call \in [Calls -> CallState]
  /\ sweep \in [Sweeps -> SUBSET Invoices]
  /\ notices \in [Invoices -> [Kinds -> Nat]]
  /\ history \in [Invoices -> History]

Idle == [pc |-> "idle", inv |-> None, read |-> None, to |-> None,
         content |-> FALSE, kind |-> None]

Loaded(pc, i, to) ==
  [Idle EXCEPT !.pc = pc, !.inv = i, !.read = invoice[i].status, !.to = to]

Announcing(i, k) == [Idle EXCEPT !.pc = "announcing", !.inv = i, !.kind = k]

NoRow == [status |-> "ABSENT", late |-> FALSE, paidAt |-> FALSE,
          markedAt |-> FALSE, rejectedAt |-> FALSE, pastDue |-> FALSE]

Init ==
  /\ invoice = [i \in Invoices |-> NoRow]
  /\ call = [c \in Calls |-> Idle]
  /\ sweep = [w \in Sweeps |-> {}]
  /\ notices = [i \in Invoices |-> [k \in Kinds |-> 0]]
  /\ history = [i \in Invoices |-> [reported |-> 0, confirmed |-> 0, rejected |-> 0]]
-----------------------------------------------------------------------------
Exists(i) == invoice[i].status # "ABSENT"

Create(i) ==
  /\ ~ Exists(i)
  /\ invoice' = [invoice EXCEPT ![i].status = "DRAFT"]
  /\ UNCHANGED <<call, sweep, notices, history>>

\* Fault: an edit without a status is taken to change it.
EditReadUndefined(c, i, to, content) ==
  LET from == invoice[i].status
  IN  /\ call[c] = Idle
      /\ Exists(i)
      /\ CanTransition(from, to)
      /\ content => from = "DRAFT"
      /\ call' = [call EXCEPT ![c] =
                    [Loaded("editing", i, IF to = from THEN None ELSE to) EXCEPT !.content = content]]
      /\ UNCHANGED <<invoice, sweep, notices, history>>

(***************************************************************************)
(* PATCH /invoices/:id.  `to` is the status asked for (the loaded one if   *)
(* the body has none), `content` whether the body changes anything else.   *)
(***************************************************************************)
EditRead(c, i, to, content) ==
  LET from == invoice[i].status
  IN  /\ call[c] = Idle
      /\ Exists(i)
      /\ CanTransition(from, to)
      /\ to # from => "AWAITING_CONFIRMATION" \notin {from, to}
      /\ content => from = "DRAFT"
      /\ to # from \/ content     \* an edit that writes nothing is left out
      /\ call' = [call EXCEPT ![c] = [Loaded("editing", i, to) EXCEPT !.content = content]]
      /\ UNCHANGED <<invoice, sweep, notices, history>>

\* The row after the edit e; a new due date may lie in the past or not.
EditedRow(row, e, past) ==
  LET changed == e.to # e.read
  IN  [row EXCEPT !.status = IF changed THEN e.to ELSE row.status,
                  !.paidAt = row.paidAt \/ (changed /\ e.to = "PAID"),
                  !.late = row.late \/ (e.content /\ row.status # "DRAFT"),
                  !.pastDue = past]

\* The write of update: by id alone, whatever the row says by now.
EditWrite(c) ==
  LET e == call[c]
      i == e.inv
  IN  /\ e.pc = "editing"
      /\ \E past \in IF e.content THEN BOOLEAN ELSE {invoice[i].pastDue} :
           invoice' = [invoice EXCEPT ![i] = EditedRow(invoice[i], e, past)]
      /\ call' = [call EXCEPT ![c] = IF e.to # e.read /\ e.to = "SENT"
                                     THEN Announcing(i, "issued") ELSE Idle]
      /\ UNCHANGED <<sweep, notices, history>>

(***************************************************************************)
(* Payments.  move is an updateMany on the loaded status: 409, and nothing *)
(* written, when the row has left that status.                             *)
(***************************************************************************)
MarkPaidRead(c, i) ==
  /\ call[c] = Idle
  /\ Exists(i)
  /\ invoice[i].status \in Payable
  /\ history[i].reported < MaxReports
  /\ call' = [call EXCEPT ![c] = Loaded("marking", i, "AWAITING_CONFIRMATION")]
  /\ UNCHANGED <<invoice, sweep, notices, history>>

\* confirm goes to PAID, reject to SENT.
DecisionRead(c, i, to) ==
  /\ call[c] = Idle
  /\ invoice[i].status = "AWAITING_CONFIRMATION"
  /\ to \in {"PAID", "SENT"}
  /\ call' = [call EXCEPT ![c] = Loaded("deciding", i, to)]
  /\ UNCHANGED <<invoice, sweep, notices, history>>

MoveLost(c) ==
  /\ call[c].pc \in {"marking", "deciding"}
  /\ invoice[call[c].inv].status # call[c].read
  /\ call' = [call EXCEPT ![c] = Idle]
  /\ UNCHANGED <<invoice, sweep, notices, history>>

\* Fault: reporting again leaves the old rejection on the invoice.
MarkPaidWriteKeeping(c) ==
  LET i == call[c].inv
  IN  /\ call[c].pc = "marking"
      /\ invoice[i].status = call[c].read
      /\ invoice' = [invoice EXCEPT ![i] = [invoice[i] EXCEPT
           !.status = "AWAITING_CONFIRMATION", !.markedAt = TRUE]]
      /\ history' = [history EXCEPT ![i].reported = @ + 1]
      /\ call' = [call EXCEPT ![c] = Announcing(i, "marked")]
      /\ UNCHANGED <<sweep, notices>>

MarkPaidWrite(c) ==
  LET i == call[c].inv
  IN  /\ call[c].pc = "marking"
      /\ invoice[i].status = call[c].read
      /\ history[i].reported < MaxReports
      /\ invoice' = [invoice EXCEPT ![i] = [invoice[i] EXCEPT
           !.status = "AWAITING_CONFIRMATION", !.markedAt = TRUE, !.rejectedAt = FALSE]]
      /\ history' = [history EXCEPT ![i].reported = @ + 1]
      /\ call' = [call EXCEPT ![c] = Announcing(i, "marked")]
      /\ UNCHANGED <<sweep, notices>>

\* Fault: confirm writes by id, without the status it loaded.
ConfirmWriteUnguarded(c) ==
  LET i == call[c].inv
  IN  /\ call[c].pc = "deciding" /\ call[c].to = "PAID"
      /\ invoice' = [invoice EXCEPT ![i] = [invoice[i] EXCEPT !.status = "PAID", !.paidAt = TRUE]]
      /\ history' = [history EXCEPT ![i].confirmed = @ + 1]
      /\ call' = [call EXCEPT ![c] = Announcing(i, "confirmed")]
      /\ UNCHANGED <<sweep, notices>>

ConfirmWrite(c) ==
  LET i == call[c].inv
  IN  /\ call[c].pc = "deciding" /\ call[c].to = "PAID"
      /\ invoice[i].status = call[c].read
      /\ invoice' = [invoice EXCEPT ![i] = [invoice[i] EXCEPT !.status = "PAID", !.paidAt = TRUE]]
      /\ history' = [history EXCEPT ![i].confirmed = @ + 1]
      /\ call' = [call EXCEPT ![c] = Announcing(i, "confirmed")]
      /\ UNCHANGED <<sweep, notices>>

RejectWrite(c) ==
  LET i == call[c].inv
  IN  /\ call[c].pc = "deciding" /\ call[c].to = "SENT"
      /\ invoice[i].status = call[c].read
      /\ invoice' = [invoice EXCEPT ![i] = [invoice[i] EXCEPT
           !.status = "SENT", !.paidAt = FALSE, !.rejectedAt = TRUE]]
      /\ history' = [history EXCEPT ![i].rejected = @ + 1]
      /\ call' = [call EXCEPT ![c] = Announcing(i, "rejected")]
      /\ UNCHANGED <<sweep, notices>>

\* The notification of the change just written; the insert may fail.
Announce(c) ==
  /\ call[c].pc = "announcing"
  /\ \/ notices' = [notices EXCEPT ![call[c].inv][call[c].kind] = @ + 1]
     \/ UNCHANGED notices
  /\ call' = [call EXCEPT ![c] = Idle]
  /\ UNCHANGED <<invoice, sweep, history>>
-----------------------------------------------------------------------------
(***************************************************************************)
(* The overdue sweep: select the ids of SENT invoices past their due date, *)
(* then one updateMany with the same conditions.  Its notices are left to  *)
(* the reminders.                                                          *)
(***************************************************************************)
\* Fault: an invoice whose payment was rejected is not looked at again.
OverdueOnce == {i \in Invoices : /\ invoice[i].status = "SENT" /\ invoice[i].pastDue
                                 /\ ~ invoice[i].rejectedAt}

Overdue == {i \in Invoices : invoice[i].status = "SENT" /\ invoice[i].pastDue}

SweepRead(w) ==
  /\ sweep[w] = {}
  /\ sweep' = [sweep EXCEPT ![w] = Overdue]
  /\ UNCHANGED <<invoice, call, notices, history>>

\* Fault: the second query trusts the ids of the first.
SweepWriteTrusting(w) ==
  /\ sweep[w] # {}
  /\ invoice' = [i \in Invoices |-> IF i \in sweep[w]
                                    THEN [invoice[i] EXCEPT !.status = "OVERDUE"]
                                    ELSE invoice[i]]
  /\ sweep' = [sweep EXCEPT ![w] = {}]
  /\ UNCHANGED <<call, notices, history>>

SweepWrite(w) ==
  /\ sweep[w] # {}
  /\ invoice' = [i \in Invoices |-> IF i \in sweep[w] \cap Overdue
                                    THEN [invoice[i] EXCEPT !.status = "OVERDUE"]
                                    ELSE invoice[i]]
  /\ sweep' = [sweep EXCEPT ![w] = {}]
  /\ UNCHANGED <<call, notices, history>>

\* The due date of an invoice passes.
DayPasses(i) ==
  /\ Exists(i)
  /\ ~ invoice[i].pastDue
  /\ invoice' = [invoice EXCEPT ![i].pastDue = TRUE]
  /\ UNCHANGED <<call, sweep, notices, history>>

Resume(c) ==
  \/ EditWrite(c) \/ MoveLost(c) \/ MarkPaidWrite(c)
  \/ ConfirmWrite(c) \/ RejectWrite(c) \/ Announce(c)

Next ==
  \/ \E i \in Invoices : Create(i) \/ DayPasses(i)
  \/ \E c \in Calls, i \in Invoices :
       \/ \E to \in Statuses, content \in BOOLEAN : EditRead(c, i, to, content)
       \/ MarkPaidRead(c, i)
       \/ \E to \in {"PAID", "SENT"} : DecisionRead(c, i, to)
  \/ \E c \in Calls : Resume(c)
  \/ \E w \in Sweeps : SweepRead(w) \/ SweepWrite(w)

Spec == Init /\ [][Next]_vars

\* The daily job runs again and again, and its queries are answered.
Fairness == \A w \in Sweeps : WF_vars(SweepRead(w)) /\ WF_vars(SweepWrite(w))

FairSpec == Spec /\ Fairness
-----------------------------------------------------------------------------
(***************************************************************************)
(* The dates on a row tell its story: a payment waiting for confirmation   *)
(* was reported and the report not rejected, and a PAID invoice has a      *)
(* payment date, whichever handlers wrote the row and in which order.      *)
(***************************************************************************)
DatesMatchStatus ==
  \A i \in Invoices :
    /\ invoice[i].status = "AWAITING_CONFIRMATION" =>
         invoice[i].markedAt /\ ~ invoice[i].rejectedAt
    /\ invoice[i].status = "PAID" => invoice[i].paidAt

Pending(i, k) ==
  Cardinality({c \in Calls : call[c].pc = "announcing" /\ call[c].inv = i /\ call[c].kind = k})

(***************************************************************************)
(* Every decision answers a report of its own: two members of staff who    *)
(* confirm and reject at the same time never both win, a reported payment  *)
(* still waits for its decision while the row says so, and the client and  *)
(* the staff are told of each report and each decision at most once.       *)
(***************************************************************************)
OneDecisionPerReport ==
  \A i \in Invoices :
    LET h == history[i]
        decided == h.confirmed + h.rejected
        told(k, n) == notices[i][k] + Pending(i, k) <= n
    IN  /\ decided <= h.reported
        /\ invoice[i].status = "AWAITING_CONFIRMATION" => decided < h.reported
        /\ told("marked", h.reported)
        /\ told("confirmed", h.confirmed)
        /\ told("rejected", h.rejected)

\* A call writes row i on the strength of a status the row no longer has.
StaleEdit(i) ==
  \E c \in Calls :
    /\ call[c].pc = "editing" /\ call'[c].pc # "editing"
    /\ call[c].inv = i /\ call[c].read # invoice[i].status

(***************************************************************************)
(* Whatever runs beside whatever, a row leaves a status only the way       *)
(* INVOICE_STATUS_TRANSITIONS allows, and its content is changed only      *)
(* while it is a DRAFT - except by an edit that loaded the row before its  *)
(* last change of status: update is the one unguarded write, the payment   *)
(* handlers and the sweep can never break the table.                       *)
(***************************************************************************)
OnlyStaleEditsBreakTheTable ==
  [][\A i \in Invoices :
       LET from == invoice[i].status
           to == invoice'[i].status
       IN  (from # "ABSENT" /\ (~ CanTransition(from, to) \/ invoice'[i].late # invoice[i].late))
             => StaleEdit(i)]_vars

(***************************************************************************)
(* An invoice past its due date does not stay SENT for good: whatever else *)
(* happens to it, the daily sweep takes it if nobody else does, also after *)
(* a rejected payment has put it back to SENT.                             *)
(***************************************************************************)
OverdueIsNoticed ==
  \A i \in Invoices :
    LET late == invoice[i].status = "SENT" /\ invoice[i].pastDue
    IN  late ~> ~ late

(***************************************************************************)
(* "PAID and CANCELLED are final" (schemas/invoices.ts:36), "PAID is       *)
(* final" (invoices.service.ts:109).                                       *)
(***************************************************************************)
PaidIsFinal ==
  [][\A i \in Invoices :
       invoice[i].status \in {"PAID", "CANCELLED"} => invoice'[i].status = invoice[i].status]_vars
=============================================================================
