------------------------------ MODULE Endpoints ------------------------------
(***************************************************************************)
(* What the endpoints of the API tell, and what they change: the facts.    *)
(* A fact in the singular is what a row says ("task"), in the plural which *)
(* rows there are ("tasks").  Names of related rows are left out, so a     *)
(* change of somebody's name is a change of "client" or "lawyer" only.     *)
(*                                                                         *)
(* A write may be taken for some rows only: by their status, by who asks,  *)
(* or by both.  What it checks besides (a form, a free name) is left out;  *)
(* so are the notices and letters it leads to, which go to others.         *)
(***************************************************************************)
Write(changes, rows) == [changes |-> changes, takes |-> rows]
Always(changes) == Write(changes, {})     \* for every row
-----------------------------------------------------------------------------
\* Cases: who asks and whether the case is closed; the other statuses are alike.
CaseRows == {"ADMIN", "LEAD", "MEMBER"} \X {"OPEN", "CLOSED"}
Leading == {"ADMIN", "LEAD"} \X {"OPEN", "CLOSED"}

CaseList == {"case", "cases", "events", "documents", "invoices"}
CaseDetail == {"case", "team", "events", "documents", "invoices"}
CaseForClient == CaseDetail \ {"team"}
Events == {"event", "events"}
CreateCase == Always({"cases"})
UpdateStatus == Write({"case", "events"}, Leading)
UpdateCase == Write({"case", "team"}, Leading)
CloseCase == Write({"case", "events"}, {r \in Leading : r[2] # "CLOSED"})
CreateEvent == Always({"events"})
\* With a type, as the form sends it.
UpdateEvent == Write({"event"}, {"MANUAL"})
RemoveEvent == Always({"events"})

\* Members of the team: a lawyer may be deactivated and stay one.
MemberRows == {"LEAD", "LAWYER", "LAWYER_GONE", "ADMIN"}
Members == {"team"}
Candidates == {"team", "lawyers"}
AddMember == Always({"case", "team"})
Promote == Write({"case", "team"}, {"LAWYER"})
RemoveMember == Write({"team"}, MemberRows \ {"LEAD"})

Documents == {"documents"}
\* By who asks about the document.
Upload == Always({"documents"})
RemoveDocument == Write({"documents", "files"}, {"ADMIN", "UPLOADER"})
-----------------------------------------------------------------------------
\* Document requests: the status and whether files came in.
DocRequestRows ==
  {r \in {"PENDING", "SUBMITTED", "UNDER_REVIEW", "APPROVED", "REJECTED"} \X {"FILES", "NONE"} :
     (r[1] = "PENDING") => (r[2] = "NONE")}
Waiting == {r \in DocRequestRows : r[1] \in {"PENDING", "REJECTED"}}

DocRequests == {"docRequest", "docRequests", "files"}
DocRequestSummary == {"docRequest", "docRequests"}
AskDocuments == Write({"docRequests"}, {r \in CaseRows : r[2] # "CLOSED"})
UpdateDocRequest == Write({"docRequest"}, Waiting)
RemoveDocRequest == Write({"docRequests"}, {r \in DocRequestRows : r[2] = "NONE"})
Submit == Write({"docRequest", "documents", "files"}, Waiting)
StartReview == Write({"docRequest"}, {r \in DocRequestRows : r[1] = "SUBMITTED"})
Decide == Write({"docRequest"}, {r \in DocRequestRows : r[1] \in {"SUBMITTED", "UNDER_REVIEW"}})
-----------------------------------------------------------------------------
\* Invoices, by status.
Transitions == [DRAFT |-> {"SENT", "CANCELLED"},
                SENT |-> {"AWAITING_CONFIRMATION", "PAID", "OVERDUE", "CANCELLED"},
                OVERDUE |-> {"AWAITING_CONFIRMATION", "PAID", "CANCELLED"},
                AWAITING_CONFIRMATION |-> {"PAID", "SENT"},
                PAID |-> {}, CANCELLED |-> {}]
Payable == {"SENT", "OVERDUE"}

Invoices == {"invoice", "invoices"}
Invoice == {"invoice"}
PaymentSummary == {"invoice"}
CreateInvoice == Always({"invoices"})
\* A status may be set again; a report is answered by other endpoints.
SetStatus(s) ==
  Write({"invoice"}, {r \in DOMAIN Transitions : r = s \/ s \in Transitions[r]} \ {"AWAITING_CONFIRMATION"})
UpdateInvoice == Write({"invoice"}, {"DRAFT"})
ReportPayment == Write({"invoice"}, Payable)
AnswerReport == Write({"invoice"}, {"AWAITING_CONFIRMATION"})
-----------------------------------------------------------------------------
\* Service requests, by status.
Requests == {"request", "requests"}
Request == {"request"}
RequestSummary == {"request", "requests"}
MyRequests == {"request", "requests"}
SuggestedLawyers == {"case", "cases", "profile", "lawyers"}
CreateRequest == Always({"requests"})
AcceptRequest == Write({"request"}, {"NEW"})
RejectRequest == Write({"request"}, {"NEW", "ACCEPTED"})
AssignRequest == Write({"request", "cases"}, {"ACCEPTED"})
-----------------------------------------------------------------------------
\* Tasks: who asks, and the status.
Parties == {"ADMIN", "CREATOR", "ASSIGNEE", "TEAM"}
TaskRows == Parties \X {"TODO", "IN_PROGRESS", "REVIEW", "DONE", "CANCELLED"}
NextStatuses == [TODO |-> {"IN_PROGRESS", "CANCELLED"}, IN_PROGRESS |-> {"TODO", "REVIEW", "CANCELLED"},
                 REVIEW |-> {"IN_PROGRESS", "DONE", "CANCELLED"}, DONE |-> {"CANCELLED"}, CANCELLED |-> {}]
Editable == {r \in TaskRows : r[1] \in {"ADMIN", "CREATOR"}}

Tasks == {"task", "tasks", "comments"}
Task == {"task", "comments"}
MyTasks == {"task", "tasks"}
Attachments == {"attachments"}
CreateTask == Always({"tasks"})
MoveTask(s) == Write({"task"}, {r \in TaskRows : r[1] # "TEAM" /\ s \in NextStatuses[r[2]]})
UpdateTask == Write({"task"}, Editable)
RemoveTask == Write({"tasks"}, Editable)
AddComment == Always({"comments"})
Attach == Always({"attachments"})
RemoveAttachment == Write({"attachments"}, {"ADMIN", "UPLOADER"})
-----------------------------------------------------------------------------
\* Accounts, of clients and of lawyers: a list tells who there is and who is active.
Kinds == [client |-> "clients", lawyer |-> "lawyers"]
Clients == {"client", "clients"}
Client == {"client", "invite"}
Lawyers == {"lawyer", "lawyers", "profile"}
Lawyer == {"lawyer", "profile"}
CreateUser(who) == Always({Kinds[who]})
UpdateUser(who) == Always({who})
SetActive(who) == Always({who, Kinds[who]})
SaveProfile == Always({"profile"})
Invite == Always({"invite"})
Me == {"me"}
UpdateMe(who) == Always({"me", who})
ChangePassword == Always({})
MailLog == {"mail"}

\* The counts of the dashboard, and of the work done.
Stats == {"case", "cases", "event", "events", "invoice", "invoices", "lawyers", "request"}
Overview == {"task", "tasks", "lawyers"}
ByUser == {"task", "tasks", "team", "cases", "lawyer", "lawyers"}
UserDetail == ByUser
Timeline == {"task", "tasks"}
-----------------------------------------------------------------------------
\* Messages and notices.  Of the messages one reads those of the other side
\* only, so sending changes no count of unread ones.
Messages == {"messages", "read"}
UnreadCount == {"read"}
UnreadSummary == {"read"}
ConversationList == {"messages", "read"}
SendMessage == Always({"messages"})
ReadMessages == Always({"read"})
Notices == {"notices"}
UnreadNotices == {"notices"}
ReadNotice == Always({"notices"})
ReadAllNotices == Always({"notices"})
-----------------------------------------------------------------------------
\* What the public sees, as its editors do.
Posts == {"post", "posts"}
Post == {"post"}
CreatePost == Always({"posts"})
UpdatePost == Always({"post"})
RemovePost == Always({"posts"})

Testimonials == {"testimonial", "testimonials"}
MyTestimonials == {"testimonial", "testimonials"}
WriteTestimonial == Write({"testimonials"}, {"CLOSED"})
EnterTestimonial == Always({"testimonials"})
UpdateTestimonial == Always({"testimonial"})
RemoveTestimonial == Always({"testimonials"})
RevokeConsent == Always({"testimonial"})

BankAccount == {"bank"}
Firm == {"firm"}
UpdateBankAccount == Always({"bank"})
UpdateFirm == Always({"firm"})
OldMessages == {"contact"}
=============================================================================
