---------------------------- MODULE StaffScreens ----------------------------
(***************************************************************************)
(* The screens of the admin panel.  A modal belongs to the screen it opens *)
(* on, and what it shows to what that screen shows.                        *)
(***************************************************************************)
EXTENDS SharedScreens
-----------------------------------------------------------------------------
\* What is kept, by the hooks and pages that ask for it.
Case == Kept(<<"admin", "case">>, Api!CaseDetail)
CaseEvents == Kept(<<"admin", "case", "events">>, Api!Events)
CaseDocuments == Kept(<<"admin", "case", "documents">>, Api!Documents)
CaseRequests == Kept(<<"admin", "case", "document-requests">>, Api!DocRequests)
CaseMembers == Kept(<<"admin", "case", "members">>, Api!Members)
MemberCandidates == Kept(<<"admin", "case", "member-candidates">>, Api!Candidates)
CaseInvoices == Kept(<<"admin", "invoices", "case">>, Api!Invoices)
CaseTasks == Kept(<<"tasks", "list", "case">>, Api!Tasks)

Stats == Kept(<<"admin", "stats">>, Api!Stats)
NewestRequests == Kept(<<"service-requests", "admin", "dashboard">>, Api!Requests)
NewestCases == Kept(<<"admin", "cases", "newest">>, Api!CaseList)
Cases == Kept(<<"admin", "cases", "list">>, Api!CaseList)
CasesToBill == Kept(<<"admin", "cases", "invoice-options">>, Api!CaseList)
CasesForTasks == Kept(<<"admin", "cases", "task-options">>, Api!CaseList)
ClientCases == Kept(<<"admin", "cases", "client">>, Api!CaseList)

Invoices == Kept(<<"admin", "invoices", "list">>, Api!Invoices)
Invoice == Kept(<<"admin", "invoice">>, Api!Invoice)
PaymentSummary == Kept(<<"invoices", "payment-summary">>, Api!PaymentSummary)

Tasks == Kept(<<"tasks", "list", "all">>, Api!Tasks)
Task == Kept(<<"tasks", "detail">>, Api!Task)
TaskFiles == Kept(<<"tasks", "attachments">>, Api!Attachments)
MyTasks == Kept(<<"tasks", "my-summary">>, Api!MyTasks)

Requests == Kept(<<"service-requests", "admin", "list">>, Api!Requests)
Request == Kept(<<"service-requests", "detail">>, Api!Request)
Suggested == Kept(<<"service-requests", "detail", "suggested-lawyers">>, Api!SuggestedLawyers)
RequestSummary == Kept(<<"service-requests", "summary">>, Api!RequestSummary)
OldMessages == Kept(<<"admin", "contact", "legacy">>, Api!OldMessages)

ClientOptions == Kept(<<"admin", "users", "clients">>, Api!Clients)
LawyerOptions == Kept(<<"admin", "users", "lawyers">>, Api!Lawyers)
StaffOptions == Kept(<<"admin", "users", "staff">>, Api!Lawyers)
Clients == Kept(<<"admin", "users", "client list">>, Api!Clients)
Lawyers == Kept(<<"admin", "users", "lawyer list">>, Api!Lawyers)
Client == Kept(<<"admin", "user">>, Api!Client)
Lawyer == Kept(<<"admin", "lawyer">>, Api!Lawyer)

Posts == Kept(<<"admin", "posts">>, Api!Posts)
Post == Kept(<<"admin", "post">>, Api!Post)
Testimonials == Kept(<<"testimonials", "admin">>, Api!Testimonials)
Notices == Kept(<<"notifications", "list", "page">>, Api!Notices)
MailLog == Kept(<<"admin", "mail-log">>, Api!MailLog)
Firm == Kept(<<"settings", "firm">>, Api!Firm)
WorkOverview == Kept(<<"performance", "overview">>, Api!Overview)
WorkByUser == Kept(<<"performance", "by-user">>, Api!ByUser)
WorkTimeline == Kept(<<"performance", "timeline">>, Api!Timeline)
WorkOfUser == Kept(<<"performance", "user">>, Api!UserDetail)
-----------------------------------------------------------------------------
\* A case and its tabs.  All presses renew the same: "everything that shows
\* data of one case", says useInvalidateCase.
OfOneCase ==
  {<<"admin", "case">>, <<"admin", "cases">>, <<"admin", "invoices">>, <<"admin", "stats">>,
   <<"document-requests", "summary">>}

Leaders == {"ADMIN", "LEAD"} \X {"OPEN", "CLOSED"}
Statuses == On(Press(Api!UpdateStatus, OfOneCase), Case, Leaders)
CloseCase == On(Press(Api!CloseCase, OfOneCase), Case, {r \in Leaders : r[2] = "OPEN"})
CaseHeader == Screen({Case, CaseRequests, CaseUnread}, {Statuses, CloseCase})

SaveOverview == On(Press(Api!UpdateCase, OfOneCase), Case, Leaders)
OverviewTab == Screen({LawyerOptions}, {SaveOverview})

AddEvent == Press(Api!CreateEvent, OfOneCase)
EditEvent == On(Press(Api!UpdateEvent, OfOneCase), CaseEvents, {"MANUAL"})
RemoveEvent == Press(Api!RemoveEvent, OfOneCase)
TimelineTab == Screen({CaseEvents}, {AddEvent, EditEvent, RemoveEvent})

UploadDocument == Press(Api!Upload, OfOneCase)
RemoveDocument == On(Press(Api!RemoveDocument, OfOneCase), CaseDocuments, {"ADMIN", "UPLOADER"})
DocumentsTab == Screen({CaseDocuments}, {UploadDocument, RemoveDocument})

\* Fault: a closed case is asked for documents.
AskDocumentsOfAny == On(Press(Api!AskDocuments, OfOneCase), Case, {"ADMIN", "LEAD", "MEMBER"} \X {"OPEN", "CLOSED"})
AskDocuments == On(Press(Api!AskDocuments, OfOneCase), Case, {"ADMIN", "LEAD", "MEMBER"} \X {"OPEN"})
Awaited == {"PENDING", "REJECTED"} \X {"FILES", "NONE"} \ {<<"PENDING", "FILES">>}
EditDocRequest == On(Press(Api!UpdateDocRequest, OfOneCase), CaseRequests, Awaited)
RemoveDocRequest == On(Press(Api!RemoveDocRequest, OfOneCase), CaseRequests, {r \in Awaited : r[2] = "NONE"})
Reviewable == {"SUBMITTED", "UNDER_REVIEW"} \X {"FILES", "NONE"}
StartReview == On(Press(Api!StartReview, OfOneCase), CaseRequests, {r \in Reviewable : r[1] = "SUBMITTED"})
Approve == On(Press(Api!Decide, OfOneCase), CaseRequests, Reviewable)
SendBack == On(Press(Api!Decide, OfOneCase), CaseRequests, Reviewable)
DocumentRequestsTab == Screen({}, {AskDocuments, EditDocRequest, RemoveDocRequest, StartReview, Approve, SendBack})

\* The actions under an invoice, on whatever page it is: the page renews.
InvoiceActions(k, renews) ==
  {On(Press(Api!SetStatus(s), renews), k,
      {r \in {"DRAFT", "SENT", "OVERDUE"} : s \in Api!Transitions[r]}) :
     s \in {"SENT", "PAID", "OVERDUE", "CANCELLED"}}
EnterInvoice(renews) == Press(Api!CreateInvoice, renews)
EditInvoice(k, renews) == On(Press(Api!UpdateInvoice, renews), k, {"DRAFT"})
InvoicesTab == Screen({CaseInvoices}, InvoiceActions(CaseInvoices, OfOneCase) \cup {EnterInvoice(OfOneCase)})

AddMember == Press(Api!AddMember, OfOneCase)
Promote == On(Press(Api!Promote, OfOneCase), CaseMembers, {"LAWYER", "LAWYER_GONE"})
RemoveMember == On(Press(Api!RemoveMember, OfOneCase), CaseMembers, {"LAWYER", "LAWYER_GONE", "ADMIN"})
TeamTab == Screen({CaseMembers, MemberCandidates}, {AddMember, Promote, RemoveMember})
-----------------------------------------------------------------------------
\* Tasks.
EveryTask == {<<"tasks">>}
Movers == {"ADMIN", "CREATOR", "ASSIGNEE"}
MoveTask(k) ==
  {On(Press(Api!MoveTask(s), EveryTask), k, {r \in Movers \X DOMAIN Api!NextStatuses : s \in Api!NextStatuses[r[2]]}) :
     s \in {"TODO", "IN_PROGRESS", "REVIEW", "DONE"}}
\* Cancelling is offered on the page of the task only.
CancelTask == On(Press(Api!MoveTask("CANCELLED"), EveryTask), Task,
                 Movers \X {"TODO", "IN_PROGRESS", "REVIEW", "DONE"})
AddTask == Press(Api!CreateTask, EveryTask)
Editors == {"ADMIN", "CREATOR"} \X DOMAIN Api!NextStatuses
EditTask == On(Press(Api!UpdateTask, EveryTask), Task, Editors)
TaskModal == {CasesForTasks, CaseMembers, StaffOptions}
\* Fault: the lists are left as they are for the page it leads to.
RemoveTaskOnly == On(Press(Api!RemoveTask, {<<"tasks", "my-summary">>}), Task, Editors)
RemoveTask == Marks(On(Press(Api!RemoveTask, {<<"tasks", "my-summary">>}), Task, Editors), EveryTask)
AddComment == Press(Api!AddComment, EveryTask)
AttachFile == Press(Api!Attach, {<<"tasks", "attachments">>})
RemoveFile == On(Press(Api!RemoveAttachment, {<<"tasks", "attachments">>}), TaskFiles, {"ADMIN", "UPLOADER"})
Attachments == Screen({TaskFiles}, {AttachFile, RemoveFile})
Comments == Screen({}, {AddComment})

TaskTable(k) == Screen({k}, MoveTask(k))
TasksTab == Together({TaskTable(CaseTasks), Screen(TaskModal, {AddTask})})
TaskPage ==
  Together({Screen({Task} \cup TaskModal, MoveTask(Task) \cup {CancelTask, EditTask, RemoveTask}), Attachments, Comments})
TasksPage == Together({TaskTable(Tasks), Screen({MyTasks} \cup TaskModal, {AddTask})})
CasePage ==
  Together({CaseHeader, OverviewTab, TimelineTab, DocumentsTab, DocumentRequestsTab, InvoicesTab, TeamTab, TasksTab, ChatThread})
-----------------------------------------------------------------------------
\* Cases and invoices.
OpenCase == Press(Api!CreateCase, {<<"admin", "cases">>, <<"admin", "stats">>})
NewCasePage == Screen({ClientOptions, LawyerOptions}, {OpenCase})
CasesPage == Screen({Cases, LawyerOptions}, {})

OfInvoiceList == {<<"admin", "invoices">>, <<"admin", "stats">>, <<"invoices", "payment-summary">>}
InvoicesPage ==
  Screen({Invoices, PaymentSummary, CasesToBill}, InvoiceActions(Invoices, OfInvoiceList) \cup {EnterInvoice(OfInvoiceList)})

OfInvoice == OfInvoiceList \cup {<<"admin", "invoice">>, <<"admin", "case">>}
ConfirmPayment == On(Press(Api!AnswerReport, OfInvoice), Invoice, {"AWAITING_CONFIRMATION"})
RejectPayment == On(Press(Api!AnswerReport, OfInvoice), Invoice, {"AWAITING_CONFIRMATION"})
InvoicePage ==
  Screen({Invoice}, InvoiceActions(Invoice, OfInvoice) \cup {EditInvoice(Invoice, OfInvoice), ConfirmPayment, RejectPayment})
-----------------------------------------------------------------------------
\* Service requests.
EveryRequest == {<<"service-requests">>}
AcceptRequest == Puts(On(Press(Api!AcceptRequest, EveryRequest), Request, {"NEW"}), Request)
RejectRequest == On(Press(Api!RejectRequest, EveryRequest), Request, {"NEW", "ACCEPTED"})
AssignRequest == On(Press(Api!AssignRequest, EveryRequest), Request, {"ACCEPTED"})
RequestPage == Screen({Request, Suggested, LawyerOptions}, {AcceptRequest, RejectRequest, AssignRequest})
RequestsPage == Screen({Requests, OldMessages}, {})
DashboardPage == Screen({Stats, NewestRequests, RequestSummary, NewestCases, MyTasks}, {})
-----------------------------------------------------------------------------
\* People.
EditUser(who, k) == Press(Api!UpdateUser(who), {k.key, <<"admin", "users">>})
ToggleActive(who, k) == Press(Api!SetActive(who), {k.key, <<"admin", "users">>})
AddClient == Press(Api!CreateUser("client"), {<<"admin", "users">>})
\* It leads to the page of the lawyer.
AddLawyer == Press(Api!CreateUser("lawyer"), {})
SaveProfile == Press(Api!SaveProfile, {<<"admin", "lawyer">>, <<"admin", "users">>})
SaveOwnProfile == Press(Api!SaveProfile, {<<"admin", "lawyer">>})
SendInvite == Press(Api!Invite, {<<"admin", "user">>})

ClientsPage == Screen({Clients}, {AddClient})
ClientPage == Screen({Client, ClientCases}, {EditUser("client", Client), ToggleActive("client", Client), SendInvite})
LawyersPage == Screen({Lawyers}, {AddLawyer})
LawyerPage == Screen({Lawyer}, {EditUser("lawyer", Lawyer), ToggleActive("lawyer", Lawyer), SaveProfile})
ProfilePage == Screen({Lawyer, Me}, {SaveAccount("lawyer"), ChangePassword, SaveOwnProfile})
-----------------------------------------------------------------------------
\* What the public sees, settings, notices and counts.
EveryPost == {<<"admin", "posts">>}
AddPost == Press(Api!CreatePost, EveryPost)
SavePost == Press(Api!UpdatePost, EveryPost)
RemovePost == Press(Api!RemovePost, EveryPost)
PostsPage == Screen({Posts}, {RemovePost})
NewPostPage == Screen({}, {AddPost})
EditPostPage == Screen({Post}, {SavePost})

EveryTestimonial == {<<"testimonials">>}
EnterTestimonial == Press(Api!EnterTestimonial, EveryTestimonial)
SaveTestimonial == Press(Api!UpdateTestimonial, EveryTestimonial)
RemoveTestimonial == Press(Api!RemoveTestimonial, EveryTestimonial)
TestimonialsPage == Screen({Testimonials}, {EnterTestimonial, SaveTestimonial, RemoveTestimonial})

SaveBankAccount == Puts(Press(Api!UpdateBankAccount, {}), BankAccount)
SaveFirm == Puts(Press(Api!UpdateFirm, {}), Firm)
BankCard == Screen({BankAccount}, {SaveBankAccount})
FirmCard == Screen({Firm}, {SaveFirm})
MailCard == Screen({MailLog}, {})
SettingsPage == Together({BankCard, FirmCard, MailCard})

NoticesPage == Screen({Notices, UnreadNotices}, {ReadNotice, ReadAllNotices})

PerformancePage == Screen({WorkOverview, WorkByUser, WorkTimeline}, {})
PersonPage == Screen({WorkOfUser, WorkTimeline}, {})

\* Around every page: the badges of the menu and the bell.
Shell ==
  Together({Screen({DocRequestSummary, UnreadMessages, PaymentSummary, MyTasks, RequestSummary, Me}, {}), Bell})
-----------------------------------------------------------------------------
Pages ==
  {CasePage, TaskPage, TasksPage, NewCasePage, CasesPage, InvoicesPage, InvoicePage, RequestPage, RequestsPage,
   DashboardPage, ClientsPage, ClientPage, LawyersPage, LawyerPage, ProfilePage, PostsPage, NewPostPage, EditPostPage,
   TestimonialsPage, SettingsPage, NoticesPage, PerformancePage, PersonPage}
StaffScreens == {Together({s, Shell}) : s \in Pages}
=============================================================================
