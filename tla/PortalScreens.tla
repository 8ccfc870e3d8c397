---------------------------- MODULE PortalScreens ----------------------------
(***************************************************************************)
(* The screens of the client's portal.                                     *)
(***************************************************************************)
EXTENDS SharedScreens
-----------------------------------------------------------------------------
\* What is kept, by the pages that ask for it.
Case == Kept(<<"case">>, Api!CaseForClient)
CaseEvents == Kept(<<"case-events">>, Api!Events)
CaseDocuments == Kept(<<"case-documents">>, Api!Documents)
CaseRequests == Kept(<<"case-document-requests">>, Api!DocRequests)
CaseInvoices == Kept(<<"invoices", "case">>, Api!Invoices)
AllCases == Kept(<<"cases", "all">>, Api!CaseList)
Cases == Kept(<<"cases", "list">>, Api!CaseList)
AllInvoices == Kept(<<"invoices", "all">>, Api!Invoices)
Invoices == Kept(<<"invoices", "list">>, Api!Invoices)
Invoice == Kept(<<"invoice">>, Api!Invoice)
MyRequests == Kept(<<"service-requests", "mine">>, Api!MyRequests)
MyTestimonials == Kept(<<"testimonials", "mine">>, Api!MyTestimonials)
Notices == Kept(<<"notifications">>, Api!Notices)
Conversations == Kept(<<"messages", "conversations">>, Api!ConversationList)
-----------------------------------------------------------------------------
\* Paying: the status of the invoice decides, wherever its panel is shown.
ReportPayment(k) ==
  On(Press(Api!ReportPayment, {<<"invoices">>, <<"invoice">>, <<"invoices", "payment-summary">>}), k, Api!Payable)
DetailPanel(k) == Screen({BankAccount}, {ReportPayment(k)})
InvoicesPage ==
  Together({Screen({AllInvoices, Invoices}, {}), DetailPanel(Invoices)})
InvoicePage == Together({Screen({Invoice}, {}), DetailPanel(Invoice)})

\* Fault: the documents of the case are left as they are.
SubmitForgetting ==
  On(Press(Api!Submit, {<<"case-document-requests">>, <<"document-requests", "summary">>}), CaseRequests, Api!Waiting)
Submit ==
  On(Press(Api!Submit, {<<"case-document-requests">>, <<"case-documents">>, <<"document-requests", "summary">>}),
     CaseRequests, Api!Waiting)
RequestsPanel == Screen({}, {Submit})

\* Told of once per case, and only when the case is closed.
WriteTestimonial == On(Press(Api!WriteTestimonial, {<<"testimonials", "mine">>}), Case, {"CLOSED"})
RevokeConsent == Press(Api!RevokeConsent, {<<"testimonials", "mine">>})
TestimonialPanel == Screen({MyTestimonials}, {WriteTestimonial, RevokeConsent})

Upload == Press(Api!Upload, {<<"case-documents">>})
OverviewCard == Screen({Case}, {})
LawyerCard == Screen({Case}, {})
TimelineCard == Screen({CaseEvents}, {})
NextEventCard == Screen({CaseEvents}, {})
RecentDocumentsCard == Screen({CaseDocuments}, {})
FinanceCard == Screen({CaseInvoices}, {})
CaseCards == {OverviewCard, LawyerCard, TimelineCard, NextEventCard, RecentDocumentsCard, FinanceCard}
CasePage ==
  Together(CaseCards \cup {Screen({CaseUnread, CaseRequests}, {Upload}), RequestsPanel, TestimonialPanel, ChatThread})
-----------------------------------------------------------------------------
CasesPage == Screen({Cases, AllCases}, {})
DocumentsPage == Screen({AllCases, CaseDocuments}, {Upload})
AskForService == Press(Api!CreateRequest, {<<"service-requests">>})
NewRequestPage == Screen({}, {AskForService})
RequestsPage == Screen({MyRequests}, {})
MessagesPage == Screen({Conversations, AllCases}, {})
NoticesPage == Screen({Notices}, {ReadNotice, ReadAllNotices})
MailPreferences == Screen({Me}, {SaveAccount("client")})
ProfilePage == Together({Screen({AllCases, Me}, {SaveAccount("client"), ChangePassword}), MailPreferences})
DocumentRequestsCard == Screen({DocRequestSummary}, {})
UnreadMessagesCard == Screen({UnreadMessages}, {})
ServiceRequestsCard == Screen({MyRequests}, {})
DashboardPage ==
  Together({Screen({AllCases, CaseEvents, AllInvoices, Notices}, {}),
            DocumentRequestsCard, UnreadMessagesCard, ServiceRequestsCard})

\* Around every page: the badges of the menu and the bell.
Shell == Together({Screen({UnreadNotices, DocRequestSummary, UnreadMessages, Me}, {}), Bell})
-----------------------------------------------------------------------------
Pages ==
  {InvoicesPage, InvoicePage, CasePage, CasesPage, DocumentsPage, NewRequestPage, RequestsPage, MessagesPage,
   NoticesPage, ProfilePage, DashboardPage}
PortalScreens == {Together({s, Shell}) : s \in Pages}
=============================================================================
