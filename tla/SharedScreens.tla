---------------------------- MODULE SharedScreens ----------------------------
(***************************************************************************)
(* What the screens of the admin panel and those of the portal have in     *)
(* common: the thread of a case, the bell, and some of what is kept.       *)
(***************************************************************************)
EXTENDS Screens, Naturals

Api == INSTANCE Endpoints

Thread == Kept(<<"case-messages">>, Api!Messages)
CaseUnread == Kept(<<"case-messages", "unread">>, Api!UnreadCount)
UnreadMessages == Kept(<<"messages", "unread-summary">>, Api!UnreadSummary)
DocRequestSummary == Kept(<<"document-requests", "summary">>, Api!DocRequestSummary)
UnreadNotices == Kept(<<"notifications", "unread-count">>, Api!UnreadNotices)
LatestNotices == Kept(<<"notifications", "list", "latest">>, Api!Notices)
BankAccount == Kept(<<"settings", "bank-account">>, Api!BankAccount)
Me == Kept(<<"me">>, Api!Me)

\* A thread on the screen reads what the other side sent.
OfThread == {<<"case-messages">>, <<"messages", "conversations">>}
ReadThread == Press(Api!ReadMessages, OfThread \cup {<<"messages", "unread-summary">>})
SendMessage == Press(Api!SendMessage, OfThread)
ChatThread == Screen({Thread}, {ReadThread, SendMessage})

ReadNotice == Press(Api!ReadNotice, {<<"notifications">>})
ReadAllNotices == Press(Api!ReadAllNotices, {<<"notifications">>})
Bell == Screen({UnreadNotices, LatestNotices}, {ReadNotice, ReadAllNotices})

SaveAccount(who) == Press(Api!UpdateMe(who), {<<"me">>})
ChangePassword == Press(Api!ChangePassword, {})
=============================================================================
