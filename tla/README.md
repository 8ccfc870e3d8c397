# Verification of the law firm portal

TLA+ models of this repository: the API server (`src/apps/api`, with the schemas it shares
with the web client in `src/packages/shared`), where several people act on the same rows at
the same time, and the web client (`src/apps/web`), where one person acts on copies of those
rows. TLC checks the models on small instances; TLAPS proves the central properties for every
value of the constants. `PROJECT.json` maps each definition to the lines it stands for.

## The system

One NestJS process answers HTTP requests, runs a daily job (the cron expression
`REMINDERS_CRON`, `reminders.scheduler.ts`) and keeps everything that lasts in PostgreSQL,
except uploaded files (S3-compatible object store) and mail waiting to be sent (callbacks in
memory, `setImmediate`). A web client (Next.js) calls the API; its public pages are cached on
its own server, its panel and portal keep answers in a query client in the browser.

| Component | State | Operations | Interacts with |
| --- | --- | --- | --- |
| Service requests | `ServiceRequest` rows: status, `assignedCaseId` | create, accept, reject, assign | opens cases; emits events to its listener |
| Case opening, numbers | `Case` rows, unique `caseNumber` | `CasesService.create`, `openCase`, `nextCaseNumber` | users (active?), service requests |
| Case team and data | `CaseMember` rows (one LEAD), `Case.lawyerId`, status, `closedAt` | add, updateRole, remove; update, close | timeline; authorises nearly everything else |
| Case timeline | `CaseEvent` rows | create, update, remove; STATUS_CHANGE by update and close | written in the same transaction as the case |
| Invoices | `Invoice` rows: status, dates | create, update | payments, reminders write the same row |
| Payments | the same rows | markPaid, confirm, reject | notifications |
| Reminders | `lastReminderAt` of tasks, invoices, document requests | the daily run, an admin's run by hand | invoices (OVERDUE), notifications, mail |
| Document requests | `DocumentRequest` rows | create, update, remove, submit, review | documents, notifications |
| Documents, storage | `Document` rows; objects in the store | upload, remove; store, discard | cases, document requests |
| Tasks, attachments | `Task`, `TaskAttachment`, `TaskComment` rows; objects | create, update, remove, addComment; upload, remove | storage, notifications |
| Testimonials | `Testimonial` rows: consent, status | create, createManual, update, revokeConsent, remove | notifications, public pages |
| Posts | `Post` rows: status, date | create, update, remove | public pages |
| Sessions, one-time links | `RefreshToken`, `AuthToken` rows | login, register, refresh, logout; reset, invite | users, mail, web client |
| Users | `User` rows: `isActive`, role, password | create, update, deactivate, updateMe, changePassword | sessions; read by every check of "active" |
| Messages | `Message` rows with read marks | send, list, markRead | notifications, mail, the thread in the browser |
| Notifications | `Notification` rows | createMany, markRead, markAllRead | written by all listeners |
| Mail | letters in memory, `EmailLog` rows | enqueue, send with retries, record | SMTP |
| Access rules | none | scopes of lists, checks of rows | every handler; repeated by the web client |
| Settings, contact, lawyer profiles | one row each | read, update | screens |
| Statistics, audit | none; `AuditLog` rows | read-only; append after the response | screens |
| Web client refresh | one promise per tab, cookies of all tabs | `apiFetch`, `tryRefresh` | sessions |
| Web navigation | cookies, address, `/auth/me` | middleware, `UserProvider`, `AdminShell`, login form, logout | sessions |
| Web task board | the cached list, moves on their way | drag, buttons, snap-back | tasks |
| Web lists | box, filter, page, address, rows | type, choose, search in the header | the lists of the API |
| Web screens | the query client's copies | every mutation of every page, and what it renews | the whole API |
| Public site cache | cached pages | revisit after 60 s, renewal on demand | testimonials, posts |

### How things run beside each other

A handler runs alone until it awaits; then any other handler, or the daily job, may run. The
handlers follow one pattern: load the row, check it, await, write. What happens between the
check and the write decides whether the check still means anything, and the code treats that
gap in three ways:

1. the write repeats the status it was checked with (`updateMany({ where: { id, status } })`
   and a look at `count`): service requests, payments, document requests, the overdue sweep;
2. the database refuses (unique case and invoice numbers, one member row per user and case);
3. nothing: the write goes by id and the last one wins (invoice edits, task edits, case edits,
   hand-overs of the lead).

An interactive transaction (`$transaction(async tx => ...)`) runs at READ COMMITTED, the
default of PostgreSQL. It is one step where its guards are conditional updates that take the
row locks it then holds; where a statement selects rows that another transaction may be
changing (`demoteCurrentLead`) the selection is a step of its own.

Events are emitted after the commit, often after one more query, and `emit` does not wait for
the listener; listeners swallow their own errors. So a crash, or a failed insert, can lose a
notice but never the decision it is about.

The browser has a concurrency of its own: requests of several tabs share cookies, answers
overtake one another, timers fire while an address is on its way, a copy is shown for 30
seconds before it is asked for again, and a card moves before the server has agreed.

### What is hard, and what makes each component correct

- Service requests and case opening: concurrent decisions on one request and a retry loop
  around a transaction. One case per converted request, no case for any other, gap-free
  numbers, no notice of a decision that was not taken, an end to every call.
- Team and case: three handlers keep one invariant (the `lawyerId` is the single LEAD) by
  writing from what they loaded. The timeline must agree with the row.
- Invoices: four writers of one status column. The table of transitions, the dates, one
  decision per reported payment, and overdue invoices noticed eventually.
- Document requests, documents, tasks: a row in one system and an object in another, written
  one after the other. Every row has its object; an object without a row is the only leftover
  a failure may cause.
- Sessions: a rotated token, a grace period for the tab that lost the race, and the account's
  status read some steps before the token is written.
- Links: read, deleted, and a password set, in three steps. A link works once.
- Reminders, messages: at most one notice per row and day, one unread notice per conversation;
  what is marked as told is told, unless the process died.
- Mail: a letter is tried a bounded number of times and logged once; a transport that reports
  a failure may have delivered.
- Public pages: what was withdrawn leaves them, what is shown was approved and consented to.
- Navigation: three places redirect, each by another idea of who is there. No visit goes round
  for ever, and none rests on a guarded page without its user.
- Board and lists: the screen runs ahead of the server. In the end they agree.
- Screens: more than fifty mutations, each with its own list of what it makes stale. Who did something
  sees it done; what is offered is taken, unless the row has changed meanwhile.

The full list of hazards, each at its line, is `hazards` in `PROJECT.json`.

## The modules

| Module | What it is |
| --- | --- |
| `Numbering` | the order in which the database sorts numbers as text, and the next number it leads to |
| `Intake`, `IntakePromise`, `MCIntake` | service requests, opening of cases, retries, events and notices; what they promise; an instance |
| `Invoices` | edits, payments and the overdue sweep over the same rows |
| `CaseTeam`, `MCCaseTeam` | team, lead, status, closing date and latest status event of one case, and the roles of its staff; an instance |
| `DocumentRequests`, `SubmissionPromise` | requests, documents and stored objects; the request as indivisible steps |
| `Tasks`, `MCTasks` | tasks, attachments, the notice of an assignment; an instance |
| `Sessions` | refresh tokens of one account, one step per query |
| `PortalTabs` | the tabs of a browser around `Sessions`: requests, refreshes, cookies |
| `Mail` | letters on their way |
| `Reminders`, `OneTimeLinks`, `Conversations` | the daily run; reset and invitation links; messages, bell and the thread in the browser; each extends `Mail` |
| `PublicSite` | testimonials and posts, their updates, and the cached pages that show them |
| `Office`, `MCOffice` | the last four in one process that may die; an instance |
| `Navigation` | middleware, layouts and login form in one tab |
| `TaskBoard` | the board of tasks over its cached list |
| `ListPages` | the three kinds of list page |
| `Screens` | what a screen is made of: kept answers and presses |
| `Endpoints` | which facts each endpoint tells and changes, and for which rows it takes a write |
| `SharedScreens`, `StaffScreens`, `PortalScreens` | every screen of the two areas |
| `QueryCache` | the query client between a press and an answer it is about |
| `MCBrowser` | an instance of what runs in the browser |
| `Access` | the access rules as they are stated in two or three places |
| `NumberingProofs`, `IntakeProofs`, `InvoicesProofs`, `CaseTeamProofs`, `DocumentRequestsProofs`, `TasksProofs`, `OfficeProofs`, `BrowserProofs` | the theorems |

Definitions whose comment begins with "Fault:" are deliberate variations of an operation (a
dropped guard, a missing reset). No specification uses them; substituting one for its original
must break the property it is listed with in `PROJECT.json`.

### Intake

`status`, `link` and `cases` are the rows (`ServiceRequest.status`, `.assignedCaseId`, `Case`);
`call` holds the local variables of each handler in flight (`pc` says which await it stands
at); `outbox` the emitted events whose listener has not run, `notices` the notifications.
`Create`, `Accept` and `Reject` are the guarded writes (one `updateMany` each), `Emit` the
event after the following await. `Assign` / `OpenForClient` / `OpenOwn` read what the handler
checks first, `Vet` is the check of the lawyers, `ReadNumber` is `nextCaseNumber`, and the
transaction of `openCase` ends in one of `Insert`, `InsertRefused` (the claim matched nothing)
or `InsertClash` (unique violation; retry up to `MaxNumberAttempts`). `Crash` drops all calls
and events in flight; `SetActive` is the administration of users, interleaved anywhere.

`Numbering` keeps only the order of the numbers. Up to the padding (four digits in the code)
text order is numeric order; a longer number sorts by its leading digits. `Base` and `Limit`
are the radix and the first number beyond the padding.

### Invoices

A row is its status and one flag for each date a property speaks of; `late` records that the
content changed after the row had left DRAFT, `pastDue` that the due date has passed.
`EditRead` / `EditWrite` are the two sides of the await in `update`; `MarkPaidRead`,
`DecisionRead` and the four outcomes `MarkPaidWrite`, `ConfirmWrite`, `RejectWrite`, `MoveLost`
those of the payment handlers, whose `move` repeats the status; `SweepRead` and `SweepWrite`
the two queries of the sweep. `history` counts reports and decisions and is read by properties
only - and by the bound `MaxReports`. A crash is a call that is never resumed.

### CaseTeam

One case. `team` is the role of each member row, `case` the row, `event` the newest
STATUS_CHANGE, `role` the `User.role` of everybody on the staff. The flag `overtaken` on a call
in flight records that some other call committed after it loaded, `recast` that the lawyer it is
about to appoint has had another role since it checked. Who leads a case need not be a lawyer:
`CasesService.create` asks for the role of a lawyer only when somebody else is named
(`cases.service.ts:173`), so an admin may open a case he leads himself (`Init`); and
`UsersService.update` (`ChangeRole`) gives any account any role, at any time, without looking at
its cases. What the code does promise is that nobody but a lawyer *becomes* the lead of an
existing case (`AddLead`, `Promote`, and `Edit` when it names another lawyer), and that is a
part of `OnlyOvertakenCallsBreakTheCase`. A hand-over (`AddLead`, `Promote`) is `Scan`, the selection of the rows to
demote, and `HandOver`, the commit of all its writes; rows that stopped being LEAD in between
are skipped, rows that became LEAD are not found. A reassignment (`Save`) addresses its rows
by key, deletes the lawyer it loaded and appoints the new one; an edit that sends the loaded
lawyer back writes the `lawyerId` alone. A unique violation or a missing
row makes the call `Fail`.

### DocumentRequests

`request` has the rows with their status, whether a reason and a date of review are set, and
`late`, that a request was reworded after the client had answered. `rows`, `answers` and
`objects` are the documents, the request each belongs to and what the store holds. Storing,
recording, discarding and removing are steps of their own, and each may fail in two ways: not
done, or done and reported as failed (`StoreFails`, `RecordUnheard`, `InsertFails`).
`leftover` collects the files whose handling has itself failed: the exemption of
`RowsAndObjectsAgree`, and nothing else is. `SubmissionPromise` is the request alone: it
moves along the table in one step, and an answer becomes visible whole.

### Tasks

The same two systems for attachments, and writes of the task by id. `overtaken` on a call says
that the task was written since it was loaded; `late` are the attachments recorded between
`RemoveList` and `RemoveRow`. `Written` in a call's step marks all others on the same task.
Comments are only ever added and are left out here.

### Sessions and PortalTabs

A row of `token` belongs to a session (`familyId`); it is live, rotated, stale (rotated, and the
grace period over) or revoked. `fate` is what became of each session: open, ended, or broken by
a lost answer or a reopening. `Load`, `Count`, `Rotate` and `Issue` are the queries of
`refresh`; `EndWrite` and `RevokeAll` those of everything that ends all sessions, with the
write of the account between. `PortalTabs` adds the cookies, the requests (`Send`, `Serve`,
`Join`, `GiveUp`) and what an answer does to cookies and waiting requests (`Refreshed`,
`Cleared`, `Lose`, `Woken`). The answer of an older refresh may overwrite the cookie of a
newer one.

### Mail, Reminders, OneTimeLinks, Conversations, PublicSite, Office

`Mail` is the life of a letter: queued, on its way, tried again, logged. A failed `Deliver` may
have delivered. `Reminders` goes through the four kinds of reminder as the code does: `Find`,
`Claim` (`updateMany` under the same condition), `Collect` by `lastReminderAt = now`, then
`Tell` and `Digest` for all kinds at the end. `clock` counts ticks; `TicksPerDay` of them are a
day. `OneTimeLinks` names a link by the call that made it, and separates deleting the older
ones, creating, mailing, presenting, burning and setting the password. `Conversations` is the
messages of one side, the listener of each (`CheckBell`, `CreateNotice`, `WriteToReader`) and
the reader's `ChatThread` with its polls and its marks once per batch. `PublicSite` separates
load and write of an update (`EditStory`, `WriteStory`), the cached page, its age and its
renewal on demand. `Office` lets all of them die together (`Crash`): rows stay, letters and
calls go.

### Navigation

`jar` are the cookies the middleware sees, `account` what the server knows, `view` the address
and what the visitor wanted (`goal`), `user` the provider around guarded pages and its
`/auth/me`. `Redirect` is the middleware, `SendToLogin` and `LeaveAdmin` the effects of
`UserProvider` and `AdminShell`, `LogIn` the form with its idea of a safe `next`. What it shows
of the code beside its properties:

- `next` with a language prefix is never safe for the form, so that visitor lands at home;
- staff whose access cookie has expired look like clients to the middleware and see the
  dashboard of the clients when they open `/portal`;
- when the call for a new session is lost or throttled, the page stays on "redirecting";
- the query client is cleared by a logout only, not by a session that ends otherwise.

### TaskBoard

`card` is the server's task, `board` the cached list with its request under way, `move` each
change of status with what it remembered for the snap-back (`onMutate` cancels the request
under way, `onError` puts the remembered list back, `onSettled` asks for a new one). The rights
of the viewer and the rows of other pages are taken as given.

### ListPages

One record: what is in the box, the filter and the page, the address and the one on its way,
the timer, and the query of the rows on the screen. The kinds "url", "local" and "portal" have
their own `Type`, `Filter` and `Fire`. What it shows of the code beside its properties:

- text typed or a filter chosen while another address is on its way may be dropped, and box and
  list then disagree until the next key (`ListsShowWhatIsAsked` names this case);
- a search in the header of the portal keeps the page number, so the list can be past its last
  page, empty and without page numbers;
- a search in the header for what `?q=` already says is not noticed;
- page numbers belong to the rows on the screen, which may be of the query before.

### Screens, Endpoints, the screens of both areas, and QueryCache

A *fact* is what an endpoint tells and a write changes: in the singular what a row says, in the
plural which rows there are. `Endpoints` has the facts of every endpoint a screen uses, and for
a write the rows it is taken for (by status, by who asks, or both), as the handlers check
them. A screen is what it keeps of the server (`Kept`: the query key without ids, and the
facts) and what it offers (`Press`: the write, the keys it renews, those it only marks, those
it puts its answer under, and the rows it is offered on). `StaffScreens` and `PortalScreens`
hold one definition per query, mutation and page of the two areas; the shell around every page
adds its badges. `QueryCache` moves one answer and one press at a time: looks and polls, fetches
answered, lost or late, the press taken, refused or lost, and the renewal when its answer
comes. All pairs of a press and an answer it is about are reduced to what matters of them
(`Class`), which leaves 16 of them.

`OwnWritesShow` has two parts. Whoever pressed and looks at an answer that the press changed
sees no state from before the press, once nothing is on its way; and what is exempted from that
really is not renewed. The exemptions are `LeftByStaff` and `LeftInPortal`; they were found by
checking without them, and are shown up to 30 seconds late:

- the invoice actions on a case leave the badge of reported payments (`payment-summary`) and
  the page of the invoice, although `useInvalidateCase` (`queries.ts:58`) says it "invalidates
  everything that shows data of one case"; creating an invoice from the list of invoices leaves
  the counts of the lists of cases;
- accepting, rejecting and assigning a request leave the counts of the dashboard, assigning
  also every list of cases;
- creating a lawyer leaves the lists of lawyers: going back within 30 seconds shows the list
  without the new one; toggling one leaves the candidates for a team;
- saving one's own account or profile leaves the lists of the staff;
- saving a post leaves the copy its editor opens with: opened again within 30 seconds it shows
  the text before the edit, and saving that undoes it;
- work on tasks, teams and people leaves the counts of the performance pages;
- files sent in by the client leave the counts of documents on the case and the lists of cases.

Also exempt: a first load that the server answered before the press and the renewal joined, and
an answer a load under way brings after `setQueryData`. `RefusedOnlyWhenStale` compares the
conditions around each button with the checks of its handler: a refused press was made on an
older state of the row. The one exception, `OfferedInVain`, is "make lead" for a lawyer who is
deactivated, which is offered and always refused. Refused and lost presses renew nothing, they
only say so; this is why both properties speak of what was taken.

### Access

Pure rules. For cases, documents, tasks, messages and the colleagues on the performance pages,
the condition of the query that lists rows and the condition of the check that opens one are
written down next to each other. There is nothing to check by states; the theorems at the end
of `CaseTeamProofs` compare them for all sets of users. `isMember` takes the `lawyerId` of a
case for a member, the filter of the lists does not: a case whose lawyer has no row in the team
opens but is in no list of his. `AloneHidesNothing` shows that a handler nobody overtakes never
leads there; `single_lead` shows that two handlers can. The roles of the viewers are those of
their accounts when they ask, whoever leads the case.

### Left out on purpose

Who may call what and whether the staff named in a call are active only refuse calls, and a
refused call changes nothing; they are modelled where they race with something (`Intake`,
`Tasks`), where a button repeats them (`Endpoints`) and as rules (`Access`). Texts, amounts,
wording of letters and notices, sizes and types of files, slugs and the order of rows are left
out everywhere.

On the screens: forms and what they hold. They are filled when their dialog opens or when their
row comes, so an account edited elsewhere, or reloaded while somebody types (`OverviewTab`,
`LawyerProfileForm`, `BankAccountSettingsCard`, `FirmSettingsCard`), replaces what was typed;
they send the whole record, so the last one wins. A background load that fails on a detail page
hides the page behind the message. These are effects of single lines and need no model.
Optimistic moves are in `TaskBoard`, drafts are not modelled.

## The runs

| Run | Instance | States | Shows |
| --- | --- | --- | --- |
| `intake` | 1 request, 1 client, 1 lawyer, 2 calls, 3 attempts, padding of one base-3 digit | 264,864 | `TypeOK`, `OneCasePerRequest`, `NumbersHaveNoGaps`, `NoticesMatchDecisions`, `CallsFinish`; refinement of `IntakePromise` |
| `numbers_past_padding` | the same | to the violation | `NextNumberIsFree` fails |
| `invoices` | 1 invoice, 2 calls, 1 sweep, 2 reports | 323,055 | `TypeOK`, `DatesMatchStatus`, `OneDecisionPerReport`, `OnlyStaleEditsBreakTheTable`, `OverdueIsNoticed` |
| `invoice_final_states` | 1 report | to the violation | `PaidIsFinal` fails |
| `case_team` | 3 users of any role, 2 open statuses, 2 calls, symmetric | 3,701,943 | `TypeOK`, `TimelineTellsStatus`, `OnlyOvertakenCallsBreakTheCase` |
| `single_lead` | 3 users of any role, 1 open status, 2 calls | to the violation | `LeadIsLawyer` fails |
| `document_requests` | 1 request, 2 files, 2 calls | 993,689 | `TypeOK`, `RowsAndObjectsAgree`, `ReviewTellsStatus`, `OnlyRemovalTakesTheFile`, `OnlyOvertakenCallsPassTheClient`, `DiscardedFilesGo`; refinement of `SubmissionPromise` |
| `tasks` | 1 task, 2 members of the team, 1 admin, 2 files, 2 calls, symmetric | 2,439,379 | `TypeOK`, `TheAssigneeKnows`, `AttachmentsAgree`, `OnlyOvertakenCallsBreakTheTask` |
| `office` | 8 scenes, see below | 877,780 | `TypeOK`, `OncePerDay`, `MarksAreTold`, `LogTellsDelivery`, `LinksWorkOnce`, `OnlyOverlappingMessagesRepeat`, `OnlyOvertakenCallsMispublish`, `MCLettersEnd`, `ScreensCatchUp` |
| `invite_status` | the scene of the links | to the violation | `AcceptedInviteIsShown` fails |
| `browser` | 6 scenes, see below | 454,412 | `MCTypeOK`, `LeftInOrder`, `ScreensTellTruth`, `OnlyTheGapAlarms`, `OnlyOvertakenCallsReopen`, `NothingHangs` |
| `refresh_race` | the scene of the tabs | to the violation | `TabsNeverAlarm` fails |

Why these sizes are enough: every hazard of the server is a race of two actors on one row, so
two calls and one row meet it; a second request, invoice, task or case adds rows that no write
of the first touches (numbers are shared, and cases opened directly by staff already contend
for them). Two calls that race for a number need a second attempt; three attempts let a call
lose twice and still finish, or be given up. The padding of one digit puts the change of length
after the second case, so the runs spend most of their states beyond it. Two reports let a
payment be rejected, reported again and decided again with a decision of the first round still
in flight. In `CaseTeam` the third user is there so that two hand-overs can name different new
leads; every user starts with every role, and roles change without a bound. Two open statuses
let a stale edit reopen a closed case. Two files let a submission fail half way. Symmetry is
used in `MCTasks` and `MCCaseTeam` only, which have no liveness property: there users, files,
statuses and calls differ in nothing but the values of the variables.

**Scenes.** The parts of `Office` and those in the browser share no state that is modelled (but
the process and the mail, which are in every scene of `MCOffice`), so a behaviour of `MCOffice`
or `MCBrowser` moves one of them and the others stay as they were; the whole is the sum of the
scenes, not their product. Fairness is that of the modules, each in its scene. In `MCOffice`:
the day (two runs of the reminders over a task, an invoice and a document request, `MaxClock`
ticks of two a day; the document request is never answered, since the invoice has the same
changes and more), the mail (one run and everything that can happen to its digest, three
tries), the links (two calls that issue and two that use), the bell (three messages), the chat
(three messages already sent, `MaxMarks` = 2 mark requests under way), stories and posts (two
updates that overlap) and pages (one update at a time). In `MCBrowser`: two tabs with one
request each, or one tab with two requests, over three tokens; visits of one tab through all
routes with at most one lost call; two cards and two moves, numbered in their order, with one
change by others; one list of each kind with two texts and a filter; one press and one answer
of every class with one change by others. Calls, letters, messages, moves and presses are made
once each: a second one starts from a state the first has left, which others reach as well.
The rows of a list stay as they are while it is looked at.

### Fairness

It is assumed of machines, never of people.

- `Intake`, `DocumentRequests`: every step of a call in flight. Node resumes a handler when its
  query is answered, and the query is answered or fails.
- `Invoices`: the two queries of the sweep; the scheduler starts a run every day.
- `PortalTabs`: requests are answered or lost, and handlers resumed.
- `Office`: letters in the queue are taken up; a thread on the screen polls and its marks are
  answered; a page grows old and is visited.
- `Navigation`: requests are answered, effects run. `ListPages`: timers fire, addresses arrive,
  rows come.
- None for `TaskBoard` and the screens: their properties speak of states in which nothing is on
  its way.

Nobody has to submit, decide, pay, type or press, and a crash is always possible where calls run.

### Where code and documents disagree

- **Numbers beyond the padding** (`NextNumberIsFree`). `nextCaseNumber` sorts numbers as text.
  `LF-2026-10000` sorts before `LF-2026-9999`, so from then on the same, taken number is
  offered to every attempt. `case-number.ts` calls its argument "the highest existing number"
  and accepts five digits. What still holds beyond the padding is proved: the numbers stay without gaps.
- **Final invoice states** (`PaidIsFinal`). `update` checks the status it loaded and writes by
  id. Two edits, or an edit and a confirmation, may overwrite a PAID or CANCELLED invoice.
  `OnlyStaleEditsBreakTheTable` shows that this is the only way.
- **The single lead** (`LeadIsLawyer`). "The case's lawyerId is always its single LEAD member"
  is kept by each handler on its own but not by two at once.
  `OnlyOvertakenCallsBreakTheCase` shows that it takes an overtaken call.
- **The refresh gap** (`TabsNeverAlarm`). A refresh marks the old token in one query and creates
  the new one in another (`auth.service.ts:147`). A second tab that counts the live tokens of the
  session in between finds none, and every session of the user ends; the comment at line 119
  says a racing tab "gets its own pair". `OnlyTheGapAlarms` shows that this gap is the only way.
- **Finished invitations** (`AcceptedInviteIsShown`). `inviteStatus` looks for `usedAt`
  (`auth.service.ts:272`), which nothing sets: using a link deletes its row. Who has accepted is
  shown as never invited.

Not a run of its own: the class comment of the reminders promises one reminder per row and day
(`reminders.service.ts:25`). `overdueInvoices` (line 115) does not ask whether the row was
reminded today, so an invoice that is put back to SENT by a rejected report is reminded again;
`OncePerDay` exempts it. And `performance.service.ts` takes its counts (lines 125-173) and its
series (227-251) by queries of their own, not from one snapshot. The comment on
`CasesService.create` says that an admin "picks any active lawyer" (`cases.service.ts:155`), and
`assertStaffUser` appoints lawyers only; but an admin who names himself is not checked, a lead
whose role is changed stays the lead, and a `lawyerId` sent back unchanged is not looked at, so
the lead of a case may be an admin, or even a client.

## The proofs

All theorems hold for any sets of requests, users, invoices, tasks, files, letters and staff, any
number of calls, tabs, tokens, cards and moves, any filters and pages, and any bound on attempts,
from the assumptions stated with the constants:
- `NumberingAssumption`: the padding ends at a multiple of the radix.
- `IntakeAssumption`, `InvoicesAssumption`, `CaseTeamAssumption`, `DocumentRequestsAssumption`,
  `TasksAssumption`: sets of different things do not overlap, and `None` is none of them.
- `MailAssumption`: a letter is tried at least once (`MAX_ATTEMPTS`).
- `RemindersAssumption`: tasks, invoices and requests are rows of different tables, a day has
  a tick, and every reminder has a letter it may write. `LinksAssumption`,
  `ConversationsAssumption`: as much for links and messages; calls and messages are finite,
  where the proofs count them. `SiteAssumption`: testimonials are not posts.
- `OfficeAssumption`: a run of the reminders, a call and a message are different things, so
  that each letter has one writer.
- `SessionsAssumption`, `PortalTabsAssumption`: tabs are not the other calls, both are finite,
  and every request belongs to a tab. `BoardAssumption`: there is a card. `ListAssumption`: "all"
  is one of the filters, and every query has some number of pages.
- `MaxByOthers` and `MaxElsewhere`, the bounds on what others change, are natural numbers.

Every proof has the same layout: an invariant of the component, first shown for the initial
state, then for each action of `Next`, from lemmas that say what an action does to the parts of
the state the invariant speaks of (`...Shape`, `...Move`). Every invariant was an invariant of
a run of TLC before it was proved.

**Numbering.** `HighestIsLast`: on a set of numbers with an upper bound, a last number in text
order exists (sort keys are bounded, so the distances to the bound have a least element). From
it `NextNumberFollows` - the number offered is 1 or follows a used one - and
`NextNumberFreeWhilePadded` - it is free as long as all numbers fit the padding.

**Intake.** `TypeOK` alone is not inductive: without a largest number the `CHOOSE` in `Highest`
would be undetermined, and a number of 0 could be inserted. `TypeInv` adds `NumbersBounded` and
`NumbersReal`.
- `OneCaseAlways`: `OneCasePerRequest` is inductive together with `TypeInv`; the argument is
  that `Insert` finds the request ACCEPTED, hence without a case.
- `NoGapsEver` needs `NumbersFollow`: the number a call is about to insert follows a number
  used already (numbers are never given back).
- `NoticesAlwaysMatch` is proved pair by pair (`Matched(r, k)`), because each step touches the
  announcements of one pair only.
- `IntakeKeepsThePromise`: each step of `Intake` is a step of `IntakePromise` or leaves its
  variables alone, under `OneCasePerRequest`. `Insert` maps to `Convert`, and the number is
  fresh because the unique index says so.

**Invoices.** `TypeInv` is `TypeOK` with `Sensible`: what a handler checked before its await is
kept in its locals (an edit holds a transition of the table and no change of content unless
it loaded a DRAFT; a decision was loaded from AWAITING_CONFIRMATION).
- `DatesAlwaysMatch`: inductive with `TypeInv`.
- `OnlyStaleEditsEverBreakTheTable`: if the row still has the loaded status, `Sensible` makes
  the write a step of the table; the other writers re-check the status themselves.
- `OneDecisionAlways`: split into `Answered` (a waiting row has an unanswered report) and
  `ToldOnce` (notices, and calls about to create one, never exceed what was done). The second
  counts calls, hence the assumption that `Calls` is finite.

**CaseTeam.** `TimelineAlwaysTellsStatus` is inductive. `AloneNothingBreaks` rests on
`FreshUnlessOvertaken` - what a call has loaded is still true unless another call committed
since - and on `CheckedUnlessRecast` - the user it appoints is a lawyer unless that role was
changed since; from there each handler is checked on its own. `TypeCorrect` needs what each
call has in its locals (`Sensible`): an edit that replaces the lead, for one, names somebody.

**DocumentRequests.** Calls interleave freely, and every step on the store or the database may
fail, or do its work and be reported as failed; the theorems hold for all of that.
- `TypeInv` says what each call has in its locals at each step (`Sensible`), and that every
  file in hand has been drawn before.
- `FilesAccountedFor`: `RowsAndObjectsAgree` is not inductive, because it says nothing about a
  file some call holds. `OwnFilesNew` adds that the files of an upload or an answer are owned
  by one call, have no row yet, and have an object exactly when they are stored;
  `OldFilesKnown` that what a removal is about to delete is gone already or known as left over.
- `ListedFilesStay` follows from the same invariant: an object is deleted only by its owner,
  which has no row for it, or by a call the property allows.
- `ReviewsTold`: `ApprovedStays` - who was told of an approval, or is about to be, has one, as
  APPROVED has no transition out of it - and `AbsentUntouched`.
- `TheClientComesFirst`: `FreshUnlessOvertaken` (what a call loaded is still so) and
  `AnswersKnown` (a file with a request came with an answer to one that exists).
- `PromiseKept`: each step is a step of `SubmissionPromise` or leaves its variables alone. The
  transaction that records an answer is `Submit`: its files are new because they are the
  call's own (`OwnFilesNew`).

**Tasks.** The invariants have the same names, and the same reasons. The differences:
- `FilesAccountedFor` needs `FilesSettled`, stronger than `AttachmentsAgree`: the list of
  attachments a removal has read excuses no disagreement before the row of the task is gone.
- `AssigneesAreTold`: `TheAssigneeKnows` is inductive with `TypeInv`; the write that makes
  somebody the assignee leaves its call announcing it to exactly that person.
- `OnlyTheOvertakenBreakTheTask`: `RowAllows` is what the check allowed, as a condition on the
  row as it stands; every write of the task by another call marks the call as overtaken.

**Office.** The five components share the mail and the process only. So each has an invariant
of its own, which the steps of the others leave alone, and `Crash` is treated for all of them.
`UnwrittenYet` relates them to the mail: whoever may still write a letter has not written it.
- `LettersLoggedTruly`: `LetterFits` counts the arrivals of a letter against its attempts; a
  second arrival needs a first one that was reported as a failure. Without `UnwrittenYet` a
  letter could be queued a second time and lose its log.
- `RemindedOnceADay`: `MarksKept` - a reminder that was sent, or is on its way, has left its mark
  (`lastReminderAt` of that day or later; OVERDUE) - which is what the claim of a second run
  fails on. `OneADay` says the same of two runs before their notices are there.
- `MarksStandForReminders`: `MarksBorne` - a mark without its notice is borne by a run that has
  claimed the row and has still to collect or tell it, or that died.
- `LinksAreOneTime`: `LinkMadeOnce`, `BurntByOne` (a use that set the password deleted the row of
  the link, and of two such uses one was overtaken) and `OthersCleared` (a call about to create
  a link sees no other of its kind, unless it was overtaken).
- `OneBellPerConversation`: the property is inductive with `BellFree`: a listener about to create
  a notice has found none unread, unless it was overtaken since.
- `TypeCorrect` includes the bound on the mark requests of the thread. Its argument is `Progress`,
  the number of messages on the page and of those shown as read: a further request needs a page
  that has come further. `PagesInOrder` says that pages never go back.
- `PublishedWithConsent`: `UpdatesFit` - what an update is about to write fits the row, unless
  the update is stale.

**Browser.** The five parts share no variable. `BrowserSpec` runs them all, each in its own time;
`ScenesAreOfTheBrowser` shows that a behaviour of `MCBrowser`, where one of them moves and the
others wait, is one of these. Each part has an invariant of its own:
- `TabsInv` (`TabsInvariant`). `Fits` says which token and session a call has in hand at each
  step. `GapBridged`: an open session has a live token, or a refresh stands between its two
  writes; so a count that finds none (`Alarm`) found that gap or a session that was over, which
  is `ConcurrentTabsAreSafe`. `SeenUnlessOvertaken`: what a call has loaded is still so unless it
  was overtaken, hence `EndedStaysEnded`. `BrowserIsLeftWithACookie` needs `NewUnused` (a token in
  an answer on its way is known to nobody else) and `CookieFollowed` (a cookie that has stopped
  working belongs to a session some call is about to answer for): the browser may apply answers
  in another order than the server wrote them.
- `BoardInv` (`BoardIsTrue`). While a dragged move is under way, and nothing newer may have moved
  its card (`steady`), no list is being fetched (`NothingToUndo`), so no answer puts it back.
  `ListsComeTrue` allows a card to differ from the server's only while a move is ahead of it
  (`Ahead`), and says as much of an answer on its way.
- `VisitInv` (`VisitsComeToTheirPage`). `OnCourse` follows the goal of a visit through the
  redirects, `PageMounted` ties the provider to the address, `TurnedAway` says that whoever has
  been told off has no cookie left that would bring him back, `StaffUnseen` where staff look
  like clients.
- `ListInv` (`ListsSettleOnWhatIsAsked`). For each kind of list what box, timer, address on its
  way and address agree on at every moment (`UrlFollows`, `LocalFollows`, `PortalFollows`), and
  that the rows are those of some address or on their way (`RowsFollow`).
- `KeptInv` (`KeptInvariant`). `PressSeen`: a changed answer that the press renews, marks or puts
  is there, on its way, or marked for the next look; `RefusalKnown`: a refused press was made on an
  older state, or on a row it is not for. This is so whatever the tables of the screens say.
  That they say the right thing is `TablesFit`, a statement about finite tables without
  parameters, and the hypothesis of `PressesAreSeen` and `BrowserTellsTruth`. It is not proved but
  evaluated: the run `browser` starts from every class of press and answer, and a class that does
  not fit violates `ScreensTellTruth` there in a few steps, as the faults in the tables do.

`BrowserTypeCorrect`, `BrowserLeftInOrder` and `BrowserTellsTruth` state the invariants of the run
from these. No theorem says anything of `NothingHangs`, which needs fairness.

**Access** (in `CaseTeamProofs`). `CaseListsAgree`, `TaskRulesAgree`, `DocumentRulesAgree`,
`UnreadRulesAgree` and `ColleaguesAreMutual` compare the filters with the checks;
`AloneHidesNothing` carries the first over to the states of `CaseTeam`.

## Checked only, or not at all

Only model-checked: liveness (`CallsFinish`, `OverdueIsNoticed`, `DiscardedFilesGo`,
`MCLettersEnd`, `ScreensCatchUp`, `NothingHangs`), which the prover does not reason about under
fairness; and the tables of the screens (`TablesFit`), which are evaluated. Every invariant of a
run, and every action property, is the statement of a theorem. The violations are runs.

Not modelled:

- Public pages, icons, layouts, the components of the design system, translations: about a
  third of the lines of the web client. They render what they are given and keep no state. The
  same holds for the templates of letters, the formatting helpers and the error texts.
- Configuration, filters, guards of the framework, rate limits, logging and its scrubbing: they
  act on one request at a time and keep nothing between two (a throttled call is a call lost).
- Seeds and database scripts: run by hand on an idle database.
- The audit log: appended after the response, read by nothing here.
- The signature check of a file, signed links and the bucket: a pure function and an external
  service.
- The sums of statistics and performance pages; which rows they count is in `Access`, which
  facts in `Endpoints`.

`STATUS_CHANGE` events may also be re-dated or deleted by staff (`case-events.service.ts:59-80`):
`TimelineTellsStatus` speaks of what updates and closings write.

## Plan

1. *Done:* the modules above, their runs, and the proofs of every invariant and action property
   of a passing run.
2. Lemmas in place of evaluation where the tables of the screens allow it: which keys lie under
   which (`Under`), so that a part of `TablesFit` follows from how a screen is put together.
3. `Office`: a promise of the mail as an abstract specification (a letter is logged once, after
   it was sent or given up), and `Mail` shown to implement it.
