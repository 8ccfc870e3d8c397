----------------------------- MODULE PublicSite -----------------------------
(***************************************************************************)
(* What the public site shows: testimonials and posts, the calls that      *)
(* publish, edit and withdraw them, and the cached pages of the web        *)
(* application.                                                            *)
(*                                                                         *)
(* An update loads the row, decides, and writes by id; a revocation and a  *)
(* removal load only what never changes, and are one step here.  A page is *)
(* cached for 60 s; staff ask for a fresh one after a change, if they can. *)
(* Texts, order, slugs and who may edit which post are left out.           *)
(***************************************************************************)
EXTENDS Naturals

CONSTANTS
  Stories,  \* testimonials
  Posts,
  Desks,    \* updates that may be under way at the same time
  Keep      \* a field that is absent from the input

ASSUME SiteAssumption == Stories \cap Posts = {} /\ Keep \notin {TRUE, FALSE}

VARIABLES
  story,  \* the rows of Testimonial
  post,   \* the rows of Post
  desk,   \* the updates under way
  page    \* the cached page of each item

siteVars == <<story, post, desk, page>>

Items == Stories \cup Posts
StoryStatus == {"PENDING", "PUBLISHED", "REJECTED"}
PostStatus == {"DRAFT", "PUBLISHED", "ARCHIVED"}
Absent == {"none", "removed"}      \* no row yet, or no longer
Dates == {"none", "later", "due"}  \* publishedAt: not set, in the future, in the past

StoryRow ==
  [status : StoryStatus \cup Absent,
   consent : BOOLEAN,   \* consentGiven
   note : BOOLEAN,      \* consentNote is not empty
   dated : BOOLEAN,     \* publishedAt is set
   stale : BOOLEAN]     \* written by a call that was overtaken

PostRow ==
  [status : PostStatus \cup Absent,
   date : Dates,
   asked : PostStatus,  \* the status somebody asked for last
   stale : BOOLEAN]

StoryInput == [status : StoryStatus \cup {Keep}, consent : {TRUE, FALSE, Keep}, note : {TRUE, FALSE, Keep}]
PostInput == [status : PostStatus \cup {Keep}, date : {"later", "due", Keep}]

\* What an update is going to write; named: its input names the status.
StoryData == [status : StoryStatus \cup {Keep}, consent : {TRUE, FALSE, Keep},
              note : {TRUE, FALSE, Keep}, dated : {TRUE, FALSE, Keep}]
PostData == [status : PostStatus, date : Dates, named : BOOLEAN]

IdleDesk == [pc |-> "idle"]
Updates ==
  {IdleDesk}
  \cup [pc : {"story"}, item : Stories, data : StoryData, stale : BOOLEAN]
  \cup [pc : {"post"}, item : Posts, data : PostData, stale : BOOLEAN]

SiteTypeOK ==
  /\ story \in [Stories -> StoryRow]
  /\ post \in [Posts -> PostRow]
  /\ desk \in [Desks -> Updates]
  /\ page \in [Items -> [shown : BOOLEAN, fresh : BOOLEAN, next : {"none", "with", "without"}]]

SiteInit ==
  /\ story = [s \in Stories |-> [status |-> "none", consent |-> FALSE, note |-> FALSE,
                                 dated |-> FALSE, stale |-> FALSE]]
  /\ post = [p \in Posts |-> [status |-> "none", date |-> "none", asked |-> "DRAFT", stale |-> FALSE]]
  /\ desk = [d \in Desks |-> IdleDesk]
  /\ page = [i \in Items |-> [shown |-> FALSE, fresh |-> FALSE, next |-> "none"]]
-----------------------------------------------------------------------------
Given(value, current) == IF value = Keep THEN current ELSE value

\* Update d is over; a write to item i overtakes the others that have loaded it.
Over(d) == [desk EXCEPT ![d] = IdleDesk]
Overtaken(desks, i) ==
  [e \in Desks |-> IF desks[e].pc # "idle" /\ desks[e].item = i
                   THEN [desks[e] EXCEPT !.stale = TRUE] ELSE desks[e]]

\* create, by the client; createManual, by staff.
AddStory(s, consent, note) ==
  /\ story[s].status = "none"
  /\ consent => note
  /\ story' = [story EXCEPT ![s] = [status |-> "PENDING", consent |-> consent, note |-> note,
                                    dated |-> FALSE, stale |-> FALSE]]
  /\ UNCHANGED <<post, desk, page>>

\* Fault: the stored consent is looked at, not the one in the input.
MayPublishOnStored(row, input) ==
  Given(input.status, row.status) = "PUBLISHED" => row.consent /\ row.note

MayPublish(row, input) ==
  Given(input.status, row.status) = "PUBLISHED" =>
    Given(input.consent, row.consent) /\ Given(input.note, row.note)

StoryChanges(row, input) ==
  LET publishing == Given(input.status, row.status) = "PUBLISHED"
      wasPublished == row.status = "PUBLISHED"
  IN  [status |-> input.status, consent |-> input.consent, note |-> input.note,
       dated |-> IF publishing # wasPublished THEN publishing ELSE Keep]

\* update, up to its last check.
EditStory(d, s, input) ==
  /\ desk[d].pc = "idle" /\ story[s].status \notin Absent
  /\ MayPublish(story[s], input)
  /\ desk' = [desk EXCEPT ![d] = [pc |-> "story", item |-> s,
                                  data |-> StoryChanges(story[s], input), stale |-> FALSE]]
  /\ UNCHANGED <<story, post, page>>

WriteStory(d) ==
  LET s == desk[d].item
      data == desk[d].data
  IN  /\ desk[d].pc = "story"
      /\ IF story[s].status \in Absent
         THEN story' = story /\ desk' = Over(d)
         ELSE /\ story' = [story EXCEPT ![s] =
                   [status |-> Given(data.status, story[s].status),
                    consent |-> Given(data.consent, story[s].consent),
                    note |-> Given(data.note, story[s].note),
                    dated |-> Given(data.dated, story[s].dated),
                    stale |-> story[s].stale \/ desk[d].stale]]
              /\ desk' = Overtaken(Over(d), s)
      /\ UNCHANGED <<post, page>>

\* The note says that consent was revoked.
RevokeConsent(s) ==
  /\ story[s].status \notin Absent
  /\ story' = [story EXCEPT ![s] = [status |-> "PENDING", consent |-> FALSE, note |-> TRUE,
                                    dated |-> FALSE, stale |-> FALSE]]
  /\ desk' = Overtaken(desk, s)
  /\ UNCHANGED <<post, page>>

RemoveStory(s) ==
  /\ story[s].status \notin Absent
  /\ story' = [story EXCEPT ![s] = [status |-> "removed", consent |-> FALSE, note |-> FALSE,
                                    dated |-> FALSE, stale |-> FALSE]]
  /\ UNCHANGED <<post, desk, page>>

\* resolvePublishedAt
PublishedAt(status, current) == IF status = "PUBLISHED" /\ current = "none" THEN "due" ELSE current

AddPost(p, status, date) ==
  /\ post[p].status = "none"
  /\ post' = [post EXCEPT ![p] = [status |-> status, date |-> PublishedAt(status, date),
                                  asked |-> status, stale |-> FALSE]]
  /\ UNCHANGED <<story, desk, page>>

\* Unlike that of a testimonial, the update always writes status and date.
PostChanges(row, input) ==
  LET status == Given(input.status, row.status)
  IN  [status |-> status, date |-> PublishedAt(status, Given(input.date, row.date)),
       named |-> input.status # Keep]

EditPost(d, p, input) ==
  /\ desk[d].pc = "idle" /\ post[p].status \notin Absent
  /\ desk' = [desk EXCEPT ![d] = [pc |-> "post", item |-> p,
                                  data |-> PostChanges(post[p], input), stale |-> FALSE]]
  /\ UNCHANGED <<story, post, page>>

WritePost(d) ==
  LET p == desk[d].item
      data == desk[d].data
  IN  /\ desk[d].pc = "post"
      /\ IF post[p].status \in Absent
         THEN post' = post /\ desk' = Over(d)
         ELSE /\ post' = [post EXCEPT ![p] =
                   [status |-> data.status, date |-> data.date,
                    asked |-> IF data.named THEN data.status ELSE post[p].asked,
                    stale |-> desk[d].stale \/ (post[p].stale /\ ~data.named)]]
              /\ desk' = Overtaken(Over(d), p)
      /\ UNCHANGED <<story, page>>

RemovePost(p) ==
  /\ post[p].status \notin Absent
  /\ post' = [post EXCEPT ![p] = [status |-> "removed", date |-> "none",
                                  asked |-> "DRAFT", stale |-> FALSE]]
  /\ UNCHANGED <<story, desk, page>>

\* The day that posts were scheduled for comes, also for what was loaded before.
Came(date) == IF date = "later" THEN "due" ELSE date

DayComes ==
  /\ \E p \in Posts : post[p].date = "later"
  /\ post' = [p \in Posts |-> [post[p] EXCEPT !.date = Came(post[p].date)]]
  /\ desk' = [d \in Desks |->
       IF desk[d].pc # "post" THEN desk[d]
       ELSE [desk[d] EXCEPT !.data = [desk[d].data EXCEPT !.date = Came(desk[d].data.date)]]]
  /\ UNCHANGED <<story, page>>
-----------------------------------------------------------------------------
\* The `where` of findPublic and findPublished.
Public(i) ==
  IF i \in Stories THEN story[i].status = "PUBLISHED"
  ELSE post[i].status = "PUBLISHED" /\ post[i].date = "due"

\* Fault: pages are kept until staff ask for fresh ones, and nobody asks.
OutdatedOnDemand(i) == FALSE /\ UNCHANGED siteVars

\* 60 s have passed since the page was made, or staff ask for a fresh one.
Outdated(i) ==
  /\ page[i].fresh
  /\ page' = [page EXCEPT ![i] = [page[i] EXCEPT !.fresh = FALSE]]
  /\ UNCHANGED <<story, post, desk>>

\* A visitor comes; the API is asked, or cannot be reached.
Visit(i) ==
  /\ ~page[i].fresh /\ page[i].next = "none"
  /\ \E next \in {IF Public(i) THEN "with" ELSE "without", "without"} :
       page' = [page EXCEPT ![i] = [page[i] EXCEPT !.next = next]]
  /\ UNCHANGED <<story, post, desk>>

MakePage(i) ==
  /\ page[i].next # "none"
  /\ page' = [page EXCEPT ![i] = [shown |-> page[i].next = "with", fresh |-> TRUE, next |-> "none"]]
  /\ UNCHANGED <<story, post, desk>>

DeskAfterCrash == [d \in Desks |-> IdleDesk]

SiteStep ==
  \/ \E s \in Stories :
       \/ \E consent, note \in BOOLEAN : AddStory(s, consent, note)
       \/ \E d \in Desks, input \in StoryInput : EditStory(d, s, input)
       \/ RevokeConsent(s) \/ RemoveStory(s)
  \/ \E p \in Posts :
       \/ \E status \in PostStatus, date \in Dates : AddPost(p, status, date)
       \/ \E d \in Desks, input \in PostInput : EditPost(d, p, input)
       \/ RemovePost(p)
  \/ DayComes
  \/ \E d \in Desks : WriteStory(d) \/ WritePost(d)
  \/ \E i \in Items : Outdated(i) \/ Visit(i) \/ MakePage(i)
-----------------------------------------------------------------------------
(***************************************************************************)
(* A published testimonial has its consent, the note how it was given and  *)
(* its date; a post has the status that was asked for last, and a date if  *)
(* published.  Only an update overtaken by another write breaks this: it   *)
(* publishes what was withdrawn after it had looked.                       *)
(***************************************************************************)
OnlyOvertakenCallsMispublish ==
  /\ \A s \in Stories :
       story[s].status = "PUBLISHED" /\ ~story[s].stale =>
         story[s].consent /\ story[s].note /\ story[s].dated
  /\ \A p \in Posts :
       post[p].status \notin Absent /\ ~post[p].stale =>
         /\ post[p].status = post[p].asked
         /\ post[p].status = "PUBLISHED" => post[p].date # "none"

(***************************************************************************)
(* No page shows for ever what was withdrawn, whether or not anybody asked *)
(* for a fresh page: a client who revokes the consent does not ask.        *)
(***************************************************************************)
WithdrawnLeavesTheSite == \A i \in Items : []<>(page[i].shown => Public(i))
=============================================================================
