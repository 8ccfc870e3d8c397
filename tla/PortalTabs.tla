----------------------------- MODULE PortalTabs -----------------------------
(***************************************************************************)
(* The tabs of one browser signed in to the portal, composed with the      *)
(* server's Sessions: apiFetch and tryRefresh of the web client, and the   *)
(* cookies AuthController sets and clears.                                 *)
(*                                                                         *)
(* All tabs share the cookies.  A request answered 401 waits for the one   *)
(* refresh its tab has in flight and is sent once more if that succeeds.   *)
(* Answers may overtake one another or get lost.                           *)
(***************************************************************************)
EXTENDS Sessions

CONSTANTS
  Reqs,   \* API requests the tabs may have under way
  TabOf   \* the tab of each request

ASSUME PortalTabsAssumption == IsFiniteSet(Reqs) /\ TabOf \in [Reqs -> Tabs]

VARIABLES
  cookie,  \* the refresh token in the cookie, 0 for none
  access,  \* the access cookie is there and has not expired
  req      \* where each request stands

vars == <<token, issued, active, call, fate, cookie, access, req>>
browserVars == <<cookie, access, req>>

ReqState ==
  [pc : {"idle", "sent", "waiting", "again"},  \* again: sent once more, skipRefresh
   good : BOOLEAN]                             \* it carries a valid access token

TypeOK ==
  /\ ServerTypeOK
  /\ cookie \in 0..issued
  /\ access \in BOOLEAN
  /\ req \in [Reqs -> ReqState]
  /\ \A q \in Reqs : req[q].pc = "waiting" => call[TabOf[q]].pc # "idle"

Rest == [pc |-> "idle", good |-> FALSE]

Init ==
  /\ ServerInit
  /\ cookie = 1 /\ access = TRUE
  /\ req = [q \in Reqs |-> Rest]
-----------------------------------------------------------------------------
\* Bound: what is under way, and may issue a token, fits in MaxTokens.
Room ==
  issued + Cardinality({c \in Calls : call[c].pc \notin {"idle", "answered", "refused"}})
         + Cardinality({q \in Reqs : req[q].pc = "sent"}) < MaxTokens

\* A request that is simply served changes nothing; it is left out.
Send(q) ==
  /\ req[q].pc = "idle"
  /\ ~ (access /\ active)
  /\ Room
  /\ req' = [req EXCEPT ![q] = [pc |-> "sent", good |-> access]]
  /\ UNCHANGED <<token, issued, active, call, fate, cookie, access>>

\* JwtStrategy.validate loads the account again on every request.
Accepted(q) == req[q].good /\ active

Serve(q) ==
  /\ req[q].pc \in {"sent", "again"}
  /\ Accepted(q)
  /\ req' = [req EXCEPT ![q] = Rest]
  /\ UNCHANGED <<token, issued, active, call, fate, cookie, access>>

\* 401: wait for the refresh of the tab, starting it if there is none.
Join(q) ==
  LET c == TabOf[q]
  IN  /\ req[q].pc = "sent"
      /\ ~ Accepted(q)
      /\ req' = [req EXCEPT ![q] = [pc |-> "waiting", good |-> FALSE]]
      /\ call' = IF call[c] = Idle
                 THEN [call EXCEPT ![c] = Presenting("loading", cookie)]
                 ELSE call
      /\ UNCHANGED <<token, issued, active, fate, cookie, access>>

\* 401 to the second attempt: the error is shown.
GiveUp(q) ==
  /\ req[q].pc = "again"
  /\ ~ Accepted(q)
  /\ req' = [req EXCEPT ![q] = Rest]
  /\ UNCHANGED <<token, issued, active, call, fate, cookie, access>>

\* Fault: only one of the requests that wait hears of the refresh.
WokenOne(c, next) ==
  LET waiting == {q \in Reqs : TabOf[q] = c /\ req[q].pc = "waiting"}
  IN  [q \in Reqs |-> IF waiting # {} /\ q = (CHOOSE w \in waiting : TRUE) THEN next ELSE req[q]]

\* The requests that waited for the refresh in c go on as `next`.
Woken(c, next) ==
  [q \in Reqs |-> IF TabOf[q] = c /\ req[q].pc = "waiting" THEN next ELSE req[q]]

\* Fault: an answer that comes late does not replace the cookie.
RefreshedIfNewer(c) ==
  /\ c \in Tabs
  /\ call[c].pc = "answered"
  /\ cookie' = IF cookie = call[c].tok \/ access THEN cookie ELSE call[c].new
  /\ access' = TRUE
  /\ req' = Woken(c, [pc |-> "again", good |-> TRUE])
  /\ call' = [call EXCEPT ![c] = Idle]
  /\ UNCHANGED <<token, issued, active, fate>>

Refreshed(c) ==
  /\ c \in Tabs
  /\ call[c].pc = "answered"
  /\ cookie' = call[c].new /\ access' = TRUE
  /\ req' = Woken(c, [pc |-> "again", good |-> TRUE])
  /\ call' = [call EXCEPT ![c] = Idle]
  /\ UNCHANGED <<token, issued, active, fate>>

\* The answer to a refresh that failed, or to a logout, clears the cookies.
Cleared(c) ==
  /\ call[c].pc = "refused"
  /\ cookie' = 0 /\ access' = FALSE
  /\ req' = Woken(c, Rest)
  /\ call' = [call EXCEPT ![c] = Idle]
  /\ UNCHANGED <<token, issued, active, fate>>

\* Fault: an error of fetch itself is not caught in the refresh.
LoseSilently(c) ==
  /\ call[c].pc # "idle"
  /\ Breaks(c)
  /\ call' = [call EXCEPT ![c] = Idle]
  /\ UNCHANGED <<token, issued, active, cookie, access, req>>

\* The connection breaks, or the process dies: the tab learns nothing.
Lose(c) ==
  /\ call[c].pc # "idle"
  /\ Breaks(c)
  /\ req' = Woken(c, Rest)
  /\ call' = [call EXCEPT ![c] = Idle]
  /\ UNCHANGED <<token, issued, active, cookie, access>>

\* The login page is shown to a browser without a session.
SignIn(c) ==
  /\ c \in Others
  /\ cookie = 0
  /\ Room
  /\ Login(c)
  /\ UNCHANGED browserVars

SignedIn(c) ==
  /\ c \in Others
  /\ call[c].pc = "answered"
  /\ cookie' = call[c].new /\ access' = TRUE
  /\ call' = [call EXCEPT ![c] = Idle]
  /\ UNCHANGED <<token, issued, active, fate, req>>

SignOut(c) ==
  /\ c \in Others
  /\ call[c] = Idle
  /\ cookie # 0 /\ Room
  /\ call' = [call EXCEPT ![c] = Presenting("leaving", cookie)]
  /\ UNCHANGED <<token, issued, active, fate, cookie, access, req>>

\* The access token lives for minutes.
AccessExpires ==
  /\ access
  /\ access' = FALSE
  /\ UNCHANGED <<token, issued, active, call, fate, cookie, req>>

Next ==
  \/ \E q \in Reqs : Send(q) \/ Serve(q) \/ Join(q) \/ GiveUp(q)
  \/ \E c \in Calls : ServerStep(c) /\ UNCHANGED browserVars
  \/ \E c \in Tabs : RefreshFails(c) /\ UNCHANGED browserVars
  \/ \E c \in Calls : Refreshed(c) \/ Cleared(c) \/ Lose(c) \/ SignIn(c) \/ SignedIn(c) \/ SignOut(c)
  \/ \E c \in Others, stays \in BOOLEAN : EndWrite(c, stays) /\ UNCHANGED browserVars
  \/ Reactivate /\ UNCHANGED browserVars
  \/ \E t \in Ids : GraceEnds(t) /\ UNCHANGED browserVars
  \/ AccessExpires

Spec == Init /\ [][Next]_vars

Answering(q) == Serve(q) \/ Join(q) \/ GiveUp(q)

Resuming(c) ==
  (ServerStep(c) /\ UNCHANGED browserVars) \/ Refreshed(c) \/ Cleared(c) \/ SignedIn(c)

\* Requests are answered and handlers resumed; nobody has to sign in or out.
Fairness ==
  /\ \A q \in Reqs : WF_vars(Answering(q))
  /\ \A c \in Calls : WF_vars(Resuming(c))

FairSpec == Spec /\ Fairness
-----------------------------------------------------------------------------
\* A refresh within the grace period is taken for a reuse all the same.
Alarm(c) == call[c].pc = "counting" /\ call'[c].pc = "revoking"

(***************************************************************************)
(* Tabs that refresh at the same time do not end the user's sessions,      *)
(* unless the session was over, something failed in it, or the refresh     *)
(* counts between the two writes of another one, when the old token is     *)
(* rotated and the new one not there yet.                                  *)
(***************************************************************************)
OnlyTheGapAlarms ==
  [][\A c \in Tabs :
       LET f == call[c].fam
       IN  Alarm(c) => \/ fate[f] # "open"
                       \/ \E d \in Tabs : call[d].pc = "issuing" /\ call[d].fam = f]_vars

(***************************************************************************)
(* "a token rotated less than REFRESH_REUSE_GRACE_SECONDS ago ...: that is *)
(* another tab or a retried request racing the first refresh, so it gets   *)
(* its own pair instead of logging the user out everywhere"                *)
(* (auth.service.ts:119-121).                                              *)
(***************************************************************************)
TabsNeverAlarm ==
  [][\A c \in Tabs : Alarm(c) => fate[call[c].fam] # "open"]_vars

(***************************************************************************)
(* The browser is left with a cookie that works: when nothing is in        *)
(* flight, the cookie holds a live token, whatever order the answers to    *)
(* several tabs came in - unless its session has been ended or a call of   *)
(* it failed.                                                              *)
(***************************************************************************)
CookieWorks ==
  (\A c \in Calls : call[c] = Idle) =>
    \/ cookie = 0
    \/ token[cookie].state = "live"
    \/ fate[token[cookie].fam] # "open"

(***************************************************************************)
(* Sessions that were ended stay ended, and a deactivated account gets no  *)
(* new token: a token is issued for them only to a call that had loaded    *)
(* the account or the token before.                                        *)
(***************************************************************************)
OnlyOvertakenCallsReopen ==
  [][\A t \in Ids :
       (token[t].state = "none" /\ token'[t].state = "live" /\ (~ active \/ fate[token'[t].fam] = "ended")) =>
         \E c \in Calls : call'[c].new = t /\ call[c].overtaken]_vars

(***************************************************************************)
(* No request waits for ever on the refresh it shares: each one is served, *)
(* sent once more, or fails.                                               *)
(***************************************************************************)
RequestsFinish == \A q \in Reqs : req[q].pc # "idle" ~> req[q].pc = "idle"
=============================================================================
