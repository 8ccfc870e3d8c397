------------------------------ MODULE Navigation ------------------------------
(***************************************************************************)
(* One tab on its way through the site: the middleware that redirects by   *)
(* the cookies it sees, UserProvider that loads /auth/me behind every      *)
(* guarded page, AdminShell, and the login form that leads back.  The      *)
(* middleware knows only that cookies are there; whether the session is    *)
(* alive shows when the page is already open.                              *)
(*                                                                         *)
(* The account and its session are one row each here; how sessions end is  *)
(* in Sessions, how requests share a refresh in PortalTabs.  At most one   *)
(* call of a visit is lost, or refused by the throttle.                    *)
(***************************************************************************)
VARIABLES
  account,  \* the user at this browser
  jar,      \* the cookies
  view,     \* the address bar, and what the visitor is after
  user      \* UserProvider and its query for /auth/me

navVars == <<account, jar, view, user>>

Routes == {"site", "login", "link", "portal", "cases", "admin"}
Urls == [prefix : {"", "mn", "en"}, route : Routes]
Nowhere == [prefix |-> "", route |-> "nowhere"]
Bare(r) == [prefix |-> "", route |-> r]

\* The layout of a route: who mounts a UserProvider.
Area(r) == CASE r \in {"portal", "cases"} -> "portal" [] r = "admin" -> "admin" [] OTHER -> "none"
Home == IF account.staff THEN "admin" ELSE "portal"

NavTypeOK ==
  /\ account \in [staff : BOOLEAN, active : BOOLEAN, alive : BOOLEAN]  \* alive: a session
  /\ jar \in [access : BOOLEAN, hint : BOOLEAN,  \* access_token; refresh_token with lf_session
              english : BOOLEAN]                 \* NEXT_LOCALE
  /\ view \in [at : Urls, pc : {"asked", "open"},
               next : Urls \cup {Nowhere},       \* the parameter of the login page
               goal : Urls,                      \* what the visitor last asked for
               blind : BOOLEAN,                  \* served without an access cookie
               detour : BOOLEAN,                 \* the way to the goal was forgotten
               mishap : BOOLEAN]                 \* a call has been lost
  /\ user \in [area : {"none", "portal", "admin"},
               me : {"none", "ok", "failed", "broken"},  \* broken: failed, with older data
               fetch : {"idle", "asked", "refused"},
               told : BOOLEAN]                   \* the effect has seen this error

Asking(u) ==
  [at |-> u, pc |-> "asked", next |-> Nowhere, goal |-> u, blind |-> FALSE, detour |-> FALSE, mishap |-> FALSE]
Unmounted == [area |-> "none", me |-> "none", fetch |-> "idle", told |-> FALSE]

NavInit ==
  /\ account \in [staff : BOOLEAN, active : {TRUE}, alive : {TRUE}]
  /\ jar = [access |-> TRUE, hint |-> TRUE, english |-> FALSE]
  /\ view = [Asking(Bare("site")) EXCEPT !.pc = "open"]
  /\ user = Unmounted
-----------------------------------------------------------------------------
(***************************************************************************)
(* The middleware.                                                         *)
(***************************************************************************)
HasSession == jar.access \/ jar.hint
SeenStaff == jar.access /\ account.staff   \* roleFromAccessToken

ByLanguage(u) == u.prefix = "" /\ jar.english

Guarded(u, r) == [prefix |-> IF u.prefix = "en" THEN "en" ELSE "", route |-> r]

\* Where u leads: itself when the page is served.
Redirect(u) ==
  CASE ByLanguage(u) -> [u EXCEPT !.prefix = "en"]
    [] ~ByLanguage(u) /\ u.route = "login" /\ HasSession ->
         Guarded(u, IF SeenStaff THEN "admin" ELSE "portal")
    [] ~ByLanguage(u) /\ Area(u.route) # "none" /\ ~HasSession -> Guarded(u, "login")
    [] ~ByLanguage(u) /\ u.route = "admin" /\ jar.access /\ ~account.staff -> Guarded(u, "portal")
    [] ~ByLanguage(u) /\ u.route = "portal" /\ SeenStaff -> Guarded(u, "admin")
    [] OTHER -> [u EXCEPT !.prefix = IF u.prefix = "mn" THEN "" ELSE u.prefix]

\* What the page at r finds: the provider is kept within a layout, and loads
\* what it has not, what has failed and, when it is old, what it has.
Served(r, old) ==
  IF Area(r) = "none" THEN [user EXCEPT !.area = "none"]
  ELSE IF Area(r) = user.area /\ user.me # "none" THEN user
  ELSE [user EXCEPT !.area = Area(r), !.told = FALSE,
                    !.me = IF @ = "failed" THEN "none" ELSE @,
                    !.fetch = IF @ = "idle" /\ (user.me # "ok" \/ old) THEN "asked" ELSE @]

Answer ==
  LET u == view.at
      to == Redirect(u)
  IN  /\ view.pc = "asked"
      /\ view' = [view EXCEPT
           !.at = to,
           !.pc = IF to = u THEN "open" ELSE "asked",
           !.next = IF to.route = u.route THEN @ ELSE IF to.route = "login" THEN u ELSE Nowhere,
           !.blind = ~jar.access]
      /\ IF to = u THEN \E old \in BOOLEAN : user' = Served(u.route, old) ELSE UNCHANGED user
      /\ jar' = IF to.route = u.route /\ ~ByLanguage(u) THEN [jar EXCEPT !.english = u.prefix = "en"] ELSE jar
      /\ UNCHANGED account
-----------------------------------------------------------------------------
(***************************************************************************)
(* UserProvider, AdminShell and the refresh of apiFetch.                   *)
(***************************************************************************)
Signed == [jar EXCEPT !.access = TRUE, !.hint = TRUE]

\* Fault: the marker of the session stays.
ClearedTokens == [jar EXCEPT !.access = FALSE]

ClearedCookies == [jar EXCEPT !.access = FALSE, !.hint = FALSE]

Failed(told) == [user EXCEPT !.fetch = "idle", !.told = told,
                             !.me = IF @ \in {"ok", "broken"} THEN "broken" ELSE "failed"]

ServeMe ==
  /\ user.fetch = "asked"
  /\ user' = IF jar.access /\ account.active
             THEN [user EXCEPT !.me = "ok", !.fetch = "idle"] ELSE [user EXCEPT !.fetch = "refused"]
  /\ UNCHANGED <<account, jar, view>>

\* POST /auth/refresh, and on success the call again.
ServeRefresh ==
  /\ user.fetch = "refused"
  /\ IF jar.hint /\ account.alive /\ account.active
     THEN jar' = Signed /\ user' = [user EXCEPT !.me = "ok", !.fetch = "idle"]
     ELSE jar' = ClearedCookies /\ user' = Failed(FALSE)
  /\ UNCHANGED <<account, view>>

\* Without an answer to /auth/me there is nobody to send anywhere; without
\* one to the refresh the 401 stands, and the cookies stay.
LoseCall ==
  /\ user.fetch # "idle" /\ ~view.mishap
  /\ user' = Failed(user.fetch = "asked")
  /\ view' = [view EXCEPT !.mishap = TRUE]
  /\ UNCHANGED <<account, jar>>

Mounted == user.area # "none" /\ view.pc = "open"

\* The effects of UserProvider, once for an error, and of AdminShell.
MustSignIn == Mounted /\ user.me \in {"failed", "broken"} /\ ~user.told
MustLeave == Mounted /\ user.area = "admin" /\ user.me = "ok" /\ ~account.staff

\* Fault: the effect forgets that it has run.
SendToLoginAgain ==
  /\ MustSignIn
  /\ view' = [view EXCEPT !.at = Bare("login"), !.pc = "asked", !.next = view.at,
                          !.detour = @ \/ HasSession]
  /\ UNCHANGED <<account, jar, user>>

\* A session in the cookies turns the visitor away from the login page, and home.
SendToLogin ==
  /\ MustSignIn
  /\ view' = [view EXCEPT !.at = Bare("login"), !.pc = "asked", !.next = view.at,
                          !.detour = @ \/ HasSession]
  /\ user' = [user EXCEPT !.told = TRUE]
  /\ UNCHANGED <<account, jar>>

LeaveAdmin ==
  /\ MustLeave
  /\ view' = [view EXCEPT !.at = Bare("portal"), !.pc = "asked", !.next = Nowhere]
  /\ UNCHANGED <<account, jar, user>>

AtRest == view.pc = "open" /\ user.fetch = "idle" /\ ~MustSignIn /\ ~MustLeave
-----------------------------------------------------------------------------
(***************************************************************************)
(* What the visitor does, and what time and others do to the session.      *)
(***************************************************************************)
\* An address typed in, or a page loaded again: nothing is left of the last one.
Open(u) ==
  /\ AtRest
  /\ view' = Asking(u)
  /\ user' = Unmounted
  /\ UNCHANGED <<account, jar>>

\* A link; a page without its user shows none.
Follow(u) ==
  /\ AtRest /\ (user.area = "none" \/ user.me = "ok")
  /\ view' = Asking(u)
  /\ UNCHANGED <<account, jar, user>>

\* LoginForm: only an address without a language is taken for safe.
SafeNext ==
  /\ view.next.prefix = ""
  /\ Area(view.next.route) = "portal" \/ (account.staff /\ Area(view.next.route) = "admin")

LogIn ==
  /\ view.pc = "open" /\ view.at.route = "login" /\ account.active
  /\ jar' = Signed
  /\ account' = [account EXCEPT !.alive = TRUE]
  /\ view' = [view EXCEPT !.at = IF SafeNext THEN view.next ELSE Bare(Home), !.pc = "asked",
                          !.next = Nowhere, !.detour = @ \/ view.next.prefix # ""]
  /\ UNCHANGED user

\* logout of UserProvider: the caches go and the login page is next, even
\* when the call is lost.
LogOut(heard) ==
  /\ Mounted /\ AtRest /\ user.me = "ok"
  /\ jar' = IF heard THEN ClearedCookies ELSE jar
  /\ account' = IF heard THEN [account EXCEPT !.alive = FALSE] ELSE account
  /\ view' = [Asking(Bare("login")) EXCEPT !.mishap = ~heard]
  /\ user' = [user EXCEPT !.me = "none"]

\* The network is back, the profile was saved: /auth/me is asked for again.
Reconnect ==
  /\ AtRest /\ user.area # "none"
  /\ user' = [user EXCEPT !.fetch = "asked", !.me = IF @ = "failed" THEN "none" ELSE @]
  /\ UNCHANGED <<account, jar, view>>

\* The cache drops what no page has used for some time.
Forget ==
  /\ user.area = "none" /\ user.fetch = "idle"
  /\ user' = [user EXCEPT !.me = "none"]
  /\ UNCHANGED <<account, jar, view>>

CookiesExpire ==
  /\ \E hint \in {jar.hint, FALSE} : jar' = [jar EXCEPT !.access = FALSE, !.hint = hint]
  /\ UNCHANGED <<account, view, user>>

\* Every session ends: a new password, or the account is deactivated.
SessionsEnd ==
  /\ \E active \in {account.active, FALSE} :
       account' = [account EXCEPT !.alive = FALSE, !.active = active]
  /\ UNCHANGED <<jar, view, user>>

NavStep ==
  \/ Answer \/ ServeMe \/ ServeRefresh \/ SendToLogin \/ LeaveAdmin
  \/ LoseCall
  \/ \E u \in Urls : Open(u) \/ Follow(u)
  \/ LogIn
  \/ \E heard \in BOOLEAN : LogOut(heard)
  \/ Reconnect \/ Forget \/ CookiesExpire \/ SessionsEnd

Identifying == ServeMe \/ ServeRefresh
Leaving == SendToLogin \/ LeaveAdmin

\* Requests are answered and effects run; what people do is never assumed.
NavFairness == WF_navVars(Answer) /\ WF_navVars(Identifying) /\ WF_navVars(Leaving)
-----------------------------------------------------------------------------
\* Where a visitor after u belongs.
Landing(u) ==
  CASE u.route = "portal" \/ u.route = "admin" \/ u.route = "login" -> {Home}
    [] OTHER -> {u.route}

(***************************************************************************)
(* "Cookies are cleared and the login page comes up without hanging"       *)
(* (e2e/session.spec.ts:19): unless a call was lost, a visit never rests   *)
(* on a guarded page without its user, and rests where its visitor wanted  *)
(* to go, or at home if that was forgotten on the way.  Only staff whose   *)
(* role the middleware could not see may find themselves on the dashboard  *)
(* of the clients.                                                         *)
(***************************************************************************)
VisitsLandRight ==
  (AtRest /\ user.area # "none" /\ ~view.mishap) =>
    /\ user.me = "ok"
    /\ \/ view.at.route \in Landing(view.goal)
       \/ view.detour /\ view.at.route = Home
       \/ account.staff /\ view.blind /\ view.at.route = "portal"

(***************************************************************************)
(* No visit is redirected for ever, whatever the cookies, the session and  *)
(* the calls that fail: middleware, UserProvider, AdminShell and login     *)
(* form, each with its own idea of who is there, come to rest.             *)
(***************************************************************************)
VisitsEnd == ~AtRest ~> AtRest
=============================================================================
