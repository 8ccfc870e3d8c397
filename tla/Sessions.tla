------------------------------ MODULE Sessions ------------------------------
(***************************************************************************)
(* The refresh tokens of one account, as AuthService.login / refresh /     *)
(* logout and everything that calls revokeAllForUser write them:           *)
(* UsersService.update / deactivate / changePassword, resetPassword,       *)
(* acceptInvite.  The links those two start from are in OneTimeLinks.      *)
(*                                                                         *)
(* This module has the server's steps, one per query; PortalTabs puts a    *)
(* browser around them.  Tokens are numbered as they are issued and a      *)
(* login session (familyId) goes by the number of its first token.  A      *)
(* token's life of some weeks is taken to be longer than a behaviour.      *)
(***************************************************************************)
EXTENDS Naturals, FiniteSets

CONSTANTS
  Tabs,       \* browser tabs; each has at most one refresh in flight
  Others,     \* places for all other calls: login, logout, ending the sessions
  MaxTokens   \* bound: refresh tokens issued

ASSUME SessionsAssumption ==
  /\ MaxTokens \in Nat \ {0}
  /\ Tabs \cap Others = {}
  /\ IsFiniteSet(Tabs) /\ IsFiniteSet(Others)

VARIABLES
  token,    \* the rows of RefreshToken
  issued,   \* how many there are
  active,   \* User.isActive
  call,     \* where each call stands, with what it read
  fate      \* what became of each session

serverVars == <<token, issued, active, call, fate>>

Calls == Tabs \cup Others
Ids == 1..MaxTokens

(***************************************************************************)
(* live: revokedAt is null; rotated: revokedAt and rotatedAt are set, less *)
(* than REFRESH_REUSE_GRACE_SECONDS ago; stale: longer ago; revoked:       *)
(* revokedAt is set by a logout or revokeAllForUser and rotatedAt is null. *)
(***************************************************************************)
TokenState == {"none", "live", "rotated", "stale", "revoked"}

(***************************************************************************)
(* ended: by a logout or revokeAllForUser, with no live token left;        *)
(* broken: a call or its answer was lost, or it was reopened after its end.*)
(***************************************************************************)
Fates == {"open", "ended", "broken"}

CallState ==
  [pc : {"idle", "loading", "rotating", "counting", "revoking", "issuing", "opening",
         "leaving", "ending", "answered", "refused"},
   tok : 0..MaxTokens,    \* the token presented, 0 without a cookie
   fam : 0..MaxTokens,    \* the session it belongs to, 0 for a new one
   new : 0..MaxTokens,    \* the token issued
   seen : BOOLEAN,        \* the account was active when it was loaded
   overtaken : BOOLEAN]   \* sessions were ended, or the account, since it loaded

ServerTypeOK ==
  /\ token \in [Ids -> [state : TokenState, fam : 0..MaxTokens]]
  /\ issued \in 0..MaxTokens
  /\ \A t \in Ids : token[t].state = "none" <=> t > issued
  /\ active \in BOOLEAN
  /\ call \in [Calls -> CallState]
  /\ fate \in [Ids -> Fates]

Idle == [pc |-> "idle", tok |-> 0, fam |-> 0, new |-> 0, seen |-> FALSE, overtaken |-> FALSE]

\* The account is signed in once.
ServerInit ==
  /\ token = [t \in Ids |-> IF t = 1 THEN [state |-> "live", fam |-> 1]
                            ELSE [state |-> "none", fam |-> 0]]
  /\ issued = 1
  /\ active = TRUE
  /\ call = [c \in Calls |-> Idle]
  /\ fate = [f \in Ids |-> "open"]
-----------------------------------------------------------------------------
LiveIn(f) == {t \in Ids : token[t].state = "live" /\ token[t].fam = f}

Families == {token[t].fam : t \in 1..issued}

Presenting(pc, t) ==
  [Idle EXCEPT !.pc = pc, !.tok = t, !.fam = IF t = 0 THEN 0 ELSE token[t].fam]

Refused(c) == [Idle EXCEPT !.pc = "refused", !.fam = call[c].fam]

(***************************************************************************)
(* refresh.  The first query finds the token together with its user; the   *)
(* grace period is looked at before the query that counts live tokens.     *)
(***************************************************************************)
\* Fault: the account is not looked at.
AfterLoadOfAnyone(t) ==
  IF t = 0 THEN "refused"
  ELSE IF token[t].state = "rotated" THEN "counting"
  ELSE IF token[t].state # "live" THEN "revoking"
  ELSE "rotating"

AfterLoad(t) ==
  IF t = 0 THEN "refused"
  ELSE IF token[t].state = "rotated" THEN "counting"
  ELSE IF token[t].state # "live" THEN "revoking"
  ELSE IF active THEN "rotating" ELSE "refused"

Load(c) ==
  /\ call[c].pc = "loading"
  /\ LET pc == AfterLoad(call[c].tok)
     IN  call' = [call EXCEPT ![c] =
                    [call[c] EXCEPT !.pc = pc, !.seen = (pc = "counting" /\ active),
                                    !.tok = IF pc = "rotating" THEN call[c].tok ELSE 0]]
  /\ UNCHANGED <<token, issued, active, fate>>

\* isConcurrentRefresh.
Count(c) ==
  /\ call[c].pc = "counting"
  /\ LET pc == IF LiveIn(call[c].fam) = {} THEN "revoking"
               ELSE IF call[c].seen THEN "issuing" ELSE "refused"
     IN  call' = [call EXCEPT ![c] = [call[c] EXCEPT !.pc = pc, !.seen = FALSE]]
  /\ UNCHANGED <<token, issued, active, fate>>

\* By id: whatever the row says by now.
Rotate(c) ==
  LET t == call[c].tok
  IN  /\ call[c].pc = "rotating"
      /\ token' = [token EXCEPT ![t] = [token[t] EXCEPT !.state = "rotated"]]
      /\ call' = [call EXCEPT ![c] = [call[c] EXCEPT !.pc = "issuing", !.tok = 0]]
      /\ UNCHANGED <<issued, active, fate>>

\* Fault: a refresh does not pass the session of the token it replaces.
FamilyOfNew(c) == issued + 1

\* The session of the pair: that of the token presented, or a new one.
FamilyOf(c) == IF call[c].fam = 0 THEN issued + 1 ELSE call[c].fam

\* issueTokens, for a refresh or a login.
Issue(c) ==
  LET n == issued + 1
      f == FamilyOf(c)
  IN  /\ call[c].pc \in {"issuing", "opening"}
      /\ issued < MaxTokens
      /\ token' = [token EXCEPT ![n] = [state |-> "live", fam |-> f]]
      /\ issued' = n
      /\ fate' = [fate EXCEPT ![f] = IF fate[f] = "ended" THEN "broken" ELSE fate[f]]
      /\ call' = [call EXCEPT ![c] = [Idle EXCEPT !.pc = "answered", !.fam = f, !.new = n]]
      /\ UNCHANGED active

\* Calls that have loaded what the step of c changes, and will still issue.
Overtake(c, next, F) ==
  [d \in Calls |->
     IF d = c THEN next
     ELSE IF call[d].pc \in {"rotating", "counting", "issuing", "opening"} /\ call[d].fam \in F
          THEN [call[d] EXCEPT !.overtaken = TRUE]
          ELSE call[d]]

Revoked == [t \in Ids |-> IF token[t].state = "live"
                          THEN [token[t] EXCEPT !.state = "revoked"] ELSE token[t]]

\* revokeAllForUser: after a reuse, or at the end of deactivate and the like.
RevokeAll(c) ==
  /\ call[c].pc \in {"revoking", "ending"}
  /\ token' = Revoked
  /\ fate' = [f \in Ids |-> IF f \in Families THEN "ended" ELSE fate[f]]
  /\ call' = Overtake(c, IF call[c].pc = "revoking" THEN Refused(c) ELSE Idle, 0..MaxTokens)
  /\ UNCHANGED <<issued, active>>

\* The grace period of a rotated token is over.
GraceEnds(t) ==
  /\ token[t].state = "rotated"
  /\ token' = [token EXCEPT ![t] = [token[t] EXCEPT !.state = "stale"]]
  /\ UNCHANGED <<issued, active, call, fate>>
-----------------------------------------------------------------------------
\* login of an account that is active when it is loaded.
Login(c) ==
  /\ call[c] = Idle
  /\ active
  /\ call' = [call EXCEPT ![c] = [Idle EXCEPT !.pc = "opening"]]
  /\ UNCHANGED <<token, issued, active, fate>>

\* logout ends the one token presented, if it is live.
Logout(c) ==
  LET t == call[c].tok
      f == call[c].fam
      live == token[t].state = "live"
  IN  /\ call[c].pc = "leaving"
      /\ token' = IF live THEN [token EXCEPT ![t] = [token[t] EXCEPT !.state = "revoked"]]
                  ELSE token
      /\ fate' = IF live /\ LiveIn(f) = {t} THEN [fate EXCEPT ![f] = "ended"] ELSE fate
      /\ call' = Overtake(c, Refused(c), {f})
      /\ UNCHANGED <<issued, active>>

\* deactivate, or a new password: the account first, its sessions next.
EndWrite(c, stays) ==
  /\ call[c] = Idle
  /\ active
  /\ active' = stays
  /\ call' = Overtake(c, [Idle EXCEPT !.pc = "ending"], IF stays THEN {} ELSE 0..MaxTokens)
  /\ UNCHANGED <<token, issued, fate>>

Reactivate ==
  /\ ~ active
  /\ active' = TRUE
  /\ UNCHANGED <<token, issued, call, fate>>

Breaks(c) ==
  fate' = [f \in Ids |-> IF f = call[c].fam /\ fate[f] = "open" THEN "broken" ELSE fate[f]]

\* A query of refresh fails: the controller clears the cookies all the same.
RefreshFails(c) ==
  /\ call[c].pc \in {"loading", "rotating", "counting", "revoking", "issuing"}
  /\ call' = [call EXCEPT ![c] = Refused(c)]
  /\ Breaks(c)
  /\ UNCHANGED <<token, issued, active>>

ServerStep(c) ==
  Load(c) \/ Count(c) \/ Rotate(c) \/ Issue(c) \/ RevokeAll(c) \/ Logout(c)
=============================================================================
