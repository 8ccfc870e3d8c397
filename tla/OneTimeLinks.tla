----------------------------- MODULE OneTimeLinks -----------------------------
(***************************************************************************)
(* One-time links of one account, for a password reset and for an          *)
(* invitation: AuthService.requestPasswordReset, sendInvite, resetPassword *)
(* and acceptInvite over the AuthToken rows.                               *)
(*                                                                         *)
(* A link is named by the call that issued it; only somebody who got its   *)
(* letter can use it.  The sessions that a new password ends are those of  *)
(* module Sessions.  An account that is unknown or inactive ends a call at *)
(* its first query, like any other refusal: that is a call not started.    *)
(***************************************************************************)
EXTENDS Mail, FiniteSets

CONSTANTS
  IssueCalls,  \* calls that issue a link, each of them made once at most
  UseCalls     \* calls that present one

ASSUME LinksAssumption ==
  /\ IsFiniteSet(IssueCalls) /\ IssueCalls # {} /\ IssueCalls \cap UseCalls = {}
  /\ IssueCalls \X {"link"} \cup UseCalls \X {"changed"} \subseteq Letters

VARIABLES
  link,     \* the rows of AuthToken, by the call that creates them
  linkCall  \* the calls

linkVars == <<link, linkCall>>

Purposes == {"PASSWORD_RESET", "INVITE"}

LinksTypeOK ==
  /\ link \in [IssueCalls -> [row : {"none", "live", "expired", "deleted"},
                              used : BOOLEAN,   \* usedAt
                              purpose : Purposes,
                              made : 0..Cardinality(IssueCalls)]]  \* order of createdAt
  /\ linkCall \in [IssueCalls \cup UseCalls ->
                     [pc : {"new", "deleting", "creating", "setting", "revoking", "mailing", "over"},
                      of : IssueCalls,     \* the link it is about
                      set : BOOLEAN,       \* it set the password
                      late : BOOLEAN]]     \* another call overtook it

LinksInit ==
  /\ link = [l \in IssueCalls |->
               [row |-> "none", used |-> FALSE, purpose |-> "INVITE", made |-> 0]]
  /\ linkCall = [c \in IssueCalls \cup UseCalls |->
                   [pc |-> "new", of |-> CHOOSE l \in IssueCalls : TRUE, set |-> FALSE, late |-> FALSE]]
-----------------------------------------------------------------------------
Stored(l) == link[l].row \in {"live", "expired"}
Usable(l) == link[l].row = "live" /\ ~link[l].used
Made == Cardinality({l \in IssueCalls : link[l].made > 0})

\* Fault: only links that have expired are cleared away.
WithoutExpired(purpose) ==
  [l \in IssueCalls |-> IF link[l].row = "expired" /\ link[l].purpose = purpose
                        THEN [link[l] EXCEPT !.row = "deleted"] ELSE link[l]]

\* deleteMany: every link of the account with this purpose.
WithoutLinks(purpose) ==
  [l \in IssueCalls |-> IF Stored(l) /\ link[l].purpose = purpose
                        THEN [link[l] EXCEPT !.row = "deleted"] ELSE link[l]]

At(c, pc) == linkCall' = [linkCall EXCEPT ![c] = [linkCall[c] EXCEPT !.pc = pc]]

\* requestPasswordReset, sendInvite: the account was found.
IssueLink(c, purpose) ==
  /\ linkCall[c].pc = "new"
  /\ linkCall' = [linkCall EXCEPT ![c] = [linkCall[c] EXCEPT !.pc = "deleting", !.of = c]]
  /\ link' = [link EXCEPT ![c] = [link[c] EXCEPT !.purpose = purpose]]
  /\ UNCHANGED mail

ClearOlder(c) ==
  /\ linkCall[c].pc = "deleting"
  /\ link' = WithoutLinks(link[c].purpose)
  /\ At(c, "creating")
  /\ UNCHANGED mail

\* Those that have cleared but not created yet are overtaken.
CreateLink(c) ==
  /\ linkCall[c].pc = "creating"
  /\ link' = [link EXCEPT ![c] = [link[c] EXCEPT !.row = "live", !.made = Made + 1]]
  /\ linkCall' = [d \in DOMAIN linkCall |->
       IF d = c THEN [linkCall[c] EXCEPT !.pc = "mailing"]
       ELSE IF d \in IssueCalls /\ linkCall[d].pc = "creating" /\ link[d].purpose = link[c].purpose
            THEN [linkCall[d] EXCEPT !.late = TRUE] ELSE linkCall[d]]
  /\ UNCHANGED mail

MailLink(c) ==
  /\ c \in IssueCalls /\ linkCall[c].pc = "mailing"
  /\ mail' = Queued({<<c, "link">>})
  /\ At(c, "over")
  /\ UNCHANGED link

\* consumeAuthToken, up to its last check.
PresentLink(c, l) ==
  /\ linkCall[c].pc = "new"
  /\ mail[<<l, "link">>].got > 0
  /\ Usable(l)
  /\ linkCall' = [linkCall EXCEPT ![c] = [linkCall[c] EXCEPT !.pc = "deleting", !.of = l]]
  /\ UNCHANGED <<link, mail>>

\* How many rows the delete found is not looked at.
BurnLinks(c) ==
  LET l == linkCall[c].of
  IN  /\ linkCall[c].pc = "deleting"
      /\ link' = WithoutLinks(link[l].purpose)
      /\ linkCall' = [linkCall EXCEPT ![c] =
                        [linkCall[c] EXCEPT !.pc = "setting", !.late = ~Stored(l)]]
      /\ UNCHANGED mail

SetPassword(c) ==
  /\ linkCall[c].pc = "setting"
  /\ linkCall' = [linkCall EXCEPT ![c] = [linkCall[c] EXCEPT !.pc = "revoking", !.set = TRUE]]
  /\ UNCHANGED <<link, mail>>

\* revokeAllForUser; only a reset is followed by a letter.
EndSessions(c) ==
  /\ linkCall[c].pc = "revoking"
  /\ At(c, IF link[linkCall[c].of].purpose = "PASSWORD_RESET" THEN "mailing" ELSE "over")
  /\ UNCHANGED <<link, mail>>

MailChanged(c) ==
  /\ c \in UseCalls /\ linkCall[c].pc = "mailing"
  /\ mail' = Queued({<<c, "changed">>})
  /\ At(c, "over")
  /\ UNCHANGED link

\* A query of the call fails, or the process dies.
LinkCallFails(c) ==
  /\ linkCall[c].pc \notin {"new", "over"}
  /\ At(c, "over")
  /\ UNCHANGED <<link, mail>>

LinkCallsAfterCrash ==
  [c \in DOMAIN linkCall |-> IF linkCall[c].pc = "new" THEN linkCall[c]
                             ELSE [linkCall[c] EXCEPT !.pc = "over"]]

\* expiresAt passes.
LinkExpires(l) ==
  /\ link[l].row = "live"
  /\ link' = [link EXCEPT ![l] = [link[l] EXCEPT !.row = "expired"]]
  /\ UNCHANGED <<linkCall, mail>>

LinkStep ==
  \/ \E c \in IssueCalls :
       (\E p \in Purposes : IssueLink(c, p)) \/ ClearOlder(c) \/ CreateLink(c) \/ MailLink(c)
  \/ \E c \in UseCalls :
       (\E l \in IssueCalls : PresentLink(c, l)) \/ BurnLinks(c) \/ SetPassword(c)
         \/ EndSessions(c) \/ MailChanged(c)
  \/ \E c \in IssueCalls \cup UseCalls : LinkCallFails(c)
  \/ \E l \in IssueCalls : LinkExpires(l)

\* inviteStatus: the row created last.
InviteStatus ==
  LET rows == {l \in IssueCalls : Stored(l) /\ link[l].purpose = "INVITE"}
      last == CHOOSE l \in rows : \A k \in rows : link[k].made =< link[l].made
  IN  IF rows = {} THEN "NONE"
      ELSE IF link[last].used THEN "ACCEPTED"
      ELSE IF link[last].row = "live" THEN "PENDING" ELSE "EXPIRED"
-----------------------------------------------------------------------------
(***************************************************************************)
(* A link sets the password once, and a new link ends the earlier ones of  *)
(* its kind - unless calls overlapped: a link was deleted between another  *)
(* call's check and its own delete, or two were issued side by side.       *)
(***************************************************************************)
LinksWorkOnce ==
  /\ \A c, d \in UseCalls :
       (c # d /\ linkCall[c].set /\ linkCall[d].set /\ linkCall[c].of = linkCall[d].of) =>
         linkCall[c].late \/ linkCall[d].late
  /\ \A k, l \in IssueCalls :
       (k # l /\ Usable(k) /\ Usable(l) /\ link[k].purpose = link[l].purpose) =>
         linkCall[k].late \/ linkCall[l].late

(***************************************************************************)
(* The panel shows "invited, expired, or already finished": who accepted   *)
(* the only invitation there was is shown as finished.  The code deletes   *)
(* the row instead, and nothing ever sets usedAt.                          *)
(***************************************************************************)
AcceptedInviteIsShown ==
  \A c \in UseCalls :
    (/\ linkCall[c].set
     /\ \A l \in IssueCalls : link[l].made > 0 /\ link[l].purpose = "INVITE" => l = linkCall[c].of
     /\ link[linkCall[c].of].purpose = "INVITE")
      => InviteStatus = "ACCEPTED"
=============================================================================
