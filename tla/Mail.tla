--------------------------------- MODULE Mail ---------------------------------
(***************************************************************************)
(* The background delivery of e-mail: MailService.enqueue, send and        *)
(* record, and the transport behind them.                                  *)
(*                                                                         *)
(* enqueue returns at once; the letter lives in the memory of the process, *)
(* is tried a few times and logged in EmailLog.  A transport that reports  *)
(* a failure may have delivered the letter all the same.  What a letter    *)
(* says, its language and the cache of the firm's details are left out.    *)
(***************************************************************************)
EXTENDS Naturals

CONSTANTS
  Letters,  \* e-mails that may be written; each is enqueued once at most
  MaxTries  \* RETRY_DELAYS_MS.length

ASSUME MailAssumption == MaxTries \in Nat \ {0}

VARIABLE mail  \* where each letter stands

Letter ==
  [pc : {"unwritten", "queued", "trying", "logging", "ended"},
   tries : 0..MaxTries,
   got : 0..MaxTries,    \* how often the recipient got it
   unheard : BOOLEAN,    \* a delivery was reported as a failure
   log : {"none", "SENT", "FAILED", "SKIPPED"}]  \* about to be logged, or logged

MailTypeOK == mail \in [Letters -> Letter]

MailInit ==
  mail = [l \in Letters |->
            [pc |-> "unwritten", tries |-> 0, got |-> 0, unheard |-> FALSE, log |-> "none"]]

\* enqueue, for each letter of L.
Queued(L) == [l \in Letters |-> IF l \in L THEN [mail[l] EXCEPT !.pc = "queued"] ELSE mail[l]]

\* send: mail is off, or the recipient does not want it.
Skip(l) ==
  /\ mail[l].pc = "queued"
  /\ mail' = [mail EXCEPT ![l] = [mail[l] EXCEPT !.pc = "logging", !.log = "SKIPPED"]]

Begin(l) ==
  /\ mail[l].pc = "queued"
  /\ mail' = [mail EXCEPT ![l] = [mail[l] EXCEPT !.pc = "trying"]]

\* A query before the first attempt fails: nothing is sent, nothing logged.
BeginFails(l) ==
  /\ mail[l].pc = "queued"
  /\ mail' = [mail EXCEPT ![l] = [mail[l] EXCEPT !.pc = "ended"]]

\* Fault: a letter that was delivered is tried again.
DeliverOn(l) ==
  LET n == mail[l].tries + 1
  IN  /\ mail[l].pc = "trying"
      /\ mail' = [mail EXCEPT ![l] =
                    [mail[l] EXCEPT !.tries = n, !.got = mail[l].got + 1,
                                    !.pc = IF n < MaxTries THEN "trying" ELSE "logging",
                                    !.log = IF n < MaxTries THEN "none" ELSE "SENT"]]

Deliver(l) ==
  /\ mail[l].pc = "trying"
  /\ mail' = [mail EXCEPT ![l] =
                [mail[l] EXCEPT !.tries = mail[l].tries + 1, !.got = mail[l].got + 1,
                                !.pc = "logging", !.log = "SENT"]]

\* Fault: one attempt too many.
DeliverFailsOnceMore(l, got) ==
  /\ mail[l].pc = "trying"
  /\ got = mail[l].got
  /\ mail' = [mail EXCEPT ![l] =
                [mail[l] EXCEPT !.tries = mail[l].tries + 1,
                                !.pc = IF mail[l].tries < MaxTries THEN "trying" ELSE "logging",
                                !.log = IF mail[l].tries < MaxTries THEN "none" ELSE "FAILED"]]

\* Fault: after the last attempt the count starts over.
DeliverFailsAgain(l, got) ==
  /\ mail[l].pc = "trying"
  /\ got = mail[l].got
  /\ mail' = [mail EXCEPT ![l] = [mail[l] EXCEPT !.tries = (mail[l].tries + 1) % MaxTries]]

\* The attempt fails, or is taken for failed; after the last one it is given up.
DeliverFails(l, got) ==
  LET n == mail[l].tries + 1
  IN  /\ mail[l].pc = "trying"
      /\ got \in {mail[l].got, mail[l].got + 1}
      /\ mail' = [mail EXCEPT ![l] =
                    [mail[l] EXCEPT !.tries = n, !.got = got,
                                    !.unheard = mail[l].unheard \/ got # mail[l].got,
                                    !.pc = IF n < MaxTries THEN "trying" ELSE "logging",
                                    !.log = IF n < MaxTries THEN "none" ELSE "FAILED"]]

\* record; when the insert fails the outcome is only in the server's log.
Record(l) ==
  /\ mail[l].pc = "logging"
  /\ \E log \in {mail[l].log, "none"} :
       mail' = [mail EXCEPT ![l] = [mail[l] EXCEPT !.pc = "ended", !.log = log]]

\* The process dies: what was queued or waiting for its next attempt is gone.
MailAfterCrash ==
  [l \in Letters |-> IF mail[l].pc \in {"queued", "trying", "logging"}
                     THEN [mail[l] EXCEPT !.pc = "ended", !.log = "none"] ELSE mail[l]]

MailStep(l) ==
  \/ Skip(l) \/ Begin(l) \/ BeginFails(l)
  \/ Deliver(l) \/ (\E got \in 0..MaxTries : DeliverFails(l, got))
  \/ Record(l)
-----------------------------------------------------------------------------
(***************************************************************************)
(* The log shown to the admin tells what happened: SENT was delivered,     *)
(* SKIPPED was not, and a letter arrives twice, or arrives and is logged   *)
(* as FAILED, only if a delivery was reported to the server as a failure.  *)
(***************************************************************************)
LogTellsDelivery ==
  \A l \in Letters :
    /\ mail[l].log = "SENT" => mail[l].got > 0
    /\ mail[l].log = "SKIPPED" => mail[l].got = 0
    /\ mail[l].log = "FAILED" /\ mail[l].got > 0 => mail[l].unheard
    /\ mail[l].got > 1 => mail[l].unheard

(***************************************************************************)
(* No letter is tried for ever: it is logged, or lost with the process.    *)
(***************************************************************************)
LettersEnd == <>[](\A l \in Letters : mail[l].pc \in {"unwritten", "ended"})
=============================================================================
