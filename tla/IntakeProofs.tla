---------------------------- MODULE IntakeProofs ----------------------------
(***************************************************************************)
(* Proofs about Intake, for any number of requests, users and calls, any   *)
(* bound on the attempts and any base and padding of the numbers.          *)
(***************************************************************************)
EXTENDS Intake, NumberingProofs

\* The states a call is put into are well-formed.
LEMMA CallShapes ==
  /\ Idle \in CallState
  /\ \A r \in Requests, k \in Kinds : Emitting(r, k) \in CallState
  /\ \A r \in Requests \cup {None}, team \in SUBSET Lawyers : Vetting(r, team) \in CallState
  /\ \A r \in Requests \cup {None} : Numbered(r) \in CallState
<1>1. Idle \in CallState
  BY IntakeAssumption DEF Idle, CallState
<1>2. ASSUME NEW r \in Requests, NEW k \in Kinds PROVE Emitting(r, k) \in CallState
  BY <1>1 DEF Emitting, CallState
<1>3. ASSUME NEW r \in Requests \cup {None}, NEW team \in SUBSET Lawyers
      PROVE  Vetting(r, team) \in CallState
  BY <1>1 DEF Vetting, CallState
<1>4. ASSUME NEW r \in Requests \cup {None} PROVE Numbered(r) \in CallState
  <2>1. 1 \in 0 .. MaxNumberAttempts
    BY IntakeAssumption
  <2> QED BY <1>1, <2>1 DEF Numbered, CallState
<1> QED BY <1>1, <1>2, <1>3, <1>4

\* The numbers in use have an upper bound: the database holds finitely many rows.
NumbersBounded == \E top \in Nat : \A n \in UsedNumbers : n <= top

\* A number about to be inserted is a real one.
NumbersReal == \A c \in Calls : call[c].pc = "inserting" => call[c].number # 0

TypeInv == TypeOK /\ NumbersBounded /\ NumbersReal

LEMMA UsedNumbersAreNumbers ==
  ASSUME TypeOK
  PROVE  UsedNumbers \in SUBSET (Nat \ {0})
BY DEF TypeOK, UsedNumbers, Case

\* What ReadNumber reads: see NextNumberFollows.
LEMMA NumberRead ==
  ASSUME TypeInv
  PROVE  /\ NextNumber(UsedNumbers) \in Nat \ {0}
         /\ NextNumber(UsedNumbers) = 1 \/ NextNumber(UsedNumbers) - 1 \in UsedNumbers
<1>1. PICK top \in Nat : \A n \in UsedNumbers : n <= top
  BY DEF TypeInv, NumbersBounded
<1>2. UsedNumbers \in SUBSET Nat
  BY UsedNumbersAreNumbers DEF TypeInv
<1> QED BY <1>1, <1>2, NextNumberFollows

\* How an insert changes the numbers in use.
LEMMA NumberInserted ==
  ASSUME NEW c \in Calls, Insert(c)
  PROVE  UsedNumbers' = UsedNumbers \cup {call[c].number}
<1>1. cases' = cases \cup {NewCase(call[c])}
  BY DEF Insert
<1>2. NewCase(call[c]).number = call[c].number
  BY DEF NewCase
<1> QED BY <1>1, <1>2 DEF UsedNumbers

LEMMA TypeInit == Init => TypeInv
<1> SUFFICES ASSUME Init PROVE TypeInv
  OBVIOUS
<1>1. TypeOK
  BY CallShapes DEF Init, TypeOK, Statuses
<1>2. NumbersBounded /\ NumbersReal
  BY DEF Init, NumbersBounded, NumbersReal, UsedNumbers, Idle
<1> QED BY <1>1, <1>2 DEF TypeInv

\* An action that leaves the cases alone and no call inserting a zero.
LEMMA NumbersKept ==
  ASSUME TypeInv, UNCHANGED cases, TypeOK',
         \A c \in Calls : \/ call'[c] = call[c]
                          \/ call'[c].pc # "inserting"
                          \/ call'[c].number # 0
  PROVE  TypeInv'
BY DEF TypeInv, NumbersBounded, NumbersReal, UsedNumbers

LEMMA TypeStep ==
  ASSUME TypeInv, [Next]_vars
  PROVE  TypeInv'
<1> USE CallShapes
<1>1. ASSUME NEW c \in Calls, NEW r \in Requests,
             NEW from, NEW to \in Statuses, NEW k \in Kinds, Claim(c, r, from, to, k)
      PROVE  TypeInv'
  <2>1. TypeOK'
    BY <1>1 DEF TypeInv, TypeOK, Claim
  <2>2. \A d \in Calls : call'[d] = call[d] \/ call'[d].pc # "inserting"
    BY <1>1 DEF TypeInv, TypeOK, Claim, Emitting, Idle
  <2> QED BY <1>1, <2>1, <2>2, NumbersKept DEF Claim
<1>2. ASSUME NEW c \in Calls, NEW r \in Requests, NEW team \in SUBSET Lawyers, Assign(c, r, team)
      PROVE  TypeInv'
  <2>1. TypeOK'
    BY <1>2 DEF TypeInv, TypeOK, Assign
  <2>2. \A d \in Calls : call'[d] = call[d] \/ call'[d].pc # "inserting"
    BY <1>2 DEF TypeInv, TypeOK, Assign, Vetting, Idle
  <2> QED BY <1>2, <2>1, <2>2, NumbersKept DEF Assign
<1>3. ASSUME NEW c \in Calls, NEW client \in Clients, NEW lead \in Lawyers,
             OpenForClient(c, client, lead) \/ OpenOwn(c, client, lead)
      PROVE  TypeInv'
  <2>1. TypeOK'
    <3>1. Vetting(None, {lead}) \in CallState /\ Numbered(None) \in CallState
      OBVIOUS
    <3> QED BY <1>3, <3>1 DEF TypeInv, TypeOK, OpenForClient, OpenOwn
  <2>2. \A d \in Calls : call'[d] = call[d] \/ call'[d].pc # "inserting"
    BY <1>3 DEF TypeInv, TypeOK, OpenForClient, OpenOwn, Vetting, Numbered, Idle
  <2> QED BY <1>3, <2>1, <2>2, NumbersKept DEF OpenForClient, OpenOwn
<1>4. ASSUME NEW c \in Calls, Vet(c)
      PROVE  TypeInv'
  <2>1. call[c].req \in Requests \cup {None}
    BY DEF TypeInv, TypeOK, CallState
  <2>2. TypeOK'
    BY <1>4, <2>1 DEF TypeInv, TypeOK, Vet
  <2>3. \A d \in Calls : call'[d] = call[d] \/ call'[d].pc # "inserting"
    BY <1>4 DEF TypeInv, TypeOK, Vet, Numbered, Idle
  <2> QED BY <1>4, <2>2, <2>3, NumbersKept DEF Vet
<1>5. ASSUME NEW c \in Calls, ReadNumber(c)
      PROVE  TypeInv'
  <2>1. NextNumber(UsedNumbers) \in Nat \ {0}
    BY NumberRead
  <2>2. call' = [call EXCEPT ![c] = [call[c] EXCEPT !.pc = "inserting",
                                                    !.number = NextNumber(UsedNumbers)]]
    BY <1>5 DEF ReadNumber, TypeInv, TypeOK, CallState
  <2>3. TypeOK'
    <3>1. [call[c] EXCEPT !.pc = "inserting", !.number = NextNumber(UsedNumbers)] \in CallState
      BY <2>1 DEF TypeInv, TypeOK, CallState
    <3> QED BY <1>5, <2>2, <3>1 DEF TypeInv, TypeOK, ReadNumber
  <2>4. \A d \in Calls : call'[d] = call[d] \/ call'[d].number # 0
    BY <2>1, <2>2 DEF TypeInv, TypeOK, CallState
  <2> QED BY <1>5, <2>3, <2>4, NumbersKept DEF ReadNumber
<1>6. ASSUME NEW c \in Calls, Insert(c)
      PROVE  TypeInv'
  <2>1. call[c] \in CallState /\ call[c].number \in Nat \ {0}
    BY <1>6 DEF TypeInv, TypeOK, NumbersReal, Insert, CallState
  <2>2. TypeOK'
    <3>1. NewCase(call[c]) \in Case
      BY <2>1 DEF NewCase, Case, CallState
    <3>2. cases' \subseteq Case
      BY <1>6, <3>1 DEF Insert, TypeInv, TypeOK
    <3>3. status' \in [Requests -> Statuses] /\ link' \in [Requests -> Nat]
      BY <1>6, <2>1 DEF Insert, TypeInv, TypeOK, Statuses
    <3>4. call' \in [Calls -> CallState]
      BY <1>6, <2>1 DEF Insert, TypeInv, TypeOK, CallState, Kinds
    <3> QED BY <1>6, <3>2, <3>3, <3>4 DEF Insert, TypeInv, TypeOK
  <2>3. NumbersBounded'
    <3>1. PICK top \in Nat : \A n \in UsedNumbers : n <= top
      BY DEF TypeInv, NumbersBounded
    <3>2. UsedNumbers' = UsedNumbers \cup {call[c].number} /\ UsedNumbers \subseteq Nat
      BY <1>6, NumberInserted, UsedNumbersAreNumbers DEF TypeInv
    <3>3. \A n \in UsedNumbers' : n <= top + call[c].number
      BY <2>1, <3>1, <3>2
    <3> QED BY <2>1, <3>3 DEF NumbersBounded
  <2>4. NumbersReal'
    BY <1>6 DEF Insert, TypeInv, TypeOK, NumbersReal, Idle, Emitting
  <2> QED BY <2>2, <2>3, <2>4 DEF TypeInv
<1>7. ASSUME NEW c \in Calls, InsertRefused(c)
      PROVE  TypeInv'
  <2>1. TypeOK'
    BY <1>7 DEF TypeInv, TypeOK, InsertRefused
  <2>2. \A d \in Calls : call'[d] = call[d] \/ call'[d].pc # "inserting"
    BY <1>7 DEF TypeInv, TypeOK, InsertRefused, Idle
  <2> QED BY <1>7, <2>1, <2>2, NumbersKept DEF InsertRefused
<1>8. ASSUME NEW c \in Calls, InsertClash(c)
      PROVE  TypeInv'
  <2>1. call[c].attempt < MaxNumberAttempts =>
          Retry(call[c]) \in CallState /\ Retry(call[c]).pc = "numbering"
    <3>1. call[c] \in CallState
      BY DEF TypeInv, TypeOK
    <3>2. call[c].attempt < MaxNumberAttempts => call[c].attempt + 1 \in 0 .. MaxNumberAttempts
      BY <3>1, IntakeAssumption DEF CallState
    <3> QED BY <3>1, <3>2 DEF Retry, CallState
  <2>2. Idle.pc = "idle"
    BY DEF Idle
  <2>4. TypeOK'
    BY <1>8, <2>1 DEF TypeInv, TypeOK, InsertClash
  <2>5. \A d \in Calls : call'[d] = call[d] \/ call'[d].pc # "inserting"
    BY <1>8, <2>1, <2>2 DEF TypeInv, TypeOK, InsertClash
  <2> QED BY <1>8, <2>4, <2>5, NumbersKept DEF InsertClash
<1>9. ASSUME NEW c \in Calls, Emit(c)
      PROVE  TypeInv'
  <2>1. TypeOK'
    <3>1. outbox' \in [Requests \X Kinds -> Nat]
      <4> DEFINE m == <<call[c].req, call[c].kind>>
      <4>1. outbox' = [outbox EXCEPT ![m] = outbox[m] + 1] /\ outbox \in [Requests \X Kinds -> Nat]
        BY <1>9 DEF Emit, TypeInv, TypeOK
      <4> HIDE DEF m
      <4>2. m \in Requests \X Kinds => outbox[m] + 1 \in Nat
        BY <4>1
      <4> QED BY <4>1, <4>2
    <3>2. call' \in [Calls -> CallState]
      BY <1>9 DEF Emit, TypeInv, TypeOK
    <3> QED BY <1>9, <3>1, <3>2 DEF Emit, TypeInv, TypeOK
  <2>2. \A d \in Calls : call'[d] = call[d] \/ call'[d].pc # "inserting"
    BY <1>9 DEF TypeInv, TypeOK, Emit, Idle
  <2> QED BY <1>9, <2>1, <2>2, NumbersKept DEF Emit
<1>10. ASSUME NEW m \in Requests \X Kinds, Notify(m)
       PROVE  TypeInv'
  <2>1. TypeOK'
    BY <1>10 DEF TypeInv, TypeOK, Notify
  <2> QED BY <1>10, <2>1, NumbersKept DEF Notify
<1>11. CASE Crash
  <2>1. TypeOK'
    BY <1>11 DEF TypeInv, TypeOK, Crash
  <2>2. \A d \in Calls : call'[d].pc # "inserting"
    BY <1>11 DEF Crash, Idle
  <2> QED BY <1>11, <2>1, <2>2, NumbersKept DEF Crash
<1>12. ASSUME NEW u \in Users, SetActive(u)
       PROVE  TypeInv'
  <2>1. TypeOK'
    BY <1>12 DEF TypeInv, TypeOK, SetActive
  <2> QED BY <1>12, <2>1, NumbersKept DEF SetActive
<1>13. CASE UNCHANGED vars
  BY <1>13 DEF vars, TypeInv, TypeOK, NumbersBounded, NumbersReal, UsedNumbers
<1>14. ASSUME NEW c \in Calls, NEW r \in Requests, Create(c, r) \/ Accept(c, r) \/ Reject(c, r)
       PROVE  TypeInv'
  BY <1>1, <1>14 DEF Create, Accept, Reject, Statuses, Kinds
<1> QED BY <1>2, <1>3, <1>4, <1>5, <1>6, <1>7, <1>8, <1>9, <1>10, <1>11, <1>12, <1>13, <1>14
        DEF Next, Advance

(***************************************************************************)
(* Every reachable state is well-typed: no call runs past its attempts,    *)
(* and no case is stored with a number of zero.                            *)
(***************************************************************************)
THEOREM TypeCorrect == Spec => []TypeOK
<1>1. Init => TypeInv
  BY TypeInit
<1>2. TypeInv /\ [Next]_vars => TypeInv'
  BY TypeStep
<1>3. TypeInv => TypeOK
  BY DEF TypeInv
<1> QED BY <1>1, <1>2, <1>3, PTL DEF Spec
-----------------------------------------------------------------------------
(***************************************************************************)
(* One case per request.  The invariant is inductive: only a claim and the *)
(* insert touch the rows it is about, and both test the status in the      *)
(* statement that changes it.                                              *)
(***************************************************************************)
LEMMA RowSteps ==
  ASSUME [Next]_vars
  PROVE  \/ \E c \in Calls, r \in Requests : Create(c, r) \/ Accept(c, r) \/ Reject(c, r)
         \/ \E c \in Calls : Insert(c)
         \/ UNCHANGED <<status, link, cases>>
BY DEF Next, Advance, Assign, OpenForClient, OpenOwn, Vet, ReadNumber, InsertRefused,
       InsertClash, Emit, Notify, Crash, SetActive, vars

LEMMA OneCaseStep ==
  ASSUME TypeInv, OneCasePerRequest, [Next]_vars
  PROVE  OneCasePerRequest'
<1>1. ASSUME NEW c \in Calls, NEW r \in Requests, Create(c, r) \/ Accept(c, r) \/ Reject(c, r)
      PROVE  OneCasePerRequest'
  <2>1. PICK to \in {"NEW", "ACCEPTED", "REJECTED"} :
          status[r] # "CONVERTED" /\ status' = [status EXCEPT ![r] = to]
    BY <1>1 DEF Create, Accept, Reject, Claim
  <2>2. UNCHANGED <<link, cases>>
    BY <1>1 DEF Create, Accept, Reject, Claim
  <2>3. \A q \in Requests : status'[q] = "CONVERTED" <=> status[q] = "CONVERTED"
    BY <2>1 DEF TypeInv, TypeOK
  <2> QED BY <2>2, <2>3 DEF OneCasePerRequest
<1>2. ASSUME NEW c \in Calls, Insert(c)
      PROVE  OneCasePerRequest'
  <2> DEFINE s == call[c]
             new == NewCase(s)
  <2>1. /\ cases' = cases \cup {new}
        /\ new.from = s.req /\ new.number = s.number
    BY <1>2 DEF Insert, NewCase
  <2>2. \A q \in Requests :
          /\ q = s.req => status[q] = "ACCEPTED" /\ status'[q] = "CONVERTED" /\ link'[q] = s.number
          /\ q # s.req => status'[q] = status[q] /\ link'[q] = link[q]
    BY <1>2, IntakeAssumption DEF Insert, StillWanted
  <2> HIDE DEF s, new
  <2>3. ASSUME NEW q \in Requests, q = s.req
        PROVE  \E d \in cases' : /\ d.from = q /\ d.number = link'[q]
                                 /\ \A e \in cases' : e.from = q => e = d
    <3>1. \A d \in cases : d.from # q
      BY <2>2, <2>3 DEF OneCasePerRequest
    <3> QED BY <2>1, <2>2, <2>3, <3>1
  <2>4. ASSUME NEW q \in Requests, q # s.req
        PROVE  \A d \in cases' : d.from = q => d \in cases
    BY <2>1, <2>4
  <2> QED BY <2>1, <2>2, <2>3, <2>4 DEF OneCasePerRequest
<1>3. CASE UNCHANGED <<status, link, cases>>
  BY <1>3 DEF OneCasePerRequest
<1> QED BY <1>1, <1>2, <1>3, RowSteps

(***************************************************************************)
(* However accept, reject, assign, retries and crashes interleave, a       *)
(* request is converted exactly when one case was opened from it.          *)
(***************************************************************************)
THEOREM OneCaseAlways == Spec => []OneCasePerRequest
<1>1. Init => TypeInv /\ OneCasePerRequest
  BY TypeInit DEF Init, OneCasePerRequest
<1>2. (TypeInv /\ OneCasePerRequest) /\ [Next]_vars => (TypeInv /\ OneCasePerRequest)'
  BY TypeStep, OneCaseStep
<1> QED BY <1>1, <1>2, PTL DEF Spec
-----------------------------------------------------------------------------
(***************************************************************************)
(* Numbers have no gaps.  A call holds a number that is 1 or follows a     *)
(* used one; cases are never deleted, so it still does when the call       *)
(* inserts, whatever was inserted or rolled back in between.               *)
(***************************************************************************)
NumbersFollow ==
  \A c \in Calls : call[c].pc = "inserting" =>
    call[c].number = 1 \/ call[c].number - 1 \in UsedNumbers

GapInv == TypeInv /\ NumbersFollow /\ NumbersHaveNoGaps

\* A call about to insert was about to before, or has just read its number.
LEMMA InsertingCalls ==
  ASSUME TypeInv, [Next]_vars, NEW d \in Calls, call'[d].pc = "inserting"
  PROVE  \/ call'[d] = call[d]
         \/ ReadNumber(d) /\ call'[d].number = NextNumber(UsedNumbers)
<1> USE DEF TypeInv, TypeOK
<1> Idle.pc = "idle"
  BY DEF Idle
<1>1. ASSUME NEW c \in Calls, ReadNumber(c)
      PROVE  \/ call'[d] = call[d]
             \/ ReadNumber(d) /\ call'[d].number = NextNumber(UsedNumbers)
  BY <1>1 DEF ReadNumber, CallState
<1>2. ASSUME NEW c \in Calls, NEW r \in Requests, Create(c, r) \/ Accept(c, r) \/ Reject(c, r)
      PROVE  call'[d] = call[d]
  <2>1. /\ \A k : Emitting(r, k).pc = "emitting"
        /\ \E k : call' = [call EXCEPT ![c] = Emitting(r, k)]
    BY <1>2 DEF Create, Accept, Reject, Claim, Emitting, Idle
  <2> QED BY <2>1
<1>3. ASSUME NEW c \in Calls, NEW r \in Requests, NEW team \in SUBSET Lawyers, Assign(c, r, team)
      PROVE  call'[d] = call[d]
  BY <1>3 DEF Assign, Vetting, Idle
<1>4. ASSUME NEW c \in Calls, NEW client \in Clients, NEW lead \in Lawyers,
             OpenForClient(c, client, lead) \/ OpenOwn(c, client, lead)
      PROVE  call'[d] = call[d]
  <2>1. CASE OpenForClient(c, client, lead)
    BY <2>1 DEF OpenForClient, Vetting, Idle
  <2>2. CASE OpenOwn(c, client, lead)
    BY <2>2 DEF OpenOwn, Vetting, Numbered, Idle
  <2> QED BY <1>4, <2>1, <2>2
<1>5. ASSUME NEW c \in Calls, Vet(c) \/ InsertRefused(c) \/ Emit(c)
      PROVE  call'[d] = call[d]
  <2>1. CASE Vet(c)
    BY <2>1 DEF Vet, Numbered
  <2>2. CASE InsertRefused(c)
    BY <2>2 DEF InsertRefused
  <2>3. CASE Emit(c)
    BY <2>3 DEF Emit
  <2> QED BY <1>5, <2>1, <2>2, <2>3
<1>6. ASSUME NEW c \in Calls, Insert(c)
      PROVE  call'[d] = call[d]
  BY <1>6 DEF Insert, Emitting, Idle
<1>7. ASSUME NEW c \in Calls, InsertClash(c)
      PROVE  call'[d] = call[d]
  <2>1. Retry(call[c]).pc = "numbering"
    BY DEF Retry, CallState
  <2> QED BY <1>7, <2>1 DEF InsertClash
<1>8. CASE Crash
  BY <1>8 DEF Crash
<1>9. ASSUME \/ \E m \in Requests \X Kinds : Notify(m)
             \/ \E u \in Users : SetActive(u)
             \/ UNCHANGED vars
      PROVE  call'[d] = call[d]
  BY <1>9 DEF Notify, SetActive, vars
<1> QED BY <1>1, <1>2, <1>3, <1>4, <1>5, <1>6, <1>7, <1>8, <1>9 DEF Next, Advance

LEMMA GapStep ==
  ASSUME GapInv, [Next]_vars
  PROVE  GapInv'
<1>1. TypeInv'
  BY TypeStep DEF GapInv
<1>2. UsedNumbers \subseteq UsedNumbers'
  <2>1. ASSUME NEW c \in Calls, NEW r \in Requests, Create(c, r) \/ Accept(c, r) \/ Reject(c, r)
        PROVE  UNCHANGED cases
    BY <2>1 DEF Create, Accept, Reject, Claim
  <2>2. ASSUME NEW c \in Calls, Insert(c) PROVE cases \subseteq cases'
    BY <2>2 DEF Insert
  <2> QED BY <2>1, <2>2, RowSteps DEF UsedNumbers
<1>3. NumbersFollow'
  <2> SUFFICES ASSUME NEW d \in Calls, call'[d].pc = "inserting"
               PROVE  call'[d].number = 1 \/ call'[d].number - 1 \in UsedNumbers'
    BY DEF NumbersFollow
  <2>1. CASE call'[d] = call[d]
    BY <2>1, <1>2 DEF GapInv, NumbersFollow
  <2>2. CASE call'[d].number = NextNumber(UsedNumbers)
    BY <2>2, <1>2, NumberRead DEF GapInv
  <2> QED BY <2>1, <2>2, InsertingCalls DEF GapInv
<1>4. NumbersHaveNoGaps'
  <2>1. ASSUME NEW c \in Calls, Insert(c) PROVE NumbersHaveNoGaps'
    <3> DEFINE new == call[c].number
    <3>1. UsedNumbers' = UsedNumbers \cup {new}
      BY <2>1, NumberInserted
    <3>2. new \in Nat /\ (new = 1 \/ new - 1 \in UsedNumbers)
      BY <2>1 DEF GapInv, NumbersFollow, Insert, TypeInv, TypeOK, CallState
    <3> HIDE DEF new
    <3>3. \A m \in 1 .. new : m \in UsedNumbers \cup {new}
      <4> SUFFICES ASSUME NEW m \in 1 .. new, m # new PROVE m \in UsedNumbers
        OBVIOUS
      <4>1. m \in 1 .. new - 1 /\ new # 1
        BY <3>2
      <4> QED BY <4>1, <3>2 DEF GapInv, NumbersHaveNoGaps
    <3> QED BY <3>1, <3>3 DEF GapInv, NumbersHaveNoGaps
  <2>2. ASSUME NEW c \in Calls, NEW r \in Requests, Create(c, r) \/ Accept(c, r) \/ Reject(c, r)
        PROVE  UNCHANGED cases
    BY <2>2 DEF Create, Accept, Reject, Claim
  <2>3. CASE UNCHANGED cases
    BY <2>3 DEF GapInv, NumbersHaveNoGaps, UsedNumbers
  <2> QED BY <2>1, <2>2, <2>3, RowSteps
<1> QED BY <1>1, <1>3, <1>4 DEF GapInv

(***************************************************************************)
(* Case numbers are handed out without gaps, also beyond the padding,      *)
(* where the number offered may be a used one.                             *)
(***************************************************************************)
THEOREM NoGapsEver == Spec => []NumbersHaveNoGaps
<1>1. Init => GapInv
  BY TypeInit DEF Init, GapInv, NumbersFollow, NumbersHaveNoGaps, UsedNumbers, Idle
<1>2. GapInv /\ [Next]_vars => GapInv'
  BY GapStep
<1>3. GapInv => NumbersHaveNoGaps
  BY DEF GapInv
<1> QED BY <1>1, <1>2, <1>3, PTL DEF Spec
-----------------------------------------------------------------------------
(***************************************************************************)
(* Announcements.  A decision is announced for the first time in the step  *)
(* that takes it, when it was not true before; from then on the            *)
(* announcement only moves: call, event, notification.                     *)
(***************************************************************************)
Announced(r, k) == notices[<<r, k>>] + outbox[<<r, k>>]

Matched(r, k) ==
  /\ Announced(r, k) <= 1
  /\ \A c \in Calls : Speaks(c, r, k) =>
       /\ Announced(r, k) = 0
       /\ \A d \in Calls : Speaks(d, r, k) => d = c
  /\ (Announced(r, k) > 0 \/ \E c \in Calls : Speaks(c, r, k)) => Told(r, k)

LEMMA MatchedEverywhere ==
  NoticesMatchDecisions <=> \A r \in Requests, k \in Kinds : Matched(r, k)
BY DEF NoticesMatchDecisions, Matched, Announced

LEMMA AnnouncedIsNumber ==
  ASSUME TypeInv, NEW r \in Requests, NEW k \in Kinds
  PROVE  /\ notices[<<r, k>>] \in Nat /\ outbox[<<r, k>>] \in Nat
         /\ Announced(r, k) \in Nat
BY DEF TypeInv, TypeOK, Announced

\* What was decided stays decided.
LEMMA ToldStays ==
  ASSUME TypeInv, [Next]_vars, NEW r \in Requests, NEW k \in Kinds, Told(r, k)
  PROVE  Told(r, k)'
<1> USE DEF TypeInv, TypeOK
<1>1. \/ status'[r] = status[r]
      \/ status[r] = "ABSENT" /\ status'[r] = "NEW"
      \/ status[r] = "NEW" /\ status'[r] \in {"ACCEPTED", "REJECTED"}
      \/ status[r] = "ACCEPTED" /\ status'[r] \in {"REJECTED", "CONVERTED"}
  <2>1. ASSUME NEW c \in Calls, NEW q \in Requests, Create(c, q) \/ Accept(c, q) \/ Reject(c, q)
        PROVE  <1>1!:
    BY <2>1 DEF Create, Accept, Reject, Claim
  <2>2. ASSUME NEW c \in Calls, Insert(c)
        PROVE  <1>1!:
    <3>1. call[c].req = r => call[c].req # None
      BY IntakeAssumption
    <3> QED BY <2>2, <3>1 DEF Insert, StillWanted
  <2> QED BY <2>1, <2>2, RowSteps
<1> QED BY <1>1 DEF Told, Kinds, Statuses

\* Nothing is added to what is announced about r and k.
LEMMA MatchedKept ==
  ASSUME TypeInv, [Next]_vars, NEW r \in Requests, NEW k \in Kinds, Matched(r, k),
         Announced(r, k)' \in Nat, Announced(r, k)' <= Announced(r, k),
         \A d \in Calls : Speaks(d, r, k)' => Speaks(d, r, k)
  PROVE  Matched(r, k)'
<1>1. Announced(r, k) \in Nat
  BY AnnouncedIsNumber
<1>2. Told(r, k) => Told(r, k)'
  BY ToldStays
<1> QED BY <1>1, <1>2 DEF Matched

\* The first announcement of a decision just taken.
LEMMA MatchedNew ==
  ASSUME TypeInv, NEW r \in Requests, NEW k \in Kinds, Matched(r, k),
         ~ Told(r, k), Told(r, k)',
         Announced(r, k)' = Announced(r, k),
         NEW c \in Calls, \A d \in Calls : d # c => (Speaks(d, r, k)' <=> Speaks(d, r, k))
  PROVE  Matched(r, k)'
<1>1. Announced(r, k) \in Nat
  BY AnnouncedIsNumber
<1>2. Announced(r, k) = 0 /\ \A d \in Calls : ~ Speaks(d, r, k)
  BY <1>1 DEF Matched
<1> QED BY <1>2 DEF Matched

LEMMA MatchedStep ==
  ASSUME TypeInv, NoticesMatchDecisions, [Next]_vars
  PROVE  NoticesMatchDecisions'
<1> SUFFICES ASSUME NEW r \in Requests, NEW k \in Kinds PROVE Matched(r, k)'
  BY DEF NoticesMatchDecisions, Matched, Announced
<1> Matched(r, k)
  BY MatchedEverywhere
<1> /\ notices[<<r, k>>] \in Nat /\ outbox[<<r, k>>] \in Nat
    /\ Announced(r, k) \in Nat
  BY AnnouncedIsNumber
<1> Idle.pc = "idle"
  BY DEF Idle
<1>1. ASSUME NEW c \in Calls, NEW q \in Requests, NEW from, NEW to \in Statuses, NEW l \in Kinds,
             Claim(c, q, from, to, l),
             status[q] \in from => Told(q, l)' /\ ~ Told(q, l)
      PROVE  Matched(r, k)'
  <2>1. Announced(r, k)' = Announced(r, k)
    BY <1>1 DEF Claim, Announced
  <2>2. \A d \in Calls : d # c => (Speaks(d, r, k)' <=> Speaks(d, r, k))
    BY <1>1 DEF Claim, Speaks, TypeInv, TypeOK
  <2>3. Speaks(c, r, k)' => r = q /\ k = l
    BY <1>1 DEF Claim, Speaks, Emitting, Idle, TypeInv, TypeOK
  <2>4. CASE r = q /\ k = l
    BY <1>1, <2>1, <2>2, <2>4, MatchedNew DEF Claim
  <2>5. CASE ~ (r = q /\ k = l)
    BY <2>1, <2>2, <2>3, <2>5, MatchedKept
  <2> QED BY <2>4, <2>5
<1>2. ASSUME NEW c \in Calls, NEW q \in Requests, Create(c, q) \/ Accept(c, q) \/ Reject(c, q)
      PROVE  Matched(r, k)'
  <2>1. CASE Create(c, q)
    <3>1. Claim(c, q, {"ABSENT"}, "NEW", "created") /\ status'[q] = "NEW"
      BY <2>1 DEF Create, Claim, TypeInv, TypeOK
    <3>2. status[q] \in {"ABSENT"} => Told(q, "created")' /\ ~ Told(q, "created")
      BY <3>1 DEF Told, Statuses
    <3> QED BY <1>1, <3>1, <3>2 DEF Statuses, Kinds
  <2>2. CASE Accept(c, q)
    <3>1. Claim(c, q, {"NEW"}, "ACCEPTED", "accepted") /\ status'[q] = "ACCEPTED"
      BY <2>2 DEF Accept, Claim, TypeInv, TypeOK
    <3>2. status[q] \in {"NEW"} => Told(q, "accepted")' /\ ~ Told(q, "accepted")
      BY <3>1 DEF Told, Statuses
    <3> QED BY <1>1, <3>1, <3>2 DEF Statuses, Kinds
  <2>3. CASE Reject(c, q)
    <3>1. Claim(c, q, {"NEW", "ACCEPTED"}, "REJECTED", "rejected") /\ status'[q] = "REJECTED"
      BY <2>3 DEF Reject, Claim, TypeInv, TypeOK
    <3>2. status[q] \in {"NEW", "ACCEPTED"} => Told(q, "rejected")' /\ ~ Told(q, "rejected")
      BY <3>1 DEF Told, Statuses
    <3> QED BY <1>1, <3>1, <3>2 DEF Statuses, Kinds
  <2> QED BY <1>2, <2>1, <2>2, <2>3
<1>3. ASSUME NEW c \in Calls, Insert(c)
      PROVE  Matched(r, k)'
  <2>1. Announced(r, k)' = Announced(r, k)
    BY <1>3 DEF Insert, Announced
  <2>2. \A d \in Calls : d # c => (Speaks(d, r, k)' <=> Speaks(d, r, k))
    BY <1>3 DEF Insert, Speaks, TypeInv, TypeOK
  <2>3. Speaks(c, r, k)' => r = call[c].req /\ k = "assigned"
    BY <1>3 DEF Insert, Speaks, Emitting, Idle, TypeInv, TypeOK
  <2>4. CASE r = call[c].req /\ k = "assigned"
    <3>1. status[r] = "ACCEPTED" /\ status'[r] = "CONVERTED"
      BY <1>3, <2>4, IntakeAssumption DEF Insert, StillWanted
    <3>2. ~ Told(r, k) /\ Told(r, k)'
      BY <2>4, <3>1 DEF Told
    <3> QED BY <2>1, <2>2, <3>2, MatchedNew
  <2>5. CASE ~ (r = call[c].req /\ k = "assigned")
    BY <2>1, <2>2, <2>3, <2>5, MatchedKept
  <2> QED BY <2>4, <2>5
<1>4. ASSUME NEW c \in Calls, Emit(c)
      PROVE  Matched(r, k)'
  <2>1. /\ outbox' = [outbox EXCEPT ![<<call[c].req, call[c].kind>>] = @ + 1]
        /\ UNCHANGED notices
        /\ outbox \in [Requests \X Kinds -> Nat]
    BY <1>4 DEF Emit, TypeInv, TypeOK
  <2>2. \A d \in Calls : d # c => (Speaks(d, r, k)' <=> Speaks(d, r, k))
    BY <1>4 DEF Emit, Speaks, TypeInv, TypeOK
  <2>3. ~ Speaks(c, r, k)'
    BY <1>4 DEF Emit, Speaks, TypeInv, TypeOK
  <2>4. CASE Speaks(c, r, k)
    <3>1. outbox'[<<r, k>>] = outbox[<<r, k>>] + 1
      BY <2>1, <2>4 DEF Speaks
    <3>2. Announced(r, k)' = 1
      <4>1. Announced(r, k) = 0
        BY <2>4 DEF Matched
      <4> QED BY <2>1, <3>1, <4>1 DEF Announced
    <3>3. \A d \in Calls : ~ Speaks(d, r, k)'
      BY <2>2, <2>3, <2>4 DEF Matched
    <3>4. Told(r, k)'
      BY <2>4, ToldStays DEF Matched
    <3> QED BY <3>2, <3>3, <3>4 DEF Matched
  <2>5. CASE ~ Speaks(c, r, k)
    <3>1. <<call[c].req, call[c].kind>> # <<r, k>>
      BY <1>4, <2>5 DEF Emit, Speaks
    <3>2. Announced(r, k)' = Announced(r, k)
      BY <2>1, <3>1 DEF Announced
    <3> QED BY <2>2, <2>3, <3>2, MatchedKept
  <2> QED BY <2>4, <2>5
<1>5. ASSUME NEW m \in Requests \X Kinds, Notify(m)
      PROVE  Matched(r, k)'
  <2>1. /\ outbox' = [outbox EXCEPT ![m] = outbox[m] - 1] /\ outbox[m] > 0
        /\ notices' = [notices EXCEPT ![m] = notices[m] + 1] \/ notices' = notices
        /\ outbox \in [Requests \X Kinds -> Nat] /\ notices \in [Requests \X Kinds -> Nat]
    BY <1>5 DEF Notify, TypeInv, TypeOK
  <2>2. Announced(r, k)' \in Nat /\ Announced(r, k)' <= Announced(r, k)
    <3>1. CASE m = <<r, k>>
      BY <2>1, <3>1 DEF Announced
    <3>2. CASE m # <<r, k>>
      BY <2>1, <3>2 DEF Announced
    <3> QED BY <3>1, <3>2
  <2>3. \A d \in Calls : Speaks(d, r, k)' => Speaks(d, r, k)
    BY <1>5 DEF Notify, Speaks
  <2> QED BY <2>2, <2>3, MatchedKept
<1>6. CASE Crash
  <2>1. \A d \in Calls : ~ Speaks(d, r, k)'
    BY <1>6 DEF Crash, Speaks
  <2>2. outbox'[<<r, k>>] = 0 /\ UNCHANGED notices
    BY <1>6 DEF Crash
  <2>3. Announced(r, k)' \in Nat /\ Announced(r, k)' <= Announced(r, k)
    BY <2>2 DEF Announced
  <2> QED BY <2>1, <2>3, MatchedKept
<1>7. ASSUME \/ \E c \in Calls, q \in Requests, team \in SUBSET Lawyers : Assign(c, q, team)
             \/ \E c \in Calls, client \in Clients, lead \in Lawyers :
                  OpenForClient(c, client, lead) \/ OpenOwn(c, client, lead)
             \/ \E c \in Calls : Vet(c) \/ ReadNumber(c) \/ InsertRefused(c) \/ InsertClash(c)
             \/ \E u \in Users : SetActive(u)
             \/ UNCHANGED vars
      PROVE  Matched(r, k)'
  <2>1. Announced(r, k)' = Announced(r, k)
    BY <1>7 DEF Assign, OpenForClient, OpenOwn, Vet, ReadNumber, InsertRefused, InsertClash,
                SetActive, vars, Announced
  <2>2. \A d \in Calls : Speaks(d, r, k)' => Speaks(d, r, k)
    <3> USE DEF Speaks, TypeInv, TypeOK
    <3>1. ASSUME NEW c \in Calls, NEW q, NEW team, Assign(c, q, team) PROVE <2>2!:
      BY <3>1 DEF Assign, Vetting, Idle
    <3>2. ASSUME NEW c \in Calls, NEW client, NEW lead,
                 OpenForClient(c, client, lead) \/ OpenOwn(c, client, lead)
          PROVE  <2>2!:
      <4>1. CASE OpenForClient(c, client, lead)
        BY <4>1 DEF OpenForClient, Vetting, Idle
      <4>2. CASE OpenOwn(c, client, lead)
        BY <4>2 DEF OpenOwn, Vetting, Numbered, Idle
      <4> QED BY <3>2, <4>1, <4>2
    <3>3. ASSUME NEW c \in Calls, Vet(c) \/ InsertRefused(c) PROVE <2>2!:
      BY <3>3 DEF Vet, InsertRefused, Numbered, Idle
    <3>4. ASSUME NEW c \in Calls, ReadNumber(c) PROVE <2>2!:
      BY <3>4 DEF ReadNumber, CallState
    <3>5. ASSUME NEW c \in Calls, InsertClash(c) PROVE <2>2!:
      <4>1. Retry(call[c]).pc = "numbering"
        BY DEF Retry, CallState
      <4> QED BY <3>5, <4>1 DEF InsertClash
    <3>6. CASE (\E u \in Users : SetActive(u)) \/ UNCHANGED vars
      BY <3>6 DEF SetActive, vars
    <3> QED BY <1>7, <3>1, <3>2, <3>3, <3>4, <3>5, <3>6
  <2> QED BY <2>1, <2>2, MatchedKept
<1> QED BY <1>2, <1>3, <1>4, <1>5, <1>6, <1>7 DEF Next, Advance

(***************************************************************************)
(* Nobody is told twice, or of a decision that was not taken.              *)
(***************************************************************************)
THEOREM NoticesAlwaysMatch == Spec => []NoticesMatchDecisions
<1>1. Init => TypeInv /\ NoticesMatchDecisions
  BY TypeInit DEF Init, NoticesMatchDecisions, Speaks, Idle
<1>2. (TypeInv /\ NoticesMatchDecisions) /\ [Next]_vars => (TypeInv /\ NoticesMatchDecisions)'
  BY TypeStep, MatchedStep
<1> QED BY <1>1, <1>2, PTL DEF Spec
-----------------------------------------------------------------------------
(***************************************************************************)
(* The intake implements IntakePromise.                                    *)
(***************************************************************************)
CasesOf == [r \in Requests |-> {d.number : d \in {e \in cases : e.from = r}}]

LEMMA PromiseStep ==
  ASSUME TypeInv, OneCasePerRequest, [Next]_vars
  PROVE  [Promise!Next]_(Promise!vars)
<1>1. ASSUME NEW c \in Calls, NEW r \in Requests, Create(c, r) \/ Accept(c, r) \/ Reject(c, r)
      PROVE  Promise!Next
  <2>1. UNCHANGED cases
    BY <1>1 DEF Create, Accept, Reject, Claim
  <2>2. \/ Promise!Move(r, {"ABSENT"}, "NEW")
        \/ Promise!Move(r, {"NEW"}, "ACCEPTED")
        \/ Promise!Move(r, {"NEW", "ACCEPTED"}, "REJECTED")
    BY <1>1 DEF Create, Accept, Reject, Claim, Promise!Move
  <2> QED BY <2>1, <2>2 DEF Promise!Next, Promise!Submit, Promise!Accept, Promise!Reject
<1>2. ASSUME NEW c \in Calls, Insert(c)
      PROVE  [Promise!Next]_(Promise!vars)
  <2> DEFINE s == call[c]
             new == NewCase(s)
  <2>1. /\ cases' = cases \cup {new}
        /\ new.from = s.req /\ new.number = s.number
        /\ s.number \notin UsedNumbers
        /\ s.req \in Requests \cup {None}
    BY <1>2 DEF Insert, NewCase, TypeInv, TypeOK, CallState
  <2>2. /\ s.req # None => status[s.req] = "ACCEPTED"
        /\ status' = [q \in Requests |-> IF q = s.req THEN "CONVERTED" ELSE status[q]]
        /\ status \in [Requests -> Statuses]
    BY <1>2 DEF Insert, StillWanted, TypeInv, TypeOK
  <2> HIDE DEF s, new
  <2>3. CASE s.req = None
    <3>1. \A q \in Requests : q # s.req
      BY <2>3, IntakeAssumption
    <3>2. status' = status
      BY <2>2, <3>1
    <3>3. \A q \in Requests : {e \in cases' : e.from = q} = {e \in cases : e.from = q}
      BY <2>1, <3>1
    <3>4. CasesOf' = CasesOf
      BY <3>3 DEF CasesOf
    <3> QED BY <3>2, <3>4 DEF Promise!vars, CasesOf
  <2>4. CASE s.req \in Requests
    <3> DEFINE r == s.req
    <3>1. status[r] = "ACCEPTED" /\ status' = [status EXCEPT ![r] = "CONVERTED"]
      BY <2>2, <2>4, IntakeAssumption
    <3>2. \A e \in cases : e.from # r
      BY <2>4, <3>1 DEF OneCasePerRequest
    <3>3. {e \in cases' : e.from = r} = {new}
      BY <2>1, <3>2
    <3>4. CasesOf'[r] = {s.number}
      BY <2>1, <2>4, <3>3 DEF CasesOf
    <3>5. \A q \in Requests : q # r => CasesOf'[q] = CasesOf[q]
      <4> TAKE q \in Requests
      <4>1. q # r => {e \in cases' : e.from = q} = {e \in cases : e.from = q}
        BY <2>1
      <4> QED BY <4>1 DEF CasesOf
    <3>6. CasesOf' = [CasesOf EXCEPT ![r] = {s.number}]
      BY <2>4, <3>4, <3>5 DEF CasesOf
    <3>7. \A q \in Requests : s.number \notin CasesOf[q]
      BY <2>1 DEF CasesOf, UsedNumbers
    <3>8. Promise!Convert(r)
      BY <2>4, <3>1, <3>4, <3>6, <3>7 DEF Promise!Convert, Promise!Move, CasesOf
    <3> HIDE DEF r
    <3>9. r \in Requests
      BY <2>4 DEF r
    <3>10. Promise!Next
      BY <3>8, <3>9, ZenonT(30) DEF Promise!Next, Promise!Convert, Promise!Move
    <3> QED BY <3>10
  <2> QED BY <2>1, <2>3, <2>4
<1>3. CASE UNCHANGED <<status, link, cases>>
  BY <1>3 DEF Promise!vars
<1> QED BY <1>1, <1>2, <1>3, RowSteps

(***************************************************************************)
(* Every behaviour of the intake is, seen through its rows, a behaviour of *)
(* IntakePromise: a request moves in the promised indivisible steps, and   *)
(* its case appears in the very step that converts it.                     *)
(***************************************************************************)
THEOREM IntakeKeepsThePromise == Spec => KeepsThePromise
<1>1. Init => TypeInv /\ OneCasePerRequest
  BY TypeInit DEF Init, OneCasePerRequest
<1>2. (TypeInv /\ OneCasePerRequest) /\ [Next]_vars => (TypeInv /\ OneCasePerRequest)'
  BY TypeStep, OneCaseStep
<1>3. Init => Promise!Init
  BY DEF Init, Promise!Init
<1>4. (TypeInv /\ OneCasePerRequest) /\ [Next]_vars => [Promise!Next]_(Promise!vars)
  BY PromiseStep
<1> QED BY <1>1, <1>2, <1>3, <1>4, PTL DEF Spec, KeepsThePromise, Promise!Spec
=============================================================================
