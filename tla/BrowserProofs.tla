---------------------------- MODULE BrowserProofs ----------------------------
(***************************************************************************)
(* Proofs about what runs in the browser, for any number of tabs,          *)
(* requests, tokens, cards and moves, any filters and any pages of rows.   *)
(* The five parts of MCBrowser share no variable, so each has an invariant *)
(* of its own; BrowserSpec runs them side by side, of which MCBrowser      *)
(* looks at one at a time.                                                 *)
(***************************************************************************)
EXTENDS MCBrowser, TLAPS

(***************************************************************************)
(* The tabs.  What a call at place c has in its locals, when these are the *)
(* rows of n tokens.                                                       *)
(***************************************************************************)
Fits(c, k, rows, n) ==
  /\ k \in CallState
  /\ c \in Tabs => k.pc \notin {"opening", "leaving", "ending"}
  /\ c \in Others => k.pc \notin {"loading", "rotating", "counting", "revoking", "issuing"}
  /\ k.pc = "idle" => k = Idle
  /\ k.fam = 0 \/ \E t \in 1..n : k.fam = rows[t].fam
  /\ k.pc \in {"rotating", "counting", "issuing"} => k.fam # 0
  /\ k.pc = "opening" => k.fam = 0
  /\ k.tok # 0 => /\ k.pc \in {"loading", "rotating", "leaving"}
                  /\ k.tok \in 1..n /\ k.fam = rows[k.tok].fam
  /\ k.pc \in {"rotating", "leaving"} => k.tok # 0
  /\ k.new # 0 => k.pc = "answered" /\ k.new \in 1..n /\ k.fam = rows[k.new].fam
  /\ k.pc = "answered" => k.new # 0
  /\ k.seen => k.pc = "counting"

TokensKnown ==
  /\ \A t \in 1..issued : token[t].fam \in 1..issued
  /\ \A f \in Ids : f > issued => fate[f] = "open"

TabsTyped == TypeOK /\ TokensKnown /\ \A c \in Calls : Fits(c, call[c], token, issued)

\* A session with a live token has not ended.
AliveNotEnded == \A t \in 1..issued : token[t].state = "live" => fate[token[t].fam] # "ended"

\* An open session has a live token, or a refresh is about to give it one.
GapBridged ==
  \A t \in 1..issued : LET f == token[t].fam IN fate[f] = "open" =>
    \/ \E u \in 1..issued : token[u].state = "live" /\ token[u].fam = f
    \/ \E d \in Tabs : call[d].pc = "issuing" /\ call[d].fam = f

\* What a call has seen is still so, unless it was overtaken.
SeenUnlessOvertaken ==
  \A c \in Calls : ~ call[c].overtaken =>
    /\ call[c].pc \in {"rotating", "issuing"} => active /\ fate[call[c].fam] # "ended"
    /\ call[c].pc = "counting" /\ call[c].seen => active
    /\ call[c].pc = "opening" => active

\* A token that has not arrived is not in use, and lives as long as its session is open.
NewUnused ==
  \A c \in Calls : call[c].new # 0 =>
    LET n == call[c].new
    IN  /\ token[n].state = "live" \/ fate[token[n].fam] # "open"
        /\ cookie # n
        /\ \A d \in Calls : call[d].tok # n
        /\ \A d \in Calls \ {c} : call[d].new # n

\* Behind a cookie that has lost its token, an answer is on its way.
CookieFollowed ==
  cookie = 0 \/ token[cookie].state = "live" \/ fate[token[cookie].fam] # "open"
    \/ \E d \in Calls : /\ call[d].pc \in {"issuing", "answered", "refused"}
                        /\ call[d].fam = token[cookie].fam

TabsInv ==
  /\ TabsTyped /\ AliveNotEnded /\ GapBridged /\ SeenUnlessOvertaken
  /\ NewUnused /\ CookieFollowed

(***************************************************************************)
(* The board.                                                              *)
(***************************************************************************)
MovesFit ==
  /\ \A m \in Moves : UnderWay(m) /\ move[m].drag => move[m].before \in Lists
  /\ board.fetch = "answered" => board.answer \in Lists

\* No list is on its way that could move a card where it was dropped.
NothingToUndo == \A m \in Moves : UnderWay(m) /\ move[m].drag /\ move[m].steady => board.fetch = "idle"

\* A change is under way after which the list is fetched anew.
Ahead(c) == \E m \in Moves : (UnderWay(m) /\ move[m].drag) \/ (move[m].pc = "done" /\ move[m].card = c)

ListsComeTrue ==
  \A c \in Cards \ board.behind :
    /\ board.fetch = "idle" /\ ~board.failed => board.page[c] = card[c] \/ Ahead(c)
    /\ board.fetch = "answered" => board.answer[c] = card[c] \/ Ahead(c)

BoardInv == BoardTypeOK /\ MovesFit /\ CardsStayWhereDropped /\ NothingToUndo /\ ListsComeTrue

(***************************************************************************)
(* The visits.                                                             *)
(***************************************************************************)
\* An open page has the provider of its layout, which has asked for the user.
PageMounted ==
  view.pc = "open" =>
    /\ user.area = Area(view.at.route)
    /\ user.area # "none" /\ user.me = "none" => user.fetch # "idle"

\* Whoever was refused has no session, and is told so on the page.
TurnedAway ==
  ~view.mishap /\ user.me \in {"failed", "broken"} /\ user.fetch = "idle" =>
    \/ user.area = "none"
    \/ ~HasSession /\ (view.pc = "open" => ~user.told)

StaffUnseen == view.pc = "open" /\ view.at.route = "portal" /\ account.staff => view.blind

\* Towards the goal, or home when that was meant or the goal was forgotten.
HeadingHome == view.detour \/ view.goal.route \in {"portal", "admin", "login"}

OnCourse ==
  /\ view.at.route \in {"portal", "admin"} => HeadingHome
  /\ "cases" \in {view.at.route, view.next.route} => view.goal.route = "cases"
  /\ view.at.route = "login" => HeadingHome \/ (~HasSession /\ view.next.route = "cases")

VisitInv == NavTypeOK /\ PageMounted /\ TurnedAway /\ StaffUnseen /\ OnCourse

(***************************************************************************)
(* The lists.                                                              *)
(***************************************************************************)
MeantIs(text, filter) == list.meant.text = text /\ list.meant.filter = filter
Boxed == Trim(list.box)
InBounds(q) == q.page = 1 \/ q.page <= PagesOf[q.text, q.filter]

\* The rows on the screen are those of the query, or others are fetched.
RowsFollow == list.fetch \/ list.shown \in {list.at, None}

\* What was meant is in the box, in the address on its way, or in the address,
\* and the page that the address will say exists.
UrlFollows ==
  /\ list.timer => Boxed # list.at.text
  /\ ~list.crossed =>
       /\ ~OnTheWay /\ ~list.timer => Boxed = list.at.text /\ MeantIs(list.at.text, list.at.filter)
       /\ ~OnTheWay /\ list.timer => MeantIs(Boxed, list.at.filter)
       /\ OnTheWay /\ ~list.timer =>
            /\ Boxed = list.at.text \/ list.way.text # list.at.text
            /\ MeantIs(list.way.text, list.way.filter)
       /\ OnTheWay /\ list.timer =>
            \/ list.way.text # list.at.text /\ MeantIs(list.way.text, list.way.filter)
            \/ list.way.text = list.at.text /\ MeantIs(Boxed, list.way.filter)
  /\ ~list.early => /\ OnTheWay => InBounds(list.way)
                    /\ ~OnTheWay => InBounds(list.at)

LocalFollows ==
  /\ ~OnTheWay
  /\ list.timer \/ Boxed = list.at.text
  /\ list.meant.filter = list.at.filter
  /\ ~list.crossed /\ ~list.unheard =>
       /\ list.timer => list.meant.text = Boxed
       /\ ~list.timer => list.meant.text = list.at.text
  /\ ~list.early => InBounds(list.at)

PortalFollows ==
  /\ list.timer \/ Boxed = list.at.text
  /\ list.meant.filter = list.at.filter
  /\ ~list.crossed /\ ~list.unheard =>
       /\ OnTheWay => list.meant.text = list.way.text
       /\ ~OnTheWay /\ list.timer => list.meant.text = Boxed
       /\ ~OnTheWay /\ ~list.timer => list.meant.text = list.at.text
  /\ ~list.early => /\ list.timer => list.at.page = 1
                    /\ ~list.timer => InBounds(list.at)

ListInv ==
  /\ ListTypeOK /\ RowsFollow
  /\ list.kind = "url" => UrlFollows
  /\ list.kind = "local" => LocalFollows
  /\ list.kind = "portal" => PortalFollows
-----------------------------------------------------------------------------
(***************************************************************************)
(* The tabs: how a step may change the calls.                              *)
(***************************************************************************)
Overtaken(k) == [k EXCEPT !.overtaken = TRUE]

\* Call c now stands at k; others may have been overtaken.
Only(c, k) ==
  /\ call' = [d \in Calls |-> call'[d]]
  /\ call'[c] = k
  /\ \A d \in Calls \ {c} : call'[d] \in {call[d], Overtaken(call[d])}

\* Tokens stay, and those issued stay in their sessions.
TokensKept == issued' \in issued..MaxTokens /\ \A t \in 1..issued : token'[t].fam = token[t].fam

\* All but overtaken is the same.
Alike(k, l) == k.pc = l.pc /\ k.tok = l.tok /\ k.fam = l.fam /\ k.new = l.new /\ k.seen = l.seen

LEMMA IdleFits ==
  /\ Idle \in CallState /\ Idle.pc = "idle" /\ Idle.tok = 0 /\ Idle.fam = 0 /\ Idle.new = 0
  /\ ~ Idle.seen /\ ~ Idle.overtaken
  /\ \A rows, n : \A c \in Calls : Fits(c, Idle, rows, n)
<1>1. /\ Idle \in CallState /\ Idle.pc = "idle" /\ Idle.tok = 0 /\ Idle.fam = 0 /\ Idle.new = 0
      /\ ~ Idle.seen /\ ~ Idle.overtaken
  BY SessionsAssumption DEF Idle, CallState
<1> QED BY <1>1 DEF Fits

LEMMA OvertakenAlike ==
  ASSUME NEW k \in CallState
  PROVE  Overtaken(k) \in CallState /\ Alike(Overtaken(k), k) /\ Overtaken(k).overtaken
BY DEF Overtaken, CallState, Alike

LEMMA FitsStays ==
  ASSUME TabsTyped, TokensKept, NEW c \in Calls, NEW k, Fits(c, k, token, issued)
  PROVE  Fits(c, k, token', issued')
<1>1. issued \in Nat /\ issued' \in Nat /\ issued =< issued'
  BY SessionsAssumption DEF TabsTyped, TypeOK, ServerTypeOK, TokensKept
<1>2. \A t \in 1..issued : t \in 1..issued' /\ token'[t].fam = token[t].fam
  BY <1>1 DEF TokensKept
<1>3. k.fam = 0 \/ \E t \in 1..issued' : k.fam = token'[t].fam
  BY <1>2 DEF Fits
<1> QED BY <1>2, <1>3 DEF Fits

LEMMA OvertakenFits ==
  ASSUME NEW c \in Calls, NEW k, NEW rows, NEW n, Fits(c, k, rows, n), k.pc # "idle"
  PROVE  Fits(c, Overtaken(k), rows, n)
<1>1. Alike(Overtaken(k), k) /\ Overtaken(k) \in CallState
  BY OvertakenAlike DEF Fits
<1> QED BY <1>1 DEF Fits, Alike

\* What happens to the calls in a step of call c.
LEMMA CallsMove ==
  ASSUME TabsTyped, TokensKept, NEW c \in Calls, NEW k, Only(c, k), Fits(c, k, token', issued'),
         \A d \in Calls \ {c} : call[d].pc = "idle" => call'[d] = call[d]
  PROVE  /\ call' \in [Calls -> CallState] /\ call'[c] = k
         /\ \A d \in Calls : Fits(d, call'[d], token', issued')
         /\ \A d \in Calls \ {c} : /\ Alike(call'[d], call[d])
                                   /\ call[d].overtaken => call'[d].overtaken
<1>1. call \in [Calls -> CallState] /\ \A d \in Calls : Fits(d, call[d], token, issued)
  BY DEF TabsTyped, TypeOK, ServerTypeOK
<1>2. ASSUME NEW d \in Calls \ {c}
      PROVE  /\ Fits(d, call'[d], token', issued') /\ Alike(call'[d], call[d])
             /\ call[d].overtaken => call'[d].overtaken
  <2>1. Fits(d, call[d], token', issued') /\ call[d] \in CallState
    BY <1>1, FitsStays
  <2>2. CASE call'[d] = call[d]
    BY <2>1, <2>2 DEF Alike
  <2>3. CASE call'[d] # call[d]
    <3>1. call'[d] = Overtaken(call[d]) /\ call[d].pc # "idle"
      BY <2>3 DEF Only
    <3> QED BY <2>1, <3>1, OvertakenFits, OvertakenAlike
  <2> QED BY <2>2, <2>3
<1>3. call'[c] = k
  BY DEF Only
<1>4. \A d \in Calls : Fits(d, call'[d], token', issued')
  BY <1>2, <1>3
<1>5. call' \in [Calls -> CallState]
  BY <1>4 DEF Only, Fits
<1> QED BY <1>2, <1>3, <1>4, <1>5

Steps(c) ==
  /\ TokensKept /\ Only(c, call'[c]) /\ Fits(c, call'[c], token', issued')
  /\ \A d \in Calls \ {c} : call[d].pc = "idle" => call'[d] = call[d]

LEMMA TypedParts ==
  TabsTyped =>
    /\ token \in [Ids -> [state : TokenState, fam : 0..MaxTokens]]
    /\ issued \in 0..MaxTokens /\ issued \in Nat /\ MaxTokens \in Nat
    /\ \A t \in Ids : token[t].state = "none" <=> t > issued
    /\ \A t \in 1..issued : t \in Ids /\ token[t].fam \in 1..issued
    /\ active \in BOOLEAN /\ cookie \in 0..issued /\ access \in BOOLEAN
    /\ call \in [Calls -> CallState] /\ fate \in [Ids -> Fates]
    /\ \A f \in Ids : f > issued => fate[f] = "open"
    /\ \A c \in Calls : call[c] \in CallState /\ Fits(c, call[c], token, issued)
BY SessionsAssumption DEF TabsTyped, TypeOK, ServerTypeOK, TokensKnown, Ids

\* Calls of which only one changes, over the same tokens.
LEMMA OneMoves ==
  ASSUME TabsTyped, NEW c \in Calls, NEW k, call' = [call EXCEPT ![c] = k],
         TokensKept, Fits(c, k, token', issued')
  PROVE  Steps(c) /\ call'[c] = k /\ \A d \in Calls \ {c} : call'[d] = call[d]
<1>1. call \in [Calls -> CallState]
  BY TypedParts
<1> QED BY <1>1 DEF Steps, Only

LEMMA SameTokens ==
  ASSUME TabsTyped, UNCHANGED <<token, issued>>
  PROVE  TokensKept
BY TypedParts DEF TokensKept

\* What Overtake does.
LEMMA OvertakeMoves ==
  ASSUME TabsTyped, NEW c \in Calls, NEW k, NEW F, call' = Overtake(c, k, F),
         TokensKept, Fits(c, k, token', issued')
  PROVE  /\ Steps(c) /\ call'[c] = k
         /\ \A d \in Calls \ {c} :
              /\ call[d].pc \in {"rotating", "counting", "issuing", "opening"} /\ call[d].fam \in F =>
                   call'[d].overtaken
<1>1. call \in [Calls -> CallState]
  BY TypedParts
<1>2. ASSUME NEW d \in Calls \ {c}
      PROVE  call'[d] = IF call[d].pc \in {"rotating", "counting", "issuing", "opening"} /\ call[d].fam \in F
                        THEN Overtaken(call[d]) ELSE call[d]
  BY <1>2 DEF Overtake, Overtaken
<1>3. call'[c] = k /\ call' = [d \in Calls |-> call'[d]]
  BY DEF Overtake
<1>4. Only(c, k)
  BY <1>2, <1>3 DEF Only
<1>5. ASSUME NEW d \in Calls \ {c}, call[d].pc \in {"rotating", "counting", "issuing", "opening"},
             call[d].fam \in F
      PROVE  call'[d].overtaken
  BY <1>1, <1>2, <1>5, OvertakenAlike
<1>6. \A d \in Calls \ {c} : call[d].pc = "idle" => call'[d] = call[d]
  BY <1>2
<1> QED BY <1>3, <1>4, <1>5, <1>6 DEF Steps

LEMMA LoadShape ==
  ASSUME TabsTyped, NEW c \in Calls, Load(c)
  PROVE  /\ Steps(c) /\ \A d \in Calls \ {c} : call'[d] = call[d]
         /\ UNCHANGED <<token, issued, active, fate>>
         /\ call[c].pc = "loading"
         /\ call'[c].pc \in {"refused", "counting", "revoking", "rotating"}
         /\ call'[c].fam = call[c].fam /\ call'[c].new = 0
         /\ call'[c].tok \in {0, call[c].tok}
         /\ call'[c].pc = "rotating" =>
              active /\ call'[c].tok = call[c].tok /\ token[call[c].tok].state = "live"
         /\ call'[c].seen => active
<1> DEFINE pc == AfterLoad(call[c].tok)
           tok == IF pc = "rotating" THEN call[c].tok ELSE 0
           k == [call[c] EXCEPT !.pc = pc, !.seen = (pc = "counting" /\ active), !.tok = tok]
<1>1. call[c].pc = "loading" /\ call' = [call EXCEPT ![c] = k] /\ UNCHANGED <<token, issued, active, fate>>
  BY DEF Load
<1>2. Fits(c, call[c], token, issued) /\ call[c] \in CallState /\ issued \in Nat
  BY TypedParts
<1>3. /\ pc \in {"refused", "counting", "revoking", "rotating"}
      /\ call[c].tok = 0 => pc = "refused"
      /\ pc = "rotating" => active /\ token[call[c].tok].state = "live"
  BY DEF AfterLoad
<1>4. /\ k \in CallState /\ k.pc = pc /\ k.seen = (pc = "counting" /\ active) /\ k.tok = tok
      /\ k.fam = call[c].fam /\ k.new = call[c].new
  <2>1. tok \in 0..MaxTokens
    BY <1>2, TypedParts DEF CallState
  <2> HIDE DEF tok, pc
  <2> QED BY <1>2, <1>3, <2>1 DEF CallState
<1>5. c \notin Others
  BY <1>1, <1>2 DEF Fits
<1>6. Fits(c, k, token, issued)
  <2>1. call[c].new = 0 /\ (call[c].tok # 0 => call[c].fam # 0)
    BY <1>1, <1>2, TypedParts DEF Fits
  <2>2. tok # 0 => tok = call[c].tok /\ pc = "rotating"
    OBVIOUS
  <2>3. pc = "rotating" => tok = call[c].tok /\ tok # 0
    BY <1>3
  <2> HIDE DEF tok, pc, k
  <2> QED BY <1>2, <1>3, <1>4, <1>5, <2>1, <2>2, <2>3 DEF Fits
<1>7. call[c].new = 0
  BY <1>1, <1>2 DEF Fits
<1>8. tok \in {0, call[c].tok} /\ (pc = "rotating" => tok = call[c].tok)
  OBVIOUS
<1> HIDE DEF k, pc, tok
<1>9. TokensKept
  BY <1>1, SameTokens
<1>10. Steps(c) /\ call'[c] = k /\ \A d \in Calls \ {c} : call'[d] = call[d]
  BY <1>1, <1>6, <1>9, OneMoves
<1> QED BY <1>1, <1>3, <1>4, <1>7, <1>8, <1>10

LEMMA CountShape ==
  ASSUME TabsTyped, NEW c \in Calls, Count(c)
  PROVE  /\ Steps(c) /\ \A d \in Calls \ {c} : call'[d] = call[d]
         /\ UNCHANGED <<token, issued, active, fate>>
         /\ call[c].pc = "counting"
         /\ call'[c].pc = IF LiveIn(call[c].fam) = {} THEN "revoking"
                          ELSE IF call[c].seen THEN "issuing" ELSE "refused"
         /\ call'[c].fam = call[c].fam /\ call'[c].new = 0 /\ call'[c].tok = 0
         /\ call'[c].overtaken = call[c].overtaken /\ ~ call'[c].seen
<1> DEFINE pc == IF LiveIn(call[c].fam) = {} THEN "revoking"
                 ELSE IF call[c].seen THEN "issuing" ELSE "refused"
           k == [call[c] EXCEPT !.pc = pc, !.seen = FALSE]
<1>1. call[c].pc = "counting" /\ call' = [call EXCEPT ![c] = k] /\ UNCHANGED <<token, issued, active, fate>>
  BY DEF Count
<1>2. Fits(c, call[c], token, issued) /\ call[c] \in CallState
  BY TypedParts
<1>3. pc \in {"revoking", "issuing", "refused"}
  OBVIOUS
<1> HIDE DEF pc
<1>4. /\ k \in CallState /\ k.pc = pc /\ ~ k.seen /\ k.tok = call[c].tok
      /\ k.fam = call[c].fam /\ k.new = call[c].new /\ k.overtaken = call[c].overtaken
  BY <1>2, <1>3 DEF CallState
<1>5. c \notin Others /\ call[c].tok = 0 /\ call[c].new = 0 /\ call[c].fam # 0
  BY <1>1, <1>2 DEF Fits
<1> HIDE DEF k
<1>6. Fits(c, k, token, issued)
  BY <1>2, <1>3, <1>4, <1>5 DEF Fits
<1>7. TokensKept
  BY <1>1, SameTokens
<1>8. Steps(c) /\ call'[c] = k /\ \A d \in Calls \ {c} : call'[d] = call[d]
  BY <1>1, <1>6, <1>7, OneMoves
<1> QED BY <1>1, <1>4, <1>5, <1>8 DEF pc

LEMMA RotateShape ==
  ASSUME TabsTyped, NEW c \in Calls, Rotate(c)
  PROVE  /\ Steps(c) /\ \A d \in Calls \ {c} : call'[d] = call[d]
         /\ UNCHANGED <<issued, active, fate>>
         /\ call[c].pc = "rotating" /\ call[c].tok \in 1..issued
         /\ call[c].fam = token[call[c].tok].fam /\ c \in Tabs
         /\ token' \in [Ids -> [state : TokenState, fam : 0..MaxTokens]]
         /\ token'[call[c].tok].state = "rotated"
         /\ \A t \in Ids \ {call[c].tok} : token'[t] = token[t]
         /\ call'[c].pc = "issuing" /\ call'[c].fam = call[c].fam /\ call'[c].new = 0
         /\ call'[c].tok = 0 /\ call'[c].overtaken = call[c].overtaken
<1> DEFINE t == call[c].tok
           row == [token[t] EXCEPT !.state = "rotated"]
           k == [call[c] EXCEPT !.pc = "issuing", !.tok = 0]
<1>1. /\ call[c].pc = "rotating" /\ token' = [token EXCEPT ![t] = row]
      /\ call' = [call EXCEPT ![c] = k] /\ UNCHANGED <<issued, active, fate>>
  BY DEF Rotate
<1>2. Fits(c, call[c], token, issued) /\ call[c] \in CallState
  BY TypedParts
<1>3. t \in 1..issued /\ t \in Ids /\ call[c].fam = token[t].fam
  BY <1>1, <1>2, TypedParts DEF Fits
<1>4. row \in [state : TokenState, fam : 0..MaxTokens] /\ row.fam = token[t].fam /\ row.state = "rotated"
  BY <1>3, TypedParts DEF TokenState
<1>5. /\ k \in CallState /\ k.pc = "issuing" /\ k.tok = 0 /\ k.fam = call[c].fam
      /\ k.new = call[c].new /\ k.overtaken = call[c].overtaken /\ k.seen = call[c].seen
  <2>1. 0 \in 0..MaxTokens
    BY SessionsAssumption
  <2> QED BY <1>2, <2>1 DEF CallState
<1>6. c \in Tabs /\ c \notin Others /\ call[c].new = 0 /\ ~ call[c].seen /\ call[c].fam # 0
  BY <1>1, <1>2 DEF Fits, Calls
<1> HIDE DEF row, k
<1>7. /\ token' \in [Ids -> [state : TokenState, fam : 0..MaxTokens]]
      /\ token'[t] = row /\ \A u \in Ids \ {t} : token'[u] = token[u]
  BY <1>1, <1>3, <1>4, TypedParts
<1>8. TokensKept
  <2>1. ASSUME NEW u \in 1..issued PROVE token'[u].fam = token[u].fam
    <3>1. u \in Ids
      BY TypedParts
    <3> QED BY <1>4, <1>7, <3>1
  <2>2. issued' = issued
    BY <1>1
  <2> QED BY <2>1, <2>2, TypedParts DEF TokensKept
<1>9. Fits(c, k, token, issued)
  BY <1>2, <1>5, <1>6 DEF Fits
<1>10. Fits(c, k, token', issued')
  BY <1>8, <1>9, FitsStays
<1>11. Steps(c) /\ call'[c] = k /\ \A d \in Calls \ {c} : call'[d] = call[d]
  BY <1>1, <1>8, <1>10, OneMoves
<1> QED BY <1>1, <1>3, <1>4, <1>5, <1>6, <1>7, <1>11

LEMMA IssueShape ==
  ASSUME TabsTyped, NEW c \in Calls, Issue(c)
  PROVE  LET n == issued + 1
             f == FamilyOf(c)
         IN  /\ Steps(c) /\ \A d \in Calls \ {c} : call'[d] = call[d]
             /\ UNCHANGED active
             /\ call[c].pc \in {"issuing", "opening"}
             /\ call[c].pc = "issuing" => f = call[c].fam /\ f \in 1..issued
             /\ call[c].pc = "opening" => f = n
             /\ n \in Ids /\ f \in Ids /\ issued' = n
             /\ token' \in [Ids -> [state : TokenState, fam : 0..MaxTokens]]
             /\ token'[n].state = "live" /\ token'[n].fam = f
             /\ \A t \in Ids \ {n} : token'[t] = token[t]
             /\ fate' \in [Ids -> Fates]
             /\ fate'[f] = (IF fate[f] = "ended" THEN "broken" ELSE fate[f])
             /\ \A g \in Ids \ {f} : fate'[g] = fate[g]
             /\ call'[c].pc = "answered" /\ call'[c].fam = f /\ call'[c].new = n
             /\ call'[c].tok = 0
<1> DEFINE n == issued + 1
           f == FamilyOf(c)
           row == [state |-> "live", fam |-> f]
           end == IF fate[f] = "ended" THEN "broken" ELSE fate[f]
           k == [Idle EXCEPT !.pc = "answered", !.fam = f, !.new = n]
<1>1. /\ call[c].pc \in {"issuing", "opening"} /\ issued < MaxTokens
      /\ token' = [token EXCEPT ![n] = row] /\ issued' = n
      /\ fate' = [fate EXCEPT ![f] = end]
      /\ call' = [call EXCEPT ![c] = k] /\ UNCHANGED active
  BY DEF Issue
<1>2. Fits(c, call[c], token, issued) /\ call[c] \in CallState
  BY TypedParts
<1>3. n \in Ids /\ n \in 1..MaxTokens /\ n \in 1..n /\ issued \in Nat /\ MaxTokens \in Nat
  BY <1>1, TypedParts DEF Ids
<1>4. /\ call[c].pc = "issuing" => f = call[c].fam /\ f \in 1..issued
      /\ call[c].pc = "opening" => f = n
  <2>1. call[c].fam # 0 => call[c].fam \in 1..issued
    BY <1>2, TypedParts DEF Fits
  <2>2. (call[c].pc = "issuing" => call[c].fam # 0) /\ (call[c].pc = "opening" => call[c].fam = 0)
    BY <1>2 DEF Fits
  <2> QED BY <2>1, <2>2 DEF FamilyOf
<1>5. f \in Ids
  BY <1>1, <1>3, <1>4 DEF Ids
<1> HIDE DEF f
<1>6. /\ token' \in [Ids -> [state : TokenState, fam : 0..MaxTokens]]
      /\ token'[n].state = "live" /\ token'[n].fam = f
      /\ \A t \in Ids \ {n} : token'[t] = token[t]
  <2>1. row \in [state : TokenState, fam : 0..MaxTokens]
    BY <1>3, <1>5 DEF TokenState, Ids
  <2>2. row.state = "live" /\ row.fam = f
    OBVIOUS
  <2> HIDE DEF row, n
  <2> QED BY <1>1, <1>3, <2>1, <2>2, TypedParts
<1>7. fate' \in [Ids -> Fates] /\ fate'[f] = end /\ \A g \in Ids \ {f} : fate'[g] = fate[g]
  <2>1. end \in Fates
    BY <1>5, TypedParts DEF Fates
  <2> HIDE DEF end
  <2> QED BY <1>1, <1>5, <2>1, TypedParts
<1>8. TokensKept
  <2>1. ASSUME NEW t \in 1..issued PROVE token'[t].fam = token[t].fam
    <3>1. t \in Ids \ {n}
      BY <1>3 DEF Ids
    <3> QED BY <1>6, <3>1
  <2> QED BY <1>1, <1>3, <2>1 DEF TokensKept
<1>9. /\ k \in CallState /\ k.pc = "answered" /\ k.fam = f /\ k.new = n /\ k.tok = 0 /\ ~ k.seen
  <2>1. n \in 0..MaxTokens /\ f \in 0..MaxTokens
    BY <1>3, <1>5 DEF Ids
  <2> HIDE DEF n
  <2> QED BY <2>1, IdleFits DEF CallState
<1> HIDE DEF k
<1>10. Fits(c, k, token', issued')
  <2>1. k.new \in 1..issued' /\ token'[k.new].fam = k.fam
    BY <1>1, <1>3, <1>6, <1>9
  <2> QED BY <1>9, <2>1 DEF Fits
<1>11. Steps(c) /\ call'[c] = k /\ \A d \in Calls \ {c} : call'[d] = call[d]
  BY <1>1, <1>8, <1>10, OneMoves
<1> QED BY <1>1, <1>3, <1>4, <1>5, <1>6, <1>7, <1>9, <1>11 DEF f

LEMMA RefusedFits ==
  ASSUME TabsTyped, NEW c \in Calls
  PROVE  /\ Fits(c, Refused(c), token, issued)
         /\ Refused(c).pc = "refused" /\ Refused(c).fam = call[c].fam
         /\ Refused(c).tok = 0 /\ Refused(c).new = 0 /\ ~ Refused(c).seen
<1>1. Fits(c, call[c], token, issued) /\ call[c] \in CallState
  BY TypedParts
<1>2. /\ Refused(c) \in CallState /\ Refused(c).pc = "refused" /\ Refused(c).fam = call[c].fam
      /\ Refused(c).tok = 0 /\ Refused(c).new = 0 /\ ~ Refused(c).seen
  BY <1>1, IdleFits DEF Refused, CallState
<1> QED BY <1>1, <1>2 DEF Fits

LEMMA RevokeAllShape ==
  ASSUME TabsTyped, NEW c \in Calls, RevokeAll(c)
  PROVE  /\ Steps(c) /\ UNCHANGED <<issued, active>>
         /\ call[c].pc \in {"revoking", "ending"} /\ call'[c].pc \in {"refused", "idle"}
         /\ call'[c].pc = "idle" => c \in Others
         /\ call'[c].new = 0 /\ call'[c].tok = 0
         /\ \A d \in Calls \ {c} :
              call[d].pc \in {"rotating", "counting", "issuing", "opening"} => call'[d].overtaken
         /\ token' \in [Ids -> [state : TokenState, fam : 0..MaxTokens]]
         /\ \A t \in Ids : /\ token'[t].state = "none" <=> token[t].state = "none"
                           /\ token'[t].state # "live" /\ token'[t].fam = token[t].fam
         /\ fate' \in [Ids -> Fates]
         /\ \A t \in 1..issued : fate'[token[t].fam] = "ended"
         /\ \A f \in Ids : f > issued => fate'[f] = fate[f]
<1>1. /\ call[c].pc \in {"revoking", "ending"} /\ token' = Revoked
      /\ fate' = [f \in Ids |-> IF f \in Families THEN "ended" ELSE fate[f]]
      /\ call' = Overtake(c, IF call[c].pc = "revoking" THEN Refused(c) ELSE Idle, 0..MaxTokens)
      /\ UNCHANGED <<issued, active>>
  BY DEF RevokeAll
<1>2. /\ token' \in [Ids -> [state : TokenState, fam : 0..MaxTokens]]
      /\ \A t \in Ids : /\ token'[t].state = "none" <=> token[t].state = "none"
                        /\ token'[t].state # "live" /\ token'[t].fam = token[t].fam
  <2>1. ASSUME NEW t \in Ids
        PROVE  /\ token'[t] \in [state : TokenState, fam : 0..MaxTokens]
               /\ token'[t].state = "none" <=> token[t].state = "none"
               /\ token'[t].state # "live" /\ token'[t].fam = token[t].fam
    <3>1. token'[t] = IF token[t].state = "live" THEN [token[t] EXCEPT !.state = "revoked"] ELSE token[t]
      BY <1>1 DEF Revoked
    <3>2. token[t] \in [state : TokenState, fam : 0..MaxTokens]
      BY TypedParts
    <3> QED BY <3>1, <3>2 DEF TokenState
  <2>2. token' = [t \in Ids |-> token'[t]]
    BY <1>1 DEF Revoked
  <2> QED BY <2>1, <2>2
<1>3. /\ fate' \in [Ids -> Fates]
      /\ \A t \in 1..issued : fate'[token[t].fam] = "ended"
      /\ \A f \in Ids : f > issued => fate'[f] = fate[f]
  <2>1. \A t \in 1..issued : token[t].fam \in Ids /\ token[t].fam \in Families
    BY TypedParts DEF Ids, Families
  <2>2. \A f \in Families : f \in 1..issued
    BY TypedParts DEF Families
  <2> HIDE DEF Families
  <2>3. issued \in Nat /\ \A f \in Ids : f \in Nat
    BY TypedParts DEF Ids
  <2>4. \A f \in Ids : f > issued => f \notin Families
    BY <2>2, <2>3
  <2> QED BY <1>1, <2>1, <2>4, TypedParts DEF Fates
<1>4. TokensKept
  BY <1>1, <1>2, TypedParts DEF TokensKept
<1> DEFINE k == IF call[c].pc = "revoking" THEN Refused(c) ELSE Idle
<1>5. Fits(c, k, token, issued) /\ k.pc \in {"refused", "idle"} /\ k.new = 0 /\ k.tok = 0
  <2>1. Fits(c, Idle, token, issued)
    BY IdleFits, TypedParts
  <2>2. CASE call[c].pc = "revoking"
    <3>1. k = Refused(c)
      BY <2>2
    <3> HIDE DEF k
    <3> QED BY <3>1, RefusedFits
  <2>3. CASE call[c].pc # "revoking"
    BY <2>1, <2>3, IdleFits
  <2> QED BY <2>2, <2>3
<1>6. k.pc = "idle" => c \in Others
  <2>1. k.pc = "idle" => call[c].pc = "ending"
    BY <1>1, RefusedFits
  <2>2. call[c].pc = "ending" => c \notin Tabs
    BY TypedParts DEF Fits
  <2> QED BY <2>1, <2>2 DEF Calls
<1> HIDE DEF k
<1>7. Fits(c, k, token', issued')
  BY <1>4, <1>5, FitsStays
<1>8. call' = Overtake(c, k, 0..MaxTokens)
  BY <1>1 DEF k
<1>9. /\ Steps(c) /\ call'[c] = k
      /\ \A d \in Calls \ {c} :
           call[d].pc \in {"rotating", "counting", "issuing", "opening"} => call'[d].overtaken
  <2>1. \A d \in Calls : call[d].fam \in 0..MaxTokens
    BY TypedParts DEF CallState
  <2> QED BY <1>4, <1>7, <1>8, <2>1, OvertakeMoves
<1> QED BY <1>1, <1>2, <1>3, <1>5, <1>6, <1>9

LEMMA LogoutShape ==
  ASSUME TabsTyped, NEW c \in Calls, Logout(c)
  PROVE  LET t == call[c].tok
             f == call[c].fam
         IN  /\ Steps(c) /\ UNCHANGED <<issued, active>>
             /\ call[c].pc = "leaving" /\ t \in 1..issued /\ f = token[t].fam /\ f \in 1..issued
             /\ call'[c].pc = "refused" /\ call'[c].fam = f /\ call'[c].new = 0 /\ call'[c].tok = 0
             /\ \A d \in Calls \ {c} :
                  call[d].pc \in {"rotating", "counting", "issuing", "opening"} /\ call[d].fam = f =>
                    call'[d].overtaken
             /\ token' \in [Ids -> [state : TokenState, fam : 0..MaxTokens]]
             /\ token'[t].state # "none" /\ token'[t].state # "live" /\ token'[t].fam = f
             /\ token[t].state # "live" => token' = token
             /\ \A u \in Ids \ {t} : token'[u] = token[u]
             /\ fate' \in [Ids -> Fates]
             /\ \A g \in Ids \ {f} : fate'[g] = fate[g]
             /\ fate'[f] = IF token[t].state = "live" /\ LiveIn(f) = {t} THEN "ended" ELSE fate[f]
<1> DEFINE t == call[c].tok
           f == call[c].fam
           live == token[t].state = "live"
           row == [token[t] EXCEPT !.state = "revoked"]
<1>1. /\ call[c].pc = "leaving"
      /\ token' = IF live THEN [token EXCEPT ![t] = row] ELSE token
      /\ fate' = IF live /\ LiveIn(f) = {t} THEN [fate EXCEPT ![f] = "ended"] ELSE fate
      /\ call' = Overtake(c, Refused(c), {f})
      /\ UNCHANGED <<issued, active>>
  BY DEF Logout
<1>2. t \in 1..issued /\ t \in Ids /\ f = token[t].fam /\ f \in 1..issued /\ f \in Ids
  <2>1. t \in 1..issued /\ f = token[t].fam
    BY <1>1, TypedParts DEF Fits
  <2>2. f \in 1..issued
    BY <2>1, TypedParts
  <2> QED BY <2>1, <2>2, TypedParts DEF Ids
<1>3. token[t] \in [state : TokenState, fam : 0..MaxTokens] /\ token[t].state # "none"
  BY <1>2, TypedParts
<1>4. row \in [state : TokenState, fam : 0..MaxTokens] /\ row.fam = f /\ row.state = "revoked"
  BY <1>2, <1>3 DEF TokenState
<1> HIDE DEF row
<1>5. /\ token' \in [Ids -> [state : TokenState, fam : 0..MaxTokens]]
      /\ token'[t].state # "none" /\ token'[t].state # "live" /\ token'[t].fam = f
      /\ ~ live => token' = token
      /\ \A u \in Ids \ {t} : token'[u] = token[u]
  <2>1. CASE live
    BY <1>1, <1>2, <1>4, <2>1, TypedParts
  <2>2. CASE ~ live
    BY <1>1, <1>2, <1>3, <2>2, TypedParts
  <2> QED BY <2>1, <2>2
<1>6. /\ fate' \in [Ids -> Fates]
      /\ \A g \in Ids \ {f} : fate'[g] = fate[g]
      /\ fate'[f] = IF live /\ LiveIn(f) = {t} THEN "ended" ELSE fate[f]
  BY <1>1, <1>2, TypedParts DEF Fates
<1>7. TokensKept
  <2>1. ASSUME NEW u \in 1..issued PROVE token'[u].fam = token[u].fam
    <3>1. u \in Ids
      BY TypedParts
    <3> QED BY <1>2, <1>5, <3>1
  <2> QED BY <1>1, <2>1, TypedParts DEF TokensKept
<1>8. Fits(c, Refused(c), token', issued')
  BY <1>7, RefusedFits, FitsStays
<1>9. /\ Steps(c) /\ call'[c] = Refused(c)
      /\ \A d \in Calls \ {c} :
           call[d].pc \in {"rotating", "counting", "issuing", "opening"} /\ call[d].fam = f =>
             call'[d].overtaken
  BY <1>1, <1>7, <1>8, OvertakeMoves
<1> QED BY <1>1, <1>2, <1>5, <1>6, <1>9, RefusedFits

\* The call in c ends, or its answer is lost on the way.
Ends(c) ==
  /\ call'[c] = Idle \/ call'[c] = Refused(c)
  /\ \A d \in Calls \ {c} : call'[d] = call[d]
  /\ UNCHANGED <<token, issued, active>>

LEMMA EndsShape ==
  ASSUME TabsTyped, NEW c \in Calls, NEW k \in {Idle, Refused(c)},
         call' = [call EXCEPT ![c] = k], UNCHANGED <<token, issued, active>>
  PROVE  /\ Steps(c) /\ Ends(c) /\ call'[c] = k
         /\ call'[c].pc \in {"idle", "refused"} /\ call'[c].tok = 0 /\ call'[c].new = 0
<1>1. Fits(c, k, token, issued)
  BY IdleFits, RefusedFits, TypedParts
<1>2. TokensKept
  BY SameTokens
<1>3. k.pc \in {"idle", "refused"} /\ k.tok = 0 /\ k.new = 0
  BY IdleFits, RefusedFits
<1>4. Fits(c, k, token', issued')
  BY <1>1
<1>5. Steps(c) /\ call'[c] = k /\ \A d \in Calls \ {c} : call'[d] = call[d]
  BY <1>2, <1>4, OneMoves
<1> QED BY <1>3, <1>5 DEF Ends

\* The session of a call that failed, or of an answer that was lost.
LEMMA BreaksShape ==
  ASSUME TabsTyped, NEW c \in Calls, Breaks(c)
  PROVE  /\ fate' \in [Ids -> Fates]
         /\ \A f \in Ids : /\ fate'[f] \in {fate[f], "broken"}
                           /\ fate'[f] # fate[f] => f = call[c].fam
         /\ call[c].fam \in Ids => fate'[call[c].fam] # "open"
<1>1. fate' = [f \in Ids |-> IF f = call[c].fam /\ fate[f] = "open" THEN "broken" ELSE fate[f]]
  BY DEF Breaks
<1> QED BY <1>1, TypedParts DEF Fates

LEMMA PresentingShape ==
  ASSUME TabsTyped, NEW c \in Calls, NEW pc \in {"loading", "leaving"},
         pc = "loading" => c \in Tabs, pc = "leaving" => c \in Others /\ cookie # 0
  PROVE  LET k == Presenting(pc, cookie)
         IN  /\ Fits(c, k, token, issued) /\ k.pc = pc /\ k.tok = cookie /\ k.new = 0
             /\ ~ k.overtaken /\ ~ k.seen
<1> DEFINE fam == IF cookie = 0 THEN 0 ELSE token[cookie].fam
           k == Presenting(pc, cookie)
<1>1. cookie \in 0..MaxTokens /\ fam \in 0..MaxTokens /\ (cookie # 0 => cookie \in 1..issued)
  BY TypedParts
<1>2. fam = 0 \/ \E t \in 1..issued : fam = token[t].fam
  BY <1>1
<1>3. cookie # 0 => fam = token[cookie].fam
  OBVIOUS
<1>4. k = [Idle EXCEPT !.pc = pc, !.tok = cookie, !.fam = fam]
  BY DEF Presenting
<1> HIDE DEF fam, k
<1>5. /\ k \in CallState /\ k.pc = pc /\ k.tok = cookie /\ k.fam = fam /\ k.new = 0
      /\ ~ k.overtaken /\ ~ k.seen
  BY <1>1, <1>4, IdleFits DEF CallState
<1>6. c \in Tabs => c \notin Others
  BY SessionsAssumption
<1>7. Fits(c, k, token, issued)
  BY <1>1, <1>2, <1>3, <1>5, <1>6 DEF Fits
<1> QED BY <1>5, <1>7 DEF k

LEMMA LoginShape ==
  ASSUME TabsTyped, NEW c \in Others, Login(c)
  PROVE  /\ Steps(c) /\ UNCHANGED <<token, issued, active, fate>>
         /\ \A d \in Calls \ {c} : call'[d] = call[d]
         /\ active /\ call[c] = Idle
         /\ call'[c].pc = "opening" /\ call'[c].tok = 0 /\ call'[c].new = 0 /\ call'[c].fam = 0
<1> DEFINE k == [Idle EXCEPT !.pc = "opening"]
<1>1. c \in Calls /\ c \notin Tabs
  BY SessionsAssumption DEF Calls
<1>2. call' = [call EXCEPT ![c] = k] /\ call[c] = Idle /\ active /\ UNCHANGED <<token, issued, active, fate>>
  BY DEF Login
<1>3. /\ k \in CallState /\ k.pc = "opening" /\ k.tok = 0 /\ k.new = 0 /\ k.fam = 0 /\ ~ k.seen
  BY IdleFits DEF CallState
<1> HIDE DEF k
<1>4. Fits(c, k, token, issued)
  BY <1>1, <1>3 DEF Fits
<1>5. TokensKept
  BY <1>2, SameTokens
<1>6. Fits(c, k, token', issued')
  BY <1>2, <1>4
<1>7. Steps(c) /\ call'[c] = k /\ \A d \in Calls \ {c} : call'[d] = call[d]
  BY <1>1, <1>2, <1>5, <1>6, OneMoves
<1> QED BY <1>2, <1>3, <1>7

LEMMA EndWriteShape ==
  ASSUME TabsTyped, NEW c \in Others, NEW stays \in BOOLEAN, EndWrite(c, stays)
  PROVE  /\ Steps(c) /\ UNCHANGED <<token, issued, fate>>
         /\ active /\ active' = stays /\ call[c] = Idle
         /\ call'[c].pc = "ending" /\ call'[c].tok = 0 /\ call'[c].new = 0
         /\ \A d \in Calls \ {c} :
              ~ stays /\ call[d].pc \in {"rotating", "counting", "issuing", "opening"} => call'[d].overtaken
<1> DEFINE k == [Idle EXCEPT !.pc = "ending"]
           F == IF stays THEN {} ELSE 0..MaxTokens
<1>1. c \in Calls /\ c \notin Tabs
  BY SessionsAssumption DEF Calls
<1>2. call' = Overtake(c, k, F) /\ call[c] = Idle /\ active /\ active' = stays /\ UNCHANGED <<token, issued, fate>>
  BY DEF EndWrite
<1>3. /\ k \in CallState /\ k.pc = "ending" /\ k.tok = 0 /\ k.new = 0 /\ k.fam = 0 /\ ~ k.seen
  BY IdleFits DEF CallState
<1> HIDE DEF k
<1>4. Fits(c, k, token, issued)
  BY <1>1, <1>3 DEF Fits
<1>5. TokensKept
  BY <1>2, SameTokens
<1>6. Fits(c, k, token', issued')
  BY <1>2, <1>4
<1>7. ~ stays => F = 0..MaxTokens
  OBVIOUS
<1> HIDE DEF F
<1>8. /\ Steps(c) /\ call'[c] = k
      /\ \A d \in Calls \ {c} :
           call[d].pc \in {"rotating", "counting", "issuing", "opening"} /\ call[d].fam \in F => call'[d].overtaken
  BY <1>1, <1>2, <1>5, <1>6, OvertakeMoves
<1>9. \A d \in Calls : call[d].fam \in 0..MaxTokens
  BY TypedParts DEF CallState
<1> QED BY <1>2, <1>3, <1>7, <1>8, <1>9

LEMMA StepsAlike ==
  ASSUME TabsTyped, NEW c \in Calls, Steps(c)
  PROVE  /\ call' \in [Calls -> CallState]
         /\ \A d \in Calls : Fits(d, call'[d], token', issued')
         /\ \A d \in Calls \ {c} : /\ Alike(call'[d], call[d])
                                   /\ call[d].overtaken => call'[d].overtaken
<1> DEFINE k == call'[c]
<1>1. /\ TokensKept /\ Only(c, k) /\ Fits(c, k, token', issued')
      /\ \A d \in Calls \ {c} : call[d].pc = "idle" => call'[d] = call[d]
  BY DEF Steps
<1> HIDE DEF k
<1> QED BY <1>1, CallsMove

\* Requests wait for a call that is under way.
WaitingServed == \A q \in Reqs : req[q].pc = "waiting" => call[TabOf[q]].pc # "idle"

LEMMA TypedMove ==
  ASSUME TabsTyped, NEW c \in Calls, Steps(c),
         token' \in [Ids -> [state : TokenState, fam : 0..MaxTokens]],
         \A t \in Ids : token'[t].state = "none" <=> t > issued',
         fate' \in [Ids -> Fates], active' \in BOOLEAN, TokensKnown',
         cookie' \in 0..issued', access' \in BOOLEAN, req' \in [Reqs -> ReqState], WaitingServed'
  PROVE  TabsTyped'
<1>1. /\ call' \in [Calls -> CallState]
      /\ \A d \in Calls : Fits(d, call'[d], token', issued')
  BY StepsAlike
<1>2. issued' \in 0..MaxTokens
  BY TypedParts DEF Steps, TokensKept
<1> QED BY <1>1, <1>2 DEF TabsTyped, TypeOK, ServerTypeOK, WaitingServed

LEMMA RequestsTyped ==
  TabsTyped => /\ req \in [Reqs -> ReqState] /\ WaitingServed
               /\ TabOf \in [Reqs -> Tabs] /\ \A q \in Reqs : TabOf[q] \in Tabs /\ TabOf[q] \in Calls
BY PortalTabsAssumption DEF TabsTyped, TypeOK, WaitingServed, Calls

LEMMA WaitingStays ==
  ASSUME TabsTyped, NEW c \in Calls, Steps(c), UNCHANGED req, call'[c].pc = "idle" => c \in Others
  PROVE  WaitingServed'
<1>1. \A d \in Calls \ {c} : Alike(call'[d], call[d])
  BY StepsAlike
<1>2. c \in Others => c \notin Tabs
  BY SessionsAssumption
<1>3. ASSUME NEW q \in Reqs, req'[q].pc = "waiting" PROVE call'[TabOf[q]].pc # "idle"
  <2>1. call[TabOf[q]].pc # "idle" /\ TabOf[q] \in Tabs /\ TabOf[q] \in Calls
    BY <1>3, RequestsTyped DEF WaitingServed
  <2>2. CASE TabOf[q] = c
    BY <1>2, <2>1, <2>2
  <2>3. CASE TabOf[q] # c
    <3>1. call'[TabOf[q]].pc = call[TabOf[q]].pc
      BY <1>1, <2>1, <2>3 DEF Alike
    <3> QED BY <2>1, <3>1
  <2> QED BY <2>2, <2>3
<1> QED BY <1>3 DEF WaitingServed

\* Nobody waits any more for a call that has ended.
LEMMA WokenShape ==
  ASSUME TabsTyped, NEW c \in Calls, Steps(c), NEW next \in ReqState, next.pc # "waiting",
         req' = Woken(c, next)
  PROVE  req' \in [Reqs -> ReqState] /\ WaitingServed'
<1>1. \A d \in Calls \ {c} : Alike(call'[d], call[d])
  BY StepsAlike
<1>2. ASSUME NEW q \in Reqs
      PROVE  req'[q] = IF TabOf[q] = c /\ req[q].pc = "waiting" THEN next ELSE req[q]
  BY DEF Woken
<1>3. req' \in [Reqs -> ReqState]
  BY RequestsTyped DEF Woken
<1>4. ASSUME NEW q \in Reqs, req'[q].pc = "waiting" PROVE call'[TabOf[q]].pc # "idle"
  <2>1. TabOf[q] # c /\ req[q].pc = "waiting"
    BY <1>2, <1>4
  <2>2. call[TabOf[q]].pc # "idle" /\ TabOf[q] \in Calls
    BY <2>1, RequestsTyped DEF WaitingServed
  <2>3. call'[TabOf[q]].pc = call[TabOf[q]].pc
    BY <1>1, <2>1, <2>2 DEF Alike
  <2> QED BY <2>2, <2>3
<1> QED BY <1>3, <1>4 DEF WaitingServed

LEMMA KnownStays ==
  ASSUME TabsTyped, TokensKept, issued' = issued, \A f \in Ids : f > issued => fate'[f] = fate[f]
  PROVE  TokensKnown'
BY TypedParts DEF TokensKept, TokensKnown

\* A step of a call that changes neither the tokens nor the account.
LEMMA CallStepTyped ==
  ASSUME TabsTyped, NEW c \in Calls, Steps(c), UNCHANGED <<token, issued, active>>,
         fate' \in [Ids -> Fates], \A f \in Ids : f > issued => fate'[f] = fate[f],
         cookie' \in 0..issued, access' \in BOOLEAN, req' \in [Reqs -> ReqState], WaitingServed'
  PROVE  TabsTyped'
<1>1. TokensKnown'
  BY KnownStays DEF Steps
<1> QED BY <1>1, TypedMove, TypedParts

LEMMA ServerStepTyped ==
  ASSUME TabsTyped, NEW c \in Calls, ServerStep(c), UNCHANGED browserVars
  PROVE  TabsTyped'
<1>1. UNCHANGED <<cookie, access, req>>
  BY DEF browserVars
<1>2. req' \in [Reqs -> ReqState] /\ cookie' \in 0..issued /\ access' \in BOOLEAN
  BY <1>1, TypedParts, RequestsTyped
<1>3. CASE Load(c)
  <2>1. /\ Steps(c) /\ call'[c].pc # "idle"
        /\ token' = token /\ issued' = issued /\ active' = active /\ fate' = fate
    BY <1>3, LoadShape
  <2>2. WaitingServed'
    BY <1>1, <2>1, WaitingStays
  <2>3. fate' \in [Ids -> Fates] /\ \A f \in Ids : f > issued => fate'[f] = fate[f]
    BY <2>1, TypedParts
  <2> QED BY <1>2, <2>1, <2>2, <2>3, CallStepTyped
<1>4. CASE Count(c)
  <2>1. /\ Steps(c) /\ call'[c].pc # "idle"
        /\ token' = token /\ issued' = issued /\ active' = active /\ fate' = fate
    BY <1>4, CountShape
  <2>2. WaitingServed'
    BY <1>1, <2>1, WaitingStays
  <2>3. fate' \in [Ids -> Fates] /\ \A f \in Ids : f > issued => fate'[f] = fate[f]
    BY <2>1, TypedParts
  <2> QED BY <1>2, <2>1, <2>2, <2>3, CallStepTyped
<1>5. CASE Rotate(c)
  <2>1. Steps(c) /\ call'[c].pc # "idle" /\ UNCHANGED <<issued, active, fate>>
    BY <1>5, RotateShape
  <2>2. WaitingServed'
    BY <1>1, <2>1, WaitingStays
  <2>3. /\ token' \in [Ids -> [state : TokenState, fam : 0..MaxTokens]]
        /\ \A t \in Ids : token'[t].state = "none" <=> t > issued'
    BY <1>5, <2>1, RotateShape, TypedParts
  <2>4. TokensKnown'
    BY <2>1, KnownStays DEF Steps
  <2> QED BY <1>2, <2>1, <2>2, <2>3, <2>4, TypedMove, TypedParts
<1>6. CASE Issue(c)
  <2> DEFINE n == issued + 1
             f == FamilyOf(c)
  <2>1. /\ Steps(c) /\ call'[c].pc # "idle" /\ UNCHANGED active /\ issued' = n
        /\ n \in Ids /\ f \in Ids /\ f =< n /\ issued \in Nat
    BY <1>6, IssueShape, TypedParts
  <2>2. WaitingServed'
    BY <1>1, <2>1, WaitingStays
  <2>3. /\ token' \in [Ids -> [state : TokenState, fam : 0..MaxTokens]]
        /\ token'[n].state = "live" /\ token'[n].fam = f
        /\ \A t \in Ids \ {n} : token'[t] = token[t]
        /\ fate' \in [Ids -> Fates] /\ \A g \in Ids \ {f} : fate'[g] = fate[g]
    BY <1>6, IssueShape
  <2> HIDE DEF f
  <2>4. \A t \in Ids : token'[t].state = "none" <=> t > issued'
    BY <2>1, <2>3, TypedParts DEF Ids
  <2>5. TokensKnown'
    <3>1. \A t \in 1..n : token'[t].fam \in 1..n
      <4>1. ASSUME NEW t \in 1..issued PROVE token'[t].fam \in 1..n
        <5>1. token'[t].fam = token[t].fam /\ token[t].fam \in 1..issued
          BY <2>1, TypedParts DEF Steps, TokensKept
        <5> QED BY <2>1, <5>1
      <4>2. token'[n].fam \in 1..n
        BY <2>1, <2>3 DEF Ids
      <4> QED BY <2>1, <4>1, <4>2
    <3>2. \A g \in Ids : g > n => fate'[g] = "open"
      BY <2>1, <2>3, TypedParts DEF Ids
    <3> QED BY <2>1, <3>1, <3>2 DEF TokensKnown
  <2>6. cookie' \in 0..issued'
    BY <1>2, <2>1
  <2> QED BY <1>2, <2>1, <2>2, <2>3, <2>4, <2>5, <2>6, TypedMove, TypedParts
<1>7. CASE RevokeAll(c)
  <2>1. /\ Steps(c) /\ (call'[c].pc = "idle" => c \in Others) /\ UNCHANGED <<issued, active>>
        /\ fate' \in [Ids -> Fates] /\ \A f \in Ids : f > issued => fate'[f] = fate[f]
    BY <1>7, RevokeAllShape
  <2>2. WaitingServed'
    BY <1>1, <2>1, WaitingStays
  <2>3. /\ token' \in [Ids -> [state : TokenState, fam : 0..MaxTokens]]
        /\ \A t \in Ids : token'[t].state = "none" <=> t > issued'
    BY <1>7, <2>1, RevokeAllShape, TypedParts
  <2>4. TokensKnown'
    BY <2>1, KnownStays DEF Steps
  <2> QED BY <1>2, <2>1, <2>2, <2>3, <2>4, TypedMove, TypedParts
<1>8. CASE Logout(c)
  <2> DEFINE t == call[c].tok
             f == call[c].fam
  <2>1. /\ Steps(c) /\ call'[c].pc # "idle" /\ UNCHANGED <<issued, active>>
        /\ fate' \in [Ids -> Fates] /\ \A g \in Ids \ {f} : fate'[g] = fate[g]
        /\ f \in 1..issued
    BY <1>8, LogoutShape
  <2>2. WaitingServed'
    BY <1>1, <2>1, WaitingStays
  <2>3. /\ token' \in [Ids -> [state : TokenState, fam : 0..MaxTokens]]
        /\ token'[t].state # "none" /\ t \in 1..issued
        /\ \A u \in Ids \ {t} : token'[u] = token[u]
    BY <1>8, LogoutShape
  <2> HIDE DEF t, f
  <2>4. \A u \in Ids : token'[u].state = "none" <=> u > issued'
    BY <2>1, <2>3, TypedParts
  <2>5. TokensKnown'
    <3>1. \A g \in Ids : g > issued => fate'[g] = fate[g]
      BY <2>1, TypedParts DEF Ids
    <3> QED BY <2>1, <3>1, KnownStays DEF Steps
  <2> QED BY <1>2, <2>1, <2>2, <2>3, <2>4, <2>5, TypedMove, TypedParts
<1> QED BY <1>3, <1>4, <1>5, <1>6, <1>7, <1>8 DEF ServerStep

\* The steps in which a call at c ends, fails or is lost.
Ending(c) ==
  \/ c \in Tabs /\ RefreshFails(c) /\ UNCHANGED browserVars
  \/ Refreshed(c) \/ Cleared(c) \/ Lose(c)
  \/ SignedIn(c)

LEMMA EndingShape ==
  ASSUME TabsTyped, NEW c \in Calls, Ending(c)
  PROVE  /\ Steps(c) /\ Ends(c) /\ call[c].pc # "idle"
         /\ call'[c].pc \in {"idle", "refused"} /\ call'[c].tok = 0 /\ call'[c].new = 0
         /\ \/ fate' = fate /\ call[c].pc \in {"answered", "refused"}
            \/ Breaks(c) /\ cookie' = cookie
         /\ fate' \in [Ids -> Fates]
         /\ \A f \in Ids : fate'[f] \in {fate[f], "broken"} /\ (fate'[f] # fate[f] => f = call[c].fam)
         /\ \A f \in Ids : f > issued => fate'[f] = fate[f]
         /\ \/ cookie' = cookie /\ (call[c].pc \in {"answered", "refused"} => Breaks(c))
            \/ cookie' = 0
            \/ call[c].pc = "answered" /\ cookie' = call[c].new /\ call[c].new \in 1..issued
         /\ TabsTyped'
<1>1. call[c] \in CallState /\ Fits(c, call[c], token, issued)
  BY TypedParts
<1>2. PICK k \in {Idle, Refused(c)} : call' = [call EXCEPT ![c] = k]
  BY DEF Ending, RefreshFails, Refreshed, Cleared, Lose, SignedIn
<1>3. UNCHANGED <<token, issued, active>>
  BY DEF Ending, RefreshFails, Refreshed, Cleared, Lose, SignedIn
<1>4. /\ Steps(c) /\ Ends(c)
      /\ call'[c].pc \in {"idle", "refused"} /\ call'[c].tok = 0 /\ call'[c].new = 0
  BY <1>2, <1>3, EndsShape
<1>5. call[c].pc # "idle"
  BY DEF Ending, RefreshFails, Refreshed, Cleared, Lose, SignedIn
<1>6. /\ \/ fate' = fate /\ call[c].pc \in {"answered", "refused"}
         \/ Breaks(c) /\ cookie' = cookie
      /\ \/ cookie' = cookie /\ (call[c].pc \in {"answered", "refused"} => Breaks(c))
         \/ cookie' = 0
         \/ call[c].pc = "answered" /\ cookie' = call[c].new
  BY DEF Ending, RefreshFails, Refreshed, Cleared, Lose, SignedIn, browserVars
<1>7. call[c].pc = "answered" => call[c].new \in 1..issued
  BY <1>1 DEF Fits
<1>8. /\ fate' \in [Ids -> Fates]
      /\ \A f \in Ids : fate'[f] \in {fate[f], "broken"} /\ (fate'[f] # fate[f] => f = call[c].fam)
  BY <1>6, BreaksShape, TypedParts
<1>9. \A f \in Ids : f > issued => fate'[f] = fate[f]
  <2>1. call[c].fam # 0 => call[c].fam \in 1..issued
    BY <1>1, TypedParts DEF Fits
  <2>2. \A f \in Ids : f > issued => f # call[c].fam
    BY <2>1, TypedParts DEF Ids
  <2> QED BY <1>8, <2>2
<1>10. req' \in [Reqs -> ReqState] /\ WaitingServed'
  <2>1. CASE c \in Tabs /\ RefreshFails(c) /\ UNCHANGED browserVars
    <3>1. UNCHANGED req /\ call'[c] = Refused(c)
      BY <1>1, <2>1, TypedParts DEF browserVars, RefreshFails
    <3> QED BY <1>4, <3>1, RefusedFits, WaitingStays, RequestsTyped
  <2>2. CASE Refreshed(c) \/ Cleared(c) \/ Lose(c)
    <3>1. PICK next \in {Rest, [pc |-> "again", good |-> TRUE]} : req' = Woken(c, next)
      BY <2>2 DEF Refreshed, Cleared, Lose
    <3>2. Rest \in ReqState /\ Rest.pc # "waiting"
      BY DEF Rest, ReqState
    <3>3. next \in ReqState /\ next.pc # "waiting"
      <4>1. CASE next = Rest
        BY <3>2, <4>1
      <4>2. CASE next = [pc |-> "again", good |-> TRUE]
        BY <4>2 DEF ReqState
      <4> QED BY <3>1, <4>1, <4>2
    <3> QED BY <1>4, <3>1, <3>3, WokenShape
  <2>3. CASE SignedIn(c)
    <3>1. UNCHANGED req /\ c \in Others
      BY <2>3 DEF SignedIn
    <3> QED BY <1>4, <3>1, WaitingStays, RequestsTyped
  <2> QED BY <2>1, <2>2, <2>3 DEF Ending
<1>11. cookie' \in 0..issued /\ access' \in BOOLEAN
  <2>1. cookie' \in 0..issued
    BY <1>6, <1>7, TypedParts
  <2>2. access' \in BOOLEAN
    BY TypedParts DEF Ending, Refreshed, Cleared, Lose, SignedIn, browserVars
  <2> QED BY <2>1, <2>2
<1>12. TabsTyped'
  BY <1>3, <1>4, <1>8, <1>9, <1>10, <1>11, CallStepTyped
<1> QED BY <1>4, <1>5, <1>6, <1>7, <1>8, <1>9, <1>12

\* A call begins.
Starting(c) ==
  \/ \E q \in Reqs : TabOf[q] = c /\ call[c] = Idle /\ Join(q)
  \/ SignIn(c) \/ SignOut(c)

LEMMA StartingShape ==
  ASSUME TabsTyped, NEW c \in Calls, Starting(c)
  PROVE  /\ Steps(c) /\ UNCHANGED <<token, issued, active, fate, cookie>>
         /\ \A d \in Calls \ {c} : call'[d] = call[d]
         /\ call[c] = Idle /\ call'[c].pc \in {"loading", "leaving", "opening"}
         /\ call'[c].pc = "opening" => active
         /\ call'[c].tok \in {0, cookie} /\ call'[c].new = 0
         /\ TabsTyped'
<1>1. CASE \E q \in Reqs : TabOf[q] = c /\ call[c] = Idle /\ Join(q)
  <2> DEFINE k == Presenting("loading", cookie)
  <2>1. PICK q \in Reqs : TabOf[q] = c /\ call[c] = Idle /\ Join(q)
    BY <1>1
  <2>2. c \in Tabs
    BY <2>1, RequestsTyped
  <2>3. Fits(c, k, token, issued) /\ k.pc = "loading" /\ k.tok = cookie /\ k.new = 0
    BY <2>2, PresentingShape
  <2> HIDE DEF k
  <2>4. /\ call' = [call EXCEPT ![c] = k] /\ UNCHANGED <<token, issued, active, fate, cookie, access>>
        /\ req' = [req EXCEPT ![q] = [pc |-> "waiting", good |-> FALSE]]
    BY <2>1 DEF Join, k
  <2>5. TokensKept /\ Fits(c, k, token', issued')
    BY <2>3, <2>4, SameTokens
  <2>6. Steps(c) /\ call'[c] = k /\ \A d \in Calls \ {c} : call'[d] = call[d]
    BY <2>4, <2>5, OneMoves
  <2>7. req' \in [Reqs -> ReqState] /\ WaitingServed'
    <3>1. [pc |-> "waiting", good |-> FALSE] \in ReqState
      BY DEF ReqState
    <3>2. req' \in [Reqs -> ReqState]
      BY <2>4, <3>1, RequestsTyped
    <3>3. ASSUME NEW p \in Reqs, req'[p].pc = "waiting" PROVE call'[TabOf[p]].pc # "idle"
      <4>1. CASE TabOf[p] = c
        BY <2>3, <2>6, <4>1
      <4>2. CASE TabOf[p] # c
        BY <2>1, <2>4, <2>6, <3>3, <4>2, RequestsTyped DEF WaitingServed
      <4> QED BY <4>1, <4>2
    <3> QED BY <3>2, <3>3 DEF WaitingServed
  <2>8. TabsTyped'
    <3>1. /\ cookie' \in 0..issued /\ access' \in BOOLEAN /\ fate' \in [Ids -> Fates]
          /\ \A f \in Ids : f > issued => fate'[f] = fate[f]
      BY <2>4, TypedParts
    <3> QED BY <2>4, <2>6, <2>7, <3>1, CallStepTyped
  <2> QED BY <2>1, <2>3, <2>4, <2>6, <2>8
<1>2. CASE SignIn(c)
  <2>1. c \in Others /\ Login(c) /\ UNCHANGED browserVars
    BY <1>2 DEF SignIn
  <2>2. /\ Steps(c) /\ UNCHANGED <<token, issued, active, fate>>
        /\ \A d \in Calls \ {c} : call'[d] = call[d]
        /\ active /\ call[c] = Idle
        /\ call'[c].pc = "opening" /\ call'[c].tok = 0 /\ call'[c].new = 0
    BY <2>1, LoginShape
  <2>3. UNCHANGED <<cookie, access, req>>
    BY <2>1 DEF browserVars
  <2>4. WaitingServed'
    BY <2>2, <2>3, WaitingStays
  <2>5. TabsTyped'
    <3>1. /\ cookie' \in 0..issued /\ access' \in BOOLEAN /\ fate' \in [Ids -> Fates]
          /\ req' \in [Reqs -> ReqState]
          /\ \A f \in Ids : f > issued => fate'[f] = fate[f]
      BY <2>2, <2>3, TypedParts, RequestsTyped
    <3> QED BY <2>2, <2>4, <3>1, CallStepTyped
  <2> QED BY <2>2, <2>3, <2>5
<1>3. CASE SignOut(c)
  <2> DEFINE k == Presenting("leaving", cookie)
  <2>1. /\ c \in Others /\ cookie # 0 /\ call[c] = Idle
        /\ call' = [call EXCEPT ![c] = k]
        /\ UNCHANGED <<token, issued, active, fate, cookie, access, req>>
    BY <1>3 DEF SignOut
  <2>2. Fits(c, k, token, issued) /\ k.pc = "leaving" /\ k.tok = cookie /\ k.new = 0
    BY <2>1, PresentingShape
  <2> HIDE DEF k
  <2>3. TokensKept /\ Fits(c, k, token', issued')
    BY <2>1, <2>2, SameTokens
  <2>4. Steps(c) /\ call'[c] = k /\ \A d \in Calls \ {c} : call'[d] = call[d]
    BY <2>1, <2>3, OneMoves
  <2>5. WaitingServed'
    BY <2>1, <2>4, WaitingStays
  <2>6. TabsTyped'
    <3>1. /\ cookie' \in 0..issued /\ access' \in BOOLEAN /\ fate' \in [Ids -> Fates]
          /\ req' \in [Reqs -> ReqState]
          /\ \A f \in Ids : f > issued => fate'[f] = fate[f]
      BY <2>1, TypedParts, RequestsTyped
    <3> QED BY <2>1, <2>4, <2>5, <3>1, CallStepTyped
  <2> QED BY <2>1, <2>2, <2>4, <2>6
<1> QED BY <1>1, <1>2, <1>3 DEF Starting

\* A step of the browser or the clock in which no call moves.
Quiet ==
  /\ UNCHANGED <<token, issued, active, call, fate, cookie>>
  /\ access' \in BOOLEAN /\ req' \in [Reqs -> ReqState] /\ WaitingServed'

LEMMA RestIsState == Rest \in ReqState /\ Rest.pc = "idle"
BY DEF Rest, ReqState

\* One request changes, and waits only for a call under way.
LEMMA RequestMoves ==
  ASSUME TabsTyped, NEW q \in Reqs, NEW r \in ReqState, req' = [req EXCEPT ![q] = r],
         r.pc = "waiting" => call[TabOf[q]].pc # "idle",
         UNCHANGED <<token, issued, active, call, fate, cookie, access>>
  PROVE  Quiet
<1>1. req' \in [Reqs -> ReqState]
  BY RequestsTyped
<1>2. ASSUME NEW p \in Reqs, req'[p].pc = "waiting" PROVE call'[TabOf[p]].pc # "idle"
  <2>1. req'[p] = IF p = q THEN r ELSE req[p]
    BY RequestsTyped
  <2> QED BY <1>2, <2>1, RequestsTyped DEF WaitingServed
<1>3. WaitingServed'
  BY <1>2 DEF WaitingServed
<1> QED BY <1>1, <1>3, TypedParts DEF Quiet

LEMMA QuietTyped == ASSUME TabsTyped, Quiet PROVE TabsTyped'
<1>1. TokensKnown'
  BY DEF Quiet, TabsTyped, TokensKnown
<1>2. TypeOK'
  <2>1. WaitingServed'
    BY DEF Quiet
  <2>2. \A q \in Reqs : req'[q].pc = "waiting" => call'[TabOf[q]].pc # "idle"
    BY <2>1 DEF WaitingServed
  <2>3. ServerTypeOK'
    BY DEF Quiet, TabsTyped, TypeOK, ServerTypeOK
  <2> QED BY <2>2, <2>3, TypedParts DEF Quiet, TypeOK
<1>3. \A c \in Calls : Fits(c, call'[c], token', issued')
  BY TypedParts DEF Quiet
<1> QED BY <1>1, <1>2, <1>3 DEF TabsTyped

LEMMA QuietShape ==
  ASSUME TabsTyped,
         \/ \E q \in Reqs : Send(q) \/ Serve(q) \/ GiveUp(q) \/ (call[TabOf[q]] # Idle /\ Join(q))
         \/ AccessExpires
         \/ UNCHANGED vars
  PROVE  Quiet
<1>1. CASE \E q \in Reqs : Send(q)
  <2>1. PICK q \in Reqs : Send(q)
    BY <1>1
  <2> DEFINE r == [pc |-> "sent", good |-> access]
  <2>2. r \in ReqState /\ r.pc # "waiting"
    BY TypedParts DEF ReqState
  <2>3. req' = [req EXCEPT ![q] = r] /\ UNCHANGED <<token, issued, active, call, fate, cookie, access>>
    BY <2>1 DEF Send
  <2> HIDE DEF r
  <2> QED BY <2>2, <2>3, RequestMoves
<1>2. CASE \E q \in Reqs : Serve(q) \/ GiveUp(q)
  <2>1. PICK q \in Reqs : Serve(q) \/ GiveUp(q)
    BY <1>2
  <2>2. req' = [req EXCEPT ![q] = Rest] /\ UNCHANGED <<token, issued, active, call, fate, cookie, access>>
    BY <2>1 DEF Serve, GiveUp
  <2> QED BY <2>2, RestIsState, RequestMoves
<1>3. CASE \E q \in Reqs : call[TabOf[q]] # Idle /\ Join(q)
  <2>1. PICK q \in Reqs : call[TabOf[q]] # Idle /\ Join(q)
    BY <1>3
  <2> DEFINE r == [pc |-> "waiting", good |-> FALSE]
  <2>2. r \in ReqState
    BY DEF ReqState
  <2>3. req' = [req EXCEPT ![q] = r] /\ UNCHANGED <<token, issued, active, call, fate, cookie, access>>
    BY <2>1 DEF Join
  <2>4. call[TabOf[q]].pc # "idle"
    BY <2>1, RequestsTyped, TypedParts DEF Fits
  <2> HIDE DEF r
  <2> QED BY <2>2, <2>3, <2>4, RequestMoves
<1>4. CASE AccessExpires
  BY <1>4, RequestsTyped DEF AccessExpires, Quiet, WaitingServed
<1>5. CASE UNCHANGED vars
  BY <1>5, RequestsTyped, TypedParts DEF vars, Quiet, WaitingServed
<1> QED BY <1>1, <1>2, <1>3, <1>4, <1>5

LEMMA EndWriteTyped ==
  ASSUME TabsTyped, NEW c \in Others, NEW stays \in BOOLEAN, EndWrite(c, stays), UNCHANGED browserVars
  PROVE  TabsTyped'
<1>1. c \in Calls
  BY DEF Calls
<1>2. Steps(c) /\ UNCHANGED <<token, issued, fate>> /\ active' \in BOOLEAN
  BY EndWriteShape
<1>3. UNCHANGED <<cookie, access, req>>
  BY DEF browserVars
<1>4. WaitingServed'
  BY <1>1, <1>2, <1>3, WaitingStays
<1>5. TokensKnown'
  BY <1>2, KnownStays DEF Steps
<1>6. /\ token' \in [Ids -> [state : TokenState, fam : 0..MaxTokens]]
      /\ \A t \in Ids : token'[t].state = "none" <=> t > issued'
      /\ fate' \in [Ids -> Fates] /\ cookie' \in 0..issued' /\ access' \in BOOLEAN
      /\ req' \in [Reqs -> ReqState]
  BY <1>2, <1>3, TypedParts, RequestsTyped
<1> QED BY <1>1, <1>2, <1>4, <1>5, <1>6, TypedMove

LEMMA ReactivateTyped ==
  ASSUME TabsTyped, Reactivate, UNCHANGED browserVars
  PROVE  TabsTyped'
<1>1. active' = TRUE /\ UNCHANGED <<token, issued, call, fate, cookie, access, req>>
  BY DEF Reactivate, browserVars
<1>2. TypeOK'
  BY <1>1 DEF TabsTyped, TypeOK, ServerTypeOK
<1>3. TokensKnown' /\ \A c \in Calls : Fits(c, call'[c], token', issued')
  BY <1>1, TypedParts DEF TabsTyped, TokensKnown
<1> QED BY <1>2, <1>3 DEF TabsTyped

LEMMA GraceShape ==
  ASSUME TabsTyped, NEW t \in Ids, GraceEnds(t)
  PROVE  /\ UNCHANGED <<issued, active, call, fate>>
         /\ token' \in [Ids -> [state : TokenState, fam : 0..MaxTokens]]
         /\ \A u \in Ids : /\ token'[u].fam = token[u].fam
                           /\ token'[u].state = "live" <=> token[u].state = "live"
                           /\ token'[u].state = "none" <=> token[u].state = "none"
<1> DEFINE row == [token[t] EXCEPT !.state = "stale"]
<1>1. /\ token[t].state = "rotated" /\ token' = [token EXCEPT ![t] = row]
      /\ UNCHANGED <<issued, active, call, fate>>
  BY DEF GraceEnds
<1>2. row \in [state : TokenState, fam : 0..MaxTokens] /\ row.fam = token[t].fam /\ row.state = "stale"
  <2>1. token[t] \in [state : TokenState, fam : 0..MaxTokens]
    BY TypedParts
  <2> QED BY <2>1 DEF TokenState
<1> HIDE DEF row
<1>3. token' \in [Ids -> [state : TokenState, fam : 0..MaxTokens]]
  BY <1>1, <1>2, TypedParts
<1>4. \A u \in Ids : token'[u] = IF u = t THEN row ELSE token[u]
  BY <1>1, TypedParts
<1> QED BY <1>1, <1>2, <1>3, <1>4

LEMMA GraceTyped ==
  ASSUME TabsTyped, NEW t \in Ids, GraceEnds(t), UNCHANGED browserVars
  PROVE  TabsTyped'
<1>1. UNCHANGED <<cookie, access, req>>
  BY DEF browserVars
<1>2. /\ UNCHANGED <<issued, active, call, fate>>
      /\ token' \in [Ids -> [state : TokenState, fam : 0..MaxTokens]]
      /\ \A u \in Ids : /\ token'[u].fam = token[u].fam
                        /\ token'[u].state = "none" <=> token[u].state = "none"
  BY GraceShape
<1>3. TokensKept
  BY <1>2, TypedParts DEF TokensKept
<1>4. TokensKnown'
  BY <1>2, <1>3, KnownStays
<1>5. \A c \in Calls : Fits(c, call'[c], token', issued')
  BY <1>2, <1>3, TypedParts, FitsStays
<1>6. TypeOK'
  BY <1>1, <1>2 DEF TabsTyped, TypeOK, ServerTypeOK
<1> QED BY <1>4, <1>5, <1>6 DEF TabsTyped

\* Every step of the tabs is of one of these kinds.
TabsStep ==
  \/ Quiet
  \/ \E c \in Calls : Starting(c) \/ Ending(c) \/ (ServerStep(c) /\ UNCHANGED browserVars)
  \/ \E c \in Others, stays \in BOOLEAN : EndWrite(c, stays) /\ UNCHANGED browserVars
  \/ Reactivate /\ UNCHANGED browserVars
  \/ \E t \in Ids : GraceEnds(t) /\ UNCHANGED browserVars

LEMMA TabsCases == ASSUME TabsTyped, [Next]_vars PROVE TabsStep
<1>1. CASE \E q \in Reqs : Send(q) \/ Serve(q) \/ GiveUp(q)
  BY <1>1, QuietShape DEF TabsStep
<1>2. CASE \E q \in Reqs : Join(q)
  <2>1. PICK q \in Reqs : Join(q)
    BY <1>2
  <2>2. CASE call[TabOf[q]] = Idle
    BY <2>1, <2>2, RequestsTyped DEF TabsStep, Starting
  <2>3. CASE call[TabOf[q]] # Idle
    BY <2>1, <2>3, QuietShape DEF TabsStep
  <2> QED BY <2>2, <2>3
<1>3. CASE \E c \in Calls : ServerStep(c) /\ UNCHANGED browserVars
  BY <1>3 DEF TabsStep
<1>4. CASE \E c \in Tabs : RefreshFails(c) /\ UNCHANGED browserVars
  BY <1>4 DEF TabsStep, Ending, Calls
<1>5. CASE \E c \in Calls : Refreshed(c) \/ Cleared(c) \/ Lose(c) \/ SignedIn(c)
  BY <1>5 DEF TabsStep, Ending
<1>6. CASE \E c \in Calls : SignIn(c) \/ SignOut(c)
  BY <1>6 DEF TabsStep, Starting
<1>7. CASE \E c \in Others, stays \in BOOLEAN : EndWrite(c, stays) /\ UNCHANGED browserVars
  BY <1>7 DEF TabsStep
<1>8. CASE Reactivate /\ UNCHANGED browserVars
  BY <1>8 DEF TabsStep
<1>9. CASE \E t \in Ids : GraceEnds(t) /\ UNCHANGED browserVars
  BY <1>9 DEF TabsStep
<1>10. CASE AccessExpires \/ UNCHANGED vars
  BY <1>10, QuietShape DEF TabsStep
<1> QED BY <1>1, <1>2, <1>3, <1>4, <1>5, <1>6, <1>7, <1>8, <1>9, <1>10 DEF Next

LEMMA TabsTypedStays == ASSUME TabsTyped, TabsStep PROVE TabsTyped'
<1>1. CASE Quiet
  BY <1>1, QuietTyped
<1>2. CASE \E c \in Calls : Starting(c)
  BY <1>2, StartingShape
<1>3. CASE \E c \in Calls : Ending(c)
  BY <1>3, EndingShape
<1>4. CASE \E c \in Calls : ServerStep(c) /\ UNCHANGED browserVars
  BY <1>4, ServerStepTyped
<1>5. CASE \E c \in Others, stays \in BOOLEAN : EndWrite(c, stays) /\ UNCHANGED browserVars
  BY <1>5, EndWriteTyped
<1>6. CASE Reactivate /\ UNCHANGED browserVars
  BY <1>6, ReactivateTyped
<1>7. CASE \E t \in Ids : GraceEnds(t) /\ UNCHANGED browserVars
  BY <1>7, GraceTyped
<1> QED BY <1>1, <1>2, <1>3, <1>4, <1>5, <1>6, <1>7 DEF TabsStep

\* What a call holds.
LEMMA CallFacts ==
  ASSUME TabsTyped, NEW c \in Calls
  PROVE  /\ call[c].fam \in 0..MaxTokens
         /\ call[c].fam # 0 => /\ call[c].fam \in 1..issued /\ call[c].fam \in Ids
                               /\ \E t \in 1..issued : call[c].fam = token[t].fam
         /\ call[c].pc \in {"rotating", "counting", "issuing"} => call[c].fam # 0
         /\ call[c].tok # 0 => call[c].tok \in 1..issued /\ call[c].fam = token[call[c].tok].fam
         /\ call[c].new # 0 => /\ call[c].pc = "answered"
                               /\ call[c].new \in 1..issued /\ call[c].fam = token[call[c].new].fam
         /\ call[c].tok \in 0..issued /\ call[c].new \in 0..issued
         /\ call[c].pc = "issuing" => c \in Tabs
<1>1. Fits(c, call[c], token, issued) /\ call[c] \in CallState
  BY TypedParts
<1>2. call[c].fam \in 0..MaxTokens
  BY <1>1 DEF CallState
<1>3. call[c].tok # 0 => call[c].tok \in 1..issued /\ call[c].fam = token[call[c].tok].fam
  BY <1>1 DEF Fits
<1>4. call[c].new # 0 => /\ call[c].pc = "answered"
                         /\ call[c].new \in 1..issued /\ call[c].fam = token[call[c].new].fam
  BY <1>1 DEF Fits
<1>5. ASSUME call[c].fam # 0
      PROVE  /\ call[c].fam \in 1..issued /\ call[c].fam \in Ids
             /\ \E t \in 1..issued : call[c].fam = token[t].fam
  <2>1. PICK t \in 1..issued : call[c].fam = token[t].fam
    BY <1>1, <1>5 DEF Fits
  <2> QED BY <2>1, TypedParts DEF Ids
<1>6. call[c].pc \in {"rotating", "counting", "issuing"} => call[c].fam # 0
  BY <1>1 DEF Fits
<1>7. call[c].tok \in 0..issued /\ call[c].new \in 0..issued
  BY <1>3, <1>4, TypedParts
<1>8. call[c].pc = "issuing" => c \in Tabs
  BY <1>1 DEF Fits, Calls
<1> QED BY <1>2, <1>3, <1>4, <1>5, <1>6, <1>7, <1>8

\* The other calls go on with what they have.
LEMMA OthersStay ==
  ASSUME TabsTyped, NEW c \in Calls, Steps(c), NEW d \in Calls, d # c
  PROVE  /\ call'[d].pc = call[d].pc /\ call'[d].tok = call[d].tok /\ call'[d].fam = call[d].fam
         /\ call'[d].new = call[d].new /\ call'[d].seen = call[d].seen
         /\ ~ call'[d].overtaken => ~ call[d].overtaken
BY StepsAlike DEF Alike

\* Rows of tokens that stay or lose their life, while no session ends.
LEMMA AliveNotEndedKept ==
  ASSUME TabsTyped, AliveNotEnded, issued' = issued,
         \A t \in Ids : token'[t].fam = token[t].fam /\ (token'[t].state = "live" => token[t].state = "live"),
         \A f \in Ids : fate'[f] = "ended" => fate[f] = "ended"
  PROVE  AliveNotEnded'
<1>1. ASSUME NEW t \in 1..issued, token'[t].state = "live" PROVE fate'[token'[t].fam] # "ended"
  <2>1. t \in Ids /\ token[t].fam \in Ids
    BY TypedParts DEF Ids
  <2> QED BY <1>1, <2>1 DEF AliveNotEnded
<1> QED BY <1>1 DEF AliveNotEnded

LEMMA AliveNotEndedStays == ASSUME TabsInv, TabsStep PROVE AliveNotEnded'
<1> USE DEF TabsInv
<1>1. CASE Quiet
  BY <1>1 DEF Quiet, AliveNotEnded
<1>2. ASSUME NEW c \in Calls, Starting(c) PROVE AliveNotEnded'
  BY <1>2, StartingShape DEF AliveNotEnded
<1>3. ASSUME NEW c \in Calls, Ending(c) PROVE AliveNotEnded'
  <2>1. UNCHANGED <<token, issued>>
    BY <1>3, EndingShape DEF Ends
  <2>2. \A f \in Ids : fate'[f] = "ended" => fate[f] = "ended"
    BY <1>3, EndingShape
  <2> QED BY <2>1, <2>2, AliveNotEndedKept
<1>4. ASSUME NEW c \in Calls, Load(c) \/ Count(c) PROVE AliveNotEnded'
  BY <1>4, LoadShape, CountShape DEF AliveNotEnded
<1>5. ASSUME NEW c \in Calls, Rotate(c) PROVE AliveNotEnded'
  <2> DEFINE t == call[c].tok
  <2>1. /\ issued' = issued /\ fate' = fate
        /\ t \in 1..issued /\ call[c].fam = token[t].fam
        /\ token'[t].state = "rotated" /\ \A u \in Ids \ {t} : token'[u] = token[u]
        /\ Steps(c)
    BY <1>5, RotateShape
  <2> HIDE DEF t
  <2>2. token'[t].fam = token[t].fam
    BY <2>1 DEF Steps, TokensKept
  <2>3. \A u \in Ids : token'[u].fam = token[u].fam /\ (token'[u].state = "live" => token[u].state = "live")
    BY <2>1, <2>2
  <2> QED BY <2>1, <2>3, AliveNotEndedKept
<1>6. ASSUME NEW c \in Calls, Issue(c) PROVE AliveNotEnded'
  <2> DEFINE n == issued + 1
             f == FamilyOf(c)
  <2>1. /\ issued' = n /\ n \in Ids /\ issued \in Nat /\ f \in Ids
        /\ token'[n].state = "live" /\ token'[n].fam = f
        /\ \A t \in Ids \ {n} : token'[t] = token[t]
        /\ fate'[f] = (IF fate[f] = "ended" THEN "broken" ELSE fate[f])
        /\ \A g \in Ids \ {f} : fate'[g] = fate[g]
    BY <1>6, IssueShape, TypedParts
  <2> HIDE DEF f
  <2>2. \A g \in Ids : fate'[g] # "ended" \/ fate'[g] = fate[g]
    BY <2>1
  <2>3. ASSUME NEW t \in 1..n, token'[t].state = "live" PROVE fate'[token'[t].fam] # "ended"
    <3>1. CASE t = n
      BY <2>1, <3>1
    <3>2. CASE t # n
      <4>1. t \in 1..issued /\ t \in Ids \ {n} /\ token[t].fam \in Ids
        BY <2>1, <3>2, TypedParts DEF Ids
      <4> QED BY <2>1, <2>2, <2>3, <4>1 DEF AliveNotEnded
    <3> QED BY <3>1, <3>2
  <2> QED BY <2>1, <2>3 DEF AliveNotEnded
<1>7. ASSUME NEW c \in Calls, RevokeAll(c) PROVE AliveNotEnded'
  <2>1. issued' = issued /\ \A t \in Ids : token'[t].state # "live"
    BY <1>7, RevokeAllShape
  <2> QED BY <2>1, TypedParts DEF AliveNotEnded
<1>8. ASSUME NEW c \in Calls, Logout(c) PROVE AliveNotEnded'
  <2> DEFINE t == call[c].tok
             f == call[c].fam
  <2>1. /\ issued' = issued /\ t \in 1..issued /\ f = token[t].fam
        /\ token'[t].state # "live" /\ token'[t].fam = f
        /\ \A u \in Ids \ {t} : token'[u] = token[u]
        /\ \A g \in Ids \ {f} : fate'[g] = fate[g]
        /\ fate'[f] = IF token[t].state = "live" /\ LiveIn(f) = {t} THEN "ended" ELSE fate[f]
    BY <1>8, LogoutShape
  <2> HIDE DEF t, f
  <2>2. ASSUME NEW u \in 1..issued, token'[u].state = "live" PROVE fate'[token'[u].fam] # "ended"
    <3>1. u \in Ids \ {t} /\ token'[u] = token[u] /\ token[u].fam \in Ids /\ fate[token[u].fam] # "ended"
      BY <2>1, <2>2, TypedParts DEF Ids, AliveNotEnded
    <3>2. CASE token[u].fam # f
      BY <2>1, <3>1, <3>2
    <3>3. CASE token[u].fam = f
      <4>1. u \in LiveIn(f)
        BY <2>2, <3>1, <3>3 DEF LiveIn
      <4> QED BY <2>1, <3>1, <3>3, <4>1
    <3> QED BY <3>2, <3>3
  <2> QED BY <2>1, <2>2 DEF AliveNotEnded
<1>9. ASSUME NEW c \in Others, NEW stays \in BOOLEAN, EndWrite(c, stays) PROVE AliveNotEnded'
  BY <1>9, EndWriteShape DEF AliveNotEnded
<1>10. CASE Reactivate
  BY <1>10 DEF Reactivate, AliveNotEnded
<1>11. ASSUME NEW t \in Ids, GraceEnds(t) PROVE AliveNotEnded'
  <2>1. /\ issued' = issued /\ fate' = fate
        /\ \A u \in Ids : token'[u].fam = token[u].fam /\ (token'[u].state = "live" => token[u].state = "live")
    BY <1>11, GraceShape
  <2> QED BY <2>1, AliveNotEndedKept
<1> QED BY <1>1, <1>2, <1>3, <1>4, <1>5, <1>6, <1>7, <1>8, <1>9, <1>10, <1>11 DEF TabsStep, ServerStep

\* Session f has a live token, or is about to have one.
Bridged(f) ==
  \/ \E u \in 1..issued : token[u].state = "live" /\ token[u].fam = f
  \/ \E d \in Tabs : call[d].pc = "issuing" /\ call[d].fam = f

\* A session of a token that was there already.
LEMMA BridgedThen ==
  ASSUME TabsTyped, GapBridged, TokensKept, issued' = issued,
         NEW t \in 1..issued', NEW f, token'[t].fam = f, fate[f] = "open"
  PROVE  Bridged(f)
<1>1. t \in 1..issued /\ token[t].fam = f
  BY DEF TokensKept
<1> QED BY <1>1 DEF GapBridged, Bridged

\* What bridges a session goes on doing so.
LEMMA BridgesStay ==
  ASSUME TabsTyped, TokensKept, NEW f, Bridged(f),
         \A u \in 1..issued : token[u].state = "live" /\ token[u].fam = f => token'[u].state = "live",
         \A d \in Tabs : call[d].pc = "issuing" /\ call[d].fam = f =>
                           call'[d].pc = "issuing" /\ call'[d].fam = f
  PROVE  Bridged(f)'
<1>1. CASE \E u \in 1..issued : token[u].state = "live" /\ token[u].fam = f
  <2>1. PICK u \in 1..issued : token[u].state = "live" /\ token[u].fam = f
    BY <1>1
  <2>2. u \in 1..issued' /\ token'[u].state = "live" /\ token'[u].fam = f
    BY <2>1, TypedParts DEF TokensKept
  <2> QED BY <2>2 DEF Bridged
<1>2. CASE \E d \in Tabs : call[d].pc = "issuing" /\ call[d].fam = f
  BY <1>2 DEF Bridged
<1> QED BY <1>1, <1>2 DEF Bridged

\* Steps of a call that issues nothing, and of those who sign in, over the same tokens.
LEMMA IssuingStay ==
  ASSUME TabsTyped, NEW c \in Calls, Steps(c), NEW f, call[c].pc # "issuing" \/ call[c].fam # f
  PROVE  \A d \in Tabs : call[d].pc = "issuing" /\ call[d].fam = f =>
                           call'[d].pc = "issuing" /\ call'[d].fam = f
<1>1. ASSUME NEW d \in Tabs, call[d].pc = "issuing", call[d].fam = f
      PROVE  call'[d].pc = "issuing" /\ call'[d].fam = f
  <2>1. d # c /\ d \in Calls
    BY <1>1 DEF Calls
  <2> QED BY <1>1, <2>1, OthersStay
<1> QED BY <1>1

LEMMA GapBridgedStays == ASSUME TabsInv, TabsStep PROVE GapBridged'
<1> USE DEF TabsInv
<1> SUFFICES ASSUME NEW t \in 1..issued', NEW f, token'[t].fam = f, fate'[f] = "open" PROVE Bridged(f)'
  BY DEF GapBridged, Bridged
<1>0. TabsTyped' /\ f \in Ids
  <2>1. TabsTyped'
    BY TabsTypedStays
  <2>2. \A u \in 1..issued' : token'[u].fam \in 1..issued' /\ issued' \in 0..MaxTokens
    BY <2>1 DEF TabsTyped, TokensKnown, TypeOK, ServerTypeOK
  <2> QED BY <2>1, <2>2, SessionsAssumption DEF Ids
<1>1. CASE Quiet
  BY <1>1 DEF Quiet, GapBridged, Bridged
<1>2. ASSUME NEW c \in Calls, Starting(c) PROVE Bridged(f)'
  <2>1. Steps(c) /\ UNCHANGED <<token, issued, fate>> /\ call[c].pc = "idle"
    BY <1>2, StartingShape, IdleFits
  <2>2. Bridged(f) /\ TokensKept
    BY <2>1, BridgedThen DEF Steps
  <2> QED BY <2>1, <2>2, IssuingStay, BridgesStay
<1>3. ASSUME NEW c \in Calls, Ending(c) PROVE Bridged(f)'
  <2>1. /\ Steps(c) /\ UNCHANGED <<token, issued>>
        /\ (fate' = fate /\ call[c].pc \in {"answered", "refused"}) \/ Breaks(c)
        /\ \A g \in Ids : fate'[g] \in {fate[g], "broken"}
    BY <1>3, EndingShape DEF Ends
  <2>2. fate[f] = "open"
    BY <1>0, <2>1
  <2>3. Bridged(f) /\ TokensKept
    BY <2>1, <2>2, BridgedThen DEF Steps
  <2>4. call[c].pc # "issuing" \/ call[c].fam # f
    BY <1>0, <2>1, BreaksShape
  <2> QED BY <2>1, <2>3, <2>4, IssuingStay, BridgesStay
<1>4. ASSUME NEW c \in Calls, Load(c) \/ Count(c) PROVE Bridged(f)'
  <2>1. Steps(c) /\ UNCHANGED <<token, issued, fate>> /\ call[c].pc \in {"loading", "counting"}
    BY <1>4, LoadShape, CountShape
  <2>2. Bridged(f) /\ TokensKept
    BY <2>1, BridgedThen DEF Steps
  <2> QED BY <2>1, <2>2, IssuingStay, BridgesStay
<1>5. ASSUME NEW c \in Calls, Rotate(c) PROVE Bridged(f)'
  <2> DEFINE r == call[c].tok
  <2>1. /\ Steps(c) /\ UNCHANGED <<issued, fate>> /\ call[c].pc = "rotating"
        /\ c \in Tabs /\ r \in 1..issued /\ call[c].fam = token[r].fam
        /\ \A u \in Ids \ {r} : token'[u] = token[u]
        /\ call'[c].pc = "issuing" /\ call'[c].fam = call[c].fam
    BY <1>5, RotateShape
  <2> HIDE DEF r
  <2>2. CASE token[r].fam = f
    BY <2>1, <2>2 DEF Bridged
  <2>3. CASE token[r].fam # f
    <3>1. Bridged(f) /\ TokensKept
      BY <2>1, BridgedThen DEF Steps
    <3>2. \A u \in 1..issued : token[u].state = "live" /\ token[u].fam = f => token'[u].state = "live"
      BY <2>1, <2>3, TypedParts
    <3> QED BY <2>1, <3>1, <3>2, IssuingStay, BridgesStay
  <2> QED BY <2>2, <2>3
<1>6. ASSUME NEW c \in Calls, Issue(c) PROVE Bridged(f)'
  <2> DEFINE n == issued + 1
             g == FamilyOf(c)
  <2>1. /\ Steps(c) /\ issued' = n /\ n \in Ids /\ issued \in Nat /\ g \in Ids
        /\ token'[n].state = "live" /\ token'[n].fam = g
        /\ \A u \in Ids \ {n} : token'[u] = token[u]
        /\ fate'[g] = (IF fate[g] = "ended" THEN "broken" ELSE fate[g])
        /\ \A h \in Ids \ {g} : fate'[h] = fate[h]
        /\ call[c].pc = "issuing" => g = call[c].fam
    BY <1>6, IssueShape, TypedParts
  <2> HIDE DEF g
  <2>2. CASE f = g
    BY <2>1, <2>2 DEF Bridged
  <2>3. CASE f # g
    <3>1. t \in 1..issued /\ token[t].fam = f /\ fate[f] = "open"
      <4>1. t # n /\ t \in 1..n
        BY <2>1, <2>3
      <4>2. t \in 1..issued
        BY <2>1, <4>1
      <4>3. t \in Ids \ {n}
        BY <4>1, <4>2, TypedParts
      <4> QED BY <1>0, <2>1, <2>3, <4>2, <4>3
    <3>2. Bridged(f) /\ TokensKept
      BY <2>1, <3>1 DEF Steps, GapBridged, Bridged
    <3>3. ASSUME NEW u \in 1..issued PROVE token'[u] = token[u]
      <4>1. u \in Ids
        BY TypedParts
      <4>2. u # n
        BY <2>1
      <4> QED BY <2>1, <4>1, <4>2
    <3> QED BY <2>1, <2>3, <3>2, <3>3, IssuingStay, BridgesStay
  <2> QED BY <2>2, <2>3
<1>7. ASSUME NEW c \in Calls, RevokeAll(c) PROVE Bridged(f)'
  <2>1. /\ issued' = issued /\ \A u \in Ids : token'[u].fam = token[u].fam
        /\ \A u \in 1..issued : fate'[token[u].fam] = "ended"
    BY <1>7, RevokeAllShape
  <2>2. t \in 1..issued /\ token[t].fam = f
    BY <2>1, TypedParts
  <2> QED BY <2>1, <2>2
<1>8. ASSUME NEW c \in Calls, Logout(c) PROVE Bridged(f)'
  <2> DEFINE r == call[c].tok
             g == call[c].fam
  <2>1. /\ Steps(c) /\ issued' = issued /\ call[c].pc = "leaving" /\ r \in 1..issued /\ g = token[r].fam
        /\ token[r].state # "live" => token' = token
        /\ token'[r].fam = g
        /\ \A u \in Ids \ {r} : token'[u] = token[u]
        /\ \A h \in Ids \ {g} : fate'[h] = fate[h]
        /\ fate'[g] = IF token[r].state = "live" /\ LiveIn(g) = {r} THEN "ended" ELSE fate[g]
    BY <1>8, LogoutShape
  <2> HIDE DEF r, g
  <2>2. fate[f] = "open"
    BY <1>0, <2>1
  <2>3. Bridged(f) /\ TokensKept
    BY <2>1, <2>2, BridgedThen DEF Steps
  <2>4. CASE token[r].state = "live" /\ g = f
    <3>1. PICK u \in LiveIn(f) : u # r
      <4>1. r \in LiveIn(f)
        BY <2>1, <2>4, TypedParts DEF LiveIn
      <4>2. LiveIn(f) # {r}
        BY <2>1, <2>4
      <4> QED BY <4>1, <4>2
    <3>2. u \in Ids /\ token[u].state = "live" /\ token[u].fam = f
      BY DEF LiveIn
    <3>3. u \in 1..issued /\ token'[u] = token[u]
      BY <2>1, <3>1, <3>2, TypedParts DEF Ids
    <3> QED BY <2>1, <3>2, <3>3 DEF Bridged
  <2>5. CASE ~ (token[r].state = "live" /\ g = f)
    <3>1. \A u \in 1..issued : token[u].state = "live" /\ token[u].fam = f => token'[u].state = "live"
      BY <2>1, <2>5, TypedParts
    <3> QED BY <2>1, <2>3, <3>1, IssuingStay, BridgesStay
  <2> QED BY <2>4, <2>5
<1>9. ASSUME NEW c \in Others, NEW stays \in BOOLEAN, EndWrite(c, stays) PROVE Bridged(f)'
  <2>1. Steps(c) /\ UNCHANGED <<token, issued, fate>> /\ call[c].pc = "idle" /\ c \in Calls
    BY <1>9, EndWriteShape, IdleFits DEF Calls
  <2>2. Bridged(f) /\ TokensKept
    BY <2>1, BridgedThen DEF Steps
  <2> QED BY <2>1, <2>2, IssuingStay, BridgesStay
<1>10. CASE Reactivate
  BY <1>10 DEF Reactivate, GapBridged, Bridged
<1>11. ASSUME NEW u \in Ids, GraceEnds(u) PROVE Bridged(f)'
  <2>1. /\ UNCHANGED <<issued, call, fate>>
        /\ \A v \in Ids : token'[v].fam = token[v].fam /\ (token'[v].state = "live" <=> token[v].state = "live")
    BY <1>11, GraceShape
  <2>2. TokensKept
    BY <2>1, TypedParts DEF TokensKept
  <2>3. Bridged(f)
    BY <2>1, <2>2, BridgedThen
  <2>4. \A v \in 1..issued : token[v].state = "live" /\ token[v].fam = f => token'[v].state = "live"
    BY <2>1, TypedParts
  <2> QED BY <2>1, <2>2, <2>3, <2>4, BridgesStay
<1> QED BY <1>1, <1>2, <1>3, <1>4, <1>5, <1>6, <1>7, <1>8, <1>9, <1>10, <1>11 DEF TabsStep, ServerStep

\* What call c has seen.
Seen(c) ==
  ~ call[c].overtaken =>
    /\ call[c].pc \in {"rotating", "issuing"} => active /\ fate[call[c].fam] # "ended"
    /\ call[c].pc = "counting" /\ call[c].seen => active
    /\ call[c].pc = "opening" => active

WillIssue == {"rotating", "counting", "issuing", "opening"}

\* A step of call c that does not end a session or an account under the others.
LEMMA SeenKept ==
  ASSUME TabsTyped, SeenUnlessOvertaken, NEW c \in Calls, Steps(c), Seen(c)',
         \A d \in Calls \ {c} : call[d].pc \in WillIssue /\ ~ call'[d].overtaken =>
           /\ active => active'
           /\ fate'[call[d].fam] = "ended" => call[d].fam = 0 \/ fate[call[d].fam] = "ended"
  PROVE  SeenUnlessOvertaken'
<1>1. ASSUME NEW d \in Calls \ {c} PROVE Seen(d)'
  <2>1. /\ call'[d].pc = call[d].pc /\ call'[d].fam = call[d].fam /\ call'[d].seen = call[d].seen
        /\ ~ call'[d].overtaken => ~ call[d].overtaken
    BY OthersStay
  <2>2. ~ call[d].overtaken => Seen(d)
    BY DEF SeenUnlessOvertaken, Seen
  <2>3. call[d].pc \in {"rotating", "issuing"} => call[d].fam # 0
    BY CallFacts
  <2> QED BY <2>1, <2>2, <2>3 DEF Seen, WillIssue
<1> QED BY <1>1 DEF SeenUnlessOvertaken, Seen

LEMMA SeenUnlessOvertakenStays == ASSUME TabsInv, TabsStep PROVE SeenUnlessOvertaken'
<1> USE DEF TabsInv
<1>1. CASE Quiet
  BY <1>1 DEF Quiet, SeenUnlessOvertaken
<1>2. ASSUME NEW c \in Calls, Starting(c) PROVE SeenUnlessOvertaken'
  <2>1. /\ Steps(c) /\ UNCHANGED <<active, fate>>
        /\ call'[c].pc \in {"loading", "leaving", "opening"} /\ (call'[c].pc = "opening" => active)
    BY <1>2, StartingShape
  <2>2. Seen(c)'
    BY <2>1 DEF Seen
  <2> QED BY <2>1, <2>2, SeenKept
<1>3. ASSUME NEW c \in Calls, Ending(c) PROVE SeenUnlessOvertaken'
  <2>1. /\ Steps(c) /\ UNCHANGED active /\ call'[c].pc \in {"idle", "refused"}
        /\ \A f \in Ids : fate'[f] \in {fate[f], "broken"}
    BY <1>3, EndingShape DEF Ends
  <2>2. Seen(c)'
    BY <2>1 DEF Seen
  <2>3. ASSUME NEW d \in Calls, fate'[call[d].fam] = "ended"
        PROVE  call[d].fam = 0 \/ fate[call[d].fam] = "ended"
    BY <2>1, <2>3, CallFacts
  <2> QED BY <2>1, <2>2, <2>3, SeenKept
<1>4. ASSUME NEW c \in Calls, Load(c) PROVE SeenUnlessOvertaken'
  <2>1. /\ Steps(c) /\ UNCHANGED <<token, issued, active, fate>>
        /\ call'[c].pc \in {"refused", "counting", "revoking", "rotating"}
        /\ call'[c].fam = call[c].fam
        /\ call'[c].pc = "rotating" => active /\ call'[c].tok = call[c].tok /\ token[call[c].tok].state = "live"
        /\ call'[c].seen => active
    BY <1>4, LoadShape
  <2>2. ASSUME call'[c].pc = "rotating" PROVE fate[call'[c].fam] # "ended"
    <3>1. call'[c].tok # 0
      BY <2>1, <2>2, StepsAlike DEF Fits
    <3>2. call[c].tok \in 1..issued /\ call[c].fam = token[call[c].tok].fam
      BY <2>1, <2>2, <3>1, CallFacts
    <3> QED BY <2>1, <2>2, <3>2 DEF AliveNotEnded
  <2>3. Seen(c)'
    BY <2>1, <2>2 DEF Seen
  <2> QED BY <2>1, <2>3, SeenKept
<1>5. ASSUME NEW c \in Calls, Count(c) PROVE SeenUnlessOvertaken'
  <2>1. /\ Steps(c) /\ UNCHANGED <<token, issued, active, fate>> /\ call[c].pc = "counting"
        /\ call'[c].pc \in {"revoking", "issuing", "refused"}
        /\ call'[c].pc = "issuing" => LiveIn(call[c].fam) # {} /\ call[c].seen
        /\ call'[c].fam = call[c].fam /\ call'[c].overtaken = call[c].overtaken
    BY <1>5, CountShape
  <2>2. ASSUME call'[c].pc = "issuing" PROVE fate[call[c].fam] # "ended"
    <3>1. PICK u \in LiveIn(call[c].fam) : TRUE
      BY <2>1, <2>2
    <3>2. u \in Ids /\ token[u].state = "live" /\ token[u].fam = call[c].fam
      BY DEF LiveIn
    <3>3. u \in 1..issued
      BY <3>2, TypedParts DEF Ids
    <3> QED BY <3>2, <3>3 DEF AliveNotEnded
  <2>3. Seen(c)'
    BY <2>1, <2>2 DEF Seen, SeenUnlessOvertaken
  <2> QED BY <2>1, <2>3, SeenKept
<1>6. ASSUME NEW c \in Calls, Rotate(c) PROVE SeenUnlessOvertaken'
  <2>1. /\ Steps(c) /\ UNCHANGED <<active, fate>> /\ call[c].pc = "rotating" /\ call'[c].pc = "issuing"
        /\ call'[c].fam = call[c].fam /\ call'[c].overtaken = call[c].overtaken
    BY <1>6, RotateShape
  <2>2. Seen(c)'
    BY <2>1 DEF Seen, SeenUnlessOvertaken
  <2> QED BY <2>1, <2>2, SeenKept
<1>7. ASSUME NEW c \in Calls, Issue(c) PROVE SeenUnlessOvertaken'
  <2> DEFINE f == FamilyOf(c)
  <2>1. /\ Steps(c) /\ UNCHANGED active /\ call'[c].pc = "answered"
        /\ fate'[f] = (IF fate[f] = "ended" THEN "broken" ELSE fate[f])
        /\ \A g \in Ids \ {f} : fate'[g] = fate[g]
    BY <1>7, IssueShape
  <2> HIDE DEF f
  <2>2. Seen(c)'
    BY <2>1 DEF Seen
  <2>3. ASSUME NEW d \in Calls, fate'[call[d].fam] = "ended"
        PROVE  call[d].fam = 0 \/ fate[call[d].fam] = "ended"
    BY <2>1, <2>3, CallFacts
  <2> QED BY <2>1, <2>2, <2>3, SeenKept
<1>8. ASSUME NEW c \in Calls, RevokeAll(c) PROVE SeenUnlessOvertaken'
  <2>1. /\ Steps(c) /\ call'[c].pc \in {"refused", "idle"}
        /\ \A d \in Calls \ {c} : call[d].pc \in WillIssue => call'[d].overtaken
    BY <1>8, RevokeAllShape DEF WillIssue
  <2>2. Seen(c)'
    BY <2>1 DEF Seen
  <2> QED BY <2>1, <2>2, SeenKept
<1>9. ASSUME NEW c \in Calls, Logout(c) PROVE SeenUnlessOvertaken'
  <2> DEFINE f == call[c].fam
  <2>1. /\ Steps(c) /\ UNCHANGED active /\ call'[c].pc = "refused"
        /\ \A d \in Calls \ {c} : call[d].pc \in WillIssue /\ call[d].fam = f => call'[d].overtaken
        /\ \A g \in Ids \ {f} : fate'[g] = fate[g]
    BY <1>9, LogoutShape DEF WillIssue
  <2> HIDE DEF f
  <2>2. Seen(c)'
    BY <2>1 DEF Seen
  <2>3. ASSUME NEW d \in Calls \ {c}, call[d].pc \in WillIssue, ~ call'[d].overtaken,
               fate'[call[d].fam] = "ended"
        PROVE  call[d].fam = 0 \/ fate[call[d].fam] = "ended"
    <3>1. call[d].fam # f
      BY <2>1, <2>3
    <3> QED BY <2>1, <2>3, <3>1, CallFacts
  <2> QED BY <2>1, <2>2, <2>3, SeenKept
<1>10. ASSUME NEW c \in Others, NEW stays \in BOOLEAN, EndWrite(c, stays) PROVE SeenUnlessOvertaken'
  <2>1. /\ Steps(c) /\ UNCHANGED fate /\ active' = stays /\ call'[c].pc = "ending" /\ c \in Calls
        /\ \A d \in Calls \ {c} : ~ stays /\ call[d].pc \in WillIssue => call'[d].overtaken
    BY <1>10, EndWriteShape DEF WillIssue, Calls
  <2>2. Seen(c)'
    BY <2>1 DEF Seen
  <2> QED BY <2>1, <2>2, SeenKept
<1>11. CASE Reactivate
  BY <1>11 DEF Reactivate, SeenUnlessOvertaken
<1>12. ASSUME NEW t \in Ids, GraceEnds(t) PROVE SeenUnlessOvertaken'
  BY <1>12 DEF GraceEnds, SeenUnlessOvertaken
<1> QED BY <1>1, <1>2, <1>3, <1>4, <1>5, <1>6, <1>7, <1>8, <1>9, <1>10, <1>11, <1>12 DEF TabsStep, ServerStep

\* Token n has not arrived: it lives while its session is open, and nobody has it.
Fresh(n) == token[n].state = "live" \/ fate[token[n].fam] # "open"

\* A step of call c that receives no token.
LEMMA NewUnusedKept ==
  ASSUME TabsTyped, NewUnused, NEW c \in Calls, Steps(c), call'[c].new = 0,
         cookie' \in {0, cookie, call[c].new}, call'[c].tok \in {0, cookie, call[c].tok},
         \A d \in Calls \ {c} :
           call[d].new # 0 /\ Fresh(call[d].new) /\ call[c].tok # call[d].new =>
             \/ token'[call[d].new].state = "live"
             \/ fate'[token'[call[d].new].fam] # "open"
  PROVE  NewUnused'
<1>1. ASSUME NEW d \in Calls, call'[d].new # 0
      PROVE  LET n == call'[d].new
             IN  /\ token'[n].state = "live" \/ fate'[token'[n].fam] # "open"
                 /\ cookie' # n
                 /\ \A e \in Calls : call'[e].tok # n
                 /\ \A e \in Calls \ {d} : call'[e].new # n
  <2> DEFINE n == call[d].new
  <2>1. d # c /\ call'[d].new = n
    BY <1>1, OthersStay
  <2>2. n # 0
    BY <1>1, <2>1
  <2>3. /\ Fresh(n) /\ cookie # n
        /\ \A e \in Calls : call[e].tok # n
        /\ \A e \in Calls \ {d} : call[e].new # n
    BY <2>2 DEF NewUnused, Fresh
  <2>4. token'[n].state = "live" \/ fate'[token'[n].fam] # "open"
    BY <2>1, <2>2, <2>3
  <2> HIDE DEF n
  <2>5. cookie' # n
    BY <2>1, <2>2, <2>3
  <2>6. ASSUME NEW e \in Calls PROVE call'[e].tok # n
    <3>1. CASE e = c
      BY <2>2, <2>3, <3>1
    <3>2. CASE e # c
      BY <2>3, <3>2, OthersStay
    <3> QED BY <3>1, <3>2
  <2>7. ASSUME NEW e \in Calls \ {d} PROVE call'[e].new # n
    <3>1. CASE e = c
      BY <2>2, <3>1
    <3>2. CASE e # c
      BY <2>3, <3>2, OthersStay
    <3> QED BY <3>1, <3>2
  <2> QED BY <2>1, <2>4, <2>5, <2>6, <2>7
<1> QED BY <1>1 DEF NewUnused

LEMMA NewUnusedStays == ASSUME TabsInv, TabsStep PROVE NewUnused'
<1> USE DEF TabsInv
<1>0. \A d \in Calls : call[d].new # 0 =>
        /\ call[d].new \in 1..issued /\ call[d].new \in Ids
        /\ token[call[d].new].fam \in 1..issued /\ token[call[d].new].fam \in Ids
  BY CallFacts, TypedParts DEF Ids
<1>1. CASE Quiet
  BY <1>1 DEF Quiet, NewUnused
<1>2. ASSUME NEW c \in Calls, Starting(c) PROVE NewUnused'
  <2>1. /\ Steps(c) /\ UNCHANGED <<token, fate, cookie>>
        /\ call'[c].tok \in {0, cookie} /\ call'[c].new = 0
    BY <1>2, StartingShape
  <2> QED BY <2>1, NewUnusedKept DEF Fresh
<1>3. ASSUME NEW c \in Calls, Ending(c) PROVE NewUnused'
  <2>1. /\ Steps(c) /\ UNCHANGED token
        /\ call'[c].tok = 0 /\ call'[c].new = 0
        /\ \A f \in Ids : fate'[f] \in {fate[f], "broken"}
        /\ cookie' \in {0, cookie, call[c].new}
    BY <1>3, EndingShape DEF Ends
  <2>2. \A d \in Calls \ {c} : call[d].new # 0 /\ Fresh(call[d].new) =>
          token'[call[d].new].state = "live" \/ fate'[token'[call[d].new].fam] # "open"
    BY <1>0, <2>1 DEF Fresh
  <2> QED BY <2>1, <2>2, NewUnusedKept
<1>4. ASSUME NEW c \in Calls, Load(c) \/ Count(c), UNCHANGED browserVars PROVE NewUnused'
  <2>1. /\ Steps(c) /\ UNCHANGED <<token, fate, cookie>>
        /\ call'[c].tok \in {0, call[c].tok} /\ call'[c].new = 0
    BY <1>4, LoadShape, CountShape DEF browserVars
  <2> QED BY <2>1, NewUnusedKept DEF Fresh
<1>5. ASSUME NEW c \in Calls, Rotate(c), UNCHANGED browserVars PROVE NewUnused'
  <2>1. /\ Steps(c) /\ UNCHANGED <<fate, cookie>> /\ call'[c].tok = 0 /\ call'[c].new = 0
        /\ \A t \in Ids \ {call[c].tok} : token'[t] = token[t]
    BY <1>5, RotateShape DEF browserVars
  <2>2. \A d \in Calls \ {c} : call[d].new # 0 /\ call[c].tok # call[d].new =>
          token'[call[d].new] = token[call[d].new]
    BY <1>0, <2>1
  <2> QED BY <2>1, <2>2, NewUnusedKept DEF Fresh
<1>6. ASSUME NEW c \in Calls, Issue(c), UNCHANGED browserVars PROVE NewUnused'
  <2> DEFINE n == issued + 1
             f == FamilyOf(c)
  <2>1. /\ Steps(c) /\ cookie' = cookie /\ n \in Ids /\ f \in Ids /\ issued \in Nat
        /\ token'[n].state = "live"
        /\ \A t \in Ids \ {n} : token'[t] = token[t]
        /\ fate'[f] = (IF fate[f] = "ended" THEN "broken" ELSE fate[f])
        /\ \A g \in Ids \ {f} : fate'[g] = fate[g]
        /\ call'[c].new = n /\ call'[c].tok = 0
    BY <1>6, IssueShape, TypedParts DEF browserVars
  <2> HIDE DEF f
  <2>2. \A g \in Ids : fate[g] # "open" => fate'[g] # "open"
    BY <2>1
  <2>3. cookie # n /\ cookie \in 0..issued
    BY <2>1, TypedParts
  <2>4. ASSUME NEW d \in Calls PROVE call'[d].tok # n /\ (d # c => call'[d].new # n)
    <3>1. call[d].tok \in 0..issued /\ call[d].new \in 0..issued
      BY CallFacts
    <3>2. call'[d].tok = 0 \/ call'[d].tok = call[d].tok
      BY <2>1, OthersStay
    <3>3. d # c => call'[d].new = call[d].new
      BY <2>1, OthersStay
    <3> QED BY <2>1, <3>1, <3>2, <3>3
  <2>5. ASSUME NEW d \in Calls \ {c}, call'[d].new # 0
        PROVE  LET m == call'[d].new
               IN  /\ token'[m].state = "live" \/ fate'[token'[m].fam] # "open"
                   /\ cookie' # m
                   /\ \A e \in Calls : call'[e].tok # m
                   /\ \A e \in Calls \ {d} : call'[e].new # m
    <3> DEFINE m == call[d].new
    <3>1. call'[d].new = m /\ m # 0
      BY <2>1, <2>5, OthersStay
    <3>2. m \in Ids /\ m # n /\ token[m].fam \in Ids
      <4>1. m \in 1..issued /\ m \in Ids /\ token[m].fam \in Ids
        BY <1>0, <3>1
      <4> QED BY <2>1, <4>1
    <3>3. /\ Fresh(m) /\ cookie # m
          /\ \A e \in Calls : call[e].tok # m
          /\ \A e \in Calls \ {d} : call[e].new # m
      BY <3>1 DEF NewUnused, Fresh
    <3> HIDE DEF m
    <3>4. token'[m].state = "live" \/ fate'[token'[m].fam] # "open"
      BY <2>1, <2>2, <3>2, <3>3 DEF Fresh
    <3>5. ASSUME NEW e \in Calls PROVE call'[e].tok # m
      BY <2>1, <3>1, <3>3, OthersStay
    <3>6. ASSUME NEW e \in Calls \ {d} PROVE call'[e].new # m
      <4>1. CASE e = c
        BY <2>1, <3>2, <4>1
      <4>2. CASE e # c
        BY <2>1, <3>3, <4>2, OthersStay
      <4> QED BY <4>1, <4>2
    <3> QED BY <2>1, <3>1, <3>3, <3>4, <3>5, <3>6
  <2> QED BY <2>1, <2>3, <2>4, <2>5 DEF NewUnused
<1>7. ASSUME NEW c \in Calls, RevokeAll(c), UNCHANGED browserVars PROVE NewUnused'
  <2>1. /\ Steps(c) /\ cookie' = cookie /\ call'[c].tok = 0 /\ call'[c].new = 0
        /\ \A t \in Ids : token'[t].fam = token[t].fam
        /\ \A t \in 1..issued : fate'[token[t].fam] = "ended"
    BY <1>7, RevokeAllShape DEF browserVars
  <2>2. \A d \in Calls \ {c} : call[d].new # 0 => fate'[token'[call[d].new].fam] # "open"
    BY <1>0, <2>1
  <2> QED BY <2>1, <2>2, NewUnusedKept
<1>8. ASSUME NEW c \in Calls, Logout(c), UNCHANGED browserVars PROVE NewUnused'
  <2> DEFINE f == call[c].fam
             t == call[c].tok
  <2>1. /\ Steps(c) /\ cookie' = cookie /\ call'[c].tok = 0 /\ call'[c].new = 0
        /\ \A u \in Ids \ {t} : token'[u] = token[u]
        /\ \A g \in Ids \ {f} : fate'[g] = fate[g]
        /\ fate'[f] \in {"ended", fate[f]}
    BY <1>8, LogoutShape DEF browserVars
  <2>2. \A g \in Ids : fate[g] # "open" => fate'[g] # "open"
    BY <2>1
  <2>3. \A d \in Calls \ {c} : call[d].new # 0 /\ t # call[d].new => token'[call[d].new] = token[call[d].new]
    BY <1>0, <2>1
  <2>4. \A d \in Calls \ {c} :
           call[d].new # 0 /\ Fresh(call[d].new) /\ call[c].tok # call[d].new =>
             \/ token'[call[d].new].state = "live"
             \/ fate'[token'[call[d].new].fam] # "open"
    BY <1>0, <2>2, <2>3 DEF Fresh
  <2> QED BY <2>1, <2>4, NewUnusedKept
<1>9. ASSUME NEW c \in Others, NEW stays \in BOOLEAN, EndWrite(c, stays), UNCHANGED browserVars PROVE NewUnused'
  <2>1. /\ Steps(c) /\ UNCHANGED <<token, fate, cookie>> /\ call'[c].tok = 0 /\ call'[c].new = 0 /\ c \in Calls
    BY <1>9, EndWriteShape DEF Calls, browserVars
  <2> QED BY <2>1, NewUnusedKept DEF Fresh
<1>10. CASE Reactivate /\ UNCHANGED browserVars
  BY <1>10 DEF Reactivate, browserVars, NewUnused
<1>11. ASSUME NEW t \in Ids, GraceEnds(t), UNCHANGED browserVars PROVE NewUnused'
  <2>1. /\ UNCHANGED <<issued, call, fate, cookie>>
        /\ \A u \in Ids : token'[u].fam = token[u].fam /\ (token'[u].state = "live" <=> token[u].state = "live")
    BY <1>11, GraceShape DEF browserVars
  <2> QED BY <1>0, <2>1 DEF NewUnused
<1> QED BY <1>1, <1>2, <1>3, <1>4, <1>5, <1>6, <1>7, <1>8, <1>9, <1>10, <1>11 DEF TabsStep, ServerStep

\* An answer for the session of the cookie is on its way.
Followed(t) ==
  \/ token[t].state = "live" \/ fate[token[t].fam] # "open"
  \/ \E d \in Calls : call[d].pc \in {"issuing", "answered", "refused"} /\ call[d].fam = token[t].fam

LEMMA FollowedStays ==
  ASSUME TabsTyped, NEW c \in Calls, Steps(c), NEW t \in 1..issued, Followed(t),
         token[t].state = "live" => Followed(t)',
         \A f \in Ids : fate[f] # "open" => fate'[f] # "open",
         call[c].pc \in {"issuing", "answered", "refused"} /\ call[c].fam = token[t].fam =>
           Followed(t)'
  PROVE  Followed(t)'
<1>1. token'[t].fam = token[t].fam /\ token[t].fam \in Ids
  BY TypedParts DEF Steps, TokensKept, Ids
<1>2. ASSUME NEW d \in Calls, d # c, call[d].pc \in {"issuing", "answered", "refused"}, call[d].fam = token[t].fam
      PROVE  Followed(t)'
  BY <1>1, <1>2, OthersStay DEF Followed
<1>3. CASE fate[token[t].fam] # "open"
  BY <1>1, <1>3 DEF Followed
<1> QED BY <1>2, <1>3 DEF Followed

LEMMA CookieFollowedStays == ASSUME TabsInv, TabsStep PROVE CookieFollowed'
<1> USE DEF TabsInv
<1>0. /\ cookie # 0 => cookie \in 1..issued /\ cookie \in Ids /\ token[cookie].fam \in Ids /\ Followed(cookie)
      /\ \A t \in 1..issued : token[t].fam \in Ids
      /\ cookie' = 0 \/ Followed(cookie)' => CookieFollowed'
  BY TypedParts DEF CookieFollowed, Followed, Ids
<1>1. CASE Quiet
  BY <1>1 DEF Quiet, CookieFollowed
<1>2. ASSUME NEW c \in Calls, Starting(c) PROVE CookieFollowed'
  <2>1. Steps(c) /\ UNCHANGED <<token, fate, cookie>> /\ call[c].pc = "idle"
    BY <1>2, StartingShape, IdleFits
  <2> QED BY <1>0, <2>1, FollowedStays DEF Followed
<1>3. ASSUME NEW c \in Calls, Ending(c) PROVE CookieFollowed'
  <2>1. /\ Steps(c) /\ UNCHANGED token
        /\ (fate' = fate /\ call[c].pc \in {"answered", "refused"}) \/ Breaks(c)
        /\ \A f \in Ids : fate'[f] \in {fate[f], "broken"}
        /\ \/ cookie' = cookie /\ (call[c].pc \in {"answered", "refused"} => Breaks(c))
           \/ cookie' = 0
           \/ call[c].pc = "answered" /\ cookie' = call[c].new /\ call[c].new \in 1..issued
    BY <1>3, EndingShape DEF Ends
  <2>2. CASE cookie' = cookie /\ cookie # 0 /\ (call[c].pc \in {"answered", "refused"} => Breaks(c))
    <3>1. ASSUME call[c].pc \in {"issuing", "answered", "refused"}, call[c].fam = token[cookie].fam
          PROVE  fate'[token'[cookie].fam] # "open"
      <4>1. Breaks(c)
        BY <2>1, <2>2, <3>1
      <4> QED BY <1>0, <2>1, <2>2, <3>1, <4>1, BreaksShape
    <3> QED BY <1>0, <2>1, <2>2, <3>1, FollowedStays DEF Followed
  <2>3. CASE cookie' = 0
    BY <1>0, <2>3
  <2>4. CASE call[c].pc = "answered" /\ cookie' = call[c].new /\ call[c].new \in 1..issued
    <3>1. call[c].new # 0 /\ token[call[c].new].fam \in Ids
      BY <1>0, <2>4
    <3>2. token[call[c].new].state = "live" \/ fate[token[call[c].new].fam] # "open"
      BY <3>1 DEF NewUnused
    <3> QED BY <1>0, <2>1, <2>4, <3>1, <3>2 DEF Followed
  <2> QED BY <2>1, <2>2, <2>3, <2>4
<1>4. ASSUME NEW c \in Calls, Load(c) \/ Count(c), UNCHANGED browserVars PROVE CookieFollowed'
  <2>1. Steps(c) /\ UNCHANGED <<token, fate, cookie>> /\ call[c].pc \in {"loading", "counting"}
    BY <1>4, LoadShape, CountShape DEF browserVars
  <2> QED BY <1>0, <2>1, FollowedStays DEF Followed
<1>5. ASSUME NEW c \in Calls, Rotate(c), UNCHANGED browserVars, cookie # 0 PROVE Followed(cookie)'
  <2> DEFINE t == call[c].tok
  <2>1. /\ Steps(c) /\ UNCHANGED <<fate, cookie>> /\ call[c].pc = "rotating"
        /\ t \in 1..issued /\ call[c].fam = token[t].fam
        /\ \A u \in Ids \ {t} : token'[u] = token[u]
        /\ call'[c].pc = "issuing" /\ call'[c].fam = call[c].fam
    BY <1>5, RotateShape DEF browserVars
  <2> HIDE DEF t
  <2>2. CASE cookie = t
    <3>1. token'[t].fam = token[t].fam
      BY <2>1 DEF Steps, TokensKept
    <3> QED BY <2>1, <2>2, <3>1 DEF Followed
  <2>3. CASE cookie # t
    <3>1. token'[cookie] = token[cookie]
      BY <1>0, <1>5, <2>1, <2>3
    <3> QED BY <1>0, <1>5, <2>1, <3>1, FollowedStays DEF Followed
  <2> QED BY <2>2, <2>3
<1>6. ASSUME NEW c \in Calls, Issue(c), UNCHANGED browserVars, cookie # 0 PROVE Followed(cookie)'
  <2> DEFINE n == issued + 1
             f == FamilyOf(c)
  <2>1. /\ Steps(c) /\ cookie' = cookie /\ issued \in Nat
        /\ call[c].pc \in {"issuing", "opening"} /\ (call[c].pc = "issuing" => f = call[c].fam)
        /\ \A t \in Ids \ {n} : token'[t] = token[t]
        /\ fate'[f] = (IF fate[f] = "ended" THEN "broken" ELSE fate[f])
        /\ \A g \in Ids \ {f} : fate'[g] = fate[g]
        /\ call'[c].pc = "answered" /\ call'[c].fam = f
    BY <1>6, IssueShape, TypedParts DEF browserVars
  <2> HIDE DEF f
  <2>2. token'[cookie] = token[cookie]
    <3>1. cookie # n /\ cookie \in Ids
      BY <1>0, <1>6, <2>1
    <3> QED BY <2>1, <3>1
  <2>3. \A g \in Ids : fate[g] # "open" => fate'[g] # "open"
    BY <2>1
  <2> QED BY <1>0, <1>6, <2>1, <2>2, <2>3, FollowedStays DEF Followed
<1>7. ASSUME NEW c \in Calls, RevokeAll(c), UNCHANGED browserVars, cookie # 0 PROVE Followed(cookie)'
  <2>1. /\ cookie' = cookie
        /\ \A t \in Ids : token'[t].fam = token[t].fam
        /\ \A t \in 1..issued : fate'[token[t].fam] = "ended"
    BY <1>7, RevokeAllShape DEF browserVars
  <2> QED BY <1>0, <1>7, <2>1 DEF Followed
<1>8. ASSUME NEW c \in Calls, Logout(c), UNCHANGED browserVars, cookie # 0 PROVE Followed(cookie)'
  <2> DEFINE t == call[c].tok
             f == call[c].fam
  <2>1. /\ Steps(c) /\ cookie' = cookie /\ call[c].pc = "leaving"
        /\ f = token[t].fam /\ token'[t].fam = f
        /\ \A u \in Ids \ {t} : token'[u] = token[u]
        /\ \A g \in Ids \ {f} : fate'[g] = fate[g]
        /\ fate'[f] \in {"ended", fate[f]}
        /\ call'[c].pc = "refused" /\ call'[c].fam = f
    BY <1>8, LogoutShape DEF browserVars
  <2> HIDE DEF t, f
  <2>2. CASE cookie = t
    BY <2>1, <2>2 DEF Followed
  <2>3. CASE cookie # t
    <3>1. token'[cookie] = token[cookie]
      BY <1>0, <1>8, <2>1, <2>3
    <3>2. \A g \in Ids : fate[g] # "open" => fate'[g] # "open"
      BY <2>1
    <3> QED BY <1>0, <1>8, <2>1, <3>1, <3>2, FollowedStays DEF Followed
  <2> QED BY <2>2, <2>3
<1>9. ASSUME NEW c \in Others, NEW stays \in BOOLEAN, EndWrite(c, stays), UNCHANGED browserVars
      PROVE  CookieFollowed'
  <2>1. Steps(c) /\ UNCHANGED <<token, fate, cookie>> /\ call[c].pc = "idle" /\ c \in Calls
    BY <1>9, EndWriteShape, IdleFits DEF Calls, browserVars
  <2> QED BY <1>0, <2>1, FollowedStays DEF Followed
<1>10. CASE Reactivate /\ UNCHANGED browserVars
  BY <1>10 DEF Reactivate, browserVars, CookieFollowed
<1>11. ASSUME NEW t \in Ids, GraceEnds(t), UNCHANGED browserVars PROVE CookieFollowed'
  <2>1. /\ UNCHANGED <<issued, call, fate, cookie>>
        /\ \A u \in Ids : token'[u].fam = token[u].fam /\ (token'[u].state = "live" <=> token[u].state = "live")
    BY <1>11, GraceShape DEF browserVars
  <2> QED BY <1>0, <2>1 DEF Followed
<1>12. ASSUME NEW c \in Calls, ServerStep(c), UNCHANGED browserVars PROVE CookieFollowed'
  BY <1>0, <1>4, <1>5, <1>6, <1>7, <1>8, <1>12 DEF ServerStep, browserVars
<1> QED BY <1>1, <1>2, <1>3, <1>9, <1>10, <1>11, <1>12 DEF TabsStep
-----------------------------------------------------------------------------
(***************************************************************************)
(* The tabs: the theorems.                                                 *)
(***************************************************************************)
LEMMA TabsInitially == Init => TabsInv
<1> SUFFICES ASSUME Init PROVE TabsInv
  OBVIOUS
<1>1. /\ token = [t \in Ids |-> IF t = 1 THEN [state |-> "live", fam |-> 1] ELSE [state |-> "none", fam |-> 0]]
      /\ issued = 1 /\ active = TRUE /\ call = [c \in Calls |-> Idle] /\ fate = [f \in Ids |-> "open"]
      /\ cookie = 1 /\ access = TRUE /\ req = [q \in Reqs |-> Rest]
  BY DEF Init, ServerInit
<1>2. /\ MaxTokens \in Nat \ {0} /\ 1 \in Ids
      /\ token[1].state = "live" /\ token[1].fam = 1
      /\ \A t \in Ids \ {1} : token[t].state = "none"
  BY <1>1, SessionsAssumption DEF Ids
<1>3. \A c \in Calls : call[c] = Idle
  BY <1>1
<1>4. TypeOK
  <2>1. token \in [Ids -> [state : TokenState, fam : 0..MaxTokens]]
    BY <1>1, <1>2 DEF TokenState
  <2>2. call \in [Calls -> CallState] /\ fate \in [Ids -> Fates]
    BY <1>1, IdleFits DEF Fates
  <2>3. req \in [Reqs -> ReqState] /\ \A q \in Reqs : req[q].pc # "waiting"
    BY <1>1, RestIsState
  <2>4. \A t \in Ids : token[t].state = "none" <=> t > issued
    BY <1>1, <1>2 DEF Ids
  <2> QED BY <1>1, <1>2, <2>1, <2>2, <2>3, <2>4 DEF TypeOK, ServerTypeOK
<1>5. TabsTyped
  BY <1>1, <1>2, <1>3, <1>4, IdleFits DEF TabsTyped, TokensKnown
<1>6. AliveNotEnded /\ GapBridged
  BY <1>1, <1>2 DEF AliveNotEnded, GapBridged
<1>7. SeenUnlessOvertaken /\ NewUnused /\ CookieFollowed
  BY <1>1, <1>2, <1>3, IdleFits DEF SeenUnlessOvertaken, NewUnused, CookieFollowed
<1> QED BY <1>5, <1>6, <1>7 DEF TabsInv

LEMMA TabsInvStays == ASSUME TabsInv, [Next]_vars PROVE TabsInv'
<1>1. TabsStep
  BY TabsCases DEF TabsInv
<1> QED BY <1>1, TabsTypedStays, AliveNotEndedStays, GapBridgedStays, SeenUnlessOvertakenStays,
           NewUnusedStays, CookieFollowedStays DEF TabsInv

(***************************************************************************)
(* Tokens, sessions, calls and cookies stay as TabsInv says, whatever the  *)
(* tabs, requests and other calls do (Sessions, PortalTabs).               *)
(***************************************************************************)
THEOREM TabsInvariant == Spec => []TabsInv
BY TabsInitially, TabsInvStays, PTL DEF Spec

\* No call in flight: nothing can be on its way to the cookie.
LEMMA CookieWorksInside == TabsInv => CookieWorks
BY IdleFits DEF TabsInv, CookieFollowed, CookieWorks

(***************************************************************************)
(* The browser is left with a cookie that works when nothing is in flight, *)
(* in whatever order rotations, answers and losses came                    *)
(* (auth.service.ts refresh, api.ts tryRefresh).                           *)
(***************************************************************************)
THEOREM BrowserIsLeftWithACookie == Spec => []CookieWorks
BY TabsInvariant, CookieWorksInside, PTL

LEMMA AlarmInGap ==
  ASSUME TabsInv, TabsStep, NEW c \in Tabs, Alarm(c)
  PROVE  \/ fate[call[c].fam] # "open"
         \/ \E d \in Tabs : call[d].pc = "issuing" /\ call[d].fam = call[c].fam
<1> USE DEF TabsInv
<1>1. c \in Calls /\ call[c].pc = "counting" /\ call'[c].pc = "revoking"
  BY DEF Alarm, Calls
<1>2. ~ Quiet
  BY <1>1 DEF Quiet
<1>3. ASSUME NEW d \in Calls, Steps(d), d # c PROVE FALSE
  BY <1>1, <1>3, OthersStay
<1>4. ASSUME NEW d \in Calls, Starting(d) PROVE FALSE
  BY <1>1, <1>3, <1>4, StartingShape
<1>5. ASSUME NEW d \in Calls, Ending(d) PROVE FALSE
  BY <1>1, <1>3, <1>5, EndingShape
<1>6. ASSUME NEW d \in Calls, ServerStep(d) PROVE d = c /\ Count(c)
  <2>1. Steps(d)
    BY <1>6, LoadShape, CountShape, RotateShape, IssueShape, RevokeAllShape, LogoutShape DEF ServerStep
  <2>2. d = c
    BY <1>3, <2>1
  <2> QED BY <1>1, <1>6, <2>2, LoadShape, RotateShape, IssueShape, RevokeAllShape, LogoutShape DEF ServerStep
<1>7. ASSUME NEW d \in Others, NEW stays \in BOOLEAN, EndWrite(d, stays) PROVE FALSE
  BY <1>1, <1>3, <1>7, EndWriteShape DEF Calls
<1>8. ~ Reactivate /\ \A t \in Ids : ~ GraceEnds(t)
  BY <1>1 DEF Reactivate, GraceEnds
<1>9. Count(c)
  BY <1>2, <1>4, <1>5, <1>6, <1>7, <1>8 DEF TabsStep
<1>10. LiveIn(call[c].fam) = {}
  BY <1>1, <1>9, CountShape
<1>11. PICK t \in 1..issued : call[c].fam = token[t].fam
  BY <1>1, CallFacts
<1>12. ~ \E u \in 1..issued : token[u].state = "live" /\ token[u].fam = call[c].fam
  BY <1>10, TypedParts DEF LiveIn
<1> QED BY <1>11, <1>12 DEF GapBridged

(***************************************************************************)
(* Tabs that refresh at the same time end the user's sessions only in the  *)
(* gap between the two writes of another refresh, or when the session was  *)
(* over or broken already (auth.service.ts isConcurrentRefresh).           *)
(***************************************************************************)
THEOREM ConcurrentTabsAreSafe == Spec => OnlyTheGapAlarms
<1>1. TabsInv /\ [Next]_vars =>
        [\A c \in Tabs : LET f == call[c].fam
                         IN  Alarm(c) => \/ fate[f] # "open"
                                         \/ \E d \in Tabs : call[d].pc = "issuing" /\ call[d].fam = f]_vars
  BY TabsCases, AlarmInGap DEF TabsInv
<1> QED BY <1>1, TabsInvariant, PTL DEF Spec, OnlyTheGapAlarms

LEMMA ReopenedByOvertaken ==
  ASSUME TabsInv, TabsStep, NEW t \in Ids, token[t].state = "none", token'[t].state = "live",
         ~ active \/ fate[token'[t].fam] = "ended"
  PROVE  \E c \in Calls : call'[c].new = t /\ call[c].overtaken
<1> USE DEF TabsInv
<1>1. ~ Quiet /\ ~ Reactivate
  BY DEF Quiet, Reactivate
<1>2. \A c \in Calls : ~ Starting(c)
  BY StartingShape
<1>3. \A c \in Calls : ~ Ending(c)
  BY EndingShape DEF Ends
<1>4. \A c \in Others, stays \in BOOLEAN : ~ EndWrite(c, stays)
  BY EndWriteShape
<1>5. \A u \in Ids : ~ GraceEnds(u)
  BY GraceShape
<1>6. PICK c \in Calls : ServerStep(c)
  BY <1>1, <1>2, <1>3, <1>4, <1>5 DEF TabsStep
<1>7. ~ Load(c) /\ ~ Count(c)
  BY LoadShape, CountShape
<1>8. ~ Rotate(c)
  BY RotateShape
<1>9. ~ RevokeAll(c)
  BY RevokeAllShape
<1>10. ~ Logout(c)
  BY LogoutShape
<1>11. Issue(c)
  BY <1>6, <1>7, <1>8, <1>9, <1>10 DEF ServerStep
<1> DEFINE n == issued + 1
           f == FamilyOf(c)
<1>12. /\ call[c].pc \in {"issuing", "opening"} /\ issued \in Nat
       /\ call[c].pc = "issuing" => f = call[c].fam
       /\ call[c].pc = "opening" => f = n
       /\ n \in Ids /\ token'[n].fam = f
       /\ \A u \in Ids \ {n} : token'[u] = token[u]
       /\ call'[c].new = n
  BY <1>11, IssueShape, TypedParts
<1> HIDE DEF f
<1>13. t = n
  BY <1>12
<1>14. call[c].overtaken
  <2>1. CASE call[c].pc = "issuing"
    BY <1>12, <1>13, <2>1 DEF SeenUnlessOvertaken
  <2>2. CASE call[c].pc = "opening"
    <3>1. fate[n] = "open"
      <4>1. n > issued
        BY <1>12
      <4> QED BY <1>12, <4>1, TypedParts
    <3> QED BY <1>12, <1>13, <2>2, <3>1 DEF SeenUnlessOvertaken
  <2> QED BY <1>12, <2>1, <2>2
<1> QED BY <1>12, <1>13, <1>14

(***************************************************************************)
(* What was ended stays ended, and an account that was deactivated gets no *)
(* token, but from a call that had loaded token or account before          *)
(* (auth.service.ts issueTokens, users.service.ts deactivate).             *)
(***************************************************************************)
THEOREM EndedStaysEnded == Spec => OnlyOvertakenCallsReopen
<1>1. TabsInv /\ [Next]_vars =>
        [\A t \in Ids :
           (token[t].state = "none" /\ token'[t].state = "live" /\ (~ active \/ fate[token'[t].fam] = "ended")) =>
             \E c \in Calls : call'[c].new = t /\ call[c].overtaken]_vars
  BY TabsCases, ReopenedByOvertaken DEF TabsInv
<1> QED BY <1>1, TabsInvariant, PTL DEF Spec, OnlyOvertakenCallsReopen
-----------------------------------------------------------------------------
(***************************************************************************)
(* The board: how a step may change the moves.                             *)
(***************************************************************************)
BoardSpec == BoardInit /\ [][BoardStep]_boardVars

LEMMA StatusFacts ==
  /\ DOMAIN Onward = {"TODO", "IN_PROGRESS", "REVIEW", "DONE", "CANCELLED"}
  /\ \A s \in DOMAIN Onward : Onward[s] \subseteq DOMAIN Onward
  /\ Columns \subseteq DOMAIN Onward
<1>1. DOMAIN Onward = {"TODO", "IN_PROGRESS", "REVIEW", "DONE", "CANCELLED"}
  BY DEF Onward
<1>2. /\ Onward["TODO"] = {"IN_PROGRESS", "CANCELLED"}
      /\ Onward["IN_PROGRESS"] = {"TODO", "REVIEW", "CANCELLED"}
      /\ Onward["REVIEW"] = {"IN_PROGRESS", "DONE", "CANCELLED"}
      /\ Onward["DONE"] = {"CANCELLED"} /\ Onward["CANCELLED"] = {}
  BY DEF Onward
<1>3. ASSUME NEW s \in DOMAIN Onward PROVE Onward[s] \subseteq DOMAIN Onward
  BY <1>1, <1>2
<1> QED BY <1>1, <1>3 DEF Columns

LEMMA BoardTyped ==
  BoardInv =>
    /\ card \in Lists /\ move \in [Moves -> Move]
    /\ board \in Board /\ board.page \in Lists /\ board.fetch \in {"idle", "asked", "answered"}
    /\ board.answer \in Lists \cup {Nothing} /\ board.behind \in SUBSET Cards
    /\ board.failed \in BOOLEAN /\ board.others \in 0..MaxByOthers
    /\ board.fetch = "answered" => board.answer \in Lists
    /\ \A m \in Moves : /\ move[m] \in Move /\ move[m].card \in Cards /\ move[m].to \in Columns
                        /\ UnderWay(m) /\ move[m].drag => move[m].before \in Lists
BY DEF BoardInv, BoardTypeOK, MovesFit, Board, Move

LEMMA NoMoveFits ==
  ASSUME NEW pc \in {"new", "over"}
  PROVE  NoMove(pc) \in Move /\ NoMove(pc).pc = pc /\ ~ NoMove(pc).drag /\ ~ NoMove(pc).steady
<1>1. (CHOOSE c \in Cards : TRUE) \in Cards
  BY BoardAssumption
<1> QED BY <1>1 DEF NoMove, Move, Columns

LEMMA MovedShape ==
  ASSUME move \in [Moves -> Move], NEW m \in Moves, NEW s \in Move, NEW U,
         move' = Moved(m, s, U)
  PROVE  /\ move' \in [Moves -> Move] /\ move'[m] = s
         /\ \A k \in Moves \ {m} :
              /\ move'[k].pc = move[k].pc /\ move'[k].drag = move[k].drag /\ move'[k].card = move[k].card
              /\ move'[k].to = move[k].to /\ move'[k].before = move[k].before
              /\ move'[k].steady = (move[k].steady /\ k \notin U)
<1>1. ASSUME NEW k \in Moves \ {m}
      PROVE  /\ move'[k] \in Move
             /\ move'[k].pc = move[k].pc /\ move'[k].drag = move[k].drag /\ move'[k].card = move[k].card
             /\ move'[k].to = move[k].to /\ move'[k].before = move[k].before
             /\ move'[k].steady = (move[k].steady /\ k \notin U)
  <2>1. move[k] \in Move /\ move'[k] = IF k \in U THEN [move[k] EXCEPT !.steady = FALSE] ELSE move[k]
    BY <1>1 DEF Moved
  <2>2. CASE k \in U
    BY ZenonT(30), <2>1, <2>2 DEF Move
  <2>3. CASE k \notin U
    BY ZenonT(30), <2>1, <2>3 DEF Move
  <2> QED BY <2>2, <2>3
<1>2. move'[m] = s /\ move' = [k \in Moves |-> move'[k]]
  BY DEF Moved
<1> QED BY <1>1, <1>2

\* Only m changes its place.
LEMMA OneMove ==
  ASSUME move \in [Moves -> Move], NEW m \in Moves, NEW pc \in {"done", "refused"},
         move' = [move EXCEPT ![m].pc = pc]
  PROVE  /\ move' \in [Moves -> Move] /\ move'[m].pc = pc
         /\ \A k \in Moves : /\ k # m => move'[k] = move[k]
                             /\ move'[k].drag = move[k].drag /\ move'[k].card = move[k].card
                             /\ move'[k].to = move[k].to /\ move'[k].before = move[k].before
                             /\ move'[k].steady = move[k].steady
<1>1. move[m] \in Move
  OBVIOUS
<1>2. /\ [move[m] EXCEPT !.pc = pc] \in Move
      /\ [move[m] EXCEPT !.pc = pc].pc = pc
      /\ [move[m] EXCEPT !.pc = pc].drag = move[m].drag /\ [move[m] EXCEPT !.pc = pc].card = move[m].card
      /\ [move[m] EXCEPT !.pc = pc].to = move[m].to /\ [move[m] EXCEPT !.pc = pc].before = move[m].before
      /\ [move[m] EXCEPT !.pc = pc].steady = move[m].steady
  BY <1>1 DEF Move
<1>3. move' = [move EXCEPT ![m] = [move[m] EXCEPT !.pc = pc]]
  OBVIOUS
<1> QED BY <1>2, <1>3

LEMMA BoardInitially == BoardInit => BoardInv
<1> SUFFICES ASSUME BoardInit PROVE BoardInv
  OBVIOUS
<1>1. /\ card = [c \in Cards |-> "TODO"] /\ move = [m \in Moves |-> NoMove("new")]
      /\ board = [page |-> card, fetch |-> "idle", answer |-> Nothing, behind |-> {}, failed |-> FALSE, others |-> 0]
  BY DEF BoardInit
<1>2. card \in Lists
  BY <1>1, StatusFacts DEF Lists
<1>3. board \in Board
  BY <1>1, <1>2, BoardAssumption DEF Board
<1>4. move \in [Moves -> Move] /\ \A m \in Moves : ~ UnderWay(m)
  BY <1>1, NoMoveFits DEF UnderWay
<1>5. board.page = card /\ board.fetch = "idle"
  BY <1>1
<1> QED BY <1>2, <1>3, <1>4, <1>5
     DEF BoardInv, BoardTypeOK, MovesFit, CardsStayWhereDropped, NothingToUndo, ListsComeTrue

\* What the parts of the board are after a change of its fields.
LEMMA BoardFields ==
  ASSUME BoardInv, NEW page \in Lists, NEW fetch \in {"idle", "asked", "answered"},
         NEW answer \in Lists \cup {Nothing}, NEW behind \in SUBSET Cards, NEW failed \in BOOLEAN,
         NEW others \in 0..MaxByOthers,
         board' = [page |-> page, fetch |-> fetch, answer |-> answer, behind |-> behind,
                   failed |-> failed, others |-> others]
  PROVE  board' \in Board
BY DEF Board

LEMMA BoardIs ==
  BoardInv => board = [page |-> board.page, fetch |-> board.fetch, answer |-> board.answer,
                       behind |-> board.behind, failed |-> board.failed, others |-> board.others]
BY DEF BoardInv, BoardTypeOK, Board

LEMMA DragKeeps ==
  ASSUME BoardInv, NEW m \in Moves, NEW c \in Cards, NEW to \in Columns, Drag(m, c, to)
  PROVE  BoardInv'
<1> DEFINE s == [pc |-> "asked", drag |-> TRUE, card |-> c, to |-> to, before |-> board.page, steady |-> TRUE]
           shown == [board.page EXCEPT ![c] = to]
<1>1. /\ move[m].pc = "new" /\ move' = Moved(m, s, OnCard(c)) /\ card' = card
      /\ board' = [page |-> shown, fetch |-> "idle", answer |-> Nothing, behind |-> board.behind,
                   failed |-> board.failed, others |-> board.others]
  BY BoardIs DEF Drag
<1>2. shown \in Lists /\ shown[c] = to /\ \A d \in Cards \ {c} : shown[d] = board.page[d]
  BY BoardTyped, StatusFacts DEF Lists
<1> HIDE DEF shown
<1>3. board' \in Board /\ board'.page = shown /\ board'.fetch = "idle"
  BY <1>1, <1>2, BoardTyped, BoardFields
<1>4. s \in Move /\ s.pc = "asked" /\ s.drag /\ s.card = c /\ s.to = to /\ s.before \in Lists
  BY BoardTyped DEF Move
<1> HIDE DEF s
<1>5. /\ move' \in [Moves -> Move] /\ move'[m] = s
      /\ \A k \in Moves \ {m} :
           /\ move'[k].pc = move[k].pc /\ move'[k].drag = move[k].drag /\ move'[k].card = move[k].card
           /\ move'[k].to = move[k].to /\ move'[k].before = move[k].before
           /\ move'[k].steady = (move[k].steady /\ k \notin OnCard(c))
  BY <1>1, <1>4, BoardTyped, MovedShape
<1>6. BoardTypeOK'
  BY <1>1, <1>3, <1>5, BoardTyped DEF BoardTypeOK, Lists
<1>7. MovesFit'
  BY <1>3, <1>4, <1>5, BoardTyped DEF MovesFit, UnderWay, Lists
<1>8. CardsStayWhereDropped'
  <2>1. ASSUME NEW k \in Moves, UnderWay(k)', move'[k].drag, move'[k].steady
        PROVE  board'.page[move'[k].card] = move'[k].to
    <3>1. CASE k = m
      BY <1>2, <1>3, <1>4, <1>5, <3>1
    <3>2. CASE k # m
      <4>1. UnderWay(k) /\ move[k].drag /\ move[k].steady /\ k \notin OnCard(c)
        BY <1>5, <2>1, <3>2 DEF UnderWay
      <4>2. move[k].card # c /\ move[k].card \in Cards /\ board.page[move[k].card] = move[k].to
        BY <4>1, BoardTyped DEF OnCard, BoardInv, CardsStayWhereDropped
      <4> QED BY <1>2, <1>3, <1>5, <3>2, <4>2
    <3> QED BY <3>1, <3>2
  <2> QED BY <2>1 DEF CardsStayWhereDropped
<1>9. NothingToUndo'
  BY <1>3 DEF NothingToUndo
<1>10. ListsComeTrue'
  BY <1>3, <1>4, <1>5 DEF ListsComeTrue, Ahead, UnderWay
<1> QED BY <1>6, <1>7, <1>8, <1>9, <1>10 DEF BoardInv

LEMMA PressKeeps ==
  ASSUME BoardInv, NEW m \in Moves, NEW c \in Cards, NEW to \in Columns, Press(m, c, to)
  PROVE  BoardInv'
<1> DEFINE s == [pc |-> "asked", drag |-> FALSE, card |-> c, to |-> to, before |-> Nothing, steady |-> FALSE]
<1>1. move[m].pc = "new" /\ move' = Moved(m, s, {}) /\ UNCHANGED <<card, board>>
  BY DEF Press
<1>2. s \in Move /\ s.pc = "asked" /\ ~ s.drag
  BY DEF Move
<1> HIDE DEF s
<1>3. /\ move' \in [Moves -> Move] /\ move'[m] = s
      /\ \A k \in Moves \ {m} :
           /\ move'[k].pc = move[k].pc /\ move'[k].drag = move[k].drag /\ move'[k].card = move[k].card
           /\ move'[k].to = move[k].to /\ move'[k].before = move[k].before
           /\ move'[k].steady = (move[k].steady /\ k \notin {})
  BY <1>1, <1>2, BoardTyped, MovedShape
<1>4. BoardTypeOK' /\ MovesFit'
  BY <1>1, <1>2, <1>3, BoardTyped DEF BoardInv, BoardTypeOK, MovesFit, UnderWay
<1>5. CardsStayWhereDropped' /\ NothingToUndo'
  <2>1. CardsStayWhereDropped'
    BY ZenonT(30), <1>1, <1>2, <1>3 DEF BoardInv, CardsStayWhereDropped, UnderWay
  <2>2. NothingToUndo'
    BY <1>1, <1>2, <1>3 DEF BoardInv, NothingToUndo, UnderWay
  <2>. QED BY <2>1, <2>2
<1>6. ASSUME NEW d \in Cards, Ahead(d) PROVE Ahead(d)'
  BY <1>1, <1>3, <1>6 DEF Ahead, UnderWay
<1>7. ListsComeTrue'
  BY <1>1, <1>6 DEF BoardInv, ListsComeTrue
<1> QED BY <1>4, <1>5, <1>7 DEF BoardInv

LEMMA ServeMoveKeeps ==
  ASSUME BoardInv, NEW m \in Moves, ServeMove(m)
  PROVE  BoardInv'
<1> DEFINE c == move[m].card
           to == move[m].to
           ok == to \in Onward[card[c]] \cup {card[c]}
           pc == IF ok THEN "done" ELSE "refused"
<1>1. /\ move[m].pc = "asked" /\ card' = (IF ok THEN [card EXCEPT ![c] = to] ELSE card)
      /\ move' = [move EXCEPT ![m].pc = pc] /\ UNCHANGED board
  BY DEF ServeMove
<1>2. c \in Cards /\ to \in DOMAIN Onward /\ pc \in {"done", "refused"} /\ (ok <=> pc = "done")
  BY BoardTyped, StatusFacts
<1> HIDE DEF c, to, pc
<1>3. /\ card' \in Lists
      /\ \A d \in Cards : d # c \/ pc # "done" => card'[d] = card[d]
  BY <1>1, <1>2, BoardTyped DEF Lists
<1>4. /\ move' \in [Moves -> Move] /\ move'[m].pc = pc
      /\ \A k \in Moves : /\ k # m => move'[k] = move[k]
                          /\ move'[k].drag = move[k].drag /\ move'[k].card = move[k].card
                          /\ move'[k].to = move[k].to /\ move'[k].before = move[k].before
                          /\ move'[k].steady = move[k].steady
  BY <1>1, <1>2, BoardTyped, OneMove
<1>5. \A k \in Moves : UnderWay(k)' <=> UnderWay(k)
  BY <1>1, <1>2, <1>4 DEF UnderWay
<1>6. BoardTypeOK' /\ MovesFit'
  BY <1>1, <1>3, <1>4, <1>5, BoardTyped DEF BoardInv, BoardTypeOK, MovesFit, Lists
<1>7. CardsStayWhereDropped' /\ NothingToUndo'
  BY <1>1, <1>4, <1>5 DEF BoardInv, CardsStayWhereDropped, NothingToUndo
<1>8. ASSUME NEW d \in Cards, Ahead(d) PROVE Ahead(d)'
  <2>1. PICK k \in Moves : (UnderWay(k) /\ move[k].drag) \/ (move[k].pc = "done" /\ move[k].card = d)
    BY <1>8 DEF Ahead
  <2>2. k # m \/ (UnderWay(k) /\ move[k].drag)
    BY <1>1, <2>1
  <2> QED BY <1>4, <1>5, <2>1, <2>2 DEF Ahead
<1>9. ASSUME NEW d \in Cards, d = c, pc = "done" PROVE Ahead(d)'
  BY <1>4, <1>9 DEF Ahead, c
<1>10. ASSUME NEW d \in Cards, ~ Ahead(d)' PROVE card'[d] = card[d] /\ ~ Ahead(d)
  BY <1>3, <1>8, <1>9, <1>10
<1>11. ListsComeTrue'
  BY <1>1, <1>10 DEF BoardInv, ListsComeTrue
<1> QED BY <1>6, <1>7, <1>11 DEF BoardInv

LEMMA LoseMoveKeeps ==
  ASSUME BoardInv, NEW m \in Moves, LoseMove(m)
  PROVE  BoardInv'
<1> DEFINE behind == IF move[m].pc = "done" /\ ~move[m].drag THEN board.behind \cup {move[m].card}
                     ELSE board.behind
<1>1. /\ move[m].pc \in {"asked", "done"} /\ move' = [move EXCEPT ![m].pc = "refused"] /\ UNCHANGED card
      /\ board' = [page |-> board.page, fetch |-> board.fetch, answer |-> board.answer, behind |-> behind,
                   failed |-> board.failed, others |-> board.others]
  BY BoardIs DEF LoseMove
<1>2. /\ behind \in SUBSET Cards /\ board.behind \subseteq behind
      /\ move[m].pc = "done" /\ ~ move[m].drag => move[m].card \in behind
  BY BoardTyped
<1> HIDE DEF behind
<1>3. /\ board' \in Board /\ board'.page = board.page /\ board'.fetch = board.fetch
      /\ board'.answer = board.answer /\ board'.behind = behind /\ board'.failed = board.failed
  BY <1>1, <1>2, BoardTyped, BoardFields
<1>4. /\ move' \in [Moves -> Move] /\ move'[m].pc = "refused"
      /\ \A k \in Moves : /\ k # m => move'[k] = move[k]
                          /\ move'[k].drag = move[k].drag /\ move'[k].card = move[k].card
                          /\ move'[k].to = move[k].to /\ move'[k].before = move[k].before
                          /\ move'[k].steady = move[k].steady
  BY <1>1, BoardTyped, OneMove
<1>5. \A k \in Moves : UnderWay(k)' <=> UnderWay(k)
  BY <1>1, <1>4 DEF UnderWay
<1>6. BoardTypeOK' /\ MovesFit'
  BY <1>1, <1>3, <1>4, <1>5, BoardTyped DEF BoardInv, BoardTypeOK, MovesFit, Lists
<1>7. CardsStayWhereDropped' /\ NothingToUndo'
  BY <1>3, <1>4, <1>5 DEF BoardInv, CardsStayWhereDropped, NothingToUndo
<1>8. ASSUME NEW d \in Cards \ behind, Ahead(d) PROVE Ahead(d)'
  <2>1. PICK k \in Moves : (UnderWay(k) /\ move[k].drag) \/ (move[k].pc = "done" /\ move[k].card = d)
    BY <1>8 DEF Ahead
  <2>2. k # m \/ (UnderWay(k) /\ move[k].drag)
    BY <1>2, <2>1 DEF UnderWay
  <2> QED BY <1>4, <1>5, <2>1, <2>2 DEF Ahead
<1>9. ListsComeTrue'
  BY <1>1, <1>2, <1>3, <1>8 DEF BoardInv, ListsComeTrue
<1> QED BY <1>6, <1>7, <1>9 DEF BoardInv

LEMMA MoveAcceptedKeeps ==
  ASSUME BoardInv, NEW m \in Moves, MoveAccepted(m)
  PROVE  BoardInv'
<1>1. /\ move' = Moved(m, NoMove("over"), Moves) /\ UNCHANGED card
      /\ board' = [page |-> board.page, fetch |-> "asked", answer |-> Nothing, behind |-> board.behind,
                   failed |-> board.failed, others |-> board.others]
  BY BoardIs DEF MoveAccepted, Refetch
<1>2. board' \in Board /\ board'.fetch = "asked"
  BY <1>1, BoardTyped, BoardFields
<1>3. /\ move' \in [Moves -> Move] /\ move'[m] = NoMove("over")
      /\ \A k \in Moves \ {m} :
           /\ move'[k].pc = move[k].pc /\ move'[k].drag = move[k].drag /\ move'[k].card = move[k].card
           /\ move'[k].to = move[k].to /\ move'[k].before = move[k].before
           /\ move'[k].steady = (move[k].steady /\ k \notin Moves)
  BY <1>1, NoMoveFits, BoardTyped, MovedShape
<1>4. \A k \in Moves : ~ move'[k].steady
  BY <1>3, NoMoveFits
<1>5. BoardTypeOK'
  BY <1>1, <1>2, <1>3, BoardTyped DEF BoardTypeOK, Lists
<1>6. MovesFit'
  BY <1>2, <1>3, NoMoveFits, BoardTyped DEF MovesFit, UnderWay, Lists
<1> QED BY <1>2, <1>4, <1>5, <1>6
        DEF BoardInv, CardsStayWhereDropped, NothingToUndo, ListsComeTrue

LEMMA SnapBackKeeps ==
  ASSUME BoardInv, NEW m \in Moves, SnapBack(m)
  PROVE  BoardInv'
<1> DEFINE U == IF move[m].drag THEN Moves ELSE {}
<1>1. move[m].pc = "refused" /\ move' = Moved(m, NoMove("over"), U) /\ UNCHANGED card
  BY DEF SnapBack
<1> HIDE DEF U
<1>2. /\ move' \in [Moves -> Move] /\ move'[m] = NoMove("over")
      /\ \A k \in Moves \ {m} :
           /\ move'[k].pc = move[k].pc /\ move'[k].drag = move[k].drag /\ move'[k].card = move[k].card
           /\ move'[k].to = move[k].to /\ move'[k].before = move[k].before
           /\ move'[k].steady = (move[k].steady /\ k \notin U)
  BY <1>1, NoMoveFits, BoardTyped, MovedShape
<1>3. \A k \in Moves : UnderWay(k)' => UnderWay(k) /\ k # m
  BY <1>2, NoMoveFits DEF UnderWay
<1>4. CASE move[m].drag
  <2>1. board' = [page |-> move[m].before, fetch |-> "asked", answer |-> Nothing, behind |-> board.behind,
                  failed |-> board.failed, others |-> board.others]
    BY <1>4, BoardIs DEF SnapBack, Refetch
  <2>2. move[m].before \in Lists
    BY <1>1, <1>4, BoardTyped DEF UnderWay
  <2>3. board' \in Board /\ board'.fetch = "asked"
    BY <2>1, <2>2, BoardTyped, BoardFields
  <2>4. \A k \in Moves : ~ move'[k].steady
    BY <1>2, <1>4, NoMoveFits DEF U
  <2>5. BoardTypeOK'
    BY <1>1, <1>2, <2>3, BoardTyped DEF BoardTypeOK, Lists
  <2>6. MovesFit'
    BY <1>2, <1>3, <2>3, BoardTyped DEF MovesFit, Lists
  <2> QED BY <2>3, <2>4, <2>5, <2>6
          DEF BoardInv, CardsStayWhereDropped, NothingToUndo, ListsComeTrue
<1>5. CASE ~ move[m].drag
  <2>1. board' = board
    BY <1>5 DEF SnapBack
  <2>2. BoardTypeOK'
    BY <1>1, <1>2, <2>1 DEF BoardInv, BoardTypeOK
  <2>3. MovesFit'
    BY <1>2, <1>3, <2>1, BoardTyped DEF MovesFit
  <2>4. CardsStayWhereDropped' /\ NothingToUndo'
    BY <1>2, <1>3, <2>1 DEF BoardInv, CardsStayWhereDropped, NothingToUndo
  <2>5. ASSUME NEW d \in Cards, Ahead(d) PROVE Ahead(d)'
    <3>1. PICK k \in Moves : (UnderWay(k) /\ move[k].drag) \/ (move[k].pc = "done" /\ move[k].card = d)
      BY <2>5 DEF Ahead
    <3>2. k # m
      BY <1>1, <1>5, <3>1
    <3> QED BY <1>2, <3>1, <3>2 DEF Ahead, UnderWay
  <2>6. ListsComeTrue'
    BY <1>1, <2>1, <2>5 DEF BoardInv, ListsComeTrue
  <2> QED BY <2>2, <2>3, <2>4, <2>6 DEF BoardInv
<1> QED BY <1>4, <1>5

LEMMA ReloadKeeps == ASSUME BoardInv, Reload PROVE BoardInv'
<1>1. /\ move' = [m \in Moves |-> [move[m] EXCEPT !.steady = FALSE]] /\ UNCHANGED card
      /\ board' = [page |-> board.page, fetch |-> "asked", answer |-> Nothing, behind |-> board.behind,
                   failed |-> board.failed, others |-> board.others]
  BY BoardIs DEF Reload, Refetch
<1>2. board' \in Board /\ board'.fetch = "asked"
  BY <1>1, BoardTyped, BoardFields
<1>3. ASSUME NEW m \in Moves
      PROVE  /\ move'[m] \in Move /\ ~ move'[m].steady
             /\ move'[m].pc = move[m].pc /\ move'[m].drag = move[m].drag /\ move'[m].before = move[m].before
  <2>1. move[m] \in Move /\ move'[m] = [move[m] EXCEPT !.steady = FALSE]
    BY <1>1, BoardTyped
  <2> QED BY <2>1 DEF Move
<1>4. move' \in [Moves -> Move]
  BY <1>1, <1>3
<1>5. BoardTypeOK'
  BY <1>1, <1>2, <1>4, BoardTyped DEF BoardTypeOK, Lists
<1>6. MovesFit'
  BY <1>2, <1>3, BoardTyped DEF MovesFit, UnderWay, Lists
<1> QED BY <1>2, <1>3, <1>5, <1>6
        DEF BoardInv, CardsStayWhereDropped, NothingToUndo, ListsComeTrue

\* A list is served, shown or given up: the moves stay where they are.
LEMMA ListsKeep == ASSUME BoardInv, ServeList \/ ShowList \/ ListFails PROVE BoardInv'
<1>1. UNCHANGED <<card, move>> /\ board.fetch # "idle"
  BY DEF ServeList, ShowList, ListFails
<1>2. \A m \in Moves : ~ (UnderWay(m) /\ move[m].drag /\ move[m].steady)
  BY <1>1 DEF BoardInv, NothingToUndo
<1>3. CardsStayWhereDropped' /\ NothingToUndo'
  BY <1>1, <1>2 DEF CardsStayWhereDropped, NothingToUndo, UnderWay
<1>4. \A d \in Cards : Ahead(d)' <=> Ahead(d)
  BY <1>1 DEF Ahead, UnderWay
<1>5. ASSUME NEW page \in Lists, NEW fetch \in {"idle", "answered"}, NEW answer \in Lists \cup {Nothing},
             NEW behind \in SUBSET Cards, NEW failed \in BOOLEAN, fetch = "answered" => answer \in Lists,
             board' = [page |-> page, fetch |-> fetch, answer |-> answer, behind |-> behind,
                       failed |-> failed, others |-> board.others]
      PROVE  /\ BoardTypeOK' /\ MovesFit' /\ board'.page = page /\ board'.fetch = fetch
             /\ board'.answer = answer /\ board'.behind = behind /\ board'.failed = failed
  <2>1. board' \in Board
    BY <1>5, BoardTyped, BoardFields
  <2>2. board'.fetch = fetch /\ board'.answer = answer
    BY <1>5
  <2>3. BoardTypeOK'
    BY <1>1, <2>1 DEF BoardInv, BoardTypeOK
  <2>4. MovesFit'
    BY <1>1, <1>5, <2>2, BoardTyped DEF MovesFit, UnderWay
  <2> QED BY <1>5, <2>3, <2>4
<1>6. CASE ServeList
  <2>1. board' = [page |-> board.page, fetch |-> "answered", answer |-> card, behind |-> {},
                  failed |-> board.failed, others |-> board.others]
    BY <1>6, BoardIs DEF ServeList
  <2>2. /\ BoardTypeOK' /\ MovesFit' /\ board'.fetch = "answered" /\ board'.answer = card
    BY <1>5, <2>1, BoardTyped
  <2>3. ListsComeTrue'
    BY <1>1, <2>2 DEF ListsComeTrue
  <2> QED BY <1>3, <2>2, <2>3 DEF BoardInv
<1>7. CASE ShowList
  <2>1. /\ board.fetch = "answered"
        /\ board' = [page |-> board.answer, fetch |-> "idle", answer |-> Nothing, behind |-> board.behind,
                     failed |-> FALSE, others |-> board.others]
    BY <1>7, BoardIs DEF ShowList
  <2>2. /\ BoardTypeOK' /\ MovesFit' /\ board'.fetch = "idle" /\ board'.page = board.answer
        /\ board'.behind = board.behind
    BY <1>5, <2>1, BoardTyped
  <2>3. ListsComeTrue'
    BY <1>1, <1>4, <2>1, <2>2 DEF BoardInv, ListsComeTrue
  <2> QED BY <1>3, <2>2, <2>3 DEF BoardInv
<1>8. CASE ListFails
  <2>1. board' = [page |-> board.page, fetch |-> "idle", answer |-> Nothing, behind |-> board.behind,
                  failed |-> TRUE, others |-> board.others]
    BY <1>8, BoardIs DEF ListFails
  <2>2. BoardTypeOK' /\ MovesFit' /\ board'.fetch = "idle" /\ board'.failed
    BY <1>5, <2>1, BoardTyped
  <2>3. ListsComeTrue'
    BY <2>2 DEF ListsComeTrue
  <2> QED BY <1>3, <2>2, <2>3 DEF BoardInv
<1> QED BY <1>6, <1>7, <1>8

LEMMA ByOthersKeeps == ASSUME BoardInv, NEW c \in Cards, ByOthers(c) PROVE BoardInv'
<1>1. PICK to \in Onward[card[c]] : card' = [card EXCEPT ![c] = to]
  BY DEF ByOthers
<1>2. to \in DOMAIN Onward
  BY BoardTyped, StatusFacts DEF Lists
<1>3. card' \in Lists /\ \A d \in Cards \ {c} : card'[d] = card[d]
  BY <1>1, <1>2, BoardTyped DEF Lists
<1> DEFINE behind == board.behind \cup {c}
           others == board.others + 1
<1>4. /\ UNCHANGED move
      /\ board' = [page |-> board.page, fetch |-> board.fetch, answer |-> board.answer, behind |-> behind,
                   failed |-> board.failed, others |-> others]
  BY BoardIs DEF ByOthers
<1>5. behind \in SUBSET Cards /\ others \in 0..MaxByOthers
  <2>1. board.others < MaxByOthers
    BY DEF ByOthers
  <2> QED BY <2>1, BoardTyped, BoardAssumption
<1>6. c \in behind /\ board.behind \subseteq behind
  OBVIOUS
<1> HIDE DEF behind, others
<1>7. /\ board' \in Board /\ board'.page = board.page /\ board'.fetch = board.fetch
      /\ board'.answer = board.answer /\ board'.behind = behind /\ board'.failed = board.failed
  BY <1>4, <1>5, BoardTyped, BoardFields
<1>8. BoardTypeOK' /\ MovesFit'
  BY <1>3, <1>4, <1>7 DEF BoardInv, BoardTypeOK, MovesFit, UnderWay
<1>9. CardsStayWhereDropped' /\ NothingToUndo'
  BY <1>4, <1>7 DEF BoardInv, CardsStayWhereDropped, NothingToUndo, UnderWay
<1>10. \A d \in Cards : Ahead(d)' <=> Ahead(d)
  BY <1>4 DEF Ahead, UnderWay
<1>11. ListsComeTrue'
  BY <1>3, <1>6, <1>7, <1>10 DEF BoardInv, ListsComeTrue
<1> QED BY <1>8, <1>9, <1>11 DEF BoardInv

LEMMA BoardInvStays == ASSUME BoardInv, [BoardStep]_boardVars PROVE BoardInv'
<1>1. CASE UNCHANGED boardVars
  BY <1>1 DEF boardVars, BoardInv, BoardTypeOK, MovesFit, CardsStayWhereDropped, NothingToUndo,
              ListsComeTrue, Ahead, UnderWay
<1>2. CASE BoardStep
  BY <1>2, DragKeeps, PressKeeps, ServeMoveKeeps, LoseMoveKeeps, MoveAcceptedKeeps, SnapBackKeeps,
     ReloadKeeps, ListsKeep, ByOthersKeeps DEF BoardStep
<1> QED BY <1>1, <1>2

LEMMA BoardShows == BoardInv => CardsStayWhereDropped /\ BoardTellsTruth
BY DEF BoardInv, BoardTellsTruth, ListsComeTrue, Ahead, UnderWay

(***************************************************************************)
(* A dragged card stays where it was dropped until something newer moves   *)
(* it, and a board with nothing under way shows what the server holds,     *)
(* however many cards, moves and changes by others (useTaskMoveMutation).  *)
(***************************************************************************)
THEOREM BoardIsTrue == BoardSpec => [](CardsStayWhereDropped /\ BoardTellsTruth)
<1>1. BoardSpec => []BoardInv
  BY BoardInitially, BoardInvStays, PTL DEF BoardSpec
<1> QED BY <1>1, BoardShows, PTL
-----------------------------------------------------------------------------
(***************************************************************************)
(* The visits.                                                             *)
(***************************************************************************)
NavSpec == NavInit /\ [][NavStep]_navVars

\* Who may be led elsewhere, and what holds of a page that is served.
LEMMA RedirectShape ==
  ASSUME NavTypeOK, NEW u \in Urls
  PROVE  /\ Redirect(u) \in Urls
         /\ Redirect(u).route \in Routes
         /\ \/ Redirect(u).route = u.route
            \/ u.route = "login" /\ HasSession /\ Redirect(u).route \in {"portal", "admin"}
            \/ Area(u.route) # "none" /\ ~HasSession /\ Redirect(u).route = "login"
            \/ u.route \in {"portal", "admin"} /\ Redirect(u).route \in {"portal", "admin"}
         /\ Redirect(u) = u =>
              /\ Area(u.route) # "none" => HasSession
              /\ ~(u.route = "portal" /\ SeenStaff)
  <1>0. u.prefix \in {"", "mn", "en"} /\ u.route \in Routes
    BY DEF Urls
  <1>1. ASSUME NEW p \in {"", "mn", "en"} PROVE [u EXCEPT !.prefix = p] \in Urls /\ [u EXCEPT !.prefix = p].route = u.route
    BY <1>0 DEF Urls
  <1>2. ASSUME NEW r \in Routes PROVE Guarded(u, r) \in Urls /\ Guarded(u, r).route = r
    BY <1>0 DEF Urls, Guarded
  <1>3. CASE ByLanguage(u)
    <2>1. Redirect(u) = [u EXCEPT !.prefix = "en"]
      BY <1>3 DEF Redirect
    <2>2. Redirect(u).prefix # u.prefix
      BY <2>1, <1>3 DEF Urls, ByLanguage
    <2>. QED BY <2>1, <2>2, <1>1, <1>0
  <1>4. CASE ~ByLanguage(u) /\ u.route = "login" /\ HasSession
    <2>1. Redirect(u) = Guarded(u, IF SeenStaff THEN "admin" ELSE "portal")
      BY <1>4 DEF Redirect
    <2>2. Redirect(u) \in Urls /\ Redirect(u).route \in {"portal", "admin"}
      BY <2>1, <1>2 DEF Routes
    <2>. QED BY <2>2, <1>4 DEF Routes
  <1>5. CASE ~ByLanguage(u) /\ Area(u.route) # "none" /\ ~HasSession
    <2>0. ~jar.access /\ ~SeenStaff
      BY <1>5 DEF HasSession, SeenStaff
    <2>1. Redirect(u) = Guarded(u, "login")
      BY <2>0, <1>5 DEF Redirect
    <2>2. Redirect(u) \in Urls /\ Redirect(u).route = "login"
      BY <2>1, <1>2 DEF Routes
    <2>3. u.route # "login" /\ "login" \in Routes
      BY <1>5 DEF Area, Routes
    <2>. QED BY <2>2, <2>3, <1>5
  <1>6. CASE ~ByLanguage(u) /\ HasSession /\ u.route = "admin" /\ jar.access /\ ~account.staff
    <2>1. Redirect(u) = Guarded(u, "portal")
      BY <1>6 DEF Redirect
    <2>2. Redirect(u) \in Urls /\ Redirect(u).route = "portal"
      BY <2>1, <1>2 DEF Routes
    <2>. QED BY <2>2, <1>6 DEF Routes
  <1>7. CASE ~ByLanguage(u) /\ HasSession /\ u.route = "portal" /\ SeenStaff
    <2>1. Redirect(u) = Guarded(u, "admin")
      BY <1>7 DEF Redirect, Area
    <2>2. Redirect(u) \in Urls /\ Redirect(u).route = "admin"
      BY <2>1, <1>2 DEF Routes
    <2>. QED BY <2>2, <1>7 DEF Routes
  <1>8. CASE /\ ~ByLanguage(u) /\ ~(u.route = "login" /\ HasSession) /\ ~(Area(u.route) # "none" /\ ~HasSession)
             /\ ~(u.route = "admin" /\ jar.access /\ ~account.staff) /\ ~(u.route = "portal" /\ SeenStaff)
    <2>1. Redirect(u) = [u EXCEPT !.prefix = IF u.prefix = "mn" THEN "" ELSE u.prefix]
      BY <1>8 DEF Redirect
    <2>2. Redirect(u) \in Urls /\ Redirect(u).route = u.route
      BY <2>1, <1>1, <1>0
    <2>. QED BY <2>2, <1>8, <1>0
  <1>. QED BY <1>3, <1>4, <1>5, <1>6, <1>7, <1>8 DEF Area, HasSession

LEMMA ServedShape ==
  ASSUME NavTypeOK, NEW r \in Routes, NEW old \in BOOLEAN
  PROVE  /\ Served(r, old) \in [area : {"none", "portal", "admin"}, me : {"none", "ok", "failed", "broken"},
                                fetch : {"idle", "asked", "refused"}, told : BOOLEAN]
         /\ Served(r, old).area = Area(r)
         /\ Area(r) # "none" =>
              \/ Served(r, old) = user /\ user.area = Area(r) /\ user.me # "none"
              \/ Served(r, old).fetch = "idle" => Served(r, old).me = "ok"
  <1>0. Area(r) \in {"none", "portal", "admin"}
    BY DEF Area
  <1>1. CASE Area(r) = "none"
    BY <1>1 DEF Served, NavTypeOK
  <1>2. CASE Area(r) # "none" /\ Area(r) = user.area /\ user.me # "none"
    BY <1>2 DEF Served, NavTypeOK
  <1>3. CASE Area(r) # "none" /\ ~(Area(r) = user.area /\ user.me # "none")
    BY <1>0, <1>3 DEF Served, NavTypeOK
  <1>. QED BY <1>1, <1>2, <1>3

LEMMA VisitParts ==
  ASSUME NavTypeOK
  PROVE  /\ view.at \in Urls /\ view.goal \in Urls /\ view.next \in Urls \cup {Nowhere}
         /\ view.at.route \in Routes /\ view.goal.route \in Routes
         /\ Nowhere.route = "nowhere" /\ Nowhere.prefix = ""
         /\ view.pc \in {"asked", "open"} /\ user.area \in {"none", "portal", "admin"}
         /\ user.me \in {"none", "ok", "failed", "broken"} /\ user.fetch \in {"idle", "asked", "refused"}
  BY DEF NavTypeOK, Urls, Nowhere

LEMMA VisitsInitially == NavInit => VisitInv
  <1> SUFFICES ASSUME NavInit PROVE VisitInv
    OBVIOUS
  <1> USE DEF NavInit, Asking, Bare, Unmounted, Nowhere
  <1>1. NavTypeOK
    BY DEF NavTypeOK, Urls, Routes
  <1>2. PageMounted /\ TurnedAway /\ StaffUnseen /\ OnCourse
    BY DEF PageMounted, TurnedAway, StaffUnseen, OnCourse, HeadingHome, Area, HasSession
  <1>. QED BY <1>1, <1>2 DEF VisitInv

LEMMA AnswerKeeps == ASSUME VisitInv, Answer PROVE VisitInv'
  <1> SUFFICES ASSUME NEW u, u = view.at, NEW to, to = Redirect(u)
               PROVE  VisitInv'
    OBVIOUS
  <1>0. NavTypeOK /\ PageMounted /\ TurnedAway /\ StaffUnseen /\ OnCourse
    BY DEF VisitInv
  <1>1. u \in Urls /\ u.route \in Routes
    BY <1>0, VisitParts
  <1>2. /\ to \in Urls /\ to.route \in Routes
        /\ \/ to.route = u.route
           \/ u.route = "login" /\ HasSession /\ to.route \in {"portal", "admin"}
           \/ Area(u.route) # "none" /\ ~HasSession /\ to.route = "login"
           \/ u.route \in {"portal", "admin"} /\ to.route \in {"portal", "admin"}
        /\ to = u => (Area(u.route) # "none" => HasSession) /\ ~(u.route = "portal" /\ SeenStaff)
    BY <1>0, <1>1, RedirectShape
  <1>3. /\ view.pc = "asked"
        /\ view' = [view EXCEPT !.at = to, !.pc = IF to = u THEN "open" ELSE "asked",
                     !.next = IF to.route = u.route THEN @ ELSE IF to.route = "login" THEN u ELSE Nowhere,
                     !.blind = ~jar.access]
        /\ IF to = u THEN \E old \in BOOLEAN : user' = Served(u.route, old) ELSE user' = user
        /\ jar' = IF to.route = u.route /\ ~ByLanguage(u) THEN [jar EXCEPT !.english = u.prefix = "en"] ELSE jar
        /\ account' = account
    BY DEF Answer
  <1>4. /\ view'.at = to /\ view'.goal = view.goal /\ view'.detour = view.detour /\ view'.mishap = view.mishap
        /\ view'.blind = ~jar.access
        /\ view'.next = IF to.route = u.route THEN view.next ELSE IF to.route = "login" THEN u ELSE Nowhere
        /\ view'.pc = IF to = u THEN "open" ELSE "asked"
    BY <1>0, <1>3 DEF NavTypeOK
  <1>5. jar'.access = jar.access /\ jar'.hint = jar.hint /\ HasSession' = HasSession
    BY <1>0, <1>3 DEF NavTypeOK, HasSession
  <1>6. /\ user' \in [area : {"none", "portal", "admin"}, me : {"none", "ok", "failed", "broken"},
                      fetch : {"idle", "asked", "refused"}, told : BOOLEAN]
        /\ to = u =>
             /\ user'.area = Area(u.route)
             /\ Area(u.route) # "none" =>
                  \/ user' = user /\ user.area = Area(u.route) /\ user.me # "none"
                  \/ user'.fetch = "idle" => user'.me = "ok"
        /\ to # u => user' = user
    BY <1>0, <1>1, <1>3, ServedShape DEF NavTypeOK
  <1>7. NavTypeOK'
    <2>1. jar' \in [access : BOOLEAN, hint : BOOLEAN, english : BOOLEAN]
      BY <1>0, <1>3 DEF NavTypeOK
    <2>2. view' \in [at : Urls, pc : {"asked", "open"}, next : Urls \cup {Nowhere}, goal : Urls,
                     blind : BOOLEAN, detour : BOOLEAN, mishap : BOOLEAN]
      <3>1. view'.next \in Urls \cup {Nowhere}
        BY <1>0, <1>1, <1>4 DEF NavTypeOK
      <3>. QED BY ZenonT(30), <1>0, <1>2, <1>3, <3>1 DEF NavTypeOK
    <2>. QED BY <1>0, <1>3, <1>6, <2>1, <2>2 DEF NavTypeOK
  <1>8. PageMounted'
    BY <1>4, <1>6 DEF PageMounted
  <1>9. TurnedAway'
    BY <1>0, <1>2, <1>4, <1>5, <1>6 DEF TurnedAway
  <1>10. StaffUnseen'
    BY <1>2, <1>3, <1>4 DEF StaffUnseen, SeenStaff
  <1>11. HeadingHome' = HeadingHome
    BY <1>4 DEF HeadingHome
  <1>12. OnCourse'
    <2>1. /\ u.route \in {"portal", "admin"} => HeadingHome
          /\ "cases" \in {u.route, view.next.route} => view.goal.route = "cases"
          /\ u.route = "login" => HeadingHome \/ (~HasSession /\ view.next.route = "cases")
      BY <1>0 DEF OnCourse
    <2>2. view'.next.route \in {view.next.route, u.route, "nowhere"}
      <3>1. Nowhere.route = "nowhere"
        BY DEF Nowhere
      <3>. QED BY <1>4, <3>1
    <2>3. to.route = "login" /\ u.route = "cases" => view'.next.route = "cases"
      BY <1>4
    <2>4. to.route = u.route => view'.next = view.next
      BY <1>4
    <2>5. Area(u.route) # "none" => u.route \in {"portal", "admin", "cases"}
      BY DEF Area
    <2>. QED BY <1>2, <1>4, <1>5, <1>11, <2>1, <2>2, <2>3, <2>4, <2>5 DEF OnCourse
  <1>. QED BY <1>7, <1>8, <1>9, <1>10, <1>12 DEF VisitInv

\* Nothing that a page, its address or its visitor is changes: what may still go wrong.
LEMMA SameView ==
  ASSUME VisitInv, NavTypeOK', view' = view, account'.staff = account.staff, user'.area = user.area,
         jar'.access => jar.access \/ jar.hint, jar'.hint => jar.access \/ jar.hint,
         view.pc = "open" /\ user'.me = "none" => user'.area = "none" \/ user'.fetch # "idle",
         ~view.mishap /\ user'.me \in {"failed", "broken"} /\ user'.fetch = "idle" =>
           \/ user'.area = "none"
           \/ ~HasSession' /\ (view.pc = "open" => ~user'.told)
  PROVE  VisitInv'
  <1>0. NavTypeOK /\ PageMounted /\ TurnedAway /\ StaffUnseen /\ OnCourse
    BY DEF VisitInv
  <1>1. PageMounted'
    BY <1>0 DEF PageMounted
  <1>2. TurnedAway'
    BY DEF TurnedAway
  <1>3. StaffUnseen'
    BY <1>0 DEF StaffUnseen
  <1>4. OnCourse'
    BY <1>0 DEF OnCourse, HeadingHome, HasSession
  <1>. QED BY <1>1, <1>2, <1>3, <1>4 DEF VisitInv

\* Addresses.
LEMMA Addresses ==
  /\ \A r \in Routes : Bare(r) \in Urls /\ Bare(r).route = r
  /\ Nowhere \notin Urls /\ Nowhere.route = "nowhere"
  /\ {"site", "login", "link", "portal", "cases", "admin"} = Routes
  /\ \A u \in Urls : u.route \in Routes
  <1>1. \A r \in Routes : Bare(r) \in Urls /\ Bare(r).route = r
    BY DEF Bare, Urls
  <1>2. Nowhere.route = "nowhere" /\ "nowhere" \notin Routes
    BY DEF Nowhere, Routes
  <1>3. \A u \in Urls : u.route \in Routes
    BY DEF Urls
  <1>. QED BY <1>1, <1>2, <1>3 DEF Routes

\* The visitor is sent to another address, with a provider that has not changed or none.
LEMMA NewAddress ==
  ASSUME VisitInv, NavTypeOK', view'.pc = "asked",
         view'.at.route \in {"portal", "admin"} => HeadingHome',
         "cases" \in {view'.at.route, view'.next.route} => view'.goal.route = "cases",
         view'.at.route = "login" => HeadingHome' \/ (~HasSession' /\ view'.next.route = "cases"),
         ~view'.mishap /\ user'.me \in {"failed", "broken"} /\ user'.fetch = "idle" =>
           user'.area = "none" \/ ~HasSession'
  PROVE  VisitInv'
  <1>1. PageMounted' /\ StaffUnseen'
    BY DEF PageMounted, StaffUnseen
  <1>2. TurnedAway'
    BY DEF TurnedAway
  <1>3. OnCourse'
    BY DEF OnCourse
  <1>. QED BY <1>1, <1>2, <1>3 DEF VisitInv

LEMMA AskingShape ==
  ASSUME NEW u \in Urls
  PROVE  /\ Asking(u) \in [at : Urls, pc : {"asked", "open"}, next : Urls \cup {Nowhere}, goal : Urls,
                           blind : BOOLEAN, detour : BOOLEAN, mishap : BOOLEAN]
         /\ Asking(u).at = u /\ Asking(u).goal = u /\ Asking(u).pc = "asked" /\ Asking(u).next.route = "nowhere"
  BY Addresses DEF Asking

LEMMA UserStepsKeep ==
  ASSUME VisitInv, ServeMe \/ ServeRefresh \/ Reconnect \/ Forget
  PROVE  VisitInv'
  <1>0. NavTypeOK /\ PageMounted /\ TurnedAway
    BY DEF VisitInv
  <1>1. CASE ServeMe
    <2>1. NavTypeOK'
      BY ZenonT(30), <1>0, <1>1 DEF NavTypeOK, ServeMe
    <2>2. /\ user'.area = user.area
          /\ user'.me # "none" \/ user'.fetch # "idle"
          /\ ~(user'.me \in {"failed", "broken"} /\ user'.fetch = "idle")
      BY <1>0, <1>1 DEF NavTypeOK, ServeMe
    <2>. QED BY <1>1, <2>1, <2>2, SameView DEF ServeMe
  <1>2. CASE ServeRefresh
    <2>1. NavTypeOK'
      BY ZenonT(30), <1>0, <1>2 DEF NavTypeOK, ServeRefresh, Signed, ClearedCookies, Failed
    <2>2. /\ user'.area = user.area /\ user'.me # "none"
          /\ jar'.access => jar.hint
          /\ jar'.hint => jar.hint
          /\ user'.me \in {"failed", "broken"} => ~jar'.access /\ ~jar'.hint /\ ~user'.told
      BY ZenonT(30), <1>0, <1>2 DEF NavTypeOK, ServeRefresh, Signed, ClearedCookies, Failed
    <2>. QED BY <1>2, <2>1, <2>2, SameView DEF ServeRefresh, HasSession
  <1>3. CASE Reconnect
    <2>1. NavTypeOK'
      BY ZenonT(30), <1>0, <1>3 DEF NavTypeOK, Reconnect
    <2>2. user'.area = user.area /\ user'.fetch = "asked"
      BY <1>0, <1>3 DEF NavTypeOK, Reconnect
    <2>. QED BY <1>3, <2>1, <2>2, SameView DEF Reconnect
  <1>4. CASE Forget
    <2>1. NavTypeOK'
      BY <1>0, <1>4 DEF NavTypeOK, Forget
    <2>2. user'.area = "none" /\ user.area = "none" /\ user'.me = "none"
      BY <1>0, <1>4 DEF NavTypeOK, Forget
    <2>. QED BY <1>4, <2>1, <2>2, SameView DEF Forget
  <1>. QED BY <1>1, <1>2, <1>3, <1>4

LEMMA SessionStepsKeep ==
  ASSUME VisitInv, CookiesExpire \/ SessionsEnd
  PROVE  VisitInv'
  <1>0. NavTypeOK /\ PageMounted /\ TurnedAway
    BY DEF VisitInv
  <1>1. NavTypeOK'
    BY <1>0 DEF NavTypeOK, CookiesExpire, SessionsEnd
  <1>2. view' = view /\ user' = user
    BY DEF CookiesExpire, SessionsEnd
  <1>3. jar'.access => jar.access
    BY <1>0 DEF NavTypeOK, CookiesExpire, SessionsEnd
  <1>4. jar'.hint => jar.hint
    BY <1>0 DEF NavTypeOK, CookiesExpire, SessionsEnd
  <1>5. account'.staff = account.staff
    BY <1>0 DEF NavTypeOK, CookiesExpire, SessionsEnd
  <1>6. view.pc = "open" /\ user.me = "none" => user.area = "none" \/ user.fetch # "idle"
    BY <1>0 DEF PageMounted
  <1>7. ~HasSession => ~HasSession'
    BY <1>3, <1>4 DEF HasSession
  <1>. QED BY <1>0, <1>1, <1>2, <1>3, <1>4, <1>5, <1>6, <1>7, SameView DEF TurnedAway

LEMMA LoseCallKeeps == ASSUME VisitInv, LoseCall PROVE VisitInv'
  <1>0. NavTypeOK /\ PageMounted /\ StaffUnseen /\ OnCourse
    BY DEF VisitInv
  <1>1. NavTypeOK'
    BY <1>0 DEF NavTypeOK, LoseCall, Failed
  <1>2. /\ view'.at = view.at /\ view'.pc = view.pc /\ view'.next = view.next /\ view'.goal = view.goal
        /\ view'.detour = view.detour /\ view'.blind = view.blind /\ view'.mishap
        /\ account' = account /\ jar' = jar
        /\ user'.area = user.area /\ user'.me # "none"
    BY <1>0 DEF NavTypeOK, LoseCall, Failed
  <1>3. PageMounted' /\ StaffUnseen'
    BY <1>0, <1>2 DEF PageMounted, StaffUnseen
  <1>4. TurnedAway'
    BY <1>2 DEF TurnedAway
  <1>5. OnCourse'
    BY <1>0, <1>2 DEF OnCourse, HeadingHome, HasSession
  <1>. QED BY <1>1, <1>3, <1>4, <1>5 DEF VisitInv

LEMMA SendToLoginKeeps == ASSUME VisitInv, SendToLogin PROVE VisitInv'
  <1>0. NavTypeOK /\ PageMounted /\ TurnedAway /\ OnCourse
    BY DEF VisitInv
  <1>1. /\ user.area # "none" /\ view.pc = "open" /\ user.me \in {"failed", "broken"}
        /\ view' = [view EXCEPT !.at = Bare("login"), !.pc = "asked", !.next = view.at, !.detour = @ \/ HasSession]
        /\ user' = [user EXCEPT !.told = TRUE] /\ account' = account /\ jar' = jar
    BY DEF SendToLogin, MustSignIn, Mounted
  <1>2. Bare("login") \in Urls /\ Bare("login").route = "login"
    BY Addresses
  <1>3. NavTypeOK'
    <2>1. view' \in [at : Urls, pc : {"asked", "open"}, next : Urls \cup {Nowhere}, goal : Urls,
                     blind : BOOLEAN, detour : BOOLEAN, mishap : BOOLEAN]
      BY <1>0, <1>1, <1>2 DEF NavTypeOK
    <2>. QED BY <1>0, <1>1, <2>1 DEF NavTypeOK
  <1>4. /\ view'.at.route = "login" /\ view'.pc = "asked" /\ view'.next = view.at /\ view'.goal = view.goal
        /\ view'.mishap = view.mishap /\ (view.detour => view'.detour) /\ (HasSession => view'.detour)
        /\ user'.me = user.me /\ user'.fetch = user.fetch /\ user'.area = user.area
    BY <1>0, <1>1, <1>2 DEF NavTypeOK
  <1>5. HasSession' = HasSession
    BY <1>1 DEF HasSession
  <1>6. view.at.route \in {"portal", "cases", "admin"}
    BY <1>0, <1>1 DEF PageMounted, Area
  <1>7. /\ view.at.route \in {"portal", "admin"} => HeadingHome'
        /\ "cases" = view.at.route => view.goal.route = "cases"
    BY <1>0, <1>4 DEF OnCourse, HeadingHome
  <1>8. HasSession => HeadingHome'
    BY <1>4 DEF HeadingHome
  <1>9. ~view.mishap /\ user.fetch = "idle" => ~HasSession
    BY <1>0, <1>1 DEF TurnedAway
  <1>. QED BY <1>1, <1>3, <1>4, <1>5, <1>6, <1>7, <1>8, <1>9, NewAddress

LEMMA LeaveAdminKeeps == ASSUME VisitInv, LeaveAdmin PROVE VisitInv'
  <1>0. NavTypeOK /\ PageMounted /\ OnCourse
    BY DEF VisitInv
  <1>1. /\ user.area = "admin" /\ view.pc = "open" /\ user.me = "ok"
        /\ view' = [view EXCEPT !.at = Bare("portal"), !.pc = "asked", !.next = Nowhere]
        /\ user' = user /\ account' = account /\ jar' = jar
    BY DEF LeaveAdmin, MustLeave, Mounted
  <1>2. Bare("portal") \in Urls /\ Bare("portal").route = "portal" /\ Nowhere.route = "nowhere"
    BY Addresses
  <1>3. NavTypeOK'
    <2>1. view' \in [at : Urls, pc : {"asked", "open"}, next : Urls \cup {Nowhere}, goal : Urls,
                     blind : BOOLEAN, detour : BOOLEAN, mishap : BOOLEAN]
      BY <1>0, <1>1, <1>2 DEF NavTypeOK
    <2>. QED BY <1>0, <1>1, <2>1 DEF NavTypeOK
  <1>4. /\ view'.at.route = "portal" /\ view'.pc = "asked" /\ view'.next.route = "nowhere"
        /\ view'.goal = view.goal /\ view'.detour = view.detour
    BY <1>0, <1>1, <1>2 DEF NavTypeOK
  <1>5. view.at.route = "admin"
    BY <1>0, <1>1 DEF PageMounted, Area
  <1>6. HeadingHome'
    BY <1>0, <1>4, <1>5 DEF OnCourse, HeadingHome
  <1>. QED BY <1>1, <1>3, <1>4, <1>6, NewAddress

LEMMA OpeningKeeps ==
  ASSUME VisitInv, NEW u \in Urls, Open(u) \/ Follow(u)
  PROVE  VisitInv'
  <1>0. NavTypeOK
    BY DEF VisitInv
  <1>1. /\ view' = Asking(u) /\ account' = account /\ jar' = jar
        /\ user' = Unmounted \/ (user' = user /\ (user.area = "none" \/ user.me = "ok"))
    BY DEF Open, Follow
  <1>2. /\ Unmounted.area = "none"
        /\ Unmounted \in [area : {"none", "portal", "admin"}, me : {"none", "ok", "failed", "broken"},
                          fetch : {"idle", "asked", "refused"}, told : BOOLEAN]
    BY DEF Unmounted
  <1>3. NavTypeOK'
    BY <1>0, <1>1, <1>2, AskingShape DEF NavTypeOK
  <1>4. /\ view'.at = u /\ view'.goal = u /\ view'.pc = "asked" /\ view'.next.route = "nowhere"
        /\ user'.area = "none" \/ user'.me = "ok"
    BY <1>1, <1>2, AskingShape
  <1>5. u.route \in {"portal", "admin", "login"} => HeadingHome'
    BY <1>4 DEF HeadingHome
  <1>. QED BY <1>3, <1>4, <1>5, NewAddress

LEMMA LogOutKeeps ==
  ASSUME VisitInv, NEW heard \in BOOLEAN, LogOut(heard)
  PROVE  VisitInv'
  <1>0. NavTypeOK
    BY DEF VisitInv
  <1>1. /\ view' = [Asking(Bare("login")) EXCEPT !.mishap = ~heard]
        /\ jar' \in {ClearedCookies, jar} /\ account' \in {[account EXCEPT !.alive = FALSE], account}
        /\ user' = [user EXCEPT !.me = "none"]
    BY DEF LogOut
  <1>2. Bare("login") \in Urls /\ Bare("login").route = "login"
    BY Addresses
  <1>3. NavTypeOK'
    <2>1. view' \in [at : Urls, pc : {"asked", "open"}, next : Urls \cup {Nowhere}, goal : Urls,
                     blind : BOOLEAN, detour : BOOLEAN, mishap : BOOLEAN]
      <3>1. \A m \in BOOLEAN : [Asking(Bare("login")) EXCEPT !.mishap = m] \in
                [at : Urls, pc : {"asked", "open"}, next : Urls \cup {Nowhere}, goal : Urls,
                 blind : BOOLEAN, detour : BOOLEAN, mishap : BOOLEAN]
        BY <1>2, AskingShape
      <3>2. CASE heard = TRUE
        BY <1>1, <3>1, <3>2
      <3>3. CASE heard = FALSE
        BY <1>1, <3>1, <3>3
      <3>. QED BY <3>2, <3>3
    <2>2. jar' \in [access : BOOLEAN, hint : BOOLEAN, english : BOOLEAN]
      BY <1>0, <1>1 DEF NavTypeOK, ClearedCookies
    <2>. QED BY <1>0, <1>1, <2>1, <2>2 DEF NavTypeOK
  <1>4. /\ view'.at.route = "login" /\ view'.goal.route = "login" /\ view'.pc = "asked"
        /\ view'.next.route = "nowhere" /\ user'.me = "none"
    BY <1>0, <1>1, <1>2, AskingShape DEF NavTypeOK
  <1>5. HeadingHome'
    BY <1>4 DEF HeadingHome
  <1>. QED BY <1>3, <1>4, <1>5, NewAddress

LEMMA LogInKeeps == ASSUME VisitInv, LogIn PROVE VisitInv'
  <1>0. NavTypeOK /\ PageMounted /\ OnCourse
    BY DEF VisitInv
  <1> SUFFICES ASSUME NEW to, to = IF SafeNext THEN view.next ELSE Bare(Home)
               PROVE  VisitInv'
    OBVIOUS
  <1>1. /\ view.pc = "open" /\ view.at.route = "login" /\ user' = user
        /\ jar' = Signed /\ account' = [account EXCEPT !.alive = TRUE]
        /\ view' = [view EXCEPT !.at = to, !.pc = "asked", !.next = Nowhere, !.detour = @ \/ view.next.prefix # ""]
    BY DEF LogIn
  <1>2. user.area = "none"
    BY <1>0, <1>1 DEF PageMounted, Area
  <1>3. SafeNext => view.next.route \in {"portal", "cases", "admin"}
    BY DEF SafeNext, Area
  <1>4. Home \in {"portal", "admin"} /\ Bare(Home) \in Urls /\ Bare(Home).route = Home
    BY Addresses DEF Home, Routes
  <1>5. to \in Urls /\ to.route \in {"portal", "cases", "admin"}
    <2>1. SafeNext => view.next \in Urls
      BY <1>0, <1>3, Addresses DEF NavTypeOK
    <2>. QED BY <1>3, <1>4, <2>1
  <1>6. NavTypeOK'
    <2>1. view' \in [at : Urls, pc : {"asked", "open"}, next : Urls \cup {Nowhere}, goal : Urls,
                     blind : BOOLEAN, detour : BOOLEAN, mishap : BOOLEAN]
      <3> SUFFICES ASSUME NEW d, d = (view.next.prefix # ""), d \in BOOLEAN,
                          view' = [view EXCEPT !.at = to, !.pc = "asked", !.next = Nowhere, !.detour = @ \/ d]
                   PROVE  view' \in [at : Urls, pc : {"asked", "open"}, next : Urls \cup {Nowhere}, goal : Urls,
                                     blind : BOOLEAN, detour : BOOLEAN, mishap : BOOLEAN]
        BY <1>1, Zenon
      <3>. QED BY <1>0, <1>5 DEF NavTypeOK
    <2>. QED BY <1>0, <1>1, <2>1 DEF NavTypeOK, Signed
  <1>7. SafeNext => view.next.prefix = ""
    BY DEF SafeNext
  <1>8. /\ view'.at = to /\ view'.pc = "asked" /\ view'.goal = view.goal /\ view'.next.route = "nowhere"
        /\ (view.detour => view'.detour) /\ (view.next.prefix # "" => view'.detour)
    <2>1. Nowhere.route = "nowhere"
      BY Addresses
    <2>. QED BY <1>0, <1>1, <2>1 DEF NavTypeOK
  <1>9. HeadingHome => HeadingHome'
    BY <1>8 DEF HeadingHome
  <1>10. HeadingHome \/ view.next.route = "cases"
    BY <1>0, <1>1 DEF OnCourse
  <1>11. CASE SafeNext
    <2>1. "cases" = to.route => view.goal.route = "cases"
      BY <1>0, <1>11 DEF OnCourse
    <2>. QED BY <1>2, <1>1, <1>5, <1>6, <1>8, <1>9, <1>10, <1>11, <2>1, NewAddress
  <1>12. CASE ~SafeNext
    <2>1. view.next.route = "cases" => view.next.prefix # ""
      BY <1>12 DEF SafeNext, Area
    <2>2. HeadingHome'
      BY <1>8, <1>9, <1>10, <2>1 DEF HeadingHome
    <2>. QED BY ZenonT(30), <1>2, <1>1, <1>4, <1>6, <1>8, <1>12, <2>2, NewAddress
  <1>. QED BY <1>11, <1>12

LEMMA VisitInvStays == ASSUME VisitInv, [NavStep]_navVars PROVE VisitInv'
  <1>1. ASSUME NEW u \in Urls, Open(u) \/ Follow(u) PROVE VisitInv'
    BY <1>1, OpeningKeeps
  <1>2. ASSUME NEW heard \in BOOLEAN, LogOut(heard) PROVE VisitInv'
    BY <1>2, LogOutKeeps
  <1>3. CASE UNCHANGED navVars
    <2>1. view' = view /\ user' = user /\ account' = account /\ jar' = jar
      BY <1>3 DEF navVars
    <2>. QED BY <2>1 DEF VisitInv, NavTypeOK, PageMounted, TurnedAway, StaffUnseen, OnCourse, HeadingHome, HasSession
  <1>. QED BY <1>1, <1>2, <1>3, AnswerKeeps, UserStepsKeep, SessionStepsKeep, LoseCallKeeps, SendToLoginKeeps,
              LeaveAdminKeeps, LogInKeeps DEF NavStep

LEMMA VisitsLand == VisitInv => VisitsLandRight
  <1> SUFFICES ASSUME VisitInv, AtRest, user.area # "none", ~view.mishap
               PROVE  /\ user.me = "ok"
                      /\ \/ view.at.route \in Landing(view.goal)
                         \/ view.detour /\ view.at.route = Home
                         \/ account.staff /\ view.blind /\ view.at.route = "portal"
    BY DEF VisitsLandRight
  <1>0. NavTypeOK /\ PageMounted /\ TurnedAway /\ StaffUnseen /\ OnCourse
    BY DEF VisitInv
  <1>1. /\ view.pc = "open" /\ user.fetch = "idle"
        /\ ~(user.me \in {"failed", "broken"} /\ ~user.told)
        /\ ~(user.area = "admin" /\ user.me = "ok" /\ ~account.staff)
    BY DEF AtRest, MustSignIn, MustLeave, Mounted
  <1>2. user.me = "ok"
    <2>1. user.me \in {"none", "ok", "failed", "broken"}
      BY <1>0, VisitParts
    <2>. QED BY <1>0, <1>1, <2>1 DEF PageMounted, TurnedAway
  <1>3. user.area = Area(view.at.route)
    BY <1>0, <1>1 DEF PageMounted
  <1>4. view.at.route \in {"portal", "cases", "admin"}
    BY <1>3 DEF Area
  <1>5. CASE view.at.route = "cases"
    <2>1. view.goal.route = "cases"
      BY <1>0, <1>5 DEF OnCourse
    <2>. QED BY <1>2, <1>5, <2>1 DEF Landing
  <1>6. CASE view.at.route \in {"portal", "admin"}
    <2>1. view.detour \/ view.goal.route \in {"portal", "admin", "login"}
      BY <1>0, <1>6 DEF OnCourse, HeadingHome
    <2>2. view.goal.route \in {"portal", "admin", "login"} => Landing(view.goal) = {Home}
      BY DEF Landing
    <2>3. view.at.route = Home \/ (view.at.route = "portal" /\ account.staff)
      BY <1>1, <1>2, <1>3, <1>6 DEF Home, Area
    <2>4. view.at.route = "portal" /\ account.staff => view.blind
      BY <1>0, <1>1 DEF StaffUnseen
    <2>. QED BY <1>2, <2>1, <2>2, <2>3, <2>4
  <1>. QED BY <1>4, <1>5, <1>6

(***************************************************************************)
(* However middleware, UserProvider, AdminShell and login form follow one  *)
(* another, and whenever cookies and sessions end: a visit that comes to   *)
(* rest on a guarded page has its user there, on the page that was asked   *)
(* for or at home, unless a call was lost on the way (middleware.ts,       *)
(* user-context.tsx, admin-shell.tsx, login-form.tsx).                     *)
(***************************************************************************)
THEOREM VisitsComeToTheirPage == NavSpec => []VisitsLandRight
  BY VisitsInitially, VisitInvStays, VisitsLand, PTL DEF NavSpec
-----------------------------------------------------------------------------
(***************************************************************************)
(* The lists.                                                              *)
(***************************************************************************)
ListSpec == ListInit /\ [][ListStep]_list

ListState ==
  [kind : {"url", "local", "portal"}, box : Words, at : Query, timer : BOOLEAN, q : Texts,
   way : Query \cup {None}, shown : Query \cup {None}, fetch : BOOLEAN, meant : Query,
   crossed : BOOLEAN, unheard : BOOLEAN, early : BOOLEAN, busy : BOOLEAN]

\* Texts and queries.  The empty text is told apart from others here, and nowhere below.
LEMMA TextFacts ==
  /\ \A x \in Words : Trim(x) \in Texts
  /\ \A x \in Texts : x \in Words /\ Trim(x) = x
  /\ None \notin Query /\ None.page = 0
  /\ \A t \in Texts, f \in Filters : Query1(t, f) \in Query
  /\ \A t, f : Query1(t, f).text = t /\ Query1(t, f).filter = f /\ Query1(t, f).page = 1
  /\ \A q \in Query : q.text \in Texts /\ q.filter \in Filters /\ q.page \in Pages
  <1>1. \A x \in Words : Trim(x) \in Texts
    BY DEF Words, Texts, Trim
  <1>2. \A x \in Texts : x \in Words /\ Trim(x) = x
    BY DEF Words, Texts, Trim
  <1>3. None.page = 0 /\ 0 \notin Pages
    <2>1. None.page = 0
      BY DEF None
    <2>2. 0 \notin Pages
      BY DEF Pages
    <2>. QED BY <2>1, <2>2
  <1>4. \A t \in Texts, f \in Filters : Query1(t, f) \in Query
    BY DEF Query1, Query, Pages
  <1>5. \A t, f : Query1(t, f).text = t /\ Query1(t, f).filter = f /\ Query1(t, f).page = 1
    BY DEF Query1
  <1>6. \A q \in Query : q.text \in Texts /\ q.filter \in Filters /\ q.page \in Pages
    BY DEF Query
  <1>. QED BY <1>1, <1>2, <1>3, <1>4, <1>5, <1>6

LEMMA ChangedQuery ==
  ASSUME NEW q \in Query
  PROVE  /\ \A t \in Texts : /\ [q EXCEPT !.text = t] \in Query /\ [q EXCEPT !.text = t].text = t
                             /\ [q EXCEPT !.text = t].filter = q.filter /\ [q EXCEPT !.text = t].page = q.page
         /\ \A p \in Pages : /\ [q EXCEPT !.page = p] \in Query /\ [q EXCEPT !.page = p].page = p
                             /\ [q EXCEPT !.page = p].text = q.text /\ [q EXCEPT !.page = p].filter = q.filter
  BY DEF Query

LEMMA AsksShape ==
  ASSUME NEW l \in ListState, NEW q \in Query
  PROVE  LET a == Asks(l, q)
         IN  /\ a \in ListState
             /\ a.kind = l.kind /\ a.box = l.box /\ a.timer = l.timer /\ a.q = l.q /\ a.way = l.way
             /\ a.meant = l.meant /\ a.crossed = l.crossed /\ a.unheard = l.unheard /\ a.busy = l.busy
             /\ a.at = q
             /\ q # l.at => a.fetch /\ a.early = (l.early /\ q.page # 1)
             /\ q = l.at => a = l
  <1>1. CASE q = l.at
    BY <1>1 DEF Asks, ListState
  <1>2. CASE q # l.at
    <2>1. Asks(l, q) = [l EXCEPT !.at = q, !.fetch = TRUE, !.shown = IF l.kind = "portal" THEN None ELSE @,
                                 !.early = @ /\ q.page # 1]
      BY <1>2 DEF Asks
    <2>. QED BY ZenonT(30), <1>2, <2>1 DEF ListState
  <1>. QED BY <1>1, <1>2

LEMMA SetParamsShape ==
  ASSUME NEW l \in ListState, NEW q \in Query
  PROVE  LET a == SetParams(l, q)
         IN  /\ a \in ListState
             /\ a.kind = l.kind /\ a.box = l.box /\ a.timer = l.timer /\ a.q = l.q /\ a.at = l.at
             /\ a.meant = l.meant /\ a.unheard = l.unheard /\ a.busy = l.busy /\ a.fetch = l.fetch
             /\ a.shown = l.shown /\ a.early = l.early
             /\ a.way = q /\ a.crossed = (l.crossed \/ l.way # None)
  BY DEF SetParams, ListState

LEMMA MeaningShape ==
  ASSUME NEW l \in ListState, NEW t \in Texts, NEW f \in Filters
  PROVE  LET a == Meaning(l, t, f)
         IN  /\ a \in ListState
             /\ a.kind = l.kind /\ a.box = l.box /\ a.timer = l.timer /\ a.q = l.q /\ a.at = l.at
             /\ a.crossed = l.crossed /\ a.busy = l.busy /\ a.fetch = l.fetch
             /\ a.shown = l.shown /\ a.early = l.early /\ a.way = l.way
             /\ a.meant.text = t /\ a.meant.filter = f /\ a.unheard = (l.unheard /\ t = l.meant.text)
  <1>1. Query1(t, f) \in Query /\ Query1(t, f).text = t /\ Query1(t, f).filter = f
    BY TextFacts
  <1>. QED BY <1>1 DEF Meaning, ListState

LEMMA ListFacts ==
  ASSUME ListInv
  PROVE  /\ list \in ListState /\ RowsFollow
         /\ list.kind \in {"url", "local", "portal"} /\ list.at \in Query /\ list.meant \in Query
         /\ list.box \in Words /\ Boxed \in Texts /\ list.way \in Query \cup {None}
         /\ list.way # None => list.way \in Query
         /\ list.at.text \in Texts /\ list.at.filter \in Filters
         /\ list.meant.text \in Texts /\ list.meant.filter \in Filters
  <1>1. list \in ListState /\ RowsFollow
    BY DEF ListInv, ListTypeOK, ListState
  <1>2. /\ list.kind \in {"url", "local", "portal"} /\ list.at \in Query /\ list.meant \in Query
        /\ list.box \in Words /\ list.way \in Query \cup {None}
    BY <1>1 DEF ListState
  <1>. QED BY <1>1, <1>2, TextFacts DEF Boxed

LEMMA ListInitially == ListInit => ListInv
  <1> SUFFICES ASSUME NEW kind \in {"url", "local", "portal"}, NEW text \in Texts,
                      list = [kind |-> kind, box |-> text, at |-> Query1(text, All), timer |-> kind # "url", q |-> text,
                              way |-> None, shown |-> None, fetch |-> TRUE, meant |-> Query1(text, All),
                              crossed |-> FALSE, unheard |-> FALSE, early |-> FALSE, busy |-> TRUE]
               PROVE  ListInv
    BY Zenon DEF ListInit
  <1>0. /\ Query1(text, All) \in Query /\ Query1(text, All).page = 1 /\ Query1(text, All).text = text
        /\ text \in Words /\ Trim(text) = text
    BY TextFacts, ListAssumption
  <1>1. ListTypeOK
    BY <1>0 DEF ListTypeOK
  <1>2. InBounds(list.at)
    BY <1>0 DEF InBounds
  <1>3. RowsFollow
    BY DEF RowsFollow
  <1>4. UrlFollows \/ list.kind # "url"
    BY <1>0, <1>2 DEF UrlFollows, MeantIs, Boxed, OnTheWay
  <1>5. LocalFollows \/ list.kind # "local"
    BY <1>0, <1>2 DEF LocalFollows, Boxed, OnTheWay
  <1>6. PortalFollows \/ list.kind # "portal"
    BY <1>0, <1>2 DEF PortalFollows, Boxed, OnTheWay
  <1>. QED BY <1>1, <1>3, <1>4, <1>5, <1>6 DEF ListInv

\* What of a list has to be looked at after a step.
LEMMA UrlKept == ASSUME list' \in ListState, list'.kind = "url", RowsFollow', UrlFollows' PROVE ListInv'
  BY DEF ListInv, ListTypeOK, ListState
LEMMA LocalKept == ASSUME list' \in ListState, list'.kind = "local", RowsFollow', LocalFollows' PROVE ListInv'
  BY DEF ListInv, ListTypeOK, ListState
LEMMA PortalKept == ASSUME list' \in ListState, list'.kind = "portal", RowsFollow', PortalFollows' PROVE ListInv'
  BY DEF ListInv, ListTypeOK, ListState

LEMMA TypeUrlKeeps == ASSUME ListInv, NEW x \in Words, TypeUrl(x) PROVE ListInv'
  <1>0. list \in ListState /\ list.meant \in Query /\ Trim(x) \in Texts /\ list.meant.filter \in Filters
    BY ListFacts, TextFacts
  <1> SUFFICES ASSUME NEW l \in ListState, l = Meaning(list, Trim(x), list.meant.filter)
               PROVE  ListInv'
    BY <1>0, MeaningShape
  <1>1. /\ list.kind = "url" /\ l.kind = "url"
        /\ l.at = list.at /\ l.fetch = list.fetch /\ l.shown = list.shown /\ l.way = list.way
        /\ l.meant.text = Trim(x) /\ l.meant.filter = list.meant.filter /\ l.early = list.early
        /\ l.crossed = list.crossed
    BY <1>0, MeaningShape DEF TypeUrl
  <1>2. list' = [l EXCEPT !.box = x, !.timer = Trim(x) # list.at.text, !.crossed = @ \/ OnTheWay]
    BY DEF TypeUrl
  <1>3. list' \in ListState
    BY ZenonT(30), <1>2 DEF ListState
  <1>4. /\ list'.kind = "url" /\ list'.box = x /\ list'.timer = (Trim(x) # list.at.text)
        /\ list'.crossed = (list.crossed \/ OnTheWay)
        /\ list'.at = list.at /\ list'.fetch = list.fetch /\ list'.shown = list.shown /\ list'.way = list.way
        /\ list'.meant.text = Trim(x) /\ list'.meant.filter = list.meant.filter /\ list'.early = list.early
    BY <1>1, <1>2 DEF ListState
  <1>5. RowsFollow /\ UrlFollows
    BY <1>1 DEF ListInv
  <1>6. RowsFollow'
    BY <1>4, <1>5 DEF RowsFollow
  <1>7. UrlFollows'
    BY <1>4, <1>5 DEF UrlFollows, MeantIs, Boxed, OnTheWay
  <1>. QED BY <1>3, <1>4, <1>6, <1>7, UrlKept

LEMMA FireUrlKeeps == ASSUME ListInv, FireUrl PROVE ListInv'
  <1>0. list \in ListState /\ Boxed \in Texts /\ list.at.filter \in Filters
    BY ListFacts
  <1>1. list.kind = "url" /\ list.timer /\ RowsFollow /\ UrlFollows
    BY DEF FireUrl, ListInv
  <1> SUFFICES ASSUME NEW q \in Query, q.text = Boxed, q.filter = list.at.filter, q.page = 1,
                      list' = SetParams([list EXCEPT !.timer = FALSE], q)
               PROVE  ListInv'
    BY <1>0, TextFacts DEF FireUrl, Boxed
  <1>2. [list EXCEPT !.timer = FALSE] \in ListState
    BY <1>0 DEF ListState
  <1>3. /\ list' \in ListState /\ list'.kind = "url" /\ list'.box = list.box /\ ~list'.timer
        /\ list'.crossed = (list.crossed \/ OnTheWay)
        /\ list'.at = list.at /\ list'.fetch = list.fetch /\ list'.shown = list.shown /\ list'.way = q
        /\ list'.meant = list.meant /\ list'.early = list.early
    BY <1>0, <1>1, <1>2, SetParamsShape DEF ListState, OnTheWay
  <1>4. q # None
    BY TextFacts
  <1>5. RowsFollow'
    BY <1>1, <1>3 DEF RowsFollow
  <1>6. UrlFollows'
    BY <1>1, <1>3, <1>4 DEF UrlFollows, MeantIs, Boxed, OnTheWay, InBounds
  <1>. QED BY <1>3, <1>5, <1>6, UrlKept

LEMMA FilterUrlKeeps == ASSUME ListInv, NEW f \in Filters, FilterUrl(f) PROVE ListInv'
  <1>0. list \in ListState /\ list.meant.text \in Texts /\ list.at.text \in Texts
    BY ListFacts
  <1>1. list.kind = "url" /\ RowsFollow /\ UrlFollows
    BY DEF FilterUrl, ListInv
  <1> SUFFICES ASSUME NEW q \in Query, q.text = list.at.text, q.filter = f, q.page = 1,
                      NEW l \in ListState, l = Meaning(list, list.meant.text, f),
                      list' = SetParams(l, q)
               PROVE  ListInv'
    BY <1>0, TextFacts, MeaningShape DEF FilterUrl
  <1>2. /\ list' \in ListState /\ list'.kind = "url" /\ list'.box = list.box /\ list'.timer = list.timer
        /\ list'.crossed = (list.crossed \/ OnTheWay)
        /\ list'.at = list.at /\ list'.fetch = list.fetch /\ list'.shown = list.shown /\ list'.way = q
        /\ list'.meant.text = list.meant.text /\ list'.meant.filter = f /\ list'.early = list.early
    BY <1>0, <1>1, MeaningShape, SetParamsShape DEF OnTheWay
  <1>3. q # None
    BY TextFacts
  <1>4. RowsFollow'
    BY <1>1, <1>2 DEF RowsFollow
  <1>5. UrlFollows'
    BY <1>1, <1>2, <1>3 DEF UrlFollows, MeantIs, Boxed, OnTheWay, InBounds
  <1>. QED BY <1>2, <1>4, <1>5, UrlKept

LEMMA ClearUrlKeeps == ASSUME ListInv, ClearUrl PROVE ListInv'
  <1>0. list \in ListState /\ list.at.text \in Texts /\ All \in Filters
    BY ListFacts, ListAssumption
  <1>1. list.kind = "url" /\ RowsFollow /\ UrlFollows
    BY DEF ClearUrl, ListInv
  <1>2. PICK empty \in Texts :
          list' = SetParams([Meaning(list, empty, All) EXCEPT !.box = empty, !.timer = list.at.text # empty],
                            Query1(empty, All))
    BY Zenon DEF ClearUrl, Texts
  <1>3. PICK q \in Query : q = Query1(empty, All) /\ q.text = empty /\ q.filter = All /\ q.page = 1 /\ q # None
    BY <1>0, TextFacts
  <1>4. PICK l \in ListState :
          /\ l = Meaning(list, empty, All) /\ l.kind = "url" /\ l.at = list.at /\ l.fetch = list.fetch
          /\ l.shown = list.shown /\ l.way = list.way /\ l.meant.text = empty /\ l.meant.filter = All
          /\ l.early = list.early /\ l.crossed = list.crossed
    BY <1>0, <1>1, MeaningShape
  <1>5. empty \in Words /\ Trim(empty) = empty
    BY TextFacts
  <1>6. PICK t \in BOOLEAN : t = (list.at.text # empty)
    OBVIOUS
  <1> SUFFICES ASSUME NEW m, m = [l EXCEPT !.box = empty, !.timer = t] PROVE ListInv'
    OBVIOUS
  <1>7. /\ m \in ListState /\ m.kind = "url" /\ m.at = l.at /\ m.fetch = l.fetch
        /\ m.shown = l.shown /\ m.way = l.way /\ m.meant = l.meant /\ m.early = l.early /\ m.crossed = l.crossed
        /\ m.box = empty /\ m.timer = t
    BY <1>4, <1>5 DEF ListState
  <1>8. list' = SetParams(m, q)
    BY <1>2, <1>3, <1>4, <1>6
  <1>9. /\ list' \in ListState /\ list'.kind = "url" /\ list'.box = empty /\ list'.timer = t
        /\ list'.crossed = (m.crossed \/ m.way # None)
        /\ list'.at = m.at /\ list'.fetch = m.fetch /\ list'.shown = m.shown /\ list'.way = q
        /\ list'.meant = m.meant /\ list'.early = m.early
    BY ZenonT(30), <1>7, <1>8, SetParamsShape
  <1>10. /\ list'.crossed = (list.crossed \/ list.way # None)
         /\ list'.at = list.at /\ list'.fetch = list.fetch /\ list'.shown = list.shown
         /\ list'.meant.text = empty /\ list'.meant.filter = All /\ list'.early = list.early
    BY <1>4, <1>7, <1>9
  <1>11. RowsFollow'
    BY <1>1, <1>10 DEF RowsFollow
  <1>12. UrlFollows'
    BY <1>3, <1>5, <1>6, <1>9, <1>10 DEF UrlFollows, MeantIs, Boxed, OnTheWay, InBounds
  <1>. QED BY <1>9, <1>11, <1>12, UrlKept

LEMMA HeaderUrlKeeps == ASSUME ListInv, NEW text \in Texts, HeaderUrl(text) PROVE ListInv'
  <1>0. list \in ListState /\ All \in Filters
    BY ListFacts, ListAssumption
  <1>1. list.kind = "url" /\ RowsFollow /\ UrlFollows
    BY DEF HeaderUrl, ListInv
  <1>2. PICK q \in Query : q = Query1(text, All) /\ q.text = text /\ q.filter = All /\ q.page = 1 /\ q # None
    BY <1>0, TextFacts
  <1>3. PICK l \in ListState :
          /\ l = Meaning(list, text, All) /\ l.kind = "url" /\ l.at = list.at /\ l.fetch = list.fetch
          /\ l.shown = list.shown /\ l.way = list.way /\ l.meant.text = text /\ l.meant.filter = All
          /\ l.early = list.early /\ l.crossed = list.crossed /\ l.box = list.box /\ l.timer = list.timer
    BY <1>0, <1>1, MeaningShape
  <1> SUFFICES ASSUME NEW m, m = [l EXCEPT !.crossed = @ \/ list.timer] PROVE ListInv'
    OBVIOUS
  <1>4. /\ m \in ListState /\ m.kind = "url" /\ m.at = l.at /\ m.fetch = l.fetch
        /\ m.shown = l.shown /\ m.way = l.way /\ m.meant = l.meant /\ m.early = l.early
        /\ m.box = l.box /\ m.timer = l.timer /\ m.crossed = (l.crossed \/ list.timer)
    BY <1>3 DEF ListState
  <1>5. list' = SetParams(m, q)
    BY <1>2, <1>3 DEF HeaderUrl
  <1>6. /\ list' \in ListState /\ list'.kind = "url" /\ list'.box = m.box /\ list'.timer = m.timer
        /\ list'.crossed = (m.crossed \/ m.way # None)
        /\ list'.at = m.at /\ list'.fetch = m.fetch /\ list'.shown = m.shown /\ list'.way = q
        /\ list'.meant = m.meant /\ list'.early = m.early
    BY <1>4, <1>5, SetParamsShape
  <1>7. /\ ~list'.crossed => ~list.crossed /\ ~list.timer /\ list.way = None
        /\ list'.at = list.at /\ list'.fetch = list.fetch /\ list'.shown = list.shown /\ list'.box = list.box
        /\ list'.meant.text = text /\ list'.meant.filter = All /\ list'.early = list.early
        /\ list'.timer = list.timer
    BY <1>3, <1>4, <1>6
  <1>8. RowsFollow'
    BY <1>1, <1>7 DEF RowsFollow
  <1>9. UrlFollows'
    BY <1>1, <1>2, <1>6, <1>7 DEF UrlFollows, MeantIs, Boxed, OnTheWay, InBounds
  <1>. QED BY <1>6, <1>8, <1>9, UrlKept

LEMMA LandUrlKeeps == ASSUME ListInv, LandUrl PROVE ListInv'
  <1>0. list \in ListState /\ list.at \in Query /\ list.way \in Query /\ list.way # None /\ Boxed \in Texts
    BY ListFacts DEF LandUrl, OnTheWay
  <1>1. list.kind = "url" /\ RowsFollow /\ UrlFollows
    BY DEF LandUrl, ListInv
  <1>2. PICK q \in Query : q = list.way
    BY <1>0
  <1>3. PICK box \in Words : box = IF q.text # list.at.text THEN q.text ELSE list.box
    BY <1>0, TextFacts DEF ListState
  <1>4. PICK t \in BOOLEAN : t = IF q = list.at THEN list.timer ELSE Trim(box) # q.text
    BY <1>0 DEF ListState
  <1> SUFFICES ASSUME NEW a, a = Asks(list, q) PROVE ListInv'
    OBVIOUS
  <1>5. /\ a \in ListState /\ a.kind = "url" /\ a.meant = list.meant /\ a.crossed = list.crossed /\ a.at = q
        /\ a.timer = list.timer
        /\ q # list.at => a.fetch /\ a.early = (list.early /\ q.page # 1)
        /\ q = list.at => a = list
    BY <1>0, <1>1, AsksShape
  <1>6. list' = [a EXCEPT !.way = None, !.box = box, !.timer = t]
    BY <1>2, <1>3, <1>4, <1>5 DEF LandUrl
  <1>7. /\ list' \in ListState /\ list'.kind = "url" /\ list'.way = None /\ list'.box = box /\ list'.timer = t
        /\ list'.at = a.at /\ list'.fetch = a.fetch /\ list'.shown = a.shown /\ list'.meant = a.meant
        /\ list'.crossed = a.crossed /\ list'.early = a.early
    BY <1>5, <1>6 DEF ListState
  <1>8. Trim(q.text) = q.text
    BY TextFacts
  <1>9. RowsFollow'
    BY <1>1, <1>5, <1>7 DEF RowsFollow
  <1>10. Trim(box) = IF q.text # list.at.text THEN q.text ELSE Boxed
    BY <1>3, <1>8 DEF Boxed
  <1>11. q = list.at \/ t = (Trim(box) # q.text)
    BY <1>4
  <1>12. q = list.at => t = list.timer
    BY <1>4
  <1>13. UrlFollows'
    <2>1. list'.timer => Trim(list'.box) # list'.at.text
      BY <1>0, <1>1, <1>5, <1>7, <1>10, <1>11, <1>12 DEF UrlFollows
    <2>2. ~list.crossed => \/ t /\ list'.meant.text = Trim(box) /\ list'.meant.filter = q.filter
                           \/ ~t /\ Trim(box) = q.text /\ list'.meant.text = q.text /\ list'.meant.filter = q.filter
      <3>1. CASE list.timer
        BY <1>0, <1>1, <1>2, <1>5, <1>7, <1>10, <1>11, <1>12, <3>1 DEF UrlFollows, MeantIs, OnTheWay
      <3>2. CASE ~list.timer
        BY <1>0, <1>1, <1>2, <1>5, <1>7, <1>10, <1>11, <1>12, <3>2 DEF UrlFollows, MeantIs, OnTheWay
      <3>. QED BY <3>1, <3>2
    <2>3. ~list'.early => InBounds(q)
      <3>1. ~list.early => InBounds(q)
        BY <1>0, <1>1, <1>2 DEF UrlFollows, OnTheWay
      <3>. QED BY <1>5, <1>7, <3>1 DEF InBounds
    <2>. QED BY <1>5, <1>7, <2>1, <2>2, <2>3 DEF UrlFollows, MeantIs, Boxed, OnTheWay
  <1>. QED BY <1>7, <1>9, <1>13, UrlKept

LEMMA TypeLocalKeeps == ASSUME ListInv, NEW x \in Words, TypeLocal(x) PROVE ListInv'
  <1>0. list \in ListState /\ list.meant \in Query /\ Trim(x) \in Texts /\ list.meant.filter \in Filters
    BY ListFacts, TextFacts
  <1>1. list.kind = "local" /\ RowsFollow /\ LocalFollows
    BY DEF TypeLocal, ListInv
  <1> SUFFICES ASSUME NEW l, l = Meaning(list, Trim(x), list.meant.filter) PROVE ListInv'
    OBVIOUS
  <1>2. /\ l \in ListState /\ l.kind = "local" /\ l.at = list.at /\ l.fetch = list.fetch
        /\ l.shown = list.shown /\ l.way = list.way /\ l.meant.text = Trim(x)
        /\ l.meant.filter = list.meant.filter /\ l.early = list.early
    BY <1>0, <1>1, MeaningShape
  <1>3. list' = [l EXCEPT !.box = x, !.timer = TRUE]
    BY DEF TypeLocal
  <1>4. /\ list' \in ListState /\ list'.kind = "local" /\ list'.box = x /\ list'.timer = TRUE
        /\ list'.at = l.at /\ list'.fetch = l.fetch /\ list'.shown = l.shown /\ list'.way = l.way
        /\ list'.meant = l.meant /\ list'.early = l.early
    BY <1>2, <1>3 DEF ListState
  <1>5. RowsFollow'
    BY <1>1, <1>2, <1>4 DEF RowsFollow
  <1>6. LocalFollows'
    BY <1>1, <1>2, <1>4 DEF LocalFollows, Boxed, OnTheWay
  <1>. QED BY <1>4, <1>5, <1>6, LocalKept

LEMMA FireLocalKeeps == ASSUME ListInv, FireLocal PROVE ListInv'
  <1>0. list \in ListState /\ Boxed \in Texts /\ list.at.filter \in Filters
    BY ListFacts
  <1>1. list.kind = "local" /\ list.timer /\ RowsFollow /\ LocalFollows
    BY DEF FireLocal, ListInv
  <1>2. PICK q \in Query : q = Query1(Boxed, list.at.filter) /\ q.text = Boxed /\ q.filter = list.at.filter /\ q.page = 1
    BY <1>0, TextFacts
  <1> SUFFICES ASSUME NEW m, m = [list EXCEPT !.timer = FALSE] PROVE ListInv'
    OBVIOUS
  <1>3. /\ m \in ListState /\ m.kind = "local" /\ m.at = list.at /\ m.fetch = list.fetch /\ m.timer = FALSE
        /\ m.shown = list.shown /\ m.way = list.way /\ m.meant = list.meant /\ m.box = list.box
        /\ m.crossed = list.crossed /\ m.unheard = list.unheard
    BY <1>0, <1>1 DEF ListState
  <1>4. list' = Asks(m, q)
    BY <1>2 DEF FireLocal, Boxed
  <1>5. /\ list' \in ListState /\ list'.kind = "local" /\ list'.at = q /\ list'.timer = FALSE
        /\ list'.way = m.way /\ list'.meant = m.meant /\ list'.box = m.box
        /\ list'.crossed = m.crossed /\ list'.unheard = m.unheard
        /\ q # m.at => list'.fetch
        /\ q = m.at => list' = m
    BY <1>3, <1>4, AsksShape
  <1>6. RowsFollow'
    BY <1>1, <1>3, <1>5 DEF RowsFollow
  <1>7. LocalFollows'
    BY ZenonT(30), <1>1, <1>2, <1>3, <1>5 DEF LocalFollows, Boxed, OnTheWay, InBounds
  <1>. QED BY <1>5, <1>6, <1>7, LocalKept

LEMMA FilterLocalKeeps == ASSUME ListInv, NEW f \in Filters, FilterLocal(f) PROVE ListInv'
  <1>0. list \in ListState /\ list.meant.text \in Texts /\ list.at.text \in Texts
    BY ListFacts
  <1>1. /\ list.kind \in {"local", "portal"} /\ RowsFollow
        /\ list.kind = "local" => LocalFollows
        /\ list.kind = "portal" => PortalFollows
    BY DEF FilterLocal, ListInv
  <1>2. PICK q \in Query : q = Query1(list.at.text, f) /\ q.text = list.at.text /\ q.filter = f /\ q.page = 1
    BY <1>0, TextFacts
  <1> SUFFICES ASSUME NEW l, l = Meaning(list, list.meant.text, f) PROVE ListInv'
    OBVIOUS
  <1>3. /\ l \in ListState /\ l.kind = list.kind /\ l.at = list.at /\ l.fetch = list.fetch /\ l.timer = list.timer
        /\ l.shown = list.shown /\ l.way = list.way /\ l.box = list.box /\ l.crossed = list.crossed
        /\ l.meant.text = list.meant.text /\ l.meant.filter = f /\ l.unheard = list.unheard
    BY <1>0, MeaningShape DEF ListState
  <1>4. list' = Asks(l, q)
    BY <1>2 DEF FilterLocal
  <1>5. /\ list' \in ListState /\ list'.kind = l.kind /\ list'.at = q /\ list'.timer = l.timer
        /\ list'.way = l.way /\ list'.meant = l.meant /\ list'.box = l.box
        /\ list'.crossed = l.crossed /\ list'.unheard = l.unheard
        /\ q # l.at => list'.fetch
        /\ q = l.at => list' = l
    BY <1>3, <1>4, AsksShape
  <1>6. RowsFollow'
    BY <1>1, <1>3, <1>5 DEF RowsFollow
  <1>7. CASE list.kind = "local"
    <2>1. LocalFollows'
      BY ZenonT(30), <1>1, <1>2, <1>3, <1>5, <1>7 DEF LocalFollows, Boxed, OnTheWay, InBounds
    <2>. QED BY <1>3, <1>5, <1>6, <1>7, <2>1, LocalKept
  <1>8. CASE list.kind = "portal"
    <2>1. PortalFollows'
      BY ZenonT(30), <1>1, <1>2, <1>3, <1>5, <1>8 DEF PortalFollows, Boxed, OnTheWay, InBounds
    <2>. QED BY <1>3, <1>5, <1>6, <1>8, <2>1, PortalKept
  <1>. QED BY <1>1, <1>7, <1>8

LEMMA TypePortalKeeps == ASSUME ListInv, NEW x \in Words, TypePortal(x) PROVE ListInv'
  <1>0. /\ list \in ListState /\ list.meant \in Query /\ Trim(x) \in Texts /\ list.meant.filter \in Filters
        /\ list.at \in Query
    BY ListFacts, TextFacts
  <1>1. list.kind = "portal" /\ RowsFollow /\ PortalFollows
    BY DEF TypePortal, ListInv
  <1> SUFFICES ASSUME NEW q, q = [list.at EXCEPT !.page = 1],
                      NEW l, l = Meaning(list, Trim(x), list.meant.filter), NEW a, a = Asks(l, q)
               PROVE  ListInv'
    OBVIOUS
  <1>2. q \in Query /\ q.text = list.at.text /\ q.filter = list.at.filter /\ q.page = 1
    <2>1. 1 \in Pages
      BY DEF Pages
    <2>. QED BY <1>0, <2>1, ChangedQuery
  <1>3. /\ l \in ListState /\ l.kind = "portal" /\ l.at = list.at /\ l.fetch = list.fetch
        /\ l.shown = list.shown /\ l.way = list.way /\ l.meant.text = Trim(x)
        /\ l.meant.filter = list.meant.filter /\ l.crossed = list.crossed
    BY <1>0, <1>1, MeaningShape
  <1>4. /\ a \in ListState /\ a.kind = "portal" /\ a.at = q /\ a.way = l.way /\ a.meant = l.meant
        /\ a.crossed = l.crossed
        /\ q # l.at => a.fetch
        /\ q = l.at => a = l
    BY <1>2, <1>3, AsksShape
  <1>5. list' = [a EXCEPT !.box = x, !.timer = TRUE, !.crossed = @ \/ OnTheWay]
    BY DEF TypePortal
  <1>6. /\ list' \in ListState /\ list'.kind = "portal" /\ list'.box = x /\ list'.timer = TRUE
        /\ list'.at = a.at /\ list'.fetch = a.fetch /\ list'.shown = a.shown /\ list'.way = a.way
        /\ list'.meant = a.meant /\ list'.crossed = (a.crossed \/ OnTheWay)
    BY ZenonT(30), <1>4, <1>5 DEF ListState
  <1>7. RowsFollow'
    BY <1>1, <1>3, <1>4, <1>6 DEF RowsFollow
  <1>8. /\ list'.at = q /\ list'.way = list.way /\ list'.meant.text = Trim(x)
        /\ list'.meant.filter = list.meant.filter /\ list'.crossed = (list.crossed \/ OnTheWay)
    BY <1>3, <1>4, <1>6
  <1>9. list.meant.filter = list.at.filter
    BY <1>1 DEF PortalFollows
  <1>10. PortalFollows'
    BY <1>2, <1>6, <1>8, <1>9 DEF PortalFollows, Boxed, OnTheWay
  <1>. QED BY <1>6, <1>7, <1>10, PortalKept

LEMMA FirePortalKeeps == ASSUME ListInv, FirePortal PROVE ListInv'
  <1>0. list \in ListState /\ Boxed \in Texts /\ list.at \in Query
    BY ListFacts
  <1>1. list.kind = "portal" /\ list.timer /\ RowsFollow /\ PortalFollows
    BY DEF FirePortal, ListInv
  <1> SUFFICES ASSUME NEW q, q = [list.at EXCEPT !.text = Boxed], NEW m, m = [list EXCEPT !.timer = FALSE]
               PROVE  ListInv'
    OBVIOUS
  <1>2. q \in Query /\ q.text = Boxed /\ q.filter = list.at.filter /\ q.page = list.at.page
    BY <1>0, ChangedQuery
  <1>3. /\ m \in ListState /\ m.kind = "portal" /\ m.at = list.at /\ m.fetch = list.fetch /\ m.timer = FALSE
        /\ m.shown = list.shown /\ m.way = list.way /\ m.meant = list.meant /\ m.box = list.box
        /\ m.crossed = list.crossed /\ m.unheard = list.unheard /\ m.early = list.early
    BY <1>0, <1>1 DEF ListState
  <1>4. list' = Asks(m, q)
    BY DEF FirePortal, Boxed
  <1>5. /\ list' \in ListState /\ list'.kind = "portal" /\ list'.at = q /\ list'.timer = FALSE
        /\ list'.way = m.way /\ list'.meant = m.meant /\ list'.box = m.box
        /\ list'.crossed = m.crossed /\ list'.unheard = m.unheard
        /\ q # m.at => list'.fetch /\ list'.early = (m.early /\ q.page # 1)
        /\ q = m.at => list' = m
    BY ZenonT(30), <1>2, <1>3, <1>4, AsksShape
  <1>6. RowsFollow'
    BY <1>1, <1>3, <1>5 DEF RowsFollow
  <1>7. Boxed' = Boxed
    BY <1>3, <1>5 DEF Boxed
  <1>8. list'.way = list.way /\ list'.meant = list.meant /\ list'.crossed = list.crossed /\ list'.unheard = list.unheard
    BY <1>3, <1>5
  <1>9. ~list'.early => q.page = 1
    <2>1. ~list.early => q.page = 1
      BY <1>1, <1>2 DEF PortalFollows
    <2>. QED BY <1>3, <1>5, <2>1
  <1>10. PortalFollows'
    BY <1>1, <1>2, <1>5, <1>7, <1>8, <1>9 DEF PortalFollows, OnTheWay, InBounds
  <1>. QED BY <1>5, <1>6, <1>10, PortalKept

LEMMA HeaderPortalKeeps == ASSUME ListInv, NEW text \in Texts, HeaderPortal(text) PROVE ListInv'
  <1>0. list \in ListState /\ list.at \in Query /\ list.meant.filter \in Filters
    BY ListFacts
  <1>1. list.kind = "portal" /\ RowsFollow /\ PortalFollows
    BY DEF HeaderPortal, ListInv
  <1> SUFFICES ASSUME NEW q, q = [list.at EXCEPT !.text = text],
                      NEW l, l = Meaning(list, text, list.meant.filter)
               PROVE  ListInv'
    OBVIOUS
  <1>2. q \in Query /\ q.text = text /\ q # None
    BY <1>0, ChangedQuery, TextFacts
  <1>3. /\ l \in ListState /\ l.kind = "portal" /\ l.at = list.at /\ l.fetch = list.fetch
        /\ l.shown = list.shown /\ l.way = list.way /\ l.meant.text = text /\ l.early = list.early
        /\ l.meant.filter = list.meant.filter /\ l.crossed = list.crossed /\ l.box = list.box /\ l.timer = list.timer
    BY <1>0, <1>1, MeaningShape
  <1>4. list' = SetParams(l, q)
    BY DEF HeaderPortal
  <1>5. /\ list' \in ListState /\ list'.kind = l.kind /\ list'.box = l.box /\ list'.timer = l.timer
        /\ list'.at = l.at /\ list'.fetch = l.fetch /\ list'.shown = l.shown /\ list'.way = q
        /\ list'.meant = l.meant /\ list'.early = l.early
    BY <1>2, <1>3, <1>4, SetParamsShape
  <1>6. /\ list'.kind = "portal" /\ list'.box = list.box /\ list'.timer = list.timer /\ list'.at = list.at
        /\ list'.fetch = list.fetch /\ list'.shown = list.shown /\ list'.meant.text = text
        /\ list'.meant.filter = list.meant.filter /\ list'.early = list.early
    BY <1>3, <1>5
  <1>7. RowsFollow'
    BY <1>1, <1>6 DEF RowsFollow
  <1>8. PortalFollows'
    BY <1>1, <1>2, <1>5, <1>6 DEF PortalFollows, Boxed, OnTheWay
  <1>. QED BY <1>5, <1>6, <1>7, <1>8, PortalKept

LEMMA LandPortalKeeps == ASSUME ListInv, LandPortal PROVE ListInv'
  <1> SUFFICES ASSUME NEW text, text = list.way.text, NEW q, q = [list.at EXCEPT !.text = text],
                      NEW a, a = Asks(list, q)
               PROVE  ListInv'
    OBVIOUS
  <1>0. /\ list \in ListState /\ list.at \in Query /\ list.way \in Query /\ list.way # None
        /\ text \in Texts /\ text \in Words /\ Trim(text) = text
    BY ListFacts, TextFacts DEF LandPortal, OnTheWay
  <1>1. list.kind = "portal" /\ RowsFollow /\ PortalFollows
    BY DEF LandPortal, ListInv
  <1>2. CASE text = list.q
    <2>1. list' = [list EXCEPT !.way = None, !.unheard = TRUE]
      BY <1>2 DEF LandPortal
    <2>2. /\ list' \in ListState /\ list'.kind = "portal" /\ list'.way = None /\ list'.unheard = TRUE
          /\ list'.box = list.box /\ list'.timer = list.timer /\ list'.at = list.at /\ list'.fetch = list.fetch
          /\ list'.shown = list.shown /\ list'.meant = list.meant /\ list'.early = list.early
      BY <1>0, <1>1, <2>1 DEF ListState
    <2>3. RowsFollow'
      BY <1>1, <2>2 DEF RowsFollow
    <2>4. PortalFollows'
      BY <1>1, <2>2 DEF PortalFollows, Boxed, OnTheWay
    <2>. QED BY <2>2, <2>3, <2>4, PortalKept
  <1>3. CASE text # list.q
    <2>1. /\ q \in Query /\ q.text = text /\ q.filter = list.at.filter /\ q.page = list.at.page
      BY <1>0, ChangedQuery
    <2>2. /\ a \in ListState /\ a.kind = "portal" /\ a.at = q /\ a.meant = list.meant /\ a.timer = list.timer
          /\ a.crossed = list.crossed /\ a.unheard = list.unheard
          /\ q # list.at => a.fetch
          /\ q = list.at => a = list
      BY <1>0, <1>1, <2>1, AsksShape
    <2>3. PICK t \in BOOLEAN : t = IF text = list.box THEN list.timer ELSE TRUE
      BY <1>0 DEF ListState
    <2>4. PICK e \in BOOLEAN : e = (list.at.page # 1)
      OBVIOUS
    <2>5. list' = [a EXCEPT !.way = None, !.q = text, !.box = text, !.timer = t, !.early = e]
      BY <1>3, <2>2, <2>3, <2>4 DEF LandPortal
    <2>6. /\ list' \in ListState /\ list'.kind = "portal" /\ list'.way = None /\ list'.box = text /\ list'.timer = t
          /\ list'.at = a.at /\ list'.fetch = a.fetch /\ list'.shown = a.shown /\ list'.meant = a.meant
          /\ list'.crossed = a.crossed /\ list'.unheard = a.unheard /\ list'.early = e
      <3>1. a \in ListState /\ a.kind = "portal" /\ text \in Texts /\ text \in Words
        BY <1>0, <2>2
      <3>2. PICK m : m = [a EXCEPT !.way = None, !.q = text, !.box = text]
        OBVIOUS
      <3>3. m \in ListState
        BY ZenonT(30), <3>1, <3>2 DEF ListState
      <3>4. /\ m.kind = "portal" /\ m.way = None /\ m.box = text
            /\ m.at = a.at /\ m.fetch = a.fetch /\ m.shown = a.shown /\ m.meant = a.meant
            /\ m.crossed = a.crossed /\ m.unheard = a.unheard
        BY <3>1, <3>2 DEF ListState
      <3>5. list' = [m EXCEPT !.timer = t, !.early = e]
        BY <2>5, <3>2
      <3>6. list' \in ListState
        BY <3>3, <3>5 DEF ListState
      <3>7. /\ list'.kind = m.kind /\ list'.way = m.way /\ list'.box = m.box /\ list'.timer = t
            /\ list'.at = m.at /\ list'.fetch = m.fetch /\ list'.shown = m.shown /\ list'.meant = m.meant
            /\ list'.crossed = m.crossed /\ list'.unheard = m.unheard /\ list'.early = e
        BY <3>3, <3>5 DEF ListState
      <3>. QED BY <3>4, <3>6, <3>7
    <2>7. RowsFollow'
      BY <1>1, <2>2, <2>6 DEF RowsFollow
    <2>8. ~list.crossed /\ ~list.unheard => list.meant.text = text
      BY <1>0, <1>1 DEF PortalFollows, OnTheWay
    <2>9. list.meant.filter = list.at.filter
      BY <1>1 DEF PortalFollows
    <2>10. ~list'.early => list'.at.page = 1 /\ InBounds(list'.at)
      BY <2>1, <2>2, <2>4, <2>6 DEF InBounds
    <2>11. /\ Boxed' = list'.at.text /\ list'.meant = list.meant /\ list'.meant.filter = list'.at.filter
           /\ ~list'.crossed /\ ~list'.unheard => list'.meant.text = list'.at.text
      BY <1>0, <2>1, <2>2, <2>6, <2>8, <2>9 DEF Boxed
    <2>12. PortalFollows'
      BY <2>6, <2>10, <2>11 DEF PortalFollows, OnTheWay
    <2>. QED BY <2>6, <2>7, <2>12, PortalKept
  <1>. QED BY <1>2, <1>3

LEMMA ChoosePageKeeps == ASSUME ListInv, NEW p \in Pages, ChoosePage(p) PROVE ListInv'
  <1> SUFFICES ASSUME NEW q, q = [list.at EXCEPT !.page = p], NEW s, s = list.shown,
                      NEW e \in BOOLEAN,
                      e = (p # 1 /\ (s.text # list.at.text \/ s.filter # list.at.filter \/ list.timer))
               PROVE  ListInv'
    OBVIOUS
  <1>0. list \in ListState /\ list.at \in Query /\ RowsFollow
    BY ListFacts
  <1>1. q \in Query /\ q.text = list.at.text /\ q.filter = list.at.filter /\ q.page = p /\ q # None
    BY <1>0, ChangedQuery, TextFacts
  <1>2. ~e => p = 1 \/ (~list.timer /\ InBounds(q))
    <2>1. p <= PagesOf[s.text, s.filter]
      BY DEF ChoosePage
    <2>. QED BY <1>1, <2>1 DEF InBounds
  <1>3. p = 1 => InBounds(q)
    BY <1>1 DEF InBounds
  <1>4. CASE list.kind = "url"
    <2> SUFFICES ASSUME NEW l, l = SetParams(list, q) PROVE ListInv'
      OBVIOUS
    <2>1. UrlFollows
      BY <1>4 DEF ListInv
    <2>2. /\ l \in ListState /\ l.kind = "url" /\ l.box = list.box /\ l.timer = list.timer /\ l.at = list.at
          /\ l.meant = list.meant /\ l.fetch = list.fetch /\ l.shown = list.shown /\ l.way = q
          /\ l.crossed = (list.crossed \/ list.way # None)
      BY <1>0, <1>1, <1>4, SetParamsShape
    <2>3. list' = [l EXCEPT !.early = e]
      BY <1>4 DEF ChoosePage
    <2>4. /\ list' \in ListState /\ list'.kind = l.kind /\ list'.box = l.box /\ list'.timer = l.timer
          /\ list'.at = l.at /\ list'.meant = l.meant /\ list'.fetch = l.fetch /\ list'.shown = l.shown
          /\ list'.way = l.way /\ list'.crossed = l.crossed /\ list'.early = e
      BY ZenonT(30), <2>2, <2>3 DEF ListState
    <2>5. /\ list'.box = list.box /\ list'.timer = list.timer /\ list'.at = list.at /\ list'.meant = list.meant
          /\ list'.fetch = list.fetch /\ list'.shown = list.shown /\ list'.way = q
          /\ list'.crossed = (list.crossed \/ list.way # None)
      BY <2>2, <2>4
    <2>6. RowsFollow'
      BY <1>0, <2>5 DEF RowsFollow
    <2>7. UrlFollows'
      BY ZenonT(30), <1>1, <1>2, <1>3, <2>1, <2>4, <2>5 DEF UrlFollows, MeantIs, Boxed, OnTheWay
    <2>. QED BY <2>2, <2>4, <2>6, <2>7, UrlKept
  <1>5. CASE list.kind # "url"
    <2> SUFFICES ASSUME NEW l, l = Asks(list, q) PROVE ListInv'
      OBVIOUS
    <2>1. /\ list.kind \in {"local", "portal"}
          /\ list.kind = "local" => LocalFollows
          /\ list.kind = "portal" => PortalFollows
      BY <1>5, ListFacts DEF ListInv
    <2>2. /\ l \in ListState /\ l.kind = list.kind /\ l.box = list.box /\ l.timer = list.timer /\ l.at = q
          /\ l.meant = list.meant /\ l.way = list.way /\ l.crossed = list.crossed /\ l.unheard = list.unheard
          /\ q # list.at => l.fetch
          /\ q = list.at => l = list
      BY ZenonT(30), <1>0, <1>1, AsksShape
    <2>3. list' = [l EXCEPT !.early = e]
      BY <1>5 DEF ChoosePage
    <2>4. /\ list' \in ListState /\ list'.kind = l.kind /\ list'.box = l.box /\ list'.timer = l.timer
          /\ list'.at = l.at /\ list'.meant = l.meant /\ list'.fetch = l.fetch /\ list'.shown = l.shown
          /\ list'.way = l.way /\ list'.crossed = l.crossed /\ list'.unheard = l.unheard /\ list'.early = e
      BY ZenonT(30), <2>2, <2>3 DEF ListState
    <2>5. /\ list'.kind = list.kind /\ list'.box = list.box /\ list'.timer = list.timer /\ list'.at = q
          /\ list'.meant = list.meant /\ list'.way = list.way /\ list'.crossed = list.crossed
          /\ list'.unheard = list.unheard
      BY <2>2, <2>4
    <2>6. RowsFollow'
      BY <1>0, <2>2, <2>4 DEF RowsFollow
    <2>7. CASE list.kind = "local"
      <3>1. LocalFollows'
        BY <1>1, <1>2, <1>3, <2>1, <2>4, <2>5, <2>7 DEF LocalFollows, Boxed, OnTheWay
      <3>. QED BY <2>4, <2>5, <2>6, <2>7, <3>1, LocalKept
    <2>8. CASE list.kind = "portal"
      <3>1. PortalFollows'
        BY <1>1, <1>2, <1>3, <2>1, <2>4, <2>5, <2>8 DEF PortalFollows, Boxed, OnTheWay
      <3>. QED BY <2>4, <2>5, <2>6, <2>8, <3>1, PortalKept
    <2>. QED BY <2>1, <2>7, <2>8
  <1>. QED BY <1>4, <1>5

LEMMA RowsKeep == ASSUME ListInv, ShowRows \/ RowsFail \/ Retry \/ Pauses PROVE ListInv'
  <1>0. list \in ListState /\ RowsFollow
    BY ListFacts
  <1>1. /\ list' \in ListState /\ list'.kind = list.kind /\ list'.box = list.box /\ list'.at = list.at
        /\ list'.timer = list.timer /\ list'.way = list.way /\ list'.meant = list.meant
        /\ list'.crossed = list.crossed /\ list'.unheard = list.unheard /\ list'.early = list.early
        /\ RowsFollow'
    <2>1. CASE ShowRows
      BY <1>0, <2>1 DEF ShowRows, ListState, RowsFollow
    <2>2. CASE RowsFail
      BY <1>0, <2>2 DEF RowsFail, ListState, RowsFollow
    <2>3. CASE Retry
      BY <1>0, <2>3 DEF Retry, ListState, RowsFollow
    <2>4. CASE Pauses
      BY <1>0, <2>4 DEF Pauses, ListState, RowsFollow
    <2>. QED BY <2>1, <2>2, <2>3, <2>4
  <1>2. UrlFollows => UrlFollows'
    BY <1>1 DEF UrlFollows, MeantIs, Boxed, OnTheWay
  <1>3. LocalFollows => LocalFollows'
    BY <1>1 DEF LocalFollows, Boxed, OnTheWay
  <1>4. PortalFollows => PortalFollows'
    BY <1>1 DEF PortalFollows, Boxed, OnTheWay
  <1>. QED BY <1>1, <1>2, <1>3, <1>4, UrlKept, LocalKept, PortalKept, ListFacts DEF ListInv

LEMMA ComesBackKeeps == ASSUME ListInv, ComesBack PROVE ListInv'
  <1>0. /\ list \in ListState /\ RowsFollow /\ list.kind \in {"url", "local", "portal"}
        /\ list.at.text \in Texts /\ list.at.filter \in Filters
    BY ListFacts
  <1>1. PICK fresh \in BOOLEAN : fresh = (list.at.text = Boxed)
    OBVIOUS
  <1>2. PICK q \in Query : q = Query1(list.at.text, list.at.filter) /\ q.text = list.at.text /\ q.filter = list.at.filter
    BY <1>0, TextFacts
  <1>3. /\ ~list.timer /\ ~OnTheWay
        /\ list' = [list EXCEPT !.busy = TRUE, !.crossed = @ /\ ~fresh, !.unheard = @ /\ ~fresh,
                                !.meant = IF fresh THEN q ELSE @]
    BY <1>1, <1>2 DEF ComesBack, Settled, Boxed
  <1>4. /\ list' \in ListState /\ list'.kind = list.kind /\ list'.box = list.box /\ list'.at = list.at
        /\ list'.timer = list.timer /\ list'.way = list.way /\ list'.fetch = list.fetch
        /\ list'.shown = list.shown /\ list'.early = list.early
        /\ list'.meant = IF fresh THEN q ELSE list.meant
        /\ list'.crossed = (list.crossed /\ ~fresh) /\ list'.unheard = (list.unheard /\ ~fresh)
    BY ZenonT(30), <1>0, <1>3 DEF ListState
  <1>5. Boxed' = Boxed /\ OnTheWay' = OnTheWay
    BY <1>4 DEF Boxed, OnTheWay
  <1>6. RowsFollow'
    BY <1>0, <1>4 DEF RowsFollow
  <1>7. CASE fresh
    <2>1. /\ list'.meant.text = list.at.text /\ list'.meant.filter = list.at.filter /\ Boxed = list.at.text
      BY <1>1, <1>2, <1>4, <1>7
    <2>2. UrlFollows => UrlFollows'
      BY <1>3, <1>4, <1>5, <2>1 DEF UrlFollows, MeantIs
    <2>3. LocalFollows => LocalFollows'
      BY <1>3, <1>4, <1>5, <2>1 DEF LocalFollows
    <2>4. PortalFollows => PortalFollows'
      BY <1>3, <1>4, <1>5, <2>1 DEF PortalFollows
    <2>. QED BY <1>0, <1>4, <1>6, <2>2, <2>3, <2>4, UrlKept, LocalKept, PortalKept DEF ListInv
  <1>8. CASE ~fresh
    <2>1. list'.meant = list.meant /\ (list'.crossed <=> list.crossed) /\ (list'.unheard <=> list.unheard)
      BY <1>4, <1>8
    <2>2. UrlFollows => UrlFollows'
      BY <1>3, <1>4, <1>5, <2>1 DEF UrlFollows, MeantIs
    <2>3. LocalFollows => LocalFollows'
      BY <1>3, <1>4, <1>5, <2>1 DEF LocalFollows
    <2>4. PortalFollows => PortalFollows'
      BY <1>3, <1>4, <1>5, <2>1 DEF PortalFollows
    <2>. QED BY <1>0, <1>4, <1>6, <2>2, <2>3, <2>4, UrlKept, LocalKept, PortalKept DEF ListInv
  <1>. QED BY <1>7, <1>8

LEMMA ListInvStays == ASSUME ListInv, [ListStep]_list PROVE ListInv'
  <1>1. ASSUME NEW x \in Words, TypeUrl(x) \/ TypeLocal(x) \/ TypePortal(x) PROVE ListInv'
    BY <1>1, TypeUrlKeeps, TypeLocalKeeps, TypePortalKeeps
  <1>2. ASSUME NEW f \in Filters, FilterUrl(f) \/ FilterLocal(f) PROVE ListInv'
    BY <1>2, FilterUrlKeeps, FilterLocalKeeps
  <1>3. ASSUME NEW text \in Texts, HeaderUrl(text) \/ HeaderPortal(text) PROVE ListInv'
    BY <1>3, HeaderUrlKeeps, HeaderPortalKeeps
  <1>4. ASSUME NEW p \in Pages, ChoosePage(p) PROVE ListInv'
    BY <1>4, ChoosePageKeeps
  <1>5. CASE ClearUrl \/ Fire \/ Land
    BY <1>5, ClearUrlKeeps, FireUrlKeeps, FireLocalKeeps, FirePortalKeeps, LandUrlKeeps, LandPortalKeeps DEF Fire, Land
  <1>6. CASE Retry \/ Pauses \/ ComesBack \/ ShowRows \/ RowsFail
    BY <1>6, RowsKeep, ComesBackKeeps
  <1>7. CASE list' = list
    BY <1>7 DEF ListInv, ListTypeOK, RowsFollow, UrlFollows, LocalFollows, PortalFollows, MeantIs, Boxed, OnTheWay
  <1>. QED BY <1>1, <1>2, <1>3, <1>4, <1>5, <1>6, <1>7 DEF ListStep

LEMMA ListsShow == ListInv => ListsShowWhatIsAsked
  <1> SUFFICES ASSUME ListInv, ~list.timer, ~OnTheWay, ~list.fetch
               PROVE  /\ list.shown \in {list.at, None}
                      /\ list.crossed \/ list.at.text = Boxed
                      /\ \/ list.unheard \/ list.crossed
                         \/ list.at.text = list.meant.text /\ list.at.filter = list.meant.filter
                      /\ list.early \/ InBounds(list.at)
    BY DEF ListsShowWhatIsAsked, Settled, Boxed, InBounds
  <1>1. list.shown \in {list.at, None}
    BY ListFacts DEF RowsFollow
  <1>2. CASE list.kind = "url"
    BY <1>1, <1>2 DEF ListInv, UrlFollows, MeantIs
  <1>3. CASE list.kind = "local"
    BY <1>1, <1>3 DEF ListInv, LocalFollows
  <1>4. CASE list.kind = "portal"
    BY <1>1, <1>4 DEF ListInv, PortalFollows
  <1>. QED BY <1>2, <1>3, <1>4, ListFacts

(***************************************************************************)
(* However keys, timers, filters, page numbers and the search of the       *)
(* header overtake one another: when nothing is under way any more, a list *)
(* shows the rows of its query, box and query agree, both say what was     *)
(* asked for last, and the page exists, but for what crossed (the lists of *)
(* cases, posts, clients and lawyers, and of cases in the portal).         *)
(***************************************************************************)
THEOREM ListsSettleOnWhatIsAsked == ListSpec => []ListsShowWhatIsAsked
  BY ListInitially, ListInvStays, ListsShow, PTL DEF ListSpec
-----------------------------------------------------------------------------
(***************************************************************************)
(* What the query client keeps.                                            *)
(***************************************************************************)
KeptSpec == KeptInit /\ [][KeptStep]_kept

\* No version is newer than that of the server, which others and the press have made.
VersionsMade ==
  /\ kept.at >= 1 /\ kept.at <= 1 + kept.others + (IF kept.met = Unloaded THEN 0 ELSE 1)
  /\ kept.copy <= kept.at /\ kept.got <= kept.at /\ kept.saw <= kept.at /\ kept.met <= kept.at
  /\ kept.press \in {"no", "asked"} => kept.met = Unloaded

\* What the press changed is on the screen, or on its way, or asked for at the next look.
PressSeen ==
  kept.press = "done" /\ kept.class.changed /\ ~kept.raced
    /\ (kept.class.renewed \/ kept.class.marked \/ kept.class.put) =>
    /\ kept.fetch = "read" => kept.got >= kept.met
    /\ \/ kept.copy >= kept.met
       \/ kept.fetch # "idle"
       \/ kept.invalid /\ (kept.class.marked \/ ~kept.seen)

\* What was shown has changed, or the press was offered on a row it is not taken for.
RefusalKnown ==
  kept.press = "refused" => kept.saw < kept.met \/ (kept.class.rows /\ ~kept.class.sound)

KeptInv == KeptTypeOK /\ VersionsMade /\ PressSeen /\ RefusalKnown

KeptState ==
  [class : Classes, at : Nat, others : 0..MaxElsewhere,
   copy : Nat, seen : BOOLEAN, invalid : BOOLEAN,
   fetch : {"idle", "asked", "read", "failed"}, got : Nat, raced : BOOLEAN,
   press : {"no", "asked", "written", "done", "refused", "lost"},
   saw : Nat, met : Nat]

\* The versions are bounded by what was made.
LEMMA KeptTyped == ASSUME kept \in KeptState, VersionsMade PROVE KeptTypeOK
  <1>1. kept.others \in 0..MaxElsewhere /\ kept.at \in Nat /\ kept.copy \in Nat /\ kept.got \in Nat
        /\ kept.saw \in Nat /\ kept.met \in Nat
    BY DEF KeptState
  <1>2. /\ kept.at \in Versions /\ kept.copy \in Versions /\ kept.got \in Versions
        /\ kept.saw \in Versions /\ kept.met \in Versions
    BY <1>1, MaxElsewhereAssumption DEF VersionsMade, Versions, Unloaded
  <1>. QED BY <1>2 DEF KeptState, KeptTypeOK

LEMMA KeptFacts ==
  ASSUME KeptInv
  PROVE  /\ kept \in KeptState /\ VersionsMade /\ PressSeen /\ RefusalKnown
         /\ kept.at \in Nat /\ kept.others \in Nat /\ kept.copy \in Nat /\ kept.got \in Nat
         /\ kept.saw \in Nat /\ kept.met \in Nat /\ kept.class \in Classes
  <1>1. Versions \subseteq Nat
    BY MaxElsewhereAssumption DEF Versions
  <1>2. kept \in KeptState
    BY <1>1 DEF KeptInv, KeptTypeOK, KeptState
  <1>. QED BY <1>2 DEF KeptInv, KeptState

LEMMA KeptInitially == KeptInit => KeptInv
  <1> SUFFICES ASSUME NEW class \in Classes,
                      kept = [class |-> class, at |-> 1, others |-> 0, copy |-> Unloaded, seen |-> FALSE,
                              invalid |-> FALSE, fetch |-> "idle", got |-> Unloaded, raced |-> FALSE,
                              press |-> "no", saw |-> Unloaded, met |-> Unloaded]
               PROVE  KeptInv
    BY Zenon DEF KeptInit
  <1>1. kept \in KeptState
    BY MaxElsewhereAssumption DEF KeptState, Unloaded
  <1>2. VersionsMade
    BY DEF VersionsMade, Unloaded
  <1>3. PressSeen /\ RefusalKnown
    BY DEF PressSeen, RefusalKnown
  <1>. QED BY <1>1, <1>2, <1>3, KeptTyped DEF KeptInv

\* What has to be looked at after a step.
LEMMA KeptKept ==
  ASSUME kept' \in KeptState, VersionsMade', PressSeen', RefusalKnown' PROVE KeptInv'
  <1>1. KeptTypeOK'
    <2>1. kept'.others \in 0..MaxElsewhere /\ kept'.at \in Nat /\ kept'.copy \in Nat /\ kept'.got \in Nat
          /\ kept'.saw \in Nat /\ kept'.met \in Nat
      BY DEF KeptState
    <2>2. /\ kept'.at \in Versions /\ kept'.copy \in Versions /\ kept'.got \in Versions
          /\ kept'.saw \in Versions /\ kept'.met \in Versions
      BY <2>1, MaxElsewhereAssumption DEF VersionsMade, Versions, Unloaded
    <2>. QED BY <2>2 DEF KeptState, KeptTypeOK
  <1>. QED BY <1>1 DEF KeptInv

\* The press is as it was, and the versions of its own.
LEMMA LooksKeep ==
  ASSUME KeptInv, Elsewhere \/ Look \/ LookAway \/ LookAgain \/ ServerReads \/ Arrive \/ FetchFails
  PROVE  KeptInv'
  <1>0. /\ kept \in KeptState /\ VersionsMade /\ PressSeen /\ RefusalKnown
        /\ kept.at \in Nat /\ kept.others \in Nat /\ kept.copy \in Nat /\ kept.got \in Nat
        /\ kept.saw \in Nat /\ kept.met \in Nat /\ kept.class \in Classes
    BY KeptFacts
  <1> USE MaxElsewhereAssumption DEF Unloaded
  <1>1. CASE Elsewhere
    <2>0. kept.others + 1 \in 0..MaxElsewhere /\ kept.at + 1 \in Nat
      <3>1. kept.others < MaxElsewhere
        BY <1>1 DEF Elsewhere
      <3>. QED BY <1>0, <3>1
    <2>1. kept' \in KeptState
      <3>1. kept' = [kept EXCEPT !.others = kept.others + 1, !.at = kept.at + 1]
        BY <1>1 DEF Elsewhere
      <3>. QED BY <1>0, <2>0, <3>1 DEF KeptState
    <2>2. /\ kept'.class = kept.class /\ kept'.press = kept.press /\ kept'.saw = kept.saw /\ kept'.met = kept.met
          /\ kept'.at = kept.at + 1 /\ kept'.others = kept.others + 1 /\ kept'.copy = kept.copy
          /\ kept'.got = kept.got /\ kept'.raced = kept.raced /\ kept'.fetch = kept.fetch
          /\ kept'.invalid = kept.invalid /\ kept'.seen = kept.seen
      BY <1>0, <1>1 DEF Elsewhere, KeptState
    <2>. QED BY <1>0, <2>1, <2>2, KeptKept DEF VersionsMade, PressSeen, RefusalKnown
  <1>2. CASE Look
    <2>1. kept' \in KeptState
      BY <1>0, <1>2 DEF Look, AskedAnew, KeptState
    <2>2. /\ kept'.class = kept.class /\ kept'.press = kept.press /\ kept'.saw = kept.saw /\ kept'.met = kept.met
          /\ kept'.at = kept.at /\ kept'.others = kept.others /\ kept'.copy = kept.copy /\ kept'.got = kept.got
          /\ kept'.invalid = kept.invalid
          /\ \/ kept'.fetch = "asked"
             \/ kept'.fetch = kept.fetch /\ kept'.raced = kept.raced /\ (kept.fetch # "idle" \/ ~kept.invalid)
      BY <1>0, <1>2 DEF Look, AskedAnew, Fetching, KeptState
    <2>. QED BY <1>0, <2>1, <2>2, KeptKept DEF VersionsMade, PressSeen, RefusalKnown
  <1>3. CASE LookAway
    <2>1. kept' \in KeptState
      BY <1>0, <1>3 DEF LookAway, KeptState
    <2>2. /\ kept'.class = kept.class /\ kept'.press = kept.press /\ kept'.saw = kept.saw /\ kept'.met = kept.met
          /\ kept'.at = kept.at /\ kept'.others = kept.others /\ kept'.copy = kept.copy
          /\ kept'.got = kept.got /\ kept'.raced = kept.raced /\ kept'.fetch = kept.fetch
          /\ kept'.invalid = kept.invalid /\ ~kept'.seen
      BY <1>0, <1>3 DEF LookAway, KeptState
    <2>. QED BY <1>0, <2>1, <2>2, KeptKept DEF VersionsMade, PressSeen, RefusalKnown
  <1>4. CASE LookAgain
    <2>1. kept' \in KeptState
      BY <1>0, <1>4 DEF LookAgain, AskedAnew, KeptState
    <2>2. /\ kept'.class = kept.class /\ kept'.press = kept.press /\ kept'.saw = kept.saw /\ kept'.met = kept.met
          /\ kept'.at = kept.at /\ kept'.others = kept.others /\ kept'.copy = kept.copy
          /\ kept'.got = kept.got /\ kept'.fetch = "asked"
      BY <1>0, <1>4 DEF LookAgain, AskedAnew, KeptState
    <2>. QED BY <1>0, <2>1, <2>2, KeptKept DEF VersionsMade, PressSeen, RefusalKnown
  <1>5. CASE ServerReads
    <2>1. kept' \in KeptState
      BY <1>0, <1>5 DEF ServerReads, KeptState
    <2>2. /\ kept'.class = kept.class /\ kept'.press = kept.press /\ kept'.saw = kept.saw /\ kept'.met = kept.met
          /\ kept'.at = kept.at /\ kept'.others = kept.others /\ kept'.copy = kept.copy
          /\ kept'.got = kept.at /\ kept'.fetch = "read"
      BY <1>0, <1>5 DEF ServerReads, KeptState
    <2>. QED BY <1>0, <2>1, <2>2, KeptKept DEF VersionsMade, PressSeen, RefusalKnown
  <1>6. CASE Arrive
    <2>1. kept' \in KeptState
      BY <1>0, <1>6 DEF Arrive, KeptState
    <2>2. /\ kept'.class = kept.class /\ kept'.press = kept.press /\ kept'.saw = kept.saw /\ kept'.met = kept.met
          /\ kept'.at = kept.at /\ kept'.others = kept.others /\ kept'.copy = kept.got
          /\ kept'.got = 0 /\ kept.fetch = "read" /\ kept'.fetch = "idle" /\ kept'.raced = kept.raced
      BY <1>0, <1>6 DEF Arrive, KeptState
    <2>. QED BY <1>0, <2>1, <2>2, KeptKept DEF VersionsMade, PressSeen, RefusalKnown
  <1>7. CASE FetchFails
    <2>1. kept' \in KeptState
      BY <1>0, <1>7 DEF FetchFails, KeptState
    <2>2. /\ kept'.class = kept.class /\ kept'.press = kept.press /\ kept'.saw = kept.saw /\ kept'.met = kept.met
          /\ kept'.at = kept.at /\ kept'.others = kept.others /\ kept'.copy = kept.copy
          /\ kept'.got = 0 /\ kept'.fetch = "failed"
      BY <1>0, <1>7 DEF FetchFails, KeptState
    <2>. QED BY <1>0, <2>1, <2>2, KeptKept DEF VersionsMade, PressSeen, RefusalKnown
  <1>. QED BY <1>1, <1>2, <1>3, <1>4, <1>5, <1>6, <1>7

\* Until its answer is here a press changes nothing of what is kept.
LEMMA PressesKeep ==
  ASSUME KeptInv, PressIt \/ ServerTakes \/ ServerRefuses \/ PressIsLost
  PROVE  KeptInv'
  <1>0. /\ kept \in KeptState /\ VersionsMade /\ PressSeen /\ RefusalKnown
        /\ kept.at \in Nat /\ kept.others \in Nat /\ kept.copy \in Nat /\ kept.got \in Nat
        /\ kept.saw \in Nat /\ kept.met \in Nat /\ kept.class \in Classes
    BY KeptFacts
  <1> USE DEF Unloaded
  <1>1. CASE PressIt
    <2>1. kept' \in KeptState
      BY <1>0, <1>1 DEF PressIt, KeptState
    <2>2. /\ kept'.met = kept.met /\ kept'.saw = kept.copy /\ kept'.press = "asked" /\ kept.press = "no"
          /\ kept'.at = kept.at /\ kept'.others = kept.others /\ kept'.copy = kept.copy /\ kept'.got = kept.got
      BY <1>0, <1>1 DEF PressIt, KeptState
    <2>. QED BY <1>0, <2>1, <2>2, KeptKept DEF VersionsMade, PressSeen, RefusalKnown
  <1>2. CASE ServerTakes
    <2> SUFFICES ASSUME NEW now, now = IF kept.class.changed THEN kept.at + 1 ELSE kept.at PROVE KeptInv'
      OBVIOUS
    <2>0. /\ now \in Nat /\ (now = kept.at \/ now = kept.at + 1)
          /\ kept' = [kept EXCEPT !.press = "written", !.at = now, !.met = now]
      BY <1>0, <1>2 DEF ServerTakes
    <2>1. kept' \in KeptState
      BY <1>0, <2>0 DEF KeptState
    <2>2. /\ kept'.met = now /\ kept'.saw = kept.saw /\ kept'.press = "written"
          /\ kept'.at = now /\ kept'.others = kept.others /\ kept'.copy = kept.copy /\ kept'.got = kept.got
      BY <1>0, <2>0 DEF KeptState
    <2>3. kept.met = 0 /\ kept.press = "asked"
      BY <1>0, <1>2 DEF ServerTakes, VersionsMade
    <2>. QED BY <1>0, <2>0, <2>1, <2>2, <2>3, KeptKept DEF VersionsMade, PressSeen, RefusalKnown
  <1>3. CASE ServerRefuses
    <2>1. kept' \in KeptState
      BY <1>0, <1>3 DEF ServerRefuses, KeptState
    <2>2. /\ kept'.met = kept.at /\ kept'.saw = kept.saw /\ kept'.press = "refused" /\ kept'.class = kept.class
          /\ kept'.at = kept.at /\ kept'.others = kept.others /\ kept'.copy = kept.copy /\ kept'.got = kept.got
      BY <1>0, <1>3 DEF ServerRefuses, KeptState
    <2>3. kept.met = 0
      BY <1>0, <1>3 DEF ServerRefuses, VersionsMade
    <2>4. kept.saw < kept.at \/ (kept.class.rows /\ ~kept.class.sound)
      BY <1>3 DEF ServerRefuses
    <2>5. RefusalKnown'
      BY <2>2, <2>4 DEF RefusalKnown
    <2>. QED BY <1>0, <2>1, <2>2, <2>3, <2>5, KeptKept DEF VersionsMade, PressSeen
  <1>4. CASE PressIsLost
    <2>1. kept' \in KeptState
      BY <1>0, <1>4 DEF PressIsLost, KeptState
    <2>2. /\ kept'.met = kept.met /\ kept'.saw = kept.saw /\ kept'.press = "lost"
          /\ kept'.at = kept.at /\ kept'.others = kept.others /\ kept'.copy = kept.copy /\ kept'.got = kept.got
      BY <1>0, <1>4 DEF PressIsLost, KeptState
    <2>. QED BY <1>0, <2>1, <2>2, KeptKept DEF VersionsMade, PressSeen, RefusalKnown
  <1>. QED BY <1>1, <1>2, <1>3, <1>4

LEMMA WithAnswerShape ==
  ASSUME NEW k \in KeptState
  PROVE  LET a == WithAnswer(k)
         IN  /\ a \in KeptState
             /\ a.class = k.class /\ a.at = k.at /\ a.others = k.others /\ a.seen = k.seen /\ a.fetch = k.fetch
             /\ a.got = k.got /\ a.press = k.press /\ a.saw = k.saw /\ a.met = k.met
             /\ a.copy \in {k.copy, k.met}
             /\ k.class.put => a.copy = k.met /\ (a.raced <=> k.fetch = "read")
  <1>1. CASE k.class.put
    BY <1>1 DEF WithAnswer, KeptState
  <1>2. CASE ~k.class.put
    BY <1>2 DEF WithAnswer
  <1>. QED BY <1>1, <1>2

LEMMA RenewedShape ==
  ASSUME NEW k \in KeptState, Fetching = (k.fetch \in {"asked", "read"})
  PROVE  LET a == Renewed(k)
         IN  /\ a \in KeptState
             /\ a.class = k.class /\ a.at = k.at /\ a.others = k.others /\ a.seen = k.seen /\ a.copy = k.copy
             /\ a.got \in {k.got, Unloaded} /\ a.press = k.press /\ a.saw = k.saw /\ a.met = k.met
             /\ ~k.class.renewed /\ ~k.class.marked => a = k
             /\ (k.class.renewed \/ k.class.marked) =>
                  \/ a.fetch = "asked"
                  \/ a.fetch = k.fetch /\ a.invalid /\ (a.raced <=> k.fetch = "read")
                     /\ (k.class.marked \/ ~k.seen \/ k.fetch # "idle")
  <1>1. CASE ~k.class.renewed /\ ~k.class.marked
    <2>1. Renewed(k) = k
      BY <1>1 DEF Renewed
    <2>. QED BY <1>1, <2>1
  <1>2. CASE k.class.renewed /\ k.seen /\ (Fetching => k.copy # Unloaded)
    <2>1. Renewed(k) = AskedAnew([k EXCEPT !.invalid = TRUE, !.got = Unloaded])
      BY <1>2 DEF Renewed
    <2>2. PICK m : m = [k EXCEPT !.invalid = TRUE, !.got = Unloaded]
      OBVIOUS
    <2>3. m \in KeptState
      BY <2>2 DEF KeptState, Unloaded
    <2>4. /\ m.class = k.class /\ m.at = k.at /\ m.others = k.others /\ m.seen = k.seen /\ m.copy = k.copy
          /\ m.got = Unloaded /\ m.press = k.press /\ m.saw = k.saw /\ m.met = k.met
      BY <2>2 DEF KeptState
    <2>5. Renewed(k) = [m EXCEPT !.fetch = "asked", !.raced = FALSE]
      BY <2>1, <2>2 DEF AskedAnew
    <2>6. /\ Renewed(k) \in KeptState /\ Renewed(k).fetch = "asked"
          /\ Renewed(k).class = m.class /\ Renewed(k).at = m.at /\ Renewed(k).others = m.others
          /\ Renewed(k).seen = m.seen /\ Renewed(k).copy = m.copy /\ Renewed(k).got = m.got
          /\ Renewed(k).press = m.press /\ Renewed(k).saw = m.saw /\ Renewed(k).met = m.met
      BY <2>3, <2>5 DEF KeptState
    <2>. QED BY <1>2, <2>4, <2>6
  <1>3. CASE (k.class.renewed \/ k.class.marked) /\ ~(k.class.renewed /\ k.seen /\ (Fetching => k.copy # Unloaded))
    <2>1. Renewed(k) = [k EXCEPT !.invalid = TRUE, !.raced = k.fetch = "read"]
      BY <1>3 DEF Renewed
    <2>2. k.class.marked \/ ~k.seen \/ k.fetch # "idle"
      BY <1>3
    <2>. QED BY <1>3, <2>1, <2>2 DEF KeptState
  <1>. QED BY <1>1, <1>2, <1>3

LEMMA PressIsDoneKeeps == ASSUME KeptInv, PressIsDone PROVE KeptInv'
  <1>0. /\ kept \in KeptState /\ VersionsMade
        /\ kept.at \in Nat /\ kept.others \in Nat /\ kept.copy \in Nat /\ kept.got \in Nat
        /\ kept.saw \in Nat /\ kept.met \in Nat /\ kept.class \in Classes
    BY KeptFacts
  <1> SUFFICES ASSUME NEW k, k = [kept EXCEPT !.press = "done"], NEW l, l = WithAnswer(k) PROVE KeptInv'
    OBVIOUS
  <1>1. /\ k \in KeptState /\ k.class = kept.class /\ k.at = kept.at /\ k.others = kept.others
        /\ k.copy = kept.copy /\ k.seen = kept.seen /\ k.fetch = kept.fetch /\ k.got = kept.got
        /\ k.press = "done" /\ k.saw = kept.saw /\ k.met = kept.met
    BY <1>0 DEF KeptState
  <1>2. /\ l \in KeptState
        /\ l.class = k.class /\ l.at = k.at /\ l.others = k.others /\ l.seen = k.seen /\ l.fetch = k.fetch
        /\ l.got = k.got /\ l.press = k.press /\ l.saw = k.saw /\ l.met = k.met
        /\ l.copy \in {k.copy, k.met}
        /\ k.class.put => l.copy = k.met /\ (l.raced <=> k.fetch = "read")
    BY <1>1, WithAnswerShape
  <1>3. kept' = Renewed(l)
    BY DEF PressIsDone
  <1>4. Fetching = (l.fetch \in {"asked", "read"})
    BY <1>1, <1>2 DEF Fetching
  <1>5. /\ kept' \in KeptState
        /\ kept'.class = l.class /\ kept'.at = l.at /\ kept'.others = l.others /\ kept'.seen = l.seen
        /\ kept'.copy = l.copy /\ kept'.got \in {l.got, Unloaded} /\ kept'.press = l.press
        /\ kept'.saw = l.saw /\ kept'.met = l.met
        /\ ~l.class.renewed /\ ~l.class.marked => kept' = l
        /\ (l.class.renewed \/ l.class.marked) =>
             \/ kept'.fetch = "asked"
             \/ kept'.fetch = l.fetch /\ kept'.invalid /\ (kept'.raced <=> l.fetch = "read")
                /\ (l.class.marked \/ ~l.seen \/ l.fetch # "idle")
    BY <1>2, <1>3, <1>4, RenewedShape
  <1>6. VersionsMade'
    <2>1. /\ kept'.at = kept.at /\ kept'.others = kept.others /\ kept'.met = kept.met /\ kept'.saw = kept.saw
          /\ kept'.copy \in {kept.copy, kept.met} /\ kept'.got \in {kept.got, Unloaded} /\ kept'.press = "done"
      BY <1>1, <1>2, <1>5
    <2>. QED BY <1>0, <2>1 DEF VersionsMade, Unloaded
  <1>7. PressSeen'
    <2> SUFFICES ASSUME kept'.class.changed, ~kept'.raced,
                        kept'.class.renewed \/ kept'.class.marked \/ kept'.class.put
                 PROVE  /\ kept'.fetch = "read" => kept'.got >= kept'.met
                        /\ \/ kept'.copy >= kept'.met
                           \/ kept'.fetch # "idle"
                           \/ kept'.invalid /\ (kept'.class.marked \/ ~kept'.seen)
      BY DEF PressSeen
    <2>2. l.class.renewed \/ l.class.marked \/ l.class.put
      BY <1>5
    <2>3. CASE l.class.renewed \/ l.class.marked
      BY <1>5, <2>3
    <2>4. CASE ~l.class.renewed /\ ~l.class.marked /\ l.class.put
      BY <1>0, <1>1, <1>2, <1>5, <2>4
    <2>. QED BY <2>2, <2>3, <2>4
  <1>8. RefusalKnown'
    BY <1>1, <1>2, <1>5 DEF RefusalKnown
  <1>. QED BY <1>5, <1>6, <1>7, <1>8, KeptKept

LEMMA KeptInvStays == ASSUME KeptInv, [KeptStep]_kept PROVE KeptInv'
  <1>1. CASE kept' = kept
    BY <1>1 DEF KeptInv, KeptTypeOK, VersionsMade, PressSeen, RefusalKnown
  <1>. QED BY <1>1, LooksKeep, PressesKeep, PressIsDoneKeeps DEF KeptStep

\* What the tables of the screens have to say: a change of an answer that is not
\* named as left is renewed, marked or put; an answer named as left is none of it;
\* and what is offered on rows the server has it not for is named as offered in vain.
TablesFit ==
  \A class \in Classes :
    /\ class.changed /\ ~class.left => class.renewed \/ class.marked \/ class.put
    /\ class.left => ~class.renewed /\ ~class.marked /\ ~class.put
    /\ class.rows /\ ~class.sound => class.vain

LEMMA KeptShows == ASSUME TablesFit, KeptInv PROVE OwnWritesShow /\ RefusedOnlyWhenStale
  <1>1. PressSeen /\ RefusalKnown /\ kept.class \in Classes
    BY KeptFacts
  <1>2. /\ kept.class.changed /\ ~kept.class.left =>
             kept.class.renewed \/ kept.class.marked \/ kept.class.put
        /\ kept.class.left => ~kept.class.renewed /\ ~kept.class.marked /\ ~kept.class.put
        /\ kept.class.rows /\ ~kept.class.sound => kept.class.vain
    BY <1>1 DEF TablesFit
  <1>3. OwnWritesShow
    BY <1>1, <1>2 DEF OwnWritesShow, PressSeen
  <1>4. RefusedOnlyWhenStale
    BY <1>1, <1>2 DEF RefusedOnlyWhenStale, RefusalKnown
  <1>. QED BY <1>3, <1>4

(***************************************************************************)
(* Whatever polls, failures, other users and presses do: an answer that a  *)
(* press changed and that is renewed, marked or put by it is seen changed, *)
(* and only a press on an older state, or on a row it is not for, is       *)
(* refused (query-provider.tsx).  This is so for any tables.               *)
(***************************************************************************)
THEOREM KeptInvariant == KeptSpec => []KeptInv
  BY KeptInitially, KeptInvStays, PTL DEF KeptSpec

(***************************************************************************)
(* Whatever a press of a screen changes is seen there by whoever pressed,  *)
(* once nothing is on its way, however polls, failures, other users and    *)
(* the renewals of the mutations interleave; and a press is refused only   *)
(* on a row that was older than the server's (the useQuery and useMutation *)
(* of every page, query-provider.tsx), provided the tables fit.            *)
(***************************************************************************)
THEOREM PressesAreSeen ==
  ASSUME TablesFit
  PROVE  KeptSpec => [](OwnWritesShow /\ RefusedOnlyWhenStale)
  <1>1. KeptInv => OwnWritesShow /\ RefusedOnlyWhenStale
    BY KeptShows
  <1>. QED BY <1>1, KeptInvariant, PTL
-----------------------------------------------------------------------------
(***************************************************************************)
(* The parts together.                                                     *)
(***************************************************************************)
\* All of it in one browser, each part in its own time.
BrowserSpec == Spec /\ NavSpec /\ BoardSpec /\ ListSpec /\ KeptSpec

LEMMA InstanceSteps ==
  ASSUME [MCNext]_<<vars, navVars, boardVars, list, kept, scene>>
  PROVE  [Next]_vars /\ [NavStep]_navVars /\ [BoardStep]_boardVars /\ [ListStep]_list /\ [KeptStep]_kept
  <1>1. CASE UNCHANGED <<vars, navVars, boardVars, list, kept, scene>>
    BY <1>1
  <1>2. CASE MCNext
    <2>1. CASE Tabbing(q2) \/ Tabbing(q3)
      BY <2>1 DEF Tabbing
    <2>2. CASE Visiting
      BY <2>2 DEF Visiting
    <2>3. CASE Boarding
      BY <2>3 DEF Boarding
    <2>4. CASE Listing
      BY <2>4 DEF Listing
    <2>5. CASE Keeping
      BY <2>5 DEF Keeping
    <2>. QED BY <1>2, <2>1, <2>2, <2>3, <2>4, <2>5 DEF MCNext
  <1>. QED BY <1>1, <1>2

(***************************************************************************)
(* The instance that is model-checked, one scene at a time, is a behaviour *)
(* of the whole browser: what is proved of the latter holds of every       *)
(* instance (PortalTabs, Navigation, TaskBoard, ListPages, QueryCache).    *)
(***************************************************************************)
THEOREM ScenesAreOfTheBrowser == MCSpec => BrowserSpec
  <1>1. MCInit => Init /\ NavInit /\ BoardInit /\ ListInit /\ KeptInit
    BY DEF MCInit
  <1>. QED BY <1>1, InstanceSteps, PTL DEF MCSpec, BrowserSpec, Spec, NavSpec, BoardSpec, ListSpec, KeptSpec

(***************************************************************************)
(* Tabs, visits, board, lists and kept answers stay in their types: a call *)
(* in flight has a token that was issued, moves are of known cards, and no *)
(* version is newer than what was written.                                 *)
(***************************************************************************)
THEOREM BrowserTypeCorrect == BrowserSpec => []MCTypeOK
  <1>1. TabsInv /\ VisitInv /\ BoardInv /\ ListInv /\ KeptInv => MCTypeOK
    BY DEF TabsInv, TabsTyped, VisitInv, BoardInv, ListInv, KeptInv, MCTypeOK
  <1>2. NavSpec => []VisitInv
    BY VisitsInitially, VisitInvStays, PTL DEF NavSpec
  <1>3. BoardSpec => []BoardInv
    BY BoardInitially, BoardInvStays, PTL DEF BoardSpec
  <1>4. ListSpec => []ListInv
    BY ListInitially, ListInvStays, PTL DEF ListSpec
  <1>. QED BY <1>1, <1>2, <1>3, <1>4, KeptInvariant, TabsInvariant, PTL DEF BrowserSpec

(***************************************************************************)
(* A browser is left in order: with a cookie that works when no call is in *)
(* flight, and at the page its visitor asked for or at home, with its user *)
(* (api.ts, auth.service.ts, middleware.ts, user-context.tsx).             *)
(***************************************************************************)
THEOREM BrowserLeftInOrder == BrowserSpec => []LeftInOrder
  <1>1. CookieWorks /\ VisitsLandRight => LeftInOrder
    BY DEF LeftInOrder
  <1>. QED BY <1>1, BrowserIsLeftWithACookie, VisitsComeToTheirPage, PTL DEF BrowserSpec

(***************************************************************************)
(* What is on the screen is what was done and what the server holds: cards *)
(* stay where they were dropped, lists show what was asked for last, and   *)
(* who has done something sees it done (useTaskMoveMutation, the searches  *)
(* of the list pages, the renewals after every mutation), provided the     *)
(* tables of the screens fit.                                              *)
(***************************************************************************)
THEOREM BrowserTellsTruth ==
  ASSUME TablesFit
  PROVE  BrowserSpec => []ScreensTellTruth
  <1>1. /\ CardsStayWhereDropped /\ BoardTellsTruth /\ ListsShowWhatIsAsked
        /\ OwnWritesShow /\ RefusedOnlyWhenStale
        => ScreensTellTruth
    BY DEF ScreensTellTruth
  <1>. QED BY <1>1, BoardIsTrue, ListsSettleOnWhatIsAsked, PressesAreSeen, PTL DEF BrowserSpec
=============================================================================
