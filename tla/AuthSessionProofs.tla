------------------------- MODULE AuthSessionProofs -------------------------
(* Proofs about AuthSession, for every set of tabs and of sessions, with and *)
(* without Web Locks, and for any number of turns.                         *)
EXTENDS AuthSession, SequenceTheorems, TLAPS

----------------------------------------------------------------------------
(* The inductive invariants.                                               *)

IsRefresh(m) == m.live /\ m.kind = "refresh"

\* What a request has been answered, and what it takes to be rotated.
Served ==
    \A m \in net :
        /\ m.phase \in {"rotate", "swap", "reuse"} => m.kind = "refresh" /\ m.token # NoToken
        /\ m.phase \in Answers => m.live
        /\ m.kind = "refresh" /\ m.phase = "ok" => m.token # NoToken /\ m.set = DeriveNext(m.token)
        /\ m.kind = "login" /\ m.phase \in Answers => m.phase = "ok"
        /\ m.kind = "login" /\ m.phase = "ok" => m.set.sid # NoSid /\ m.set.gen = 0
        /\ m.kind = "logout" /\ m.phase = "ok" => m.set = NoToken
        /\ m.phase \in Denied => m.set = NoToken
        /\ m.phase \notin Answers => m.set = NoToken

\* A tab runs one refresh at a time.
OneRefresh ==
    /\ \A m \in net : IsRefresh(m) => page[m.tab].run = "sent"
    /\ \A m, n \in net : IsRefresh(m) /\ IsRefresh(n) /\ m.tab = n.tab => m = n

\* Nobody has heard of a session that does not exist.
Heard(s) ==
    \/ cookie.sid = s
    \/ \E t \in Tabs : page[t].sid = s \/ s \in ended[t]
    \/ \E m \in net : m.token.sid = s \/ m.expect = s \/ m.set.sid = s

Unborn == \A s \in Sids : row[s].status = "none" => row[s].gen = 0 /\ ~Heard(s)

\* The session of a login whose answer is still on its way is known to nobody
\* else.
Secret ==
    \A m \in net : m.kind = "login" /\ m.phase = "ok" =>
        /\ row[m.set.sid].gen = 0
        /\ cookie.sid # m.set.sid
        /\ \A t \in Tabs : page[t].sid # m.set.sid /\ m.set.sid \notin ended[t]
        /\ \A n \in net : n.token.sid # m.set.sid /\ n.expect # m.set.sid
        /\ \A n \in net : n # m => n.set.sid # m.set.sid

\* A session a tab has signed out of is over, and the answer of a refresh that
\* still speaks of it has been overtaken.
Over ==
    /\ \A t \in Tabs : \A s \in ended[t] : row[s].status \notin {"none", "active"}
    /\ \A m \in net :
        IsRefresh(m) /\ m.phase = "ok" /\ m.set.sid \in ended[m.tab] => ~page[m.tab].current

----------------------------------------------------------------------------
(* Types.                                                                  *)

LEMMA NewPageType == NewPage \in Page
  BY DEF NewPage, Page

\* The changes of a tab's memory.
LEMMA PageTypes ==
  ASSUME NEW p \in Page, NEW s \in Sids \union {NoSid}, NEW b \in {"idle", "checking", "complete"}, NEW kind
  PROVE  /\ ResetStore(p, b) \in Page /\ ApplyAuthBundle(p, s) \in Page
         /\ ClearAuthentication(p) \in Page /\ Outcome(p, kind) \in Page
         /\ [p EXCEPT !.boot = b] \in Page
  <1>1. ResetStore(p, b) \in Page
    BY DEF ResetStore, Page
  <1>2. ApplyAuthBundle(p, s) \in Page
    BY DEF ApplyAuthBundle, Supersede, SetBundle, Page
  <1>3. ClearAuthentication(p) \in Page
    BY DEF ClearAuthentication, Supersede, ResetStore, Page
  <1>4. Outcome(p, kind) \in Page
    <2> DEFINE api == IF p.api = "waiting" /\ kind = "authenticated" THEN "retry"
                      ELSE IF p.api = "waiting" THEN "none" ELSE p.api
               op == IF p.op = "recover" /\ kind = "authenticated" THEN "again"
                     ELSE IF p.op = "recover" THEN "none" ELSE p.op
    <2>1. api \in {"none", "waiting", "retry"}
      BY DEF Page
    <2>2. op \in {"none", "login", "first", "recover", "again", "second"}
      BY DEF Page
    <2>3. Outcome(p, kind) = [p EXCEPT !.run = "none", !.current = FALSE, !.api = api, !.op = op]
      BY DEF Outcome
    <2> HIDE DEF api, op
    <2> QED BY <2>1, <2>2, <2>3 DEF Page
  <1>5. [p EXCEPT !.boot = b] \in Page
    BY DEF Page
  <1> QED BY <1>1, <1>2, <1>3, <1>4, <1>5

\* Giving up a place in the queue.
LEMMA LeaveType ==
  ASSUME queue \in Seq(Tabs), NEW t
  PROVE  Leave(t) \in Seq(Tabs)
  <1>1. CASE \E i \in DOMAIN queue : queue[i] = t
    <2> DEFINE i == CHOOSE i \in DOMAIN queue : queue[i] = t
    <2>1. i \in 1..Len(queue)
      BY <1>1
    <2>2. Leave(t) = SubSeq(queue, 1, i - 1) \o SubSeq(queue, i + 1, Len(queue))
      BY <1>1 DEF Leave, RemoveAt
    <2> HIDE DEF i
    <2> QED BY <2>1, <2>2
  <1> QED BY <1>1 DEF Leave

Events == Seq([kind : {"authenticated", "signed_out"}, sid : Sids])

LEMMA PublishType ==
  ASSUME inbox \in [Tabs -> Events], NEW t, NEW s \in Sids \union {NoSid},
         NEW kind \in {"authenticated", "signed_out"}
  PROVE  Publish(t, kind, s) \in [Tabs -> Events]
  <1>1. \A q \in Events : s # NoSid => Append(q, [kind |-> kind, sid |-> s]) \in Events
    BY DEF Events
  <1> QED BY <1>1 DEF Publish

LEMMA OrphanedType ==
  ASSUME NEW msgs \in SUBSET Message, NEW t
  PROVE  Orphaned(t, msgs) \subseteq Message
  <1> SUFFICES ASSUME NEW m \in msgs
               PROVE  [m EXCEPT !.live = FALSE] \in Message
    BY DEF Orphaned
  <1>1. m \in Message
    OBVIOUS
  <1> QED BY <1>1 DEF Message

LEMMA SendType ==
  ASSUME TypeOK, NEW t \in Tabs, NEW kind \in Kinds, NEW s \in Sids \union {NoSid}
  PROVE  Send(t, kind, s) \in Message
  BY DEF Send, TypeOK, Message, Page, Token, NoToken

\* The parts of TypeOK that a step may change.
LEMMA TypeFacts ==
  ASSUME TypeOK
  PROVE  /\ row \in [Sids -> Row] /\ cookie \in Token /\ page \in [Tabs -> Page]
         /\ queue \in Seq(Tabs) /\ net \subseteq Message /\ inbox \in [Tabs -> Events]
         /\ ended \in [Tabs -> SUBSET Sids] /\ turns \in 0..Turns
  BY DEF TypeOK, Events

LEMMA TypeNext ==
  ASSUME TypeOK, UNCHANGED locks,
         row' \in [Sids -> Row], cookie' \in Token, page' \in [Tabs -> Page],
         queue' \in Seq(Tabs), net' \subseteq Message, inbox' \in [Tabs -> Events],
         ended' \in [Tabs -> SUBSET Sids], turns' \in 0..Turns
  PROVE  TypeOK'
  BY DEF TypeOK, Events

LEMMA LoadPageTypes ==
  ASSUME TypeOK, NEW t \in Tabs, NEW msgs \in SUBSET net, NEW events \in [Tabs -> Events],
         LoadPage(t, msgs, events)
  PROVE  /\ page' \in [Tabs -> Page] /\ queue' \in Seq(Tabs) /\ net' \subseteq Message
         /\ inbox' \in [Tabs -> Events]
  <1>1. page' \in [Tabs -> Page]
    BY TypeFacts, NewPageType DEF LoadPage
  <1>2. queue' \in Seq(Tabs)
    BY TypeFacts, LeaveType DEF LoadPage
  <1>3. net' \subseteq Message
    BY TypeFacts, OrphanedType DEF LoadPage
  <1>4. inbox' \in [Tabs -> Events]
    <2>1. <<>> \in Events
      BY DEF Events
    <2> QED BY <2>1 DEF LoadPage
  <1> QED BY <1>1, <1>2, <1>3, <1>4

LEMMA AnswerType ==
  ASSUME NEW m \in Message, NEW phase \in {"sent", "rotate", "swap", "reuse"} \union Answers,
         NEW set \in Token
  PROVE  [m EXCEPT !.phase = phase, !.set = set] \in Message /\ [m EXCEPT !.phase = phase] \in Message
  BY DEF Message

LEMMA DeriveType ==
  ASSUME NEW token \in Token, token # NoToken
  PROVE  DeriveNext(token) \in Token /\ token.sid \in Sids /\ token.gen \in Nat
  BY DEF DeriveNext, Token, NoToken

\* Every step of the server keeps the types.
LEMMA ServeTypes ==
  ASSUME TypeOK, Served, UNCHANGED locks, NEW m \in net, Serve(m) \/ ServeFails(m)
  PROVE  TypeOK'
  <1>0. m \in Message /\ m.token \in Token
    BY TypeFacts DEF Message
  <1>00. /\ NoToken \in Token
         /\ \A r : Reply(m, r) /\ r \in Message => net' \subseteq Message
    BY TypeFacts DEF Token, Reply
  <1>a. ASSUME NEW phase \in Answers, NEW set \in Token, Answer(m, phase, set)
        PROVE  net' \subseteq Message
    BY <1>a, <1>0, <1>00, AnswerType DEF Answer
  <1>b. ASSUME NEW phase \in {"rotate", "swap", "reuse"}, Advance(m, phase)
        PROVE  net' \subseteq Message
    BY <1>b, <1>0, <1>00, AnswerType, TypeFacts DEF Advance
  <1> USE <1>0, <1>00 DEF Answers, Denied
  <1>1. CASE ServeLookup(m)
    <2>1. net' \subseteq Message
      BY <1>1, <1>a, <1>b DEF ServeLookup
    <2> QED BY <1>1, <2>1, TypeFacts, TypeNext DEF ServeLookup
  <1>2. CASE ServeRead(m)
    <2>1. DeriveNext(m.token) \in Token
      BY <1>2, DeriveType DEF ServeRead, Served
    <2>2. net' \subseteq Message
      BY <1>2, <2>1, <1>a, <1>b DEF ServeRead
    <2> QED BY <1>2, <2>2, TypeFacts, TypeNext DEF ServeRead
  <1>3. CASE ServeSwap(m)
    <2>1. DeriveNext(m.token) \in Token /\ m.token.sid \in Sids /\ m.token.gen \in Nat
      BY <1>3, DeriveType DEF ServeSwap, Served
    <2>2. net' \subseteq Message
      BY <1>3, <2>1, <1>a, <1>b DEF ServeSwap
    <2>3. row' \in [Sids -> Row]
      <3>1. [status |-> "active", gen |-> DeriveNext(m.token).gen, prev |-> m.token.gen, grace |-> TRUE] \in Row
        BY <2>1 DEF Row, DeriveNext
      <3> QED BY <1>3, <2>1, <3>1, TypeFacts DEF ServeSwap
    <2> QED BY <1>3, <2>2, <2>3, TypeFacts, TypeNext DEF ServeSwap
  <1>4. CASE ServeReuse(m)
    <2>1. m.token.sid \in Sids
      BY <1>4, DeriveType DEF ServeReuse, Served
    <2>2. net' \subseteq Message
      BY <1>4, <1>a DEF ServeReuse
    <2>3. row' \in [Sids -> Row]
      <3>1. \A s \in Sids : Revoke(s, "refresh_reuse") => row' \in [Sids -> Row]
        BY TypeFacts DEF Revoke, Row
      <3> QED BY <1>4, <2>1, <3>1, TypeFacts DEF ServeReuse
    <2> QED BY <1>4, <2>2, <2>3, TypeFacts, TypeNext DEF ServeReuse
  <1>5. CASE ServeLogout(m)
    <2>1. net' \subseteq Message
      BY <1>5, <1>a DEF ServeLogout
    <2>2. row' \in [Sids -> Row]
      <3>1. m.bearer \in Sids \union {NoSid} /\ m.token.sid \in Sids \union {NoSid}
        BY DEF Message, Token, NoToken
      <3>2. \A s \in Sids : Revoke(s, "logout") => row' \in [Sids -> Row]
        BY TypeFacts DEF Revoke, Row
      <3> QED BY <1>5, <3>1, <3>2, TypeFacts DEF ServeLogout
    <2> QED BY <1>5, <2>1, <2>2, TypeFacts, TypeNext DEF ServeLogout
  <1>6. CASE \E s \in Sids : ServeLogin(m, s)
    <2>1. PICK s \in Sids : ServeLogin(m, s)
      BY <1>6
    <2>2. [sid |-> s, gen |-> 0] \in Token
      BY DEF Token
    <2>3. net' \subseteq Message
      BY <2>1, <2>2, <1>a DEF ServeLogin
    <2>4. row' \in [Sids -> Row]
      BY <2>1, TypeFacts DEF ServeLogin, Row
    <2> QED BY <2>1, <2>3, <2>4, TypeFacts, TypeNext DEF ServeLogin
  <1>7. CASE ServeFails(m)
    <2>1. net' \subseteq Message
      BY <1>7, <1>a DEF ServeFails
    <2>2. turns' \in 0..Turns
      BY <1>7, AuthSessionAssumption, TypeFacts DEF ServeFails
    <2> QED BY <1>7, <2>1, <2>2, TypeFacts, TypeNext DEF ServeFails
  <1> QED BY <1>1, <1>2, <1>3, <1>4, <1>5, <1>6, <1>7 DEF Serve

\* Starting or joining a refresh.
LEMMA StartTypes ==
  ASSUME TypeOK, NEW t \in Tabs, NEW p \in Page, StartRefresh(t, p)
  PROVE  page' \in [Tabs -> Page] /\ queue' \in Seq(Tabs)
  <1>1. [p EXCEPT !.run = IF locks THEN "queued" ELSE "start",
                  !.current = TRUE, !.race = 0, !.again = TRUE] \in Page
    <2>1. \A r \in {"queued", "start"}, x \in 0..3, b \in BOOLEAN :
            [p EXCEPT !.run = r, !.current = b, !.race = x, !.again = b] \in Page
      BY DEF Page
    <2>2. 0 \in 0..3
      OBVIOUS
    <2> QED BY <2>1, <2>2, Zenon
  <1>2. page' \in [Tabs -> Page]
    BY <1>1, TypeFacts DEF StartRefresh
  <1>3. queue' \in Seq(Tabs)
    BY TypeFacts DEF StartRefresh
  <1> QED BY <1>2, <1>3

\* Ending one.
LEMMA FinishTypes ==
  ASSUME TypeOK, NEW t \in Tabs, NEW m \in net, NEW p \in Page, NEW kind,
         NEW events \in [Tabs -> Events], Finish(t, m, p, kind, events)
  PROVE  /\ page' \in [Tabs -> Page] /\ queue' \in Seq(Tabs) /\ net' \subseteq Message
         /\ inbox' \in [Tabs -> Events]
  <1>1. CASE /\ page' = [page EXCEPT ![t] = Outcome(p, kind)]
             /\ queue' = Leave(t)
             /\ net' = net \ {m}
             /\ inbox' = events
    <2>1. Outcome(p, kind) \in Page
      BY PageTypes
    <2> QED BY <1>1, <2>1, LeaveType, TypeFacts
  <1>2. CASE LoadPage(t, net \ {m}, events)
    BY <1>2, LoadPageTypes
  <1> QED BY <1>1, <1>2 DEF Finish

\* The outcomes of an answer to a refresh.
LEMMA RefreshCases ==
  ASSUME NEW m, RefreshAnswered(m)
  PROVE  LET t == m.tab
             p == page[t]
         IN  \/ ~p.current /\ Finish(t, m, p, "transient_error", inbox)
             \/ p.current /\ m.phase = "ok" /\ Finish(t, m, ApplyAuthBundle(p, m.set.sid), "authenticated", inbox)
             \/ m.phase = "race" /\ p.race < 3 /\ Retry(t, m, [p EXCEPT !.race = @ + 1])
             \/ /\ m.phase = "mismatch"
                /\ Retry(t, m, [ResetStore(p, "idle") EXCEPT !.race = 0, !.again = FALSE])
             \/ /\ m.phase \in Denied
                /\ Finish(t, m, ClearAuthentication(p), "anonymous", Publish(t, "signed_out", p.sid))
             \/ m.phase = "internal" /\ Finish(t, m, [p EXCEPT !.boot = "idle"], "transient_error", inbox)
             \/ m.phase \notin {"ok"} \union Denied /\ Finish(t, m, ClearAuthentication(p), "out_of_sync", inbox)
  BY Zenon DEF RefreshAnswered

\* Every answer that is delivered keeps the types.
LEMMA DeliverTypes ==
  ASSUME TypeOK, UNCHANGED locks, NEW m \in net, Deliver(m)
  PROVE  TypeOK'
  <1> DEFINE t == m.tab
             p == page[t]
  <1>0. /\ m \in Message /\ t \in Tabs /\ p \in Page /\ m.set \in Token
        /\ m.set.sid \in Sids \union {NoSid} /\ p.sid \in Sids \union {NoSid}
    BY TypeFacts DEF Message, Token, NoToken, Page
  <1>00. StoreCookie(m) => cookie' \in Token
    BY <1>0, TypeFacts DEF StoreCookie
  <1> HIDE DEF t, p
  <1>1. CASE RefreshAnswered(m)
    <2>1. cookie' \in Token
      BY <1>1, <1>00 DEF RefreshAnswered
    <2>2. ASSUME NEW q \in Page, Retry(t, m, q) PROVE TypeOK'
      <3>1. [q EXCEPT !.run = "start"] \in Page
        BY DEF Page
      <3> QED BY <1>0, <2>1, <2>2, <3>1, TypeFacts, TypeNext DEF Retry
    <2>3. ASSUME NEW kind, NEW q \in Page, NEW events \in [Tabs -> Events], Finish(t, m, q, kind, events)
          PROVE  TypeOK'
      <3>1. UNCHANGED <<row, turns, ended>>
        BY <2>3 DEF Finish
      <3> QED BY <1>0, <2>1, <2>3, <3>1, FinishTypes, TypeFacts, TypeNext
    <2>4. inbox \in [Tabs -> Events] /\ Publish(t, "signed_out", p.sid) \in [Tabs -> Events]
      BY <1>0, PublishType, TypeFacts
    <2>5. ApplyAuthBundle(p, m.set.sid) \in Page /\ ClearAuthentication(p) \in Page
      BY <1>0, PageTypes
    <2>6. /\ p.race < 3 => [p EXCEPT !.race = @ + 1] \in Page
          /\ [p EXCEPT !.boot = "idle"] \in Page
      BY <1>0 DEF Page
    <2>7. [ResetStore(p, "idle") EXCEPT !.race = 0, !.again = FALSE] \in Page
      <3>1. \A q \in Page, x \in 0..3, b \in BOOLEAN : [q EXCEPT !.race = x, !.again = b] \in Page
        BY DEF Page
      <3>2. ResetStore(p, "idle") \in Page
        BY <1>0, PageTypes
      <3>3. 0 \in 0..3
        OBVIOUS
      <3> QED BY <3>1, <3>2, <3>3, Zenon
    <2>8. \/ Finish(t, m, p, "transient_error", inbox)
          \/ Finish(t, m, ApplyAuthBundle(p, m.set.sid), "authenticated", inbox)
          \/ p.race < 3 /\ Retry(t, m, [p EXCEPT !.race = @ + 1])
          \/ Retry(t, m, [ResetStore(p, "idle") EXCEPT !.race = 0, !.again = FALSE])
          \/ Finish(t, m, ClearAuthentication(p), "anonymous", Publish(t, "signed_out", p.sid))
          \/ Finish(t, m, [p EXCEPT !.boot = "idle"], "transient_error", inbox)
          \/ Finish(t, m, ClearAuthentication(p), "out_of_sync", inbox)
      BY <1>1, RefreshCases, Zenon DEF t, p
    <2> QED BY <1>0, <2>2, <2>3, <2>4, <2>5, <2>6, <2>7, <2>8
  <1>2. CASE LogoutAnswered(m)
    <2>1. page' \in [Tabs -> Page] /\ queue' \in Seq(Tabs)
      <3>1. \A o \in {"recover", "none"} : [p EXCEPT !.op = o] \in Page
        BY <1>0 DEF Page
      <3>2. [ClearAuthentication(p) EXCEPT !.op = "none"] \in Page
        BY <1>0 DEF Page, ClearAuthentication, Supersede, ResetStore
      <3>3. \/ StartRefresh(t, [p EXCEPT !.op = "recover"])
            \/ page' = [page EXCEPT ![t] = [p EXCEPT !.op = "none"]] /\ UNCHANGED queue
            \/ page' = [page EXCEPT ![t] = [ClearAuthentication(p) EXCEPT !.op = "none"]] /\ UNCHANGED queue
        BY <1>2 DEF LogoutAnswered, t, p
      <3> QED BY <1>0, <3>1, <3>2, <3>3, StartTypes, TypeFacts
    <2>2. inbox' \in [Tabs -> Events]
      <3>1. inbox' = inbox \/ inbox' = Publish(t, "signed_out", p.sid)
        BY <1>2 DEF LogoutAnswered, t, p
      <3> QED BY <1>0, <3>1, PublishType, TypeFacts
    <2>3. ended' \in [Tabs -> SUBSET Sids]
      BY <1>0, <1>2, TypeFacts DEF LogoutAnswered
    <2>4. net' \subseteq Message /\ cookie' \in Token /\ UNCHANGED <<row, turns>>
      BY <1>00, <1>2, TypeFacts DEF LogoutAnswered
    <2> QED BY <2>1, <2>2, <2>3, <2>4, TypeFacts, TypeNext
  <1>3. CASE LoginAnswered(m)
    <2>1. page' \in [Tabs -> Page]
      <3>1. [p EXCEPT !.op = "none"] \in Page /\ [ApplyAuthBundle(p, m.set.sid) EXCEPT !.op = "none"] \in Page
        BY <1>0 DEF Page, ApplyAuthBundle, Supersede, SetBundle
      <3> QED BY <1>0, <1>3, <3>1, TypeFacts DEF LoginAnswered, t, p
    <2>2. inbox' \in [Tabs -> Events]
      <3>1. inbox' = inbox \/ inbox' = Publish(t, "authenticated", m.set.sid)
        BY <1>3 DEF LoginAnswered, PublishLogin, t
      <3> QED BY <1>0, <3>1, PublishType, TypeFacts
    <2> QED BY <1>00, <1>3, <2>1, <2>2, TypeFacts, TypeNext DEF LoginAnswered
  <1> QED BY <1>1, <1>2, <1>3 DEF Deliver

\* So does a request that fails or is lost.
LEMMA FailTypes ==
  ASSUME TypeOK, UNCHANGED locks, NEW m \in net, RequestFails(m) \/ RequestLost(m)
  PROVE  TypeOK'
  <1> DEFINE t == m.tab
             p == page[t]
  <1>0. m \in Message /\ t \in Tabs /\ p \in Page
    BY TypeFacts DEF Message
  <1> HIDE DEF t, p
  <1>1. CASE RequestFails(m)
    <2>1. page' \in [Tabs -> Page]
      <3>1. [p EXCEPT !.op = "none"] \in Page
        BY <1>0 DEF Page
      <3>2. Outcome(IF p.current THEN [p EXCEPT !.boot = "idle"] ELSE p, "transient_error") \in Page
        BY <1>0, PageTypes
      <3> QED BY <1>0, <1>1, <3>1, <3>2, TypeFacts DEF RequestFails, t, p
    <2>2. queue' \in Seq(Tabs)
      BY <1>1, LeaveType, TypeFacts DEF RequestFails
    <2>3. net' \subseteq Message
      <3>1. [m EXCEPT !.live = FALSE] \in Message
        BY <1>0 DEF Message
      <3> QED BY <1>1, <3>1, TypeFacts DEF RequestFails
    <2>4. turns' \in 0..Turns
      BY <1>1, TypeFacts, AuthSessionAssumption DEF RequestFails
    <2> QED BY <1>1, <2>1, <2>2, <2>3, <2>4, TypeFacts, TypeNext DEF RequestFails
  <1>2. CASE RequestLost(m)
    BY <1>2, TypeFacts, TypeNext DEF RequestLost
  <1> QED BY <1>1, <1>2

\* Every step of a tab keeps the types.
LEMMA TabTypes ==
  ASSUME TypeOK, UNCHANGED locks, NEW t \in Tabs, TabStep(t) \/ User(t)
  PROVE  TypeOK'
  <1> DEFINE p == page[t]
  <1>0. p \in Page /\ p.sid \in Sids \union {NoSid}
    BY TypeFacts DEF Page
  <1>00. turns > 0 /\ turns' = turns - 1 => turns' \in 0..Turns
    BY TypeFacts, AuthSessionAssumption
  <1>f. /\ [p EXCEPT !.boot = "complete"] \in Page
        /\ [p EXCEPT !.boot = "checking"] \in Page
        /\ [p EXCEPT !.api = "waiting"] \in Page
        /\ [p EXCEPT !.api = "none"] \in Page
        /\ [p EXCEPT !.run = "start"] \in Page
        /\ [p EXCEPT !.run = "sent"] \in Page
        /\ [p EXCEPT !.op = "login"] \in Page
        /\ [p EXCEPT !.op = "first"] \in Page
        /\ [p EXCEPT !.op = "second"] \in Page
        /\ [p EXCEPT !.fresh = FALSE] \in Page
        /\ [ClearAuthentication(p) EXCEPT !.api = "none"] \in Page
        /\ ClearAuthentication(p) \in Page
        /\ Outcome(p, "transient_error") \in Page
    <2>1. ClearAuthentication(p) \in Page /\ Outcome(p, "transient_error") \in Page
      BY <1>0, PageTypes
    <2>2. \A q \in Page : [q EXCEPT !.api = "none"] \in Page
      BY DEF Page
    <2> HIDE DEF p
    <2>3. /\ [p EXCEPT !.boot = "complete"] \in Page /\ [p EXCEPT !.boot = "checking"] \in Page
          /\ [p EXCEPT !.api = "waiting"] \in Page
          /\ [p EXCEPT !.run = "start"] \in Page /\ [p EXCEPT !.run = "sent"] \in Page
      BY <1>0 DEF Page
    <2>4. /\ [p EXCEPT !.op = "login"] \in Page /\ [p EXCEPT !.op = "first"] \in Page
          /\ [p EXCEPT !.op = "second"] \in Page /\ [p EXCEPT !.fresh = FALSE] \in Page
      BY <1>0 DEF Page
    <2> QED BY <1>0, <2>1, <2>2, <2>3, <2>4
  <1>s. \A kind \in Kinds, s \in Sids \union {NoSid} : Send(t, kind, s) \in Message
    BY SendType
  <1>u. ASSUME NEW q \in Page, page' = [page EXCEPT ![t] = q] PROVE page' \in [Tabs -> Page]
    BY <1>u, TypeFacts
  <1> HIDE DEF p
  <1>1. CASE Resolve(t)
    <2>1. page' \in [Tabs -> Page] /\ queue' \in Seq(Tabs)
      <3>1. \/ page' = [page EXCEPT ![t] = [p EXCEPT !.boot = "complete"]] /\ UNCHANGED queue
            \/ StartRefresh(t, [p EXCEPT !.boot = "checking"])
        BY <1>1 DEF Resolve, p
      <3> QED BY <1>f, <1>u, <3>1, StartTypes, TypeFacts
    <2> QED BY <1>1, <2>1, TypeFacts, TypeNext DEF Resolve
  <1>2. CASE ApiUnauthorized(t)
    <2>1. page' \in [Tabs -> Page] /\ queue' \in Seq(Tabs)
      <3>1. StartRefresh(t, [p EXCEPT !.api = "waiting"])
        BY <1>2 DEF ApiUnauthorized, p
      <3> QED BY <1>f, <3>1, StartTypes
    <2> QED BY <1>2, <2>1, TypeFacts, TypeNext DEF ApiUnauthorized
  <1>3. CASE ApiRetry(t)
    <2>1. \/ page' = [page EXCEPT ![t] = [p EXCEPT !.api = "none"]] /\ UNCHANGED <<net, queue, inbox>>
          \/ LoadPage(t, net, inbox)
          \/ /\ page' = [page EXCEPT ![t] = [ClearAuthentication(p) EXCEPT !.api = "none"]]
             /\ UNCHANGED <<net, queue, inbox>>
      BY <1>3 DEF ApiRetry, p
    <2>2. /\ page' \in [Tabs -> Page] /\ queue' \in Seq(Tabs) /\ net' \subseteq Message
          /\ inbox' \in [Tabs -> Events]
      BY <1>f, <1>u, <2>1, LoadPageTypes, TypeFacts
    <2> QED BY <1>3, <2>2, TypeFacts, TypeNext DEF ApiRetry
  <1>4. CASE GetLock(t)
    <2>1. page' \in [Tabs -> Page]
      BY <1>4, <1>f, <1>u DEF GetLock, p
    <2> QED BY <1>4, <2>1, TypeFacts, TypeNext DEF GetLock
  <1>5. CASE SendRefresh(t)
    <2>1. page' \in [Tabs -> Page]
      BY <1>5, <1>f, <1>u DEF SendRefresh, p
    <2>2. queue' \in Seq(Tabs)
      BY <1>5, LeaveType, TypeFacts DEF SendRefresh
    <2>3. net' \subseteq Message
      BY <1>0, <1>5, <1>s, TypeFacts DEF SendRefresh, Kinds, p
    <2> QED BY <1>5, <2>1, <2>2, <2>3, TypeFacts, TypeNext DEF SendRefresh
  <1>6. CASE LogoutAgain(t)
    <2>1. page' \in [Tabs -> Page]
      BY <1>6, <1>f, <1>u DEF LogoutAgain, p
    <2>2. net' \subseteq Message
      BY <1>0, <1>6, <1>s, TypeFacts DEF LogoutAgain, Kinds, p
    <2> QED BY <1>6, <2>1, <2>2, TypeFacts, TypeNext DEF LogoutAgain
  <1>7. CASE HearEvent(t)
    <2> DEFINE rest == [inbox EXCEPT ![t] = Tail(inbox[t])]
    <2>1. rest \in [Tabs -> Events]
      <3>1. inbox[t] \in Events /\ inbox[t] # <<>>
        BY <1>7, TypeFacts DEF HearEvent
      <3>2. Tail(inbox[t]) \in Events
        BY <3>1 DEF Events
      <3> QED BY <3>2, TypeFacts
    <2>2. \/ LoadPage(t, net, rest)
          \/ page' = [page EXCEPT ![t] = ClearAuthentication(p)] /\ inbox' = rest /\ UNCHANGED <<queue, net>>
          \/ inbox' = rest /\ UNCHANGED <<page, queue, net>>
      BY <1>7 DEF HearEvent, p
    <2>3. /\ page' \in [Tabs -> Page] /\ queue' \in Seq(Tabs) /\ net' \subseteq Message
          /\ inbox' \in [Tabs -> Events]
      <3> HIDE DEF rest
      <3> QED BY <1>f, <1>u, <2>1, <2>2, LoadPageTypes, TypeFacts
    <2> QED BY <1>7, <2>3, TypeFacts, TypeNext DEF HearEvent
  <1>8. CASE Login(t)
    <2>1. page' \in [Tabs -> Page]
      BY <1>8, <1>f, <1>u DEF Login, p
    <2>2. net' \subseteq Message
      BY <1>8, <1>s, TypeFacts DEF Login, Kinds
    <2>3. turns' \in 0..Turns
      BY <1>8, <1>00, TypeFacts DEF Login
    <2> QED BY <1>8, <2>1, <2>2, <2>3, TypeFacts, TypeNext DEF Login
  <1>9. CASE Logout(t)
    <2>1. page' \in [Tabs -> Page]
      BY <1>9, <1>f, <1>u DEF Logout, p
    <2>2. net' \subseteq Message
      BY <1>0, <1>9, <1>s, TypeFacts DEF Logout, Kinds, p
    <2> QED BY <1>00, <1>9, <2>1, <2>2, TypeFacts, TypeNext DEF Logout
  <1>10. CASE AccessExpires(t)
    <2>1. page' \in [Tabs -> Page]
      BY <1>10, <1>f, <1>u DEF AccessExpires, p
    <2> QED BY <1>00, <1>10, <2>1, TypeFacts, TypeNext DEF AccessExpires
  <1>11. CASE Reload(t)
    <2>1. /\ page' \in [Tabs -> Page] /\ queue' \in Seq(Tabs) /\ net' \subseteq Message
          /\ inbox' \in [Tabs -> Events]
      BY <1>11, LoadPageTypes, TypeFacts DEF Reload
    <2> QED BY <1>00, <1>11, <2>1, TypeFacts, TypeNext DEF Reload
  <1> QED
    BY <1>1, <1>2, <1>3, <1>4, <1>5, <1>6, <1>7, <1>8, <1>9, <1>10, <1>11 DEF TabStep, User, Bootstrap

\* So do revocations by others and the end of a window.
LEMMA RowTypes ==
  ASSUME TypeOK, UNCHANGED locks, NEW s \in Sids, RevokeElsewhere(s) \/ GraceEnds(s)
  PROVE  TypeOK'
  <1>1. CASE RevokeElsewhere(s)
    <2>1. row' \in [Sids -> Row]
      BY <1>1, TypeFacts DEF RevokeElsewhere, Revoke, Row
    <2>2. turns' \in 0..Turns
      BY <1>1, TypeFacts, AuthSessionAssumption DEF RevokeElsewhere
    <2> QED BY <1>1, <2>1, <2>2, TypeFacts, TypeNext DEF RevokeElsewhere
  <1>2. CASE GraceEnds(s)
    <2>1. row' \in [Sids -> Row]
      BY <1>2, TypeFacts DEF GraceEnds, Row
    <2> QED BY <1>2, <2>1, TypeFacts, TypeNext DEF GraceEnds
  <1> QED BY <1>1, <1>2

LEMMA TypeStep ==
  ASSUME TypeOK, Served, [Next]_vars
  PROVE  TypeOK'
  <1>1. CASE UNCHANGED vars
    BY <1>1 DEF vars, TypeOK
  <1> QED BY <1>1, ServeTypes, DeliverTypes, FailTypes, TabTypes, RowTypes DEF Next

LEMMA TypeInit == Init => TypeOK
  <1> SUFFICES ASSUME Init PROVE TypeOK
    OBVIOUS
  <1>1. locks \in BOOLEAN
    BY AuthSessionAssumption DEF Init
  <1>2. row \in [Sids -> Row]
    BY DEF Init, Row
  <1>3. page \in [Tabs -> Page]
    BY NewPageType DEF Init
  <1>4. cookie \in Token /\ net \subseteq Message /\ queue \in Seq(Tabs) /\ turns \in 0..Turns
    BY AuthSessionAssumption DEF Init, Token
  <1>5. /\ ended \in [Tabs -> SUBSET Sids]
        /\ inbox \in [Tabs -> Seq([kind : {"authenticated", "signed_out"}, sid : Sids])]
    BY DEF Init
  <1> QED BY <1>1, <1>2, <1>3, <1>4, <1>5 DEF TypeOK

----------------------------------------------------------------------------
(* What a step in the browser, a request and a step of the server do.      *)

TabInv == TypeOK /\ Served /\ OneRefresh /\ Unborn /\ Secret /\ Over /\ NeverBack

Same(n, m) == n.kind = m.kind /\ n.tab = m.tab /\ n.token = m.token /\ n.expect = m.expect

\* A request whose page does not wait for the answer any more.
Faded(n) ==
    /\ ~n.live /\ n.phase \notin Answers
    /\ \E m \in net : Same(n, m) /\ n.phase = m.phase /\ n.set = m.set

Grants(m) == m.phase = "ok" /\ m.kind \in {"refresh", "login"}

\* Requests are only taken off the net, tab t changes, and a new session or
\* cookie comes from an answer that was taken.
Browses(t) ==
    /\ UNCHANGED row
    /\ \A n \in net' : n \in net \/ Faded(n)
    /\ \A u \in Tabs \ {t} : page'[u] = page[u] /\ ended'[u] = ended[u]
    /\ \A n \in net' : IsRefresh(n) /\ n.tab = t =>
         /\ page'[t].run = "sent"
         /\ page'[t].current => page[t].current /\ ended'[t] = ended[t]
    /\ \/ cookie' = cookie \/ cookie' = NoToken
       \/ \E m \in net : m \notin net' /\ Grants(m) /\ cookie' = m.set
    /\ \/ page'[t].sid = page[t].sid /\ ended'[t] = ended[t]
       \/ /\ page'[t].sid = NoSid
          /\ \A s \in ended'[t] :
               s \in ended[t] \/ (row[s].status # "active" /\ \E m \in net : m.expect = s)
       \/ /\ ended'[t] = ended[t]
          /\ \E m \in net : m \notin net' /\ Grants(m) /\ page'[t].sid = m.set.sid /\ m.set.sid \notin ended[t]

\* What the browser does keeps the invariant.
LEMMA BrowsesKeeps ==
  ASSUME TabInv, TypeOK', NEW t \in Tabs, Browses(t)
  PROVE  TabInv'
  <1> USE AuthSessionAssumption DEF TabInv
  <1>0. /\ \A n \in net' : n \in Message
        /\ \A n \in net : n \in Message
        /\ \A u \in Tabs : ended'[u] \subseteq Sids /\ ended[u] \subseteq Sids
    BY DEF TypeOK
  <1>00. NoToken.sid = NoSid /\ NoSid \notin Sids
    BY DEF NoToken
  <1>1. Served'
    BY DEF Served, Browses, Faded, Same
  <1>2. OneRefresh'
    <2>1. \A n \in net' : IsRefresh(n) => n \in net
      BY DEF Browses, Faded, IsRefresh
    <2>2. \A n \in net' : IsRefresh(n) => page'[n.tab].run = "sent"
      BY <1>0, <2>1 DEF Browses, OneRefresh, Message
    <2> QED BY <2>1, <2>2 DEF OneRefresh
  <1>3. \A s \in Sids : Heard(s)' => Heard(s)
    <2> SUFFICES ASSUME NEW s \in Sids, Heard(s)' PROVE Heard(s)
      OBVIOUS
    <2>1. CASE cookie'.sid = s
      BY <1>00, <2>1 DEF Browses, Heard
    <2>2. CASE \E u \in Tabs : page'[u].sid = s \/ s \in ended'[u]
      BY <1>00, <2>2 DEF Browses, Heard
    <2>3. CASE \E n \in net' : n.token.sid = s \/ n.expect = s \/ n.set.sid = s
      BY <2>3 DEF Browses, Faded, Same, Heard
    <2> QED BY <2>1, <2>2, <2>3 DEF Heard
  <1>4. Unborn'
    BY <1>3 DEF Unborn, Browses
  <1>5. Secret'
    <2> SUFFICES ASSUME NEW m \in net', m.kind = "login", m.phase = "ok"
                 PROVE  /\ row'[m.set.sid].gen = 0
                        /\ cookie'.sid # m.set.sid
                        /\ \A u \in Tabs : page'[u].sid # m.set.sid /\ m.set.sid \notin ended'[u]
                        /\ \A n \in net' : n.token.sid # m.set.sid /\ n.expect # m.set.sid
                        /\ \A n \in net' : n # m => n.set.sid # m.set.sid
      BY DEF Secret
    <2>1. m \in net /\ m.set.sid # NoSid
      BY DEF Browses, Faded, Answers, Served
    <2>2. row'[m.set.sid].gen = 0 /\ cookie'.sid # m.set.sid
      BY <1>00, <2>1 DEF Browses, Secret
    <2>3. \A u \in Tabs : page'[u].sid # m.set.sid /\ m.set.sid \notin ended'[u]
      BY <1>00, <2>1 DEF Browses, Secret
    <2>4. \A n \in net' : n.token.sid # m.set.sid /\ n.expect # m.set.sid
      BY <2>1 DEF Browses, Faded, Same, Secret
    <2>5. ASSUME NEW n \in net', n # m PROVE n.set.sid # m.set.sid
      <3>1. CASE n \in net
        BY <2>1, <2>5, <3>1 DEF Secret
      <3>2. CASE Faded(n)
        BY <1>00, <2>1, <3>2 DEF Faded, Served
      <3> QED BY <3>1, <3>2 DEF Browses
    <2> QED BY <2>2, <2>3, <2>4, <2>5
  <1>6. Over'
    <2>1. ASSUME NEW u \in Tabs, NEW s \in ended'[u] PROVE row'[s].status \notin {"none", "active"}
      <3>1. CASE s \in ended[u]
        BY <3>1 DEF Over, Browses
      <3>2. CASE row[s].status # "active" /\ \E m \in net : m.expect = s
        <4>1. s \in Sids /\ Heard(s)
          BY <1>0, <2>1, <3>2 DEF Heard
        <4> QED BY <3>2, <4>1 DEF Unborn, Browses
      <3> QED BY <2>1, <3>1, <3>2 DEF Browses
    <2>2. ASSUME NEW m \in net', IsRefresh(m), m.phase = "ok", m.set.sid \in ended'[m.tab]
          PROVE  ~page'[m.tab].current
      <3>1. m \in net /\ m.tab \in Tabs
        BY <1>0, <2>2 DEF Browses, Faded, IsRefresh, Message
      <3>2. CASE m.tab = t
        BY <2>2, <3>1, <3>2 DEF Browses, Over
      <3>3. CASE m.tab # t
        BY <2>2, <3>1, <3>3 DEF Browses, Over
      <3> QED BY <3>2, <3>3
    <2> QED BY <2>1, <2>2 DEF Over
  <1>7. NeverBack'
    BY <1>0, <1>00 DEF NeverBack, Browses
  <1> QED BY <1>1, <1>2, <1>4, <1>5, <1>6, <1>7

\* A request r of tab t.
Sends(t, r) ==
    /\ UNCHANGED <<row, cookie, ended>>
    /\ net' = net \union {r}
    /\ r.tab = t /\ r.live /\ r.phase = "sent" /\ r.set = NoToken /\ r.token = cookie
    /\ r.expect = NoSid \/ r.expect = page[t].sid
    /\ \A u \in Tabs : page'[u].sid = page[u].sid /\ (page'[u].current => page[u].current)
    /\ \A u \in Tabs : page[u].run = "sent" => page'[u].run = "sent"
    /\ r.kind = "refresh" => page[t].run = "start" /\ page'[t].run = "sent"

LEMMA SendsKeeps ==
  ASSUME TabInv, TypeOK', NEW t \in Tabs, NEW r, Sends(t, r)
  PROVE  TabInv'
  <1> USE AuthSessionAssumption DEF TabInv
  <1>0. /\ \A n \in net' : n \in Message
        /\ \A n \in net : n \in Message
    BY DEF TypeOK
  <1>00. NoToken.sid = NoSid /\ NoSid \notin Sids
    BY DEF NoToken
  <1>1. Served'
    BY DEF Served, Sends, Answers, Denied
  <1>2. OneRefresh'
    <2>1. \A n \in net : IsRefresh(n) /\ IsRefresh(r) => n.tab # r.tab
      BY DEF OneRefresh, Sends, IsRefresh
    <2>2. \A n \in net' : IsRefresh(n) => page'[n.tab].run = "sent"
      BY <1>0 DEF OneRefresh, Sends, IsRefresh, Message
    <2> QED BY <2>1, <2>2 DEF OneRefresh, Sends
  <1>3. \A s \in Sids : Heard(s)' => Heard(s)
    BY <1>00 DEF Heard, Sends
  <1>4. Unborn'
    BY <1>3 DEF Unborn, Sends
  <1>5. Secret'
    BY <1>00 DEF Secret, Sends, Served
  <1>6. Over'
    BY <1>0 DEF Over, Sends, IsRefresh, Message
  <1>7. NeverBack'
    BY DEF NeverBack, Sends
  <1> QED BY <1>1, <1>2, <1>4, <1>5, <1>6, <1>7

\* What a step may do to the rows: a session that has ended stays so, only `born`
\* begins, and only `turned`, which is active, is rotated.
RowsMove(born, turned) ==
    \A s \in Sids :
        /\ row[s].status \notin {"none", "active"} => row'[s].status = row[s].status
        /\ row[s].status = "active" => row'[s].status # "none"
        /\ row[s].status = "none" /\ s # born => row'[s].status = "none"
        /\ s # turned \/ row[s].status # "active" => row'[s].gen = row[s].gen

\* The server takes request m one step further, to r.
Serves(m, r) ==
    /\ UNCHANGED <<cookie, page, ended>>
    /\ \A n \in net' : (n \in net /\ n # m) \/ n = r
    /\ Same(r, m) /\ (r.live <=> m.live)
    /\ r \in net' /\ r.phase \in Answers => m.live
    /\ r.phase \in {"rotate", "swap", "reuse"} => m.kind = "refresh" /\ m.token # NoToken
    /\ m.kind = "login" /\ r.phase \in Answers => r.phase = "ok"
    /\ r.phase \notin Answers => r.set = NoToken
    /\ m.kind = "refresh" /\ r.phase = "ok" =>
         /\ m.token # NoToken /\ r.set = DeriveNext(m.token)
         /\ row[m.token.sid].status = "active"
    /\ m.kind = "login" /\ r.phase = "ok" =>
         r.set.sid \in Sids /\ r.set.gen = 0 /\ row[r.set.sid].status = "none" /\ row'[r.set.sid].status = "active"
    /\ m.kind # "login" \/ r.phase # "ok" => r.set.sid = NoSid \/ r.set.sid = m.token.sid
    /\ m.kind = "logout" /\ r.phase = "ok" => r.set = NoToken
    /\ r.phase \in Denied => r.set = NoToken
    /\ \E born : RowsMove(born, m.token.sid) /\ (born # NoSid => m.kind = "login" /\ r.phase = "ok" /\ born = r.set.sid)

LEMMA ServesKeeps ==
  ASSUME TabInv, TypeOK', NEW m \in net, NEW r, Serves(m, r)
  PROVE  TabInv'
  <1> USE AuthSessionAssumption DEF TabInv
  <1>0. /\ \A n \in net' : n \in Message
        /\ \A n \in net : n \in Message
        /\ \A u \in Tabs : ended[u] \subseteq Sids
        /\ \A n \in net : n.set.sid \in Sids \union {NoSid} /\ n.token.sid \in Sids \union {NoSid}
    <2>1. /\ net \subseteq Message /\ net' \subseteq Message
          /\ \A u \in Tabs : ended[u] \subseteq Sids
      BY DEF TypeOK
    <2>2. \A x \in Token : x.sid \in Sids \union {NoSid}
      BY DEF Token, NoToken
    <2>3. \A n \in Message : n.set \in Token /\ n.token \in Token
      BY DEF Message
    <2> QED BY <2>1, <2>2, <2>3
  <1>00. NoToken.sid = NoSid /\ NoSid \notin Sids /\ DeriveNext(m.token).sid = m.token.sid
    BY DEF NoToken, DeriveNext
  <1>1. Served'
    BY <1>00 DEF Served, Serves, Same
  <1>2. OneRefresh'
    BY DEF OneRefresh, Serves, Same, IsRefresh
  <1>3. \A s \in Sids : row'[s].status = "none" => row[s].status = "none" /\ row'[s].gen = row[s].gen
    BY <1>00 DEF Serves, RowsMove
  <1>4. \A s \in Sids : Heard(s)' => Heard(s) \/ row'[s].status = "active"
    BY <1>00 DEF Heard, Serves, Same
  <1>5. Unborn'
    BY <1>3, <1>4 DEF Unborn
  <1>6. Secret'
    <2> SUFFICES ASSUME NEW k \in net', k.kind = "login", k.phase = "ok"
                 PROVE  /\ row'[k.set.sid].gen = 0
                        /\ cookie'.sid # k.set.sid
                        /\ \A u \in Tabs : page'[u].sid # k.set.sid /\ k.set.sid \notin ended'[u]
                        /\ \A n \in net' : n.token.sid # k.set.sid /\ n.expect # k.set.sid
                        /\ \A n \in net' : n # k => n.set.sid # k.set.sid
      BY DEF Secret
    <2>1. CASE k = r
      <3>1. k.set.sid \in Sids /\ row[k.set.sid].status = "none"
        BY <2>1 DEF Serves, Same
      <3>2. ~Heard(k.set.sid) /\ row[k.set.sid].gen = 0
        BY <3>1 DEF Unborn
      <3>3. row'[k.set.sid].gen = 0
        BY <3>1, <3>2 DEF Serves, RowsMove
      <3> QED BY <2>1, <3>2, <3>3 DEF Serves, Same, Heard
    <2>2. CASE k \in net /\ k # m
      <3>1. k.set.sid \in Sids /\ Heard(k.set.sid) /\ m.token.sid # k.set.sid
        BY <1>0, <2>2 DEF Served, Heard, Secret
      <3>2. row'[k.set.sid].gen = 0
        BY <2>2, <3>1 DEF Serves, RowsMove, Secret
      <3>3. r.set.sid # k.set.sid
        BY <3>1, <1>00 DEF Serves, Unborn
      <3> QED BY <2>2, <3>2, <3>3 DEF Serves, Same, Secret
    <2> QED BY <2>1, <2>2 DEF Serves
  <1>7. Over'
    <2>1. ASSUME NEW u \in Tabs, NEW s \in ended'[u] PROVE row'[s].status \notin {"none", "active"}
      BY <1>0, <2>1 DEF Over, Serves, RowsMove
    <2>2. ASSUME NEW n \in net', IsRefresh(n), n.phase = "ok", n.set.sid \in ended'[n.tab]
          PROVE  ~page'[n.tab].current
      <3>1. CASE n = r
        <4>1. row[n.set.sid].status = "active" /\ n.tab \in Tabs
          BY <1>0, <1>00, <2>2, <3>1 DEF Serves, Same, IsRefresh, Message
        <4> QED BY <2>2, <4>1 DEF Over, Serves
      <3>2. CASE n \in net
        BY <2>2, <3>2 DEF Over, Serves
      <3> QED BY <3>1, <3>2 DEF Serves
    <2> QED BY <2>1, <2>2 DEF Over
  <1>8. NeverBack'
    BY DEF NeverBack, Serves
  <1> QED BY <1>1, <1>2, <1>5, <1>6, <1>7, <1>8

\* Sessions end, or windows, and nothing else happens.
LEMMA RowsKeeps ==
  ASSUME TabInv, TypeOK', RowsMove(NoSid, NoSid), UNCHANGED <<net, cookie, page, ended>>
  PROVE  TabInv'
  <1> USE AuthSessionAssumption DEF TabInv
  <1>0. /\ \A u \in Tabs : ended[u] \subseteq Sids
        /\ \A n \in net : n.set.sid \in Sids \union {NoSid}
    BY DEF TypeOK, Message, Token, NoToken
  <1>1. Served' /\ OneRefresh' /\ NeverBack'
    BY DEF Served, OneRefresh, NeverBack, IsRefresh
  <1>2. \A s : Heard(s)' <=> Heard(s)
    BY DEF Heard
  <1>3. Unborn'
    BY <1>2 DEF Unborn, RowsMove
  <1>4. Secret'
    BY <1>0 DEF Secret, RowsMove, Served
  <1>5. Over'
    BY <1>0 DEF Over, RowsMove, IsRefresh
  <1> QED BY <1>1, <1>3, <1>4, <1>5

\* The request after a step of the server.
Then(m, phase, set) == [m EXCEPT !.phase = phase, !.set = set]

LEMMA ThenIs ==
  ASSUME NEW m \in Message, NEW phase, NEW set
  PROVE  LET r == Then(m, phase, set)
         IN  Same(r, m) /\ r.live = m.live /\ r.phase = phase /\ r.set = set /\ r.bearer = m.bearer
  BY DEF Then, Same, Message

LEMMA AdvanceIs ==
  ASSUME NEW m \in Message, NEW phase, m.set = NoToken
  PROVE  [m EXCEPT !.phase = phase] = Then(m, phase, NoToken)
  BY DEF Then, Message

\* A step of the server that leaves the rows to their rules.
LEMMA ServesOne ==
  ASSUME TabInv, NEW m \in net, NEW phase, NEW set, NEW born,
         UNCHANGED <<cookie, page, ended>>,
         RowsMove(born, m.token.sid),
         m.phase \notin Answers,
         \/ Answer(m, phase, set) /\ phase \in Answers
         \/ Advance(m, phase) /\ phase \notin Answers /\ set = NoToken,
         m.kind = "login" /\ phase \in Answers => phase = "ok",
         phase \in {"rotate", "swap", "reuse"} => m.kind = "refresh" /\ m.token # NoToken,
         m.kind = "refresh" /\ phase = "ok" =>
             m.token # NoToken /\ set = DeriveNext(m.token) /\ row[m.token.sid].status = "active",
         m.kind = "login" /\ phase = "ok" =>
             set.sid \in Sids /\ set.gen = 0 /\ row[set.sid].status = "none" /\ row'[set.sid].status = "active",
         m.kind # "login" \/ phase # "ok" => set.sid = NoSid \/ set.sid = m.token.sid,
         m.kind = "logout" /\ phase = "ok" => set = NoToken,
         phase \in Denied => set = NoToken,
         born # NoSid => m.kind = "login" /\ phase = "ok" /\ born = set.sid
  PROVE  Serves(m, Then(m, phase, set))
  <1> DEFINE r == Then(m, phase, set)
  <1>0. m \in Message /\ m.set = NoToken
    BY DEF TabInv, TypeOK, Served
  <1>1. Same(r, m) /\ r.live = m.live /\ r.phase = phase /\ r.set = set
    BY <1>0, ThenIs
  <1>2. /\ \A n \in net' : (n \in net /\ n # m) \/ n = r
        /\ r \in net' /\ r.phase \in Answers => m.live
    <2>1. CASE Advance(m, phase) /\ phase \notin Answers /\ set = NoToken
      <3>1. [m EXCEPT !.phase = phase] = r
        BY <1>0, <2>1, AdvanceIs
      <3> HIDE DEF r
      <3> QED BY <1>1, <2>1, <3>1 DEF Advance
    <2>2. CASE Answer(m, phase, set) /\ phase \in Answers
      <3>1. net' = (net \ {m}) \union (IF m.live THEN {r} ELSE {})
        BY <2>2 DEF Answer, Reply, Then
      <3>2. m.phase # r.phase
        BY <1>1, <2>2
      <3>3. r \in net' => m.live
        <4>1. CASE m.live
          BY <4>1
        <4>2. CASE ~m.live
          <5>1. ~r.live
            BY <1>1, <4>2
          <5>2. r \notin net
            BY <1>1, <2>2, <5>1 DEF TabInv, Served
          <5> QED BY <3>1, <4>2, <5>2
        <4> QED BY <4>1, <4>2
      <3> QED BY <3>1, <3>3
    <2> QED BY <2>1, <2>2
  <1> HIDE DEF r
  <1>3. r.live <=> m.live
    BY <1>1
  <1>4. /\ r.phase \in {"rotate", "swap", "reuse"} => m.kind = "refresh" /\ m.token # NoToken
        /\ m.kind = "login" /\ r.phase \in Answers => r.phase = "ok"
        /\ r.phase \notin Answers => r.set = NoToken
        /\ m.kind = "refresh" /\ r.phase = "ok" =>
             m.token # NoToken /\ r.set = DeriveNext(m.token) /\ row[m.token.sid].status = "active"
        /\ m.kind = "login" /\ r.phase = "ok" =>
             /\ r.set.sid \in Sids /\ r.set.gen = 0
             /\ row[r.set.sid].status = "none" /\ row'[r.set.sid].status = "active"
        /\ m.kind # "login" \/ r.phase # "ok" => r.set.sid = NoSid \/ r.set.sid = m.token.sid
        /\ m.kind = "logout" /\ r.phase = "ok" => r.set = NoToken
        /\ r.phase \in Denied => r.set = NoToken
    BY <1>1
  <1>5. \E b : RowsMove(b, m.token.sid) /\ (b # NoSid => m.kind = "login" /\ r.phase = "ok" /\ b = r.set.sid)
    BY <1>1
  <1> QED BY <1>1, <1>2, <1>3, <1>4, <1>5 DEF Serves, r

\* Rows that do not change, or of which one is revoked.
LEMMA RowsStay ==
  ASSUME TypeOK, NEW x
  PROVE  /\ UNCHANGED row => RowsMove(NoSid, x)
         /\ \A s \in Sids, why \in {"logout", "refresh_reuse", "user_revoked"} :
              row[s].status = "active" /\ Revoke(s, why) => RowsMove(NoSid, x)
  <1>1. UNCHANGED row => RowsMove(NoSid, x)
    BY DEF RowsMove
  <1>2. ASSUME NEW s \in Sids, NEW why \in {"logout", "refresh_reuse", "user_revoked"},
               row[s].status = "active", Revoke(s, why)
        PROVE  RowsMove(NoSid, x)
    <2>1. \A u \in Sids : row[u] \in Row
      BY DEF TypeOK
    <2>2. \A u \in Sids : /\ row'[u].gen = row[u].gen
                          /\ row'[u].status = IF u = s THEN why ELSE row[u].status
      BY <1>2, <2>1 DEF TypeOK, Revoke, Row
    <2> QED BY <1>2, <2>2 DEF RowsMove
  <1> QED BY <1>1, <1>2

\* Every step of the server is one of these.
LEMMA ServeServes ==
  ASSUME TabInv, NEW m \in net, Serve(m) \/ ServeFails(m)
  PROVE  \E r : Serves(m, r)
  <1>0. m \in Message /\ m.token \in Token /\ TypeOK
    BY DEF TabInv, TypeOK, Message
  <1>00. NoToken.sid = NoSid /\ NoSid \notin Sids
    BY AuthSessionAssumption DEF NoToken
  <1>01. UNCHANGED row => RowsMove(NoSid, m.token.sid)
    BY <1>0, RowsStay
  <1>1. CASE ServeLookup(m)
    <2>1. UNCHANGED <<row, cookie, page, ended>> /\ m.kind = "refresh" /\ m.phase = "sent"
      BY <1>1 DEF ServeLookup
    <2>2. \/ Answer(m, "unauthorized", NoToken)
          \/ Answer(m, "mismatch", m.token)
          \/ Advance(m, "rotate") /\ m.token # NoToken
      BY <1>1 DEF ServeLookup
    <2>3. CASE Answer(m, "unauthorized", NoToken)
      <3>1. Serves(m, Then(m, "unauthorized", NoToken))
        BY <1>00, <1>01, <2>1, <2>3, ServesOne DEF Answers, Denied
      <3> QED BY <3>1
    <2>4. CASE Answer(m, "mismatch", m.token)
      <3>1. Serves(m, Then(m, "mismatch", m.token))
        BY <1>00, <1>01, <2>1, <2>4, ServesOne DEF Answers, Denied
      <3> QED BY <3>1
    <2>5. CASE Advance(m, "rotate") /\ m.token # NoToken
      <3>1. Serves(m, Then(m, "rotate", NoToken))
        BY <1>00, <1>01, <2>1, <2>5, ServesOne DEF Answers, Denied
      <3> QED BY <3>1
    <2> QED BY <2>2, <2>3, <2>4, <2>5
  <1>2. CASE ServeRead(m)
    <2>1. UNCHANGED <<row, cookie, page, ended>> /\ m.kind = "refresh" /\ m.phase = "rotate"
      BY <1>2 DEF ServeRead
    <2>2. m.token # NoToken
      BY <2>1 DEF TabInv, Served
    <2>3. \/ Answer(m, "internal", m.token)
          \/ \E phase \in {"swap", "reuse"} : Advance(m, phase)
          \/ Answer(m, "unauthorized", NoToken)
          \/ \E phase \in {"ok", "race"} :
               row[m.token.sid].status = "active" /\ Answer(m, phase, DeriveNext(m.token))
      BY <1>2 DEF ServeRead
    <2>4. CASE Answer(m, "internal", m.token)
      <3>1. Serves(m, Then(m, "internal", m.token))
        BY <1>00, <1>01, <2>1, <2>4, ServesOne DEF Answers, Denied
      <3> QED BY <3>1
    <2>5. CASE \E phase \in {"swap", "reuse"} : Advance(m, phase)
      <3>1. PICK phase \in {"swap", "reuse"} : Advance(m, phase)
        BY <2>5
      <3>2. Serves(m, Then(m, phase, NoToken))
        BY <1>00, <1>01, <2>1, <2>2, <3>1, ServesOne DEF Answers, Denied
      <3> QED BY <3>2
    <2>6. CASE Answer(m, "unauthorized", NoToken)
      <3>1. Serves(m, Then(m, "unauthorized", NoToken))
        BY <1>00, <1>01, <2>1, <2>6, ServesOne DEF Answers, Denied
      <3> QED BY <3>1
    <2>7. ASSUME NEW phase \in {"ok", "race"}, row[m.token.sid].status = "active",
                 Answer(m, phase, DeriveNext(m.token))
          PROVE  Serves(m, Then(m, phase, DeriveNext(m.token)))
      BY <1>00, <1>01, <2>1, <2>2, <2>7, ServesOne DEF Answers, Denied, DeriveNext
    <2> QED BY <2>3, <2>4, <2>5, <2>6, <2>7
  <1>3. CASE ServeSwap(m)
    <2>1. UNCHANGED <<cookie, page, ended>> /\ m.kind = "refresh" /\ m.phase = "swap"
      BY <1>3 DEF ServeSwap
    <2>2. m.token # NoToken
      BY <2>1 DEF TabInv, Served
    <2>3. CASE row[m.token.sid].status = "active" /\ row[m.token.sid].gen = m.token.gen
      <3>1. /\ Answer(m, "ok", DeriveNext(m.token))
            /\ row' = [row EXCEPT ![m.token.sid] = [status |-> "active", gen |-> DeriveNext(m.token).gen,
                                                    prev |-> m.token.gen, grace |-> TRUE]]
        BY <1>3, <2>3 DEF ServeSwap
      <3>2. RowsMove(NoSid, m.token.sid)
        <4>1. \A s \in Sids : /\ row'[s].status = row[s].status
                              /\ s # m.token.sid => row'[s] = row[s]
          BY <1>0, <2>3, <3>1 DEF TypeOK
        <4> QED BY <2>3, <4>1 DEF RowsMove
      <3>3. Serves(m, Then(m, "ok", DeriveNext(m.token)))
        BY <1>00, <2>1, <2>2, <2>3, <3>1, <3>2, ServesOne DEF Answers, Denied, DeriveNext
      <3> QED BY <3>3
    <2>4. CASE ~(row[m.token.sid].status = "active" /\ row[m.token.sid].gen = m.token.gen)
      <3>1. Advance(m, "rotate") /\ UNCHANGED row
        BY <1>3, <2>4 DEF ServeSwap
      <3>2. Serves(m, Then(m, "rotate", NoToken))
        BY <1>00, <1>01, <2>1, <2>2, <3>1, ServesOne DEF Answers, Denied
      <3> QED BY <3>2
    <2> QED BY <2>3, <2>4
  <1>4. CASE ServeReuse(m)
    <2>1. UNCHANGED <<cookie, page, ended>> /\ m.kind = "refresh" /\ m.phase = "reuse"
      BY <1>4 DEF ServeReuse
    <2>2. m.token.sid \in Sids
      BY <1>0, <2>1, DeriveType DEF TabInv, Served
    <2>3. CASE row[m.token.sid].status = "active"
      <3>1. Revoke(m.token.sid, "refresh_reuse") /\ Answer(m, "unauthorized", NoToken)
        BY <1>4, <2>3 DEF ServeReuse
      <3>2. RowsMove(NoSid, m.token.sid)
        BY <1>0, <2>2, <2>3, <3>1, RowsStay
      <3>3. Serves(m, Then(m, "unauthorized", NoToken))
        BY <1>00, <2>1, <3>1, <3>2, ServesOne DEF Answers, Denied
      <3> QED BY <3>3
    <2>4. CASE row[m.token.sid].status # "active"
      <3>1. Answer(m, "internal", m.token) /\ UNCHANGED row
        BY <1>4, <2>4 DEF ServeReuse
      <3>2. Serves(m, Then(m, "internal", m.token))
        BY <1>00, <1>01, <2>1, <3>1, ServesOne DEF Answers, Denied
      <3> QED BY <3>2
    <2> QED BY <2>3, <2>4
  <1>5. CASE ServeLogout(m)
    <2>1. UNCHANGED <<cookie, page, ended>> /\ m.kind = "logout" /\ m.phase = "sent"
      BY <1>5 DEF ServeLogout
    <2>2. RowsMove(NoSid, m.token.sid)
      <3>1. m.bearer \in Sids \union {NoSid} /\ m.token.sid \in Sids \union {NoSid}
        BY <1>0 DEF Message, Token, NoToken
      <3>2. UNCHANGED row \/ \E s \in Sids : row[s].status = "active" /\ Revoke(s, "logout")
        BY <1>5, <3>1 DEF ServeLogout
      <3> QED BY <1>0, <3>2, RowsStay
    <2>3. \/ Answer(m, "mismatch", m.token)
          \/ Answer(m, "kept", NoToken)
          \/ Answer(m, "ok", NoToken)
      BY <1>5 DEF ServeLogout
    <2>4. CASE Answer(m, "mismatch", m.token)
      <3>1. Serves(m, Then(m, "mismatch", m.token))
        BY <1>00, <2>1, <2>2, <2>4, ServesOne DEF Answers, Denied
      <3> QED BY <3>1
    <2>5. ASSUME NEW phase \in {"kept", "ok"}, Answer(m, phase, NoToken) PROVE Serves(m, Then(m, phase, NoToken))
      BY <1>00, <2>1, <2>2, <2>5, ServesOne DEF Answers, Denied
    <2> QED BY <2>3, <2>4, <2>5
  <1>6. CASE \E s \in Sids : ServeLogin(m, s)
    <2>1. PICK s \in Sids : ServeLogin(m, s)
      BY <1>6
    <2>2. /\ UNCHANGED <<cookie, page, ended>> /\ m.kind = "login" /\ m.phase = "sent"
          /\ row[s].status = "none" /\ row' = [row EXCEPT ![s].status = "active"]
          /\ Answer(m, "ok", [sid |-> s, gen |-> 0])
      BY <2>1 DEF ServeLogin
    <2>3. RowsMove(s, m.token.sid) /\ row'[s].status = "active"
      <3>1. \A u \in Sids : row[u] \in Row
        BY <1>0 DEF TypeOK
      <3>2. \A u \in Sids : /\ row'[u].gen = row[u].gen
                            /\ row'[u].status = IF u = s THEN "active" ELSE row[u].status
        BY <1>0, <2>2, <3>1 DEF TypeOK, Row
      <3> QED BY <2>2, <3>2 DEF RowsMove
    <2>4. Serves(m, Then(m, "ok", [sid |-> s, gen |-> 0]))
      BY <1>00, <2>2, <2>3, ServesOne DEF Answers, Denied
    <2> QED BY <2>4
  <1>7. CASE ServeFails(m)
    <2>1. /\ UNCHANGED <<row, cookie, page, ended>> /\ m.kind = "refresh"
          /\ m.phase \in {"sent", "rotate", "swap", "reuse"}
      BY <1>7 DEF ServeFails
    <2>2. Answer(m, "unread", NoToken) \/ Answer(m, "internal", m.token)
      BY <1>7 DEF ServeFails
    <2>3. m.phase \notin Answers
      BY <2>1 DEF Answers, Denied
    <2>4. CASE Answer(m, "unread", NoToken)
      <3>1. Serves(m, Then(m, "unread", NoToken))
        BY <1>00, <1>01, <2>1, <2>3, <2>4, ServesOne DEF Answers, Denied
      <3> QED BY <3>1
    <2>5. CASE Answer(m, "internal", m.token)
      <3>1. Serves(m, Then(m, "internal", m.token))
        BY <1>00, <1>01, <2>1, <2>3, <2>5, ServesOne DEF Answers, Denied
      <3> QED BY <3>1
    <2> QED BY <2>2, <2>4, <2>5
  <1> QED BY <1>1, <1>2, <1>3, <1>4, <1>5, <1>6, <1>7 DEF Serve

\* What the changes of a tab's memory leave in it.
LEMMA PageAfter ==
  ASSUME NEW p \in Page, NEW s, NEW b, NEW kind
  PROVE  /\ ResetStore(p, b).sid = NoSid /\ ResetStore(p, b).run = p.run /\ ResetStore(p, b).current = p.current
         /\ ApplyAuthBundle(p, s).sid = s /\ ~ApplyAuthBundle(p, s).current
         /\ ClearAuthentication(p).sid = NoSid /\ ~ClearAuthentication(p).current
         /\ ClearAuthentication(p).run = p.run
         /\ Outcome(p, kind).sid = p.sid /\ ~Outcome(p, kind).current /\ Outcome(p, kind).run = "none"
  <1>1. ResetStore(p, b).sid = NoSid /\ ResetStore(p, b).run = p.run /\ ResetStore(p, b).current = p.current
    BY DEF ResetStore, Page
  <1>2. ApplyAuthBundle(p, s).sid = s /\ ApplyAuthBundle(p, s).current = FALSE
    BY DEF ApplyAuthBundle, Supersede, SetBundle, Page
  <1>3. /\ ClearAuthentication(p).sid = NoSid /\ ClearAuthentication(p).current = FALSE
        /\ ClearAuthentication(p).run = p.run
    BY DEF ClearAuthentication, Supersede, ResetStore, Page
  <1>4. Outcome(p, kind).sid = p.sid /\ Outcome(p, kind).current = FALSE /\ Outcome(p, kind).run = "none"
    BY DEF Outcome, Page
  <1> QED BY <1>1, <1>2, <1>3, <1>4

\* The cookie stays, is cleared, or comes with an answer that was taken.
CookieKept ==
    \/ cookie' = cookie \/ cookie' = NoToken
    \/ \E m \in net : m \notin net' /\ Grants(m) /\ cookie' = m.set

\* Tab t's memory becomes q.
LEMMA TabBrowses ==
  ASSUME TabInv, NEW t \in Tabs, NEW q, UNCHANGED <<row, ended>>, CookieKept,
         page' = [page EXCEPT ![t] = q],
         \A n \in net' : n \in net \/ Faded(n),
         \A n \in net' : IsRefresh(n) /\ n.tab = t => q.run = "sent" /\ (q.current => page[t].current),
         \/ q.sid = page[t].sid \/ q.sid = NoSid
         \/ \E m \in net : m \notin net' /\ Grants(m) /\ q.sid = m.set.sid /\ m.set.sid \notin ended[t]
  PROVE  Browses(t)
  <1>1. page'[t] = q /\ \A u \in Tabs \ {t} : page'[u] = page[u]
    BY DEF TabInv, TypeOK
  <1> QED BY <1>1 DEF Browses, CookieKept

\* Loading a page leaves it no request that it waits for.
LEMMA LoadBrowses ==
  ASSUME TabInv, NEW t \in Tabs, NEW msgs \in SUBSET net, NEW events, LoadPage(t, msgs, events),
         UNCHANGED <<row, ended>>, CookieKept
  PROVE  Browses(t)
  <1>1. ASSUME NEW n \in net' PROVE (n \in net \/ Faded(n)) /\ ~(IsRefresh(n) /\ n.tab = t)
    <2>1. PICK m \in msgs : /\ m.tab = t => m.phase \notin Answers
                            /\ n = IF m.tab = t THEN [m EXCEPT !.live = FALSE] ELSE m
      BY <1>1 DEF LoadPage, Orphaned
    <2>2. CASE m.tab = t
      <3>1. m \in Message
        BY DEF TabInv, TypeOK
      <3>2. Same(n, m) /\ n.live = FALSE /\ n.phase = m.phase /\ n.set = m.set
        BY <2>1, <2>2, <3>1 DEF Message, Same
      <3> QED BY <2>1, <2>2, <3>2 DEF Faded, IsRefresh
    <2>3. CASE m.tab # t
      BY <2>1, <2>3
    <2> QED BY <2>2, <2>3
  <1>2. page' = [page EXCEPT ![t] = NewPage] /\ NewPage.sid = NoSid
    BY DEF LoadPage, NewPage
  <1> QED BY <1>1, <1>2, TabBrowses

\* An answer is taken by the page that waits for it, and its cookie stored.
LEMMA Taken ==
  ASSUME TabInv, NEW m \in net, m.phase \in Answers, StoreCookie(m),
         \/ net' = net \ {m}
         \/ net' = Orphaned(m.tab, net \ {m})
  PROVE  m \notin net' /\ CookieKept
  <1>0. m.live /\ \A n \in net : n \in Message
    BY DEF TabInv, TypeOK, Served
  <1>1. m \notin net'
    <2>1. CASE net' = Orphaned(m.tab, net \ {m})
      <3> SUFFICES ASSUME m \in net' PROVE FALSE
        OBVIOUS
      <3>1. PICK n \in net \ {m} : m = IF n.tab = m.tab THEN [n EXCEPT !.live = FALSE] ELSE n
        BY <2>1 DEF Orphaned
      <3>2. m = [n EXCEPT !.live = FALSE]
        BY <3>1
      <3>3. [n EXCEPT !.live = FALSE].live = FALSE
        BY <1>0, <3>1 DEF Message
      <3> QED BY <1>0, <3>2, <3>3
    <2> QED BY <2>1
  <1>2. CookieKept
    <2>1. CASE m.phase = "ok" /\ m.kind # "logout"
      <3>1. Grants(m)
        BY <1>0, <2>1 DEF Grants, Message, Kinds
      <3> QED BY <1>1, <2>1, <3>1 DEF CookieKept, StoreCookie
    <2>2. CASE (m.phase = "ok" /\ m.kind = "logout") \/ m.phase \in Denied
      BY <2>2 DEF CookieKept, StoreCookie, TabInv, Served
    <2>3. CASE m.phase \notin {"ok"} \union Denied
      BY <2>3 DEF CookieKept, StoreCookie
    <2> QED BY <2>1, <2>2, <2>3
  <1> QED BY <1>1, <1>2

\* Starting or joining a refresh, for a tab whose memory is p.
LEMMA StartBrowses ==
  ASSUME TabInv, NEW t \in Tabs, NEW p \in Page, StartRefresh(t, p),
         p.sid = page[t].sid, p.run = page[t].run, p.current = page[t].current,
         UNCHANGED <<row, ended>>, CookieKept, \A n \in net' : n \in net
  PROVE  Browses(t)
  <1>1. CASE p.run # "none"
    <2>1. page' = [page EXCEPT ![t] = p]
      BY <1>1 DEF StartRefresh
    <2>2. \A n \in net' : IsRefresh(n) /\ n.tab = t => p.run = "sent"
      BY DEF TabInv, OneRefresh
    <2> QED BY <2>1, <2>2, TabBrowses
  <1>2. CASE p.run = "none"
    <2>1. PICK q : page' = [page EXCEPT ![t] = q] /\ q.sid = p.sid
      <3>1. [p EXCEPT !.run = IF locks THEN "queued" ELSE "start",
                      !.current = TRUE, !.race = 0, !.again = TRUE].sid = p.sid
        BY DEF Page
      <3> QED BY <1>2, <3>1 DEF StartRefresh
    <2>2. \A n \in net' : ~(IsRefresh(n) /\ n.tab = t)
      BY <1>2 DEF TabInv, OneRefresh
    <2> QED BY <2>1, <2>2, TabBrowses
  <1> QED BY <1>1, <1>2

\* The tab of an answered refresh has no other one.
LEMMA Alone ==
  ASSUME TabInv, NEW m \in net, IsRefresh(m)
  PROVE  \A n \in net \ {m} : ~(IsRefresh(n) /\ n.tab = m.tab)
  BY DEF TabInv, OneRefresh

\* The end of a refresh that leaves the tab with p.
LEMMA FinishBrowses ==
  ASSUME TabInv, NEW m \in net, IsRefresh(m), m.phase \in Answers, StoreCookie(m),
         NEW p \in Page, NEW kind, NEW events, Finish(m.tab, m, p, kind, events),
         \/ p.sid = page[m.tab].sid \/ p.sid = NoSid
         \/ Grants(m) /\ p.sid = m.set.sid /\ m.set.sid \notin ended[m.tab]
  PROVE  Browses(m.tab)
  <1>0. m.tab \in Tabs /\ UNCHANGED <<row, ended>>
    BY DEF TabInv, TypeOK, Message, Finish
  <1>1. CASE page' = [page EXCEPT ![m.tab] = Outcome(p, kind)] /\ net' = net \ {m}
    <2>1. Outcome(p, kind).sid = p.sid
      BY PageAfter
    <2>2. m \notin net' /\ CookieKept
      BY <1>1, Taken
    <2>3. \A n \in net' : n \in net /\ ~(IsRefresh(n) /\ n.tab = m.tab)
      BY <1>1, Alone
    <2> QED BY <1>0, <1>1, <2>1, <2>2, <2>3, TabBrowses
  <1>2. CASE LoadPage(m.tab, net \ {m}, events)
    <2>1. CookieKept
      BY <1>2, Taken DEF LoadPage
    <2> QED BY <1>0, <1>2, <2>1, LoadBrowses
  <1> QED BY <1>1, <1>2 DEF Finish

\* The tab tries again with p.
LEMMA RetryBrowses ==
  ASSUME TabInv, NEW m \in net, IsRefresh(m), m.phase \in Answers, StoreCookie(m),
         NEW p \in Page, Retry(m.tab, m, p),
         p.sid = page[m.tab].sid \/ p.sid = NoSid
  PROVE  Browses(m.tab)
  <1>0. m.tab \in Tabs /\ UNCHANGED <<row, ended>> /\ net' = net \ {m}
    BY DEF TabInv, TypeOK, Message, Retry
  <1>1. page' = [page EXCEPT ![m.tab] = [p EXCEPT !.run = "start"]]
    BY DEF Retry
  <1>2. [p EXCEPT !.run = "start"].sid = p.sid
    BY DEF Page
  <1>3. m \notin net' /\ CookieKept
    BY <1>0, Taken
  <1>4. \A n \in net' : n \in net /\ ~(IsRefresh(n) /\ n.tab = m.tab)
    BY <1>0, Alone
  <1> QED BY <1>0, <1>1, <1>2, <1>3, <1>4, TabBrowses

\* The pending call of the user is not the session's business.
LEMMA OpAfter ==
  ASSUME NEW p \in Page, NEW o
  PROVE  \E q : /\ q = [p EXCEPT !.op = o]
                /\ q.sid = p.sid /\ q.run = p.run /\ (q.current <=> p.current)
  <1>1. /\ [p EXCEPT !.op = o].sid = p.sid /\ [p EXCEPT !.op = o].run = p.run
        /\ [p EXCEPT !.op = o].current = p.current
    BY DEF Page
  <1> QED BY <1>1, Zenon

\* Every answer is taken this way: the answer of a refresh that nothing has
\* overtaken is not about a session the tab has signed out of.
LEMMA DeliverBrowses ==
  ASSUME TabInv, NEW m \in net, Deliver(m)
  PROVE  \E t \in Tabs : Browses(t)
  <1> DEFINE t == m.tab
             p == page[t]
  <1>0. m \in Message /\ t \in Tabs /\ p \in Page
    BY DEF TabInv, TypeOK, Message
  <1>00. m.phase \in Answers /\ m.live /\ StoreCookie(m)
    BY DEF TabInv, Served, Deliver, RefreshAnswered, LogoutAnswered, LoginAnswered, Answered
  <1> HIDE DEF t, p
  <1>1. CASE RefreshAnswered(m)
    <2>0. IsRefresh(m)
      BY <1>1, <1>00 DEF IsRefresh, RefreshAnswered, Answered
    <2>1. /\ ClearAuthentication(p) \in Page /\ ClearAuthentication(p).sid = NoSid
          /\ \A s \in Sids \union {NoSid} : ApplyAuthBundle(p, s) \in Page /\ ApplyAuthBundle(p, s).sid = s
      BY <1>0, PageTypes, PageAfter
    <2>2. [p EXCEPT !.boot = "idle"] \in Page /\ [p EXCEPT !.boot = "idle"].sid = p.sid
      BY <1>0 DEF Page
    <2>3. p.race < 3 => [p EXCEPT !.race = @ + 1] \in Page /\ [p EXCEPT !.race = @ + 1].sid = p.sid
      BY <1>0 DEF Page
    <2>4. /\ [ResetStore(p, "idle") EXCEPT !.race = 0, !.again = FALSE] \in Page
          /\ [ResetStore(p, "idle") EXCEPT !.race = 0, !.again = FALSE].sid = NoSid
      <3>1. \A q \in Page, x \in 0..3, b \in BOOLEAN :
              [q EXCEPT !.race = x, !.again = b] \in Page /\ [q EXCEPT !.race = x, !.again = b].sid = q.sid
        BY DEF Page
      <3>2. ResetStore(p, "idle") \in Page /\ ResetStore(p, "idle").sid = NoSid
        BY <1>0, PageTypes, PageAfter
      <3>3. 0 \in 0..3
        OBVIOUS
      <3> QED BY <3>1, <3>2, <3>3, Zenon
    <2>5. p.current /\ m.phase = "ok" =>
             Grants(m) /\ m.set.sid \notin ended[t] /\ m.set.sid \in Sids \union {NoSid}
      BY <2>0, <1>0 DEF TabInv, Over, Grants, IsRefresh, Message, Token, NoToken, t, p
    <2>6. \/ ~p.current /\ Finish(t, m, p, "transient_error", inbox)
          \/ p.current /\ m.phase = "ok" /\ Finish(t, m, ApplyAuthBundle(p, m.set.sid), "authenticated", inbox)
          \/ p.race < 3 /\ Retry(t, m, [p EXCEPT !.race = @ + 1])
          \/ Retry(t, m, [ResetStore(p, "idle") EXCEPT !.race = 0, !.again = FALSE])
          \/ Finish(t, m, ClearAuthentication(p), "anonymous", Publish(t, "signed_out", p.sid))
          \/ Finish(t, m, [p EXCEPT !.boot = "idle"], "transient_error", inbox)
          \/ Finish(t, m, ClearAuthentication(p), "out_of_sync", inbox)
      BY <1>1, RefreshCases, Zenon DEF t, p
    <2>7. ASSUME NEW q \in Page, NEW kind, NEW events, Finish(t, m, q, kind, events),
                 \/ q.sid = p.sid \/ q.sid = NoSid
                 \/ Grants(m) /\ q.sid = m.set.sid /\ m.set.sid \notin ended[t]
          PROVE  Browses(t)
      BY <1>00, <2>0, <2>7, FinishBrowses DEF t, p
    <2>8. ASSUME NEW q \in Page, Retry(t, m, q), q.sid = p.sid \/ q.sid = NoSid
          PROVE  Browses(t)
      BY <1>00, <2>0, <2>8, RetryBrowses DEF t, p
    <2>9. Browses(t)
      <3>1. CASE \E kind, events : Finish(t, m, p, kind, events)
        BY <1>0, <2>7, <3>1
      <3>2. CASE p.current /\ m.phase = "ok" /\ Finish(t, m, ApplyAuthBundle(p, m.set.sid), "authenticated", inbox)
        BY <2>1, <2>5, <2>7, <3>2
      <3>3. CASE \E kind, events : Finish(t, m, ClearAuthentication(p), kind, events)
        BY <2>1, <2>7, <3>3
      <3>4. CASE Finish(t, m, [p EXCEPT !.boot = "idle"], "transient_error", inbox)
        BY <2>2, <2>7, <3>4
      <3>5. CASE p.race < 3 /\ Retry(t, m, [p EXCEPT !.race = @ + 1])
        BY <2>3, <2>8, <3>5
      <3>6. CASE Retry(t, m, [ResetStore(p, "idle") EXCEPT !.race = 0, !.again = FALSE])
        BY <2>4, <2>8, <3>6
      <3> QED BY <2>6, <3>1, <3>2, <3>3, <3>4, <3>5, <3>6
    <2> QED BY <1>0, <2>9
  <1>2. CASE LogoutAnswered(m)
    <2>0. net' = net \ {m} /\ UNCHANGED row
      BY <1>2 DEF LogoutAnswered
    <2>1. m \notin net' /\ CookieKept
      BY <1>00, <2>0, Taken
    <2>2. \A n \in net' : n \in net
      BY <2>0
    <2>3. \/ StartRefresh(t, [p EXCEPT !.op = "recover"]) /\ UNCHANGED ended
          \/ page' = [page EXCEPT ![t] = [p EXCEPT !.op = "none"]] /\ UNCHANGED ended
          \/ /\ page' = [page EXCEPT ![t] = [ClearAuthentication(p) EXCEPT !.op = "none"]]
             /\ ended' = [ended EXCEPT ![t] = @ \union {s \in Sids : s = m.expect /\ row[s].status # "active"}]
      BY <1>2 DEF LogoutAnswered, t, p
    <2>4. PICK q : /\ q = [p EXCEPT !.op = "none"]
                   /\ q.sid = p.sid /\ q.run = p.run /\ (q.current <=> p.current)
      BY <1>0, OpAfter
    <2>5. CASE StartRefresh(t, [p EXCEPT !.op = "recover"]) /\ UNCHANGED ended
      <3>1. /\ [p EXCEPT !.op = "recover"] \in Page /\ [p EXCEPT !.op = "recover"].sid = p.sid
            /\ [p EXCEPT !.op = "recover"].run = p.run /\ [p EXCEPT !.op = "recover"].current = p.current
        BY <1>0 DEF Page
      <3> QED BY <1>0, <2>0, <2>1, <2>2, <2>5, <3>1, StartBrowses DEF p
    <2>6. CASE page' = [page EXCEPT ![t] = [p EXCEPT !.op = "none"]] /\ UNCHANGED ended
      <3>1. \A n \in net' : IsRefresh(n) /\ n.tab = t => p.run = "sent"
        BY <2>2 DEF TabInv, OneRefresh, p
      <3>2. page' = [page EXCEPT ![t] = q] /\ UNCHANGED ended
        BY <2>4, <2>6
      <3>3. q.sid = page[t].sid /\ q.run = p.run /\ (q.current => page[t].current)
        BY <2>4 DEF p
      <3> QED BY <1>0, <2>0, <2>1, <2>2, <3>1, <3>2, <3>3, TabBrowses
    <2>7. CASE /\ page' = [page EXCEPT ![t] = [ClearAuthentication(p) EXCEPT !.op = "none"]]
               /\ ended' = [ended EXCEPT ![t] = @ \union {s \in Sids : s = m.expect /\ row[s].status # "active"}]
      <3>1. /\ ClearAuthentication(p) \in Page /\ ClearAuthentication(p).sid = NoSid
            /\ ~ClearAuthentication(p).current /\ ClearAuthentication(p).run = p.run
        BY <1>0, PageTypes, PageAfter
      <3>20. PICK c : /\ c = [ClearAuthentication(p) EXCEPT !.op = "none"]
                      /\ c.sid = NoSid /\ c.run = p.run /\ ~c.current
        <4>1. PICK c : /\ c = [ClearAuthentication(p) EXCEPT !.op = "none"]
                       /\ c.sid = ClearAuthentication(p).sid /\ c.run = ClearAuthentication(p).run
                       /\ (c.current <=> ClearAuthentication(p).current)
          BY <3>1, OpAfter
        <4> QED BY <3>1, <4>1, Zenon
      <3>2. page' = [page EXCEPT ![t] = c] /\ c.sid = NoSid /\ ~c.current /\ c.run = p.run
        BY <2>7, <3>20
      <3>3. page'[t] = c /\ \A u \in Tabs \ {t} : page'[u] = page[u]
        BY <1>0, <3>2 DEF TabInv, TypeOK
      <3>4. /\ \A u \in Tabs \ {t} : ended'[u] = ended[u]
            /\ ended'[t] = ended[t] \union {s \in Sids : s = m.expect /\ row[s].status # "active"}
        BY <1>0, <2>7 DEF TabInv, TypeOK
      <3>5. \A n \in net' : IsRefresh(n) /\ n.tab = t => page'[t].run = "sent" /\ ~page'[t].current
        BY <2>2, <3>2, <3>3 DEF TabInv, OneRefresh, p
      <3>6. \A s \in ended'[t] : s \in ended[t] \/ (row[s].status # "active" /\ \E k \in net : k.expect = s)
        BY <3>4
      <3>7. page'[t].sid = NoSid
        BY <3>2, <3>3
      <3>8. \A u \in Tabs \ {t} : page'[u] = page[u] /\ ended'[u] = ended[u]
        BY <3>3, <3>4
      <3>9. \A n \in net' : IsRefresh(n) /\ n.tab = t =>
               page'[t].run = "sent" /\ (page'[t].current => page[t].current /\ ended'[t] = ended[t])
        BY <3>5
      <3>10. Browses(t)
        BY <2>0, <2>1, <2>2, <3>6, <3>7, <3>8, <3>9 DEF Browses, CookieKept
      <3> QED BY <1>0, <3>10
    <2> QED BY <1>0, <2>3, <2>5, <2>6, <2>7
  <1>3. CASE LoginAnswered(m)
    <2>0. net' = net \ {m} /\ UNCHANGED <<row, ended>> /\ m.kind = "login"
      BY <1>3 DEF LoginAnswered, Answered
    <2>1. m \notin net' /\ CookieKept
      BY <1>00, <2>0, Taken
    <2>2. \A n \in net' : n \in net /\ (IsRefresh(n) /\ n.tab = t => p.run = "sent")
      BY <2>0 DEF TabInv, OneRefresh, p
    <2>3. Grants(m) /\ m.set.sid \notin ended[t] /\ m.set.sid \in Sids \union {NoSid}
      BY <1>0, <1>00, <2>0 DEF TabInv, Served, Secret, Grants, Message, Token, NoToken
    <2>4. \/ page' = [page EXCEPT ![t] = [ApplyAuthBundle(p, m.set.sid) EXCEPT !.op = "none"]]
          \/ page' = [page EXCEPT ![t] = [p EXCEPT !.op = "none"]]
      BY <1>3 DEF LoginAnswered, t, p
    <2>5. PICK q : /\ q = [p EXCEPT !.op = "none"]
                   /\ q.sid = p.sid /\ q.run = p.run /\ (q.current <=> p.current)
      BY <1>0, OpAfter
    <2>6. /\ ApplyAuthBundle(p, m.set.sid) \in Page /\ ApplyAuthBundle(p, m.set.sid).sid = m.set.sid
          /\ ~ApplyAuthBundle(p, m.set.sid).current /\ ApplyAuthBundle(p, m.set.sid).run = p.run
      <3>1. ApplyAuthBundle(p, m.set.sid).run = p.run
        BY <1>0 DEF ApplyAuthBundle, Supersede, SetBundle, Page
      <3> QED BY <1>0, <2>3, <3>1, PageTypes, PageAfter
    <2>7. CASE page' = [page EXCEPT ![t] = [ApplyAuthBundle(p, m.set.sid) EXCEPT !.op = "none"]]
      <3>0. PICK c : /\ c = [ApplyAuthBundle(p, m.set.sid) EXCEPT !.op = "none"]
                     /\ c.sid = m.set.sid /\ c.run = p.run /\ ~c.current
        <4>1. PICK a \in Page : a = ApplyAuthBundle(p, m.set.sid)
          BY <2>6
        <4>2. PICK c : /\ c = [a EXCEPT !.op = "none"]
                       /\ c.sid = a.sid /\ c.run = a.run /\ (c.current <=> a.current)
          BY OpAfter
        <4>3. a.sid = m.set.sid /\ a.run = p.run /\ ~a.current
          BY <2>6, <4>1
        <4> QED BY <4>1, <4>2, <4>3
      <3>1. page' = [page EXCEPT ![t] = c] /\ c.sid = m.set.sid /\ ~c.current /\ c.run = p.run
        BY <2>7, <3>0
      <3> QED BY <1>0, <2>0, <2>1, <2>2, <2>3, <3>1, TabBrowses
    <2>8. CASE page' = [page EXCEPT ![t] = [p EXCEPT !.op = "none"]]
      <3>1. page' = [page EXCEPT ![t] = q]
        BY <2>5, <2>8
      <3>2. q.sid = page[t].sid /\ q.run = p.run /\ (q.current => page[t].current)
        BY <2>5 DEF p
      <3> QED BY <1>0, <2>0, <2>1, <2>2, <3>1, <3>2, TabBrowses
    <2> QED BY <1>0, <2>4, <2>7, <2>8
  <1> QED BY <1>1, <1>2, <1>3 DEF Deliver

\* So is a request that fails or is lost.
LEMMA QuietBrowses ==
  ASSUME TabInv, NEW t \in Tabs, UNCHANGED <<row, cookie, page, ended>>, \A n \in net' : n \in net
  PROVE  Browses(t)
  BY DEF TabInv, OneRefresh, Browses

LEMMA FailBrowses ==
  ASSUME TabInv, NEW m \in net, RequestFails(m) \/ RequestLost(m)
  PROVE  \E t \in Tabs : Browses(t)
  <1> DEFINE t == m.tab
             p == page[t]
  <1>0. m \in Message /\ t \in Tabs /\ p \in Page
    BY DEF TabInv, TypeOK, Message
  <1> HIDE DEF t, p
  <1>1. CASE RequestFails(m)
    <2>0. UNCHANGED <<row, ended>> /\ CookieKept /\ m.live
      BY <1>1 DEF RequestFails, CookieKept
    <2>1. \A n \in net' : (n \in net /\ n # m) \/ (Faded(n) /\ ~n.live)
      <3>1. [m EXCEPT !.live = FALSE].live = FALSE /\ Same([m EXCEPT !.live = FALSE], m)
        BY <1>0 DEF Message, Same
      <3>2. [m EXCEPT !.live = FALSE].phase = m.phase /\ [m EXCEPT !.live = FALSE].set = m.set
        BY <1>0 DEF Message
      <3>3. m.phase \notin Answers => Faded([m EXCEPT !.live = FALSE]) /\ ~[m EXCEPT !.live = FALSE].live
        BY <3>1, <3>2, Zenon DEF Faded
      <3>4. net' = (net \ {m}) \union (IF m.phase \in Answers THEN {} ELSE {[m EXCEPT !.live = FALSE]})
        BY <1>1 DEF RequestFails
      <3> QED BY <3>3, <3>4
    <2>2. CASE m.kind = "refresh"
      <3>1. PICK q \in Page : q.sid = p.sid /\ page' = [page EXCEPT ![t] = Outcome(q, "transient_error")]
        <4>1. [p EXCEPT !.boot = "idle"] \in Page /\ [p EXCEPT !.boot = "idle"].sid = p.sid
          BY <1>0 DEF Page
        <4> QED BY <1>0, <1>1, <2>2, <4>1 DEF RequestFails, t, p
      <3>2. Outcome(q, "transient_error").sid = p.sid
        BY <3>1, PageAfter
      <3>3. \A n \in net' : ~(IsRefresh(n) /\ n.tab = t)
        BY <2>0, <2>1, <2>2, Alone DEF IsRefresh, t
      <3> QED BY <1>0, <2>0, <2>1, <3>1, <3>2, <3>3, TabBrowses DEF p
    <2>3. CASE m.kind # "refresh"
      <3>1. PICK q : q = [p EXCEPT !.op = "none"] /\ q.sid = p.sid /\ q.run = p.run /\ (q.current <=> p.current)
        BY <1>0, OpAfter
      <3>2. page' = [page EXCEPT ![t] = q]
        BY <1>1, <2>3, <3>1 DEF RequestFails, t, p
      <3>3. \A n \in net' : IsRefresh(n) /\ n.tab = t => q.run = "sent" /\ (q.current => page[t].current)
        BY <2>1, <3>1 DEF TabInv, OneRefresh, IsRefresh, p
      <3>4. q.sid = page[t].sid
        BY <3>1 DEF p
      <3> QED BY <1>0, <2>0, <2>1, <3>2, <3>3, <3>4, TabBrowses
    <2> QED BY <2>2, <2>3
  <1>2. CASE RequestLost(m)
    <2>1. UNCHANGED <<row, cookie, page, ended>> /\ \A n \in net' : n \in net
      BY <1>2 DEF RequestLost
    <2> QED BY <1>0, <2>1, QuietBrowses
  <1> QED BY <1>1, <1>2

\* A request with the cookie as it is.
LEMMA SendsOne ==
  ASSUME TabInv, NEW t \in Tabs, NEW kind, NEW expect, NEW q,
         expect = NoSid \/ expect = page[t].sid,
         page' = [page EXCEPT ![t] = q],
         q.sid = page[t].sid, q.current => page[t].current,
         page[t].run = "sent" => q.run = "sent",
         kind = "refresh" => page[t].run = "start" /\ q.run = "sent",
         net' = net \union {Send(t, kind, expect)},
         UNCHANGED <<row, cookie, ended>>
  PROVE  Sends(t, Send(t, kind, expect))
  <1> DEFINE r == Send(t, kind, expect)
  <1>1. /\ r.tab = t /\ r.live = TRUE /\ r.phase = "sent" /\ r.set = NoToken /\ r.token = cookie
        /\ r.expect = expect /\ r.kind = kind
    BY DEF Send
  <1>2. page'[t] = q /\ \A u \in Tabs \ {t} : page'[u] = page[u]
    BY DEF TabInv, TypeOK
  <1>3. \A u \in Tabs : /\ page'[u].sid = page[u].sid /\ (page'[u].current => page[u].current)
                        /\ page[u].run = "sent" => page'[u].run = "sent"
    BY <1>2
  <1> HIDE DEF r
  <1>4. r.live
    BY <1>1
  <1>5. net' = net \union {r}
    BY DEF r
  <1>6. Sends(t, r)
    BY <1>1, <1>2, <1>3, <1>4, <1>5 DEF Sends
  <1> QED BY <1>6 DEF r

\* The steps of a tab by itself, and of its user.
LEMMA TabMoves ==
  ASSUME TabInv, NEW t \in Tabs, TabStep(t) \/ User(t)
  PROVE  Browses(t) \/ \E r : Sends(t, r)
  <1> DEFINE p == page[t]
  <1>0. p \in Page
    BY DEF TabInv, TypeOK
  <1>c. UNCHANGED cookie => CookieKept
    BY DEF CookieKept
  <1>r. \A n \in net : IsRefresh(n) /\ n.tab = t => p.run = "sent"
    BY DEF TabInv, OneRefresh
  <1>q. ASSUME NEW q, page' = [page EXCEPT ![t] = q], UNCHANGED <<row, cookie, net, ended>>,
               q.sid = p.sid \/ q.sid = NoSid, q.run = p.run, q.current => p.current
        PROVE  Browses(t) \/ \E r : Sends(t, r)
    BY <1>c, <1>q, <1>r, TabBrowses
  <1> HIDE DEF p
  <1>1. CASE Resolve(t)
    <2>1. UNCHANGED <<row, cookie, net, ended>>
      BY <1>1 DEF Resolve
    <2>2. \/ page' = [page EXCEPT ![t] = [p EXCEPT !.boot = "complete"]]
          \/ StartRefresh(t, [p EXCEPT !.boot = "checking"])
      BY <1>1 DEF Resolve, p
    <2>3. CASE page' = [page EXCEPT ![t] = [p EXCEPT !.boot = "complete"]]
      <3>1. /\ [p EXCEPT !.boot = "complete"].sid = p.sid /\ [p EXCEPT !.boot = "complete"].run = p.run
            /\ [p EXCEPT !.boot = "complete"].current = p.current
        BY <1>0 DEF Page
      <3> QED BY <1>q, <2>1, <2>3, <3>1
    <2>4. CASE StartRefresh(t, [p EXCEPT !.boot = "checking"])
      <3>1. /\ [p EXCEPT !.boot = "checking"].sid = p.sid /\ [p EXCEPT !.boot = "checking"].run = p.run
            /\ [p EXCEPT !.boot = "checking"].current = p.current /\ [p EXCEPT !.boot = "checking"] \in Page
        BY <1>0 DEF Page
      <3> QED BY <1>c, <2>1, <2>4, <3>1, StartBrowses DEF p
    <2> QED BY <2>2, <2>3, <2>4
  <1>2. CASE ApiUnauthorized(t)
    <2>1. UNCHANGED <<row, cookie, net, ended>> /\ StartRefresh(t, [p EXCEPT !.api = "waiting"])
      BY <1>2 DEF ApiUnauthorized, p
    <2>2. /\ [p EXCEPT !.api = "waiting"].sid = p.sid /\ [p EXCEPT !.api = "waiting"].run = p.run
          /\ [p EXCEPT !.api = "waiting"].current = p.current /\ [p EXCEPT !.api = "waiting"] \in Page
      BY <1>0 DEF Page
    <2> QED BY <1>c, <2>1, <2>2, StartBrowses DEF p
  <1>3. CASE ApiRetry(t)
    <2>1. UNCHANGED <<row, cookie, ended>>
      BY <1>3 DEF ApiRetry
    <2>2. \/ page' = [page EXCEPT ![t] = [p EXCEPT !.api = "none"]] /\ UNCHANGED net
          \/ LoadPage(t, net, inbox)
          \/ page' = [page EXCEPT ![t] = [ClearAuthentication(p) EXCEPT !.api = "none"]] /\ UNCHANGED net
      BY <1>3 DEF ApiRetry, p
    <2>3. /\ [p EXCEPT !.api = "none"].sid = p.sid /\ [p EXCEPT !.api = "none"].run = p.run
          /\ [p EXCEPT !.api = "none"].current = p.current
      BY <1>0 DEF Page
    <2>4. /\ [ClearAuthentication(p) EXCEPT !.api = "none"].sid = NoSid
          /\ [ClearAuthentication(p) EXCEPT !.api = "none"].run = p.run
          /\ [ClearAuthentication(p) EXCEPT !.api = "none"].current = FALSE
      BY <1>0 DEF Page, ClearAuthentication, Supersede, ResetStore
    <2>5. CASE page' = [page EXCEPT ![t] = [p EXCEPT !.api = "none"]] /\ UNCHANGED net
      BY <1>q, <2>1, <2>3, <2>5
    <2>6. CASE LoadPage(t, net, inbox)
      BY <1>c, <2>1, <2>6, LoadBrowses
    <2>7. CASE page' = [page EXCEPT ![t] = [ClearAuthentication(p) EXCEPT !.api = "none"]] /\ UNCHANGED net
      BY <1>q, <2>1, <2>4, <2>7
    <2> QED BY <2>2, <2>5, <2>6, <2>7
  <1>4. CASE GetLock(t)
    <2>1. /\ UNCHANGED <<row, cookie, net, ended>> /\ p.run = "queued"
          /\ page' = [page EXCEPT ![t] = [p EXCEPT !.run = "start"]]
      BY <1>4 DEF GetLock, p
    <2>2. [p EXCEPT !.run = "start"].sid = p.sid
      BY <1>0 DEF Page
    <2>3. \A n \in net' : n \in net /\ ~(IsRefresh(n) /\ n.tab = t)
      BY <1>r, <2>1
    <2> QED BY <1>c, <2>1, <2>2, <2>3, TabBrowses DEF p
  <1>5. CASE SendRefresh(t)
    <2>1. UNCHANGED <<row, cookie, ended>> /\ p.run = "start"
      BY <1>5 DEF SendRefresh, p
    <2>2. CASE p.current
      <3>1. net' = net \union {Send(t, "refresh", p.sid)} /\ page' = [page EXCEPT ![t] = [p EXCEPT !.run = "sent"]]
        BY <1>5, <2>2 DEF SendRefresh, p
      <3>2. [p EXCEPT !.run = "sent"].sid = p.sid /\ [p EXCEPT !.run = "sent"].run = "sent"
        BY <1>0 DEF Page
      <3>3. Sends(t, Send(t, "refresh", p.sid))
        BY <2>1, <2>2, <3>1, <3>2, SendsOne DEF p
      <3> QED BY <3>3
    <2>3. CASE ~p.current
      <3>1. UNCHANGED net /\ page' = [page EXCEPT ![t] = Outcome(p, "transient_error")]
        BY <1>5, <2>3 DEF SendRefresh, p
      <3>2. Outcome(p, "transient_error").sid = p.sid
        BY <1>0, PageAfter
      <3>3. \A n \in net' : n \in net /\ ~(IsRefresh(n) /\ n.tab = t)
        BY <1>r, <2>1, <3>1
      <3> QED BY <1>c, <2>1, <3>1, <3>2, <3>3, TabBrowses DEF p
    <2> QED BY <2>2, <2>3
  <1>6. CASE HearEvent(t)
    <2>1. UNCHANGED <<row, cookie, ended>>
      BY <1>6 DEF HearEvent
    <2>2. \/ \E rest : LoadPage(t, net, rest)
          \/ page' = [page EXCEPT ![t] = ClearAuthentication(p)] /\ UNCHANGED net
          \/ UNCHANGED <<page, net>>
      BY <1>6, Zenon DEF HearEvent, p
    <2>3. CASE \E rest : LoadPage(t, net, rest)
      BY <1>c, <2>1, <2>3, LoadBrowses
    <2>4. CASE page' = [page EXCEPT ![t] = ClearAuthentication(p)] /\ UNCHANGED net
      <3>1. /\ ClearAuthentication(p).sid = NoSid /\ ~ClearAuthentication(p).current
            /\ ClearAuthentication(p).run = p.run
        BY <1>0, PageAfter
      <3> QED BY <1>q, <2>1, <2>4, <3>1
    <2>5. CASE UNCHANGED <<page, net>>
      BY <2>1, <2>5, QuietBrowses
    <2> QED BY <2>2, <2>3, <2>4, <2>5
  <1>7. ASSUME NEW o, NEW kind, NEW expect, kind # "refresh", expect = NoSid \/ expect = p.sid,
               page' = [page EXCEPT ![t] = [p EXCEPT !.op = o]],
               net' = net \union {Send(t, kind, expect)},
               UNCHANGED <<row, cookie, ended>>
        PROVE  Browses(t) \/ \E r : Sends(t, r)
    <2>1. PICK q : q = [p EXCEPT !.op = o] /\ q.sid = p.sid /\ q.run = p.run /\ (q.current <=> p.current)
      BY <1>0, OpAfter
    <2>2. page' = [page EXCEPT ![t] = q]
      BY <1>7, <2>1
    <2>3. Sends(t, Send(t, kind, expect))
      BY <1>7, <2>1, <2>2, SendsOne DEF p
    <2> QED BY <2>3
  <1>8. CASE Login(t)
    BY <1>7, <1>8 DEF Login, p
  <1>9. CASE Logout(t)
    BY <1>7, <1>9 DEF Logout, p
  <1>10. CASE LogoutAgain(t)
    BY <1>7, <1>10 DEF LogoutAgain, p
  <1>11. CASE AccessExpires(t)
    <2>1. UNCHANGED <<row, cookie, net, ended>> /\ page' = [page EXCEPT ![t] = [p EXCEPT !.fresh = FALSE]]
      BY <1>11 DEF AccessExpires, p
    <2>2. /\ [p EXCEPT !.fresh = FALSE].sid = p.sid /\ [p EXCEPT !.fresh = FALSE].run = p.run
          /\ [p EXCEPT !.fresh = FALSE].current = p.current
      BY <1>0 DEF Page
    <2> QED BY <1>q, <2>1, <2>2
  <1>12. CASE Reload(t)
    BY <1>c, <1>12, LoadBrowses DEF Reload
  <1> QED
    BY <1>1, <1>2, <1>3, <1>4, <1>5, <1>6, <1>8, <1>9, <1>10, <1>11, <1>12 DEF TabStep, User, Bootstrap

\* Revocations by others and the end of a window.
LEMMA ClockKeeps ==
  ASSUME TabInv, TypeOK', NEW s \in Sids, RevokeElsewhere(s) \/ GraceEnds(s)
  PROVE  TabInv'
  <1>1. CASE RevokeElsewhere(s)
    <2>1. RowsMove(NoSid, NoSid)
      BY <1>1, RowsStay DEF RevokeElsewhere, TabInv
    <2> QED BY <1>1, <2>1, RowsKeeps DEF RevokeElsewhere
  <1>2. CASE GraceEnds(s)
    <2>1. RowsMove(NoSid, NoSid)
      <3>1. \A u \in Sids : row[u] \in Row
        BY DEF TabInv, TypeOK
      <3>2. \A u \in Sids : row'[u].gen = row[u].gen /\ row'[u].status = row[u].status
        BY <1>2, <3>1 DEF GraceEnds, TabInv, TypeOK, Row
      <3> QED BY <3>2 DEF RowsMove
    <2> QED BY <1>2, <2>1, RowsKeeps DEF GraceEnds
  <1> QED BY <1>1, <1>2

LEMMA TabInvInit == Init => TabInv
  <1> SUFFICES ASSUME Init PROVE TabInv
    OBVIOUS
  <1>1. TypeOK
    BY TypeInit
  <1>2. Served /\ OneRefresh /\ Secret
    BY DEF Init, Served, OneRefresh, Secret
  <1>3. Unborn
    BY AuthSessionAssumption DEF Init, Unborn, Heard, NoToken, NewPage
  <1>4. Over /\ NeverBack
    BY DEF Init, Over, NeverBack
  <1> QED BY <1>1, <1>2, <1>3, <1>4 DEF TabInv

LEMMA TabInvStep ==
  ASSUME TabInv, [Next]_vars
  PROVE  TabInv'
  <1>0. TypeOK'
    BY TypeStep DEF TabInv
  <1>1. CASE UNCHANGED vars
    <2>1. RowsMove(NoSid, NoSid)
      BY <1>1, RowsStay DEF vars, TabInv
    <2> QED BY <1>0, <1>1, <2>1, RowsKeeps DEF vars
  <1>2. ASSUME NEW m \in net, Serve(m) \/ ServeFails(m) PROVE TabInv'
    BY <1>0, <1>2, ServeServes, ServesKeeps
  <1>3. ASSUME NEW m \in net, Deliver(m) PROVE TabInv'
    BY <1>0, <1>3, DeliverBrowses, BrowsesKeeps
  <1>4. ASSUME NEW m \in net, RequestFails(m) \/ RequestLost(m) PROVE TabInv'
    BY <1>0, <1>4, FailBrowses, BrowsesKeeps
  <1>5. ASSUME NEW t \in Tabs, TabStep(t) \/ User(t) PROVE TabInv'
    BY <1>0, <1>5, TabMoves, BrowsesKeeps, SendsKeeps
  <1>6. ASSUME NEW s \in Sids, RevokeElsewhere(s) \/ GraceEnds(s) PROVE TabInv'
    BY <1>0, <1>6, ClockKeeps
  <1> QED BY <1>1, <1>2, <1>3, <1>4, <1>5, <1>6 DEF Next

\* The inductive invariant holds in every reachable state.
THEOREM TabInvariant == Spec => []TabInv
  BY TabInvInit, TabInvStep, PTL DEF Spec

(* Store, runner, requests and rows are well formed: every field a page's    *)
(* code, the browser or the server writes stays among the values it may have. *)
THEOREM SessionTypesCorrect == Spec => []TypeOK
  <1>1. TabInv => TypeOK
    BY DEF TabInv
  <1> QED BY <1>1, TabInvariant, PTL

(* A tab never shows again a session that it has signed out of and the server *)
(* has ended: the epoch of auth-session.ts drops every answer that a sign-out *)
(* has overtaken, with and without Web Locks, for any tabs and sessions.     *)
THEOREM NeverBackCorrect == Spec => []NeverBack
  <1>1. TabInv => NeverBack
    BY DEF TabInv
  <1> QED BY <1>1, TabInvariant, PTL

----------------------------------------------------------------------------
(* The browser lock: of all tabs, one runs a refresh at a time.            *)

Waits(t) == \E i \in DOMAIN queue : queue[i] = t

\* The tab that runs a refresh is the first of the queue.
Holds ==
    \A t \in Tabs :
        /\ page[t].run # "none" => Waits(t)
        /\ page[t].run \in {"start", "sent"} => Head(queue) = t

LockInv == locks /\ Holds

(* The tokens.                                                             *)

\* A token is the row's, or an older one in its window.
InWindow(token) ==
    token.sid # NoSid => /\ token.gen <= row[token.sid].gen
                         /\ token.gen < row[token.sid].gen => row[token.sid].grace

\* No request presents a token after its window, and an answered one is behind.
Windows ==
    /\ InWindow(cookie)
    /\ \A m \in net : InWindow(m.token)
    /\ \A m \in net : m.kind = "refresh" /\ m.phase = "ok" => m.token.gen < row[m.token.sid].gen

\* No request is taken for a stolen token's.
Lawful ==
    /\ \A s \in Sids : row[s].status # "refresh_reuse"
    /\ \A m \in net : m.phase # "reuse"

\* The row is at most one rotation ahead of a token, and nobody has a newer one.
Newest(token) ==
    token.sid # NoSid =>
        /\ row[token.sid].gen <= token.gen + 1
        /\ \A n \in net : n.token.sid = token.sid => n.token.gen <= token.gen
        /\ cookie.sid = token.sid => cookie.gen <= token.gen

\* So it is with the cookie and with the refresh that a page waits for.
Ahead == Newest(cookie) /\ \A m \in net : IsRefresh(m) => Newest(m.token)

Refused ==
    \A m \in net : IsRefresh(m) /\ m.phase = "unauthorized" /\ m.token # NoToken =>
        row[m.token.sid].status # "active"

\* The previous hash of a row that has been rotated is the generation before.
Successive == \A s \in Sids : row[s].gen = 0 \/ row[s].gen = row[s].prev + 1

KeepInv == Windows /\ Lawful /\ Ahead /\ Refused /\ Successive

\* Leaving the queue keeps the others' places, and the first one.
LEMMA LeavePlaces ==
  ASSUME queue \in Seq(Tabs), NEW t, NEW u, u # t, Waits(u)
  PROVE  /\ \E j \in DOMAIN Leave(t) : Leave(t)[j] = u
         /\ Head(queue) = u => Head(Leave(t)) = u
  <1>1. CASE Waits(t)
    <2> DEFINE i == CHOOSE i \in DOMAIN queue : queue[i] = t
               front == SubSeq(queue, 1, i - 1)
               back == SubSeq(queue, i + 1, Len(queue))
    <2>1. i \in 1..Len(queue) /\ queue[i] = t
      BY <1>1 DEF Waits
    <2>2. Leave(t) = front \o back
      BY <1>1 DEF Waits, Leave, RemoveAt
    <2> HIDE DEF i
    <2>3. /\ front \in Seq(Tabs) /\ back \in Seq(Tabs)
          /\ Len(front) = i - 1 /\ Len(back) = Len(queue) - i
          /\ \A j \in 1..(i - 1) : front[j] = queue[j]
          /\ \A j \in 1..(Len(queue) - i) : back[j] = queue[j + i]
      BY <2>1
    <2> HIDE DEF front, back
    <2>4. /\ Len(Leave(t)) = Len(queue) - 1 /\ Leave(t) \in Seq(Tabs)
          /\ \A j \in 1..(i - 1) : Leave(t)[j] = queue[j]
          /\ \A j \in i..(Len(queue) - 1) : Leave(t)[j] = queue[j + 1]
      <3>1. /\ front \o back \in Seq(Tabs) /\ Len(front \o back) = Len(front) + Len(back)
            /\ \A j \in 1..(Len(front) + Len(back)) :
                 (front \o back)[j] = IF j <= Len(front) THEN front[j] ELSE back[j - Len(front)]
        BY <2>3, ConcatProperties
      <3>2. \A j \in 1..(i - 1) : (front \o back)[j] = queue[j]
        BY <2>1, <2>3, <3>1
      <3>3. ASSUME NEW j \in i..(Len(queue) - 1) PROVE (front \o back)[j] = queue[j + 1]
        <4>1. /\ j \in 1..(Len(front) + Len(back)) /\ ~(j <= Len(front))
              /\ j - Len(front) = j - i + 1 /\ j - i + 1 \in 1..(Len(queue) - i) /\ (j - i + 1) + i = j + 1
          BY <2>1, <2>3
        <4> QED BY <2>3, <3>1, <4>1
      <3> QED BY <2>1, <2>2, <2>3, <3>1, <3>2, <3>3
    <2>5. PICK k \in 1..Len(queue) : queue[k] = u
      BY DEF Waits
    <2>6. k # i
      BY <2>1, <2>5
    <2>7. \E j \in 1..Len(Leave(t)) : Leave(t)[j] = u
      <3>1. CASE k < i
        BY <2>1, <2>4, <2>5, <3>1, SMTT(30)
      <3>2. CASE k > i
        <4>1. k - 1 \in i..(Len(queue) - 1) /\ k - 1 \in 1..Len(Leave(t)) /\ queue[(k - 1) + 1] = u
          BY <2>1, <2>4, <2>5, <3>2
        <4> QED BY <2>4, <4>1
      <3> QED BY <2>1, <2>6, <3>1, <3>2
    <2>8. Head(queue) = u => Head(Leave(t)) = u
      <3>1. Len(Leave(t)) > 0 /\ Head(queue) = queue[1] /\ Head(Leave(t)) = Leave(t)[1]
        BY <2>1, <2>4, <2>7
      <3>2. Head(queue) = u => 1 \in 1..(i - 1)
        BY <2>1, <3>1
      <3> QED BY <2>4, <3>1, <3>2
    <2> QED BY <2>4, <2>7, <2>8
  <1>2. CASE ~Waits(t)
    <2>1. Leave(t) = queue
      BY <1>2 DEF Waits, Leave
    <2> QED BY <2>1 DEF Waits
  <1> QED BY <1>1, <1>2

\* What a step may do to the runners and the queue: tab t asks for the lock, gets
\* it, goes on with it, or gives it back.
Runs(t) ==
    /\ \A u \in Tabs \ {t} : page'[u].run = page[u].run
    /\ \/ page'[t].run = page[t].run /\ UNCHANGED queue
       \/ page'[t].run = "queued" /\ queue' = Append(queue, t)
       \/ page'[t].run = "none" /\ queue' = Leave(t)
       \/ /\ page'[t].run \in {"start", "sent"} /\ UNCHANGED queue
          /\ page[t].run \in {"start", "sent"} \/ (page[t].run = "queued" /\ Head(queue) = t)

LEMMA RunsKeeps ==
  ASSUME TypeOK, LockInv, UNCHANGED locks, NEW t \in Tabs, Runs(t)
  PROVE  LockInv'
  <1>0. queue \in Seq(Tabs) /\ locks'
    BY DEF TypeOK, LockInv
  <1>1. Holds'
    <2>1. CASE page'[t].run = page[t].run /\ UNCHANGED queue
      BY <2>1 DEF Runs, LockInv, Holds, Waits
    <2>2. CASE page'[t].run = "queued" /\ queue' = Append(queue, t)
      <3>1. /\ DOMAIN queue' = 1..(Len(queue) + 1) /\ DOMAIN queue = 1..Len(queue)
            /\ queue'[Len(queue) + 1] = t /\ Len(queue) + 1 \in DOMAIN queue'
            /\ \A i \in DOMAIN queue : queue'[i] = queue[i] /\ i \in DOMAIN queue'
            /\ DOMAIN queue # {} => Head(queue') = Head(queue)
        BY <1>0, <2>2
      <3>2. Waits(t)'
        BY <3>1 DEF Waits
      <3>3. \A u \in Tabs : Waits(u) => Waits(u)' /\ Head(queue') = Head(queue)
        BY <3>1 DEF Waits
      <3>4. ASSUME NEW u \in Tabs
            PROVE  /\ page'[u].run # "none" => Waits(u)'
                   /\ page'[u].run \in {"start", "sent"} => Head(queue') = u
        BY <2>2, <3>2, <3>3 DEF Runs, LockInv, Holds
      <3> QED BY <3>4 DEF Holds
    <2>3. CASE page'[t].run = "none" /\ queue' = Leave(t)
      <3>1. ASSUME NEW u \in Tabs, u # t, page[u].run # "none"
            PROVE  Waits(u)' /\ (page[u].run \in {"start", "sent"} => Head(queue') = u)
        <4>1. Waits(u) /\ (page[u].run \in {"start", "sent"} => Head(queue) = u)
          BY <3>1 DEF LockInv, Holds
        <4>2. /\ \E j \in DOMAIN Leave(t) : Leave(t)[j] = u
              /\ Head(queue) = u => Head(Leave(t)) = u
          BY <1>0, <3>1, <4>1, LeavePlaces
        <4> QED BY <2>3, <4>1, <4>2 DEF Waits
      <3> QED BY <2>3, <3>1 DEF Runs, Holds
    <2>4. CASE /\ page'[t].run \in {"start", "sent"} /\ UNCHANGED queue
               /\ page[t].run \in {"start", "sent"} \/ (page[t].run = "queued" /\ Head(queue) = t)
      BY <2>4 DEF Runs, LockInv, Holds, Waits
    <2> QED BY <2>1, <2>2, <2>3, <2>4 DEF Runs
  <1> QED BY <1>0, <1>1 DEF LockInv

\* A tab's memory becomes q.
LEMMA RunsOne ==
  ASSUME TypeOK, NEW t \in Tabs, NEW q, page' = [page EXCEPT ![t] = q],
         \/ q.run = page[t].run /\ UNCHANGED queue
         \/ q.run = "queued" /\ queue' = Append(queue, t)
         \/ q.run = "none" /\ queue' = Leave(t)
         \/ /\ q.run \in {"start", "sent"} /\ UNCHANGED queue
            /\ page[t].run \in {"start", "sent"} \/ (page[t].run = "queued" /\ Head(queue) = t)
  PROVE  Runs(t)
  <1>1. page'[t] = q /\ \A u \in Tabs \ {t} : page'[u] = page[u]
    BY DEF TypeOK
  <1> QED BY <1>1 DEF Runs

LEMMA StartRuns ==
  ASSUME TypeOK, locks, NEW t \in Tabs, NEW p \in Page, p.run = page[t].run, StartRefresh(t, p)
  PROVE  Runs(t)
  <1>1. CASE p.run # "none"
    BY <1>1, RunsOne DEF StartRefresh
  <1>2. CASE p.run = "none"
    <2>1. [p EXCEPT !.run = "queued", !.current = TRUE, !.race = 0, !.again = TRUE].run = "queued"
      BY DEF Page
    <2>2. /\ page' = [page EXCEPT ![t] = [p EXCEPT !.run = "queued", !.current = TRUE, !.race = 0, !.again = TRUE]]
          /\ queue' = Append(queue, t)
      BY <1>2 DEF StartRefresh
    <2> QED BY <2>1, <2>2, RunsOne
  <1> QED BY <1>1, <1>2

LEMMA LoadRuns ==
  ASSUME TypeOK, NEW t \in Tabs, NEW msgs, NEW events, LoadPage(t, msgs, events)
  PROVE  Runs(t)
  <1>1. NewPage.run = "none"
    BY DEF NewPage
  <1> QED BY <1>1, RunsOne DEF LoadPage

\* The answer of a refresh ends it or lets it go on.
LEMMA DeliverRuns ==
  ASSUME TabInv, locks, NEW m \in net, Deliver(m)
  PROVE  \E t \in Tabs : Runs(t)
  <1> DEFINE t == m.tab
             p == page[t]
  <1>0. m \in Message /\ t \in Tabs /\ p \in Page /\ TypeOK
    BY DEF TabInv, TypeOK, Message
  <1>00. m.live
    BY DEF TabInv, Served, Deliver, RefreshAnswered, LogoutAnswered, LoginAnswered, Answered
  <1> HIDE DEF t, p
  <1>1. CASE RefreshAnswered(m)
    <2>0. p.run = "sent"
      BY <1>1, <1>00 DEF TabInv, OneRefresh, IsRefresh, RefreshAnswered, Answered, t, p
    <2>1. ASSUME NEW q \in Page, NEW kind, NEW events, Finish(t, m, q, kind, events) PROVE Runs(t)
      <3>1. Outcome(q, kind).run = "none"
        BY PageAfter
      <3>2. CASE page' = [page EXCEPT ![t] = Outcome(q, kind)] /\ queue' = Leave(t)
        BY <1>0, <3>1, <3>2, RunsOne
      <3>3. CASE LoadPage(t, net \ {m}, events)
        BY <1>0, <3>3, LoadRuns
      <3> QED BY <2>1, <3>2, <3>3 DEF Finish
    <2>2. ASSUME NEW q \in Page, Retry(t, m, q) PROVE Runs(t)
      <3>1. [q EXCEPT !.run = "start"].run = "start"
        BY DEF Page
      <3>2. page' = [page EXCEPT ![t] = [q EXCEPT !.run = "start"]] /\ UNCHANGED queue
        BY <2>2 DEF Retry
      <3> QED BY <1>0, <2>0, <3>1, <3>2, RunsOne DEF p
    <2>3. /\ ClearAuthentication(p) \in Page
          /\ m.set.sid \in Sids \union {NoSid} /\ ApplyAuthBundle(p, m.set.sid) \in Page
      <3>1. m.set.sid \in Sids \union {NoSid}
        BY <1>0 DEF Message, Token, NoToken
      <3> QED BY <1>0, <3>1, PageTypes
    <2>4. [p EXCEPT !.boot = "idle"] \in Page /\ (p.race < 3 => [p EXCEPT !.race = @ + 1] \in Page)
      BY <1>0 DEF Page
    <2>5. [ResetStore(p, "idle") EXCEPT !.race = 0, !.again = FALSE] \in Page
      <3>1. \A q \in Page, x \in 0..3, b \in BOOLEAN : [q EXCEPT !.race = x, !.again = b] \in Page
        BY DEF Page
      <3>2. ResetStore(p, "idle") \in Page
        BY <1>0, PageTypes
      <3>3. 0 \in 0..3
        OBVIOUS
      <3> QED BY <3>1, <3>2, <3>3, Zenon
    <2>6. \/ Finish(t, m, p, "transient_error", inbox)
          \/ Finish(t, m, ApplyAuthBundle(p, m.set.sid), "authenticated", inbox)
          \/ p.race < 3 /\ Retry(t, m, [p EXCEPT !.race = @ + 1])
          \/ Retry(t, m, [ResetStore(p, "idle") EXCEPT !.race = 0, !.again = FALSE])
          \/ Finish(t, m, ClearAuthentication(p), "anonymous", Publish(t, "signed_out", p.sid))
          \/ Finish(t, m, [p EXCEPT !.boot = "idle"], "transient_error", inbox)
          \/ Finish(t, m, ClearAuthentication(p), "out_of_sync", inbox)
      BY <1>1, RefreshCases, Zenon DEF t, p
    <2>7. Runs(t)
      BY <1>0, <2>1, <2>2, <2>3, <2>4, <2>5, <2>6
    <2> QED BY <1>0, <2>7
  <1>2. ASSUME NEW q \in Page, NEW o, q.run = p.run, UNCHANGED queue,
               page' = [page EXCEPT ![t] = [q EXCEPT !.op = o]]
        PROVE  Runs(t)
    <2>1. PICK r : r = [q EXCEPT !.op = o] /\ r.run = q.run
      BY OpAfter
    <2> QED BY <1>0, <1>2, <2>1, RunsOne DEF p
  <1>3. /\ ClearAuthentication(p) \in Page /\ ClearAuthentication(p).run = p.run
        /\ m.set.sid \in Sids \union {NoSid}
        /\ ApplyAuthBundle(p, m.set.sid) \in Page /\ ApplyAuthBundle(p, m.set.sid).run = p.run
    <2>1. m.set.sid \in Sids \union {NoSid}
      BY <1>0 DEF Message, Token, NoToken
    <2>2. ApplyAuthBundle(p, m.set.sid).run = p.run
      BY <1>0 DEF ApplyAuthBundle, Supersede, SetBundle, Page
    <2> QED BY <1>0, <2>1, <2>2, PageTypes, PageAfter
  <1>4. CASE LogoutAnswered(m)
    <2>1. \/ StartRefresh(t, [p EXCEPT !.op = "recover"])
          \/ page' = [page EXCEPT ![t] = [p EXCEPT !.op = "none"]] /\ UNCHANGED queue
          \/ page' = [page EXCEPT ![t] = [ClearAuthentication(p) EXCEPT !.op = "none"]] /\ UNCHANGED queue
      BY <1>4 DEF LogoutAnswered, t, p
    <2>2. [p EXCEPT !.op = "recover"] \in Page /\ [p EXCEPT !.op = "recover"].run = p.run
      BY <1>0 DEF Page
    <2>3. CASE StartRefresh(t, [p EXCEPT !.op = "recover"])
      BY <1>0, <2>2, <2>3, StartRuns DEF p
    <2> QED BY <1>0, <1>2, <1>3, <2>1, <2>3
  <1>5. CASE LoginAnswered(m)
    <2>1. /\ UNCHANGED queue
          /\ \/ page' = [page EXCEPT ![t] = [ApplyAuthBundle(p, m.set.sid) EXCEPT !.op = "none"]]
             \/ page' = [page EXCEPT ![t] = [p EXCEPT !.op = "none"]]
      BY <1>5 DEF LoginAnswered, t, p
    <2> QED BY <1>0, <1>2, <1>3, <2>1
  <1> QED BY <1>1, <1>4, <1>5 DEF Deliver

\* So does a request that fails; one that is lost ran in no page.
LEMMA FailRuns ==
  ASSUME TabInv, NEW m \in net, RequestFails(m) \/ RequestLost(m)
  PROVE  \E t \in Tabs : Runs(t)
  <1> DEFINE t == m.tab
             p == page[t]
  <1>0. m \in Message /\ t \in Tabs /\ p \in Page /\ TypeOK
    BY DEF TabInv, TypeOK, Message
  <1> HIDE DEF t, p
  <1>1. CASE RequestFails(m) /\ m.kind = "refresh"
    <2>1. PICK q \in Page : page' = [page EXCEPT ![t] = Outcome(q, "transient_error")] /\ queue' = Leave(t)
      <3>1. [p EXCEPT !.boot = "idle"] \in Page
        BY <1>0 DEF Page
      <3> QED BY <1>0, <1>1, <3>1 DEF RequestFails, t, p
    <2>2. Outcome(q, "transient_error").run = "none"
      BY PageAfter
    <2> QED BY <1>0, <2>1, <2>2, RunsOne
  <1>2. CASE RequestFails(m) /\ m.kind # "refresh"
    <2>1. PICK q : q = [p EXCEPT !.op = "none"] /\ q.run = p.run
      BY <1>0, OpAfter
    <2>2. page' = [page EXCEPT ![t] = q] /\ UNCHANGED queue
      BY <1>2, <2>1 DEF RequestFails, t, p
    <2> QED BY <1>0, <2>1, <2>2, RunsOne DEF p
  <1>3. CASE RequestLost(m)
    BY <1>0, <1>3 DEF RequestLost, Runs
  <1> QED BY <1>1, <1>2, <1>3

LEMMA TabRuns ==
  ASSUME TypeOK, locks, NEW t \in Tabs, TabStep(t) \/ User(t)
  PROVE  Runs(t)
  <1> DEFINE p == page[t]
  <1>0. p \in Page
    BY DEF TypeOK
  <1>k. ASSUME NEW q, page' = [page EXCEPT ![t] = q], q.run = p.run, UNCHANGED queue
        PROVE  Runs(t)
    BY <1>k, RunsOne
  <1> HIDE DEF p
  <1>1. CASE Resolve(t)
    <2>1. \/ page' = [page EXCEPT ![t] = [p EXCEPT !.boot = "complete"]] /\ UNCHANGED queue
          \/ StartRefresh(t, [p EXCEPT !.boot = "checking"])
      BY <1>1 DEF Resolve, p
    <2>2. /\ [p EXCEPT !.boot = "complete"].run = p.run
          /\ [p EXCEPT !.boot = "checking"].run = p.run /\ [p EXCEPT !.boot = "checking"] \in Page
      BY <1>0 DEF Page
    <2>3. CASE StartRefresh(t, [p EXCEPT !.boot = "checking"])
      BY <2>2, <2>3, StartRuns DEF p
    <2> QED BY <1>k, <2>1, <2>2, <2>3
  <1>2. CASE ApiUnauthorized(t)
    <2>1. StartRefresh(t, [p EXCEPT !.api = "waiting"])
      BY <1>2 DEF ApiUnauthorized, p
    <2>2. [p EXCEPT !.api = "waiting"].run = p.run /\ [p EXCEPT !.api = "waiting"] \in Page
      BY <1>0 DEF Page
    <2> QED BY <2>1, <2>2, StartRuns DEF p
  <1>3. CASE ApiRetry(t)
    <2>1. \/ page' = [page EXCEPT ![t] = [p EXCEPT !.api = "none"]] /\ UNCHANGED queue
          \/ LoadPage(t, net, inbox)
          \/ page' = [page EXCEPT ![t] = [ClearAuthentication(p) EXCEPT !.api = "none"]] /\ UNCHANGED queue
      BY <1>3 DEF ApiRetry, p
    <2>2. [p EXCEPT !.api = "none"].run = p.run /\ [ClearAuthentication(p) EXCEPT !.api = "none"].run = p.run
      BY <1>0 DEF Page, ClearAuthentication, Supersede, ResetStore
    <2> QED BY <1>k, <2>1, <2>2, LoadRuns
  <1>4. CASE GetLock(t)
    <2>1. /\ page' = [page EXCEPT ![t] = [p EXCEPT !.run = "start"]] /\ UNCHANGED queue
          /\ page[t].run = "queued" /\ Head(queue) = t
      BY <1>4 DEF GetLock, p
    <2>2. [p EXCEPT !.run = "start"].run = "start"
      BY <1>0 DEF Page
    <2> QED BY <2>1, <2>2, RunsOne
  <1>5. CASE SendRefresh(t)
    <2>1. /\ page[t].run = "start"
          /\ \/ page' = [page EXCEPT ![t] = [p EXCEPT !.run = "sent"]] /\ UNCHANGED queue
             \/ page' = [page EXCEPT ![t] = Outcome(p, "transient_error")] /\ queue' = Leave(t)
      BY <1>5 DEF SendRefresh, p
    <2>2. [p EXCEPT !.run = "sent"].run = "sent"
      BY <1>0 DEF Page
    <2>3. Outcome(p, "transient_error").run = "none"
      BY <1>0, PageAfter
    <2> QED BY <2>1, <2>2, <2>3, RunsOne
  <1>6. CASE HearEvent(t)
    <2>1. \/ \E rest : LoadPage(t, net, rest)
          \/ page' = [page EXCEPT ![t] = ClearAuthentication(p)] /\ UNCHANGED queue
          \/ UNCHANGED <<page, queue>>
      BY <1>6, Zenon DEF HearEvent, p
    <2>2. ClearAuthentication(p).run = p.run
      BY <1>0, PageAfter
    <2>3. UNCHANGED <<page, queue>> => Runs(t)
      BY DEF Runs
    <2> QED BY <1>k, <2>1, <2>2, <2>3, LoadRuns
  <1>7. ASSUME NEW o, page' = [page EXCEPT ![t] = [p EXCEPT !.op = o]], UNCHANGED queue
        PROVE  Runs(t)
    <2>1. PICK q : q = [p EXCEPT !.op = o] /\ q.run = p.run
      BY <1>0, OpAfter
    <2> QED BY <1>k, <1>7, <2>1
  <1>8. CASE Login(t) \/ Logout(t) \/ LogoutAgain(t)
    BY <1>7, <1>8 DEF Login, Logout, LogoutAgain, p
  <1>9. CASE AccessExpires(t)
    <2>1. [p EXCEPT !.fresh = FALSE].run = p.run
      BY <1>0 DEF Page
    <2> QED BY <1>9, <1>k, <2>1 DEF AccessExpires, p
  <1>10. CASE Reload(t)
    BY <1>10, LoadRuns DEF Reload
  <1> QED
    BY <1>1, <1>2, <1>3, <1>4, <1>5, <1>6, <1>8, <1>9, <1>10 DEF TabStep, User, Bootstrap

\* The lock is kept by every step.
LEMMA LockInvStep ==
  ASSUME TabInv, LockInv, [Next]_vars
  PROVE  LockInv'
  <1>0. TypeOK /\ locks
    BY DEF TabInv, LockInv
  <1>1. CASE UNCHANGED <<locks, page, queue>>
    BY <1>1 DEF LockInv, Holds, Waits
  <1>2. ASSUME NEW m \in net, Serve(m) \/ ServeFails(m), UNCHANGED locks PROVE LockInv'
    <2>1. UNCHANGED <<page, queue>>
      BY <1>2 DEF Serve, ServeLookup, ServeRead, ServeSwap, ServeReuse, ServeLogout, ServeLogin, ServeFails
    <2> QED BY <1>1, <1>2, <2>1
  <1>3. ASSUME NEW m \in net, UNCHANGED locks, Deliver(m) PROVE LockInv'
    BY <1>0, <1>3, DeliverRuns, RunsKeeps
  <1>4. ASSUME NEW m \in net, UNCHANGED locks, RequestFails(m) \/ RequestLost(m) PROVE LockInv'
    BY <1>0, <1>4, FailRuns, RunsKeeps
  <1>5. ASSUME NEW t \in Tabs, UNCHANGED locks, TabStep(t) \/ User(t) PROVE LockInv'
    BY <1>0, <1>5, TabRuns, RunsKeeps
  <1>6. ASSUME NEW s \in Sids, UNCHANGED locks, RevokeElsewhere(s) \/ GraceEnds(s) PROVE LockInv'
    BY <1>1, <1>6 DEF RevokeElsewhere, GraceEnds
  <1> QED BY <1>1, <1>2, <1>3, <1>4, <1>5, <1>6 DEF Next, vars

\* Where there are Web Locks, one page of all waits for one refresh.
LEMMA OneLive ==
  ASSUME TabInv, LockInv
  PROVE  \A m, n \in net : IsRefresh(m) /\ IsRefresh(n) => m = n
  <1>1. \A m \in net : m.tab \in Tabs
    BY DEF TabInv, TypeOK, Message
  <1>2. \A m \in net : IsRefresh(m) => Head(queue) = m.tab
    BY <1>1 DEF TabInv, OneRefresh, LockInv, Holds
  <1> QED BY <1>2 DEF TabInv, OneRefresh

----------------------------------------------------------------------------
(* The browser's own tokens are never taken for stolen ones.               *)

IsToken(x) == /\ x.sid \in Sids \union {NoSid} /\ x.gen \in Nat
              /\ x # NoToken <=> x.sid # NoSid

LEMMA TokenFacts ==
  ASSUME TypeOK
  PROVE  /\ \A m \in net : m \in Message /\ IsToken(m.token) /\ IsToken(m.set)
         /\ IsToken(cookie) /\ NoToken.sid = NoSid /\ NoSid \notin Sids
         /\ \A s \in Sids : row[s].gen \in Nat
  <1>1. \A x \in Token : IsToken(x)
    BY AuthSessionAssumption DEF Token, NoToken, IsToken
  <1>2. \A m \in net : m \in Message
    BY DEF TypeOK
  <1>3. \A m \in net : m.token \in Token /\ m.set \in Token
    BY <1>2 DEF Message
  <1>4. IsToken(cookie) /\ NoToken.sid = NoSid /\ NoSid \notin Sids
    BY <1>1, AuthSessionAssumption DEF TypeOK, NoToken
  <1>5. \A s \in Sids : row[s].gen \in Nat
    BY DEF TypeOK, Row
  <1> QED BY <1>1, <1>2, <1>3, <1>4, <1>5

\* The cookie of an answer is the successor of the newest token, or the first
\* token of a session that nobody has heard of.
LEMMA GrantFacts ==
  ASSUME TabInv, KeepInv, NEW m \in net, Grants(m)
  PROVE  /\ m.set.sid \in Sids /\ m.set.gen \in Nat
         /\ \/ m.kind = "login" /\ m.set.gen = 0 /\ row[m.set.sid].gen = 0
            \/ IsRefresh(m) /\ m.set.sid = m.token.sid /\ m.set.gen = m.token.gen + 1 /\ m.token.gen \in Nat
         /\ InWindow(m.set)
         /\ row[m.set.sid].gen <= m.set.gen + 1
         /\ \A n \in net : n.token.sid = m.set.sid => n.token.gen <= m.set.gen
  <1>0. m \in Message /\ IsToken(m.token) /\ IsToken(m.set) /\ m.live
    BY TokenFacts DEF TabInv, Grants, Served, Answers
  <1>1. CASE m.kind = "login"
    <2>1. m.set.sid \in Sids /\ m.set.gen = 0 /\ row[m.set.sid].gen = 0
      BY <1>0, <1>1 DEF TabInv, Served, Secret, Grants, IsToken
    <2>2. \A n \in net : n.token.sid # m.set.sid
      BY <1>1 DEF TabInv, Secret, Grants
    <2> QED BY <1>1, <2>1, <2>2 DEF InWindow
  <1>2. CASE m.kind = "refresh"
    <2>1. /\ m.token # NoToken /\ m.set.sid = m.token.sid /\ m.set.gen = m.token.gen + 1 /\ m.token.gen \in Nat
          /\ m.set.sid \in Sids /\ m.token.sid # NoSid
      <3>1. m.token # NoToken /\ m.set = DeriveNext(m.token)
        BY <1>2 DEF TabInv, Served, Grants
      <3>2. DeriveNext(m.token).sid = m.token.sid /\ DeriveNext(m.token).gen = m.token.gen + 1
        BY DEF DeriveNext
      <3> QED BY <1>0, <3>1, <3>2 DEF IsToken
    <2>2. row[m.set.sid].gen \in Nat /\ \A n \in net : n.token.gen \in Nat
      BY <2>1, TokenFacts DEF TabInv, IsToken
    <2>3. IsRefresh(m) /\ Newest(m.token)
      BY <1>0, <1>2 DEF IsRefresh, KeepInv, Ahead
    <2>4. m.token.gen < row[m.set.sid].gen /\ InWindow(m.token)
      BY <1>2, <2>1 DEF KeepInv, Windows, Grants
    <2>5. InWindow(m.set)
      BY <2>1, <2>2, <2>4 DEF InWindow
    <2>6. row[m.set.sid].gen <= m.set.gen + 1 /\ \A n \in net : n.token.sid = m.set.sid => n.token.gen <= m.set.gen
      BY <2>1, <2>2, <2>3 DEF Newest
    <2> QED BY <2>1, <2>3, <2>5, <2>6
  <1> QED BY <1>1, <1>2 DEF Grants

\* What the browser does keeps the order of its tokens.
LEMMA BrowsesTokens ==
  ASSUME TabInv, LockInv, KeepInv, NEW t \in Tabs, Browses(t)
  PROVE  KeepInv'
  <1>0. UNCHANGED row
    BY DEF Browses
  <1>1. \A n \in net' : \E m \in net : n.token = m.token /\ n.kind = m.kind /\ n.phase = m.phase
    BY DEF Browses, Faded, Same
  <1>2. \A n \in net' : n.phase \in Answers \/ n.live => n \in net
    BY DEF Browses, Faded
  <1>3. \/ cookie' = cookie \/ cookie' = NoToken
        \/ \E m \in net : m \notin net' /\ Grants(m) /\ cookie' = m.set
    BY DEF Browses
  <1>4. Windows'
    <2>1. \A x : InWindow(x)' <=> InWindow(x)
      BY <1>0 DEF InWindow
    <2>2. InWindow(cookie')
      <3>1. InWindow(NoToken)
        BY TokenFacts DEF InWindow, TabInv
      <3> QED BY <1>3, <3>1, GrantFacts DEF KeepInv, Windows
    <2>3. \A n \in net' : InWindow(n.token)
      BY <1>1 DEF KeepInv, Windows
    <2>4. \A n \in net' : n.kind = "refresh" /\ n.phase = "ok" => n.token.gen < row'[n.token.sid].gen
      BY <1>0, <1>1 DEF KeepInv, Windows
    <2> QED BY <2>1, <2>2, <2>3, <2>4 DEF Windows
  <1>5. Lawful'
    BY <1>0, <1>1 DEF KeepInv, Lawful
  <1>6. Ahead'
    <2>1. Newest(cookie)'
      <3>1. CASE cookie' = NoToken
        BY <3>1, TokenFacts DEF Newest, TabInv
      <3>2. CASE cookie' = cookie
        BY <1>0, <1>1, <3>2 DEF KeepInv, Ahead, Newest
      <3>3. CASE \E m \in net : m \notin net' /\ Grants(m) /\ cookie' = m.set
        BY <1>0, <1>1, <3>3, GrantFacts DEF Newest
      <3> QED BY <1>3, <3>1, <3>2, <3>3
    <2>2. ASSUME NEW k \in net', IsRefresh(k) PROVE Newest(k.token)'
      <3>1. k \in net /\ Newest(k.token)
        BY <1>2, <2>2 DEF IsRefresh, KeepInv, Ahead
      <3>2. k.token.sid # NoSid /\ cookie'.sid = k.token.sid => cookie'.gen <= k.token.gen
        <4>1. CASE cookie' = NoToken
          BY <4>1, TokenFacts DEF TabInv
        <4>2. CASE cookie' = cookie
          BY <3>1, <4>2 DEF Newest
        <4>3. ASSUME NEW m \in net, m \notin net', Grants(m), cookie' = m.set PROVE cookie'.sid # k.token.sid
          <5>1. ~IsRefresh(m)
            BY <2>2, <3>1, <4>3, OneLive
          <5>2. m.kind = "login" /\ m.phase = "ok"
            BY <4>3, <5>1, GrantFacts DEF Grants
          <5> QED BY <3>1, <4>3, <5>2 DEF TabInv, Secret
        <4> QED BY <1>3, <4>1, <4>2, <4>3
      <3> QED BY <1>0, <1>1, <3>1, <3>2 DEF Newest
    <2> QED BY <2>1, <2>2 DEF Ahead
  <1>7. Refused'
    BY <1>0, <1>2 DEF KeepInv, Refused, IsRefresh
  <1>8. Successive'
    BY <1>0 DEF KeepInv, Successive
  <1> QED BY <1>4, <1>5, <1>6, <1>7, <1>8 DEF KeepInv

\* A request carries the cookie.
LEMMA SendsTokens ==
  ASSUME TabInv, KeepInv, NEW t \in Tabs, NEW r, Sends(t, r)
  PROVE  KeepInv'
  <1>0. /\ UNCHANGED <<row, cookie>> /\ net' = net \union {r}
        /\ r.token = cookie /\ r.phase = "sent"
    BY DEF Sends
  <1>00. /\ IsToken(cookie) /\ \A m \in net : IsToken(m.token)
    BY TokenFacts DEF TabInv
  <1>1. Windows'
    BY <1>0 DEF KeepInv, Windows, InWindow
  <1>2. Lawful'
    BY <1>0 DEF KeepInv, Lawful
  <1>3. \A x : Newest(x) /\ (cookie.sid = x.sid => cookie.gen <= x.gen) => Newest(x)'
    BY <1>0 DEF Newest
  <1>4. Ahead'
    <2>1. Newest(cookie)'
      BY <1>0, <1>00, <1>3 DEF KeepInv, Ahead, IsToken
    <2>2. ASSUME NEW m \in net, IsRefresh(m) PROVE Newest(m.token)'
      <3>1. CASE m.token.sid # NoSid
        BY <1>3, <2>2, <3>1 DEF KeepInv, Ahead, Newest
      <3>2. CASE m.token.sid = NoSid
        BY <3>2 DEF Newest
      <3> QED BY <3>1, <3>2
    <2> QED BY <1>0, <2>1, <2>2 DEF Ahead
  <1>5. Refused'
    BY <1>0 DEF KeepInv, Refused
  <1>6. Successive'
    BY <1>0 DEF KeepInv, Successive
  <1> QED BY <1>1, <1>2, <1>4, <1>5, <1>6 DEF KeepInv

\* Rows that end, or whose window ends when nobody presents an older token.
LEMMA RowsTokens ==
  ASSUME TabInv, KeepInv, UNCHANGED <<cookie, net>>,
         \A s \in Sids :
             /\ row'[s].gen = row[s].gen /\ row'[s].prev = row[s].prev
             /\ row'[s].status = "active" => row[s].status = "active"
             /\ row'[s].status # "refresh_reuse"
             /\ row[s].grace /\ ~row'[s].grace =>
                  /\ \A m \in net : m.token.sid = s => m.token.gen >= row[s].gen
                  /\ cookie.sid = s => cookie.gen >= row[s].gen
  PROVE  KeepInv'
  <1>0. /\ \A m \in net : IsToken(m.token)
        /\ IsToken(cookie) /\ \A s \in Sids : row[s].gen \in Nat
    BY TokenFacts DEF TabInv
  <1>1. Windows'
    <2>1. InWindow(cookie)'
      BY <1>0 DEF KeepInv, Windows, InWindow, IsToken
    <2>2. \A m \in net : InWindow(m.token)'
      BY <1>0 DEF KeepInv, Windows, InWindow, IsToken
    <2>3. \A m \in net : m.kind = "refresh" /\ m.phase = "ok" => m.token.sid \in Sids
      BY <1>0 DEF TabInv, Served, IsToken
    <2>4. \A m \in net : m.kind = "refresh" /\ m.phase = "ok" => m.token.gen < row'[m.token.sid].gen
      BY <2>3 DEF KeepInv, Windows
    <2> QED BY <2>1, <2>2, <2>4 DEF Windows
  <1>2. Lawful'
    BY DEF KeepInv, Lawful
  <1>3. \A x : IsToken(x) /\ Newest(x) => Newest(x)'
    BY DEF Newest, IsToken
  <1>4. Ahead'
    BY <1>0, <1>3 DEF KeepInv, Ahead, IsRefresh
  <1>5. Refused'
    BY <1>0 DEF KeepInv, Refused, IsRefresh, IsToken
  <1>6. Successive'
    BY DEF KeepInv, Successive
  <1> QED BY <1>1, <1>2, <1>4, <1>5, <1>6 DEF KeepInv

\* The server takes m to the phase given, with the token it carries.
Moves(m, phase) ==
    /\ UNCHANGED cookie
    /\ \A n \in net' : (n \in net /\ n # m) \/ (Same(n, m) /\ (n.live <=> m.live) /\ n.phase = phase)

\* The row of m's token is rotated, or no token changes.
Rotates(m) ==
    \/ \A s \in Sids : /\ row'[s].gen = row[s].gen /\ row'[s].prev = row[s].prev
                       /\ row[s].grace => row'[s].grace
    \/ /\ m.token.sid \in Sids /\ row[m.token.sid].gen = m.token.gen
       /\ row'[m.token.sid].gen = m.token.gen + 1 /\ row'[m.token.sid].prev = m.token.gen
       /\ row'[m.token.sid].grace
       /\ \A s \in Sids \ {m.token.sid} : row'[s] = row[s]

LEMMA ServeTurns ==
  ASSUME TabInv, NEW m \in net, NEW phase, NEW set, UNCHANGED cookie,
         Answer(m, phase, set) \/ Advance(m, phase)
  PROVE  Moves(m, phase)
  <1>0. m \in Message
    BY DEF TabInv, TypeOK
  <1>1. ASSUME NEW r, r = [m EXCEPT !.phase = phase, !.set = set] \/ r = [m EXCEPT !.phase = phase]
        PROVE  Same(r, m) /\ (r.live <=> m.live) /\ r.phase = phase
    <2>1. Same(r, m) /\ r.live = m.live /\ r.phase = phase
      BY <1>0, <1>1 DEF Same, Message
    <2> QED BY <2>1
  <1>2. \A n \in net' : (n \in net /\ n # m) \/ n = [m EXCEPT !.phase = phase, !.set = set] \/ n = [m EXCEPT !.phase = phase]
    BY DEF Answer, Reply, Advance
  <1> QED BY <1>1, <1>2 DEF Moves

LEMMA TurnsTokens ==
  ASSUME TabInv, KeepInv, NEW m \in net, NEW phase, Moves(m, phase), Rotates(m),
         phase # "reuse",
         \A s \in Sids : /\ row'[s].status = "active" => row[s].status \in {"none", "active"}
                         /\ row'[s].status # "refresh_reuse",
         m.kind = "refresh" /\ phase = "ok" => m.token.sid \in Sids /\ m.token.gen < row'[m.token.sid].gen,
         IsRefresh(m) /\ phase = "unauthorized" /\ m.token # NoToken => row'[m.token.sid].status # "active"
  PROVE  KeepInv'
  <1>0. /\ \A n \in net : IsToken(n.token)
        /\ IsToken(cookie) /\ \A s \in Sids : row[s].gen \in Nat
    BY TokenFacts DEF TabInv
  <1>1. \A n \in net' : \E k \in net : n.token = k.token /\ n.kind = k.kind /\ (n.live <=> k.live)
    BY DEF Moves, Same
  <1>2. UNCHANGED cookie
    BY DEF Moves
  <1>3. \A x : IsToken(x) /\ InWindow(x) => InWindow(x)'
    BY <1>0 DEF Rotates, InWindow, IsToken
  <1>4. Windows'
    <2>1. \A n \in net' : InWindow(n.token)'
      BY <1>0, <1>1, <1>3 DEF KeepInv, Windows
    <2>2. ASSUME NEW n \in net', n.kind = "refresh", n.phase = "ok" PROVE n.token.gen < row'[n.token.sid].gen
      <3>1. CASE n \in net
        <4>1. n.token.sid \in Sids /\ n.token.gen < row[n.token.sid].gen /\ n.token.gen \in Nat
          BY <1>0, <2>2, <3>1 DEF TabInv, Served, IsToken, KeepInv, Windows
        <4> QED BY <1>0, <4>1 DEF Rotates, IsToken
      <3>2. CASE Same(n, m) /\ n.phase = phase
        BY <2>2, <3>2 DEF Same
      <3> QED BY <3>1, <3>2 DEF Moves
    <2> QED BY <1>0, <1>2, <1>3, <2>1, <2>2 DEF KeepInv, Windows
  <1>5. Lawful'
    BY DEF KeepInv, Lawful, Moves
  <1>6. ASSUME NEW x, IsToken(x), Newest(x) PROVE Newest(x)'
    <2>1. \A n \in net' : n.token.sid = x.sid /\ x.sid # NoSid => n.token.gen <= x.gen
      BY <1>1, <1>6 DEF Newest
    <2>2. x.sid # NoSid => row'[x.sid].gen <= x.gen + 1
      BY <1>0, <1>6 DEF Newest, Rotates, IsToken
    <2> QED BY <1>2, <1>6, <2>1, <2>2 DEF Newest
  <1>7. Ahead'
    <2>1. Newest(cookie)'
      BY <1>0, <1>2, <1>6 DEF KeepInv, Ahead
    <2>2. ASSUME NEW n \in net', IsRefresh(n) PROVE Newest(n.token)'
      <3>1. PICK k \in net : n.token = k.token /\ n.kind = k.kind /\ (n.live <=> k.live)
        BY <1>1
      <3>2. IsRefresh(k)
        BY <2>2, <3>1 DEF IsRefresh
      <3>3. Newest(k.token)'
        BY <1>0, <1>6, <3>2 DEF KeepInv, Ahead
      <3> QED BY <3>1, <3>3
    <2> QED BY <2>1, <2>2 DEF Ahead
  <1>8. Refused'
    <2> SUFFICES ASSUME NEW n \in net', IsRefresh(n), n.phase = "unauthorized", n.token # NoToken
                 PROVE  row'[n.token.sid].status # "active"
      BY DEF Refused
    <2>1. CASE n \in net
      <3>1. n.token.sid \in Sids /\ row[n.token.sid].status # "active" /\ Heard(n.token.sid)
        BY <1>0, <2>1 DEF KeepInv, Refused, IsToken, Heard
      <3>2. row[n.token.sid].status # "none"
        BY <3>1 DEF TabInv, Unborn
      <3> QED BY <3>1, <3>2
    <2>2. CASE Same(n, m) /\ (n.live <=> m.live) /\ n.phase = phase
      BY <2>2 DEF Same, IsRefresh
    <2> QED BY <2>1, <2>2 DEF Moves
  <1>9. Successive'
    BY DEF KeepInv, Successive, Rotates
  <1> QED BY <1>4, <1>5, <1>7, <1>8, <1>9 DEF KeepInv

LEMMA ServeTokens ==
  ASSUME TabInv, KeepInv, NEW m \in net, Serve(m) \/ ServeFails(m)
  PROVE  KeepInv'
  <1>0. /\ IsToken(m.token) /\ \A s \in Sids : row[s].gen \in Nat /\ row[s] \in Row
        /\ NoToken.sid = NoSid /\ NoSid \notin Sids /\ row \in [Sids -> Row]
    BY TokenFacts DEF TabInv, TypeOK
  <1>00. UNCHANGED row =>
           /\ Rotates(m)
           /\ \A s \in Sids : /\ row'[s].status = "active" => row[s].status \in {"none", "active"}
                              /\ row'[s].status # "refresh_reuse"
    BY DEF Rotates, KeepInv, Lawful
  <1>1. CASE ServeLookup(m)
    <2>1. PICK phase, set :
             /\ phase \in {"unauthorized", "mismatch", "rotate"}
             /\ Answer(m, phase, set) \/ Advance(m, phase)
             /\ phase = "unauthorized" /\ m.token # NoToken => row[m.token.sid].status # "active"
      BY <1>1 DEF ServeLookup
    <2>2. UNCHANGED <<row, cookie>>
      BY <1>1 DEF ServeLookup
    <2>3. Moves(m, phase)
      BY <2>1, <2>2, ServeTurns
    <2> QED BY <1>00, <2>1, <2>2, <2>3, TurnsTokens
  <1>2. CASE ServeRead(m)
    <2>1. UNCHANGED <<row, cookie>> /\ m.kind = "refresh" /\ m.phase = "rotate"
      BY <1>2 DEF ServeRead
    <2>2. m.token.sid \in Sids /\ m.token.gen \in Nat /\ InWindow(m.token)
      BY <1>0, <2>1 DEF TabInv, Served, IsToken, KeepInv, Windows
    <2>3. IsRefresh(m) => row[m.token.sid].gen <= m.token.gen + 1
      BY <1>0, <2>2 DEF KeepInv, Ahead, Newest
    <2>4. PICK phase, set :
             /\ phase \in {"internal", "swap", "unauthorized", "ok", "race"}
             /\ Answer(m, phase, set) \/ Advance(m, phase)
             /\ phase = "ok" => m.token.gen < row[m.token.sid].gen
             /\ IsRefresh(m) => phase # "unauthorized"
      <3>1. CASE row[m.token.sid].status # "active"
        BY <1>2, <3>1 DEF ServeRead
      <3>2. CASE row[m.token.sid].status = "active" /\ m.token.gen = row[m.token.sid].gen
        BY <1>2, <3>2 DEF ServeRead
      <3>3. CASE row[m.token.sid].status = "active" /\ m.token.gen # row[m.token.sid].gen /\ ~IsPrevious(m.token)
        <4>1. Answer(m, "unauthorized", NoToken)
          BY <1>2, <3>3 DEF ServeRead
        <4>2. ~IsRefresh(m)
          BY <1>0, <2>2, <2>3, <3>3 DEF InWindow, IsPrevious, KeepInv, Successive, Row
        <4> QED BY <4>1, <4>2
      <3>4. CASE row[m.token.sid].status = "active" /\ m.token.gen # row[m.token.sid].gen /\ IsPrevious(m.token)
        <4>1. m.token.gen < row[m.token.sid].gen /\ row[m.token.sid].grace
          BY <1>0, <2>2, <3>4 DEF InWindow, IsPrevious
        <4> QED BY <1>2, <3>4, <4>1 DEF ServeRead
      <3> QED BY <3>1, <3>2, <3>3, <3>4
    <2>5. Moves(m, phase)
      BY <2>1, <2>4, ServeTurns
    <2> QED BY <1>00, <2>1, <2>2, <2>4, <2>5, TurnsTokens
  <1>3. CASE ServeSwap(m)
    <2>1. UNCHANGED cookie /\ m.kind = "refresh" /\ m.phase = "swap"
      BY <1>3 DEF ServeSwap
    <2>2. m.token.sid \in Sids /\ m.token.gen \in Nat
      BY <1>0, <2>1 DEF TabInv, Served, IsToken
    <2>3. CASE row[m.token.sid].status = "active" /\ row[m.token.sid].gen = m.token.gen
      <3>1. /\ Answer(m, "ok", DeriveNext(m.token))
            /\ row' = [row EXCEPT ![m.token.sid] = [status |-> "active", gen |-> DeriveNext(m.token).gen,
                                                    prev |-> m.token.gen, grace |-> TRUE]]
        BY <1>3, <2>3 DEF ServeSwap
      <3>2. DeriveNext(m.token).gen = m.token.gen + 1
        BY DEF DeriveNext
      <3>3. /\ row'[m.token.sid] = [status |-> "active", gen |-> m.token.gen + 1, prev |-> m.token.gen, grace |-> TRUE]
            /\ \A s \in Sids \ {m.token.sid} : row'[s] = row[s]
        BY <1>0, <2>2, <3>1, <3>2
      <3>4. /\ row'[m.token.sid].status = "active" /\ row'[m.token.sid].gen = m.token.gen + 1
            /\ row'[m.token.sid].prev = m.token.gen /\ row'[m.token.sid].grace
        BY <3>3
      <3>5. Rotates(m)
        BY <2>2, <2>3, <3>3, <3>4 DEF Rotates
      <3>6. Moves(m, "ok")
        BY <2>1, <3>1, ServeTurns
      <3>7. \A s \in Sids : /\ row'[s].status = "active" => row[s].status \in {"none", "active"}
                            /\ row'[s].status # "refresh_reuse"
        BY <2>3, <3>3, <3>4 DEF KeepInv, Lawful
      <3>8. m.token.gen < row'[m.token.sid].gen
        BY <2>2, <3>4
      <3> QED BY <2>2, <3>5, <3>6, <3>7, <3>8, TurnsTokens
    <2>4. CASE ~(row[m.token.sid].status = "active" /\ row[m.token.sid].gen = m.token.gen)
      <3>1. Advance(m, "rotate") /\ UNCHANGED row
        BY <1>3, <2>4 DEF ServeSwap
      <3>2. Moves(m, "rotate")
        BY <2>1, <3>1, ServeTurns
      <3> QED BY <1>00, <3>1, <3>2, TurnsTokens
    <2> QED BY <2>3, <2>4
  <1>4. CASE ServeReuse(m)
    BY <1>4 DEF ServeReuse, KeepInv, Lawful
  <1>5. CASE ServeLogout(m)
    <2>1. UNCHANGED cookie /\ m.kind = "logout"
      BY <1>5 DEF ServeLogout
    <2>2. PICK phase, set : phase \in {"mismatch", "kept", "ok"} /\ Answer(m, phase, set)
      BY <1>5 DEF ServeLogout
    <2>3. Moves(m, phase)
      BY <2>1, <2>2, ServeTurns
    <2>4. UNCHANGED row \/ \E s \in Sids : Revoke(s, "logout")
      <3>1. m.bearer \in Sids \union {NoSid} /\ m.token.sid \in Sids \union {NoSid}
        BY <1>0, TokenFacts DEF Message, IsToken, TabInv
      <3> QED BY <1>5, <3>1 DEF ServeLogout
    <2>5. ASSUME NEW s \in Sids, Revoke(s, "logout") PROVE KeepInv'
      <3>1. \A u \in Sids : /\ row'[u].gen = row[u].gen /\ row'[u].prev = row[u].prev /\ row'[u].grace = row[u].grace
                            /\ row'[u].status = IF u = s THEN "logout" ELSE row[u].status
        BY <1>0, <2>5 DEF Revoke, Row
      <3>2. Rotates(m)
        BY <3>1 DEF Rotates
      <3>3. \A u \in Sids : /\ row'[u].status = "active" => row[u].status \in {"none", "active"}
                            /\ row'[u].status # "refresh_reuse"
        BY <3>1 DEF KeepInv, Lawful
      <3> QED BY <2>1, <2>2, <2>3, <3>2, <3>3, TurnsTokens DEF IsRefresh
    <2>6. CASE UNCHANGED row
      BY <1>00, <2>1, <2>2, <2>3, <2>6, TurnsTokens DEF IsRefresh
    <2> QED BY <2>4, <2>5, <2>6
  <1>6. CASE \E s \in Sids : ServeLogin(m, s)
    <2>1. PICK s \in Sids : ServeLogin(m, s)
      BY <1>6
    <2>2. /\ UNCHANGED cookie /\ m.kind = "login" /\ row[s].status = "none"
          /\ row' = [row EXCEPT ![s].status = "active"] /\ Answer(m, "ok", [sid |-> s, gen |-> 0])
      BY <2>1 DEF ServeLogin
    <2>3. Moves(m, "ok")
      BY <2>2, ServeTurns
    <2>4. \A u \in Sids : /\ row'[u].gen = row[u].gen /\ row'[u].prev = row[u].prev /\ row'[u].grace = row[u].grace
                          /\ row'[u].status = IF u = s THEN "active" ELSE row[u].status
      BY <1>0, <2>2 DEF Row
    <2>5. Rotates(m)
      BY <2>4 DEF Rotates
    <2>6. \A u \in Sids : /\ row'[u].status = "active" => row[u].status \in {"none", "active"}
                          /\ row'[u].status # "refresh_reuse"
      BY <2>2, <2>4 DEF KeepInv, Lawful
    <2> QED BY <2>2, <2>3, <2>5, <2>6, TurnsTokens DEF IsRefresh
  <1>7. CASE ServeFails(m)
    <2>1. PICK phase, set : phase \in {"unread", "internal"} /\ Answer(m, phase, set)
      BY <1>7 DEF ServeFails
    <2>2. UNCHANGED <<row, cookie>>
      BY <1>7 DEF ServeFails
    <2>3. Moves(m, phase)
      BY <2>1, <2>2, ServeTurns
    <2> QED BY <1>00, <2>1, <2>2, <2>3, TurnsTokens
  <1> QED BY <1>1, <1>2, <1>3, <1>4, <1>5, <1>6, <1>7 DEF Serve

\* Sessions end elsewhere, and windows as the assumption on retries says.
LEMMA ClockTokens ==
  ASSUME TabInv, KeepInv, PromptRetry, NEW s \in Sids, RevokeElsewhere(s) \/ GraceEnds(s)
  PROVE  KeepInv'
  <1>0. row \in [Sids -> Row] /\ \A u \in Sids : row[u] \in Row
    BY DEF TabInv, TypeOK
  <1>1. CASE RevokeElsewhere(s)
    <2>1. \A u \in Sids : /\ row'[u].gen = row[u].gen /\ row'[u].prev = row[u].prev /\ row'[u].grace = row[u].grace
                          /\ row'[u].status = IF u = s THEN "user_revoked" ELSE row[u].status
      BY <1>0, <1>1 DEF RevokeElsewhere, Revoke, Row
    <2>2. \A u \in Sids : row[u].status # "refresh_reuse"
      BY DEF KeepInv, Lawful
    <2>3. UNCHANGED <<cookie, net>>
      BY <1>1 DEF RevokeElsewhere
    <2> QED BY <2>1, <2>2, <2>3, RowsTokens
  <1>2. CASE GraceEnds(s)
    <2>1. \A u \in Sids : /\ row'[u].gen = row[u].gen /\ row'[u].prev = row[u].prev /\ row'[u].status = row[u].status
                          /\ u # s => row'[u].grace = row[u].grace
      BY <1>0, <1>2 DEF GraceEnds, Row
    <2>2. /\ \A m \in net : m.token.sid = s => m.token.gen >= row[s].gen
          /\ cookie.sid = s => cookie.gen >= row[s].gen
          /\ UNCHANGED <<cookie, net>>
      BY <1>2 DEF GraceEnds
    <2>3. \A u \in Sids : row[u].status # "refresh_reuse"
      BY DEF KeepInv, Lawful
    <2> QED BY <2>1, <2>2, <2>3, RowsTokens
  <1> QED BY <1>1, <1>2

LEMMA KeepInvInit ==
  ASSUME Init, LockModes \subseteq {TRUE}
  PROVE  LockInv /\ KeepInv
  <1>1. locks
    BY DEF Init
  <1>2. Holds
    BY DEF Init, Holds, NewPage
  <1>3. Windows
    BY DEF Init, Windows, InWindow, NoToken
  <1>4. Lawful /\ Refused /\ Successive
    BY DEF Init, Lawful, Refused, Successive
  <1>5. Ahead
    BY DEF Init, Ahead, Newest, NoToken
  <1> QED BY <1>1, <1>2, <1>3, <1>4, <1>5 DEF LockInv, KeepInv

LEMMA KeepInvStep ==
  ASSUME TabInv, LockInv, KeepInv, PromptRetry, [Next]_vars
  PROVE  KeepInv'
  <1>1. CASE UNCHANGED vars
    BY <1>1, RowsTokens DEF vars, KeepInv, Lawful
  <1>2. ASSUME NEW m \in net, Serve(m) \/ ServeFails(m) PROVE KeepInv'
    BY <1>2, ServeTokens
  <1>3. ASSUME NEW m \in net, Deliver(m) PROVE KeepInv'
    BY <1>3, DeliverBrowses, BrowsesTokens
  <1>4. ASSUME NEW m \in net, RequestFails(m) \/ RequestLost(m) PROVE KeepInv'
    BY <1>4, FailBrowses, BrowsesTokens
  <1>5. ASSUME NEW t \in Tabs, TabStep(t) \/ User(t) PROVE KeepInv'
    BY <1>5, TabMoves, BrowsesTokens, SendsTokens
  <1>6. ASSUME NEW s \in Sids, RevokeElsewhere(s) \/ GraceEnds(s) PROVE KeepInv'
    BY <1>6, ClockTokens
  <1> QED BY <1>1, <1>2, <1>3, <1>4, <1>5, <1>6 DEF Next

(* With Web Locks, and while a token that was answered is not presented      *)
(* again after RefreshReplayWindow, the tabs of a browser keep its login:    *)
(* the server never takes their tokens for stolen ones, and refuses a        *)
(* refresh whose row it could read only for a session that has been signed   *)
(* out.                                                                      *)
THEOREM TabsKeepSessionCorrect ==
  ASSUME PromptRetry, LockModes \subseteq {TRUE}
  PROVE  Spec => []TabsKeepSession
  <1>1. Init => TabInv /\ LockInv /\ KeepInv
    BY TabInvInit, KeepInvInit
  <1>2. TabInv /\ LockInv /\ KeepInv /\ [Next]_vars => (TabInv /\ LockInv /\ KeepInv)'
    BY TabInvStep, LockInvStep, KeepInvStep
  <1>3. KeepInv => TabsKeepSession
    BY DEF KeepInv, Lawful, Refused, IsRefresh, TabsKeepSession
  <1> QED BY <1>1, <1>2, <1>3, PTL DEF Spec

============================================================================
