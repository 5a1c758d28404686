---------------------------- MODULE AuthSession ----------------------------
(***************************************************************************)
(* Dashboard login: the tabs of ONE browser, the refresh cookie they share *)
(* and the server's user_sessions rows.                                    *)
(*                                                                         *)
(*   - web/src/lib/auth-session.ts keeps the login of a tab in memory, runs*)
(*     at most one refresh per tab (refreshPromise), throws away the answer*)
(*     of a refresh that something newer has overtaken (authEpoch) and,    *)
(*     where the browser has Web Locks, runs one refresh per browser;      *)
(*   - auth-session-sync.ts tells the other tabs of logins and sign-outs;  *)
(*   - controller/auth_session.go and service/auth_session.go rotate the   *)
(*     refresh token: the successor is derived from the token presented,   *)
(*     the row keeps the digest of the current token and of the one before *)
(*     it, and the one before it is answered with the same successor while *)
(*     its grace window lasts.                                             *)
(*                                                                         *)
(* A refresh token is its session and its generation, the number of        *)
(* rotations behind it: deriveNextRefreshSecret makes each generation a    *)
(* function of the one before.  The server reads its rows from the         *)
(* database; module UserSessionCache is about the Redis copy of them.      *)
(***************************************************************************)
EXTENDS Naturals, Sequences, FiniteSets, SequencesExt

CONSTANTS
    Tabs,        \* tabs of the browser
    Sids,        \* session ids that logins may create
    NoSid,       \* no session in the store, no X-Auth-Session header
    LockModes,   \* may navigator.locks exist (pages served over HTTPS)?
    PromptRetry, \* a token that was answered is not presented again after
                 \* RefreshReplayWindow (30 s) by a request or by the cookie
    Turns        \* bound: sign-outs, further logins, reloads, token expiries,
                 \* failed requests and revocations by others

ASSUME AuthSessionAssumption ==
    /\ NoSid \notin Sids
    /\ LockModes \subseteq BOOLEAN
    /\ PromptRetry \in BOOLEAN
    /\ Turns \in Nat

NoToken == [sid |-> NoSid, gen |-> 0]

Kinds == {"refresh", "logout", "login"}

VARIABLES
    locks,   \* navigator.locks exists in this browser; never changes
    row,     \* user_sessions: status (or the reason of the revocation), the
             \* generations of refresh_hash and of previous_refresh_hash, is
             \* the previous one in its window
    cookie,  \* the browser's new_api_refresh cookie
    page,    \* per tab: auth store, refresh runner, pending calls
    queue,   \* tabs that hold (the first) or wait for the browser lock
    net,     \* requests on their way, being served, or answered
    inbox,   \* per tab: authenticated and signed_out events not delivered
    turns,   \* what is left of Turns
    ended    \* history: per tab, the ended sessions it has signed out of

vars == <<locks, row, cookie, page, queue, net, inbox, turns, ended>>

(***************************************************************************)
(* State of one tab.  `current` is authEpoch = refreshEpoch of the running *)
(* refresh: every change of the epoch makes it FALSE for good.             *)
(***************************************************************************)
NewPage ==
    [sid |-> NoSid, fresh |-> FALSE, boot |-> "idle",
     run |-> "none", current |-> FALSE, race |-> 0, again |-> TRUE,
     api |-> "none", op |-> "none"]

\* stores/auth-store.ts, setBundle and reset.
SetBundle(p, s) == [p EXCEPT !.sid = s, !.fresh = TRUE, !.boot = "complete"]

ResetStore(p, b) == [p EXCEPT !.sid = NoSid, !.fresh = FALSE, !.boot = b]

Supersede(p) == [p EXCEPT !.current = FALSE]

ApplyAuthBundle(p, s) == Supersede(SetBundle(p, s))

\* Mutant of ClearAuthentication: the epoch stays.
ClearKeepingEpoch(p) == ResetStore(p, "complete")

ClearAuthentication(p) == Supersede(ResetStore(p, "complete"))

\* Mutant of Publish: also without a session id.
PublishUnchecked(t, kind, s) ==
    [u \in Tabs |-> IF u # t THEN Append(inbox[u], [kind |-> kind, sid |-> s]) ELSE inbox[u]]

\* publishAuthSessionEvent: every other tab hears of it; nothing is sent
\* without a session id.
Publish(t, kind, s) ==
    [u \in Tabs |-> IF u # t /\ s # NoSid
                      THEN Append(inbox[u], [kind |-> kind, sid |-> s])
                      ELSE inbox[u]]

\* applyAuthBundle(bundle, true).
PublishLogin(t, s) ==
    IF page[t].sid # s THEN Publish(t, "authenticated", s) ELSE inbox

\* The two answers with status 401: the session is refused, or its row could
\* not be read.  A page cannot tell them apart.
Denied == {"unauthorized", "unread"}

Answers == {"ok", "kept", "race", "mismatch", "internal"} \union Denied

\* A page load ends the page's requests for the browser (the server may still
\* be serving them), its place in the lock's queue and its pending events.
Orphaned(t, msgs) ==
    {IF m.tab = t THEN [m EXCEPT !.live = FALSE] ELSE m :
       m \in {n \in msgs : n.tab = t => n.phase \notin Answers}}

\* Mutant of Leave: the lock is not given back.
LeaveNothing(t) == queue

\* A tab has at most one place in the queue.
Leave(t) ==
    IF \E i \in DOMAIN queue : queue[i] = t
      THEN RemoveAt(queue, CHOOSE i \in DOMAIN queue : queue[i] = t)
      ELSE queue

\* Bound: one request of an earlier page of the tab at a time.
MayLoad(t) == ~ \E m \in net : m.tab = t /\ ~m.live

LoadPage(t, msgs, events) ==
    /\ page' = [page EXCEPT ![t] = NewPage]
    /\ net' = Orphaned(t, msgs)
    /\ queue' = Leave(t)
    /\ inbox' = [events EXCEPT ![t] = <<>>]

Send(t, kind, expect) ==
    LET p == page[t]
    IN  [kind |-> kind, tab |-> t, live |-> TRUE, token |-> cookie,
         expect |-> expect, bearer |-> IF p.fresh THEN p.sid ELSE NoSid,
         phase |-> "sent", set |-> NoToken]

----------------------------------------------------------------------------
(***************************************************************************)
(* Starting a refresh.                                                     *)
(***************************************************************************)

\* refreshAuthentication: join the running refresh or start one, with the
\* epoch taken before the browser lock is asked for.
StartRefresh(t, p) ==
    IF p.run # "none"
      THEN /\ page' = [page EXCEPT ![t] = p]
           /\ UNCHANGED queue
      ELSE /\ page' = [page EXCEPT ![t] =
                        [p EXCEPT !.run = IF locks THEN "queued" ELSE "start",
                                  !.current = TRUE, !.race = 0, !.again = TRUE]]
           /\ queue' = IF locks THEN Append(queue, t) ELSE queue

\* resolveAuthentication, from the route guards and the sign-in page.
Resolve(t) ==
    LET p == page[t]
    IN  /\ IF p.sid # NoSid /\ p.fresh
             THEN /\ p.boot # "complete"
                  /\ page' = [page EXCEPT ![t].boot = "complete"]
                  /\ UNCHANGED queue
             ELSE /\ ~ (p.boot = "complete" /\ p.sid = NoSid)
                  /\ p.run = "none"
                  /\ StartRefresh(t, [p EXCEPT !.boot = "checking"])
        /\ UNCHANGED <<row, cookie, net, inbox, turns, ended>>

\* bootstrapAuthentication, on every page load: nothing is asked when memory
\* is empty and there is no hint, which is written and cleared with the cookie.
Bootstrap(t) ==
    /\ page[t].boot = "idle"
    /\ cookie # NoToken \/ page[t].sid # NoSid
    /\ Resolve(t)

\* Mutant of ApiUnauthorized: only an expired token asks for a refresh.
ApiExpired(t) ==
    LET p == page[t]
    IN  /\ p.sid # NoSid /\ p.api = "none" /\ ~p.fresh
        /\ StartRefresh(t, [p EXCEPT !.api = "waiting"])
        /\ UNCHANGED <<row, cookie, net, inbox, turns, ended>>

\* The response interceptor of http-client.ts: a 401 waits for a refresh.
ApiUnauthorized(t) ==
    LET p == page[t]
    IN  /\ p.sid # NoSid
        /\ p.api = "none"
        /\ ~p.fresh \/ row[p.sid].status # "active"
        /\ StartRefresh(t, [p EXCEPT !.api = "waiting"])
        /\ UNCHANGED <<row, cookie, net, inbox, turns, ended>>

\* The request is sent again with the new token; a second 401 signs the tab
\* out, without telling the others, and loads the sign-in page unless the
\* tab shows it already.
ApiRetry(t) ==
    LET p == page[t]
    IN  /\ p.api = "retry"
        /\ IF p.sid # NoSid /\ p.fresh /\ row[p.sid].status = "active"
             THEN /\ page' = [page EXCEPT ![t].api = "none"]
                  /\ UNCHANGED <<net, queue, inbox>>
             ELSE \/ /\ MayLoad(t)
                     /\ LoadPage(t, net, inbox)
                  \/ /\ page' = [page EXCEPT ![t] =
                                   [ClearAuthentication(p) EXCEPT !.api = "none"]]
                     /\ UNCHANGED <<net, queue, inbox>>
        /\ UNCHANGED <<row, cookie, turns, ended>>

\* navigator.locks grants the lock in the order of the requests.
GetLock(t) ==
    /\ page[t].run = "queued"
    /\ Head(queue) = t
    /\ page' = [page EXCEPT ![t].run = "start"]
    /\ UNCHANGED <<row, cookie, queue, net, inbox, turns, ended>>

\* What the callers of refreshAuthentication do with its outcome: the
\* interceptor retries, and executeLogout signs out again or gives up.
Outcome(p, kind) ==
    [p EXCEPT
       !.run = "none",
       !.current = FALSE,
       !.api = IF @ = "waiting" /\ kind = "authenticated" THEN "retry"
               ELSE IF @ = "waiting" THEN "none" ELSE @,
       !.op = IF @ = "recover" /\ kind = "authenticated" THEN "again"
              ELSE IF @ = "recover" THEN "none" ELSE @]

\* createRefreshRunner, first lines of run: an overtaken refresh ends here.
SendRefresh(t) ==
    LET p == page[t]
    IN  /\ p.run = "start"
        /\ IF p.current
             THEN /\ net' = net \union {Send(t, "refresh", p.sid)}
                  /\ page' = [page EXCEPT ![t].run = "sent"]
                  /\ UNCHANGED queue
             ELSE /\ page' = [page EXCEPT ![t] = Outcome(p, "transient_error")]
                  /\ queue' = Leave(t)
                  /\ UNCHANGED net
        /\ UNCHANGED <<row, cookie, inbox, turns, ended>>

----------------------------------------------------------------------------
(***************************************************************************)
(* The server.                                                             *)
(***************************************************************************)
\* An answer to a page that is gone reaches nobody.
Reply(m, r) == net' = (net \ {m}) \union (IF m.live THEN {r} ELSE {})

Answer(m, phase, set) == Reply(m, [m EXCEPT !.phase = phase, !.set = set])

Advance(m, phase) == net' = (net \ {m}) \union {[m EXCEPT !.phase = phase]}

\* deriveNextRefreshSecret: the successor is a function of the token.
DeriveNext(token) == [sid |-> token.sid, gen |-> token.gen + 1]

\* previous_refresh_hash is the digest of this token.  (A row that was never
\* rotated has none; its current hash, compared first, is of generation 0.)
IsPrevious(token) == token.gen = row[token.sid].prev

\* RefreshAuth and RefreshLoginSession up to the rotation.
ServeLookup(m) ==
    /\ m.kind = "refresh" /\ m.phase = "sent"
    /\ IF m.token = NoToken
         THEN Answer(m, "unauthorized", NoToken)
         ELSE IF m.expect \notin {NoSid, m.token.sid}
         THEN Answer(m, "mismatch", m.token)
         ELSE IF row[m.token.sid].status # "active"
         THEN Answer(m, "unauthorized", NoToken)
         ELSE Advance(m, "rotate")
    /\ UNCHANGED <<row, cookie, page, queue, inbox, turns, ended>>

\* RotateUserSessionRefresh: the row is read.  A session revoked since the
\* lookup is an error no status is defined for (500).  A previous token is
\* answered, in its window, with its successor if that is the row's token, and
\* revokes the session after it.
ServeRead(m) ==
    LET r == row[m.token.sid]
        next == DeriveNext(m.token)
    IN  /\ m.kind = "refresh" /\ m.phase = "rotate"
        /\ IF r.status # "active"
             THEN Answer(m, "internal", m.token)
           ELSE IF m.token.gen = r.gen
             THEN Advance(m, "swap")
           ELSE IF ~IsPrevious(m.token)
             THEN Answer(m, "unauthorized", NoToken)
           ELSE IF ~r.grace
             THEN Advance(m, "reuse")
             ELSE Answer(m, IF next.gen = r.gen THEN "ok" ELSE "race", next)
        /\ UNCHANGED <<row, cookie, page, queue, inbox, turns, ended>>

\* A statement of a refresh fails.  Where the session's row cannot be read the
\* token counts as invalid: 401, and the cookie is cleared.  Everywhere else
\* the answer is 500, and the cookie stays.
ServeFails(m) ==
    /\ m.kind = "refresh" /\ m.phase \in {"sent", "rotate", "swap", "reuse"}
    /\ m.token # NoToken /\ m.expect \in {NoSid, m.token.sid}
    /\ turns > 0
    /\ turns' = turns - 1
    /\ \/ m.phase = "sent" /\ Answer(m, "unread", NoToken)
       \/ Answer(m, "internal", m.token)
    /\ UNCHANGED <<row, cookie, page, queue, inbox, ended>>

\* Mutant of ServeSwap: the previous token gets no window.
SwapWithoutGrace(m) ==
    LET s == m.token.sid
    IN  /\ m.kind = "refresh" /\ m.phase = "swap"
        /\ IF row[s].status = "active" /\ row[s].gen = m.token.gen
             THEN /\ row' = [row EXCEPT ![s].gen = DeriveNext(m.token).gen,
                                         ![s].prev = m.token.gen]
                  /\ Answer(m, "ok", DeriveNext(m.token))
             ELSE Advance(m, "rotate") /\ UNCHANGED row
        /\ UNCHANGED <<cookie, page, queue, inbox, turns, ended>>

\* The UPDATE is a compare-and-swap on refresh_hash; when it changes no row
\* the row is read again.
ServeSwap(m) ==
    LET s == m.token.sid
    IN  /\ m.kind = "refresh" /\ m.phase = "swap"
        /\ IF row[s].status = "active" /\ row[s].gen = m.token.gen
             THEN /\ row' = [row EXCEPT ![s] = [status |-> "active",
                                                gen |-> DeriveNext(m.token).gen,
                                                prev |-> m.token.gen,
                                                grace |-> TRUE]]
                  /\ Answer(m, "ok", DeriveNext(m.token))
             ELSE /\ Advance(m, "rotate")
                  /\ UNCHANGED row
        /\ UNCHANGED <<cookie, page, queue, inbox, turns, ended>>

Revoke(s, reason) == row' = [row EXCEPT ![s].status = reason]

\* A previous token after its window: the session is revoked whatever
\* rotation came in between; when it was revoked already the answer is 500.
ServeReuse(m) ==
    /\ m.kind = "refresh" /\ m.phase = "reuse"
    /\ IF row[m.token.sid].status = "active"
         THEN /\ Revoke(m.token.sid, "refresh_reuse")
              /\ Answer(m, "unauthorized", NoToken)
         ELSE /\ Answer(m, "internal", m.token)
              /\ UNCHANGED row
    /\ UNCHANGED <<cookie, page, queue, inbox, turns, ended>>

\* The token is the current one, or the previous one in its window.
ValidHash(token) ==
    LET r == row[token.sid]
    IN  token.gen = r.gen \/ (IsPrevious(token) /\ r.grace)

\* AuthLogout: the session of a valid access token is revoked, else the one of
\* the cookie when the server still knows the token.  Both answers are a
\* success, and the cookie of that session is cleared.
ServeLogout(m) ==
    LET mismatch == \/ m.expect # NoSid /\ m.token # NoToken /\ m.token.sid # m.expect
                    \/ m.expect # NoSid /\ m.bearer \notin {NoSid, m.expect}
        s == IF m.bearer # NoSid THEN m.bearer ELSE m.token.sid
        keep == m.bearer # NoSid /\ m.token.sid # m.bearer
    IN  /\ m.kind = "logout" /\ m.phase = "sent"
        /\ IF ~mismatch /\ s # NoSid /\ row[s].status = "active"
              /\ (m.bearer # NoSid \/ ValidHash(m.token))
             THEN Revoke(s, "logout")
             ELSE UNCHANGED row
        /\ IF mismatch THEN Answer(m, "mismatch", m.token)
           ELSE Answer(m, IF keep THEN "kept" ELSE "ok", NoToken)
        /\ UNCHANGED <<cookie, page, queue, inbox, turns, ended>>

\* CreateLoginSession: a new row; the answer carries its first token.
ServeLogin(m, s) ==
    /\ m.kind = "login" /\ m.phase = "sent"
    /\ row[s].status = "none"
    /\ row' = [row EXCEPT ![s].status = "active"]
    /\ Answer(m, "ok", [sid |-> s, gen |-> 0])
    /\ UNCHANGED <<cookie, page, queue, inbox, turns, ended>>

\* RevokeUserSession from another device, a changed password, an expiry.
RevokeElsewhere(s) ==
    /\ row[s].status = "active"
    /\ turns > 0
    /\ turns' = turns - 1
    /\ Revoke(s, "user_revoked")
    /\ UNCHANGED <<cookie, page, queue, net, inbox, ended>>

\* previous_valid_until passes.
GraceEnds(s) ==
    /\ row[s].grace
    /\ PromptRetry =>
         /\ \A m \in net : m.token.sid = s => m.token.gen >= row[s].gen
         /\ cookie.sid = s => cookie.gen >= row[s].gen
    /\ row' = [row EXCEPT ![s].grace = FALSE]
    /\ UNCHANGED <<cookie, page, queue, net, inbox, turns, ended>>

----------------------------------------------------------------------------
(***************************************************************************)
(* Answers.  The browser stores the cookie of an answer, then the page's   *)
(* code runs.                                                              *)
(***************************************************************************)
Answered(m, kind) == m.kind = kind /\ m.phase \in Answers

StoreCookie(m) ==
    cookie' = IF m.phase = "ok" \/ m.phase \in Denied THEN m.set ELSE cookie

\* The runner ends with an outcome.  A request that waited for it loads the
\* sign-in page on anonymous and out_of_sync, unless the tab shows it already.
Finish(t, m, p, kind, events) ==
    /\ \/ /\ page' = [page EXCEPT ![t] = Outcome(p, kind)]
          /\ queue' = Leave(t)
          /\ net' = net \ {m}
          /\ inbox' = events
       \/ /\ p.api = "waiting"
          /\ kind \in {"anonymous", "out_of_sync"}
          /\ MayLoad(t)
          /\ LoadPage(t, net \ {m}, events)
    /\ UNCHANGED <<row, turns, ended>>

\* run goes on with another request.
Retry(t, m, p) ==
    /\ page' = [page EXCEPT ![t] = [p EXCEPT !.run = "start"]]
    /\ net' = net \ {m}
    /\ UNCHANGED <<row, queue, inbox, turns, ended>>

\* createRefreshRunner after the request; refreshRaceDelays has three delays.
\* The first mismatch empties the store without touching the epoch.
RefreshAnswered(m) ==
    LET t == m.tab
        p == page[t]
    IN  /\ Answered(m, "refresh")
        /\ StoreCookie(m)
        /\ IF ~p.current
             THEN Finish(t, m, p, "transient_error", inbox)
           ELSE IF m.phase = "ok"
             THEN Finish(t, m, ApplyAuthBundle(p, m.set.sid), "authenticated", inbox)
           ELSE IF m.phase = "race" /\ p.race < 3
             THEN Retry(t, m, [p EXCEPT !.race = @ + 1])
           ELSE IF m.phase = "mismatch" /\ p.again
             THEN Retry(t, m, [ResetStore(p, "idle") EXCEPT !.race = 0, !.again = FALSE])
           ELSE IF m.phase \in Denied
             THEN Finish(t, m, ClearAuthentication(p), "anonymous",
                         Publish(t, "signed_out", p.sid))
           ELSE IF m.phase = "internal"
             THEN Finish(t, m, [p EXCEPT !.boot = "idle"], "transient_error", inbox)
             ELSE Finish(t, m, ClearAuthentication(p), "out_of_sync", inbox)

\* handleSignOut after executeLogout: a mismatch is answered by one refresh
\* and one more attempt, a success clears the store and tells the other tabs.
LogoutAnswered(m) ==
    LET t == m.tab
        p == page[t]
    IN  /\ Answered(m, "logout")
        /\ StoreCookie(m)
        /\ net' = net \ {m}
        /\ IF m.phase = "mismatch" /\ p.op = "first"
             THEN /\ StartRefresh(t, [p EXCEPT !.op = "recover"])
                  /\ UNCHANGED <<inbox, ended>>
           ELSE IF m.phase = "mismatch"
             THEN /\ page' = [page EXCEPT ![t].op = "none"]
                  /\ UNCHANGED <<queue, inbox, ended>>
             ELSE /\ page' = [page EXCEPT ![t] =
                                [ClearAuthentication(p) EXCEPT !.op = "none"]]
                  /\ inbox' = Publish(t, "signed_out", p.sid)
                  /\ ended' = [ended EXCEPT ![t] = @ \union
                                 {s \in Sids : s = m.expect /\ row[s].status # "active"}]
                  /\ UNCHANGED queue
        /\ UNCHANGED <<row, turns>>

\* handleLoginSuccess: the bundle is dropped when the tab has got a session
\* since the login was sent.
LoginAnswered(m) ==
    LET t == m.tab
        p == page[t]
    IN  /\ Answered(m, "login")
        /\ StoreCookie(m)
        /\ net' = net \ {m}
        /\ IF p.sid = NoSid
             THEN /\ page' = [page EXCEPT ![t] =
                                [ApplyAuthBundle(p, m.set.sid) EXCEPT !.op = "none"]]
                  /\ inbox' = PublishLogin(t, m.set.sid)
             ELSE /\ page' = [page EXCEPT ![t].op = "none"]
                  /\ UNCHANGED inbox
        /\ UNCHANGED <<row, queue, turns, ended>>

\* Mutant of RequestFails: the tab goes on waiting for its sign-out or login.
FailsSilently(m) ==
    /\ m.live /\ m.kind # "refresh"
    /\ turns > 0
    /\ turns' = turns - 1
    /\ net' = net \ {m}
    /\ UNCHANGED <<row, cookie, page, queue, inbox, ended>>

\* No answer reaches the page (status 0): a refresh ends as a transient error
\* and keeps the login, a sign-out or a login reports the error.  The server
\* may still serve the request.
RequestFails(m) ==
    LET t == m.tab
        p == page[t]
        msgs == (net \ {m}) \union
                  (IF m.phase \in Answers THEN {} ELSE {[m EXCEPT !.live = FALSE]})
    IN  /\ m.live
        /\ turns > 0
        /\ turns' = turns - 1
        /\ MayLoad(t)
        /\ net' = msgs
        /\ IF m.kind = "refresh"
             THEN /\ page' = [page EXCEPT ![t] =
                                Outcome(IF p.current THEN [p EXCEPT !.boot = "idle"] ELSE p,
                                        "transient_error")]
                  /\ queue' = Leave(t)
             ELSE /\ page' = [page EXCEPT ![t].op = "none"]
                  /\ UNCHANGED queue
        /\ UNCHANGED <<row, cookie, inbox, ended>>

\* A request whose page is gone never reaches the server.
RequestLost(m) ==
    /\ ~m.live /\ m.phase = "sent"
    /\ net' = net \ {m}
    /\ UNCHANGED <<row, cookie, page, queue, inbox, turns, ended>>

----------------------------------------------------------------------------
(***************************************************************************)
(* The user, the clock and the other tabs.                                 *)
(***************************************************************************)
Login(t) ==
    /\ page[t].sid = NoSid /\ page[t].op = "none"
    /\ \E s \in Sids : row[s].status = "none"
    /\ ~ \E m \in net : m.kind = "login"
    /\ IF \A s \in Sids : row[s].status = "none"
         THEN UNCHANGED turns
         ELSE turns > 0 /\ turns' = turns - 1
    /\ page' = [page EXCEPT ![t].op = "login"]
    /\ net' = net \union {Send(t, "login", NoSid)}
    /\ UNCHANGED <<row, cookie, queue, inbox, ended>>

Logout(t) ==
    /\ page[t].sid # NoSid /\ page[t].op = "none"
    /\ turns > 0
    /\ turns' = turns - 1
    /\ page' = [page EXCEPT ![t].op = "first"]
    /\ net' = net \union {Send(t, "logout", page[t].sid)}
    /\ UNCHANGED <<row, cookie, queue, inbox, ended>>

\* executeLogout once more, with the session the refresh has found.
LogoutAgain(t) ==
    /\ page[t].op = "again"
    /\ page' = [page EXCEPT ![t].op = "second"]
    /\ net' = net \union {Send(t, "logout", page[t].sid)}
    /\ UNCHANGED <<row, cookie, queue, inbox, turns, ended>>

\* accessExpiresAt passes.
AccessExpires(t) ==
    /\ page[t].fresh
    /\ turns > 0
    /\ turns' = turns - 1
    /\ page' = [page EXCEPT ![t].fresh = FALSE]
    /\ UNCHANGED <<row, cookie, queue, net, inbox, ended>>

Reload(t) ==
    /\ turns > 0
    /\ turns' = turns - 1
    /\ MayLoad(t)
    /\ LoadPage(t, net, inbox)
    /\ UNCHANGED <<row, cookie, ended>>

\* The listener of routes/__root.tsx: a login elsewhere loads the page again,
\* a sign-out of this tab's session empties the store.
HearEvent(t) ==
    LET e == Head(inbox[t])
        rest == [inbox EXCEPT ![t] = Tail(@)]
    IN  /\ inbox[t] # <<>>
        /\ IF e.kind = "authenticated" /\ e.sid # page[t].sid
             THEN /\ MayLoad(t)
                  /\ LoadPage(t, net, rest)
           ELSE IF e.kind = "signed_out" /\ e.sid = page[t].sid
             THEN /\ page' = [page EXCEPT ![t] = ClearAuthentication(page[t])]
                  /\ inbox' = rest
                  /\ UNCHANGED <<queue, net>>
             ELSE /\ inbox' = rest
                  /\ UNCHANGED <<page, queue, net>>
        /\ UNCHANGED <<row, cookie, turns, ended>>

----------------------------------------------------------------------------
Init ==
    /\ locks \in LockModes
    /\ row = [s \in Sids |-> [status |-> "none", gen |-> 0, prev |-> 0,
                            grace |-> FALSE]]
    /\ cookie = NoToken
    /\ page = [t \in Tabs |-> NewPage]
    /\ queue = <<>>
    /\ net = {}
    /\ inbox = [t \in Tabs |-> <<>>]
    /\ turns = Turns
    /\ ended = [t \in Tabs |-> {}]

Serve(m) ==
    \/ ServeLookup(m) \/ ServeRead(m) \/ ServeSwap(m) \/ ServeReuse(m)
    \/ ServeLogout(m) \/ \E s \in Sids : ServeLogin(m, s)

Deliver(m) == RefreshAnswered(m) \/ LogoutAnswered(m) \/ LoginAnswered(m)

\* What the code of a tab does by itself.
TabStep(t) ==
    \/ Bootstrap(t) \/ GetLock(t) \/ SendRefresh(t) \/ ApiRetry(t)
    \/ LogoutAgain(t) \/ HearEvent(t)

User(t) ==
    \/ Resolve(t) \/ ApiUnauthorized(t) \/ Login(t) \/ Logout(t)
    \/ AccessExpires(t) \/ Reload(t)

Next ==
    /\ UNCHANGED locks
    /\ \/ \E m \in net : \/ Serve(m) \/ ServeFails(m)
                        \/ Deliver(m) \/ RequestFails(m) \/ RequestLost(m)
       \/ \E t \in Tabs : TabStep(t) \/ User(t)
       \/ \E s \in Sids : RevokeElsewhere(s) \/ GraceEnds(s)

Spec == Init /\ [][Next]_vars

(***************************************************************************)
(* Fairness: the server serves and the browser delivers, and the code of a *)
(* tab goes on.  Users, clocks and faults owe nothing; nor does a tab use  *)
(* the API by itself, since most pages fetch when they are opened only.    *)
(***************************************************************************)
Fairness ==
    /\ \A t \in Tabs, kind \in Kinds :
         WF_vars(/\ UNCHANGED locks
                 /\ \E m \in net : m.tab = t /\ m.kind = kind /\ (Serve(m) \/ Deliver(m)))
    /\ \A t \in Tabs : WF_vars(UNCHANGED locks /\ TabStep(t))

FairSpec == Spec /\ Fairness

----------------------------------------------------------------------------
(***************************************************************************)
(* Properties.                                                             *)
(***************************************************************************)
Token == [sid : Sids, gen : Nat] \union {NoToken}

Page ==
    [sid : Sids \union {NoSid}, fresh : BOOLEAN,
     boot : {"idle", "checking", "complete"},
     run : {"none", "queued", "start", "sent"}, current : BOOLEAN,
     race : 0..3, again : BOOLEAN, api : {"none", "waiting", "retry"},
     op : {"none", "login", "first", "recover", "again", "second"}]

Message ==
    [kind : Kinds, tab : Tabs, live : BOOLEAN, token : Token,
     expect : Sids \union {NoSid}, bearer : Sids \union {NoSid},
     phase : {"sent", "rotate", "swap", "reuse"} \union Answers,
     set : Token]

Row ==
    [status : {"none", "active", "logout", "refresh_reuse", "user_revoked"},
     gen : Nat, prev : Nat, grace : BOOLEAN]

(* The store, the runner, the requests and the rows hold what they may. *)
TypeOK ==
    /\ locks \in BOOLEAN
    /\ row \in [Sids -> Row]
    /\ cookie \in Token
    /\ page \in [Tabs -> Page]
    /\ queue \in Seq(Tabs)
    /\ net \subseteq Message
    /\ inbox \in [Tabs -> Seq([kind : {"authenticated", "signed_out"}, sid : Sids])]
    /\ turns \in 0..Turns
    /\ ended \in [Tabs -> SUBSET Sids]

(* A browser whose tabs only refresh keeps its login: the server refuses a  *)
(* tab's refresh only when someone has signed the session out (or when it   *)
(* could not read the row at all, the answer "unread", which RefreshAuth    *)
(* gives to an active session too), and never takes the browser's own       *)
(* tokens for stolen ones.                                                  *)
TabsKeepSession ==
    /\ \A s \in Sids : row[s].status # "refresh_reuse"
    /\ \A m \in net :
         m.live /\ m.kind = "refresh" /\ m.phase = "unauthorized" /\ m.token # NoToken
           => row[m.token.sid].status # "active"

(* A tab that has signed out of a session, which the server has ended, never *)
(* shows that session again, whatever refresh answers and events were on their way.    *)
NeverBack == \A t \in Tabs : page[t].sid \notin ended[t]

(* Every refresh a tab starts ends, also when other tabs hold the browser   *)
(* lock, leave, or are answered late.                                       *)
RefreshEnds == \A t \in Tabs : page[t].run # "none" ~> page[t].run = "none"

(* Every sign-out ends, the one that first has to refresh too.              *)
LogoutEnds == \A t \in Tabs : page[t].op # "none" ~> page[t].op = "none"

(* A session that has ended, wherever it was ended, disappears from every   *)
(* tab that goes on using the API; a tab that does not may show it for ever.*)
SignedOutWhereUsed ==
    \A t \in Tabs :
      WF_vars(UNCHANGED locks /\ ApiUnauthorized(t)) =>
        \A s \in Sids : page[t].sid = s /\ row[s].status # "active" ~> page[t].sid # s
=============================================================================
