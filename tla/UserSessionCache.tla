-------------------------- MODULE UserSessionCache --------------------------
(***************************************************************************)
(* One login session: its row in user_sessions, its hash in the Redis all  *)
(* nodes share, and the requests that read, refresh, advance and revoke it *)
(* (model/user_session.go).                                                *)
(*                                                                         *)
(* Nothing orders a cache write after the database read or change it comes *)
(* from except clocks: an active snapshot expires CacheTTL after the moment*)
(* before its row was read, a deny entry CacheTTL after it was written.    *)
(* Time is `now`; between any two statements any amount of it may pass.    *)
(* A snapshot is its version, with which user_auth_version changes.        *)
(***************************************************************************)
EXTENDS Naturals

CONSTANTS
    Proc,       \* requests in progress
    NoProc,
    CacheTTL,   \* userCacheTTLSeconds (SYNC_FREQUENCY)
    ExpiresAt,  \* expires_at of the session
    MaxVersion, \* bound: versions of the session
    MaxTime,    \* bound: the clock
    MaxFaults   \* bound: failed statements and crashed requests

ASSUME SessionAssumption ==
    /\ NoProc \notin Proc
    /\ CacheTTL \in Nat \ {0} /\ ExpiresAt \in Nat /\ MaxVersion \in Nat \ {0}
    /\ MaxTime \in Nat /\ MaxFaults \in Nat

VARIABLES
    now,
    active, version,    \* the row: status = active, version
    holder,             \* the transaction that has locked the row
    left,               \* history: when the row has left each version
    status, cached, exp, \* the hash: its status, its version, when it expires
    pc, kind, start,    \* a request: its step, its operation, when it began
    ver, deadline,      \* the snapshot it holds, cacheDeadline
    late,               \* history: it began after the session was sealed
    sealed, sealAt,     \* history: a revocation has published its tombstone
    faults

row    == <<active, version, holder, left>>
hash   == <<status, cached, exp>>
req    == <<kind, start, ver, deadline, late>>
seal   == <<sealed, sealAt>>
vars   == <<now, row, hash, pc, req, seal, faults>>

Versions == 1..MaxVersion

Ok    == UNCHANGED faults
Fault == faults < MaxFaults /\ faults' = faults + 1

Goto(p, at) == pc' = [pc EXCEPT ![p] = at]

Min(a, b) == IF a < b THEN a ELSE b

Init ==
    /\ now = 0
    /\ active = TRUE /\ version = 1 /\ holder = NoProc
    /\ left = [v \in Versions |-> 0]
    /\ status = "none" /\ cached = 1 /\ exp = 0
    /\ pc = [p \in Proc |-> "idle"]
    /\ kind = [p \in Proc |-> "read"]
    /\ start = [p \in Proc |-> 0]
    /\ ver = [p \in Proc |-> 1]
    /\ deadline = [p \in Proc |-> 0]
    /\ late = [p \in Proc |-> FALSE]
    /\ sealed = FALSE /\ sealAt = 0
    /\ faults = 0

-----------------------------------------------------------------------------
(* The hash.                                                               *)

Live == now < exp
Deny == {"revoking", "revoked"}

\* The script of writeUserSessionCache refuses an active snapshot over a deny
\* entry, and any snapshot over a newer version.
Refused(v, isActive) == Live /\ ((isActive /\ status \in Deny) \/ cached > v)

\* Mutant of PutActive: the TTL starts when the snapshot is written.
PutActiveAfresh(v, d) ==
    status' = "active" /\ cached' = v /\ exp' = Min(now + CacheTTL, ExpiresAt)

\* PEXPIREAT: the rest of the time since the row was read.
PutActive(v, d) == status' = "active" /\ cached' = v /\ exp' = Min(d, ExpiresAt)

\* PEXPIRE: the TTL of a deny entry starts when it is written.
PutDeny(s, v) ==
    /\ status' = s /\ cached' = v
    /\ exp' = IF now < ExpiresAt THEN Min(now + CacheTTL, ExpiresAt) ELSE now + 1

\* The row is active and has not expired at time t.
ValidAt(t) == active /\ t < ExpiresAt

\* A transaction of another request has not locked the row.
LockFree(p) == holder \in {NoProc, p}

\* Mutant of Unlock: the lock is kept.
UnlockForgotten(p) == holder' = holder

Unlock(p) == holder' = IF holder = p THEN NoProc ELSE holder

-----------------------------------------------------------------------------
(* GetUserSessionCached, RotateUserSessionRefresh and                      *)
(* AdvanceUserSessionAuthVersion.                                          *)

\* A request begins: what it needs to know of the time and of the past.
Begins(p, k) ==
    /\ pc[p] = "idle"
    /\ kind' = [kind EXCEPT ![p] = k]
    /\ start' = [start EXCEPT ![p] = now]
    /\ late' = [late EXCEPT ![p] = sealed]

\* A request returns without having authorized anything, or after its answer
\* has been used.
Leave(p) ==
    /\ Goto(p, "idle")
    /\ kind' = [kind EXCEPT ![p] = "read"]
    /\ start' = [start EXCEPT ![p] = 0]
    /\ ver' = [ver EXCEPT ![p] = 1]
    /\ deadline' = [deadline EXCEPT ![p] = 0]
    /\ late' = [late EXCEPT ![p] = FALSE]

Stay(p, at) == Goto(p, at) /\ UNCHANGED req

\* cacheDeadline is taken just before the row is read.
TakeDeadline(p) == deadline' = [deadline EXCEPT ![p] = now + CacheTTL]

\* getUserSessionCache finds an active entry, or misses or fails and the
\* database is asked.  A deny entry answers by itself and changes nothing.
ReadCache(p) ==
    /\ Begins(p, "read")
    /\ \/ /\ Ok /\ Live /\ status = "active" /\ now < ExpiresAt
          /\ ver' = [ver EXCEPT ![p] = cached]
          /\ Goto(p, "ok")
          /\ UNCHANGED deadline
       \/ /\ (Ok /\ ~Live) \/ Fault
          /\ TakeDeadline(p) /\ Goto(p, "load")
          /\ UNCHANGED ver
    /\ UNCHANGED <<now, row, hash, seal>>

\* A refresh and a version advance do not look at the cache.
BeginChange(p) ==
    /\ \E k \in {"rotate", "advance"} : Begins(p, k) /\ Goto(p, IF k = "rotate" THEN "load" ELSE k)
    /\ TakeDeadline(p)
    /\ Ok
    /\ UNCHANGED <<now, row, hash, ver, seal>>

\* The time a request compares expires_at with: a read takes it after the row,
\* the others when they begin.
Clock(p) == IF kind[p] = "read" THEN now ELSE start[p]

\* GetUserSessionBySID.
LoadRow(p) ==
    /\ pc[p] = "load"
    /\ \/ /\ Ok /\ ValidAt(Clock(p))
          /\ ver' = [ver EXCEPT ![p] = version]
          /\ Goto(p, IF kind[p] = "rotate" THEN "swap" ELSE "check")
          /\ UNCHANGED <<kind, start, deadline, late>>
       \/ /\ Ok /\ ~ValidAt(Clock(p)) /\ kind[p] = "read"
          /\ ver' = [ver EXCEPT ![p] = version]
          /\ Goto(p, "deny")
          /\ UNCHANGED <<kind, start, deadline, late>>
       \/ /\ (Ok /\ ~ValidAt(Clock(p)) /\ kind[p] = "rotate") \/ Fault
          /\ Leave(p)
    /\ UNCHANGED <<now, row, hash, seal>>

\* A row that is over is cached as revoked, whatever comes of it.
CacheDenied(p) ==
    /\ pc[p] = "deny"
    /\ \/ Ok /\ ~Refused(ver[p], FALSE) /\ PutDeny("revoked", ver[p])
       \/ ((Ok /\ Refused(ver[p], FALSE)) \/ Fault) /\ UNCHANGED hash
    /\ Leave(p)
    /\ UNCHANGED <<now, row, seal>>

\* The rotation is a conditional update; when another refresh or a revocation
\* was faster the row is read again.
SwapRefresh(p) ==
    /\ pc[p] = "swap" /\ LockFree(p) /\ Ok
    /\ \/ active /\ Stay(p, "check")
       \/ Goto(p, "load") /\ TakeDeadline(p) /\ UNCHANGED <<kind, start, ver, late>>
       \/ Leave(p)
    /\ UNCHANGED <<now, row, hash, seal>>

\* The transaction of AdvanceUserSessionAuthVersion, for a caller whose token
\* has the row's version, and for one whose token is older.
AdvanceVersion(p) ==
    /\ pc[p] = "advance" /\ LockFree(p) /\ Ok
    /\ \/ /\ ValidAt(Clock(p)) /\ version < MaxVersion
          /\ version' = version + 1
          /\ left' = [left EXCEPT ![version] = now]
          /\ ver' = [ver EXCEPT ![p] = version + 1]
          /\ Goto(p, "check")
          /\ UNCHANGED <<kind, start, deadline, late>>
       \/ /\ Leave(p)
          /\ UNCHANGED <<version, left>>
    /\ UNCHANGED <<now, active, holder, hash, seal>>

\* What writeUserSessionCache says of an active snapshot before its script and
\* again after it: too old, of an expired session, or in time.
InTime(p, at) ==
    \/ now >= deadline[p] /\ Stay(p, "confirm")
    \/ now < deadline[p] /\ now >= ExpiresAt /\ Leave(p)
    \/ now < deadline[p] /\ now < ExpiresAt /\ Stay(p, at)

CheckDeadline(p) ==
    /\ pc[p] = "check" /\ Ok
    /\ InTime(p, "eval")
    /\ UNCHANGED <<now, row, hash, seal>>

\* Mutant of Fill: the deny entry is not looked at.
FillUnchecked(p) ==
    /\ pc[p] = "eval" /\ Ok
    /\ PutActive(ver[p], deadline[p]) /\ Stay(p, "filled")
    /\ UNCHANGED <<now, row, seal>>

\* The script.  When Redis fails, a version advance reports the error, any
\* other request goes by the row it has read.
Fill(p) ==
    /\ pc[p] = "eval"
    /\ \/ /\ Ok /\ ~Refused(ver[p], TRUE)
          /\ PutActive(ver[p], deadline[p]) /\ Stay(p, "filled")
       \/ /\ (Ok /\ Refused(ver[p], TRUE)) \/ (Fault /\ kind[p] = "advance")
          /\ Leave(p) /\ UNCHANGED hash
       \/ /\ Fault /\ kind[p] # "advance"
          /\ Stay(p, "ok") /\ UNCHANGED hash
    /\ UNCHANGED <<now, row, seal>>

Filled(p) ==
    /\ pc[p] = "filled" /\ Ok
    /\ InTime(p, "ok")
    /\ UNCHANGED <<now, row, hash, seal>>

\* confirmUserSessionActiveSnapshot.
Confirm(p) ==
    /\ pc[p] = "confirm"
    /\ \/ Ok /\ ValidAt(now) /\ version = ver[p] /\ Stay(p, "ok")
       \/ ((Ok /\ ~(ValidAt(now) /\ version = ver[p])) \/ Fault) /\ Leave(p)
    /\ UNCHANGED <<now, row, hash, seal>>

\* The answer has been used.
Finish(p) ==
    /\ pc[p] = "ok" /\ Ok
    /\ Leave(p)
    /\ UNCHANGED <<now, row, hash, seal>>

-----------------------------------------------------------------------------
(* Revocation: a fence, the transaction, a tombstone.                      *)

\* RevokeUserSession, the detection of a reused token and revokeUserSessions
\* read the row; RevokeUserSessionByRefreshHash locks it first.
RevokeRead(p) ==
    /\ \E k \in {"revoke", "revokeLocked", "revokeAll"} :
        /\ Begins(p, k)
        /\ k = "revokeLocked" => LockFree(p)
        /\ holder' = IF k = "revokeLocked" THEN p ELSE holder
    /\ ValidAt(now) /\ Ok
    /\ ver' = [ver EXCEPT ![p] = version]
    /\ Goto(p, "fence")
    /\ UNCHANGED <<now, active, version, left, hash, deadline, seal>>

\* writeUserSessionDenyFence; without it nothing is revoked.
Fence(p) ==
    /\ pc[p] = "fence"
    /\ \/ /\ Ok /\ ~Refused(ver[p], FALSE)
          /\ PutDeny("revoking", ver[p])
          /\ Stay(p, "commit") /\ UNCHANGED holder
       \/ /\ (Ok /\ Refused(ver[p], FALSE)) \/ Fault
          /\ Leave(p) /\ Unlock(p) /\ UNCHANGED hash
    /\ UNCHANGED <<now, active, version, left, seal>>

\* The transaction; only who changes the row goes on.  revokeUserSessions takes
\* the version of the row it has locked, the others keep the one they read.
Commit(p) ==
    /\ pc[p] = "commit" /\ LockFree(p)
    /\ Unlock(p)
    /\ \/ /\ Ok /\ active
          /\ active' = FALSE
          /\ left' = [left EXCEPT ![version] = now]
          /\ ver' = [ver EXCEPT ![p] = IF kind[p] = "revokeAll" THEN version ELSE @]
          /\ Goto(p, "tombstone")
          /\ UNCHANGED <<kind, start, deadline, late>>
       \/ /\ (Ok /\ ~active) \/ Fault
          /\ Leave(p)
          /\ UNCHANGED <<active, left>>
    /\ UNCHANGED <<now, version, hash, seal>>

\* The tombstone; an error is logged.
Tombstone(p) ==
    /\ pc[p] = "tombstone"
    /\ \/ /\ Ok /\ ~Refused(ver[p], FALSE)
          /\ PutDeny("revoked", ver[p])
          /\ sealed' = TRUE /\ sealAt' = now
       \/ /\ (Ok /\ Refused(ver[p], FALSE)) \/ Fault
          /\ UNCHANGED <<hash, seal>>
    /\ Leave(p)
    /\ UNCHANGED <<now, row>>

\* The process dies; its transaction is rolled back.
Crash(p) ==
    /\ pc[p] # "idle" /\ Fault
    /\ Leave(p) /\ Unlock(p)
    /\ UNCHANGED <<now, active, version, left, hash, seal>>

Tick ==
    /\ now < MaxTime
    /\ now' = now + 1
    /\ UNCHANGED <<row, hash, pc, req, seal, faults>>

Step(p) ==
    \/ ReadCache(p) \/ BeginChange(p) \/ LoadRow(p) \/ CacheDenied(p) \/ SwapRefresh(p)
    \/ AdvanceVersion(p) \/ CheckDeadline(p) \/ Fill(p) \/ Filled(p) \/ Confirm(p)
    \/ Finish(p) \/ RevokeRead(p) \/ Fence(p) \/ Commit(p) \/ Tombstone(p) \/ Crash(p)

Next == Tick \/ \E p \in Proc : Step(p)

Spec == Init /\ [][Next]_vars

-----------------------------------------------------------------------------
(* Properties.                                                             *)

\* Row, hash and requests hold what they may, and the row is locked by a
\* request that is revoking the session.
TypeOK ==
    /\ now \in Nat /\ faults \in 0..MaxFaults
    /\ active \in BOOLEAN /\ version \in Versions /\ left \in [Versions -> Nat]
    /\ holder \in Proc \cup {NoProc}
    /\ holder # NoProc => pc[holder] \in {"fence", "commit"}
    /\ status \in {"none", "active"} \cup Deny /\ cached \in Versions /\ exp \in Nat
    /\ pc \in [Proc -> {"idle", "load", "swap", "advance", "deny", "check", "eval", "filled",
                        "confirm", "ok", "fence", "commit", "tombstone"}]
    /\ kind \in [Proc -> {"read", "rotate", "advance", "revoke", "revokeLocked", "revokeAll"}]
    /\ start \in [Proc -> Nat] /\ ver \in [Proc -> Versions] /\ deadline \in [Proc -> Nat]
    /\ late \in [Proc -> BOOLEAN]
    /\ sealed \in BOOLEAN /\ sealAt \in Nat

\* The row still has the version v.
Current(v) == active /\ version = v

\* However long cache writes are delayed, whatever fails and whoever crashes, no
\* request is authorized by a state of the session that had ended CacheTTL or
\* more before the request began ("a stale active snapshot cannot outlive a
\* short deny tombstone and reactivate a revoked Session").
BoundedStaleness ==
    \A p \in Proc : pc[p] = "ok" => Current(ver[p]) \/ start[p] < left[ver[p]] + CacheTTL

\* Once a revocation has published its tombstone, no request that begins later
\* is authorized, even after the tombstone itself has expired and although
\* fills that read the active row are still on their way.
SealedIsFinal == \A p \in Proc : pc[p] = "ok" => ~late[p]

=============================================================================
