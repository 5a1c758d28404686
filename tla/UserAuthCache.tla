---------------------------- MODULE UserAuthCache ----------------------------
(***************************************************************************)
(* The cache of one user's authentication state (model/user_auth_cache.go, *)
(* model/user_cache.go): the row in SQL with its auth_version, and in Redis *)
(* the cached hash, the pending fence published before a restrictive       *)
(* transaction and the committed version floor published after it.         *)
(*                                                                         *)
(* A snapshot of the user is identified by its auth_version: role, status, *)
(* password and second factors change only together with it.  Every SQL    *)
(* statement and every Redis script is one step; version 0 stands for a    *)
(* missing Redis key.  Processes are requests, on any node.                *)
(***************************************************************************)
EXTENDS Naturals

CONSTANTS
    Proc,        \* concurrent requests
    MaxVersion,  \* bound: the largest auth_version
    MaxFaults,   \* bound: crashes, failed statements and failed scripts
    PromptTx,    \* TRUE: no transaction outlasts the fence it has published
    PromptFill   \* TRUE: no request holds a stale snapshot as long as a fence lives

ASSUME VersionAssumption == MaxVersion \in Nat \ {0} /\ MaxFaults \in Nat

ASSUME PromptAssumption == PromptTx \in BOOLEAN /\ PromptFill \in BOOLEAN

ASSUME ProcAssumption == "no request" \notin Proc

VARIABLES
    ver,     \* auth_version as last committed
    row,     \* whether the row exists: "present", "soft" deleted or "gone"
    txn,     \* the request whose transaction holds the row lock
    hash,    \* AuthVersion of the cached hash
    fence,   \* the pending fence
    floor,   \* the committed version floor
    pc,      \* where each request is
    snap,    \* the version each request has in hand
    since,   \* the version that was committed when the request began
    faults   \* failures so far

db    == <<ver, row, txn>>
redis == <<hash, fence, floor>>
local == <<pc, snap, since>>
vars  == <<db, redis, local, faults>>

Version == 1..MaxVersion
Absent  == 0
NoProc  == "no request"

\* A step succeeds, or it fails and changes nothing.
Ok    == UNCHANGED faults
Fault == faults < MaxFaults /\ faults' = faults + 1

\* Request p goes on at l, with version v in hand.
At(p, l)       == pc' = [pc EXCEPT ![p] = l] /\ UNCHANGED <<snap, since>>
AtWith(p, l, v) ==
    pc' = [pc EXCEPT ![p] = l] /\ snap' = [snap EXCEPT ![p] = v] /\ UNCHANGED since

Served(p) == At(p, "served")  \* the snapshot in hand authorizes the request
Denied(p) == At(p, "idle")    \* an error is returned

-----------------------------------------------------------------------------
(* The Redis scripts.                                                      *)

\* getUserAuthVersionFloor: one MGET of both keys.
Floor == IF fence > floor THEN fence ELSE floor

\* The test at the head of both write scripts.
Refused(v) == fence > v \/ floor > v \/ hash > v

\* v is recorded as committed, and a fence that is not newer is obsolete.
Publish(v) ==
    /\ floor' = IF floor < v THEN v ELSE floor
    /\ fence' = IF fence <= v THEN Absent ELSE fence

\* SetUserAuthVersionFence.
RaiseFence(v) == fence' = IF fence < v THEN v ELSE fence

-----------------------------------------------------------------------------
(* GetUserCache, called to authenticate a request.                         *)

\* cacheGetUserBase, the read of the hash; a miss or an error goes to the database.
ReadHash(p) ==
    /\ pc[p] = "idle"
    /\ since' = [since EXCEPT ![p] = ver]
    /\ \/ /\ Ok /\ hash # Absent
          /\ pc' = [pc EXCEPT ![p] = "check"]
          /\ snap' = [snap EXCEPT ![p] = hash]
       \/ /\ (Ok /\ hash = Absent) \/ Fault
          /\ pc' = [pc EXCEPT ![p] = "load"]
          /\ UNCHANGED snap
    /\ UNCHANGED <<db, redis>>

\* Mutant of CheckFloor: the cached snapshot is used when the floor cannot be read.
CheckFailsOpen(p) ==
    /\ pc[p] = "check"
    /\ \/ ((Ok /\ Floor <= snap[p]) \/ Fault) /\ Served(p)
       \/ Ok /\ Floor > snap[p] /\ At(p, "load")
    /\ UNCHANGED <<db, redis>>

\* The cached snapshot is used unless it is below the floor.
CheckFloor(p) ==
    /\ pc[p] = "check"
    /\ \/ Ok /\ Floor <= snap[p] /\ Served(p)
       \/ ((Ok /\ Floor > snap[p]) \/ Fault) /\ At(p, "load")
    /\ UNCHANGED <<db, redis>>

\* GetUserById.
LoadRow(p) ==
    /\ pc[p] = "load"
    /\ \/ Ok /\ row = "present" /\ AtWith(p, "gate", ver)
       \/ ((Ok /\ row # "present") \/ Fault) /\ Denied(p)
    /\ UNCHANGED <<db, redis>>

\* A floor above the database denies the request; a failed read of it does not.
Gate(p) ==
    /\ pc[p] = "gate"
    /\ \/ Ok /\ Floor > snap[p] /\ Denied(p)
       \/ ((Ok /\ Floor <= snap[p]) \/ Fault) /\ At(p, "fill")
    /\ UNCHANGED <<db, redis>>

\* populateUserCache: the whole hash is written.
Fill(p) ==
    /\ pc[p] = "fill"
    /\ \/ /\ Ok /\ ~Refused(snap[p])
          /\ Publish(snap[p]) /\ hash' = snap[p]
          /\ Served(p)
       \/ Ok /\ Refused(snap[p]) /\ Denied(p) /\ UNCHANGED redis
       \/ Fault /\ Served(p) /\ UNCHANGED redis
    /\ UNCHANGED db

\* The request has been handled.
Return(p) ==
    /\ pc[p] = "served"
    /\ At(p, "idle")
    /\ UNCHANGED <<db, redis, faults>>

-----------------------------------------------------------------------------
(* Changes of authentication state.                                        *)

\* Mutant of TxLock: the row is read without FOR UPDATE.
TxReadsUnlocked(p) ==
    /\ pc[p] = "idle"
    /\ row # "gone" /\ ver < MaxVersion
    /\ AtWith(p, "fence", ver + 1)
    /\ UNCHANGED <<db, redis, faults>>

\* IncrementUserAuthVersionWithTx locks the row, deleted softly or not.
TxLock(p) ==
    /\ pc[p] = "idle"
    /\ txn = NoProc /\ row # "gone" /\ ver < MaxVersion
    /\ txn' = p
    /\ AtWith(p, "fence", ver + 1)
    /\ UNCHANGED <<ver, row, redis, faults>>

\* Mutant of TxFence: the next version is published as the floor at once.
TxFloorsEarly(p) ==
    /\ pc[p] = "fence"
    /\ Ok /\ Publish(snap[p]) /\ At(p, "commit")
    /\ UNCHANGED <<db, hash>>

\* It publishes the fence; if that fails, the transaction is rolled back.
TxFence(p) ==
    /\ pc[p] = "fence"
    /\ \/ /\ Ok /\ RaiseFence(snap[p]) /\ At(p, "commit")
          /\ UNCHANGED <<db, hash, floor>>
       \/ /\ Fault /\ Denied(p)
          /\ txn' = NoProc
          /\ UNCHANGED <<ver, row, redis>>

\* The transaction commits.  A change of the user is followed by the cache
\* update with the snapshot read inside the transaction (Update, Edit) or by
\* PublishUserAuthCache, a deletion by the tombstone.  Only Update and Edit
\* refuse a user who has been deleted.
TxCommit(p) ==
    /\ pc[p] = "commit"
    /\ ver' = snap[p]
    /\ txn' = NoProc
    /\ \/ UNCHANGED row /\ row = "present" /\ At(p, "refresh")
       \/ UNCHANGED row /\ At(p, "reread")
       \/ row' \in {"soft", "gone"} /\ At(p, "tombstone")
    /\ UNCHANGED <<redis, faults>>

\* Any later statement of the transaction fails and it is rolled back; the
\* fence stays behind.
TxRollback(p) ==
    /\ pc[p] = "commit"
    /\ Fault
    /\ txn' = NoProc
    /\ Denied(p)
    /\ UNCHANGED <<ver, row, redis>>

\* PublishUserAuthCache, also called, like ClearBinding and updates of the
\* profile, without a change of the version.
RefreshStart(p) ==
    /\ pc[p] = "idle"
    /\ At(p, "reread")
    /\ UNCHANGED <<db, redis, faults>>

Reread(p) ==
    /\ pc[p] = "reread"
    /\ \/ Ok /\ row = "present" /\ AtWith(p, "refresh", ver)
       \/ ((Ok /\ row # "present") \/ Fault) /\ Denied(p)
    /\ UNCHANGED <<db, redis>>

\* updateUserCache: an existing hash is overwritten, a missing one is not created.
Refresh(p) ==
    /\ pc[p] = "refresh"
    /\ \/ /\ Ok /\ ~Refused(snap[p])
          /\ Publish(snap[p])
          /\ hash' = IF hash = Absent THEN Absent ELSE snap[p]
       \/ ((Ok /\ Refused(snap[p])) \/ Fault) /\ UNCHANGED redis
    /\ At(p, "idle")
    /\ UNCHANGED db

\* publishCommittedUserAuthVersion after a deletion.  If it fails, a soft
\* deletion returns, a hard one goes on.
Tombstone(p) ==
    /\ pc[p] = "tombstone"
    /\ \/ Ok /\ Publish(snap[p]) /\ At(p, "invalidate") /\ UNCHANGED hash
       \/ Fault /\ (Denied(p) \/ At(p, "invalidate")) /\ UNCHANGED redis
    /\ UNCHANGED db

\* invalidateUserCache.
Invalidate(p) ==
    /\ pc[p] = "invalidate"
    /\ \/ Ok /\ hash' = Absent
       \/ Fault /\ UNCHANGED hash
    /\ At(p, "idle")
    /\ UNCHANGED <<db, fence, floor>>

\* updateUserCacheField: the version is read, then one field is written at it.
FieldSelect(p) ==
    /\ pc[p] = "idle" /\ row = "present"
    /\ AtWith(p, "field", ver)
    /\ UNCHANGED <<db, redis, faults>>

\* updateUserCacheFieldAtVersion: the hash keeps its version.
FieldWrite(p) ==
    /\ pc[p] = "field"
    /\ \/ Ok /\ ~Refused(snap[p]) /\ Publish(snap[p]) /\ UNCHANGED hash
       \/ ((Ok /\ Refused(snap[p])) \/ Fault) /\ UNCHANGED redis
    /\ At(p, "idle")
    /\ UNCHANGED db

-----------------------------------------------------------------------------
(* The environment.                                                        *)

\* The process that handles the request dies; its transaction is rolled back.
Crash(p) ==
    /\ pc[p] # "idle"
    /\ Fault
    /\ At(p, "idle")
    /\ txn' = IF txn = p THEN NoProc ELSE txn
    /\ UNCHANGED <<ver, row, redis>>

HashExpires ==
    /\ hash # Absent
    /\ hash' = Absent
    /\ UNCHANGED <<db, fence, floor, local, faults>>

\* A request that has yet to compare or to write a snapshot that is out of date.
HoldsStale(p) ==
    pc[p] \in {"check", "gate", "fill", "refresh", "field"} /\ snap[p] < ver

\* Mutant of FenceExpires: the fence does not outlive the hashes before it.
FenceExpiresEarly ==
    /\ fence # Absent
    /\ fence' = Absent
    /\ UNCHANGED <<db, hash, floor, local, faults>>

\* Mutant of FenceExpires: the fence is set without a TTL.
FencePersists == FALSE /\ UNCHANGED vars

\* userAuthFenceTTLSeconds: the fence outlives every hash that is older than it,
\* since such a hash cannot be written again while the fence is there.
FenceExpires ==
    /\ fence # Absent
    /\ hash = Absent \/ hash >= fence
    /\ PromptTx => \A p \in Proc : pc[p] # "commit"
    /\ PromptFill => \A p \in Proc : ~HoldsStale(p)
    /\ fence' = Absent
    /\ UNCHANGED <<db, hash, floor, local, faults>>

-----------------------------------------------------------------------------

\* The cache may or may not hold the user; no security change has been made yet.
Init ==
    /\ ver = 1 /\ row = "present" /\ txn = NoProc
    /\ hash = Absent /\ fence = Absent /\ floor = Absent
    /\ pc = [p \in Proc |-> "idle"]
    /\ snap = [p \in Proc |-> Absent]
    /\ since = [p \in Proc |-> Absent]
    /\ faults = 0

Read(p) == ReadHash(p) \/ CheckFloor(p) \/ LoadRow(p) \/ Gate(p) \/ Fill(p) \/ Return(p)

Change(p) == TxLock(p) \/ TxFence(p) \/ TxCommit(p) \/ TxRollback(p)

Update(p) ==
    \/ RefreshStart(p) \/ Reread(p) \/ Refresh(p)
    \/ Tombstone(p) \/ Invalidate(p) \/ FieldSelect(p) \/ FieldWrite(p)

Next ==
    \/ \E p \in Proc : Read(p) \/ Change(p) \/ Update(p) \/ Crash(p)
    \/ HashExpires
    \/ FenceExpires

Spec == Init /\ [][Next]_vars

\* A request that has begun is carried on, and keys with a TTL expire.
Fairness ==
    /\ \A p \in Proc : WF_vars(pc[p] # "idle" /\ (Read(p) \/ Change(p) \/ Update(p)))
    /\ WF_vars(FenceExpires)
    /\ WF_vars(HashExpires)

FairSpec == Spec /\ Fairness

-----------------------------------------------------------------------------
(* Properties.                                                             *)

Pc == {"idle", "check", "load", "gate", "fill", "served", "fence", "commit",
       "refresh", "reread", "tombstone", "invalidate", "field"}

\* Versions stay in range, and the row lock is held by the transaction in progress.
TypeOK ==
    /\ ver \in Version /\ row \in {"present", "soft", "gone"}
    /\ txn \in Proc \cup {NoProc}
    /\ hash \in Version \cup {Absent}
    /\ fence \in Version \cup {Absent}
    /\ floor \in Version \cup {Absent}
    /\ pc \in [Proc -> Pc]
    /\ snap \in [Proc -> Version \cup {Absent}]
    /\ since \in [Proc -> Version \cup {Absent}]
    /\ faults \in 0..MaxFaults
    /\ \A p \in Proc : txn = p <=> pc[p] \in {"fence", "commit"}

\* No request is authorized by a snapshot that was out of date when the request
\* began: once a disabled, demoted or deleted user's change is committed, no
\* later request is served from before it, on any node and whatever cache fills,
\* field updates and failed publications are still under way.
NoStaleAnswer == \A p \in Proc : pc[p] = "served" => snap[p] >= since[p]

\* A stale hash is always below the floor, so every reader rejects it, also
\* between the commit and its publication.
StaleIsFenced == hash # Absent /\ hash < ver => Floor > hash

\* Neither the hash nor the permanent floor is ever ahead of the database: a floor
\* above the committed version would lock the user out for ever, since nothing
\* lowers it.
FloorIsCommitted == floor <= ver /\ hash <= ver

\* A transaction that is rolled back leaves a fence above the database, which
\* denies every request; it does not stay.
LockoutEnds == fence > ver ~> fence <= ver

-----------------------------------------------------------------------------
(* The inductive strengthening of NoStaleAnswer.                           *)

\* A snapshot in hand was once committed, and the version a transaction is about
\* to commit is the next one and is fenced.
SnapshotsInOrder ==
    \A p \in Proc :
        /\ since[p] <= ver
        /\ pc[p] \in {"check", "gate", "fill", "served", "refresh", "field", "tombstone"}
              => snap[p] <= ver
        /\ pc[p] \in {"gate", "fill"} => snap[p] >= since[p]
        /\ pc[p] \in {"fence", "commit"} => snap[p] = ver + 1

PendingIsFenced == \A p \in Proc : pc[p] = "commit" => fence >= snap[p]

\* No stale snapshot in hand can still be served from the cache or written to it.
StaleIsRefused == \A p \in Proc : HoldsStale(p) => Floor > snap[p]

AuthInv ==
    TypeOK /\ SnapshotsInOrder /\ FloorIsCommitted /\ PendingIsFenced
    /\ StaleIsFenced /\ StaleIsRefused /\ NoStaleAnswer

=============================================================================
