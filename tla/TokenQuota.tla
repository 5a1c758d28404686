----------------------------- MODULE TokenQuota -----------------------------
(***************************************************************************)
(* One API token: its row, its hash in Redis, the reservations, refunds    *)
(* and extra charges of requests, the batched updates of the node, and the *)
(* mutations of the token (model/quota_reserve.go, model/token.go,         *)
(* model/token_cache.go, model/utils.go).                                  *)
(*                                                                         *)
(* Reservations are decided by the cached balance and reach the row later; *)
(* a cold hash is filled from the row.  Charges are of one unit.  The other*)
(* fields of the token are a version that every mutation advances.         *)
(***************************************************************************)
EXTENDS Integers, FiniteSets

CONSTANTS
    Proc,         \* requests in progress
    Quota,        \* remain_quota of the token at first
    PromptFence,  \* the fence outlives a mutation's write and older readers
    MaxOps,       \* bound: reservations, refunds and extra charges
    MaxVersion,   \* bound: mutations
    MaxFaults     \* bound: failed statements and crashes

ASSUME QuotaAssumption ==
    /\ Quota \in Nat /\ MaxOps \in Nat /\ MaxVersion \in Nat /\ MaxFaults \in Nat
    /\ PromptFence \in BOOLEAN

ASSUME ProcAssumption == IsFiniteSet(Proc)

VARIABLES
    remain, version, live,      \* the row: remain_quota, other fields, not deleted
    hashed, balance, hashVer,   \* the hash: it exists, RemainQuota, other fields
    fence,                      \* the mutation fence exists
    batched,                    \* BatchUpdateEnabled
    batch, flush,               \* batchUpdateStores, the store swapped out
    ups, downs,                 \* goroutines about to change the hash by 1, by -1
    pc, op,                     \* a request: its step, its operation
    snapQ, snapV,               \* the row it has read
    since,                      \* history: published when the request began
    raced,                      \* history: charges its snapshot may miss
    guarded,                    \* history: its invalidation has succeeded
    published,                  \* history: version of the last guarded mutation
    granted, debited,           \* history: reserved less given back, charged extra
    excess,                     \* history: units granted on a stale balance, at most
    lossy,                      \* history: a charge never reached the row
    ops, faults

row     == <<remain, version, live>>
hash    == <<hashed, balance, hashVer>>
memory  == <<batched, batch, flush>>
async   == <<ups, downs>>
ledger  == <<granted, debited, excess, lossy, ops>>
locals  == <<op, snapQ, snapV, since, guarded>>
vars    == <<row, hash, fence, memory, async, pc, locals, raced, published, ledger, faults>>

Init ==
    /\ remain = Quota /\ version = 0 /\ live = TRUE
    /\ hashed = FALSE /\ balance = 0 /\ hashVer = 0
    /\ fence = FALSE
    /\ batched \in BOOLEAN /\ batch = 0 /\ flush = 0
    /\ ups = 0 /\ downs = 0
    /\ pc = [p \in Proc |-> "idle"] /\ op = [p \in Proc |-> "none"]
    /\ snapQ = [p \in Proc |-> 0] /\ snapV = [p \in Proc |-> 0]
    /\ since = [p \in Proc |-> 0] /\ raced = [p \in Proc |-> 0]
    /\ guarded = [p \in Proc |-> FALSE]
    /\ published = 0
    /\ granted = 0 /\ debited = 0 /\ excess = 0 /\ lossy = FALSE
    /\ ops = 0 /\ faults = 0

-----------------------------------------------------------------------------
(* Requests.                                                               *)

Ok    == UNCHANGED faults
Fault == faults < MaxFaults /\ faults' = faults + 1

Goto(p, at) == pc' = [pc EXCEPT ![p] = at]
Stay(p, at) == Goto(p, at) /\ UNCHANGED locals

Begins(p, o, at) ==
    /\ pc[p] = "idle"
    /\ Goto(p, at)
    /\ op' = [op EXCEPT ![p] = o]
    /\ since' = [since EXCEPT ![p] = published]
    /\ guarded' = [guarded EXCEPT ![p] = at = "fence"]

\* The request goes on, or is over, and needs nothing of what it has read.
Forget(p, at) ==
    /\ Goto(p, at)
    /\ op' = [op EXCEPT ![p] = "none"]
    /\ snapQ' = [snapQ EXCEPT ![p] = 0] /\ snapV' = [snapV EXCEPT ![p] = 0]
    /\ since' = [since EXCEPT ![p] = 0] /\ guarded' = [guarded EXCEPT ![p] = FALSE]

Leave(p) == Forget(p, "idle")

Count(at) == Cardinality({p \in Proc : pc[p] \in at})

\* Units that have left the cached balance, or are about to enter it, and which
\* the row does not show.
Outstanding ==
    Count({"persist", "compensate"}) + ups + (IF batch + flush < 0 THEN -(batch + flush) ELSE 0)

\* A unit is granted: every snapshot read earlier misses it.
Grant ==
    /\ granted' = granted + 1
    /\ raced' = [q \in Proc |-> IF pc[q] = "init" THEN raced[q] + 1 ELSE raced[q]]

\* So many units may be granted twice; no more than MaxOps ever are.
Exceed(n) == excess' = IF excess + n > MaxOps THEN MaxOps ELSE excess + n

\* A request counts as one operation on the balance.
CountOp(p) == IF pc[p] = "idle" THEN ops < MaxOps /\ ops' = ops + 1 ELSE UNCHANGED ops

\* cacheTryReserveTokenQuota, first and after the hash was filled.
TryReserve(p) ==
    /\ pc[p] \in {"idle", "retry"} /\ CountOp(p)
    /\ \/ /\ Ok /\ hashed /\ balance >= 1
          /\ balance' = balance - 1
          /\ Grant /\ Stay(p, "persist")
       \/ /\ Ok /\ hashed /\ balance < 1
          /\ Leave(p)
          /\ UNCHANGED <<balance, granted, raced>>
       \/ /\ Ok /\ ~hashed /\ pc[p] = "idle"
          /\ Goto(p, "load") /\ op' = [op EXCEPT ![p] = "reserve"]
          /\ UNCHANGED <<balance, granted, raced, snapQ, snapV, since, guarded>>
       \/ /\ (Ok /\ ~hashed /\ pc[p] = "retry") \/ Fault
          /\ Stay(p, "db")
          /\ UNCHANGED <<balance, granted, raced>>
    /\ UNCHANGED <<row, hashed, hashVer, fence, memory, async, published, debited,
                   excess, lossy>>

\* GetTokenByKey reads the row ...
LoadRow(p) ==
    /\ pc[p] = "load"
    /\ \/ /\ Ok /\ live
          /\ snapQ' = [snapQ EXCEPT ![p] = remain] /\ snapV' = [snapV EXCEPT ![p] = version]
          /\ raced' = [raced EXCEPT ![p] = Outstanding]
          /\ Goto(p, "init")
          /\ UNCHANGED <<op, since, guarded>>
       \/ /\ (Ok /\ ~live) \/ Fault
          /\ Forget(p, IF op[p] = "reserve" THEN "db" ELSE "idle")
          /\ UNCHANGED raced
    /\ UNCHANGED <<row, hash, fence, memory, async, published, ledger>>

\* GetTokenByKey returns: to the reservation, which tries again, or with the token.
Loaded(p) ==
    \/ op[p] = "reserve" /\ Forget(p, "retry")
    \/ op[p] = "validate" /\ Stay(p, "ok")

\* Mutant of InitToken: a live hash is overwritten.
InitTokenOverwrites(p) ==
    /\ pc[p] = "init" /\ Ok
    /\ hashed' = TRUE /\ balance' = snapQ[p] /\ hashVer' = snapV[p]
    /\ Exceed(IF hashed THEN 0 ELSE raced[p])
    /\ raced' = [raced EXCEPT ![p] = 0]
    /\ Loaded(p)
    /\ UNCHANGED <<row, fence, memory, async, published, granted, debited, lossy, ops>>

\* Mutant of InitToken: the fence is not looked at.
InitTokenUnfenced(p) ==
    /\ pc[p] = "init" /\ Ok
    /\ \/ ~hashed /\ hashed' = TRUE /\ balance' = snapQ[p] /\ hashVer' = snapV[p]
          /\ Exceed(raced[p])
       \/ hashed /\ UNCHANGED <<hash, excess>>
    /\ raced' = [raced EXCEPT ![p] = 0]
    /\ Loaded(p)
    /\ UNCHANGED <<row, fence, memory, async, published, granted, debited, lossy, ops>>

\* ... and cacheInitToken publishes what was read when the hash is cold and no
\* mutation is going on.  A failure is logged.
InitToken(p) ==
    /\ pc[p] = "init"
    /\ \/ /\ Ok /\ ~fence /\ ~hashed
          /\ hashed' = TRUE /\ balance' = snapQ[p] /\ hashVer' = snapV[p]
          /\ Exceed(raced[p])
       \/ /\ (Ok /\ (fence \/ hashed)) \/ Fault
          /\ UNCHANGED <<hash, excess>>
    /\ raced' = [raced EXCEPT ![p] = 0]
    /\ Loaded(p)
    /\ UNCHANGED <<row, fence, memory, async, published, granted, debited, lossy, ops>>

\* reserveTokenQuotaDB, when the cache has failed or stays cold.
ReserveDB(p) ==
    /\ pc[p] = "db"
    /\ \/ /\ Ok /\ live /\ remain >= 1
          /\ remain' = remain - 1
          /\ Grant
          /\ Exceed(IF hashed \/ Outstanding > 0 THEN 1 ELSE 0)
       \/ /\ (Ok /\ ~(live /\ remain >= 1)) \/ Fault
          /\ UNCHANGED <<remain, granted, raced, excess>>
    /\ Leave(p)
    /\ UNCHANGED <<version, live, hash, fence, memory, async, published, debited, lossy, ops>>

\* Mutant of Persist: the charge is queued although nothing writes the queue.
PersistQueued(p) ==
    /\ pc[p] = "persist" /\ Ok
    /\ batch' = batch - 1 /\ Leave(p)
    /\ UNCHANGED <<row, hash, fence, batched, flush, async, raced, published, ledger>>

\* persistTokenQuotaDelta: a record of the batch, or the row at once.
Persist(p) ==
    /\ pc[p] = "persist"
    /\ \/ /\ Ok /\ batched /\ batch' = batch - 1
          /\ Leave(p) /\ UNCHANGED <<remain, granted>>
       \/ /\ Ok /\ ~batched /\ live /\ remain' = remain - 1
          /\ Leave(p) /\ UNCHANGED <<batch, granted>>
       \/ /\ (Ok /\ ~batched /\ ~live) \/ (~batched /\ Fault)
          /\ granted' = granted - 1
          /\ Stay(p, "compensate") /\ UNCHANGED <<remain, batch>>
    /\ UNCHANGED <<version, live, hash, fence, batched, flush, async, raced, published,
                   debited, excess, lossy, ops>>

\* What could not be persisted is put back, if the hash is still there.
Compensate(p) ==
    /\ pc[p] = "compensate"
    /\ \/ Ok /\ hashed /\ balance' = balance + 1
       \/ ((Ok /\ ~hashed) \/ Fault) /\ UNCHANGED balance
    /\ Leave(p)
    /\ UNCHANGED <<row, hashed, hashVer, fence, memory, async, raced, published, ledger>>

\* IncreaseTokenQuota and DecreaseTokenQuota: the hash is left to a goroutine.
Adjust(p) ==
    /\ CountOp(p)
    /\ pc[p] = "idle" /\ Goto(p, "adjust") /\ Ok
    /\ \/ /\ op' = [op EXCEPT ![p] = "up"]
          /\ ups' = ups + 1 /\ granted' = granted - 1
          /\ UNCHANGED <<downs, debited>>
       \/ /\ op' = [op EXCEPT ![p] = "down"]
          /\ downs' = downs + 1 /\ debited' = debited + 1
          /\ UNCHANGED <<ups, granted>>
    /\ UNCHANGED <<row, hash, fence, memory, snapQ, snapV, since, guarded, raced, published, excess, lossy>>

\* cacheApplyTokenQuotaDelta skips a hash that does not exist.
ApplyDelta ==
    /\ \/ ups > 0 /\ ups' = ups - 1 /\ UNCHANGED downs
          /\ balance' \in {IF hashed THEN balance + 1 ELSE balance}
       \/ downs > 0 /\ downs' = downs - 1 /\ UNCHANGED ups
          /\ balance' \in {IF hashed THEN balance - 1 ELSE balance}
    /\ Ok
    /\ UNCHANGED <<row, hashed, hashVer, fence, memory, pc, locals, raced, published, ledger>>

\* The goroutine cannot reach Redis; the error is logged.
DropDelta ==
    /\ \/ ups > 0 /\ ups' = ups - 1 /\ UNCHANGED downs
       \/ downs > 0 /\ downs' = downs - 1 /\ UNCHANGED ups
    /\ Fault
    /\ UNCHANGED <<row, hash, fence, memory, pc, locals, raced, published, ledger>>

Delta(p) == IF op[p] = "up" THEN 1 ELSE -1

AdjustRow(p) ==
    /\ pc[p] = "adjust"
    /\ \/ Ok /\ batched /\ batch' = batch + Delta(p) /\ UNCHANGED <<remain, lossy>>
       \/ /\ Ok /\ ~batched
          /\ remain' = IF live THEN remain + Delta(p) ELSE remain
          /\ UNCHANGED <<batch, lossy>>
       \/ ~batched /\ Fault /\ lossy' = TRUE /\ UNCHANGED <<remain, batch>>
    /\ Leave(p)
    /\ UNCHANGED <<version, live, hash, fence, batched, flush, async, raced, published,
                   granted, debited, excess, ops>>

-----------------------------------------------------------------------------
(* batchUpdate: the store is swapped out, then written.                    *)

\* Mutant of Swap: the store is emptied only after it has been written.
SwapLate ==
    /\ flush = 0 /\ batch # 0 /\ Ok
    /\ flush' = batch /\ UNCHANGED batch
    /\ UNCHANGED <<row, hash, fence, batched, async, pc, locals, raced, published, ledger>>

Swap ==
    /\ flush = 0 /\ batch # 0 /\ Ok
    /\ flush' = batch /\ batch' = 0
    /\ UNCHANGED <<row, hash, fence, batched, async, pc, locals, raced, published, ledger>>

\* A statement that fails is logged and its amount forgotten.
Flush ==
    /\ flush # 0 /\ flush' = 0
    /\ \/ Ok /\ remain' = (IF live THEN remain + flush ELSE remain) /\ UNCHANGED lossy
       \/ Fault /\ lossy' = TRUE /\ UNCHANGED remain
    /\ UNCHANGED <<version, live, hash, fence, batched, batch, async, pc, locals, raced, published,
                   granted, debited, excess, ops>>

-----------------------------------------------------------------------------
(* Validation and mutation of the token.                                   *)

\* ValidateUserToken: the hash answers, or the row.
Validate(p) ==
    /\ Ok
    /\ \/ hashed /\ Begins(p, "validate", "ok") /\ snapV' = [snapV EXCEPT ![p] = hashVer]
       \/ ~hashed /\ Begins(p, "validate", "load") /\ UNCHANGED snapV
    /\ UNCHANGED <<row, hash, fence, memory, async, snapQ, raced, published, ledger>>

\* Redis cannot be read and the row answers.
ValidateUncached(p) ==
    /\ Fault /\ Begins(p, "validate", "load")
    /\ UNCHANGED <<row, hash, fence, memory, async, snapQ, snapV, raced, published, ledger>>

\* The request goes on with the token it was given.
Finish(p) ==
    /\ pc[p] = "ok" /\ Ok
    /\ Leave(p)
    /\ UNCHANGED <<row, hash, fence, memory, async, raced, published, ledger>>

\* The row is read before Update, SelectUpdate or Delete;
\* InvalidateUserTokensCache only invalidates.
MutateRead(p) ==
    /\ live /\ Ok
    /\ \E o \in {"update", "status", "delete", "purge"} : Begins(p, o, "fence")
    /\ version + Count({"fence", "drop", "write"}) < MaxVersion
    /\ snapQ' = [snapQ EXCEPT ![p] = remain]
    /\ UNCHANGED <<row, hash, fence, memory, async, snapV, raced, published, ledger>>

\* After the invalidation, whatever came of it, the row is written.
AfterInvalidation(p) == IF op[p] = "purge" THEN Leave(p) ELSE Stay(p, "write")
AfterFailure(p) ==
    IF op[p] = "purge" THEN Leave(p)
    ELSE /\ Goto(p, "write") /\ guarded' = [guarded EXCEPT ![p] = FALSE]
         /\ UNCHANGED <<op, snapQ, snapV, since>>

\* invalidateTokenCacheForMutation raises the fence ...
Fence(p) ==
    /\ pc[p] = "fence"
    /\ \/ Ok /\ fence' = TRUE /\ Stay(p, "drop")
       \/ Fault /\ AfterFailure(p) /\ UNCHANGED fence
    /\ UNCHANGED <<row, hash, memory, async, raced, published, ledger>>

NoHash == hashed' = FALSE /\ balance' = 0 /\ hashVer' = 0

\* ... and deletes the hash.
Drop(p) ==
    /\ pc[p] = "drop"
    /\ \/ Ok /\ NoHash /\ AfterInvalidation(p)
       \/ Fault /\ AfterFailure(p) /\ UNCHANGED hash
    /\ UNCHANGED <<row, fence, memory, async, raced, published, ledger>>

\* Update writes back the balance it has read, even when only the status has
\* changed; the others leave the balance alone.
WriteRow(p) ==
    /\ pc[p] = "write"
    /\ \/ /\ Ok /\ live
          /\ version' = version + 1
          /\ live' = (op[p] # "delete")
          /\ remain' = IF op[p] = "update" THEN snapQ[p] ELSE remain
          /\ lossy' = (lossy \/ remain' # remain)
          /\ published' = IF guarded[p] THEN version + 1 ELSE published
       \/ /\ (Ok /\ ~live) \/ Fault
          /\ UNCHANGED <<row, lossy, published>>
    /\ Leave(p)
    /\ UNCHANGED <<hash, fence, memory, async, raced, granted, debited, excess, ops>>

-----------------------------------------------------------------------------
(* Time and crashes.                                                       *)

HashExpires ==
    /\ hashed /\ NoHash
    /\ UNCHANGED <<row, fence, memory, async, pc, locals, raced, published, ledger, faults>>

\* tokenCacheFenceSeconds "must outlive a token mutation's database write plus
\* any in-flight reader's DB-read-to-cache-init gap".
FenceExpires ==
    /\ fence /\ fence' = FALSE
    /\ PromptFence => \A p \in Proc : /\ pc[p] \notin {"drop", "write"}
                                      /\ pc[p] = "init" => snapV[p] = version
    /\ UNCHANGED <<row, hash, memory, async, pc, locals, raced, published, ledger, faults>>

\* The node dies with its requests, its goroutines and its batch.
Crash ==
    /\ Fault
    /\ pc' = [p \in Proc |-> "idle"] /\ op' = [p \in Proc |-> "none"]
    /\ snapQ' = [p \in Proc |-> 0] /\ snapV' = [p \in Proc |-> 0]
    /\ since' = [p \in Proc |-> 0] /\ guarded' = [p \in Proc |-> FALSE]
    /\ raced' = [p \in Proc |-> 0]
    /\ batch' = 0 /\ flush' = 0 /\ ups' = 0 /\ downs' = 0
    /\ lossy' = TRUE
    /\ UNCHANGED <<row, hash, fence, batched, published, granted, debited, excess, ops>>

Step(p) ==
    \/ TryReserve(p) \/ LoadRow(p) \/ InitToken(p) \/ ReserveDB(p) \/ Persist(p) \/ Compensate(p)
    \/ Adjust(p) \/ AdjustRow(p) \/ Validate(p) \/ ValidateUncached(p) \/ Finish(p)
    \/ MutateRead(p) \/ Fence(p) \/ Drop(p) \/ WriteRow(p)

Next ==
    \/ \E p \in Proc : Step(p)
    \/ ApplyDelta \/ DropDelta \/ Swap \/ Flush
    \/ HashExpires \/ FenceExpires \/ Crash

Spec == Init /\ [][Next]_vars

-----------------------------------------------------------------------------
(* Properties.                                                             *)

Pc == {"idle", "retry", "load", "init", "db", "persist", "compensate", "adjust", "ok",
       "fence", "drop", "write"}

\* Row, hash, memory and requests hold what they may; the hash never shows a
\* version of the token that has not been written, and nothing is queued when
\* no batch updater runs.
TypeOK ==
    /\ remain \in Int /\ version \in 0..MaxVersion /\ live \in BOOLEAN
    /\ hashed \in BOOLEAN /\ balance \in Int /\ hashVer \in 0..version
    /\ fence \in BOOLEAN /\ batched \in BOOLEAN /\ batch \in Int /\ flush \in Int
    /\ ~batched => batch = 0 /\ flush = 0
    /\ ups \in Nat /\ downs \in Nat
    /\ pc \in [Proc -> Pc]
    /\ op \in [Proc -> {"none", "reserve", "up", "down", "validate", "update", "status", "delete", "purge"}]
    /\ snapQ \in [Proc -> Int] /\ snapV \in [Proc -> 0..version]
    /\ since \in [Proc -> 0..published] /\ published \in 0..version
    /\ raced \in [Proc -> Nat] /\ guarded \in [Proc -> BOOLEAN]
    /\ granted \in Int /\ debited \in Nat /\ excess \in Nat
    /\ lossy \in BOOLEAN /\ ops \in 0..MaxOps /\ faults \in 0..MaxFaults

\* Every unit granted, given back or charged extra is in the row or on its way
\* there, exactly once, whatever becomes of the cache: Redis failures, failed
\* compensations and lost hashes never cost or give a unit.  Only a failed
\* write of an adjustment or of a batch, a crash, and an Update that writes back
\* an older balance do.
Balanced ==
    live /\ ~lossy =>
        remain + batch + flush - Count({"persist"})
               + Cardinality({p \in Proc : pc[p] = "adjust" /\ op[p] = "up"})
               - Cardinality({p \in Proc : pc[p] = "adjust" /\ op[p] = "down"})
            = Quota - granted - debited

\* As long as no charge was lost, requests are granted no more than the quota,
\* what was given back deducted, except for units which a snapshot of the row missed
\* when it was published over a cold hash, and for reservations made in the row
\* while the cache held a balance of its own or charges were on their way.  In
\* particular nothing is overspent while no fill of the cache overlaps a charge.
NoOverspend == ~lossy => granted <= Quota + excess

\* A request is never accepted with the token as it was before a mutation whose
\* invalidation had succeeded when the request began.
NoStaleToken == \A p \in Proc : pc[p] = "ok" => snapV[p] >= since[p]

=============================================================================
