----------------------------- MODULE SystemTask -----------------------------
(***************************************************************************)
(* The system-task framework: rows of system_tasks, one lease row per task *)
(* type in system_task_locks, and the master nodes ("runners") that reap   *)
(* expired leases, schedule, claim and execute tasks                       *)
(* (model/system_task.go, service/system_task.go).                         *)
(*                                                                         *)
(* Every SQL statement is one step; everything a Go function keeps between *)
(* two statements is a variable of the runner that executes it.  Of        *)
(* locked_until the model keeps whether it has passed (live) and, since a  *)
(* pass compares it with a timestamp taken earlier, which runners hold a   *)
(* timestamp that exceeds it (overdue).  Renewing and finishing, too, take *)
(* their timestamp in one step and write in a later one.                   *)
(***************************************************************************)
EXTENDS Naturals, FiniteSets

CONSTANTS
    Runner,      \* runner ids; a restarted process draws a new random id
    Reliable,    \* the runners that are never killed
    Type,        \* task types that have a registered handler
    MaxTask,     \* bound: rows ever inserted into system_tasks
    Legacy,      \* types of the pending rows that predate active_key
    MaxFaults,   \* bound: process crashes and failed SQL statements
    MaxPurges,   \* bound: calls of DeleteSystemTaskHistory
    PromptClaim  \* TRUE: no claim outlasts the lease it has just written

ASSUME ConstantsAssumption ==
    /\ Reliable \subseteq Runner
    /\ PromptClaim \in BOOLEAN

ASSUME BoundsAssumption ==
    MaxTask \in Nat /\ MaxFaults \in Nat /\ MaxPurges \in Nat

ASSUME NullAssumption ==
    "no type" \notin Type /\ "no runner" \notin Runner

ASSUME LegacyAssumption ==
    \E n \in 0..MaxTask : Legacy \in [1..n -> Type]

VARIABLES
    task,     \* the table system_tasks: status, type, active_key, locked_by
    lock,     \* the table system_task_locks, keyed by type
    pc,       \* where the pass loop of each runner is
    stale,    \* the expired leases ExpireStaleSystemTaskLocks has still to reap
    due,      \* the types runSystemTaskScheduler has still to create a row for
    found,    \* the pending rows runSystemTaskClaimPass has still to claim
    cur,      \* the lease being reaped, or the row being claimed
    overdue,  \* the types whose lease had expired by the runner's timestamp
    old,      \* the task whose expired lease the claim has read
    handler,  \* the goroutine that executes a claimed task
    beat,     \* its heartbeat goroutine
    purge,    \* the snapshot held by DeleteSystemTaskHistory
    purges,   \* calls of DeleteSystemTaskHistory so far
    faults    \* crashes and SQL errors so far

loop == <<pc, stale, due, found, cur, old, overdue>>
exec == <<handler, beat>>
hist == <<purge, purges>>
vars == <<task, lock, loop, exec, hist, faults>>

-----------------------------------------------------------------------------
(* The tables.                                                             *)

TaskId == 1..MaxTask
NoTask == 0

Active   == {"pending", "running"}
Terminal == {"succeeded", "failed"}
Status   == Active \cup Terminal \cup {"absent", "deleted"}

NoType   == "no type"
NoRunner == "no runner"
NoLock   == [task |-> NoTask, by |-> NoRunner, live |-> FALSE]

TaskRow == [status : Status, type : Type \cup {NoType},
            key : BOOLEAN, by : Runner \cup {NoRunner}]
LockRow == [task : TaskId, by : Runner, live : BOOLEAN]

Row(status, type, key, by) == [status |-> status, type |-> type, key |-> key, by |-> by]

\* No row of the table has been inserted under this id yet.
AbsentRow == Row("absent", NoType, FALSE, NoRunner)

PendingRow(ty, key) == Row("pending", ty, key, NoRunner)

Rows(ty) == {t \in TaskId : task[t].type = ty /\ task[t].status \notin {"absent", "deleted"}}

\* The unique index on active_key: no row holds the key of this type.
KeyFree(ty) == \A t \in TaskId : ~(task[t].key /\ task[t].type = ty)

Held(t, r)     == lock[task[t].type].task = t /\ lock[task[t].type].by = r
HeldLive(t, r) == Held(t, r) /\ lock[task[t].type].live

\* GetLatestSystemTasks: the row with the largest id.
Latest(ty) == {t \in Rows(ty) : \A u \in Rows(ty) : u <= t}

\* FindEarliestPendingSystemTasks: the pending row with the smallest id.
EarliestPending(ty) ==
    LET pending == {t \in Rows(ty) : task[t].status = "pending"}
    IN  {t \in pending : \A u \in pending : t <= u}

\* Mutants of MarkLeaseExpired: the key is not cleared; the status is not
\* checked; the wrong status is checked.
MarkKeepingKey(t) ==
    IF task[t].status = "running"
    THEN [task EXCEPT ![t] = Row("failed", task[t].type, task[t].key, task[t].by)]
    ELSE task
MarkUnchecked(t) == [task EXCEPT ![t] = Row("failed", task[t].type, FALSE, task[t].by)]
MarkPending(t) ==
    IF task[t].status = "pending"
    THEN [task EXCEPT ![t] = Row("failed", task[t].type, FALSE, task[t].by)]
    ELSE task

\* MarkSystemTaskLeaseExpired: a running row fails and frees its key.  Nothing
\* is checked about the lease.
MarkLeaseExpired(t) ==
    IF task[t].status = "running"
    THEN [task EXCEPT ![t] = Row("failed", task[t].type, FALSE, task[t].by)]
    ELSE task

\* Mutant of Release: by type only, whoever holds the lease.
ReleaseByType(t, r) == [lock EXCEPT ![task[t].type] = NoLock]

\* ReleaseSystemTaskLock: delete the lease row if it is the caller's.
Release(t, r) ==
    IF Held(t, r) THEN [lock EXCEPT ![task[t].type] = NoLock] ELSE lock

\* CreateSystemTask, where the unique index admits the row.
Insert(ty) ==
    \E t \in TaskId :
        /\ task[t].status = "absent"
        /\ \A u \in 1..(t - 1) : task[u].status # "absent"
        /\ KeyFree(ty)
        /\ task' = [task EXCEPT ![t] = PendingRow(ty, TRUE)]

\* A statement succeeds, or it fails and changes nothing.
Ok    == UNCHANGED faults
Fault == faults < MaxFaults /\ faults' = faults + 1

\* A lease as the reaper read it; the row being claimed has no owner yet.
Lease(t, r) == [task |-> t, by |-> r]
NoLease     == Lease(NoTask, NoRunner)

Exec == Runner \X TaskId  \* a handler: the runner and the task it executes

-----------------------------------------------------------------------------
(* The pass loop: runPass in StartSystemTaskRunner.  The stale-lease pass  *)
(* and the scheduler are throttled, so either may be skipped; the claim    *)
(* pass always runs.                                                       *)

\* Mutant of Expired: a missing lease row is taken for an expired one.
ExpiredOrMissing == {ty \in Type : ~lock[ty].live}

\* The types whose lease has expired by a timestamp taken now.
Expired == {ty \in Type : lock[ty] # NoLock /\ ~lock[ty].live}

\* r is back at the head of a loop, with nothing in hand.
Goto(r, p) ==
    /\ pc'  = [pc EXCEPT ![r] = p]
    /\ cur' = [cur EXCEPT ![r] = NoLease]
    /\ old' = [old EXCEPT ![r] = NoTask]
    /\ overdue' = [overdue EXCEPT ![r] = {}]

\* ExpireStaleSystemTaskLocks, the query.
ExpireSelect(r) ==
    /\ pc[r] = "idle"
    /\ stale' = [stale EXCEPT ![r] = {Lease(lock[ty].task, lock[ty].by) : ty \in Expired}]
    /\ overdue' = [overdue EXCEPT ![r] = Expired]
    /\ pc' = [pc EXCEPT ![r] = IF Expired = {} THEN "reaped" ELSE "reap"]
    /\ UNCHANGED <<task, lock, due, found, cur, old, exec, hist, faults>>

\* One iteration, first statement: MarkSystemTaskLeaseExpired.  An error ends
\* the whole pass over the stale leases.
ExpireMark(r) ==
    /\ pc[r] = "reap"
    /\ \E l \in stale[r] :
        \/ /\ Ok
           /\ task' = MarkLeaseExpired(l.task)
           /\ pc' = [pc EXCEPT ![r] = "unlock"]
           /\ cur' = [cur EXCEPT ![r] = l]
           /\ stale' = [stale EXCEPT ![r] = @ \ {l}]
           /\ UNCHANGED <<old, overdue>>
        \/ /\ Fault
           /\ Goto(r, "reaped")
           /\ stale' = [stale EXCEPT ![r] = {}]
           /\ UNCHANGED task
    /\ UNCHANGED <<lock, due, found, exec, hist>>

\* Second statement: delete the lease row if it still names the task and the
\* owner that were read and has expired.
ExpireDelete(r) ==
    /\ pc[r] = "unlock"
    /\ LET ty == task[cur[r].task].type IN
        \/ /\ Ok
           /\ lock' = IF Held(cur[r].task, cur[r].by) /\ ty \in overdue[r]
                      THEN [lock EXCEPT ![ty] = NoLock] ELSE lock
           /\ IF stale[r] = {} THEN Goto(r, "reaped")
              ELSE pc' = [pc EXCEPT ![r] = "reap"] /\ UNCHANGED <<cur, old, overdue>>
           /\ UNCHANGED stale
        \/ /\ Fault
           /\ Goto(r, "reaped")
           /\ stale' = [stale EXCEPT ![r] = {}]
           /\ UNCHANGED lock
    /\ UNCHANGED <<task, due, found, exec, hist>>

\* runSystemTaskScheduler, the query: a type is a candidate when its latest row
\* is terminal; whether its handler is enabled and its interval has elapsed is
\* left open.
ScheduleSelect(r) ==
    /\ pc[r] \in {"idle", "reaped"}
    /\ \E S \in SUBSET {ty \in Type : \A t \in Latest(ty) : task[t].status \in Terminal} :
        /\ due' = [due EXCEPT ![r] = S]
        /\ pc' = [pc EXCEPT ![r] = IF S = {} THEN "scheduled" ELSE "create"]
    /\ UNCHANGED <<task, lock, stale, found, cur, old, overdue, exec, hist, faults>>

\* One row per due type; the unique index rejects it if another node was faster.
ScheduleCreate(r) ==
    /\ pc[r] = "create"
    /\ \E ty \in due[r] :
        /\ due' = [due EXCEPT ![r] = @ \ {ty}]
        /\ pc' = [pc EXCEPT ![r] = IF due[r] = {ty} THEN "scheduled" ELSE @]
        /\ \/ Ok /\ Insert(ty)
           \/ Ok /\ ~KeyFree(ty) /\ UNCHANGED task
           \/ Fault /\ UNCHANGED task
    /\ UNCHANGED <<lock, stale, found, cur, old, overdue, exec, hist>>

\* EnqueueSystemTask and StartLogCleanupTask, called by an API request.  The
\* read of the active row that precedes the insert changes nothing the unique
\* index does not decide.
Enqueue(ty) ==
    /\ \A t \in Rows(ty) : task[t].status \notin Active
    /\ Insert(ty)
    /\ UNCHANGED <<lock, loop, exec, hist, faults>>

-----------------------------------------------------------------------------
(* runSystemTaskClaimPass and ClaimSystemTask.                             *)

ClaimSelect(r) ==
    /\ pc[r] \in {"idle", "reaped", "scheduled"}
    /\ LET pending == UNION {EarliestPending(ty) : ty \in Type} IN
        \/ /\ Ok
           /\ found' = [found EXCEPT ![r] = pending]
           /\ pc' = [pc EXCEPT ![r] = IF pending = {} THEN "idle" ELSE "pick"]
        \/ Fault /\ pc' = [pc EXCEPT ![r] = "idle"] /\ UNCHANGED found
    /\ UNCHANGED <<task, lock, stale, due, cur, old, overdue, exec, hist>>

\* One claim is over: the next candidate, or the next pass.
NextClaim(r, rest) == Goto(r, IF rest = {} THEN "idle" ELSE "pick")

\* ClaimSystemTask takes the timestamp that decides which lease has expired,
\* reads the row again and gives up unless it is still pending.
ClaimRead(r) ==
    /\ pc[r] = "pick"
    /\ \E t \in found[r] :
        /\ found' = [found EXCEPT ![r] = @ \ {t}]
        /\ \/ /\ Ok /\ task[t].status = "pending"
              /\ pc' = [pc EXCEPT ![r] = "insert"]
              /\ cur' = [cur EXCEPT ![r] = Lease(t, r)]
              /\ overdue' = [overdue EXCEPT ![r] = Expired]
              /\ UNCHANGED old
           \/ /\ (Ok /\ task[t].status # "pending") \/ Fault
              /\ NextClaim(r, found[r] \ {t})
    /\ UNCHANGED <<task, lock, stale, due, exec, hist>>

\* The lease of ty is given a new locked_until: one that has not passed exceeds
\* every timestamp taken so far, one that has passed may exceed some of them.
SetLockedUntil(ty, l) ==
    /\ lock' = [lock EXCEPT ![ty] = l]
    /\ \E S \in IF l.live THEN {{}} ELSE SUBSET {s \in Runner : ty \in overdue[s]} :
        overdue' = [s \in Runner |-> IF s \in S THEN overdue[s] ELSE overdue[s] \ {ty}]

\* r writes its lease for t.  locked_until was computed before the claim began:
\* unless claims are prompt it may have passed already.
WriteLease(r, t, ty) ==
    \E b \in IF PromptClaim THEN {TRUE} ELSE BOOLEAN :
        SetLockedUntil(ty, [task |-> t, by |-> r, live |-> b])

\* acquireSystemTaskLock, the insert; any error falls through to the read.
LockInsert(r) ==
    /\ pc[r] = "insert"
    /\ LET t == cur[r].task
           ty == task[t].type
       IN \/ /\ Ok /\ lock[ty] = NoLock
             /\ WriteLease(r, t, ty)
             /\ pc' = [pc EXCEPT ![r] = "promote"]
          \/ /\ (Ok /\ lock[ty] # NoLock) \/ Fault
             /\ pc' = [pc EXCEPT ![r] = "existing"]
             /\ UNCHANGED <<lock, overdue>>
    /\ UNCHANGED <<task, stale, due, found, cur, old, exec, hist>>

\* Mutant of LeaseFree: locked_until is not compared with the timestamp.
LeaseExists(r, ty) == lock[ty] # NoLock

\* There is a lease of this type, and it has expired by r's timestamp.
LeaseFree(r, ty) == lock[ty] # NoLock /\ ty \in overdue[r]

\* The read of the row that is in the way: only an expired lease is taken over.
LockExisting(r) ==
    /\ pc[r] = "existing"
    /\ LET ty == task[cur[r].task].type
           free == LeaseFree(r, ty)
       IN \/ /\ Ok /\ free
             /\ pc' = [pc EXCEPT ![r] = "takeover"]
             /\ old' = [old EXCEPT ![r] = lock[ty].task]
             /\ UNCHANGED <<cur, overdue>>
          \/ /\ (Ok /\ ~free) \/ Fault
             /\ NextClaim(r, found[r])
    /\ UNCHANGED <<task, lock, stale, due, found, exec, hist>>

\* The conditional update: whatever lease of this type has expired.
LockTakeover(r) ==
    /\ pc[r] = "takeover"
    /\ LET t == cur[r].task
           ty == task[t].type
           free == LeaseFree(r, ty)
       IN \/ /\ Ok /\ free
             /\ WriteLease(r, t, ty)
             /\ pc' = [pc EXCEPT ![r] = IF old[r] = t THEN "promote" ELSE "retire"]
             /\ UNCHANGED <<cur, old>>
          \/ /\ (Ok /\ ~free) \/ Fault
             /\ NextClaim(r, found[r])
             /\ UNCHANGED lock
    /\ UNCHANGED <<task, stale, due, found, exec, hist>>

\* The task of the lease that was taken over failed with it.
ClaimRetire(r) ==
    /\ pc[r] = "retire"
    /\ \/ Ok /\ task' = MarkLeaseExpired(old[r]) /\ pc' = [pc EXCEPT ![r] = "promote"]
       \/ Fault /\ pc' = [pc EXCEPT ![r] = "abandon"] /\ UNCHANGED task
    /\ UNCHANGED <<lock, stale, due, found, cur, old, overdue, exec, hist>>

\* Mutant of ClaimPromote: that no row was changed goes unnoticed.
PromoteUnchecked(r) ==
    /\ pc[r] = "promote"
    /\ LET t == cur[r].task IN
        task' = IF task[t].status = "pending"
                  THEN [task EXCEPT ![t] = Row("running", task[t].type, task[t].key, r)]
                  ELSE task
    /\ pc' = [pc EXCEPT ![r] = "dispatch"]
    /\ UNCHANGED <<lock, stale, due, found, cur, old, overdue, exec, hist, faults>>

\* pending -> running, conditional on the row being pending.
ClaimPromote(r) ==
    /\ pc[r] = "promote"
    /\ LET t == cur[r].task IN
        \/ /\ Ok /\ task[t].status = "pending"
           /\ task' = [task EXCEPT ![t] = Row("running", task[t].type, task[t].key, r)]
           /\ pc' = [pc EXCEPT ![r] = "dispatch"]
        \/ /\ (Ok /\ task[t].status # "pending") \/ Fault
           /\ pc' = [pc EXCEPT ![r] = "abandon"]
           /\ UNCHANGED task
    /\ UNCHANGED <<lock, stale, due, found, cur, old, overdue, exec, hist>>

\* The claim failed while it had the lease; an error of the release is ignored.
ClaimAbandon(r) ==
    /\ pc[r] = "abandon"
    /\ \/ Ok /\ lock' = Release(cur[r].task, r)
       \/ Fault /\ UNCHANGED lock
    /\ NextClaim(r, found[r])
    /\ UNCHANGED <<task, stale, due, found, exec, hist>>

\* The row is read back and handed to a goroutine with a heartbeat; if the read
\* fails the running row is left without a handler.
ClaimDispatch(r) ==
    /\ pc[r] = "dispatch"
    /\ LET e == <<r, cur[r].task>> IN
        \/ /\ Ok
           /\ handler' = [handler EXCEPT ![e] = "running"]
           /\ beat' = [beat EXCEPT ![e] = "on"]
        \/ Fault /\ UNCHANGED <<handler, beat>>
    /\ NextClaim(r, found[r])
    /\ UNCHANGED <<task, lock, stale, due, found, hist>>

-----------------------------------------------------------------------------
(* The handler goroutine and its heartbeat: runWithLeaseHeartbeat.         *)

\* fn returns and closes done.  A renewal that has been sent still runs, and if a
\* tick is waiting as well, select may choose it once more.
HandlerEnds(e) ==
    /\ handler' = [handler EXCEPT ![e] = "ended"]
    /\ \E b \in {"on", "off"} :
        beat' = [beat EXCEPT ![e] = IF @ = "on" THEN b ELSE @]

\* The heartbeat goroutine returns after cancelling the handler's context.
Cancel(e) ==
    /\ handler' = [handler EXCEPT ![e] = IF @ = "running" THEN "cancelled" ELSE @]
    /\ beat' = [beat EXCEPT ![e] = "off"]

\* RenewSystemTaskLock takes its timestamp: the lease is the caller's and has
\* not expired by then, or the update that follows matches no row.
RenewStart(r, t) ==
    /\ beat[<<r, t>>] = "on"
    /\ \/ /\ HeldLive(t, r)
          /\ beat' = [beat EXCEPT ![<<r, t>>] = "renewing"]
          /\ UNCHANGED handler
       \/ ~HeldLive(t, r) /\ Cancel(<<r, t>>)
    /\ UNCHANGED <<task, lock, loop, hist, faults>>

\* The update itself, however late it is executed: by then the lease it writes
\* may have expired as well.
RenewCommit(r, t) ==
    /\ beat[<<r, t>>] = "renewing"
    /\ \/ /\ Ok /\ Held(t, r)
          /\ LET ty == task[t].type IN
             \E b \in {TRUE, lock[ty].live} : SetLockedUntil(ty, [lock[ty] EXCEPT !.live = b])
          /\ beat' = [beat EXCEPT ![<<r, t>>] =
                          IF handler[<<r, t>>] = "ended" THEN "off" ELSE "on"]
          /\ UNCHANGED handler
       \/ /\ (Ok /\ ~Held(t, r)) \/ Fault
          /\ Cancel(<<r, t>>)
          /\ UNCHANGED <<lock, overdue>>
    /\ UNCHANGED <<task, pc, stale, due, found, cur, old, hist>>

\* FinishSystemTask takes its timestamp; as for the renewal, only a lease that
\* is live by then can match.
FinishStart(r, t) ==
    /\ handler[<<r, t>>] \in {"running", "cancelled"}
    /\ \/ /\ HeldLive(t, r)
          /\ handler' = [handler EXCEPT ![<<r, t>>] = "saving"]
          /\ UNCHANGED beat
       \/ ~HeldLive(t, r) /\ HandlerEnds(<<r, t>>)
    /\ UNCHANGED <<task, lock, loop, hist, faults>>

\* The conditional update: the row runs under this runner and the lease exists.
FinishCommit(r, t) ==
    /\ handler[<<r, t>>] = "saving"
    /\ LET owned == task[t].status = "running" /\ task[t].by = r /\ Held(t, r) IN
        \/ /\ Ok /\ owned
           /\ \E s \in Terminal :
                task' = [task EXCEPT ![t] = Row(s, task[t].type, FALSE, r)]
           /\ handler' = [handler EXCEPT ![<<r, t>>] = "release"]
           /\ UNCHANGED beat
        \/ /\ (Ok /\ ~owned) \/ Fault
           /\ HandlerEnds(<<r, t>>)
           /\ UNCHANGED task
    /\ UNCHANGED <<lock, loop, hist>>

FinishRelease(r, t) ==
    /\ handler[<<r, t>>] = "release"
    /\ \/ Ok /\ lock' = Release(t, r)
       \/ Fault /\ UNCHANGED lock
    /\ HandlerEnds(<<r, t>>)
    /\ UNCHANGED <<task, loop, hist>>

\* A handler whose progress write fails returns without finishing its task, and
\* so does one that panics.
HandlerQuits(r, t) ==
    /\ handler[<<r, t>>] \in {"running", "cancelled"}
    /\ Fault
    /\ HandlerEnds(<<r, t>>)
    /\ UNCHANGED <<task, lock, loop, hist>>

-----------------------------------------------------------------------------
(* The environment: time, crashes, and an administrator.                   *)

\* The holder of this lease is between writing it and promoting its task.
Claiming(ty) ==
    \E r \in Runner : pc[r] \in {"retire", "promote"} /\ cur[r] = Lease(lock[ty].task, lock[ty].by)

\* locked_until passes: the holder was killed, stalled, or cut off.
LeaseExpires(ty) ==
    /\ lock[ty].live
    /\ PromptClaim => ~Claiming(ty)
    /\ lock' = [lock EXCEPT ![ty].live = FALSE]
    /\ UNCHANGED <<task, loop, exec, hist, faults>>

\* The process is killed with all its goroutines.
Crash(r) ==
    /\ r \notin Reliable /\ pc[r] # "down"
    /\ Fault
    /\ Goto(r, "down")
    /\ stale' = [stale EXCEPT ![r] = {}]
    /\ due' = [due EXCEPT ![r] = {}]
    /\ found' = [found EXCEPT ![r] = {}]
    /\ handler' = [e \in Exec |->
            IF e[1] = r /\ handler[e] # "none" THEN "ended" ELSE handler[e]]
    /\ beat' = [e \in Exec |-> IF e[1] = r THEN "off" ELSE beat[e]]
    /\ UNCHANGED <<task, lock, hist>>

NoPurge == [keep |-> {}, newest |-> NoTask]

\* Mutant of PurgeSelect: only the newest row of all is protected.
PurgeSelectNewest ==
    /\ purge = NoPurge /\ purges < MaxPurges
    /\ LET latest == UNION {Latest(ty) : ty \in Type}
       IN  \E n \in latest :
             /\ \A t \in latest : t <= n
             /\ purge' = [keep |-> {n}, newest |-> n]
    /\ purges' = purges + 1
    /\ UNCHANGED <<task, lock, loop, exec, faults>>

\* DeleteSystemTaskHistory, the query: the largest id of every type.
PurgeSelect ==
    /\ purge = NoPurge /\ purges < MaxPurges
    /\ LET latest == UNION {Latest(ty) : ty \in Type}
       IN  \E n \in latest :
             /\ \A t \in latest : t <= n
             /\ purge' = [keep |-> latest, newest |-> n]
    /\ purges' = purges + 1
    /\ UNCHANGED <<task, lock, loop, exec, faults>>

\* The delete, restricted to one type, to one status, or to neither.
PurgeDelete ==
    /\ purge # NoPurge
    /\ \E types \in {Type} \cup {{ty} : ty \in Type}, sts \in {Terminal, {"succeeded"}, {"failed"}} :
        task' = [t \in TaskId |->
            IF /\ task[t].status \in sts /\ task[t].type \in types
               /\ t < purge.newest /\ t \notin purge.keep
            THEN Row("deleted", task[t].type, FALSE, task[t].by) ELSE task[t]]
    /\ purge' = NoPurge
    /\ UNCHANGED <<lock, loop, exec, purges, faults>>

-----------------------------------------------------------------------------

Init ==
    /\ task = [t \in TaskId |->
            IF t \in DOMAIN Legacy THEN PendingRow(Legacy[t], FALSE) ELSE AbsentRow]
    /\ lock = [ty \in Type |-> NoLock]
    /\ pc = [r \in Runner |-> "idle"]
    /\ stale = [r \in Runner |-> {}]
    /\ due = [r \in Runner |-> {}]
    /\ found = [r \in Runner |-> {}]
    /\ cur = [r \in Runner |-> NoLease]
    /\ old = [r \in Runner |-> NoTask]
    /\ overdue = [r \in Runner |-> {}]
    /\ handler = [e \in Exec |-> "none"]
    /\ beat = [e \in Exec |-> "off"]
    /\ purge = NoPurge
    /\ purges = 0
    /\ faults = 0

\* The steps of the pass loop.
PassStep(r) ==
    \/ ExpireSelect(r) \/ ExpireMark(r) \/ ExpireDelete(r)
    \/ ScheduleSelect(r) \/ ScheduleCreate(r)
    \/ ClaimSelect(r) \/ ClaimRead(r)
    \/ LockInsert(r) \/ LockExisting(r) \/ LockTakeover(r)
    \/ ClaimRetire(r) \/ ClaimPromote(r) \/ ClaimAbandon(r) \/ ClaimDispatch(r)

Heartbeat(r, t) == RenewStart(r, t) \/ RenewCommit(r, t)
Finish(r, t)    == FinishStart(r, t) \/ FinishCommit(r, t) \/ FinishRelease(r, t)

Next ==
    \/ \E r \in Runner :
        \/ PassStep(r)
        \/ Crash(r)
        \/ \E t \in TaskId : Heartbeat(r, t) \/ Finish(r, t) \/ HandlerQuits(r, t)
    \/ \E ty \in Type : Enqueue(ty) \/ LeaseExpires(ty)
    \/ PurgeSelect
    \/ PurgeDelete

Spec == Init /\ [][Next]_vars

\* A lease nobody is going to renew: its heartbeat has stopped, or was never
\* started, and the claim that wrote it is over.
Orphaned(ty) ==
    /\ lock[ty] # NoLock
    /\ beat[<<lock[ty].by, lock[ty].task>>] = "off"
    /\ \A r \in Runner : pc[r] \in {"retire", "promote", "abandon", "dispatch"} =>
            cur[r] # Lease(lock[ty].task, lock[ty].by)

\* Every process that is not killed keeps running its loop and goroutines; the
\* ticker makes the stale-lease pass due again and again; a handler returns;
\* the lease of a dead or finished holder runs out.
Fairness ==
    /\ \A r \in Runner :
        /\ WF_vars(PassStep(r))
        /\ SF_vars(ExpireSelect(r))
        /\ \A t \in TaskId : WF_vars(Heartbeat(r, t)) /\ WF_vars(Finish(r, t))
    /\ \A ty \in Type : WF_vars(Orphaned(ty) /\ LeaseExpires(ty))

FairSpec == Spec /\ Fairness

-----------------------------------------------------------------------------
(* Properties.                                                             *)

\* The positions of the pass loop, and a lease as a runner remembers it.
PassLoopPc == {"idle", "reap", "unlock", "reaped", "create", "scheduled", "pick", "insert",
               "existing", "takeover", "retire", "promote", "abandon", "dispatch", "down"}

LeaseRef == [task : TaskId, by : Runner]

\* Tables and locals are well formed: a lease names a row and a runner, a list
\* of stale leases names leases that existed, counters stay within the bounds.
TypeOK ==
    /\ task \in [TaskId -> TaskRow]
    /\ lock \in [Type -> LockRow \cup {NoLock}]
    /\ pc \in [Runner -> PassLoopPc]
    /\ stale \in [Runner -> SUBSET LeaseRef]
    /\ due \in [Runner -> SUBSET Type]
    /\ found \in [Runner -> SUBSET TaskId]
    /\ cur \in [Runner -> LeaseRef \cup {NoLease}]
    /\ old \in [Runner -> TaskId \cup {NoTask}]
    /\ overdue \in [Runner -> SUBSET Type]
    /\ handler \in [Exec -> {"none", "running", "cancelled", "saving", "release", "ended"}]
    /\ beat \in [Exec -> {"off", "on", "renewing"}]
    /\ purge \in [keep : SUBSET TaskId, newest : TaskId \cup {NoTask}]
    /\ purges \in 0..MaxPurges
    /\ faults \in 0..MaxFaults

\* active_key is exact: only active rows hold it, every active row that is not
\* a legacy row holds it, and no two rows of a type hold it.  A terminal row that
\* kept its key would block every later run of its type; an active row without
\* one would allow a second run beside it.
ActiveKeyExact ==
    \A t \in TaskId :
        /\ task[t].key => task[t].status \in Active
        /\ t \notin DOMAIN Legacy => (task[t].status \in Active => task[t].key)
        /\ \A u \in TaskId \ {t} :
              task[t].key /\ task[u].key => task[t].type # task[u].type

\* A task is handed to at most one handler goroutine over its whole life, under
\* every interleaving of claims, lease takeovers and reaping ("the per-type lock
\* guarantees only one runner executes the task").
DispatchedOnce ==
    \A t \in TaskId, r, s \in Runner :
        handler[<<r, t>>] # "none" /\ handler[<<s, t>>] # "none" => r = s

\* A running row always has its lease row, live or expired, or is about to be
\* failed by the claim that took the lease over.  Stale leases are found through
\* their lease rows only, so a running row without one would never become
\* terminal and would keep its active_key for ever.
RunningHasLease ==
    \A t \in TaskId : task[t].status = "running" =>
        \/ lock[task[t].type].task = t
        \/ \E r \in Runner : pc[r] = "retire" /\ old[r] = t

\* A terminal row never changes again, except by being purged from the history:
\* neither a late handler, nor a late reaper, nor a second claim revives it or
\* overwrites its result.
TerminalIsFinal ==
    [][\A t \in TaskId : task[t].status \in Terminal =>
            task'[t].status \in {task[t].status, "deleted"}]_vars

\* A live lease never passes to another runner or task directly, and it is
\* deleted only when its task is not running.
LiveLeaseIsKept ==
    [][\A ty \in Type :
        LET l == lock[ty] IN
        l.live => \/ lock'[ty].task = l.task /\ lock'[ty].by = l.by
                  \/ lock'[ty] = NoLock /\ task'[l.task].status # "running"]_vars

\* Purging the history never deletes the newest row of a type, from which the
\* scheduler computes when the next run is due.
PurgeKeepsLatest ==
    [][\A t \in TaskId :
        task[t].status # "deleted" /\ task'[t].status = "deleted" =>
            \E u \in TaskId : /\ u > t /\ task'[u].type = task[t].type
                              /\ task'[u].status \notin {"absent", "deleted"}]_vars

\* Every pending row becomes terminal: no crash, stall or lost lease leaves a
\* row active for ever.
PendingEnds ==
    \A t \in TaskId :
        task[t].status = "pending" ~> task[t].status \in Terminal \cup {"deleted"}

=============================================================================
