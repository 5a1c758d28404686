-------------------------- MODULE SystemTaskProofs --------------------------
(* Proofs about SystemTask, for every set of runners and types and every   *)
(* bound.                                                                  *)
EXTENDS SystemTask, WellFoundedInduction, TLAPS

-----------------------------------------------------------------------------
(* The inductive invariant behind RunningHasLease, for claims that do not  *)
(* outlast their lease and tables with at most one legacy row of a type.   *)

LoneLegacy == \A t, u \in DOMAIN Legacy : Legacy[t] = Legacy[u] => t = u

PreLock  == {"insert", "existing", "takeover"}  \* the claim has no lease yet
PostLock == {"retire", "promote", "abandon"}    \* it has written its lease

\* References stay within the tables: a row has a type once it is inserted, and
\* leases and locals name inserted rows.
Inserted(t) == t \in TaskId /\ task[t].type \in Type

RowShape  == \A t \in TaskId : task[t].type = NoType <=> task[t].status = "absent"
LockShape == \A ty \in Type : lock[ty] # NoLock => task[lock[ty].task].type = ty
CurShape  == \A r \in Runner :
    /\ pc[r] \in PreLock \cup PostLock \cup {"dispatch"} => Inserted(cur[r].task) /\ cur[r].by = r
    /\ pc[r] = "unlock" => Inserted(cur[r].task)
    /\ pc[r] \in {"takeover", "retire"} => old[r] \in TaskId
ListShape == \A r \in Runner :
    /\ \A t \in found[r] : Inserted(t)
    /\ \A l \in stale[r] : Inserted(l.task)
BeatShape == \A r \in Runner, t \in TaskId : beat[<<r, t>>] # "off" => handler[<<r, t>>] # "none"

Shape == RowShape /\ LockShape /\ CurShape /\ ListShape /\ BeatShape

\* locked_by of a row that has been promoted names the only runner that may
\* have, or be about to start, a handler for it.
Owner ==
    /\ \A r \in Runner, t \in TaskId : handler[<<r, t>>] # "none" =>
            task[t].by = r /\ task[t].status \notin {"absent", "pending"}
    /\ \A r \in Runner : pc[r] = "dispatch" =>
            task[cur[r].task].by = r /\ task[cur[r].task].status \notin {"absent", "pending"}

\* While a legacy row is active it is the only row of its type, and no scheduler
\* is about to create another.
LegacyFirst ==
    \A t \in DOMAIN Legacy :
        /\ task[t].status # "absent"
        /\ task[t].status \in Active =>
            /\ \A u \in Rows(task[t].type) : u = t
            /\ \A r \in Runner : task[t].type \notin due[r]

\* A runner never claims a task it has executed.
OwnClaim ==
    \A r \in Runner : pc[r] \in PreLock \cup PostLock => handler[<<r, cur[r].task>>] = "none"

\* No runner's timestamp exceeds the locked_until of a live lease.
OverdueExpired ==
    \A r \in Runner : \A ty \in overdue[r] : ~lock[ty].live

\* A claim that is about to promote its task holds a live lease for it.
ClaimHoldsLease ==
    \A r \in Runner : pc[r] \in {"retire", "promote"} => HeldLive(cur[r].task, r)

\* A claim never takes over or gives back the lease of a task that is running,
\* and neither the reaper nor a finished handler deletes one.
NotRunning(t) == task[t].status # "running"

LeaseIsSpare ==
    \A r \in Runner :
        LET t == cur[r].task IN
        /\ pc[r] \in PreLock /\ task[t].type \in overdue[r] /\ lock[task[t].type] # NoLock
               => NotRunning(lock[task[t].type].task)
        /\ pc[r] \in PostLock /\ Held(t, r) => NotRunning(t)
        /\ pc[r] = "unlock" /\ task[t].type \in overdue[r] /\ Held(t, cur[r].by)
               => NotRunning(t)

ReleaseIsLate ==
    \A e \in Exec : handler[e] = "release" => task[e[2]].status \in Terminal \cup {"deleted"}

\* Every running row has its lease row.
RunningLeased ==
    \A t \in TaskId : task[t].status = "running" => lock[task[t].type].task = t

LeaseInv ==
    /\ ActiveKeyExact /\ LegacyFirst /\ Owner /\ OwnClaim
    /\ OverdueExpired /\ ClaimHoldsLease
    /\ LeaseIsSpare /\ ReleaseIsLate /\ RunningLeased

-----------------------------------------------------------------------------
(* Facts about single steps.                                               *)

\* NoTask is not the id of a row.
LEMMA NoTaskIsNoId == NoTask \notin TaskId
  BY DEF NoTask, TaskId

\* Legacy rows are rows of the table and have a type.
LEMMA LegacyFacts ==
  DOMAIN Legacy \subseteq TaskId /\ \A t \in DOMAIN Legacy : Legacy[t] \in Type
  <1>1. PICK n \in 0..MaxTask : Legacy \in [1..n -> Type]
    BY LegacyAssumption
  <1>2. DOMAIN Legacy = 1..n
    BY <1>1
  <1>3. 1..n \subseteq 1..MaxTask
    BY <1>1, BoundsAssumption
  <1> QED BY <1>1, <1>2, <1>3 DEF TaskId

\* What MarkSystemTaskLeaseExpired does to the table.
LEMMA MarkType ==
  ASSUME NEW t \in TaskId, task \in [TaskId -> TaskRow]
  PROVE  MarkLeaseExpired(t) \in [TaskId -> TaskRow]
  BY DEF MarkLeaseExpired, Row, TaskRow, Status, Active, Terminal

\* Every variable keeps its type, and references stay within the tables.
LEMMA TypeInit == Init => TypeOK /\ Shape
  <1> SUFFICES ASSUME Init PROVE TypeOK /\ Shape
    OBVIOUS
  <1>1. TypeOK
    <2>1. task \in [TaskId -> TaskRow]
      BY LegacyFacts
      DEF Init, AbsentRow, Row, PendingRow, TaskRow, Status, Active, Terminal
    <2>2. faults \in 0..MaxFaults /\ purges \in 0..MaxPurges
      BY BoundsAssumption DEF Init
    <2> QED
      BY <2>1, <2>2 DEF Init, TypeOK, NoPurge, PassLoopPc
  <1>2. Shape
    BY NullAssumption, LegacyFacts
    DEF Init, Shape, RowShape, LockShape, CurShape, ListShape, BeatShape, PreLock, PostLock, TaskId, NoType, NoRunner, NoLock, AbsentRow, Row, PendingRow, Exec
  <1> QED BY <1>1, <1>2

\* Everything a step may do to one row of system_tasks.
Evolves(t) ==
    \/ task'[t] = task[t]
    \/ /\ task[t].status = "absent"
       /\ \E ty \in Type : task'[t] = Row("pending", ty, TRUE, NoRunner)
    \/ /\ task[t].status = "pending"
       /\ \E r \in Runner : /\ pc[r] = "promote" /\ cur[r].task = t
                            /\ pc'[r] = "dispatch" /\ UNCHANGED <<lock, overdue>>
                            /\ task'[t] = Row("running", task[t].type, task[t].key, r)
    \/ /\ task[t].status = "running"
       /\ \E s \in Terminal : task'[t] = Row(s, task[t].type, FALSE, task[t].by)
    \/ /\ task[t].status \in Terminal
       /\ task'[t] = Row("deleted", task[t].type, FALSE, task[t].by)
       /\ purge # NoPurge /\ purge' = NoPurge
       /\ t < purge.newest /\ t \notin purge.keep
       /\ \A u \in purge.keep : task'[u] = task[u]

\* Failing a task whose lease has expired moves a row only along its life cycle.
LEMMA MarkEvolves ==
  ASSUME TypeOK, NEW t \in TaskId, task' = MarkLeaseExpired(t)
  PROVE  \A u \in TaskId : Evolves(u)
  BY DEF MarkLeaseExpired, Evolves, TypeOK, Terminal

\* Creating a task turns one absent row into a pending one.
LEMMA InsertEvolves ==
  ASSUME TypeOK, NEW ty \in Type, Insert(ty)
  PROVE  task' \in [TaskId -> TaskRow] /\ \A u \in TaskId : Evolves(u)
  <1>1. PICK t \in TaskId : /\ task[t].status = "absent"
                            /\ task' = [task EXCEPT ![t] = Row("pending", ty, TRUE, NoRunner)]
    BY DEF Insert, PendingRow
  <1>2. Row("pending", ty, TRUE, NoRunner) \in TaskRow
    BY DEF Row, TaskRow, Status, Active
  <1> QED BY <1>1, <1>2 DEF Evolves, TypeOK

\* One row at a time, a step only takes a row along absent, pending, running,
\* terminal, deleted; the type never changes once it is set.
LEMMA TaskEvolves ==
  ASSUME TypeOK, Shape, [Next]_vars
  PROVE  task' \in [TaskId -> TaskRow] /\ \A t \in TaskId : Evolves(t)
  <1> DEFINE Goal == task' \in [TaskId -> TaskRow] /\ \A t \in TaskId : Evolves(t)
  <1>0. ASSUME task' = task PROVE Goal
    BY <1>0 DEF TypeOK, Evolves
  <1>1. ASSUME NEW r \in Runner, ExpireMark(r) PROVE Goal
    <2>1. PICK l \in stale[r] : task' = MarkLeaseExpired(l.task) \/ task' = task
      BY <1>1 DEF ExpireMark
    <2>2. l.task \in TaskId
      BY <2>1 DEF TypeOK, LeaseRef
    <2> QED BY <1>0, <2>1, <2>2, MarkType, MarkEvolves DEF TypeOK
  <1>2. ASSUME NEW r \in Runner, ScheduleCreate(r) PROVE Goal
    <2>1. PICK ty \in due[r] : Insert(ty) \/ task' = task
      BY <1>2 DEF ScheduleCreate
    <2>2. ty \in Type
      BY <2>1 DEF TypeOK
    <2> QED BY <1>0, <2>1, <2>2, InsertEvolves
  <1>3. ASSUME NEW r \in Runner, ClaimRetire(r) PROVE Goal
    <2>1. old[r] \in TaskId
      BY <1>3 DEF ClaimRetire, Shape, CurShape
    <2> QED BY <1>0, <1>3, <2>1, MarkType, MarkEvolves DEF ClaimRetire, TypeOK
  <1>4. ASSUME NEW r \in Runner, ClaimPromote(r) PROVE Goal
    <2>1. cur[r].task \in TaskId
      BY <1>4 DEF ClaimPromote, Shape, CurShape, PostLock, Inserted
    <2>2. CASE task' = task
      BY <1>0, <2>2
    <2>3. CASE /\ task[cur[r].task].status = "pending"
               /\ task' = [task EXCEPT ![cur[r].task] =
                             Row("running", task[cur[r].task].type, task[cur[r].task].key, r)]
      <3>1. task' \in [TaskId -> TaskRow]
        BY <2>1, <2>3 DEF TypeOK, TaskRow, Row, Status, Active
      <3>2. pc[r] = "promote" /\ UNCHANGED <<lock, overdue>>
        BY <1>4 DEF ClaimPromote
      <3>3. pc'[r] = "dispatch"
        <4>1. task'[cur[r].task].status = "running"
          BY <2>1, <2>3 DEF TypeOK, Row
        <4> QED BY <1>4, <2>3, <4>1 DEF ClaimPromote, TypeOK
      <3> QED BY <2>1, <2>3, <3>1, <3>2, <3>3 DEF Evolves, TypeOK
    <2> QED BY <1>4, <2>2, <2>3 DEF ClaimPromote
  <1>5. ASSUME NEW r \in Runner, NEW t \in TaskId, FinishCommit(r, t) PROVE Goal
    <2>1. CASE task' = task
      BY <1>0, <2>1
    <2>2. CASE /\ task[t].status = "running" /\ task[t].by = r
               /\ \E s \in Terminal : task' = [task EXCEPT ![t] = Row(s, task[t].type, FALSE, r)]
      <3>1. task' \in [TaskId -> TaskRow]
        BY <2>2 DEF TypeOK, TaskRow, Row, Status, Terminal
      <3>2. PICK s \in Terminal : task' = [task EXCEPT ![t] = Row(s, task[t].type, FALSE, r)]
        BY <2>2
      <3>3. ASSUME NEW u \in TaskId PROVE Evolves(u)
        BY <2>2, <3>2 DEF Evolves, TypeOK
      <3> QED BY <3>1, <3>3
    <2> QED BY <1>5, <2>1, <2>2 DEF FinishCommit
  <1>6. ASSUME NEW ty \in Type, Enqueue(ty) PROVE Goal
    BY <1>6, InsertEvolves DEF Enqueue
  <1>7. ASSUME PurgeDelete PROVE Goal
    <2>1. PICK types \in {Type} \cup {{ty} : ty \in Type}, sts \in {Terminal, {"succeeded"}, {"failed"}} :
            task' = [t \in TaskId |->
              IF /\ task[t].status \in sts /\ task[t].type \in types
                 /\ t < purge.newest /\ t \notin purge.keep
              THEN Row("deleted", task[t].type, FALSE, task[t].by) ELSE task[t]]
      BY <1>7 DEF PurgeDelete
    <2>2. sts \subseteq Terminal
      BY <2>1 DEF Terminal
    <2>3. task' \in [TaskId -> TaskRow]
      BY <2>1 DEF TypeOK, TaskRow, Row, Status
    <2>4. purge # NoPurge /\ purge' = NoPurge /\ purge.keep \subseteq TaskId
      BY <1>7 DEF PurgeDelete, TypeOK
    <2>5. \A u \in purge.keep : task'[u] = task[u]
      BY <2>1, <2>4
    <2> QED BY <2>1, <2>2, <2>3, <2>4, <2>5 DEF Evolves
  <1>8. CASE UNCHANGED vars
    BY <1>0, <1>8 DEF vars
  <1>9. ASSUME NEW r \in Runner, PassStep(r) PROVE Goal
    BY <1>0, <1>1, <1>2, <1>3, <1>4, <1>9, Zenon
    DEF PassStep, ExpireSelect, ExpireDelete, ScheduleSelect, ClaimSelect, ClaimRead,
        LockInsert, LockExisting, LockTakeover, ClaimAbandon, ClaimDispatch
  <1>10. ASSUME NEW r \in Runner, NEW t \in TaskId,
                Heartbeat(r, t) \/ Finish(r, t) \/ HandlerQuits(r, t)
         PROVE  Goal
    BY <1>0, <1>5, <1>10, Zenon
    DEF Heartbeat, Finish, RenewStart, RenewCommit, FinishStart, FinishRelease, HandlerQuits
  <1>11. ASSUME NEW r \in Runner, Crash(r) PROVE Goal
    BY <1>0, <1>11, Zenon DEF Crash
  <1>12. ASSUME NEW ty \in Type, LeaseExpires(ty) PROVE Goal
    BY <1>0, <1>12, Zenon DEF LeaseExpires
  <1>13. ASSUME PurgeSelect PROVE Goal
    BY <1>0, <1>13, Zenon DEF PurgeSelect
  <1> QED
    BY <1>6, <1>7, <1>8, <1>9, <1>10, <1>11, <1>12, <1>13, Zenon DEF Next

\* The type of a row is set once; a row without a type has not been inserted.
LEMMA RowStable ==
  ASSUME TypeOK, Shape, [Next]_vars
  PROVE  /\ RowShape'
         /\ \A t \in TaskId : Inserted(t) => Inserted(t)' /\ task'[t].type = task[t].type
  <1>1. RowShape /\ task \in [TaskId -> TaskRow]
    BY DEF TypeOK, Shape
  <1>2. ASSUME NEW t \in TaskId
        PROVE  /\ task'[t].type = NoType <=> task'[t].status = "absent"
               /\ Inserted(t) => task'[t].type = task[t].type
    <2>1. Evolves(t) /\ (task[t].type = NoType <=> task[t].status = "absent")
      BY <1>1, TaskEvolves DEF RowShape
    <2>2. task[t].type \in Type => task[t].type # NoType
      BY NullAssumption DEF NoType
    <2>3. CASE task'[t] = task[t]
      BY <2>1, <2>3
    <2>4. CASE /\ task[t].status = "absent"
               /\ \E ty \in Type : task'[t] = Row("pending", ty, TRUE, NoRunner)
      <3>1. task[t].type = NoType
        BY <2>1, <2>4
      <3>2. task'[t].type \in Type /\ task'[t].status = "pending"
        BY <2>4 DEF Row
      <3> QED BY <3>1, <3>2, <2>2, NullAssumption DEF NoType, Inserted
    <2>5. CASE /\ task[t].status # "absent"
               /\ task'[t].type = task[t].type /\ task'[t].status # "absent"
      BY <2>1, <2>5
    <2>6. CASE /\ task[t].status = "pending"
               /\ \E r \in Runner : task'[t] = Row("running", task[t].type, task[t].key, r)
      BY <2>5, <2>6 DEF Row
    <2>7. CASE /\ task[t].status = "running"
               /\ \E s \in Terminal : task'[t] = Row(s, task[t].type, FALSE, task[t].by)
      BY <2>5, <2>7 DEF Row, Terminal
    <2>8. CASE /\ task[t].status \in Terminal
               /\ task'[t] = Row("deleted", task[t].type, FALSE, task[t].by)
      BY <2>5, <2>8 DEF Row, Terminal
    <2> QED BY <2>1, <2>3, <2>4, <2>6, <2>7, <2>8, Zenon DEF Evolves
  <1> QED BY <1>2 DEF RowShape, Inserted

\* Everything a step may do to one row of system_task_locks.
Deletes(r, ty) ==
    \/ pc[r] = "unlock" /\ Held(cur[r].task, cur[r].by) /\ ty \in overdue[r]
                        /\ ty = task[cur[r].task].type
    \/ pc[r] = "abandon" /\ Held(cur[r].task, r) /\ ty = task[cur[r].task].type
    \/ \E t \in TaskId : handler[<<r, t>>] = "release" /\ Held(t, r) /\ ty = task[t].type

Writes(r, ty) ==
    /\ ty = task[cur[r].task].type
    /\ \/ pc[r] = "insert" /\ lock[ty] = NoLock
       \/ pc[r] = "takeover" /\ lock[ty] # NoLock /\ ty \in overdue[r]
    /\ pc'[r] \in {"promote", "retire"} /\ cur'[r] = cur[r]
    /\ \E b \in BOOLEAN : /\ PromptClaim => b
                          /\ lock'[ty] = [task |-> cur[r].task, by |-> r, live |-> b]

LockEvolves(ty) ==
    \/ lock'[ty] = lock[ty]
    \/ lock'[ty] = NoLock /\ \E r \in Runner : Deletes(r, ty)
    \/ \E r \in Runner : Writes(r, ty)
    \/ /\ lock[ty] # NoLock
       /\ \E b \in BOOLEAN :
            /\ lock'[ty] = [lock[ty] EXCEPT !.live = b]
            /\ ~b /\ lock[ty].live => (PromptClaim => ~Claiming(ty))

\* What one step can do to the lease of each type.
LEMMA LockStep ==
  ASSUME TypeOK, Shape, [Next]_vars
  PROVE  lock' = [ty \in Type |-> lock'[ty]] /\ \A ty \in Type : LockEvolves(ty)
  <1> DEFINE Goal == lock' = [ty \in Type |-> lock'[ty]] /\ \A ty \in Type : LockEvolves(ty)
  <1>0. ASSUME lock' = lock PROVE Goal
    BY <1>0 DEF LockEvolves, TypeOK
  <1>1. ASSUME NEW r \in Runner, ExpireDelete(r) PROVE Goal
    <2>1. CASE lock' = lock
      BY <1>0, <2>1
    <2>2. CASE LET ty == task[cur[r].task].type IN
               /\ Held(cur[r].task, cur[r].by) /\ ty \in overdue[r]
               /\ lock' = [lock EXCEPT ![ty] = NoLock]
      <3>1. pc[r] = "unlock"
        BY <1>1 DEF ExpireDelete
      <3> QED BY <2>2, <3>1 DEF LockEvolves, Deletes, TypeOK
    <2> QED BY <1>1, <2>1, <2>2 DEF ExpireDelete
  <1>2. ASSUME NEW r \in Runner, ClaimAbandon(r) PROVE Goal
    <2>1. CASE lock' = lock
      BY <1>0, <2>1
    <2>2. CASE Held(cur[r].task, r) /\ lock' = [lock EXCEPT ![task[cur[r].task].type] = NoLock]
      <3>1. pc[r] = "abandon"
        BY <1>2 DEF ClaimAbandon
      <3> QED BY <2>2, <3>1 DEF LockEvolves, Deletes, TypeOK
    <2> QED BY <1>2, <2>1, <2>2 DEF ClaimAbandon, Release
  <1>3. ASSUME NEW r \in Runner, NEW t \in TaskId, FinishRelease(r, t) PROVE Goal
    <2>1. CASE lock' = lock
      BY <1>0, <2>1
    <2>2. CASE Held(t, r) /\ lock' = [lock EXCEPT ![task[t].type] = NoLock]
      BY <1>3, <2>2 DEF FinishRelease, LockEvolves, Deletes, TypeOK
    <2> QED BY <1>3, <2>1, <2>2 DEF FinishRelease, Release
  <1>4. ASSUME NEW r \in Runner, LockInsert(r) PROVE Goal
    <2>1. CASE lock' = lock
      BY <1>0, <2>1
    <2>2. CASE LET t == cur[r].task IN
               lock[task[t].type] = NoLock /\ WriteLease(r, t, task[t].type) /\ pc' = [pc EXCEPT ![r] = "promote"]
      <3>1. pc[r] = "insert" /\ cur' = cur /\ pc'[r] = "promote"
        BY <1>4, <2>2 DEF LockInsert, TypeOK
      <3>2. PICK b \in BOOLEAN :
              /\ PromptClaim => b
              /\ lock' = [lock EXCEPT ![task[cur[r].task].type] =
                            [task |-> cur[r].task, by |-> r, live |-> b]]
        BY <2>2 DEF WriteLease, SetLockedUntil
      <3> QED BY <2>2, <3>1, <3>2 DEF LockEvolves, Writes, TypeOK
    <2> QED BY <1>4, <2>1, <2>2 DEF LockInsert
  <1>5. ASSUME NEW r \in Runner, LockTakeover(r) PROVE Goal
    <2>1. CASE lock' = lock
      BY <1>0, <2>1
    <2>2. CASE LET t == cur[r].task IN
               /\ lock[task[t].type] # NoLock /\ task[t].type \in overdue[r]
               /\ WriteLease(r, t, task[t].type) /\ UNCHANGED cur
               /\ pc' = [pc EXCEPT ![r] = IF old[r] = t THEN "promote" ELSE "retire"]
      <3>1. pc[r] = "takeover" /\ cur' = cur /\ pc'[r] \in {"promote", "retire"}
        BY <1>5, <2>2 DEF LockTakeover, TypeOK
      <3>2. PICK b \in BOOLEAN :
              /\ PromptClaim => b
              /\ lock' = [lock EXCEPT ![task[cur[r].task].type] =
                            [task |-> cur[r].task, by |-> r, live |-> b]]
        BY <2>2 DEF WriteLease, SetLockedUntil
      <3> QED BY <2>2, <3>1, <3>2 DEF LockEvolves, Writes, TypeOK
    <2> QED BY <1>5, <2>1, <2>2 DEF LockTakeover, LeaseFree
  <1>6. ASSUME NEW r \in Runner, NEW t \in TaskId, RenewCommit(r, t) PROVE Goal
    <2>1. CASE lock' = lock
      BY <1>0, <2>1
    <2>2. CASE /\ Held(t, r)
               /\ \E b \in {TRUE, lock[task[t].type].live} :
                    SetLockedUntil(task[t].type, [lock[task[t].type] EXCEPT !.live = b])
      <3>1. PICK b \in {TRUE, lock[task[t].type].live} :
              lock' = [lock EXCEPT ![task[t].type] = [lock[task[t].type] EXCEPT !.live = b]]
        BY <2>2 DEF SetLockedUntil
      <3>2. ASSUME task[t].type \in Type
            PROVE  lock[task[t].type] # NoLock /\ lock[task[t].type].live \in BOOLEAN
        <4>1. lock[task[t].type] \in LockRow \cup {NoLock} /\ lock[task[t].type].task = t
          BY <2>2, <3>2 DEF Held, TypeOK
        <4> QED BY <4>1, NoTaskIsNoId DEF NoLock, LockRow
      <3> QED BY <3>1, <3>2 DEF LockEvolves, TypeOK
    <2> QED BY <1>6, <2>1, <2>2 DEF RenewCommit
  <1>7. ASSUME NEW ty \in Type, LeaseExpires(ty) PROVE Goal
    <2>1. lock[ty] # NoLock
      BY <1>7 DEF LeaseExpires, NoLock
    <2>2. lock' = [lock EXCEPT ![ty] = [lock[ty] EXCEPT !.live = FALSE]]
      BY <1>7 DEF LeaseExpires, TypeOK
    <2> QED BY <1>7, <2>1, <2>2 DEF LeaseExpires, LockEvolves, TypeOK
  <1>8. CASE UNCHANGED vars
    BY <1>0, <1>8 DEF vars
  <1>9. ASSUME NEW r \in Runner, PassStep(r) PROVE Goal
    BY <1>0, <1>1, <1>2, <1>4, <1>5, <1>9, Zenon
    DEF PassStep, ExpireSelect, ExpireMark, ScheduleSelect, ScheduleCreate, ClaimSelect,
        ClaimRead, LockExisting, ClaimRetire, ClaimPromote, ClaimDispatch
  <1>10. ASSUME NEW r \in Runner, NEW t \in TaskId,
                Heartbeat(r, t) \/ Finish(r, t) \/ HandlerQuits(r, t)
         PROVE  Goal
    BY <1>0, <1>3, <1>6, <1>10, Zenon
    DEF Heartbeat, Finish, RenewStart, FinishStart, FinishCommit, HandlerQuits
  <1>11. ASSUME NEW r \in Runner, Crash(r) PROVE Goal
    BY <1>0, <1>11, Zenon DEF Crash
  <1>12. ASSUME NEW ty \in Type, Enqueue(ty) PROVE Goal
    BY <1>0, <1>12, Zenon DEF Enqueue
  <1>13. ASSUME PurgeSelect \/ PurgeDelete PROVE Goal
    BY <1>0, <1>13, Zenon DEF PurgeSelect, PurgeDelete
  <1> QED
    BY <1>7, <1>8, <1>9, <1>10, <1>11, <1>12, <1>13, Zenon DEF Next

\* Leases are rows of the table for tasks of their type.
LEMMA LockStable ==
  ASSUME TypeOK, Shape, [Next]_vars
  PROVE  lock' \in [Type -> LockRow \cup {NoLock}] /\ LockShape'
  <1>1. ASSUME NEW ty \in Type
        PROVE  /\ lock'[ty] \in LockRow \cup {NoLock}
               /\ lock'[ty] # NoLock => task'[lock'[ty].task].type = ty
    <2>1. lock[ty] \in LockRow \cup {NoLock} /\ (lock[ty] # NoLock => task[lock[ty].task].type = ty)
      BY DEF TypeOK, Shape, LockShape
    <2>2. \A t \in TaskId : task[t].type = ty => task'[t].type = ty
      BY RowStable DEF Inserted
    <2>3. CASE lock'[ty] = lock[ty]
      BY <2>1, <2>2, <2>3 DEF LockRow
    <2>4. CASE lock'[ty] = NoLock
      BY <2>4
    <2>5. CASE \E r \in Runner : Writes(r, ty)
      <3>1. PICK r \in Runner : Writes(r, ty)
        BY <2>5
      <3>2. cur[r].task \in TaskId /\ task[cur[r].task].type = ty
        BY <3>1 DEF Writes, Shape, CurShape, Inserted, PreLock
      <3>3. PICK b \in BOOLEAN : lock'[ty] = [task |-> cur[r].task, by |-> r, live |-> b]
        BY <3>1 DEF Writes
      <3>4. lock'[ty] \in LockRow /\ lock'[ty].task = cur[r].task
        BY <3>2, <3>3 DEF LockRow
      <3> QED BY <2>2, <3>2, <3>4
    <2>6. CASE lock[ty] # NoLock /\ \E b \in BOOLEAN : lock'[ty] = [lock[ty] EXCEPT !.live = b]
      BY <2>1, <2>2, <2>6 DEF LockRow
    <2> QED BY <2>3, <2>4, <2>5, <2>6, LockStep DEF LockEvolves
  <1> QED BY <1>1, LockStep DEF LockShape

\* The locals of the processes keep their types.
LocalTypes ==
    /\ pc \in [Runner -> PassLoopPc]
    /\ stale \in [Runner -> SUBSET LeaseRef]
    /\ due \in [Runner -> SUBSET Type]
    /\ found \in [Runner -> SUBSET TaskId]
    /\ cur \in [Runner -> LeaseRef \cup {NoLease}]
    /\ old \in [Runner -> TaskId \cup {NoTask}]
    /\ overdue \in [Runner -> SUBSET Type]
    /\ handler \in [Exec -> {"none", "running", "cancelled", "saving", "release", "ended"}]
    /\ beat \in [Exec -> {"off", "on", "renewing"}]

\* Writing locked_until keeps the sets of overdue leases well formed.
LEMMA OverdueType ==
  ASSUME NEW ty, NEW l, SetLockedUntil(ty, l), overdue \in [Runner -> SUBSET Type]
  PROVE  overdue' \in [Runner -> SUBSET Type]
  <1>1. PICK S : overdue' = [s \in Runner |-> IF s \in S THEN overdue[s] ELSE overdue[s] \ {ty}]
    BY DEF SetLockedUntil
  <1> QED BY <1>1

\* Every step keeps the locals of the pass loop, handlers and heartbeats well formed.
LEMMA LocalStep ==
  ASSUME TypeOK, Shape, [Next]_vars
  PROVE  LocalTypes'
  <1> USE DEF loop, exec
  <1>0. LocalTypes /\ lock \in [Type -> LockRow \cup {NoLock}]
    BY DEF TypeOK, LocalTypes
  <1>1. ASSUME NEW r \in Runner, ExpireSelect(r) PROVE LocalTypes'
    <2>1. Expired \subseteq Type
      BY DEF Expired
    <2>2. ASSUME NEW ty \in Expired PROVE Lease(lock[ty].task, lock[ty].by) \in LeaseRef
      BY <1>0, <2>2 DEF Expired, Lease, LeaseRef, LockRow
    <2>3. stale' \in [Runner -> SUBSET LeaseRef]
      BY <1>0, <1>1, <2>2 DEF ExpireSelect, LocalTypes
    <2> QED BY <1>0, <1>1, <2>1, <2>3 DEF ExpireSelect, LocalTypes, PassLoopPc
  <1>2. ASSUME NEW r \in Runner, ExpireMark(r) PROVE LocalTypes'
    <2>1. PICK l \in stale[r] :
            \/ /\ pc' = [pc EXCEPT ![r] = "unlock"] /\ cur' = [cur EXCEPT ![r] = l]
               /\ stale' = [stale EXCEPT ![r] = @ \ {l}] /\ UNCHANGED <<old, overdue>>
            \/ Goto(r, "reaped") /\ stale' = [stale EXCEPT ![r] = {}]
      BY <1>2 DEF ExpireMark
    <2>2. l \in LeaseRef
      BY <1>0 DEF LocalTypes
    <2> QED BY <1>0, <1>2, <2>1, <2>2 DEF ExpireMark, Goto, LocalTypes, PassLoopPc
  <1>3. ASSUME NEW r \in Runner, ExpireDelete(r) PROVE LocalTypes'
    BY <1>0, <1>3 DEF ExpireDelete, Goto, Ok, Fault, LocalTypes, PassLoopPc, Exec
  <1>4. ASSUME NEW r \in Runner, ScheduleSelect(r) PROVE LocalTypes'
    BY <1>0, <1>4 DEF ScheduleSelect, LocalTypes, PassLoopPc, Exec
  <1>5. ASSUME NEW r \in Runner, ScheduleCreate(r) PROVE LocalTypes'
    BY <1>0, <1>5 DEF ScheduleCreate, Ok, Fault, LocalTypes, PassLoopPc, Exec
  <1>6. ASSUME NEW r \in Runner, ClaimSelect(r) PROVE LocalTypes'
    <2>1. UNION {EarliestPending(ty) : ty \in Type} \subseteq TaskId
      BY DEF EarliestPending, Rows
    <2>2. /\ found' \in [Runner -> SUBSET TaskId] /\ pc' \in [Runner -> PassLoopPc]
      BY <1>0, <1>6, <2>1 DEF ClaimSelect, LocalTypes, PassLoopPc
    <2> QED BY <1>0, <1>6, <2>2, Zenon DEF ClaimSelect, LocalTypes, exec
  <1>7. ASSUME NEW r \in Runner, ClaimRead(r) PROVE LocalTypes'
    <2>1. PICK t \in found[r] :
            /\ found' = [found EXCEPT ![r] = @ \ {t}]
            /\ \/ /\ pc' = [pc EXCEPT ![r] = "insert"] /\ cur' = [cur EXCEPT ![r] = Lease(t, r)]
                  /\ overdue' = [overdue EXCEPT ![r] = Expired] /\ UNCHANGED old
               \/ NextClaim(r, found[r] \ {t})
      BY <1>7 DEF ClaimRead
    <2>2. Lease(t, r) \in LeaseRef /\ Expired \subseteq Type
      BY <1>0 DEF LocalTypes, Lease, LeaseRef, Expired
    <2> QED BY <1>0, <1>7, <2>1, <2>2 DEF ClaimRead, NextClaim, Goto, LocalTypes, PassLoopPc
  <1>8. ASSUME NEW r \in Runner, LockInsert(r) PROVE LocalTypes'
    <2>1. overdue' \in [Runner -> SUBSET Type]
      BY <1>0, <1>8, OverdueType DEF LockInsert, WriteLease, LocalTypes
    <2> QED BY <1>0, <1>8, <2>1 DEF LockInsert, LocalTypes, PassLoopPc
  <1>9. ASSUME NEW r \in Runner, LockExisting(r) PROVE LocalTypes'
    BY <1>0, <1>9 DEF LockExisting, LeaseFree, NextClaim, Goto, Ok, Fault, LockRow, NoLock, NoTask, LocalTypes, PassLoopPc, Exec
  <1>10. ASSUME NEW r \in Runner, LockTakeover(r) PROVE LocalTypes'
    <2>1. overdue' \in [Runner -> SUBSET Type]
      BY <1>0, <1>10, OverdueType DEF LockTakeover, WriteLease, LocalTypes, NextClaim, Goto
    <2> QED BY <1>0, <1>10, <2>1 DEF LockTakeover, LocalTypes, PassLoopPc, NextClaim, Goto
  <1>11. ASSUME NEW r \in Runner, ClaimRetire(r) PROVE LocalTypes'
    BY <1>0, <1>11 DEF ClaimRetire, Ok, Fault, LocalTypes, PassLoopPc, Exec
  <1>12. ASSUME NEW r \in Runner, ClaimPromote(r) PROVE LocalTypes'
    BY <1>0, <1>12 DEF ClaimPromote, Ok, Fault, LocalTypes, PassLoopPc, Exec
  <1>13. ASSUME NEW r \in Runner, ClaimAbandon(r) PROVE LocalTypes'
    BY <1>0, <1>13 DEF ClaimAbandon, NextClaim, Goto, Ok, Fault, LocalTypes, PassLoopPc, Exec
  <1>14. ASSUME NEW r \in Runner, ClaimDispatch(r) PROVE LocalTypes'
    BY <1>0, <1>14 DEF ClaimDispatch, NextClaim, Goto, Ok, Fault, LocalTypes, PassLoopPc, Exec
  <1>15. ASSUME NEW r \in Runner, Crash(r) PROVE LocalTypes'
    BY <1>0, <1>15 DEF Crash, Goto, Fault, LocalTypes, PassLoopPc, Exec
  <1>16. ASSUME NEW r \in Runner, NEW t \in TaskId, RenewStart(r, t) PROVE LocalTypes'
    BY <1>0, <1>16 DEF RenewStart, Cancel, LocalTypes, PassLoopPc, Exec
  <1>17. ASSUME NEW r \in Runner, NEW t \in TaskId, RenewCommit(r, t) PROVE LocalTypes'
    <2>1. overdue' \in [Runner -> SUBSET Type]
      BY <1>0, <1>17, OverdueType DEF RenewCommit, LocalTypes
    <2> QED BY <1>0, <1>17, <2>1 DEF RenewCommit, Cancel, LocalTypes, Exec
  <1>18. ASSUME NEW r \in Runner, NEW t \in TaskId, FinishStart(r, t) PROVE LocalTypes'
    BY <1>0, <1>18 DEF FinishStart, HandlerEnds, LocalTypes, PassLoopPc, Exec
  <1>19. ASSUME NEW r \in Runner, NEW t \in TaskId, FinishCommit(r, t) PROVE LocalTypes'
    <2>1. handler' \in [Exec -> {"none", "running", "cancelled", "saving", "release", "ended"}]
      BY <1>0, <1>19 DEF FinishCommit, HandlerEnds, LocalTypes
    <2>2. beat' \in [Exec -> {"off", "on", "renewing"}]
      BY <1>0, <1>19 DEF FinishCommit, HandlerEnds, LocalTypes
    <2> QED BY <1>0, <1>19, <2>1, <2>2 DEF FinishCommit, LocalTypes, loop
  <1>20. ASSUME NEW r \in Runner, NEW t \in TaskId, FinishRelease(r, t) PROVE LocalTypes'
    BY <1>0, <1>20 DEF FinishRelease, HandlerEnds, Ok, Fault, LocalTypes, PassLoopPc, Exec
  <1>21. ASSUME NEW r \in Runner, NEW t \in TaskId, HandlerQuits(r, t) PROVE LocalTypes'
    BY <1>0, <1>21 DEF HandlerQuits, HandlerEnds, Fault, LocalTypes, PassLoopPc, Exec
  <1>22. ASSUME NEW ty \in Type, Enqueue(ty) PROVE LocalTypes'
    BY <1>0, <1>22 DEF Enqueue, LocalTypes, PassLoopPc, Exec
  <1>23. ASSUME NEW ty \in Type, LeaseExpires(ty) PROVE LocalTypes'
    BY <1>0, <1>23 DEF LeaseExpires, LocalTypes, PassLoopPc, Exec
  <1>24. ASSUME PurgeSelect PROVE LocalTypes'
    BY <1>0, <1>24 DEF PurgeSelect, Latest, Rows, LocalTypes, PassLoopPc, Exec
  <1>25. ASSUME PurgeDelete PROVE LocalTypes'
    BY <1>0, <1>25 DEF PurgeDelete, NoPurge, LocalTypes, PassLoopPc, Exec
  <1>26. CASE UNCHANGED vars
    BY <1>0, <1>26 DEF vars, LocalTypes
  <1> QED
    BY <1>1, <1>2, <1>3, <1>4, <1>5, <1>6, <1>7, <1>8, <1>9, <1>10, <1>11, <1>12, <1>13, <1>14, <1>15, <1>16, <1>17, <1>18, <1>19, <1>20, <1>21, <1>22, <1>23, <1>24, <1>25, <1>26, Zenon
    DEF Next, PassStep, Heartbeat, Finish

\* Locals name rows that have been inserted.
LEMMA ShapeStep ==
  ASSUME TypeOK, Shape, [Next]_vars
  PROVE  CurShape' /\ ListShape' /\ BeatShape'
  <1> USE DEF loop, exec
  <1> DEFINE Goal == CurShape' /\ ListShape' /\ BeatShape'
  <1>0. /\ LocalTypes /\ lock \in [Type -> LockRow \cup {NoLock}]
        /\ LockShape /\ CurShape /\ ListShape /\ BeatShape
    BY DEF TypeOK, Shape, LocalTypes
  <1>00. \A t \in TaskId : task[t].type \in Type => task'[t].type \in Type
    BY RowStable DEF Inserted
  <1>1. ASSUME NEW r \in Runner, ExpireSelect(r) PROVE Goal
    <2>1. CurShape' /\ ListShape'
      BY <1>0, <1>00, <1>1 DEF ExpireSelect, Expired, Lease, LockRow, LocalTypes, LockShape, CurShape, ListShape, Inserted, PreLock, PostLock
    <2>2. BeatShape'
      BY <1>0, <1>1 DEF ExpireSelect, Expired, Lease, LockRow, LocalTypes, BeatShape, Exec
    <2> QED BY <2>1, <2>2
  <1>2. ASSUME NEW r \in Runner, ExpireMark(r) PROVE Goal
    <2>1. CurShape' /\ ListShape'
      BY <1>0, <1>00, <1>2 DEF ExpireMark, Goto, LeaseRef, LocalTypes, LockShape, CurShape, ListShape, Inserted, PreLock, PostLock
    <2>2. BeatShape'
      BY <1>0, <1>2 DEF ExpireMark, Goto, LeaseRef, LocalTypes, BeatShape, Exec
    <2> QED BY <2>1, <2>2
  <1>3. ASSUME NEW r \in Runner, ExpireDelete(r) PROVE Goal
    <2>1. CurShape' /\ ListShape'
      BY <1>0, <1>00, <1>3 DEF ExpireDelete, Goto, LocalTypes, LockShape, CurShape, ListShape, Inserted, PreLock, PostLock
    <2>2. BeatShape'
      BY <1>0, <1>3 DEF ExpireDelete, Goto, LocalTypes, BeatShape, Exec
    <2> QED BY <2>1, <2>2
  <1>4. ASSUME NEW r \in Runner, ScheduleSelect(r) PROVE Goal
    <2>1. CurShape' /\ ListShape'
      BY <1>0, <1>00, <1>4 DEF ScheduleSelect, LocalTypes, LockShape, CurShape, ListShape, Inserted, PreLock, PostLock
    <2>2. BeatShape'
      BY <1>0, <1>4 DEF ScheduleSelect, LocalTypes, BeatShape, Exec
    <2> QED BY <2>1, <2>2
  <1>5. ASSUME NEW r \in Runner, ScheduleCreate(r) PROVE Goal
    <2>1. CurShape' /\ ListShape'
      BY <1>0, <1>00, <1>5 DEF ScheduleCreate, LocalTypes, LockShape, CurShape, ListShape, Inserted, PreLock, PostLock
    <2>2. BeatShape'
      BY <1>0, <1>5 DEF ScheduleCreate, LocalTypes, BeatShape, Exec
    <2> QED BY <2>1, <2>2
  <1>6. ASSUME NEW r \in Runner, ClaimSelect(r) PROVE Goal
    <2>1. CurShape' /\ ListShape'
      BY <1>0, <1>00, <1>6 DEF ClaimSelect, EarliestPending, Rows, LocalTypes, LockShape, CurShape, ListShape, Inserted, PreLock, PostLock
    <2>2. BeatShape'
      BY <1>0, <1>6 DEF ClaimSelect, EarliestPending, Rows, LocalTypes, BeatShape, Exec
    <2> QED BY <2>1, <2>2
  <1>7. ASSUME NEW r \in Runner, ClaimRead(r) PROVE Goal
    <2>1. CurShape' /\ ListShape'
      BY <1>0, <1>00, <1>7 DEF ClaimRead, NextClaim, Goto, Lease, LocalTypes, LockShape, CurShape, ListShape, Inserted, PreLock, PostLock
    <2>2. BeatShape'
      BY <1>0, <1>7 DEF ClaimRead, NextClaim, Goto, Lease, LocalTypes, BeatShape, Exec
    <2> QED BY <2>1, <2>2
  <1>8. ASSUME NEW r \in Runner, LockInsert(r) PROVE Goal
    <2>1. CurShape' /\ ListShape'
      BY <1>0, <1>00, <1>8 DEF LockInsert, LocalTypes, LockShape, CurShape, ListShape, Inserted, PreLock, PostLock
    <2>2. BeatShape'
      BY <1>0, <1>8 DEF LockInsert, LocalTypes, BeatShape, Exec
    <2> QED BY <2>1, <2>2
  <1>9. ASSUME NEW r \in Runner, LockExisting(r) PROVE Goal
    <2>1. CurShape' /\ ListShape'
      BY <1>0, <1>00, <1>9 DEF LockExisting, LeaseFree, NextClaim, Goto, LockRow, LocalTypes, LockShape, CurShape, ListShape, Inserted, PreLock, PostLock
    <2>2. BeatShape'
      BY <1>0, <1>9 DEF LockExisting, NextClaim, Goto, LockRow, LocalTypes, BeatShape, Exec
    <2> QED BY <2>1, <2>2
  <1>10. ASSUME NEW r \in Runner, LockTakeover(r) PROVE Goal
    <2>1. CurShape' /\ ListShape'
      BY <1>0, <1>00, <1>10 DEF LockTakeover, NextClaim, Goto, LocalTypes, LockShape, CurShape, ListShape, Inserted, PreLock, PostLock
    <2>2. BeatShape'
      BY <1>0, <1>10 DEF LockTakeover, NextClaim, Goto, LocalTypes, BeatShape, Exec
    <2> QED BY <2>1, <2>2
  <1>11. ASSUME NEW r \in Runner, ClaimRetire(r) PROVE Goal
    <2>1. CurShape' /\ ListShape'
      BY <1>0, <1>00, <1>11 DEF ClaimRetire, LocalTypes, LockShape, CurShape, ListShape, Inserted, PreLock, PostLock
    <2>2. BeatShape'
      BY <1>0, <1>11 DEF ClaimRetire, LocalTypes, BeatShape, Exec
    <2> QED BY <2>1, <2>2
  <1>12. ASSUME NEW r \in Runner, ClaimPromote(r) PROVE Goal
    <2>1. CurShape' /\ ListShape'
      BY <1>0, <1>00, <1>12 DEF ClaimPromote, LocalTypes, LockShape, CurShape, ListShape, Inserted, PreLock, PostLock
    <2>2. BeatShape'
      BY <1>0, <1>12 DEF ClaimPromote, LocalTypes, BeatShape, Exec
    <2> QED BY <2>1, <2>2
  <1>13. ASSUME NEW r \in Runner, ClaimAbandon(r) PROVE Goal
    <2>1. CurShape' /\ ListShape'
      BY <1>0, <1>00, <1>13 DEF ClaimAbandon, NextClaim, Goto, LocalTypes, LockShape, CurShape, ListShape, Inserted, PreLock, PostLock
    <2>2. BeatShape'
      BY <1>0, <1>13 DEF ClaimAbandon, NextClaim, Goto, LocalTypes, BeatShape, Exec
    <2> QED BY <2>1, <2>2
  <1>14. ASSUME NEW r \in Runner, ClaimDispatch(r) PROVE Goal
    <2>1. CurShape' /\ ListShape'
      BY <1>0, <1>00, <1>14 DEF ClaimDispatch, NextClaim, Goto, LocalTypes, LockShape, CurShape, ListShape, Inserted, PreLock, PostLock
    <2>2. BeatShape'
      BY <1>0, <1>14 DEF ClaimDispatch, NextClaim, Goto, LocalTypes, BeatShape, Exec
    <2> QED BY <2>1, <2>2
  <1>15. ASSUME NEW r \in Runner, Crash(r) PROVE Goal
    <2>1. CurShape' /\ ListShape'
      BY <1>0, <1>00, <1>15 DEF Crash, Goto, LocalTypes, LockShape, CurShape, ListShape, Inserted, PreLock, PostLock
    <2>2. BeatShape'
      BY <1>0, <1>15 DEF Crash, Goto, LocalTypes, BeatShape, Exec
    <2> QED BY <2>1, <2>2
  <1>16. ASSUME NEW r \in Runner, NEW t \in TaskId, RenewStart(r, t) PROVE Goal
    <2>1. CurShape' /\ ListShape'
      BY <1>0, <1>00, <1>16 DEF RenewStart, Cancel, LocalTypes, LockShape, CurShape, ListShape, Inserted, PreLock, PostLock
    <2>2. BeatShape'
      BY <1>0, <1>16 DEF RenewStart, Cancel, LocalTypes, BeatShape, Exec
    <2> QED BY <2>1, <2>2
  <1>17. ASSUME NEW r \in Runner, NEW t \in TaskId, RenewCommit(r, t) PROVE Goal
    <2>1. CurShape' /\ ListShape'
      BY <1>0, <1>00, <1>17 DEF RenewCommit, Cancel, LocalTypes, LockShape, CurShape, ListShape, Inserted, PreLock, PostLock
    <2>2. BeatShape'
      BY <1>0, <1>17 DEF RenewCommit, Cancel, LocalTypes, BeatShape, Exec
    <2> QED BY <2>1, <2>2
  <1>18. ASSUME NEW r \in Runner, NEW t \in TaskId, FinishStart(r, t) PROVE Goal
    <2>1. CurShape' /\ ListShape'
      BY <1>0, <1>00, <1>18 DEF FinishStart, HandlerEnds, LocalTypes, LockShape, CurShape, ListShape, Inserted, PreLock, PostLock
    <2>2. BeatShape'
      BY <1>0, <1>18 DEF FinishStart, HandlerEnds, LocalTypes, BeatShape, Exec
    <2> QED BY <2>1, <2>2
  <1>19. ASSUME NEW r \in Runner, NEW t \in TaskId, FinishCommit(r, t) PROVE Goal
    <2>1. CurShape' /\ ListShape'
      BY <1>0, <1>00, <1>19 DEF FinishCommit, HandlerEnds, LocalTypes, LockShape, CurShape, ListShape, Inserted, PreLock, PostLock
    <2>2. BeatShape'
      BY <1>0, <1>19 DEF FinishCommit, HandlerEnds, LocalTypes, BeatShape, Exec
    <2> QED BY <2>1, <2>2
  <1>20. ASSUME NEW r \in Runner, NEW t \in TaskId, FinishRelease(r, t) PROVE Goal
    <2>1. CurShape' /\ ListShape'
      BY <1>0, <1>00, <1>20 DEF FinishRelease, HandlerEnds, LocalTypes, LockShape, CurShape, ListShape, Inserted, PreLock, PostLock
    <2>2. BeatShape'
      BY <1>0, <1>20 DEF FinishRelease, HandlerEnds, LocalTypes, BeatShape, Exec
    <2> QED BY <2>1, <2>2
  <1>21. ASSUME NEW r \in Runner, NEW t \in TaskId, HandlerQuits(r, t) PROVE Goal
    <2>1. CurShape' /\ ListShape'
      BY <1>0, <1>00, <1>21 DEF HandlerQuits, HandlerEnds, LocalTypes, LockShape, CurShape, ListShape, Inserted, PreLock, PostLock
    <2>2. BeatShape'
      BY <1>0, <1>21 DEF HandlerQuits, HandlerEnds, LocalTypes, BeatShape, Exec
    <2> QED BY <2>1, <2>2
  <1>22. ASSUME NEW ty \in Type, Enqueue(ty) PROVE Goal
    <2>1. CurShape' /\ ListShape'
      BY <1>0, <1>00, <1>22 DEF Enqueue, LocalTypes, LockShape, CurShape, ListShape, Inserted, PreLock, PostLock
    <2>2. BeatShape'
      BY <1>0, <1>22 DEF Enqueue, LocalTypes, BeatShape, Exec
    <2> QED BY <2>1, <2>2
  <1>23. ASSUME NEW ty \in Type, LeaseExpires(ty) PROVE Goal
    <2>1. CurShape' /\ ListShape'
      BY <1>0, <1>00, <1>23 DEF LeaseExpires, LocalTypes, LockShape, CurShape, ListShape, Inserted, PreLock, PostLock
    <2>2. BeatShape'
      BY <1>0, <1>23 DEF LeaseExpires, LocalTypes, BeatShape, Exec
    <2> QED BY <2>1, <2>2
  <1>24. ASSUME PurgeSelect PROVE Goal
    <2>1. CurShape' /\ ListShape'
      BY <1>0, <1>00, <1>24 DEF PurgeSelect, LocalTypes, LockShape, CurShape, ListShape, Inserted, PreLock, PostLock
    <2>2. BeatShape'
      BY <1>0, <1>24 DEF PurgeSelect, LocalTypes, BeatShape, Exec
    <2> QED BY <2>1, <2>2
  <1>25. ASSUME PurgeDelete PROVE Goal
    <2>1. CurShape' /\ ListShape'
      BY <1>0, <1>00, <1>25 DEF PurgeDelete, LocalTypes, LockShape, CurShape, ListShape, Inserted, PreLock, PostLock
    <2>2. BeatShape'
      BY <1>0, <1>25 DEF PurgeDelete, LocalTypes, BeatShape, Exec
    <2> QED BY <2>1, <2>2
  <1>26. CASE UNCHANGED vars
    BY <1>0, <1>00, <1>26 DEF vars, LocalTypes, CurShape, ListShape, BeatShape, Inserted
  <1> QED
    BY <1>1, <1>2, <1>3, <1>4, <1>5, <1>6, <1>7, <1>8, <1>9, <1>10, <1>11, <1>12, <1>13, <1>14, <1>15, <1>16, <1>17, <1>18, <1>19, <1>20, <1>21, <1>22, <1>23, <1>24, <1>25, <1>26, Zenon
    DEF Next, PassStep, Heartbeat, Finish

\* Only DeleteSystemTaskHistory touches its snapshot.
LEMMA HistStep ==
  ASSUME [Next]_vars
  PROVE  UNCHANGED hist \/ PurgeSelect \/ PurgeDelete
  <1>1. ASSUME NEW r \in Runner, PassStep(r) PROVE UNCHANGED hist
    BY <1>1, Zenon
    DEF PassStep, ExpireSelect, ExpireMark, ExpireDelete, ScheduleSelect, ScheduleCreate,
        ClaimSelect, ClaimRead, LockInsert, LockExisting, LockTakeover, ClaimRetire,
        ClaimPromote, ClaimAbandon, ClaimDispatch
  <1>2. ASSUME NEW r \in Runner, NEW t \in TaskId,
               Heartbeat(r, t) \/ Finish(r, t) \/ HandlerQuits(r, t)
        PROVE  UNCHANGED hist
    BY <1>2, Zenon
    DEF Heartbeat, Finish, RenewStart, RenewCommit, FinishStart, FinishCommit,
        FinishRelease, HandlerQuits
  <1> QED BY <1>1, <1>2, Zenon DEF Next, vars, Crash, Enqueue, LeaseExpires

\* The bounded counters and the snapshot of the history keep their types.
LEMMA CounterStep ==
  ASSUME TypeOK, [Next]_vars
  PROVE  /\ purge' \in [keep : SUBSET TaskId, newest : TaskId \cup {NoTask}]
         /\ purges' \in 0..MaxPurges
         /\ faults' \in 0..MaxFaults
  <1> USE DEF hist
  <1>0. /\ purge \in [keep : SUBSET TaskId, newest : TaskId \cup {NoTask}]
        /\ purges \in 0..MaxPurges
        /\ faults \in 0..MaxFaults
    BY DEF TypeOK
  <1>1. faults' = faults \/ (faults < MaxFaults /\ faults' = faults + 1)
    <2>1. ASSUME NEW r \in Runner, PassStep(r) PROVE UNCHANGED faults \/ Fault
      BY <2>1
      DEF PassStep, ExpireSelect, ExpireMark, ExpireDelete, ScheduleSelect, ScheduleCreate,
          ClaimSelect, ClaimRead, LockInsert, LockExisting, LockTakeover, ClaimRetire,
          ClaimPromote, ClaimAbandon, ClaimDispatch, Ok
    <2>2. ASSUME NEW r \in Runner, NEW t \in TaskId,
                 Heartbeat(r, t) \/ Finish(r, t) \/ HandlerQuits(r, t)
          PROVE  UNCHANGED faults \/ Fault
      BY <2>2
      DEF Heartbeat, Finish, RenewStart, RenewCommit, FinishStart, FinishCommit,
          FinishRelease, HandlerQuits, Ok
    <2> QED BY <2>1, <2>2 DEF Next, vars, Crash, Enqueue, LeaseExpires, PurgeSelect,
                              PurgeDelete, Fault
  <1>3. CASE PurgeSelect
    <2>1. \A ty \in Type : Latest(ty) \subseteq TaskId
      BY DEF Latest, Rows
    <2> QED BY <1>0, <1>1, <1>3, <2>1, BoundsAssumption DEF PurgeSelect
  <1>4. CASE PurgeDelete
    BY <1>0, <1>1, <1>4, BoundsAssumption DEF PurgeDelete, NoPurge
  <1>5. CASE UNCHANGED hist
    BY <1>0, <1>1, <1>5, BoundsAssumption
  <1> QED BY <1>3, <1>4, <1>5, HistStep

\* TypeOK and Shape are preserved by every step.
LEMMA TypeStep ==
  ASSUME TypeOK, Shape, [Next]_vars
  PROVE  TypeOK' /\ Shape'
  <1>1. TypeOK'
    BY TaskEvolves, LockStable, LocalStep, CounterStep DEF TypeOK, LocalTypes
  <1>2. Shape'
    BY RowStable, LockStable, ShapeStep DEF Shape
  <1> QED BY <1>1, <1>2

\* The tables and the locals of every process are well formed in every
\* reachable state.
THEOREM TypeCorrect == Spec => []TypeOK
  <1>1. TypeOK /\ Shape /\ [Next]_vars => TypeOK' /\ Shape'
    BY TypeStep
  <1> QED BY <1>1, TypeInit, PTL DEF Spec

\* Tables and locals are well formed, and what they name exists, in every reachable state.
LEMMA TypeInvariant == Spec => [](TypeOK /\ Shape)
  <1>1. TypeOK /\ Shape /\ [Next]_vars => TypeOK' /\ Shape'
    BY TypeStep
  <1> QED BY <1>1, TypeInit, PTL DEF Spec

-----------------------------------------------------------------------------
(* Terminal rows.                                                          *)

\* A terminal row never changes again except by being purged: no late handler,
\* reaper or claim revives it or overwrites its result.
THEOREM TerminalCorrect == Spec => TerminalIsFinal
  <1>1. TypeOK /\ Shape /\ [Next]_vars =>
          [\A t \in TaskId : task[t].status \in Terminal =>
              task'[t].status \in {task[t].status, "deleted"}]_vars
    <2> SUFFICES ASSUME TypeOK, Shape, [Next]_vars, NEW t \in TaskId,
                        task[t].status \in Terminal
                 PROVE  task'[t].status \in {task[t].status, "deleted"}
      OBVIOUS
    <2>1. Evolves(t)
      BY TaskEvolves
    <2> QED BY <2>1 DEF Evolves, Row, Terminal
  <1> QED BY <1>1, TypeInvariant, PTL DEF Spec, TerminalIsFinal

-----------------------------------------------------------------------------
(* The active key.                                                         *)

\* Only an insert creates a key.
LEMMA KeyStep ==
  ASSUME TypeOK, Shape, [Next]_vars
  PROVE  \/ \A t \in TaskId : task'[t].key => task[t].key
         \/ \E ty \in Type : Insert(ty)
  <1> DEFINE Goal == \/ \A t \in TaskId : task'[t].key => task[t].key
                     \/ \E ty \in Type : Insert(ty)
  <1>1. ASSUME \A t \in TaskId : task[t].status # "absent" \/ task'[t] = task[t]
        PROVE  Goal
    <2>1. ASSUME NEW t \in TaskId, task'[t].key PROVE task[t].key
      <3>1. Evolves(t) /\ (task[t].status # "absent" \/ task'[t] = task[t])
        BY <1>1, TaskEvolves
      <3>2. CASE task'[t] = task[t]
        BY <2>1, <3>2
      <3>3. CASE \E r \in Runner : task'[t] = Row("running", task[t].type, task[t].key, r)
        BY <2>1, <3>3 DEF Row
      <3>4. CASE \E s \in Terminal : task'[t] = Row(s, task[t].type, FALSE, task[t].by)
        BY <2>1, <3>4 DEF Row
      <3>5. CASE task'[t] = Row("deleted", task[t].type, FALSE, task[t].by)
        BY <2>1, <3>5 DEF Row
      <3> QED BY <3>1, <3>2, <3>3, <3>4, <3>5, Zenon DEF Evolves
    <2> QED BY <2>1
  <1>2. ASSUME NEW r \in Runner, ScheduleCreate(r) PROVE Goal
    <2>1. PICK ty \in due[r] : Insert(ty) \/ task' = task
      BY <1>2 DEF ScheduleCreate
    <2>2. ty \in Type
      BY <2>1 DEF TypeOK
    <2> QED BY <2>1, <2>2
  <1>3. ASSUME NEW ty \in Type, Enqueue(ty) PROVE Goal
    BY <1>3 DEF Enqueue
  <1>4. ASSUME NEW t \in TaskId, task' = MarkLeaseExpired(t) PROVE Goal
    BY <1>1, <1>4 DEF MarkLeaseExpired, TypeOK
  <1>5. ASSUME NEW r \in Runner, ExpireMark(r) PROVE Goal
    <2>1. PICK l \in stale[r] : task' = MarkLeaseExpired(l.task) \/ task' = task
      BY <1>5 DEF ExpireMark
    <2>2. l.task \in TaskId
      BY <2>1 DEF TypeOK, LeaseRef
    <2> QED BY <1>1, <1>4, <2>1, <2>2
  <1>6. ASSUME NEW r \in Runner, ClaimRetire(r) PROVE Goal
    <2>1. old[r] \in TaskId
      BY <1>6 DEF ClaimRetire, Shape, CurShape
    <2> QED BY <1>1, <1>4, <1>6, <2>1 DEF ClaimRetire
  <1>7. ASSUME NEW r \in Runner, ClaimPromote(r) PROVE Goal
    <2>1. cur[r].task \in TaskId
      BY <1>7 DEF ClaimPromote, Shape, CurShape, PostLock, Inserted
    <2> QED BY <1>1, <1>7, <2>1 DEF ClaimPromote, TypeOK
  <1>8. ASSUME NEW r \in Runner, NEW t \in TaskId, FinishCommit(r, t) PROVE Goal
    BY <1>1, <1>8 DEF FinishCommit, TypeOK
  <1>9. ASSUME PurgeDelete PROVE Goal
    BY <1>1, <1>9 DEF PurgeDelete, Terminal
  <1>10. ASSUME task' = task PROVE Goal
    BY <1>10
  <1>11. ASSUME NEW r \in Runner, PassStep(r) PROVE Goal
    BY <1>2, <1>5, <1>6, <1>7, <1>10, <1>11, Zenon
    DEF PassStep, ExpireSelect, ExpireDelete, ScheduleSelect, ClaimSelect, ClaimRead,
        LockInsert, LockExisting, LockTakeover, ClaimAbandon, ClaimDispatch
  <1>12. ASSUME NEW r \in Runner, NEW t \in TaskId,
                Heartbeat(r, t) \/ Finish(r, t) \/ HandlerQuits(r, t)
         PROVE  Goal
    BY <1>8, <1>10, <1>12, Zenon
    DEF Heartbeat, Finish, RenewStart, RenewCommit, FinishStart, FinishRelease, HandlerQuits
  <1> QED
    BY <1>3, <1>9, <1>10, <1>11, <1>12, Zenon
    DEF Next, vars, Crash, LeaseExpires, PurgeSelect

\* active_key is exact after a step if it was before it.
LEMMA ActiveKeyStep ==
  ASSUME TypeOK, Shape, ActiveKeyExact, [Next]_vars
  PROVE  ActiveKeyExact'
  <1>1. \A t \in TaskId : Evolves(t)
    BY TaskEvolves
  <1>2. CASE \A t \in TaskId : task'[t].key => task[t].key
    <2>1. ASSUME NEW t \in TaskId
          PROVE  /\ task'[t].key => task'[t].status \in Active
                 /\ t \notin DOMAIN Legacy => (task'[t].status \in Active => task'[t].key)
      <3>1. /\ task[t].key => task[t].status \in Active
            /\ t \notin DOMAIN Legacy => (task[t].status \in Active => task[t].key)
        BY DEF ActiveKeyExact
      <3>2. CASE task'[t] = task[t]
        BY <3>1, <3>2
      <3>3. CASE /\ task[t].status = "absent"
                 /\ \E ty \in Type : task'[t] = Row("pending", ty, TRUE, NoRunner)
        BY <3>3 DEF Row, Active
      <3>4. CASE /\ task[t].status = "pending"
                 /\ \E r \in Runner : task'[t] = Row("running", task[t].type, task[t].key, r)
        BY <3>1, <3>4 DEF Row, Active
      <3>5. CASE \E s \in Terminal : task'[t] = Row(s, task[t].type, FALSE, task[t].by)
        BY <3>5 DEF Row, Active, Terminal
      <3>6. CASE task'[t] = Row("deleted", task[t].type, FALSE, task[t].by)
        BY <3>6 DEF Row, Active
      <3> QED BY <1>1, <3>2, <3>3, <3>4, <3>5, <3>6, Zenon DEF Evolves
    <2>2. ASSUME NEW t \in TaskId, NEW u \in TaskId \ {t}, task'[t].key, task'[u].key
          PROVE  task'[t].type # task'[u].type
      <3>1. task[t].key /\ task[u].key
        BY <1>2, <2>2
      <3>2. task'[t].type = task[t].type /\ task'[u].type = task[u].type
        <4>1. \A x \in TaskId : task[x].key => Inserted(x)
          BY DEF ActiveKeyExact, Active, Shape, RowShape, TypeOK, TaskRow, Inserted
        <4> QED BY <3>1, <4>1, RowStable
      <3> QED BY <3>1, <3>2 DEF ActiveKeyExact
    <2> QED BY <2>1, <2>2 DEF ActiveKeyExact
  <1>3. CASE \E ty \in Type : Insert(ty)
    <2>1. PICK ty \in Type, x \in TaskId :
            /\ task[x].status = "absent" /\ KeyFree(ty)
            /\ task' = [task EXCEPT ![x] = Row("pending", ty, TRUE, NoRunner)]
      BY <1>3 DEF Insert, PendingRow
    <2>2. \A t \in TaskId \ {x} : task'[t] = task[t]
      BY <2>1 DEF TypeOK
    <2>3. task'[x].status = "pending" /\ task'[x].type = ty /\ task'[x].key
      BY <2>1 DEF TypeOK, Row
    <2>4. \A t \in TaskId : task[t].key => task[t].type # ty
      BY <2>1 DEF KeyFree
    <2> QED BY <2>2, <2>3, <2>4 DEF ActiveKeyExact, Active
  <1> QED BY <1>2, <1>3, KeyStep

\* Only active rows hold active_key, all of them that are not legacy rows do,
\* and no two rows of a type do, whatever the runners, the administrators and
\* the failures do: two concurrent creations never give two active runs, and a
\* row that ends, by any path, frees the key for the next run.
THEOREM ActiveKeyCorrect == Spec => []ActiveKeyExact
  <1>1. Init => ActiveKeyExact
    BY LegacyFacts DEF Init, ActiveKeyExact, AbsentRow, PendingRow, Row, Active
  <1>2. TypeOK /\ Shape /\ ActiveKeyExact /\ [Next]_vars => ActiveKeyExact'
    BY ActiveKeyStep
  <1> QED BY <1>1, <1>2, TypeInvariant, PTL DEF Spec

-----------------------------------------------------------------------------
(* Dispatching.                                                            *)

\* A row that has been promoted keeps its owner and is never pending again.
LEMMA OwnerStable ==
  ASSUME TypeOK, Shape, [Next]_vars, NEW t \in TaskId,
         task[t].status \notin {"absent", "pending"}
  PROVE  task'[t].by = task[t].by /\ task'[t].status \notin {"absent", "pending"}
  <1>1. Evolves(t)
    BY TaskEvolves
  <1> QED BY <1>1 DEF Evolves, Row, Terminal

\* Only ClaimDispatch starts a handler.
LEMMA HandlerStep ==
  ASSUME TypeOK, Shape, [Next]_vars, NEW r \in Runner, NEW t \in TaskId,
         handler'[<<r, t>>] # "none"
  PROVE  handler[<<r, t>>] # "none" \/ (pc[r] = "dispatch" /\ cur[r].task = t)
  <1> DEFINE Goal == handler[<<r, t>>] # "none" \/ (pc[r] = "dispatch" /\ cur[r].task = t)
  <1>0. /\ handler = [e \in Exec |-> handler[e]] /\ <<r, t>> \in Exec
        /\ \A s \in Runner, u \in TaskId : <<s, u>> \in Exec /\ (<<s, u>> = <<r, t>> => s = r /\ u = t)
    BY DEF TypeOK, Exec
  <1>1. ASSUME handler' = handler PROVE Goal
    BY <1>1
  <1>2. ASSUME NEW s \in Runner, ClaimDispatch(s) PROVE Goal
    <2>1. pc[s] = "dispatch" /\ cur[s].task \in TaskId
      BY <1>2 DEF ClaimDispatch, Shape, CurShape, Inserted
    <2>2. CASE handler' = [handler EXCEPT ![<<s, cur[s].task>>] = "running"]
      BY <1>0, <2>1, <2>2
    <2> QED BY <1>1, <1>2, <2>2 DEF ClaimDispatch
  <1>3. ASSUME NEW s \in Runner, NEW u \in TaskId, handler[<<s, u>>] # "none",
               HandlerEnds(<<s, u>>)
        PROVE  Goal
    BY <1>0, <1>3 DEF HandlerEnds
  <1>4. ASSUME NEW s \in Runner, NEW u \in TaskId, Cancel(<<s, u>>) PROVE Goal
    BY <1>0, <1>4 DEF Cancel
  <1>5. ASSUME NEW s \in Runner, NEW u \in TaskId, Heartbeat(s, u) PROVE Goal
    BY <1>1, <1>4, <1>5, Zenon DEF Heartbeat, RenewStart, RenewCommit
  <1>6. ASSUME NEW s \in Runner, NEW u \in TaskId, FinishStart(s, u) PROVE Goal
    <2>1. handler[<<s, u>>] # "none"
      BY <1>6 DEF FinishStart
    <2>2. CASE handler' = [handler EXCEPT ![<<s, u>>] = "saving"]
      BY <1>0, <2>1, <2>2
    <2> QED BY <1>3, <1>6, <2>1, <2>2 DEF FinishStart
  <1>7. ASSUME NEW s \in Runner, NEW u \in TaskId, FinishCommit(s, u) PROVE Goal
    <2>1. handler[<<s, u>>] # "none"
      BY <1>7 DEF FinishCommit
    <2>2. CASE handler' = [handler EXCEPT ![<<s, u>>] = "release"]
      BY <1>0, <2>1, <2>2
    <2> QED BY <1>3, <1>7, <2>1, <2>2 DEF FinishCommit
  <1>8. ASSUME NEW s \in Runner, NEW u \in TaskId, FinishRelease(s, u) PROVE Goal
    BY <1>3, <1>8 DEF FinishRelease
  <1>9. ASSUME NEW s \in Runner, NEW u \in TaskId, HandlerQuits(s, u) PROVE Goal
    BY <1>3, <1>9 DEF HandlerQuits
  <1>10. ASSUME NEW s \in Runner, Crash(s) PROVE Goal
    BY <1>0, <1>10 DEF Crash
  <1>11. ASSUME NEW s \in Runner, PassStep(s) PROVE Goal
    BY <1>1, <1>2, <1>11, Zenon
    DEF PassStep, ExpireSelect, ExpireMark, ExpireDelete, ScheduleSelect, ScheduleCreate,
        ClaimSelect, ClaimRead, LockInsert, LockExisting, LockTakeover, ClaimRetire,
        ClaimPromote, ClaimAbandon, exec
  <1>12. ASSUME \/ UNCHANGED vars \/ PurgeSelect \/ PurgeDelete
                \/ \E ty \in Type : Enqueue(ty) \/ LeaseExpires(ty)
         PROVE  Goal
    BY <1>1, <1>12, Zenon DEF vars, exec, PurgeSelect, PurgeDelete, Enqueue, LeaseExpires
  <1> QED
    BY <1>5, <1>6, <1>7, <1>8, <1>9, <1>10, <1>11, <1>12, Zenon DEF Next, Finish

\* A runner gets to the dispatch of a task by promoting it, and stays with it.
LEMMA DispatchStep ==
  ASSUME TypeOK, Shape, [Next]_vars, NEW r \in Runner, pc'[r] = "dispatch"
  PROVE  /\ cur'[r] = cur[r] /\ cur[r].task \in TaskId
         /\ \/ pc[r] = "dispatch"
            \/ task'[cur[r].task].by = r /\ task'[cur[r].task].status = "running"
  <1> DEFINE Goal == /\ cur'[r] = cur[r] /\ cur[r].task \in TaskId
                     /\ \/ pc[r] = "dispatch"
                        \/ task'[cur[r].task].by = r /\ task'[cur[r].task].status = "running"
  <1>0. /\ pc = [s \in Runner |-> pc[s]] /\ cur = [s \in Runner |-> cur[s]]
        /\ pc[r] \in {"dispatch", "promote"} => cur[r].task \in TaskId
    BY DEF TypeOK, Shape, CurShape, Inserted, PostLock
  <1>1. ASSUME pc' = pc, cur' = cur PROVE Goal
    BY <1>0, <1>1
  <1>2. ASSUME NEW s \in Runner, NEW p \in PassLoopPc \ {"dispatch"},
               pc' = [pc EXCEPT ![s] = p], NEW c, cur' = [cur EXCEPT ![s] = c]
        PROVE  Goal
    BY <1>0, <1>2
  <1>3. ASSUME NEW s \in Runner, NEW p \in PassLoopPc \ {"dispatch"},
               pc' = [pc EXCEPT ![s] = p], cur' = cur
        PROVE  Goal
    BY <1>0, <1>3
  <1>4. ASSUME NEW s \in Runner, NEW p \in PassLoopPc \ {"dispatch"}, Goto(s, p) PROVE Goal
    BY <1>2, <1>4 DEF Goto
  <1>5. ASSUME NEW s \in Runner, ClaimPromote(s) PROVE Goal
    <2>1. CASE pc' = [pc EXCEPT ![s] = "abandon"]
      BY <1>3, <1>5, <2>1 DEF ClaimPromote, PassLoopPc
    <2>2. CASE LET t == cur[s].task IN
               /\ task' = [task EXCEPT ![t] = Row("running", task[t].type, task[t].key, s)]
               /\ pc' = [pc EXCEPT ![s] = "dispatch"]
      <3>1. cur[s].task \in TaskId /\ cur' = cur
        BY <1>5 DEF ClaimPromote, Shape, CurShape, Inserted, PostLock
      <3>2. task'[cur[s].task] = Row("running", task[cur[s].task].type, task[cur[s].task].key, s)
        BY <2>2, <3>1 DEF TypeOK
      <3> QED BY <1>0, <2>2, <3>1, <3>2 DEF Row
    <2> QED BY <1>5, <2>1, <2>2 DEF ClaimPromote
  <1>6. ASSUME NEW s \in Runner, ExpireSelect(s) \/ ScheduleSelect(s) \/ ClaimSelect(s) PROVE Goal
    BY <1>3, <1>6 DEF ExpireSelect, ScheduleSelect, ClaimSelect, PassLoopPc
  <1>7. ASSUME NEW s \in Runner, ExpireMark(s) PROVE Goal
    BY <1>2, <1>4, <1>7 DEF ExpireMark, PassLoopPc
  <1>8. ASSUME NEW s \in Runner, ExpireDelete(s) PROVE Goal
    BY <1>3, <1>4, <1>8 DEF ExpireDelete, PassLoopPc
  <1>9. ASSUME NEW s \in Runner, ScheduleCreate(s) PROVE Goal
    <2>1. pc[s] = "create"
      BY <1>9 DEF ScheduleCreate
    <2> QED BY <1>0, <1>9, <2>1 DEF ScheduleCreate
  <1>10. ASSUME NEW s \in Runner, ClaimRead(s) PROVE Goal
    BY <1>2, <1>4, <1>10 DEF ClaimRead, NextClaim, PassLoopPc
  <1>11. ASSUME NEW s \in Runner, LockInsert(s) \/ ClaimRetire(s) PROVE Goal
    BY <1>3, <1>11 DEF LockInsert, ClaimRetire, PassLoopPc
  <1>12. ASSUME NEW s \in Runner, LockExisting(s) \/ LockTakeover(s) PROVE Goal
    BY <1>3, <1>4, <1>12 DEF LockExisting, LockTakeover, LeaseFree, NextClaim, PassLoopPc
  <1>13. ASSUME NEW s \in Runner, ClaimAbandon(s) \/ ClaimDispatch(s) \/ Crash(s) PROVE Goal
    BY <1>4, <1>13 DEF ClaimAbandon, ClaimDispatch, Crash, NextClaim, PassLoopPc
  <1>14. ASSUME \/ UNCHANGED vars \/ PurgeSelect \/ PurgeDelete
                \/ \E ty \in Type : Enqueue(ty) \/ LeaseExpires(ty)
         PROVE  Goal
    BY <1>1, <1>14, Zenon DEF vars, loop, PurgeSelect, PurgeDelete, Enqueue, LeaseExpires
  <1>15. ASSUME NEW s \in Runner, NEW u \in TaskId,
                Heartbeat(s, u) \/ Finish(s, u) \/ HandlerQuits(s, u)
         PROVE  Goal
    BY <1>1, <1>15, Zenon
    DEF loop, Heartbeat, Finish, RenewStart, RenewCommit, FinishStart, FinishCommit,
        FinishRelease, HandlerQuits
  <1> QED
    BY <1>5, <1>6, <1>7, <1>8, <1>9, <1>10, <1>11, <1>12, <1>13, <1>14, <1>15, Zenon
    DEF Next, PassStep

\* locked_by names the only possible executor after a step if it did before.
LEMMA OwnerStep ==
  ASSUME TypeOK, Shape, Owner, [Next]_vars
  PROVE  Owner'
  <1>1. ASSUME NEW r \in Runner, NEW t \in TaskId, handler'[<<r, t>>] # "none"
        PROVE  task'[t].by = r /\ task'[t].status \notin {"absent", "pending"}
    <2>1. task[t].by = r /\ task[t].status \notin {"absent", "pending"}
      BY <1>1, HandlerStep DEF Owner
    <2> QED BY <2>1, OwnerStable
  <1>2. ASSUME NEW r \in Runner, pc'[r] = "dispatch"
        PROVE  /\ task'[cur'[r].task].by = r
               /\ task'[cur'[r].task].status \notin {"absent", "pending"}
    <2>1. /\ cur'[r] = cur[r] /\ cur[r].task \in TaskId
          /\ \/ pc[r] = "dispatch"
             \/ task'[cur[r].task].by = r /\ task'[cur[r].task].status = "running"
      BY <1>2, DispatchStep
    <2>2. CASE pc[r] = "dispatch"
      BY <2>1, <2>2, OwnerStable DEF Owner
    <2> QED BY <2>1, <2>2
  <1> QED BY <1>1, <1>2 DEF Owner

\* A task is executed by at most one handler over its whole life, whatever
\* happens to leases, runners and statements: claims and takeovers may race,
\* but pending -> running is taken once, and only its winner dispatches.
THEOREM DispatchedOnceCorrect == Spec => []DispatchedOnce
  <1>1. Init => Owner
    BY DEF Init, Owner, Exec
  <1>2. TypeOK /\ Shape /\ Owner /\ [Next]_vars => Owner'
    BY OwnerStep
  <1>3. Owner => DispatchedOnce
    BY DEF Owner, DispatchedOnce
  <1> QED BY <1>1, <1>2, <1>3, TypeInvariant, PTL DEF Spec

-----------------------------------------------------------------------------
(* Leases.                                                                 *)

\* What one step can do to a runner's claim and to its sweep of stale leases.
PassEvolves(r) ==
    /\ pc'[r] \in PreLock =>
        \/ pc[r] \in PreLock /\ cur'[r] = cur[r]
        \/ /\ cur'[r].task \in TaskId /\ task[cur'[r].task].status = "pending"
           /\ UNCHANGED <<task, lock, handler>>
    /\ pc'[r] \in {"retire", "promote"} =>
        /\ cur'[r] = cur[r]
        /\ pc[r] \in {"retire", "promote"} \/ Writes(r, task[cur[r].task].type)
    /\ pc'[r] = "abandon" => pc[r] \in PostLock /\ cur'[r] = cur[r]
    /\ pc'[r] = "unlock" =>
        \/ pc[r] = "unlock" /\ cur'[r] = cur[r]
        \/ /\ cur'[r].task \in TaskId
           /\ task' = MarkLeaseExpired(cur'[r].task) /\ UNCHANGED lock

\* Each step of the pass loop moves its runner along the loop and no other.
LEMMA PassStepFacts ==
  ASSUME TypeOK, Shape, [Next]_vars, NEW r \in Runner
  PROVE  PassEvolves(r)
  <1> USE DEF PreLock, PostLock
  <1>0. /\ pc = [s \in Runner |-> pc[s]] /\ cur = [s \in Runner |-> cur[s]]
        /\ stale[r] \subseteq LeaseRef /\ found[r] \subseteq TaskId
        /\ lock = [ty \in Type |-> lock[ty]]
        /\ pc[r] \in PreLock \cup PostLock => cur[r].task \in TaskId /\ task[cur[r].task].type \in Type
    BY DEF TypeOK, Shape, CurShape, Inserted
  <1>1. ASSUME pc'[r] = pc[r], cur'[r] = cur[r] PROVE PassEvolves(r)
    BY <1>1 DEF PassEvolves
  <1>2. ASSUME pc'[r] \notin PreLock \cup PostLock \cup {"unlock"} PROVE PassEvolves(r)
    BY <1>2 DEF PassEvolves
  <1>3. ASSUME NEW s \in Runner, s # r, NEW p, pc' = [pc EXCEPT ![s] = p],
               NEW c, cur' = [cur EXCEPT ![s] = c]
        PROVE  PassEvolves(r)
    BY <1>0, <1>1, <1>3
  <1>4. ASSUME NEW s \in Runner, s # r, NEW p, pc' = [pc EXCEPT ![s] = p], cur' = cur
        PROVE  PassEvolves(r)
    BY <1>0, <1>1, <1>4
  <1>5. ASSUME NEW s \in Runner, NEW p, p \notin PreLock \cup PostLock \cup {"unlock"},
               pc' = [pc EXCEPT ![s] = p], NEW c, cur' = [cur EXCEPT ![s] = c]
        PROVE  PassEvolves(r)
    BY <1>0, <1>2, <1>3, <1>5
  <1>6. ASSUME NEW s \in Runner, NEW p, p \notin PreLock \cup PostLock \cup {"unlock"},
               pc' = [pc EXCEPT ![s] = p], cur' = cur
        PROVE  PassEvolves(r)
    BY <1>0, <1>2, <1>4, <1>6
  <1>7. ASSUME NEW s \in Runner, NEW p, p \notin PreLock \cup PostLock \cup {"unlock"}, Goto(s, p)
        PROVE  PassEvolves(r)
    BY <1>5, <1>7 DEF Goto
  <1>8. ASSUME NEW s \in Runner, NEW rest, NextClaim(s, rest) PROVE PassEvolves(r)
    BY <1>7, <1>8 DEF NextClaim
  <1>9. ASSUME NEW s \in Runner, ExpireSelect(s) \/ ScheduleSelect(s) \/ ClaimSelect(s)
        PROVE  PassEvolves(r)
    BY <1>6, <1>9 DEF ExpireSelect, ScheduleSelect, ClaimSelect
  <1>10. ASSUME NEW s \in Runner, ExpireMark(s) PROVE PassEvolves(r)
    <2>1. PICK l \in stale[s] :
            \/ /\ task' = MarkLeaseExpired(l.task) /\ UNCHANGED lock
               /\ pc' = [pc EXCEPT ![s] = "unlock"] /\ cur' = [cur EXCEPT ![s] = l]
            \/ Goto(s, "reaped")
      BY <1>10 DEF ExpireMark
    <2>2. CASE Goto(s, "reaped")
      BY <1>7, <2>2
    <2>3. CASE s # r
      BY <1>3, <2>1, <2>2, <2>3
    <2>4. CASE /\ s = r /\ task' = MarkLeaseExpired(l.task) /\ UNCHANGED lock
               /\ pc' = [pc EXCEPT ![s] = "unlock"] /\ cur' = [cur EXCEPT ![s] = l]
      <3>1. pc'[r] = "unlock" /\ cur'[r] = l
        BY <1>0, <2>4
      <3>2. l.task \in TaskId
        BY <1>0, <2>1, <2>4 DEF LeaseRef
      <3> QED BY <2>4, <3>1, <3>2 DEF PassEvolves
    <2> QED BY <2>1, <2>2, <2>3, <2>4
  <1>11. ASSUME NEW s \in Runner, ExpireDelete(s) PROVE PassEvolves(r)
    BY <1>6, <1>7, <1>11 DEF ExpireDelete
  <1>12. ASSUME NEW s \in Runner, ScheduleCreate(s) PROVE PassEvolves(r)
    <2>1. pc[s] = "create" /\ cur' = cur
      BY <1>12 DEF ScheduleCreate
    <2>2. PICK p \in {"scheduled", "create"} : pc' = [pc EXCEPT ![s] = p]
      BY <1>12, <2>1 DEF ScheduleCreate
    <2> QED BY <1>6, <2>1, <2>2
  <1>13. ASSUME NEW s \in Runner, ClaimRead(s) PROVE PassEvolves(r)
    <2>1. PICK t \in found[s] :
            \/ /\ task[t].status = "pending" /\ pc' = [pc EXCEPT ![s] = "insert"]
               /\ cur' = [cur EXCEPT ![s] = Lease(t, s)]
            \/ NextClaim(s, found[s] \ {t})
      BY <1>13 DEF ClaimRead
    <2>2. CASE NextClaim(s, found[s] \ {t})
      BY <1>8, <2>2
    <2>3. CASE s # r
      BY <1>3, <2>1, <2>2, <2>3
    <2>4. CASE /\ s = r /\ task[t].status = "pending" /\ pc' = [pc EXCEPT ![s] = "insert"]
               /\ cur' = [cur EXCEPT ![s] = Lease(t, s)]
      <3>1. pc'[r] = "insert" /\ cur'[r].task = t /\ t \in TaskId
        BY <1>0, <2>1, <2>4 DEF Lease
      <3>2. UNCHANGED <<task, lock, handler>>
        BY <1>13 DEF ClaimRead, exec
      <3> QED BY <2>4, <3>1, <3>2 DEF PassEvolves
    <2> QED BY <2>1, <2>2, <2>3, <2>4
  <1>14. ASSUME NEW s \in Runner, LockInsert(s) PROVE PassEvolves(r)
    <2>1. pc[s] = "insert" /\ cur' = cur
      BY <1>14 DEF LockInsert
    <2>2. CASE pc' = [pc EXCEPT ![s] = "existing"]
      <3>1. CASE s = r
        BY <1>0, <2>1, <2>2, <3>1 DEF PassEvolves
      <3> QED BY <1>4, <2>1, <2>2, <3>1
    <2>3. CASE LET t == cur[s].task IN
               /\ lock[task[t].type] = NoLock /\ WriteLease(s, t, task[t].type)
               /\ pc' = [pc EXCEPT ![s] = "promote"]
      <3>1. CASE s = r
        <4>1. pc'[r] = "promote" /\ cur'[r] = cur[r] /\ task[cur[r].task].type \in Type
          BY <1>0, <2>1, <2>3, <3>1
        <4>2. PICK b \in BOOLEAN :
              /\ PromptClaim => b
              /\ lock' = [lock EXCEPT ![task[cur[r].task].type] =
                            [task |-> cur[r].task, by |-> r, live |-> b]]
          BY <2>3, <3>1 DEF WriteLease, SetLockedUntil
        <4>3. Writes(r, task[cur[r].task].type)
          BY <1>0, <2>1, <2>3, <3>1, <4>1, <4>2 DEF Writes
        <4> QED BY <4>1, <4>3 DEF PassEvolves
      <3> QED BY <1>4, <2>1, <2>3, <3>1
    <2> QED BY <1>14, <2>2, <2>3 DEF LockInsert
  <1>15. ASSUME NEW s \in Runner, LockExisting(s) PROVE PassEvolves(r)
    <2>1. pc[s] = "existing"
      BY <1>15 DEF LockExisting
    <2>2. CASE pc' = [pc EXCEPT ![s] = "takeover"] /\ cur' = cur
      <3>1. CASE s = r
        BY <1>0, <2>1, <2>2, <3>1 DEF PassEvolves
      <3> QED BY <1>4, <2>1, <2>2, <3>1
    <2> QED BY <1>8, <1>15, <2>2 DEF LockExisting
  <1>16. ASSUME NEW s \in Runner, LockTakeover(s) PROVE PassEvolves(r)
    <2>1. pc[s] = "takeover"
      BY <1>16 DEF LockTakeover
    <2>2. CASE NextClaim(s, found[s])
      BY <1>8, <2>2
    <2>3. CASE LET t == cur[s].task IN
               /\ lock[task[t].type] # NoLock /\ task[t].type \in overdue[s]
               /\ WriteLease(s, t, task[t].type) /\ cur' = cur
               /\ pc' = [pc EXCEPT ![s] = IF old[s] = t THEN "promote" ELSE "retire"]
      <3>1. CASE s = r
        <4>1. /\ pc'[r] \in {"promote", "retire"}
              /\ cur'[r] = cur[r] /\ task[cur[r].task].type \in Type
          BY <1>0, <2>1, <2>3, <3>1
        <4>2. PICK b \in BOOLEAN :
              /\ PromptClaim => b
              /\ lock' = [lock EXCEPT ![task[cur[r].task].type] =
                            [task |-> cur[r].task, by |-> r, live |-> b]]
          BY <2>3, <3>1 DEF WriteLease, SetLockedUntil
        <4>3. Writes(r, task[cur[r].task].type)
          BY <1>0, <2>1, <2>3, <3>1, <4>1, <4>2 DEF Writes
        <4> QED BY <4>1, <4>3 DEF PassEvolves
      <3> QED BY <1>4, <2>1, <2>3, <3>1
    <2> QED BY <1>16, <2>2, <2>3 DEF LockTakeover, LeaseFree
  <1>17. ASSUME NEW s \in Runner, ClaimRetire(s) \/ ClaimPromote(s) PROVE PassEvolves(r)
    <2>1. pc[s] \in {"retire", "promote"} /\ cur' = cur
      BY <1>17 DEF ClaimRetire, ClaimPromote
    <2>2. PICK p \in {"promote", "abandon", "dispatch"} : pc' = [pc EXCEPT ![s] = p]
      BY <1>17 DEF ClaimRetire, ClaimPromote
    <2>3. CASE s = r
      BY <1>0, <2>1, <2>2, <2>3 DEF PassEvolves
    <2> QED BY <1>4, <2>1, <2>2, <2>3
  <1>18. ASSUME NEW s \in Runner, ClaimAbandon(s) \/ ClaimDispatch(s) PROVE PassEvolves(r)
    BY <1>8, <1>18 DEF ClaimAbandon, ClaimDispatch
  <1>19. ASSUME NEW s \in Runner, Crash(s) PROVE PassEvolves(r)
    BY <1>7, <1>19 DEF Crash
  <1>20. ASSUME \/ UNCHANGED vars \/ PurgeSelect \/ PurgeDelete
                \/ \E ty \in Type : Enqueue(ty) \/ LeaseExpires(ty)
         PROVE  PassEvolves(r)
    <2>1. pc' = pc /\ cur' = cur
      BY <1>20, Zenon DEF vars, loop, PurgeSelect, PurgeDelete, Enqueue, LeaseExpires
    <2> QED BY <1>1, <2>1
  <1>21. ASSUME NEW s \in Runner, NEW u \in TaskId,
                Heartbeat(s, u) \/ Finish(s, u) \/ HandlerQuits(s, u)
         PROVE  PassEvolves(r)
    <2>1. pc' = pc /\ cur' = cur
      BY <1>21, Zenon
      DEF loop, Heartbeat, Finish, RenewStart, RenewCommit, FinishStart, FinishCommit,
          FinishRelease, HandlerQuits
    <2> QED BY <1>1, <2>1
  <1> QED
    BY <1>9, <1>10, <1>11, <1>12, <1>13, <1>14, <1>15, <1>16, <1>17, <1>18, <1>19, <1>20,
       <1>21, Zenon
    DEF Next, PassStep

\* A timestamp exceeds the locked_until of a lease only because it is taken after
\* the lease expired, or did so before and the lease is not live after the step.
LEMMA OverdueStep ==
  ASSUME TypeOK, Shape, [Next]_vars, NEW r \in Runner, NEW ty \in overdue'[r]
  PROVE  \/ pc[r] \in {"idle", "pick"} /\ ty \in Expired /\ UNCHANGED lock
         \/ ty \in overdue[r] /\ (lock'[ty] = lock[ty] \/ ~lock'[ty].live)
  <1> DEFINE Kept == ty \in overdue[r] /\ (lock'[ty] = lock[ty] \/ ~lock'[ty].live)
             Goal == \/ pc[r] \in {"idle", "pick"} /\ ty \in Expired /\ UNCHANGED lock
                     \/ Kept
  <1>0. /\ overdue = [s \in Runner |-> overdue[s]] /\ lock = [x \in Type |-> lock[x]]
        /\ overdue'[r] \subseteq Type
    BY LocalStep DEF TypeOK, LocalTypes
  <1>1. ASSUME overdue' = overdue, lock' = lock PROVE Goal
    BY <1>1
  <1>2. ASSUME NEW s \in Runner, NEW p, Goto(s, p), lock' = lock PROVE Goal
    BY <1>0, <1>2 DEF Goto
  <1>3. ASSUME NEW x \in Type, overdue' = overdue, lock' = [lock EXCEPT ![x] = NoLock] PROVE Goal
    BY <1>0, <1>3 DEF NoLock
  <1>4. ASSUME NEW s \in Runner, NEW p, Goto(s, p),
               NEW x \in Type, lock' = [lock EXCEPT ![x] = NoLock]
        PROVE  Goal
    BY <1>0, <1>4 DEF NoLock, Goto
  <1>5. ASSUME NEW x \in Type, NEW l, SetLockedUntil(x, l) PROVE Goal
    <2>1. PICK S \in IF l.live THEN {{}} ELSE SUBSET {s \in Runner : x \in overdue[s]} :
            overdue' = [s \in Runner |-> IF s \in S THEN overdue[s] ELSE overdue[s] \ {x}]
      BY <1>5 DEF SetLockedUntil
    <2>2. lock' = [lock EXCEPT ![x] = l]
      BY <1>5 DEF SetLockedUntil
    <2>3. CASE ty = x
      <3>1. r \in S /\ ty \in overdue[r] /\ ~l.live
        BY <1>0, <2>1, <2>3
      <3> QED BY <1>0, <2>2, <2>3, <3>1
    <2>4. CASE ty # x
      BY <1>0, <2>1, <2>2, <2>4
    <2> QED BY <2>3, <2>4
  <1>6. ASSUME NEW s \in Runner, ExpireSelect(s) PROVE Goal
    <2>1. /\ pc[s] = "idle" /\ UNCHANGED lock
          /\ overdue' = [overdue EXCEPT ![s] = Expired]
      BY <1>6 DEF ExpireSelect
    <2> QED BY <1>0, <2>1
  <1>7. ASSUME NEW s \in Runner, ExpireMark(s) PROVE Goal
    BY <1>1, <1>2, <1>7 DEF ExpireMark
  <1>8. ASSUME NEW s \in Runner, ExpireDelete(s) PROVE Goal
    <2>1. task[cur[s].task].type \in Type
      BY <1>8 DEF ExpireDelete, Shape, CurShape, Inserted
    <2> QED BY <1>1, <1>2, <1>3, <1>4, <1>8, <2>1 DEF ExpireDelete
  <1>9. ASSUME NEW s \in Runner, ClaimRead(s) PROVE Goal
    <2>1. pc[s] = "pick" /\ UNCHANGED lock
      BY <1>9 DEF ClaimRead
    <2>2. CASE overdue' = [overdue EXCEPT ![s] = Expired]
      BY <1>0, <2>1, <2>2
    <2> QED BY <1>2, <1>9, <2>1, <2>2 DEF ClaimRead, NextClaim
  <1>10. ASSUME NEW s \in Runner, LockInsert(s) PROVE Goal
    <2>1. task[cur[s].task].type \in Type
      BY <1>10 DEF LockInsert, Shape, CurShape, Inserted, PreLock
    <2> QED BY <1>1, <1>5, <1>10, <2>1 DEF LockInsert, WriteLease
  <1>11. ASSUME NEW s \in Runner, LockExisting(s) PROVE Goal
    BY <1>1, <1>2, <1>11 DEF LockExisting, NextClaim
  <1>12. ASSUME NEW s \in Runner, LockTakeover(s) PROVE Goal
    <2>1. task[cur[s].task].type \in Type
      BY <1>12 DEF LockTakeover, Shape, CurShape, Inserted, PreLock
    <2> QED BY <1>2, <1>5, <1>12, <2>1 DEF LockTakeover, WriteLease, NextClaim
  <1>13. ASSUME NEW s \in Runner, ClaimAbandon(s) PROVE Goal
    <2>1. task[cur[s].task].type \in Type
      BY <1>13 DEF ClaimAbandon, Shape, CurShape, Inserted, PostLock
    <2> QED BY <1>2, <1>4, <1>13, <2>1 DEF ClaimAbandon, Release, NextClaim
  <1>14. ASSUME NEW s \in Runner, ClaimDispatch(s) \/ Crash(s) PROVE Goal
    BY <1>2, <1>14 DEF ClaimDispatch, Crash, NextClaim
  <1>15. ASSUME NEW s \in Runner, NEW t \in TaskId, RenewCommit(s, t) PROVE Goal
    <2>1. CASE lock' = lock /\ overdue' = overdue
      BY <1>1, <2>1
    <2>2. CASE /\ Held(t, s)
               /\ \E b \in {TRUE, lock[task[t].type].live} :
                    SetLockedUntil(task[t].type, [lock[task[t].type] EXCEPT !.live = b])
      <3>1. CASE task[t].type \in Type
        BY <1>5, <2>2, <3>1
      <3>2. CASE task[t].type \notin Type
        <4>1. lock' = lock
          BY <1>0, <2>2, <3>2 DEF SetLockedUntil
        <4>2. PICK S : overdue' = [x \in Runner |-> IF x \in S THEN overdue[x]
                                                    ELSE overdue[x] \ {task[t].type}]
          BY <2>2 DEF SetLockedUntil
        <4> QED BY <1>0, <4>1, <4>2
      <3> QED BY <3>1, <3>2
    <2> QED BY <1>15, <2>1, <2>2 DEF RenewCommit
  <1>16. ASSUME NEW s \in Runner, NEW t \in TaskId, FinishRelease(s, t) PROVE Goal
    <2>1. overdue' = overdue
      BY <1>16 DEF FinishRelease, loop
    <2>2. CASE Held(t, s) /\ lock' = [lock EXCEPT ![task[t].type] = NoLock]
      <3>1. CASE task[t].type \in Type
        BY <1>3, <2>1, <2>2, <3>1
      <3>2. CASE task[t].type \notin Type
        BY <1>0, <1>1, <2>1, <2>2, <3>2
      <3> QED BY <3>1, <3>2
    <2> QED BY <1>1, <1>16, <2>1, <2>2 DEF FinishRelease, Release
  <1>17. ASSUME NEW x \in Type, LeaseExpires(x) PROVE Goal
    BY <1>0, <1>17 DEF LeaseExpires, loop
  <1>18. ASSUME NEW s \in Runner,
                \/ ScheduleSelect(s) \/ ScheduleCreate(s) \/ ClaimSelect(s)
                \/ ClaimRetire(s) \/ ClaimPromote(s)
         PROVE  Goal
    BY <1>1, <1>18, Zenon
    DEF ScheduleSelect, ScheduleCreate, ClaimSelect, ClaimRetire, ClaimPromote
  <1>19. ASSUME NEW s \in Runner, NEW t \in TaskId,
                \/ RenewStart(s, t) \/ FinishStart(s, t) \/ FinishCommit(s, t)
                \/ HandlerQuits(s, t)
         PROVE  Goal
    BY <1>1, <1>19, Zenon DEF loop, RenewStart, FinishStart, FinishCommit, HandlerQuits
  <1>20. ASSUME \/ UNCHANGED vars \/ PurgeSelect \/ PurgeDelete
                \/ \E x \in Type : Enqueue(x)
         PROVE  Goal
    BY <1>1, <1>20, Zenon DEF vars, loop, PurgeSelect, PurgeDelete, Enqueue
  <1> QED
    BY <1>6, <1>7, <1>8, <1>9, <1>10, <1>11, <1>12, <1>13, <1>14, <1>15, <1>16, <1>17, <1>18,
       <1>19, <1>20, Zenon
    DEF Next, PassStep, Heartbeat, Finish

\* A handler comes to release its lease only by ending its task.
LEMMA ReleaseStep ==
  ASSUME TypeOK, Shape, [Next]_vars, NEW r \in Runner, NEW t \in TaskId,
         handler'[<<r, t>>] = "release"
  PROVE  handler[<<r, t>>] = "release" \/ task'[t].status \in Terminal
  <1> DEFINE Goal == handler[<<r, t>>] = "release" \/ task'[t].status \in Terminal
  <1>0. /\ handler = [e \in Exec |-> handler[e]] /\ <<r, t>> \in Exec
        /\ \A s \in Runner, u \in TaskId : <<s, u>> \in Exec /\ (<<s, u>> = <<r, t>> => s = r /\ u = t)
    BY DEF TypeOK, Exec
  <1>1. ASSUME handler' = handler PROVE Goal
    BY <1>1
  <1>2. ASSUME NEW s \in Runner, NEW u \in TaskId, NEW h, h # "release",
               handler' = [handler EXCEPT ![<<s, u>>] = h]
        PROVE  Goal
    BY <1>0, <1>2
  <1>3. ASSUME NEW s \in Runner, NEW u \in TaskId, HandlerEnds(<<s, u>>) PROVE Goal
    BY <1>2, <1>3 DEF HandlerEnds
  <1>4. ASSUME NEW s \in Runner, NEW u \in TaskId, Cancel(<<s, u>>) PROVE Goal
    BY <1>0, <1>4 DEF Cancel
  <1>5. ASSUME NEW s \in Runner, ClaimDispatch(s) PROVE Goal
    <2>1. cur[s].task \in TaskId
      BY <1>5 DEF ClaimDispatch, Shape, CurShape, Inserted
    <2>2. CASE handler' = [handler EXCEPT ![<<s, cur[s].task>>] = "running"]
      BY <1>2, <2>1, <2>2
    <2> QED BY <1>1, <1>5, <2>2 DEF ClaimDispatch
  <1>6. ASSUME NEW s \in Runner, NEW u \in TaskId, Heartbeat(s, u) PROVE Goal
    BY <1>1, <1>4, <1>6, Zenon DEF Heartbeat, RenewStart, RenewCommit
  <1>7. ASSUME NEW s \in Runner, NEW u \in TaskId, FinishStart(s, u) PROVE Goal
    BY <1>2, <1>3, <1>7 DEF FinishStart
  <1>8. ASSUME NEW s \in Runner, NEW u \in TaskId, FinishCommit(s, u) PROVE Goal
    <2>1. CASE /\ handler' = [handler EXCEPT ![<<s, u>>] = "release"]
               /\ \E x \in Terminal : task' = [task EXCEPT ![u] = Row(x, task[u].type, FALSE, s)]
      BY <1>0, <2>1 DEF TypeOK, Row
    <2> QED BY <1>3, <1>8, <2>1 DEF FinishCommit
  <1>9. ASSUME NEW s \in Runner, NEW u \in TaskId, FinishRelease(s, u) \/ HandlerQuits(s, u)
        PROVE  Goal
    BY <1>3, <1>9 DEF FinishRelease, HandlerQuits
  <1>10. ASSUME NEW s \in Runner, Crash(s) PROVE Goal
    BY <1>0, <1>10 DEF Crash
  <1>11. ASSUME NEW s \in Runner, PassStep(s) PROVE Goal
    BY <1>1, <1>5, <1>11, Zenon
    DEF PassStep, ExpireSelect, ExpireMark, ExpireDelete, ScheduleSelect, ScheduleCreate,
        ClaimSelect, ClaimRead, LockInsert, LockExisting, LockTakeover, ClaimRetire,
        ClaimPromote, ClaimAbandon, exec
  <1>12. ASSUME \/ UNCHANGED vars \/ PurgeSelect \/ PurgeDelete
                \/ \E ty \in Type : Enqueue(ty) \/ LeaseExpires(ty)
         PROVE  Goal
    BY <1>1, <1>12, Zenon DEF vars, exec, PurgeSelect, PurgeDelete, Enqueue, LeaseExpires
  <1> QED
    BY <1>6, <1>7, <1>8, <1>9, <1>10, <1>11, <1>12, Zenon DEF Next, Finish

\* A row is inserted for a type that a scheduler found due, or while no row of
\* its type is active.
LEMMA InsertStep ==
  ASSUME TypeOK, Shape, [Next]_vars, NEW u \in TaskId,
         task[u].status = "absent", task'[u].status # "absent"
  PROVE  \/ \E s \in Runner : task'[u].type \in due[s]
         \/ \A t \in Rows(task'[u].type) : task[t].status \notin Active
  <1> DEFINE Goal == \/ \E s \in Runner : task'[u].type \in due[s]
                     \/ \A t \in Rows(task'[u].type) : task[t].status \notin Active
  <1>1. ASSUME \A t \in TaskId : task[t].status # "absent" \/ task'[t] = task[t]
        PROVE  Goal
    BY <1>1
  <1>2. ASSUME NEW ty \in Type, Insert(ty) PROVE task'[u].type = ty
    BY <1>2 DEF Insert, PendingRow, Row, TypeOK
  <1>3. ASSUME NEW r \in Runner, ScheduleCreate(r) PROVE Goal
    <2>1. PICK ty \in due[r] : Insert(ty) \/ task' = task
      BY <1>3 DEF ScheduleCreate
    <2>2. ty \in Type
      BY <2>1 DEF TypeOK
    <2> QED BY <1>2, <2>1, <2>2
  <1>4. ASSUME NEW ty \in Type, Enqueue(ty) PROVE Goal
    BY <1>2, <1>4 DEF Enqueue
  <1>5. ASSUME NEW t \in TaskId, task' = MarkLeaseExpired(t) PROVE Goal
    BY <1>1, <1>5 DEF MarkLeaseExpired, TypeOK
  <1>6. ASSUME NEW r \in Runner, ExpireMark(r) PROVE Goal
    <2>1. PICK l \in stale[r] : task' = MarkLeaseExpired(l.task) \/ task' = task
      BY <1>6 DEF ExpireMark
    <2>2. l.task \in TaskId
      BY <2>1 DEF TypeOK, LeaseRef
    <2> QED BY <1>1, <1>5, <2>1, <2>2
  <1>7. ASSUME NEW r \in Runner, ClaimRetire(r) PROVE Goal
    <2>1. old[r] \in TaskId
      BY <1>7 DEF ClaimRetire, Shape, CurShape
    <2> QED BY <1>1, <1>5, <1>7, <2>1 DEF ClaimRetire
  <1>8. ASSUME NEW r \in Runner, ClaimPromote(r) PROVE Goal
    <2>1. cur[r].task \in TaskId
      BY <1>8 DEF ClaimPromote, Shape, CurShape, PostLock, Inserted
    <2> QED BY <1>1, <1>8, <2>1 DEF ClaimPromote, TypeOK
  <1>9. ASSUME NEW r \in Runner, NEW t \in TaskId, FinishCommit(r, t) PROVE Goal
    BY <1>1, <1>9 DEF FinishCommit, TypeOK
  <1>10. ASSUME PurgeDelete PROVE Goal
    BY <1>1, <1>10 DEF PurgeDelete, Terminal
  <1>11. ASSUME task' = task PROVE Goal
    BY <1>1, <1>11
  <1>12. ASSUME NEW r \in Runner, PassStep(r) PROVE Goal
    BY <1>3, <1>6, <1>7, <1>8, <1>11, <1>12, Zenon
    DEF PassStep, ExpireSelect, ExpireDelete, ScheduleSelect, ClaimSelect, ClaimRead,
        LockInsert, LockExisting, LockTakeover, ClaimAbandon, ClaimDispatch
  <1>13. ASSUME NEW r \in Runner, NEW t \in TaskId,
                Heartbeat(r, t) \/ Finish(r, t) \/ HandlerQuits(r, t)
         PROVE  Goal
    BY <1>9, <1>11, <1>13, Zenon
    DEF Heartbeat, Finish, RenewStart, RenewCommit, FinishStart, FinishRelease, HandlerQuits
  <1> QED
    BY <1>4, <1>10, <1>11, <1>12, <1>13, Zenon
    DEF Next, vars, Crash, LeaseExpires, PurgeSelect

\* A scheduler finds a type due only while the latest row of the type is terminal.
LEMMA DueStep ==
  ASSUME TypeOK, [Next]_vars, NEW r \in Runner, NEW ty \in due'[r]
  PROVE  ty \in due[r] \/ \A t \in Latest(ty) : task[t].status \in Terminal
  <1> DEFINE Goal == ty \in due[r] \/ \A t \in Latest(ty) : task[t].status \in Terminal
  <1>0. due = [s \in Runner |-> due[s]]
    BY DEF TypeOK
  <1>1. ASSUME due' = due PROVE Goal
    BY <1>1
  <1>2. ASSUME NEW s \in Runner, ScheduleSelect(s) PROVE Goal
    BY <1>0, <1>2 DEF ScheduleSelect
  <1>3. ASSUME NEW s \in Runner, ScheduleCreate(s) PROVE Goal
    BY <1>0, <1>3 DEF ScheduleCreate
  <1>4. ASSUME NEW s \in Runner, Crash(s) PROVE Goal
    BY <1>0, <1>4 DEF Crash
  <1>5. ASSUME NEW s \in Runner, PassStep(s) PROVE Goal
    BY <1>1, <1>2, <1>3, <1>5, Zenon
    DEF PassStep, ExpireSelect, ExpireMark, ExpireDelete, ClaimSelect, ClaimRead, LockInsert,
        LockExisting, LockTakeover, ClaimRetire, ClaimPromote, ClaimAbandon, ClaimDispatch
  <1>6. ASSUME NEW s \in Runner, NEW u \in TaskId,
               Heartbeat(s, u) \/ Finish(s, u) \/ HandlerQuits(s, u)
        PROVE  Goal
    BY <1>1, <1>6, Zenon
    DEF loop, Heartbeat, Finish, RenewStart, RenewCommit, FinishStart, FinishCommit,
        FinishRelease, HandlerQuits
  <1> QED
    BY <1>1, <1>4, <1>5, <1>6, Zenon
    DEF Next, vars, loop, Enqueue, LeaseExpires, PurgeSelect, PurgeDelete

\* An active legacy row stays the only row of its type: nothing creates a row
\* of a type that has an active one.
LEMMA LegacyStep ==
  ASSUME TypeOK, Shape, LegacyFirst, [Next]_vars
  PROVE  LegacyFirst'
  <1> SUFFICES ASSUME NEW t \in DOMAIN Legacy
               PROVE  /\ task'[t].status # "absent"
                      /\ task'[t].status \in Active =>
                          /\ \A u \in Rows(task[t].type)' : u = t
                          /\ \A r \in Runner : task'[t].type \notin due'[r]
    BY DEF LegacyFirst
  <1>1. t \in TaskId /\ task[t].status # "absent" /\ Inserted(t)
    BY LegacyFacts DEF LegacyFirst, Shape, RowShape, TypeOK, TaskRow, Inserted
  <1>2. task'[t].type = task[t].type /\ task'[t].status # "absent"
    <2>1. Inserted(t)' /\ task'[t].type = task[t].type /\ RowShape'
      BY <1>1, RowStable
    <2> QED BY <1>1, <2>1, NullAssumption DEF Inserted, RowShape, NoType
  <1> DEFINE ty == task[t].type
  <1>3. ASSUME task'[t].status \in Active
        PROVE  /\ task[t].status \in Active /\ Rows(ty) = {t}
               /\ \A r \in Runner : ty \notin due[r]
    <2>1. Evolves(t)
      BY <1>1, TaskEvolves
    <2>2. task[t].status \in Active
      BY <1>1, <1>3, <2>1 DEF Evolves, Row, Active, Terminal
    <2>3. t \in Rows(ty)
      BY <1>1, <2>2 DEF Rows, Active
    <2> QED BY <2>2, <2>3 DEF LegacyFirst
  <1>4. ASSUME task'[t].status \in Active, NEW u \in TaskId, task'[u].type = ty,
               task'[u].status \notin {"absent", "deleted"}, u # t
        PROVE  FALSE
    <2>1. CASE task[u].status = "absent"
      BY <1>3, <1>4, <2>1, InsertStep
    <2>2. CASE task[u].status # "absent"
      <3>1. Inserted(u)
        BY <2>2 DEF Inserted, Shape, RowShape, TypeOK, TaskRow
      <3>2. task[u].type = ty
        BY <1>4, <3>1, RowStable
      <3>3. task[u].status = "deleted"
        BY <1>3, <1>4, <2>2, <3>2 DEF Rows
      <3> QED BY <1>4, <3>3, TaskEvolves DEF Evolves, Terminal
    <2> QED BY <2>1, <2>2
  <1>5. ASSUME task'[t].status \in Active, NEW r \in Runner, ty \in due'[r] PROVE FALSE
    <2>1. t \in Latest(ty)
      BY <1>1, <1>3, <1>5 DEF Latest, TaskId
    <2>2. task[t].status \in Terminal
      BY <1>3, <1>5, <2>1, DueStep
    <2> QED BY <1>3, <1>5, <2>2 DEF Active, Terminal
  <1> QED BY <1>2, <1>4, <1>5 DEF Rows

\* No two active rows have the same type.
LEMMA OneActive ==
  ASSUME TypeOK, ActiveKeyExact, LegacyFirst, NEW t \in TaskId, NEW u \in TaskId,
         task[t].status \in Active, task[u].status \in Active, task[t].type = task[u].type
  PROVE  t = u
  <1>1. \A x \in TaskId : task[x].status \in Active => x \in Rows(task[x].type)
    BY DEF Rows, Active
  <1>2. CASE t \in DOMAIN Legacy \/ u \in DOMAIN Legacy
    BY <1>1, <1>2 DEF LegacyFirst
  <1>3. CASE t \notin DOMAIN Legacy /\ u \notin DOMAIN Legacy
    BY <1>3 DEF ActiveKeyExact
  <1> QED BY <1>2, <1>3

\* A row starts to run only under the live lease of the claim that promotes it.
LEMMA PromotedStep ==
  ASSUME TypeOK, Shape, ClaimHoldsLease, [Next]_vars, NEW t \in TaskId,
         task'[t].status = "running", task[t].status # "running"
  PROVE  /\ UNCHANGED lock
         /\ \E s \in Runner : pc[s] = "promote" /\ pc'[s] = "dispatch" /\ HeldLive(t, s)
  <1>1. Evolves(t)
    BY TaskEvolves
  <1>2. PICK s \in Runner : /\ pc[s] = "promote" /\ cur[s].task = t
                            /\ pc'[s] = "dispatch" /\ UNCHANGED <<lock, overdue>>
    <2>1. task'[t] # task[t] /\ \A ty, k, by : task'[t] # Row("pending", ty, k, by)
      BY DEF Row
    <2>2. \A s \in Terminal \cup {"deleted"} : \A ty, k, by : task'[t] # Row(s, ty, k, by)
      BY DEF Row, Terminal
    <2> QED BY <1>1, <2>1, <2>2, Zenon DEF Evolves
  <1> QED BY <1>2 DEF ClaimHoldsLease

\* What a claim that is about to promote its task relies on survives every step:
\* a live lease is neither reaped, nor taken over, nor released by another claim
\* or by a late handler.
LEMMA ClaimStep ==
  ASSUME PromptClaim, TypeOK, Shape, OwnClaim, OverdueExpired, ClaimHoldsLease, [Next]_vars
  PROVE  ClaimHoldsLease'
  <1> SUFFICES ASSUME NEW r \in Runner, pc'[r] \in {"retire", "promote"}
               PROVE  HeldLive(cur[r].task, r)'
    BY DEF ClaimHoldsLease
  <1> DEFINE t  == cur[r].task
             ty == task[t].type
  <1>1. cur'[r] = cur[r] /\ (pc[r] \in {"retire", "promote"} \/ Writes(r, ty))
    BY PassStepFacts DEF PassEvolves
  <1>2. Inserted(t) /\ cur[r] = Lease(t, r)
    <2>1. pc[r] \in PreLock \cup PostLock
      BY <1>1 DEF Writes, PreLock, PostLock
    <2>2. Inserted(t) /\ cur[r].by = r
      BY <2>1 DEF Shape, CurShape
    <2>3. cur[r] \in LeaseRef
      BY <2>2, NoTaskIsNoId DEF TypeOK, Inserted, NoLease, Lease
    <2> QED BY <2>2, <2>3 DEF LeaseRef, Lease
  <1>3. t \in TaskId /\ ty \in Type /\ task'[t].type = ty
    BY <1>2, RowStable DEF Inserted
  <1>4. SUFFICES lock'[ty].task = t /\ lock'[ty].by = r /\ lock'[ty].live
    BY <1>1, <1>3 DEF HeldLive, Held
  <1>5. CASE Writes(r, ty)
    BY <1>5 DEF Writes
  <1>6. CASE pc[r] \in {"retire", "promote"}
    <2>1. lock[ty].task = t /\ lock[ty].by = r /\ lock[ty].live
      BY <1>6 DEF ClaimHoldsLease, HeldLive, Held
    <2>2. lock[ty] # NoLock /\ lock[ty] \in LockRow
      BY <1>3, <2>1 DEF NoLock, TypeOK
    <2>3. \A s \in Runner : ty \notin overdue[s]
      BY <2>1 DEF OverdueExpired
    <2>4. ASSUME NEW s \in Runner, Deletes(s, ty) PROVE FALSE
      <3>1. CASE pc[s] = "abandon" /\ Held(cur[s].task, s) /\ ty = task[cur[s].task].type
        BY <1>6, <2>1, <3>1 DEF Held
      <3>2. CASE \E u \in TaskId : handler[<<s, u>>] = "release" /\ Held(u, s) /\ ty = task[u].type
        <4>1. handler[<<r, t>>] = "release"
          BY <2>1, <3>2 DEF Held
        <4> QED BY <1>6, <4>1 DEF OwnClaim, PostLock
      <3> QED BY <2>3, <2>4, <3>1, <3>2 DEF Deletes
    <2>5. ASSUME NEW s \in Runner, Writes(s, ty) PROVE FALSE
      BY <2>2, <2>3, <2>5 DEF Writes
    <2>6. Claiming(ty)
      BY <1>2, <1>6, <2>1 DEF Claiming
    <2>7. CASE lock'[ty] = lock[ty]
      BY <2>1, <2>7
    <2>8. CASE \E b \in BOOLEAN :
                 /\ lock'[ty] = [lock[ty] EXCEPT !.live = b]
                 /\ ~b /\ lock[ty].live => (PromptClaim => ~Claiming(ty))
      BY <2>1, <2>2, <2>6, <2>8 DEF LockRow
    <2>9. LockEvolves(ty)
      BY <1>3, LockStep
    <2> QED BY <2>4, <2>5, <2>7, <2>8, <2>9 DEF LockEvolves
  <1> QED BY <1>1, <1>5, <1>6

\* No timestamp exceeds the locked_until of a live lease after a step.
LEMMA OverdueExpiredStep ==
  ASSUME TypeOK, Shape, OverdueExpired, [Next]_vars
  PROVE  OverdueExpired'
  BY OverdueStep DEF OverdueExpired, Expired

\* A runner that claims a task has not executed it, after a step too.
LEMMA OwnClaimStep ==
  ASSUME TypeOK, Shape, Owner, OwnClaim, [Next]_vars
  PROVE  OwnClaim'
  <1> SUFFICES ASSUME NEW r \in Runner, pc'[r] \in PreLock \cup PostLock
               PROVE  handler'[<<r, cur'[r].task>>] = "none"
    BY DEF OwnClaim
  <1>1. CASE pc[r] \in PreLock \cup PostLock /\ cur'[r] = cur[r]
    <2>1. cur[r].task \in TaskId /\ handler[<<r, cur[r].task>>] = "none" /\ pc[r] # "dispatch"
      BY <1>1 DEF Shape, CurShape, Inserted, OwnClaim, PreLock, PostLock
    <2> QED BY <1>1, <2>1, HandlerStep
  <1>2. CASE /\ cur'[r].task \in TaskId /\ task[cur'[r].task].status = "pending"
             /\ UNCHANGED handler
    BY <1>2 DEF Owner
  <1>3. Writes(r, task[cur[r].task].type) => pc[r] \in PreLock
    BY DEF Writes, PreLock
  <1> QED BY <1>1, <1>2, <1>3, PassStepFacts DEF PassEvolves, PreLock, PostLock

\* A handler that is about to release its lease has ended its task, after a step too.
LEMMA ReleaseIsLateStep ==
  ASSUME TypeOK, Shape, ReleaseIsLate, [Next]_vars
  PROVE  ReleaseIsLate'
  <1>1. ASSUME NEW r \in Runner, NEW t \in TaskId, handler'[<<r, t>>] = "release"
        PROVE  task'[t].status \in Terminal \cup {"deleted"}
    <2>1. CASE handler[<<r, t>>] = "release"
      <3>1. task[t].status \in Terminal \cup {"deleted"}
        BY <2>1 DEF ReleaseIsLate, Exec
      <3>2. Evolves(t)
        BY TaskEvolves
      <3> QED BY <3>1, <3>2 DEF Evolves, Row, Terminal
    <2> QED BY <1>1, <2>1, ReleaseStep
  <1> QED BY <1>1 DEF ReleaseIsLate, Exec

\* While a claim waits for the lease, the lease it may take over is not that of
\* a running task, after a step too.
LEMMA SpareToTake ==
  ASSUME PromptClaim, TypeOK, Shape, LeaseInv, [Next]_vars, NEW r \in Runner,
         pc'[r] \in PreLock, NEW ty, ty = task'[cur'[r].task].type, ty \in overdue'[r],
         lock'[ty] # NoLock
  PROVE  task'[lock'[ty].task].status # "running"
  <1> USE DEF LeaseInv
  <1>0. TypeOK' /\ Shape'
    BY TypeStep
  <1>1. ty \in Type /\ lock'[ty] \in LockRow
    BY <1>0 DEF TypeOK
  <1> DEFINE u == lock'[ty].task
  <1>2. u \in TaskId
    BY <1>1 DEF LockRow
  <1>3. SUFFICES ASSUME task'[u].status = "running" PROVE FALSE
    OBVIOUS
  <1>4. CASE /\ cur'[r].task \in TaskId /\ task[cur'[r].task].status = "pending"
             /\ UNCHANGED <<task, lock, handler>>
    <2>1. task[u].type = ty /\ task[u].status = "running"
      BY <1>1, <1>3, <1>4 DEF Shape, LockShape
    <2>2. u = cur'[r].task
      BY <1>2, <1>4, <2>1, OneActive DEF Active
    <2> QED BY <1>4, <2>1, <2>2
  <1>5. CASE pc[r] \in PreLock /\ cur'[r] = cur[r]
    <2>1. Inserted(cur[r].task)
      BY <1>5 DEF Shape, CurShape
    <2>2. task[cur[r].task].type = ty
      BY <1>5, <2>1, RowStable DEF Inserted
    <2>3. ty \in overdue[r] /\ (lock'[ty] = lock[ty] \/ ~lock'[ty].live)
      BY <1>5, OverdueStep DEF PreLock
    <2>4. ~lock[ty].live
      BY <2>3 DEF OverdueExpired
    <2>5. lock[ty] # NoLock /\ lock[ty].task = u
      <3>1. LockEvolves(ty) /\ lock[ty] \in LockRow \cup {NoLock}
        BY <1>1, LockStep DEF TypeOK
      <3>2. ASSUME NEW s \in Runner, Writes(s, ty) PROVE FALSE
        BY <2>3, <2>4, <3>2 DEF Writes
      <3>3. CASE lock'[ty] = lock[ty]
        BY <3>3
      <3>4. CASE lock[ty] # NoLock /\ \E b \in BOOLEAN : lock'[ty] = [lock[ty] EXCEPT !.live = b]
        BY <3>1, <3>4 DEF LockRow
      <3> QED BY <3>1, <3>2, <3>3, <3>4 DEF LockEvolves
    <2>6. task[u].status # "running"
      BY <1>5, <2>2, <2>3, <2>5 DEF LeaseIsSpare, NotRunning
    <2>7. PICK s \in Runner : HeldLive(u, s)
      BY <1>2, <1>3, <2>6, PromotedStep
    <2>8. task[u].type = ty
      BY <1>1, <2>5 DEF Shape, LockShape
    <2> QED BY <2>4, <2>7, <2>8 DEF HeldLive
  <1> QED BY <1>4, <1>5, PassStepFacts DEF PassEvolves

\* A claim that has its lease and has not promoted its task can give the lease
\* back: the task is not running, after a step too.
LEMMA SpareToGiveBack ==
  ASSUME PromptClaim, TypeOK, Shape, LeaseInv, [Next]_vars, NEW r \in Runner,
         pc'[r] \in PostLock, Held(cur[r].task, r)'
  PROVE  task'[cur'[r].task].status # "running"
  <1> USE DEF LeaseInv
  <1> DEFINE t  == cur[r].task
             ty == task[t].type
  <1>1. /\ cur'[r] = cur[r]
        /\ pc[r] \in PostLock \/ Writes(r, ty)
    BY PassStepFacts DEF PassEvolves, PostLock
  <1>2. t \in TaskId /\ ty \in Type /\ task'[t].type = ty
    <2>1. pc[r] \in PreLock \cup PostLock
      BY <1>1 DEF Writes, PreLock
    <2>2. Inserted(t)
      BY <2>1 DEF Shape, CurShape
    <2> QED BY <2>2, RowStable DEF Inserted
  <1>3. lock'[ty].task = t /\ lock'[ty].by = r
    BY <1>1, <1>2 DEF Held
  <1>4. SUFFICES ASSUME task'[t].status = "running" PROVE FALSE
    BY <1>1
  <1>5. CASE Writes(r, ty)
    <2>1. \/ lock[ty] = NoLock
          \/ lock[ty] # NoLock /\ ty \in overdue[r] /\ pc[r] \in PreLock
      BY <1>5 DEF Writes, PreLock
    <2>2. CASE task[t].status = "running"
      <3>1. lock[ty].task = t
        BY <1>2, <2>2 DEF RunningLeased
      <3>2. lock[ty] # NoLock
        BY <1>2, <3>1, NoTaskIsNoId DEF NoLock
      <3>3. task[lock[ty].task].status # "running"
        BY <2>1, <3>2 DEF LeaseIsSpare, NotRunning
      <3> QED BY <2>2, <3>1, <3>3
    <2>3. CASE task[t].status # "running"
      <3>1. PICK s \in Runner : HeldLive(t, s)
        BY <1>2, <1>4, <2>3, PromotedStep
      <3> QED BY <2>1, <3>1 DEF HeldLive, NoLock, OverdueExpired
    <2> QED BY <2>2, <2>3
  <1>6. CASE pc[r] \in PostLock
    <2>1. Held(t, r)
      <3>1. LockEvolves(ty) /\ lock[ty] \in LockRow \cup {NoLock}
        BY <1>2, LockStep DEF TypeOK
      <3>2. ASSUME NEW s \in Runner, Writes(s, ty) PROVE FALSE
        <4>1. s = r
          BY <1>3, <3>2 DEF Writes
        <4> QED BY <1>6, <3>2, <4>1 DEF Writes, PostLock
      <3>3. CASE lock'[ty] = lock[ty]
        BY <1>3, <3>3 DEF Held
      <3>4. CASE lock[ty] # NoLock /\ \E b \in BOOLEAN : lock'[ty] = [lock[ty] EXCEPT !.live = b]
        BY <1>3, <3>1, <3>4 DEF Held, LockRow
      <3>5. lock'[ty] # NoLock
        BY <1>2, <1>3, NoTaskIsNoId DEF NoLock
      <3> QED BY <3>1, <3>2, <3>3, <3>4, <3>5 DEF LockEvolves
    <2>2. task[t].status # "running"
      BY <1>6, <2>1 DEF LeaseIsSpare, NotRunning
    <2>3. PICK s \in Runner : pc'[s] = "dispatch" /\ HeldLive(t, s)
      BY <1>2, <1>4, <2>2, PromotedStep
    <2>4. s = r
      BY <2>1, <2>3 DEF HeldLive, Held
    <2> QED BY <2>3, <2>4 DEF PostLock
  <1> QED BY <1>1, <1>5, <1>6

\* The lease the reaper is about to delete is not that of a running task, after
\* a step too.
LEMMA SpareToReap ==
  ASSUME PromptClaim, TypeOK, Shape, LeaseInv, [Next]_vars, NEW r \in Runner,
         pc'[r] = "unlock", task'[cur'[r].task].type \in overdue'[r],
         Held(cur[r].task, cur[r].by)'
  PROVE  task'[cur'[r].task].status # "running"
  <1> USE DEF LeaseInv
  <1>1. CASE cur'[r].task \in TaskId /\ task' = MarkLeaseExpired(cur'[r].task)
    BY <1>1 DEF MarkLeaseExpired, Row, TypeOK
  <1>2. CASE pc[r] = "unlock" /\ cur'[r] = cur[r]
    <2> DEFINE t  == cur[r].task
               ty == task[t].type
    <2>1. Inserted(t)
      BY <1>2 DEF Shape, CurShape
    <2>2. t \in TaskId /\ ty \in Type /\ task'[t].type = ty
      BY <2>1, RowStable DEF Inserted
    <2>3. ty \in overdue[r] /\ (lock'[ty] = lock[ty] \/ ~lock'[ty].live)
      BY <1>2, <2>2, OverdueStep
    <2>4. ~lock[ty].live
      BY <2>3 DEF OverdueExpired
    <2>5. lock'[ty].task = t /\ lock'[ty].by = cur[r].by
      BY <1>2, <2>2 DEF Held
    <2>6. Held(t, cur[r].by)
      <3>1. LockEvolves(ty) /\ lock[ty] \in LockRow \cup {NoLock}
        BY <2>2, LockStep DEF TypeOK
      <3>2. ASSUME NEW s \in Runner, Writes(s, ty) PROVE FALSE
        BY <2>3, <2>4, <3>2 DEF Writes
      <3>3. CASE lock'[ty] = lock[ty]
        BY <2>5, <3>3 DEF Held
      <3>4. CASE lock[ty] # NoLock /\ \E b \in BOOLEAN : lock'[ty] = [lock[ty] EXCEPT !.live = b]
        BY <2>5, <3>1, <3>4 DEF Held, LockRow
      <3>5. lock'[ty] # NoLock
        BY <2>2, <2>5, NoTaskIsNoId DEF NoLock
      <3> QED BY <3>1, <3>2, <3>3, <3>4, <3>5 DEF LockEvolves
    <2>7. task[t].status # "running"
      BY <1>2, <2>3, <2>6 DEF LeaseIsSpare, NotRunning
    <2>8. SUFFICES ASSUME task'[t].status = "running" PROVE FALSE
      BY <1>2
    <2>9. PICK s \in Runner : HeldLive(t, s)
      BY <2>2, <2>7, <2>8, PromotedStep
    <2> QED BY <2>4, <2>9 DEF HeldLive
  <1> QED BY <1>1, <1>2, PassStepFacts DEF PassEvolves

\* A running row has its lease row after a step: nobody deletes or takes over
\* the lease of a row that keeps running.
LEMMA RunningLeasedStep ==
  ASSUME PromptClaim, TypeOK, Shape, LeaseInv, [Next]_vars
  PROVE  RunningLeased'
  <1> USE DEF LeaseInv
  <1> SUFFICES ASSUME NEW t \in TaskId, task'[t].status = "running"
               PROVE  lock'[task'[t].type].task = t
    BY DEF RunningLeased
  <1> DEFINE ty == task[t].type
  <1>1. ty \in Type /\ task'[t].type = ty
    <2>1. task[t].status # "absent"
      <3>1. Evolves(t)
        BY TaskEvolves
      <3>2. \A x : task'[t] # Row("pending", x, TRUE, NoRunner)
        BY DEF Row
      <3>3. "absent" \notin Terminal
        BY DEF Terminal
      <3> QED BY <3>1, <3>2, <3>3 DEF Evolves
    <2>2. Inserted(t)
      BY <2>1 DEF Inserted, Shape, RowShape, TypeOK, TaskRow
    <2> QED BY <2>2, RowStable DEF Inserted
  <1>2. CASE task[t].status # "running"
    BY <1>1, <1>2, PromotedStep DEF HeldLive, Held
  <1>3. CASE task[t].status = "running"
    <2>1. lock[ty].task = t /\ lock[ty] # NoLock
      BY <1>3, NoTaskIsNoId DEF RunningLeased, NoLock
    <2>2. ASSUME NEW s \in Runner, Deletes(s, ty) PROVE FALSE
      <3>1. CASE /\ pc[s] = "unlock" /\ Held(cur[s].task, cur[s].by) /\ ty \in overdue[s]
                 /\ ty = task[cur[s].task].type
        <4>1. cur[s].task = t
          BY <2>1, <3>1 DEF Held
        <4> QED BY <1>3, <3>1, <4>1 DEF LeaseIsSpare, NotRunning
      <3>2. CASE pc[s] = "abandon" /\ Held(cur[s].task, s) /\ ty = task[cur[s].task].type
        <4>1. cur[s].task = t
          BY <2>1, <3>2 DEF Held
        <4> QED BY <1>3, <3>2, <4>1 DEF LeaseIsSpare, NotRunning, PostLock
      <3>3. CASE \E u \in TaskId : handler[<<s, u>>] = "release" /\ Held(u, s) /\ ty = task[u].type
        <4>1. handler[<<s, t>>] = "release"
          BY <2>1, <3>3 DEF Held
        <4> QED BY <1>3, <4>1 DEF ReleaseIsLate, Exec, Terminal
      <3> QED BY <2>2, <3>1, <3>2, <3>3 DEF Deletes
    <2>3. ASSUME NEW s \in Runner, Writes(s, ty) PROVE FALSE
      BY <1>3, <2>1, <2>3 DEF Writes, LeaseIsSpare, NotRunning, PreLock
    <2>4. CASE lock'[ty] = lock[ty]
      BY <1>1, <2>1, <2>4
    <2>5. CASE lock[ty] # NoLock /\ \E b \in BOOLEAN : lock'[ty] = [lock[ty] EXCEPT !.live = b]
      BY <1>1, <2>1, <2>5 DEF TypeOK, LockRow
    <2>6. LockEvolves(ty)
      BY <1>1, LockStep
    <2> QED BY <2>2, <2>3, <2>4, <2>5, <2>6 DEF LockEvolves
  <1> QED BY <1>2, <1>3

\* LeaseInv is preserved by every step if claims are prompt.
LEMMA LeaseStep ==
  ASSUME PromptClaim, TypeOK, Shape, LeaseInv, [Next]_vars
  PROVE  LeaseInv'
  <1>1. ActiveKeyExact' /\ LegacyFirst' /\ Owner' /\ OwnClaim'
    BY ActiveKeyStep, LegacyStep, OwnerStep, OwnClaimStep DEF LeaseInv
  <1>2. OverdueExpired' /\ ClaimHoldsLease' /\ ReleaseIsLate'
    BY OverdueExpiredStep, ClaimStep, ReleaseIsLateStep DEF LeaseInv
  <1>3. LeaseIsSpare'
    BY SpareToTake, SpareToGiveBack, SpareToReap DEF LeaseIsSpare, NotRunning
  <1>4. RunningLeased'
    BY RunningLeasedStep
  <1> QED BY <1>1, <1>2, <1>3, <1>4 DEF LeaseInv

\* LeaseInv holds initially if no two legacy rows have the same type.
LEMMA LeaseInit ==
  ASSUME LoneLegacy, Init
  PROVE  LeaseInv
  <1>1. \A t \in TaskId :
          /\ t \in DOMAIN Legacy => task[t].status = "pending" /\ task[t].type = Legacy[t]
          /\ t \notin DOMAIN Legacy => task[t].status = "absent"
    BY LegacyFacts DEF Init, AbsentRow, PendingRow, Row
  <1>2. ActiveKeyExact
    BY LegacyFacts DEF Init, ActiveKeyExact, AbsentRow, PendingRow, Row, Active
  <1>3. LegacyFirst
    <2>1. ASSUME NEW t \in DOMAIN Legacy, NEW u \in Rows(task[t].type) PROVE u = t
      <3>1. t \in TaskId /\ u \in TaskId /\ task[u].status # "absent" /\ task[u].type = task[t].type
        BY <2>1, LegacyFacts DEF Rows
      <3>2. u \in DOMAIN Legacy
        BY <1>1, <3>1
      <3> QED BY <1>1, <3>1, <3>2 DEF LoneLegacy
    <2>2. \A t \in DOMAIN Legacy : task[t].status # "absent"
      BY <1>1, LegacyFacts
    <2>3. \A r \in Runner : due[r] = {}
      BY DEF Init
    <2> QED BY <2>1, <2>2, <2>3 DEF LegacyFirst
  <1>4. Owner /\ OwnClaim /\ OverdueExpired /\ ClaimHoldsLease /\ LeaseIsSpare /\ ReleaseIsLate
    BY DEF Init, Owner, OwnClaim, OverdueExpired, ClaimHoldsLease, LeaseIsSpare, ReleaseIsLate,
           Exec, PreLock, PostLock
  <1>5. RunningLeased
    BY <1>1 DEF RunningLeased
  <1> QED BY <1>2, <1>3, <1>4, <1>5 DEF LeaseInv

\* A running row never loses its lease row, if no claim outlasts the lease it has
\* just written and no two legacy rows have the same type: the reaper, a
\* takeover, an abandoned claim and a late handler can each delete or rewrite a
\* lease, but never that of a row that is still running, so every running row is
\* found again through its lease.
THEOREM RunningHasLeaseCorrect ==
  ASSUME PromptClaim, LoneLegacy
  PROVE  Spec => []RunningHasLease
  <1>1. Init => LeaseInv
    BY LeaseInit
  <1>2. TypeOK /\ Shape /\ LeaseInv /\ [Next]_vars => LeaseInv'
    BY LeaseStep
  <1>3. LeaseInv => RunningHasLease
    BY DEF LeaseInv, RunningLeased, RunningHasLease
  <1> QED BY <1>1, <1>2, <1>3, TypeInvariant, PTL DEF Spec

\* While its holder claims or runs, a live lease never passes to another runner
\* or task, and it is deleted only when its task is not running: a lease that has
\* not expired protects the task it was taken for.
THEOREM LiveLeaseKeptCorrect ==
  ASSUME PromptClaim, LoneLegacy
  PROVE  Spec => LiveLeaseIsKept
  <1>1. Init => LeaseInv
    BY LeaseInit
  <1>2. TypeOK /\ Shape /\ LeaseInv /\ [Next]_vars => LeaseInv'
    BY LeaseStep
  <1>3. TypeOK /\ Shape /\ LeaseInv /\ [Next]_vars =>
          [\A ty \in Type :
            LET l == lock[ty] IN
            l.live => \/ lock'[ty].task = l.task /\ lock'[ty].by = l.by
                      \/ lock'[ty] = NoLock /\ task'[l.task].status # "running"]_vars
    <2> SUFFICES ASSUME TypeOK, Shape, LeaseInv, [Next]_vars, NEW ty \in Type, lock[ty].live
                 PROVE  \/ lock'[ty].task = lock[ty].task /\ lock'[ty].by = lock[ty].by
                        \/ lock'[ty] = NoLock /\ task'[lock[ty].task].status # "running"
      OBVIOUS
    <2> USE DEF LeaseInv
    <2> DEFINE t == lock[ty].task
    <2>1. lock[ty] # NoLock /\ lock[ty] \in LockRow /\ t \in TaskId /\ task[t].type = ty
      BY DEF NoLock, TypeOK, LockRow, Shape, LockShape
    <2>2. \A s \in Runner : ty \notin overdue[s]
      BY DEF OverdueExpired
    <2>3. ASSUME NEW s \in Runner, Writes(s, ty) PROVE FALSE
      BY <2>1, <2>2, <2>3 DEF Writes
    <2>4. CASE lock'[ty] = lock[ty]
      BY <2>4
    <2>5. CASE \E b \in BOOLEAN : lock'[ty] = [lock[ty] EXCEPT !.live = b]
      BY <2>1, <2>5 DEF LockRow
    <2>6. ASSUME NEW s \in Runner, Deletes(s, ty), lock'[ty] = NoLock
          PROVE  task'[t].status # "running"
      <3>1. task[t].status # "running"
        <4>1. CASE pc[s] = "abandon" /\ Held(cur[s].task, s) /\ ty = task[cur[s].task].type
          <5>1. cur[s].task = t
            BY <4>1 DEF Held
          <5> QED BY <4>1, <5>1 DEF LeaseIsSpare, NotRunning, PostLock
        <4>2. CASE \E u \in TaskId : handler[<<s, u>>] = "release" /\ Held(u, s) /\ ty = task[u].type
          <5>1. handler[<<s, t>>] = "release"
            BY <4>2 DEF Held
          <5> QED BY <2>1, <5>1 DEF ReleaseIsLate, Exec, Terminal
        <4> QED BY <2>2, <2>6, <4>1, <4>2 DEF Deletes
      <3>2. lock' # lock
        BY <2>1, <2>6
      <3> QED BY <2>1, <3>1, <3>2, PromotedStep
    <2>7. LockEvolves(ty)
      BY LockStep
    <2> QED BY <2>3, <2>4, <2>5, <2>6, <2>7 DEF LockEvolves
  <1> QED BY <1>1, <1>2, <1>3, TypeInvariant, PTL DEF Spec, LiveLeaseIsKept

-----------------------------------------------------------------------------
(* The history.                                                            *)

\* A nonempty set of ids has a largest one.
LEMMA LargestId ==
  ASSUME NEW T \in SUBSET TaskId, T # {}
  PROVE  \E x \in T : \A y \in T : y <= x
  <1> DEFINE U == {MaxTask - t : t \in T}
             R == OpToRel(<, Nat)
  <1>1. U \subseteq Nat /\ U # {}
    <2>1. \A t \in T : MaxTask - t \in Nat
      BY BoundsAssumption DEF TaskId
    <2> QED BY <2>1, Zenon
  <1>2. PICK x \in U : \A y \in U : <<y, x>> \notin R
    <2>1. IsWellFoundedOn(R, Nat)
      BY NatLessThanWellFounded
    <2> HIDE DEF R, U
    <2> QED BY <1>1, <2>1, WFMin
  <1>3. ASSUME NEW y \in U PROVE x <= y
    <2>1. x \in Nat /\ y \in Nat
      BY <1>1
    <2>2. ~(y < x)
      <3>1. <<y, x>> \notin R
        BY <1>2
      <3> QED BY <2>1, <3>1 DEF OpToRel
    <2> QED BY <2>1, <2>2
  <1>4. PICK t \in T : x = MaxTask - t
    OBVIOUS
  <1>5. ASSUME NEW y \in T PROVE y <= t
    <2>1. x <= MaxTask - y
      BY <1>3
    <2> QED BY <1>4, <2>1, BoundsAssumption DEF TaskId
  <1> QED BY <1>5

\* Ids are given out in order.
InOrder == \A t, u \in TaskId : t < u /\ task[t].status = "absent" => task[u].status = "absent"

\* Between the query and the delete of DeleteSystemTaskHistory: every row it may
\* delete existed when it read the largest ids, and a newer row of its type is
\* among the ids it keeps.
Present(t) == task[t].status \notin {"absent", "deleted"}

PurgeInv ==
    purge # NoPurge =>
        \A t \in TaskId : t <= purge.newest =>
            /\ task[t].status # "absent"
            /\ Present(t) /\ t \notin purge.keep =>
                \E u \in purge.keep : u > t /\ Present(u) /\ task[u].type = task[t].type

\* An inserted row keeps its type and is deleted only by a purge, for good.
LEMMA PresentStep ==
  ASSUME TypeOK, Shape, [Next]_vars, NEW t \in TaskId, task[t].status # "absent"
  PROVE  /\ task'[t].status # "absent" /\ task'[t].type = task[t].type
         /\ task[t].status = "deleted" => task'[t].status = "deleted"
         /\ Present(t) => Present(t)' \/ (Evolves(t) /\ purge # NoPurge /\ purge' = NoPurge)
  <1>1. Inserted(t)
    BY DEF Inserted, Shape, RowShape, TypeOK, TaskRow
  <1>2. Inserted(t)' /\ task'[t].type = task[t].type /\ RowShape'
    BY <1>1, RowStable
  <1>3. task'[t].status # "absent"
    BY <1>2, NullAssumption DEF Inserted, RowShape, NoType
  <1>4. Evolves(t)
    BY TaskEvolves
  <1>5. task[t].status = "deleted" => task'[t].status = "deleted"
    BY <1>4 DEF Evolves, Row, Terminal
  <1>6. ASSUME Present(t), task'[t].status = "deleted" PROVE purge # NoPurge /\ purge' = NoPurge
    <2>1. task'[t] # task[t]
      BY <1>6 DEF Present
    <2>2. \A s \in Terminal \cup {"pending", "running"} : \A ty, k, by : task'[t] # Row(s, ty, k, by)
      BY <1>6 DEF Row, Terminal
    <2> QED BY <1>4, <2>1, <2>2, Zenon DEF Evolves
  <1> QED BY <1>2, <1>3, <1>4, <1>5, <1>6 DEF Present

\* Ids are in order after a step.
LEMMA InOrderStep ==
  ASSUME TypeOK, Shape, ActiveKeyExact, InOrder, [Next]_vars
  PROVE  InOrder'
  <1> SUFFICES ASSUME NEW t \in TaskId, NEW u \in TaskId, t < u, task'[t].status = "absent",
                      task'[u].status # "absent"
               PROVE  FALSE
    BY DEF InOrder
  <1>1. task[t].status = "absent"
    BY PresentStep
  <1>2. task[u].status = "absent"
    BY <1>1 DEF InOrder
  <1>3. \E ty \in Type : Insert(ty)
    <2>1. task[u].key = FALSE
      BY <1>2 DEF ActiveKeyExact, Active, TypeOK, TaskRow
    <2>2. Evolves(u)
      BY TaskEvolves
    <2>3. "absent" \notin Terminal
      BY DEF Terminal
    <2>4. PICK ty \in Type : task'[u] = Row("pending", ty, TRUE, NoRunner)
      BY <1>2, <2>2, <2>3 DEF Evolves
    <2>5. task'[u].key
      BY <2>4 DEF Row
    <2> QED BY <2>1, <2>5, KeyStep
  <1>4. PICK ty \in Type, x \in TaskId :
          /\ \A y \in 1..(x - 1) : task[y].status # "absent"
          /\ task' = [task EXCEPT ![x] = PendingRow(ty, TRUE)]
    BY <1>3 DEF Insert
  <1>5. u = x
    BY <1>2, <1>4 DEF TypeOK
  <1>6. t \in 1..(x - 1)
    BY <1>5 DEF TaskId
  <1> QED BY <1>1, <1>4, <1>6

\* What the snapshot of DeleteSystemTaskHistory promises survives every step
\* between the query and the delete.
LEMMA PurgeStep ==
  ASSUME TypeOK, Shape, InOrder, PurgeInv, [Next]_vars
  PROVE  PurgeInv'
  <1>1. CASE PurgeDelete
    BY <1>1 DEF PurgeDelete, PurgeInv
  <1>2. CASE PurgeSelect
    <2>1. PICK n \in UNION {Latest(ty) : ty \in Type} :
            purge' = [keep |-> UNION {Latest(ty) : ty \in Type}, newest |-> n]
      BY <1>2 DEF PurgeSelect
    <2>2. task' = task
      BY <1>2 DEF PurgeSelect
    <2>3. n \in TaskId /\ task[n].status # "absent"
      BY <2>1 DEF Latest, Rows
    <2>4. ASSUME NEW t \in TaskId, t <= n PROVE task[t].status # "absent"
      BY <2>3, <2>4 DEF InOrder, TaskId
    <2>5. ASSUME NEW t \in TaskId, Present(t), t \notin purge'.keep
          PROVE  \E u \in purge'.keep : u > t /\ Present(u) /\ task[u].type = task[t].type
      <3> DEFINE ty == task[t].type
      <3>1. ty \in Type /\ t \in Rows(ty)
        BY <2>5 DEF Present, Rows, Shape, RowShape, TypeOK, TaskRow
      <3>2. Rows(ty) \in SUBSET TaskId
        BY DEF Rows
      <3>3. PICK u \in Rows(ty) : \A y \in Rows(ty) : y <= u
        BY <3>1, <3>2, LargestId
      <3>4. u \in Latest(ty)
        BY <3>3 DEF Latest
      <3>5. u \in purge'.keep
        BY <2>1, <3>1, <3>4
      <3>6. t <= u /\ t # u /\ t \in Nat /\ u \in Nat
        BY <2>5, <3>1, <3>2, <3>3, <3>5 DEF TaskId
      <3>7. u > t
        BY <3>6
      <3> QED BY <3>3, <3>5, <3>7 DEF Rows, Present
    <2>6. purge'.newest = n
      BY <2>1
    <2> QED BY <2>2, <2>4, <2>5, <2>6 DEF PurgeInv, Present
  <1>3. CASE UNCHANGED hist
    <2> SUFFICES ASSUME purge # NoPurge, NEW t \in TaskId, t <= purge.newest
                 PROVE  /\ task'[t].status # "absent"
                        /\ Present(t)' /\ t \notin purge.keep =>
                            \E u \in purge.keep :
                                u > t /\ Present(u)' /\ task'[u].type = task'[t].type
      BY <1>3 DEF hist, PurgeInv
    <2>1. task[t].status # "absent"
      BY DEF PurgeInv
    <2>2. /\ task'[t].status # "absent" /\ task'[t].type = task[t].type
          /\ Present(t)' => Present(t)
      BY <2>1, PresentStep DEF Present
    <2>3. ASSUME Present(t)', t \notin purge.keep
          PROVE  \E u \in purge.keep : u > t /\ Present(u)' /\ task'[u].type = task'[t].type
      <3>1. PICK u \in purge.keep : u > t /\ Present(u) /\ task[u].type = task[t].type
        BY <2>2, <2>3 DEF PurgeInv
      <3>2. u \in TaskId /\ task[u].status # "absent"
        BY <3>1 DEF TypeOK, Present
      <3>3. Present(u)' /\ task'[u].type = task[u].type
        BY <1>3, <3>1, <3>2, PresentStep DEF hist
      <3> QED BY <2>2, <3>1, <3>3
    <2> QED BY <2>2, <2>3
  <1> QED BY <1>1, <1>2, <1>3, HistStep

\* Purging the history never deletes the newest row of a type, whatever is
\* inserted, finished or purged between the query for the largest ids and the
\* delete: the scheduler never loses the row it computes the next run from.
THEOREM PurgeKeepsLatestCorrect == Spec => PurgeKeepsLatest
  <1>1. Init => InOrder /\ PurgeInv
    <2>1. SUFFICES ASSUME Init PROVE InOrder
      BY DEF Init, PurgeInv
    <2>2. PICK n \in 0..MaxTask : DOMAIN Legacy = 1..n
      BY LegacyAssumption
    <2>3. \A t \in TaskId : task[t].status = "absent" <=> t \notin DOMAIN Legacy
      BY <2>1 DEF Init, AbsentRow, PendingRow, Row
    <2> QED BY <2>2, <2>3 DEF InOrder, TaskId
  <1>2. TypeOK /\ Shape /\ ActiveKeyExact /\ InOrder /\ PurgeInv /\ [Next]_vars
          => InOrder' /\ PurgeInv'
    BY InOrderStep, PurgeStep
  <1>3. TypeOK /\ Shape /\ PurgeInv /\ [Next]_vars =>
          [\A t \in TaskId :
            task[t].status # "deleted" /\ task'[t].status = "deleted" =>
                \E u \in TaskId : /\ u > t /\ task'[u].type = task[t].type
                                  /\ task'[u].status \notin {"absent", "deleted"}]_vars
    <2> SUFFICES ASSUME TypeOK, Shape, PurgeInv, [Next]_vars, NEW t \in TaskId,
                        task[t].status # "deleted", task'[t].status = "deleted"
                 PROVE  \E u \in TaskId : /\ u > t /\ task'[u].type = task[t].type
                                          /\ task'[u].status \notin {"absent", "deleted"}
      OBVIOUS
    <2>1. /\ task[t].status \in Terminal /\ purge # NoPurge
          /\ t < purge.newest /\ t \notin purge.keep
          /\ \A u \in purge.keep : task'[u] = task[u]
      <3>1. Evolves(t)
        BY TaskEvolves
      <3>2. task'[t] # task[t]
        OBVIOUS
      <3>3. \A s \in Terminal \cup {"pending", "running"} : \A ty, k, by : task'[t] # Row(s, ty, k, by)
        BY DEF Row, Terminal
      <3> QED BY <3>1, <3>2, <3>3, Zenon DEF Evolves
    <2>2. Present(t) /\ t <= purge.newest
      BY <2>1 DEF Present, Terminal, TypeOK, TaskId, NoTask
    <2>3. PICK u \in purge.keep : u > t /\ Present(u) /\ task[u].type = task[t].type
      BY <2>1, <2>2 DEF PurgeInv
    <2>4. u \in TaskId
      BY <2>3 DEF TypeOK
    <2> QED BY <2>1, <2>3, <2>4 DEF Present
  <1> QED BY <1>1, <1>2, <1>3, TypeInvariant, ActiveKeyCorrect, PTL DEF Spec, PurgeKeepsLatest

=============================================================================
