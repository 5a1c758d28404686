----------------------- MODULE UserSessionCacheProofs -----------------------
(* Proofs about UserSessionCache, for every set of requests, every TTL and  *)
(* every bound.                                                             *)
EXTENDS UserSessionCache, TLAPS

Pc == {"idle", "load", "swap", "advance", "deny", "check", "eval", "filled",
       "confirm", "ok", "fence", "commit", "tombstone"}
Kind == {"read", "rotate", "advance", "revoke", "revokeLocked", "revokeAll"}

\* The types, in the parts that the actions touch.
TypeRow  == active \in BOOLEAN /\ version \in Versions /\ left \in [Versions -> Nat]
            /\ holder \in Proc \cup {NoProc}
TypeHash == status \in {"none", "active"} \cup Deny /\ cached \in Versions /\ exp \in Nat
TypePc   == pc \in [Proc -> Pc] /\ kind \in [Proc -> Kind] /\ late \in [Proc -> BOOLEAN]
TypeReq  == start \in [Proc -> Nat] /\ ver \in [Proc -> Versions] /\ deadline \in [Proc -> Nat]
TypeRest == now \in Nat /\ faults \in 0..MaxFaults /\ sealed \in BOOLEAN /\ sealAt \in Nat
Locked   == holder # NoProc => pc[holder] \in {"fence", "commit"}

TypeAll == TypeRow /\ TypeHash /\ TypePc /\ TypeReq /\ TypeRest

\* The type invariant is the types of the variables and the row lock.
LEMMA TypeSplit == TypeOK <=> TypeAll /\ Locked
  BY DEF TypeOK, TypeAll, TypeRow, TypeHash, TypePc, TypeReq, TypeRest, Locked, Pc, Kind


\* The start is well formed.
LEMMA TypeInit == Init => TypeAll /\ Locked
  <1> SUFFICES ASSUME Init PROVE TypeAll /\ Locked
    OBVIOUS
  <1>1. 1 \in Versions
    BY SessionAssumption DEF Versions
  <1>2. TypeRow
    BY <1>1 DEF Init, TypeRow
  <1>3. TypeHash
    BY <1>1 DEF Init, TypeHash
  <1>4. TypePc
    BY DEF Init, TypePc, Pc, Kind
  <1>5. TypeReq
    BY <1>1 DEF Init, TypeReq
  <1>6. TypeRest
    <2>1. now \in Nat /\ sealAt \in Nat /\ faults \in 0..MaxFaults
      BY SessionAssumption DEF Init
    <2>2. sealed \in BOOLEAN
      BY DEF Init
    <2> QED BY <2>1, <2>2 DEF TypeRest
  <1>7. Locked
    BY DEF Init, Locked
  <1> QED BY <1>2, <1>3, <1>4, <1>5, <1>6, <1>7 DEF TypeAll

\* A fault is counted within its bound.
LEMMA FaultBound == ASSUME faults \in 0..MaxFaults, Ok \/ Fault PROVE faults' \in 0..MaxFaults
  BY SessionAssumption DEF Ok, Fault

\* A step of a request succeeds or costs one failure.
LEMMA OkOrFault == ASSUME NEW p \in Proc, Step(p) PROVE Ok \/ Fault
  BY Zenon DEF Step, ReadCache, BeginChange, LoadRow, CacheDenied, SwapRefresh, AdvanceVersion, CheckDeadline, Fill, Filled, Confirm, Finish, RevokeRead, Fence, Commit, Tombstone, Crash

\* What a request that returns leaves behind.
LEMMA LeaveType ==
  ASSUME TypeAll, NEW p \in Proc, Leave(p)
  PROVE  TypePc' /\ TypeReq'
  <1>1. 1 \in Versions
    BY SessionAssumption DEF Versions
  <1>2. TypePc'
    BY DEF Leave, Goto, TypeAll, TypePc, Pc, Kind
  <1>3. TypeReq'
    BY <1>1 DEF Leave, TypeAll, TypeReq
  <1> QED BY <1>2, <1>3

\* A fence or a tombstone leaves a well-formed hash.
LEMMA PutDenyType ==
  ASSUME TypeAll, NEW p \in Proc, NEW s \in Deny, PutDeny(s, ver[p])
  PROVE  TypeHash'
  <1>1. ver[p] \in Versions /\ now \in Nat
    BY DEF TypeAll, TypeReq, TypeRest
  <1>2. cached' \in Versions /\ status' \in {"none", "active"} \cup Deny
    BY <1>1 DEF PutDeny
  <1>3. exp' \in Nat
    BY <1>1, SessionAssumption DEF PutDeny, Min
  <1> QED BY <1>2, <1>3 DEF TypeHash

\* A fill leaves a well-formed hash.
LEMMA PutActiveType ==
  ASSUME TypeAll, NEW p \in Proc, PutActive(ver[p], deadline[p])
  PROVE  TypeHash'
  BY SessionAssumption DEF PutActive, Min, TypeAll, TypeReq, TypeHash

\* The row keeps its type.
LEMMA StepTypeRow ==
  ASSUME TypeAll, NEW p \in Proc, Step(p)
  PROVE  TypeRow'
  <1>1. CASE ReadCache(p)
    BY <1>1, SessionAssumption DEF ReadCache, Begins, Goto, TakeDeadline, row, TypeAll, TypeRow, TypeRest, Versions
  <1>2. CASE BeginChange(p)
    BY <1>2, SessionAssumption DEF BeginChange, Begins, Goto, TakeDeadline, row, TypeAll, TypeRow, TypeRest, Versions
  <1>3. CASE LoadRow(p)
    BY <1>3, SessionAssumption DEF LoadRow, Goto, Leave, row, TypeAll, TypeRow, TypeRest, Versions
  <1>4. CASE CacheDenied(p)
    BY <1>4, SessionAssumption DEF CacheDenied, PutDeny, Min, Goto, Leave, row, TypeAll, TypeRow, TypeRest, Versions
  <1>5. CASE SwapRefresh(p)
    BY <1>5, SessionAssumption DEF SwapRefresh, Stay, Goto, TakeDeadline, Leave, row, TypeAll, TypeRow, TypeRest, Versions
  <1>6. CASE AdvanceVersion(p)
    BY <1>6, SessionAssumption DEF AdvanceVersion, Goto, Leave, row, TypeAll, TypeRow, TypeRest, Versions
  <1>7. CASE CheckDeadline(p)
    BY <1>7, SessionAssumption DEF CheckDeadline, InTime, Stay, Goto, Leave, row, TypeAll, TypeRow, TypeRest, Versions
  <1>8. CASE Fill(p)
    BY <1>8, SessionAssumption DEF Fill, PutActive, Min, Stay, Goto, Leave, row, TypeAll, TypeRow, TypeRest, Versions
  <1>9. CASE Filled(p)
    BY <1>9, SessionAssumption DEF Filled, InTime, Stay, Goto, Leave, row, TypeAll, TypeRow, TypeRest, Versions
  <1>10. CASE Confirm(p)
    BY <1>10, SessionAssumption DEF Confirm, Stay, Goto, Leave, row, TypeAll, TypeRow, TypeRest, Versions
  <1>11. CASE Finish(p)
    BY <1>11, SessionAssumption DEF Finish, Goto, Leave, row, TypeAll, TypeRow, TypeRest, Versions
  <1>12. CASE RevokeRead(p)
    BY <1>12, SessionAssumption DEF RevokeRead, Begins, Goto, row, TypeAll, TypeRow, TypeRest, Versions
  <1>13. CASE Fence(p)
    BY <1>13, SessionAssumption DEF Fence, PutDeny, Min, Stay, Goto, Leave, Unlock, row, TypeAll, TypeRow, TypeRest, Versions
  <1>14. CASE Commit(p)
    BY <1>14, SessionAssumption DEF Commit, Goto, Leave, Unlock, row, TypeAll, TypeRow, TypeRest, Versions
  <1>15. CASE Tombstone(p)
    BY <1>15, SessionAssumption DEF Tombstone, PutDeny, Min, Goto, Leave, row, TypeAll, TypeRow, TypeRest, Versions
  <1>16. CASE Crash(p)
    BY <1>16, SessionAssumption DEF Crash, Goto, Leave, Unlock, row, TypeAll, TypeRow, TypeRest, Versions
  <1> QED BY Zenon, <1>1, <1>2, <1>3, <1>4, <1>5, <1>6, <1>7, <1>8, <1>9, <1>10, <1>11, <1>12, <1>13, <1>14, <1>15, <1>16 DEF Step

\* The hash keeps its type.
LEMMA StepTypeHash ==
  ASSUME TypeAll, NEW p \in Proc, Step(p)
  PROVE  TypeHash'
  <1>1. CASE ReadCache(p)
    BY <1>1 DEF ReadCache, Begins, Goto, TakeDeadline, hash, TypeAll, TypeHash
  <1>2. CASE BeginChange(p)
    BY <1>2 DEF BeginChange, Begins, Goto, TakeDeadline, hash, TypeAll, TypeHash
  <1>3. CASE LoadRow(p)
    BY <1>3 DEF LoadRow, Goto, hash, TypeAll, TypeHash
  <1>4. CASE CacheDenied(p)
    BY <1>4, PutDenyType DEF CacheDenied, Goto, hash, TypeAll, TypeHash, Deny
  <1>5. CASE SwapRefresh(p)
    BY <1>5 DEF SwapRefresh, Stay, Goto, TakeDeadline, hash, TypeAll, TypeHash
  <1>6. CASE AdvanceVersion(p)
    BY <1>6 DEF AdvanceVersion, Goto, hash, TypeAll, TypeHash
  <1>7. CASE CheckDeadline(p)
    BY <1>7 DEF CheckDeadline, InTime, Stay, Goto, hash, TypeAll, TypeHash
  <1>8. CASE Fill(p)
    BY <1>8, PutActiveType DEF Fill, Stay, Goto, hash, TypeAll, TypeHash
  <1>9. CASE Filled(p)
    BY <1>9 DEF Filled, InTime, Stay, Goto, hash, TypeAll, TypeHash
  <1>10. CASE Confirm(p)
    BY <1>10 DEF Confirm, Stay, Goto, hash, TypeAll, TypeHash
  <1>11. CASE Finish(p)
    BY <1>11 DEF Finish, Goto, hash, TypeAll, TypeHash
  <1>12. CASE RevokeRead(p)
    BY <1>12 DEF RevokeRead, Begins, Goto, hash, TypeAll, TypeHash
  <1>13. CASE Fence(p)
    BY <1>13, PutDenyType DEF Fence, Stay, Goto, Unlock, hash, TypeAll, TypeHash, Deny
  <1>14. CASE Commit(p)
    BY <1>14 DEF Commit, Goto, Unlock, hash, TypeAll, TypeHash
  <1>15. CASE Tombstone(p)
    BY <1>15, PutDenyType DEF Tombstone, Goto, hash, TypeAll, TypeHash, Deny
  <1>16. CASE Crash(p)
    BY <1>16 DEF Crash, Goto, Unlock, hash, TypeAll, TypeHash
  <1> QED BY Zenon, <1>1, <1>2, <1>3, <1>4, <1>5, <1>6, <1>7, <1>8, <1>9, <1>10, <1>11, <1>12, <1>13, <1>14, <1>15, <1>16 DEF Step

\* The steps of the requests keep their type.
LEMMA StepTypePc ==
  ASSUME TypeAll, NEW p \in Proc, Step(p)
  PROVE  TypePc'
  <1>1. CASE ReadCache(p)
    BY <1>1 DEF ReadCache, Begins, Goto, TakeDeadline, req, TypeAll, TypePc, TypeRest, Pc, Kind
  <1>2. CASE BeginChange(p)
    BY <1>2 DEF BeginChange, Begins, Goto, TakeDeadline, req, TypeAll, TypePc, TypeRest, Pc, Kind
  <1>3. CASE LoadRow(p)
    BY <1>3, LeaveType DEF LoadRow, Goto, req, TypeAll, TypePc, TypeRest, Pc, Kind
  <1>4. CASE CacheDenied(p)
    BY <1>4, LeaveType DEF CacheDenied, Goto, req, TypeAll, TypePc, TypeRest, Pc, Kind
  <1>5. CASE SwapRefresh(p)
    BY <1>5, LeaveType DEF SwapRefresh, Stay, Goto, TakeDeadline, req, TypeAll, TypePc, TypeRest, Pc, Kind
  <1>6. CASE AdvanceVersion(p)
    BY <1>6, LeaveType DEF AdvanceVersion, Goto, req, TypeAll, TypePc, TypeRest, Pc, Kind
  <1>7. CASE CheckDeadline(p)
    BY <1>7, LeaveType DEF CheckDeadline, InTime, Stay, Goto, req, TypeAll, TypePc, TypeRest, Pc, Kind
  <1>8. CASE Fill(p)
    BY <1>8, LeaveType DEF Fill, Stay, Goto, req, TypeAll, TypePc, TypeRest, Pc, Kind
  <1>9. CASE Filled(p)
    BY <1>9, LeaveType DEF Filled, InTime, Stay, Goto, req, TypeAll, TypePc, TypeRest, Pc, Kind
  <1>10. CASE Confirm(p)
    BY <1>10, LeaveType DEF Confirm, Stay, Goto, req, TypeAll, TypePc, TypeRest, Pc, Kind
  <1>11. CASE Finish(p)
    BY <1>11, LeaveType DEF Finish, Goto, req, TypeAll, TypePc, TypeRest, Pc, Kind
  <1>12. CASE RevokeRead(p)
    BY <1>12 DEF RevokeRead, Begins, Goto, req, TypeAll, TypePc, TypeRest, Pc, Kind
  <1>13. CASE Fence(p)
    BY <1>13, LeaveType DEF Fence, Stay, Goto, Unlock, req, TypeAll, TypePc, TypeRest, Pc, Kind
  <1>14. CASE Commit(p)
    BY <1>14, LeaveType DEF Commit, Goto, Unlock, req, TypeAll, TypePc, TypeRest, Pc, Kind
  <1>15. CASE Tombstone(p)
    BY <1>15, LeaveType DEF Tombstone, Goto, req, TypeAll, TypePc, TypeRest, Pc, Kind
  <1>16. CASE Crash(p)
    BY <1>16, LeaveType DEF Crash, Goto, Unlock, req, TypeAll, TypePc, TypeRest, Pc, Kind
  <1> QED BY Zenon, <1>1, <1>2, <1>3, <1>4, <1>5, <1>6, <1>7, <1>8, <1>9, <1>10, <1>11, <1>12, <1>13, <1>14, <1>15, <1>16 DEF Step

\* The locals of the requests keep their type.
LEMMA StepTypeReq ==
  ASSUME TypeAll, NEW p \in Proc, Step(p)
  PROVE  TypeReq'
  <1>1. CASE ReadCache(p)
    <2>1. now \in Nat /\ now + CacheTTL \in Nat
      BY SessionAssumption DEF TypeAll, TypeRest
    <2> QED BY <1>1, <2>1 DEF ReadCache, Begins, Goto, TakeDeadline, req, TypeAll, TypeReq, TypeHash, TypeRow
  <1>2. CASE BeginChange(p)
    <2>1. now \in Nat /\ now + CacheTTL \in Nat
      BY SessionAssumption DEF TypeAll, TypeRest
    <2> QED BY <1>2, <2>1 DEF BeginChange, Begins, Goto, TakeDeadline, req, TypeAll, TypeReq, TypeHash, TypeRow
  <1>3. CASE LoadRow(p)
    BY <1>3, LeaveType DEF LoadRow, Goto, req, TypeAll, TypeReq, TypeHash, TypeRow, TypeRest
  <1>4. CASE CacheDenied(p)
    BY <1>4, LeaveType DEF CacheDenied, Goto, req, TypeAll, TypeReq, TypeHash, TypeRow, TypeRest
  <1>5. CASE SwapRefresh(p)
    <2>1. now \in Nat /\ now + CacheTTL \in Nat
      BY SessionAssumption DEF TypeAll, TypeRest
    <2> QED BY <1>5, <2>1, LeaveType DEF SwapRefresh, Stay, Goto, TakeDeadline, req, TypeAll, TypeReq, TypeHash, TypeRow
  <1>6. CASE AdvanceVersion(p)
    <2>1. version < MaxVersion => version + 1 \in Versions
      BY SessionAssumption DEF TypeAll, TypeRow, Versions
    <2> QED BY <1>6, <2>1, LeaveType DEF AdvanceVersion, Goto, TypeAll, TypeReq, TypeRow
  <1>7. CASE CheckDeadline(p)
    BY <1>7, LeaveType DEF CheckDeadline, InTime, Stay, Goto, req, TypeAll, TypeReq, TypeHash, TypeRow, TypeRest
  <1>8. CASE Fill(p)
    BY <1>8, LeaveType DEF Fill, Stay, Goto, req, TypeAll, TypeReq, TypeHash, TypeRow, TypeRest
  <1>9. CASE Filled(p)
    BY <1>9, LeaveType DEF Filled, InTime, Stay, Goto, req, TypeAll, TypeReq, TypeHash, TypeRow, TypeRest
  <1>10. CASE Confirm(p)
    BY <1>10, LeaveType DEF Confirm, Stay, Goto, req, TypeAll, TypeReq, TypeHash, TypeRow, TypeRest
  <1>11. CASE Finish(p)
    BY <1>11, LeaveType DEF Finish, Goto, req, TypeAll, TypeReq, TypeHash, TypeRow, TypeRest
  <1>12. CASE RevokeRead(p)
    BY <1>12 DEF RevokeRead, Begins, Goto, req, TypeAll, TypeReq, TypeHash, TypeRow, TypeRest
  <1>13. CASE Fence(p)
    BY <1>13, LeaveType DEF Fence, Stay, Goto, Unlock, req, TypeAll, TypeReq, TypeHash, TypeRow, TypeRest
  <1>14. CASE Commit(p)
    BY <1>14, LeaveType DEF Commit, Goto, Unlock, req, TypeAll, TypeReq, TypeHash, TypeRow, TypeRest
  <1>15. CASE Tombstone(p)
    BY <1>15, LeaveType DEF Tombstone, Goto, req, TypeAll, TypeReq, TypeHash, TypeRow, TypeRest
  <1>16. CASE Crash(p)
    BY <1>16, LeaveType DEF Crash, Goto, Unlock, req, TypeAll, TypeReq, TypeHash, TypeRow, TypeRest
  <1> QED BY Zenon, <1>1, <1>2, <1>3, <1>4, <1>5, <1>6, <1>7, <1>8, <1>9, <1>10, <1>11, <1>12, <1>13, <1>14, <1>15, <1>16 DEF Step

\* The lock is held by a request that is revoking the session.
LEMMA StepLocked ==
  ASSUME TypeAll, Locked, NEW p \in Proc, Step(p)
  PROVE  Locked'
  <1>1. CASE ReadCache(p)
    BY <1>1, SessionAssumption DEF ReadCache, Begins, Goto, TakeDeadline, row, TypeAll, TypePc, TypeRow, Locked, Pc
  <1>2. CASE BeginChange(p)
    BY <1>2, SessionAssumption DEF BeginChange, Begins, Goto, TakeDeadline, row, TypeAll, TypePc, TypeRow, Locked, Pc
  <1>3. CASE LoadRow(p)
    BY <1>3, SessionAssumption DEF LoadRow, Goto, Leave, row, TypeAll, TypePc, TypeRow, Locked, Pc
  <1>4. CASE CacheDenied(p)
    BY <1>4, SessionAssumption DEF CacheDenied, Goto, Leave, row, TypeAll, TypePc, TypeRow, Locked, Pc
  <1>5. CASE SwapRefresh(p)
    BY <1>5, SessionAssumption DEF SwapRefresh, Stay, Goto, TakeDeadline, Leave, row, TypeAll, TypePc, TypeRow, Locked, Pc
  <1>6. CASE AdvanceVersion(p)
    BY <1>6, SessionAssumption DEF AdvanceVersion, Goto, Leave, row, TypeAll, TypePc, TypeRow, Locked, Pc
  <1>7. CASE CheckDeadline(p)
    BY <1>7, SessionAssumption DEF CheckDeadline, InTime, Stay, Goto, Leave, row, TypeAll, TypePc, TypeRow, Locked, Pc
  <1>8. CASE Fill(p)
    BY <1>8, SessionAssumption DEF Fill, Stay, Goto, Leave, row, TypeAll, TypePc, TypeRow, Locked, Pc
  <1>9. CASE Filled(p)
    BY <1>9, SessionAssumption DEF Filled, InTime, Stay, Goto, Leave, row, TypeAll, TypePc, TypeRow, Locked, Pc
  <1>10. CASE Confirm(p)
    BY <1>10, SessionAssumption DEF Confirm, Stay, Goto, Leave, row, TypeAll, TypePc, TypeRow, Locked, Pc
  <1>11. CASE Finish(p)
    BY <1>11, SessionAssumption DEF Finish, Goto, Leave, row, TypeAll, TypePc, TypeRow, Locked, Pc
  <1>12. CASE RevokeRead(p)
    BY <1>12, SessionAssumption DEF RevokeRead, Begins, Goto, row, TypeAll, TypePc, TypeRow, Locked, Pc
  <1>13. CASE Fence(p)
    <2>1. ASSUME Stay(p, "commit"), UNCHANGED holder PROVE Locked'
      BY <2>1, <1>13, SessionAssumption DEF Stay, Goto, TypeAll, TypePc, TypeRow, Locked
    <2>2. ASSUME Leave(p), Unlock(p) PROVE Locked'
      BY <2>2, SessionAssumption DEF Leave, Goto, Unlock, TypeAll, TypePc, TypeRow, Locked
    <2> QED BY <1>13, <2>1, <2>2, Zenon DEF Fence
  <1>14. CASE Commit(p)
    BY <1>14, SessionAssumption DEF Commit, Goto, Unlock, Leave, row, TypeAll, TypePc, TypeRow, Locked, Pc
  <1>15. CASE Tombstone(p)
    BY <1>15, SessionAssumption DEF Tombstone, Goto, Leave, row, TypeAll, TypePc, TypeRow, Locked, Pc
  <1>16. CASE Crash(p)
    BY <1>16, SessionAssumption DEF Crash, Goto, Unlock, Leave, row, TypeAll, TypePc, TypeRow, Locked, Pc
  <1> QED BY Zenon, <1>1, <1>2, <1>3, <1>4, <1>5, <1>6, <1>7, <1>8, <1>9, <1>10, <1>11, <1>12, <1>13, <1>14, <1>15, <1>16 DEF Step

\* A step of a request keeps the clock, the failures and the history well formed.
LEMMA StepTypeRest == ASSUME TypeAll, NEW p \in Proc, Step(p) PROVE TypeRest'
  <1>1. faults' \in 0..MaxFaults
    BY OkOrFault, FaultBound DEF TypeAll, TypeRest
  <1>2. now' = now
    BY Zenon DEF Step, ReadCache, BeginChange, LoadRow, CacheDenied, SwapRefresh, AdvanceVersion, CheckDeadline, Fill, Filled, Confirm, Finish, RevokeRead, Fence, Commit, Tombstone, Crash
  <1>3. UNCHANGED seal \/ (sealed' = TRUE /\ sealAt' = now)
    BY Zenon DEF Step, ReadCache, BeginChange, LoadRow, CacheDenied, SwapRefresh, AdvanceVersion, CheckDeadline, Fill, Filled, Confirm, Finish, RevokeRead, Fence, Commit, Tombstone, Crash
  <1>4. sealed' \in BOOLEAN
    BY <1>3 DEF seal, TypeAll, TypeRest
  <1>5. sealAt' \in Nat
    BY <1>3 DEF seal, TypeAll, TypeRest
  <1> QED BY <1>1, <1>2, <1>4, <1>5 DEF TypeAll, TypeRest

\* Every step keeps the types and the lock.
LEMMA TypeStep == TypeAll /\ Locked /\ [Next]_vars => (TypeAll /\ Locked)'
  <1> SUFFICES ASSUME TypeAll, Locked, [Next]_vars PROVE (TypeAll /\ Locked)'
    OBVIOUS
  <1>1. ASSUME NEW p \in Proc, Step(p) PROVE (TypeAll /\ Locked)'
    BY <1>1, StepTypeRow, StepTypeHash, StepTypePc, StepTypeReq, StepTypeRest, StepLocked DEF TypeAll
  <1>2. ASSUME Tick PROVE (TypeAll /\ Locked)'
    <2>1. now' \in Nat
      BY <1>2 DEF Tick, TypeAll, TypeRest
    <2>2. TypeRest'
      BY <1>2, <2>1 DEF Tick, TypeAll, TypeRest, seal
    <2>3. TypeRow' /\ TypeHash' /\ TypePc' /\ TypeReq' /\ Locked'
      BY <1>2 DEF Tick, TypeAll, TypeRow, TypeHash, TypePc, TypeReq, Locked, row, hash, req
    <2> QED BY <2>2, <2>3 DEF TypeAll
  <1>3. ASSUME UNCHANGED vars PROVE (TypeAll /\ Locked)'
    BY <1>3 DEF vars, row, hash, req, seal, TypeAll, TypeRow, TypeHash, TypePc, TypeReq, TypeRest, Locked
  <1> QED BY <1>1, <1>2, <1>3, Zenon DEF Next

\* Row, hash and requests keep their types, and the row is locked only by a
\* request that is revoking the session.
THEOREM SessionTypeCorrect == Spec => []TypeOK
  <1>1. TypeAll /\ Locked => TypeOK
    BY TypeSplit
  <1> QED BY <1>1, TypeInit, TypeStep, PTL DEF Spec

-----------------------------------------------------------------------------
(* Who holds which snapshot until when.                                    *)

\* A request holds an active snapshot, and may still write it to the cache.
Holding == {"swap", "check", "eval", "filled", "confirm", "ok"}
Filling == {"swap", "check", "eval", "filled"}

\* The version is the row's, or had not ended CacheTTL before time t.
Within(v, t) == Current(v) \/ t <= left[v] + CacheTTL

\* No clock reading is ahead of the clock.
ReqInTime(q) == start[q] <= now /\ deadline[q] <= now + CacheTTL
HashInTime   == status = "active" => exp <= now + CacheTTL

\* What an active entry, a held snapshot and a pending fill still stand for.
FreshHash   == status = "active" => Within(cached, exp)
FreshReq(q) ==
    /\ pc[q] \in Holding => Within(ver[q], start[q] + 1)
    /\ pc[q] \in Filling => Within(ver[q], deadline[q])

FreshInv ==
    /\ TypeAll /\ Locked /\ HashInTime /\ FreshHash
    /\ \A q \in Proc : ReqInTime(q) /\ FreshReq(q)

\* A step of one request leaves the others alone.
LEMMA Others ==
  ASSUME TypeAll, NEW q \in Proc, NEW p \in Proc, Step(p)
  PROVE  q # p => /\ pc'[q] = pc[q] /\ ver'[q] = ver[q] /\ start'[q] = start[q]
                   /\ deadline'[q] = deadline[q] /\ late'[q] = late[q]
  <1>1. CASE ReadCache(p)
    BY <1>1 DEF ReadCache, Begins, Goto, TakeDeadline, req, TypeAll, TypePc, TypeReq
  <1>2. CASE BeginChange(p)
    BY <1>2 DEF BeginChange, Begins, Goto, TakeDeadline, req, TypeAll, TypePc, TypeReq
  <1>3. CASE LoadRow(p)
    BY <1>3 DEF LoadRow, Goto, Leave, req, TypeAll, TypePc, TypeReq
  <1>4. CASE CacheDenied(p)
    BY <1>4 DEF CacheDenied, PutDeny, Min, Goto, Leave, req, TypeAll, TypePc, TypeReq
  <1>5. CASE SwapRefresh(p)
    BY <1>5 DEF SwapRefresh, Stay, Goto, TakeDeadline, Leave, req, TypeAll, TypePc, TypeReq
  <1>6. CASE AdvanceVersion(p)
    BY <1>6 DEF AdvanceVersion, Goto, Leave, req, TypeAll, TypePc, TypeReq
  <1>7. CASE CheckDeadline(p)
    BY <1>7 DEF CheckDeadline, InTime, Stay, Goto, Leave, req, TypeAll, TypePc, TypeReq
  <1>8. CASE Fill(p)
    BY <1>8 DEF Fill, PutActive, Min, Stay, Goto, Leave, req, TypeAll, TypePc, TypeReq
  <1>9. CASE Filled(p)
    BY <1>9 DEF Filled, InTime, Stay, Goto, Leave, req, TypeAll, TypePc, TypeReq
  <1>10. CASE Confirm(p)
    BY <1>10 DEF Confirm, Stay, Goto, Leave, req, TypeAll, TypePc, TypeReq
  <1>11. CASE Finish(p)
    BY <1>11 DEF Finish, Goto, Leave, req, TypeAll, TypePc, TypeReq
  <1>12. CASE RevokeRead(p)
    BY <1>12 DEF RevokeRead, Begins, Goto, req, TypeAll, TypePc, TypeReq
  <1>13. CASE Fence(p)
    BY <1>13 DEF Fence, PutDeny, Min, Stay, Goto, Leave, Unlock, req, TypeAll, TypePc, TypeReq
  <1>14. CASE Commit(p)
    BY <1>14 DEF Commit, Goto, Leave, Unlock, req, TypeAll, TypePc, TypeReq
  <1>15. CASE Tombstone(p)
    BY <1>15 DEF Tombstone, PutDeny, Min, Goto, Leave, req, TypeAll, TypePc, TypeReq
  <1>16. CASE Crash(p)
    BY <1>16 DEF Crash, Goto, Leave, Unlock, req, TypeAll, TypePc, TypeReq
  <1> QED BY Zenon, <1>1, <1>2, <1>3, <1>4, <1>5, <1>6, <1>7, <1>8, <1>9, <1>10, <1>11, <1>12, <1>13, <1>14, <1>15, <1>16 DEF Step

Ended ==
    /\ active /\ left' = [left EXCEPT ![version] = now]
    /\ \/ active' = FALSE /\ version' = version
       \/ active' = active /\ version' = version + 1

\* The row stays, or the version it has ends now.
LEMMA RowStep ==
  ASSUME TypeAll, NEW p \in Proc, Step(p)
  PROVE  UNCHANGED <<active, version, left>> \/ Ended
  <1>1. CASE ReadCache(p)
    BY <1>1, Zenon DEF ReadCache, row, Ended
  <1>2. CASE BeginChange(p)
    BY <1>2, Zenon DEF BeginChange, row, Ended
  <1>3. CASE LoadRow(p)
    BY <1>3, Zenon DEF LoadRow, row, Ended
  <1>4. CASE CacheDenied(p)
    BY <1>4, Zenon DEF CacheDenied, row, Ended
  <1>5. CASE SwapRefresh(p)
    BY <1>5, Zenon DEF SwapRefresh, row, Ended
  <1>6. CASE AdvanceVersion(p)
    BY <1>6, Zenon DEF AdvanceVersion, row, Ended, ValidAt
  <1>7. CASE CheckDeadline(p)
    BY <1>7, Zenon DEF CheckDeadline, row, Ended
  <1>8. CASE Fill(p)
    BY <1>8, Zenon DEF Fill, row, Ended
  <1>9. CASE Filled(p)
    BY <1>9, Zenon DEF Filled, row, Ended
  <1>10. CASE Confirm(p)
    BY <1>10, Zenon DEF Confirm, row, Ended
  <1>11. CASE Finish(p)
    BY <1>11, Zenon DEF Finish, row, Ended
  <1>12. CASE RevokeRead(p)
    BY <1>12, Zenon DEF RevokeRead, row, Ended
  <1>13. CASE Fence(p)
    BY <1>13, Zenon DEF Fence, row, Ended
  <1>14. CASE Commit(p)
    BY <1>14, Zenon DEF Commit, row, Ended
  <1>15. CASE Tombstone(p)
    BY <1>15, Zenon DEF Tombstone, row, Ended
  <1>16. CASE Crash(p)
    BY <1>16, Zenon DEF Crash, row, Ended
  <1> QED BY Zenon, <1>1, <1>2, <1>3, <1>4, <1>5, <1>6, <1>7, <1>8, <1>9, <1>10, <1>11, <1>12, <1>13, <1>14, <1>15, <1>16 DEF Step

\* A version does not become older than it was, and one that ends ends now.
LEMMA Kept ==
  ASSUME TypeAll, NEW p \in Proc, Step(p), NEW v \in Versions, NEW t \in Nat,
         t <= now + CacheTTL, Within(v, t)
  PROVE  Within(v, t)'
  <1>0. CacheTTL \in Nat
    BY SessionAssumption
  <1>1. CASE UNCHANGED <<active, version, left>>
    BY <1>1 DEF Within, Current
  <1>2. CASE Ended
    <2>1. CASE v = version
      <3>1. left'[v] = now
        BY <1>2, <2>1 DEF Ended, TypeAll, TypeRow
      <3> QED BY <3>1 DEF Within
    <2>2. CASE v # version
      <3>1. left'[v] = left[v]
        BY <1>2, <2>2 DEF Ended, TypeAll, TypeRow
      <3>2. t <= left[v] + CacheTTL
        BY <2>2 DEF Within, Current
      <3> QED BY <3>1, <3>2 DEF Within
    <2> QED BY <2>1, <2>2
  <1> QED BY <1>1, <1>2, RowStep

\* No request reads a time ahead of the clock.
LEMMA OwnInTime ==
  ASSUME TypeAll, NEW p \in Proc, ReqInTime(p), Step(p)
  PROVE  ReqInTime(p)'
  <1>0. now \in Nat /\ CacheTTL \in Nat /\ now' = now
    BY SessionAssumption DEF TypeAll, TypeRest, Step, ReadCache, BeginChange, LoadRow, CacheDenied, SwapRefresh, AdvanceVersion, CheckDeadline, Fill, Filled, Confirm, Finish, RevokeRead, Fence, Commit, Tombstone, Crash
  <1>1. start'[p] \in {start[p], now, 0}
    <2>1. CASE ReadCache(p)
      BY <2>1 DEF ReadCache, Begins, Goto, TakeDeadline, req, TypeAll, TypeReq
    <2>2. CASE BeginChange(p)
      BY <2>2 DEF BeginChange, Begins, Goto, TakeDeadline, req, TypeAll, TypeReq
    <2>3. CASE LoadRow(p)
      BY <2>3 DEF LoadRow, Goto, Leave, req, TypeAll, TypeReq
    <2>4. CASE CacheDenied(p)
      BY <2>4 DEF CacheDenied, PutDeny, Min, Goto, Leave, req, TypeAll, TypeReq
    <2>5. CASE SwapRefresh(p)
      BY <2>5 DEF SwapRefresh, Stay, Goto, TakeDeadline, Leave, req, TypeAll, TypeReq
    <2>6. CASE AdvanceVersion(p)
      BY <2>6 DEF AdvanceVersion, Goto, Leave, req, TypeAll, TypeReq
    <2>7. CASE CheckDeadline(p)
      BY <2>7 DEF CheckDeadline, InTime, Stay, Goto, Leave, req, TypeAll, TypeReq
    <2>8. CASE Fill(p)
      BY <2>8 DEF Fill, PutActive, Min, Stay, Goto, Leave, req, TypeAll, TypeReq
    <2>9. CASE Filled(p)
      BY <2>9 DEF Filled, InTime, Stay, Goto, Leave, req, TypeAll, TypeReq
    <2>10. CASE Confirm(p)
      BY <2>10 DEF Confirm, Stay, Goto, Leave, req, TypeAll, TypeReq
    <2>11. CASE Finish(p)
      BY <2>11 DEF Finish, Goto, Leave, req, TypeAll, TypeReq
    <2>12. CASE RevokeRead(p)
      BY <2>12 DEF RevokeRead, Begins, Goto, req, TypeAll, TypeReq
    <2>13. CASE Fence(p)
      BY <2>13 DEF Fence, PutDeny, Min, Stay, Goto, Leave, Unlock, req, TypeAll, TypeReq
    <2>14. CASE Commit(p)
      BY <2>14 DEF Commit, Goto, Leave, Unlock, req, TypeAll, TypeReq
    <2>15. CASE Tombstone(p)
      BY <2>15 DEF Tombstone, PutDeny, Min, Goto, Leave, req, TypeAll, TypeReq
    <2>16. CASE Crash(p)
      BY <2>16 DEF Crash, Goto, Leave, Unlock, req, TypeAll, TypeReq
    <2> QED BY Zenon, <2>1, <2>2, <2>3, <2>4, <2>5, <2>6, <2>7, <2>8, <2>9, <2>10, <2>11, <2>12, <2>13, <2>14, <2>15, <2>16 DEF Step
  <1>2. deadline'[p] \in {deadline[p], now + CacheTTL, 0}
    <2>1. CASE ReadCache(p)
      BY <2>1 DEF ReadCache, Begins, Goto, TakeDeadline, req, TypeAll, TypeReq
    <2>2. CASE BeginChange(p)
      BY <2>2 DEF BeginChange, Begins, Goto, TakeDeadline, req, TypeAll, TypeReq
    <2>3. CASE LoadRow(p)
      BY <2>3 DEF LoadRow, Goto, Leave, req, TypeAll, TypeReq
    <2>4. CASE CacheDenied(p)
      BY <2>4 DEF CacheDenied, PutDeny, Min, Goto, Leave, req, TypeAll, TypeReq
    <2>5. CASE SwapRefresh(p)
      BY <2>5 DEF SwapRefresh, Stay, Goto, TakeDeadline, Leave, req, TypeAll, TypeReq
    <2>6. CASE AdvanceVersion(p)
      BY <2>6 DEF AdvanceVersion, Goto, Leave, req, TypeAll, TypeReq
    <2>7. CASE CheckDeadline(p)
      BY <2>7 DEF CheckDeadline, InTime, Stay, Goto, Leave, req, TypeAll, TypeReq
    <2>8. CASE Fill(p)
      BY <2>8 DEF Fill, PutActive, Min, Stay, Goto, Leave, req, TypeAll, TypeReq
    <2>9. CASE Filled(p)
      BY <2>9 DEF Filled, InTime, Stay, Goto, Leave, req, TypeAll, TypeReq
    <2>10. CASE Confirm(p)
      BY <2>10 DEF Confirm, Stay, Goto, Leave, req, TypeAll, TypeReq
    <2>11. CASE Finish(p)
      BY <2>11 DEF Finish, Goto, Leave, req, TypeAll, TypeReq
    <2>12. CASE RevokeRead(p)
      BY <2>12 DEF RevokeRead, Begins, Goto, req, TypeAll, TypeReq
    <2>13. CASE Fence(p)
      BY <2>13 DEF Fence, PutDeny, Min, Stay, Goto, Leave, Unlock, req, TypeAll, TypeReq
    <2>14. CASE Commit(p)
      BY <2>14 DEF Commit, Goto, Leave, Unlock, req, TypeAll, TypeReq
    <2>15. CASE Tombstone(p)
      BY <2>15 DEF Tombstone, PutDeny, Min, Goto, Leave, req, TypeAll, TypeReq
    <2>16. CASE Crash(p)
      BY <2>16 DEF Crash, Goto, Leave, Unlock, req, TypeAll, TypeReq
    <2> QED BY Zenon, <2>1, <2>2, <2>3, <2>4, <2>5, <2>6, <2>7, <2>8, <2>9, <2>10, <2>11, <2>12, <2>13, <2>14, <2>15, <2>16 DEF Step
  <1>3. start[p] \in Nat /\ deadline[p] \in Nat
    BY DEF TypeAll, TypeReq
  <1> QED BY <1>0, <1>1, <1>2, <1>3 DEF ReqInTime

\* An active entry is written with what is left of its fill's deadline.
LEMMA StepHashInTime ==
  ASSUME TypeAll, HashInTime, NEW p \in Proc, ReqInTime(p), Step(p)
  PROVE  HashInTime'
  <1>0. now \in Nat /\ CacheTTL \in Nat /\ now' = now /\ deadline[p] \in Nat
    BY SessionAssumption DEF TypeAll, TypeRest, TypeReq, Step, ReadCache, BeginChange, LoadRow, CacheDenied, SwapRefresh, AdvanceVersion, CheckDeadline, Fill, Filled, Confirm, Finish, RevokeRead, Fence, Commit, Tombstone, Crash
  <1>1. \/ UNCHANGED hash
        \/ status' # "active"
        \/ PutActive(ver[p], deadline[p])
    <2>1. CASE ReadCache(p)
      BY <2>1 DEF ReadCache
    <2>2. CASE BeginChange(p)
      BY <2>2 DEF BeginChange
    <2>3. CASE LoadRow(p)
      BY <2>3 DEF LoadRow
    <2>4. CASE CacheDenied(p)
      BY <2>4 DEF CacheDenied, PutDeny
    <2>5. CASE SwapRefresh(p)
      BY <2>5 DEF SwapRefresh
    <2>6. CASE AdvanceVersion(p)
      BY <2>6 DEF AdvanceVersion
    <2>7. CASE CheckDeadline(p)
      BY <2>7 DEF CheckDeadline
    <2>8. CASE Fill(p)
      BY <2>8 DEF Fill
    <2>9. CASE Filled(p)
      BY <2>9 DEF Filled
    <2>10. CASE Confirm(p)
      BY <2>10 DEF Confirm
    <2>11. CASE Finish(p)
      BY <2>11 DEF Finish
    <2>12. CASE RevokeRead(p)
      BY <2>12 DEF RevokeRead
    <2>13. CASE Fence(p)
      BY <2>13 DEF Fence, PutDeny
    <2>14. CASE Commit(p)
      BY <2>14 DEF Commit
    <2>15. CASE Tombstone(p)
      BY <2>15 DEF Tombstone, PutDeny
    <2>16. CASE Crash(p)
      BY <2>16 DEF Crash
    <2> QED BY Zenon, <2>1, <2>2, <2>3, <2>4, <2>5, <2>6, <2>7, <2>8, <2>9, <2>10, <2>11, <2>12, <2>13, <2>14, <2>15, <2>16 DEF Step
  <1>2. CASE UNCHANGED hash
    BY <1>2, <1>0 DEF hash, HashInTime
  <1>3. CASE status' # "active"
    BY <1>3 DEF HashInTime
  <1>4. CASE PutActive(ver[p], deadline[p])
    <2>1. exp' <= deadline[p]
      BY <1>0, <1>4, SessionAssumption DEF PutActive, Min
    <2>2. exp' \in Nat
      BY <1>4, PutActiveType DEF TypeHash
    <2> QED BY <1>0, <2>1, <2>2 DEF HashInTime, ReqInTime
  <1> QED BY <1>1, <1>2, <1>3, <1>4

\* The snapshots of the others stand for what they stood for.
LEMMA OthersFresh ==
  ASSUME TypeAll, NEW p \in Proc, Step(p), NEW q \in Proc, q # p, ReqInTime(q), FreshReq(q)
  PROVE  FreshReq(q)'
  <1>0. CacheTTL \in Nat \ {0} /\ now \in Nat /\ ver[q] \in Versions
        /\ start[q] \in Nat /\ deadline[q] \in Nat
    BY SessionAssumption DEF TypeAll, TypeRest, TypeReq
  <1>1. pc'[q] = pc[q] /\ ver'[q] = ver[q] /\ start'[q] = start[q] /\ deadline'[q] = deadline[q]
    BY Others
  <1>2. ASSUME pc[q] \in Holding PROVE Within(ver[q], start[q] + 1)'
    <2>1. Within(ver[q], start[q] + 1)
      BY <1>2 DEF FreshReq
    <2>2. start[q] + 1 \in Nat /\ start[q] + 1 <= now + CacheTTL
      BY <1>0 DEF ReqInTime
    <2>3. \A v \in Versions, t \in Nat : t <= now + CacheTTL /\ Within(v, t) =>
             Current(v)' \/ t <= left'[v] + CacheTTL
      BY Kept DEF Within
    <2>4. Current(ver[q])' \/ start[q] + 1 <= left'[ver[q]] + CacheTTL
      BY <1>0, <1>1, <2>1, <2>2, <2>3 DEF Current
    <2> QED BY <1>1, <2>4 DEF Within
  <1>3. ASSUME pc[q] \in Filling PROVE Within(ver[q], deadline[q])'
    <2>1. Within(ver[q], deadline[q])
      BY <1>3 DEF FreshReq
    <2>2. deadline[q] <= now + CacheTTL
      BY DEF ReqInTime
    <2>3. \A v \in Versions, t \in Nat : t <= now + CacheTTL /\ Within(v, t) =>
             Current(v)' \/ t <= left'[v] + CacheTTL
      BY Kept DEF Within
    <2>4. Current(ver[q])' \/ deadline[q] <= left'[ver[q]] + CacheTTL
      BY <1>0, <1>1, <2>1, <2>2, <2>3 DEF Current
    <2> QED BY <1>1, <2>4 DEF Within
  <1> QED BY <1>1, <1>2, <1>3 DEF FreshReq

\* The request that takes the step: what it holds is the row, is still what it
\* held, or is an entry that has not expired.
LEMMA OwnFresh ==
  ASSUME TypeAll, FreshHash, NEW p \in Proc, ReqInTime(p), FreshReq(p), Step(p)
  PROVE  FreshReq(p)'
  <1>0. CacheTTL \in Nat /\ now \in Nat /\ exp \in Nat /\ cached \in Versions /\ left \in [Versions -> Nat]
    BY SessionAssumption DEF TypeAll, TypeRest, TypeHash, TypeRow
  <1>1. \/ pc'[p] \notin Holding
        \/ Current(ver[p])'
        \/ /\ UNCHANGED <<active, version, left>> /\ ver'[p] = ver[p] /\ start'[p] = start[p]
           /\ deadline'[p] = deadline[p] /\ pc[p] \in Holding
           /\ pc'[p] \in Filling => pc[p] \in Filling
        \/ /\ UNCHANGED <<active, version, left>> /\ pc'[p] = "ok"
           /\ status = "active" /\ now < exp /\ ver'[p] = cached /\ start'[p] = now
    <2>1. CASE ReadCache(p)
      BY <2>1 DEF ReadCache, Begins, Goto, TakeDeadline, Live, row, TypeAll, TypePc, TypeReq, Holding, Filling
    <2>2. CASE BeginChange(p)
      BY <2>2 DEF BeginChange, Begins, Goto, TakeDeadline, row, req, TypeAll, TypePc, Holding, Filling
    <2>3. CASE LoadRow(p)
      BY <2>3 DEF LoadRow, Goto, Leave, ValidAt, Current, row, TypeAll, TypePc, TypeReq, Holding, Filling
    <2>4. CASE CacheDenied(p)
      BY <2>4 DEF CacheDenied, Goto, Leave, row, req, TypeAll, TypePc, Holding, Filling
    <2>5. CASE SwapRefresh(p)
      BY <2>5 DEF SwapRefresh, Stay, Goto, TakeDeadline, Leave, row, req, TypeAll, TypePc, TypeReq, Holding, Filling
    <2>6. CASE AdvanceVersion(p)
      BY <2>6 DEF AdvanceVersion, Goto, Leave, ValidAt, Current, row, TypeAll, TypePc, TypeReq, Holding, Filling
    <2>7. CASE CheckDeadline(p)
      BY <2>7 DEF CheckDeadline, InTime, Stay, Goto, Leave, row, req, TypeAll, TypePc, TypeReq, Holding, Filling
    <2>8. CASE Fill(p)
      BY <2>8 DEF Fill, Stay, Goto, Leave, row, req, TypeAll, TypePc, TypeReq, Holding, Filling
    <2>9. CASE Filled(p)
      BY <2>9 DEF Filled, InTime, Stay, Goto, Leave, row, req, TypeAll, TypePc, TypeReq, Holding, Filling
    <2>10. CASE Confirm(p)
      BY <2>10 DEF Confirm, Stay, Goto, Leave, row, req, TypeAll, TypePc, TypeReq, Holding, Filling
    <2>11. CASE Finish(p)
      BY <2>11 DEF Finish, Goto, Leave, row, req, TypeAll, TypePc, Holding, Filling
    <2>12. CASE RevokeRead(p)
      BY <2>12 DEF RevokeRead, Begins, Goto, row, req, TypeAll, TypePc, Holding, Filling
    <2>13. CASE Fence(p)
      BY <2>13 DEF Fence, Stay, Goto, Leave, row, req, TypeAll, TypePc, Holding, Filling
    <2>14. CASE Commit(p)
      BY <2>14 DEF Commit, Goto, Leave, row, req, TypeAll, TypePc, Holding, Filling
    <2>15. CASE Tombstone(p)
      BY <2>15 DEF Tombstone, Goto, Leave, row, req, TypeAll, TypePc, Holding, Filling
    <2>16. CASE Crash(p)
      BY <2>16 DEF Crash, Goto, Leave, row, req, TypeAll, TypePc, Holding, Filling
    <2> QED BY Zenon, <2>1, <2>2, <2>3, <2>4, <2>5, <2>6, <2>7, <2>8, <2>9, <2>10, <2>11, <2>12, <2>13, <2>14, <2>15, <2>16 DEF Step
  <1>2. CASE pc'[p] \notin Holding
    BY <1>2 DEF FreshReq, Holding, Filling
  <1>3. CASE Current(ver[p])'
    BY <1>3 DEF FreshReq, Within
  <1>4. CASE /\ UNCHANGED <<active, version, left>> /\ ver'[p] = ver[p] /\ start'[p] = start[p]
             /\ deadline'[p] = deadline[p] /\ pc[p] \in Holding
             /\ pc'[p] \in Filling => pc[p] \in Filling
    BY <1>4 DEF FreshReq, Within, Current
  <1>5. CASE /\ UNCHANGED <<active, version, left>> /\ pc'[p] = "ok"
             /\ status = "active" /\ now < exp /\ ver'[p] = cached /\ start'[p] = now
    <2>1. Current(cached) \/ exp <= left[cached] + CacheTTL
      BY <1>5 DEF FreshHash, Within
    <2>2. left[cached] \in Nat
      BY <1>0
    <2>3. Current(cached) \/ now + 1 <= left[cached] + CacheTTL
      BY <1>0, <1>5, <2>1, <2>2
    <2>4. Within(ver[p], start[p] + 1)'
      BY <1>5, <2>3 DEF Within, Current
    <2> QED BY <1>5, <2>4 DEF FreshReq, Filling
  <1> QED BY <1>1, <1>2, <1>3, <1>4, <1>5

\* What the cache says stands for the row, or for a version that has just ended.
LEMMA StepFreshHash ==
  ASSUME TypeAll, HashInTime, FreshHash, NEW p \in Proc, ReqInTime(p), FreshReq(p), Step(p)
  PROVE  FreshHash'
  <1>0. now \in Nat /\ CacheTTL \in Nat /\ deadline[p] \in Nat /\ ver[p] \in Versions
        /\ exp \in Nat /\ cached \in Versions
    BY SessionAssumption DEF TypeAll, TypeRest, TypeReq, TypeHash
  <1>1. \A v \in Versions, t \in Nat : t <= now + CacheTTL /\ Within(v, t) =>
           Current(v)' \/ t <= left'[v] + CacheTTL
    BY Kept DEF Within
  <1>2. \/ UNCHANGED hash
        \/ status' # "active"
        \/ PutActive(ver[p], deadline[p]) /\ pc[p] \in Filling /\ UNCHANGED <<active, version, left>>
    <2>1. CASE ReadCache(p)
      BY <2>1 DEF ReadCache, row, Filling
    <2>2. CASE BeginChange(p)
      BY <2>2 DEF BeginChange, row, Filling
    <2>3. CASE LoadRow(p)
      BY <2>3 DEF LoadRow, row, Filling
    <2>4. CASE CacheDenied(p)
      BY <2>4 DEF CacheDenied, row, Filling, PutDeny
    <2>5. CASE SwapRefresh(p)
      BY <2>5 DEF SwapRefresh, row, Filling
    <2>6. CASE AdvanceVersion(p)
      BY <2>6 DEF AdvanceVersion, row, Filling
    <2>7. CASE CheckDeadline(p)
      BY <2>7 DEF CheckDeadline, row, Filling
    <2>8. CASE Fill(p)
      BY <2>8 DEF Fill, row, Filling
    <2>9. CASE Filled(p)
      BY <2>9 DEF Filled, row, Filling
    <2>10. CASE Confirm(p)
      BY <2>10 DEF Confirm, row, Filling
    <2>11. CASE Finish(p)
      BY <2>11 DEF Finish, row, Filling
    <2>12. CASE RevokeRead(p)
      BY <2>12 DEF RevokeRead, row, Filling
    <2>13. CASE Fence(p)
      BY <2>13 DEF Fence, row, Filling, PutDeny
    <2>14. CASE Commit(p)
      BY <2>14 DEF Commit, row, Filling
    <2>15. CASE Tombstone(p)
      BY <2>15 DEF Tombstone, row, Filling, PutDeny
    <2>16. CASE Crash(p)
      BY <2>16 DEF Crash, row, Filling
    <2> QED BY Zenon, <2>1, <2>2, <2>3, <2>4, <2>5, <2>6, <2>7, <2>8, <2>9, <2>10, <2>11, <2>12, <2>13, <2>14, <2>15, <2>16 DEF Step
  <1>3. CASE UNCHANGED hash
    <2>1. ASSUME status = "active" PROVE Current(cached)' \/ exp <= left'[cached] + CacheTTL
      <3>1. Within(cached, exp) /\ exp <= now + CacheTTL
        BY <2>1 DEF FreshHash, HashInTime
      <3>2. Current(cached)' \/ exp <= left'[cached] + CacheTTL
        BY <1>0, <1>1, <1>3, <3>1 DEF Current, hash
      <3> QED BY <3>2
    <2> QED BY <1>3, <2>1 DEF FreshHash, Within, hash
  <1>4. CASE status' # "active"
    BY <1>4 DEF FreshHash
  <1>5. CASE PutActive(ver[p], deadline[p]) /\ pc[p] \in Filling /\ UNCHANGED <<active, version, left>>
    <2>1. exp' <= deadline[p] /\ exp' \in Nat /\ cached' = ver[p]
      BY <1>0, <1>5, SessionAssumption DEF PutActive, Min
    <2>2. Current(ver[p]) \/ deadline[p] <= left[ver[p]] + CacheTTL
      BY <1>5 DEF FreshReq, Within
    <2>3. left[ver[p]] \in Nat
      BY <1>0 DEF TypeAll, TypeRow
    <2>4. Current(ver[p]) \/ exp' <= left[ver[p]] + CacheTTL
      BY <1>0, <2>1, <2>2, <2>3
    <2> QED BY <1>5, <2>1, <2>4 DEF FreshHash, Within, Current
  <1> QED BY <1>2, <1>3, <1>4, <1>5

\* The freshness of what is cached and in hand holds at the start.
LEMMA FreshInit == Init => FreshInv
  <1> SUFFICES ASSUME Init PROVE FreshInv
    OBVIOUS
  <1>1. TypeAll /\ Locked
    BY TypeInit
  <1>2. HashInTime /\ FreshHash
    BY DEF Init, HashInTime, FreshHash
  <1>3. \A q \in Proc : ReqInTime(q)
    BY SessionAssumption DEF Init, ReqInTime
  <1>4. \A q \in Proc : FreshReq(q)
    BY DEF Init, FreshReq, Holding, Filling
  <1> QED BY <1>1, <1>2, <1>3, <1>4 DEF FreshInv

\* Time passes for everybody alike.
LEMMA FreshTick == ASSUME FreshInv, Tick PROVE FreshInv'
  <1>0. now \in Nat /\ now' = now + 1 /\ CacheTTL \in Nat
    BY SessionAssumption DEF FreshInv, TypeAll, TypeRest, Tick
  <1>1. TypeAll' /\ Locked'
    BY TypeStep DEF FreshInv, Next
  <1>2. HashInTime'
    <2>1. exp \in Nat /\ exp' = exp /\ status' = status
      BY DEF FreshInv, TypeAll, TypeHash, Tick, hash
    <2> QED BY <1>0, <2>1 DEF FreshInv, HashInTime
  <1>3. FreshHash'
    BY DEF FreshInv, FreshHash, Within, Current, Tick, hash, row
  <1>4. \A q \in Proc : ReqInTime(q)'
    <2>1. \A q \in Proc : start[q] \in Nat /\ deadline[q] \in Nat
      BY DEF FreshInv, TypeAll, TypeReq
    <2>2. start' = start /\ deadline' = deadline
      BY DEF Tick, req
    <2> QED BY <1>0, <2>1, <2>2 DEF FreshInv, ReqInTime
  <1>5. \A q \in Proc : FreshReq(q)'
    BY DEF FreshInv, FreshReq, Within, Current, Tick, req, row
  <1> QED BY <1>1, <1>2, <1>3, <1>4, <1>5 DEF FreshInv

\* Every step keeps the freshness of what is cached and in hand.
LEMMA FreshStep == FreshInv /\ [Next]_vars => FreshInv'
  <1> SUFFICES ASSUME FreshInv, [Next]_vars PROVE FreshInv'
    OBVIOUS
  <1>0. TypeAll' /\ Locked'
    BY TypeStep DEF FreshInv
  <1>1. ASSUME NEW p \in Proc, Step(p) PROVE FreshInv'
    <2>1. HashInTime' /\ FreshHash'
      BY <1>1, StepHashInTime, StepFreshHash DEF FreshInv
    <2>2. ASSUME NEW q \in Proc PROVE ReqInTime(q)' /\ FreshReq(q)'
      <3>1. CASE q = p
        BY <3>1, <1>1, OwnInTime, OwnFresh DEF FreshInv
      <3>2. CASE q # p
        <4>1. FreshReq(q)'
          BY <3>2, <1>1, OthersFresh DEF FreshInv
        <4>2. now' = now
          BY <1>1, Zenon DEF Step, ReadCache, BeginChange, LoadRow, CacheDenied, SwapRefresh, AdvanceVersion, CheckDeadline, Fill, Filled, Confirm, Finish, RevokeRead, Fence, Commit, Tombstone, Crash
        <4>3. ReqInTime(q)'
          BY <3>2, <1>1, <4>2, Others DEF FreshInv, ReqInTime
        <4> QED BY <4>1, <4>3
      <3> QED BY <3>1, <3>2
    <2> QED BY <1>0, <2>1, <2>2 DEF FreshInv
  <1>2. CASE Tick
    BY <1>2, FreshTick
  <1>3. CASE UNCHANGED vars
    BY <1>0, <1>3 DEF vars, row, hash, req, FreshInv, HashInTime, FreshHash, ReqInTime, FreshReq,
       Within, Current
  <1> QED BY <1>1, <1>2, <1>3, Zenon DEF Next

\* Freshness bounds the age of what a request is authorized by.
LEMMA FreshBounds == FreshInv => BoundedStaleness
  <1> SUFFICES ASSUME FreshInv, NEW p \in Proc, pc[p] = "ok"
               PROVE  Current(ver[p]) \/ start[p] < left[ver[p]] + CacheTTL
    BY DEF BoundedStaleness
  <1>1. Current(ver[p]) \/ start[p] + 1 <= left[ver[p]] + CacheTTL
    BY DEF FreshInv, FreshReq, Holding, Within
  <1>2. start[p] \in Nat /\ ver[p] \in Versions /\ left \in [Versions -> Nat] /\ CacheTTL \in Nat
    BY SessionAssumption DEF FreshInv, TypeAll, TypeReq, TypeRow
  <1>3. left[ver[p]] \in Nat
    BY <1>2
  <1> QED BY <1>1, <1>2, <1>3

\* No answer, however delayed its cache write, is staler than the cache's TTL:
\* for any number of requests, versions and failures, and any TTL.
THEOREM BoundedStalenessCorrect == Spec => []BoundedStaleness
  BY FreshInit, FreshStep, FreshBounds, PTL DEF Spec

-----------------------------------------------------------------------------
(* After the tombstone.                                                    *)

\* When the tombstone ends, and with it the last fill of the active row.
SealExp == Min(sealAt + CacheTTL, ExpiresAt)

SealRow  == sealAt <= now /\ (sealed => ~active)
SealHash ==
    sealed => \/ status \in Deny /\ SealExp <= exp
              \/ SealExp <= now /\ (status = "active" => exp <= SealExp)
SealReq(q) ==
    /\ pc[q] = "tombstone" => ~active
    /\ late[q] => sealed /\ pc[q] \notin Holding
    /\ sealed /\ pc[q] \in Filling => deadline[q] <= sealAt + CacheTTL

SealInv == FreshInv /\ SealRow /\ SealHash /\ \A q \in Proc : SealReq(q)

\* A session that is over stays over, and is sealed once and for all.
LEMMA SealStep ==
  ASSUME NEW p \in Proc, Step(p), TypeAll
  PROVE  /\ now' = now
         /\ ~active => ~active'
         /\ \/ UNCHANGED seal
            \/ sealed' = TRUE /\ sealAt' = now /\ pc[p] = "tombstone" /\ PutDeny("revoked", ver[p])
  <1>1. now' = now
    BY Zenon DEF Step, ReadCache, BeginChange, LoadRow, CacheDenied, SwapRefresh, AdvanceVersion, CheckDeadline, Fill, Filled, Confirm, Finish, RevokeRead, Fence, Commit, Tombstone, Crash
  <1>2. ~active => ~active'
    BY RowStep DEF Ended
  <1>3. \/ UNCHANGED seal
        \/ sealed' = TRUE /\ sealAt' = now /\ pc[p] = "tombstone" /\ PutDeny("revoked", ver[p])
    BY Zenon DEF Step, ReadCache, BeginChange, LoadRow, CacheDenied, SwapRefresh, AdvanceVersion, CheckDeadline, Fill, Filled, Confirm, Finish, RevokeRead, Fence, Commit, Tombstone, Crash
  <1> QED BY <1>1, <1>2, <1>3

\* A step of a request keeps the row of a sealed session revoked.
LEMMA StepSealRow ==
  ASSUME TypeAll, SealRow, NEW p \in Proc, SealReq(p), Step(p)
  PROVE  SealRow'
  <1>1. CASE UNCHANGED seal
    BY <1>1, SealStep DEF SealRow, seal
  <1>2. CASE sealed' = TRUE /\ sealAt' = now /\ pc[p] = "tombstone"
    <2>1. ~active'
      BY <1>2, SealStep DEF SealReq
    <2>2. sealAt' <= now'
      BY <1>2, SealStep DEF TypeAll, TypeRest
    <2> QED BY <2>1, <2>2 DEF SealRow
  <1> QED BY <1>1, <1>2, SealStep

\* A deny entry written later expires no earlier.
LEMMA MinMonotone ==
  ASSUME NEW n \in Nat, NEW m \in Nat, NEW t \in Nat, NEW e \in Nat, n <= m
  PROVE  Min(n + t, e) <= Min(m + t, e)
  BY DEF Min

\* Nor does one written after the session's own expiry.
LEMMA MinAfter ==
  ASSUME NEW n \in Nat, NEW m \in Nat, NEW t \in Nat, NEW e \in Nat, ~(m < e)
  PROVE  Min(n + t, e) <= m + 1
  BY DEF Min

\* A deny entry lives at least as long as one written before it.
LEMMA StepSealHash ==
  ASSUME TypeAll, SealRow, SealHash, NEW p \in Proc, SealReq(p), Step(p)
  PROVE  SealHash'
  <1>0. now \in Nat /\ CacheTTL \in Nat /\ ExpiresAt \in Nat /\ deadline[p] \in Nat /\ exp \in Nat
        /\ sealAt \in Nat /\ now' = now
    BY SessionAssumption, SealStep DEF TypeAll, TypeRest, TypeReq, TypeHash
  <1>1. \/ UNCHANGED hash /\ UNCHANGED seal
        \/ \E s \in Deny : PutDeny(s, ver[p])
        \/ PutActive(ver[p], deadline[p]) /\ ~Refused(ver[p], TRUE) /\ pc[p] \in Filling /\ UNCHANGED seal
    <2>1. CASE ReadCache(p)
      BY <2>1 DEF ReadCache, Deny, Filling
    <2>2. CASE BeginChange(p)
      BY <2>2 DEF BeginChange, Deny, Filling
    <2>3. CASE LoadRow(p)
      BY <2>3 DEF LoadRow, Deny, Filling
    <2>4. CASE CacheDenied(p)
      BY <2>4 DEF CacheDenied, Deny, Filling
    <2>5. CASE SwapRefresh(p)
      BY <2>5 DEF SwapRefresh, Deny, Filling
    <2>6. CASE AdvanceVersion(p)
      BY <2>6 DEF AdvanceVersion, Deny, Filling
    <2>7. CASE CheckDeadline(p)
      BY <2>7 DEF CheckDeadline, Deny, Filling
    <2>8. CASE Fill(p)
      BY <2>8 DEF Fill, Deny, Filling
    <2>9. CASE Filled(p)
      BY <2>9 DEF Filled, Deny, Filling
    <2>10. CASE Confirm(p)
      BY <2>10 DEF Confirm, Deny, Filling
    <2>11. CASE Finish(p)
      BY <2>11 DEF Finish, Deny, Filling
    <2>12. CASE RevokeRead(p)
      BY <2>12 DEF RevokeRead, Deny, Filling
    <2>13. CASE Fence(p)
      BY <2>13 DEF Fence, Deny, Filling
    <2>14. CASE Commit(p)
      BY <2>14 DEF Commit, Deny, Filling
    <2>15. CASE Tombstone(p)
      BY <2>15 DEF Tombstone, Deny, Filling
    <2>16. CASE Crash(p)
      BY <2>16 DEF Crash, Deny, Filling
    <2> QED BY Zenon, <2>1, <2>2, <2>3, <2>4, <2>5, <2>6, <2>7, <2>8, <2>9, <2>10, <2>11, <2>12, <2>13, <2>14, <2>15, <2>16 DEF Step
  <1>2. CASE UNCHANGED hash /\ UNCHANGED seal
    BY <1>0, <1>2 DEF SealHash, SealExp, hash, seal
  <1>3. ASSUME NEW s \in Deny, PutDeny(s, ver[p]) PROVE SealHash'
    <2>1. sealAt' \in Nat /\ sealAt' <= now
      <3>1. CASE UNCHANGED seal
        BY <1>0, <3>1 DEF SealRow, seal
      <3>2. CASE sealAt' = now
        BY <1>0, <3>2
      <3> QED BY <3>1, <3>2, SealStep
    <2>2. Min(sealAt' + CacheTTL, ExpiresAt) <= exp'
      <3>0. exp' = IF now < ExpiresAt THEN Min(now + CacheTTL, ExpiresAt) ELSE now + 1
        BY <1>3 DEF PutDeny
      <3>1. CASE now < ExpiresAt
        <4>1. exp' = Min(now + CacheTTL, ExpiresAt)
          BY <3>0, <3>1
        <4> QED BY <1>0, <2>1, <4>1, MinMonotone
      <3>2. CASE ~(now < ExpiresAt)
        <4>1. exp' = now + 1
          BY <3>0, <3>2
        <4> QED BY <1>0, <2>1, <3>2, <4>1, MinAfter
      <3> QED BY <3>1, <3>2
    <2>3. status' \in Deny
      BY <1>3 DEF PutDeny
    <2> QED BY <2>2, <2>3 DEF SealHash, SealExp
  <1>4. CASE PutActive(ver[p], deadline[p]) /\ ~Refused(ver[p], TRUE) /\ pc[p] \in Filling /\ UNCHANGED seal
    <2> SUFFICES ASSUME sealed PROVE SealExp <= now /\ exp' <= SealExp
      BY <1>0, <1>4 DEF SealHash, SealExp, seal
    <2>0. SealExp \in Nat
      BY <1>0 DEF SealExp, Min
    <2>1. SealExp <= now
      <3>1. CASE status \in Deny /\ SealExp <= exp
        <4>1. exp <= now
          BY <1>0, <1>4, <3>1 DEF Refused, Live
        <4> QED BY <1>0, <2>0, <3>1, <4>1
      <3>2. CASE SealExp <= now
        BY <3>2
      <3> QED BY <3>1, <3>2 DEF SealHash
    <2>2. deadline[p] <= sealAt + CacheTTL
      BY <1>4 DEF SealReq
    <2>3. exp' <= SealExp
      BY <1>0, <1>4, <2>2 DEF PutActive, SealExp, Min
    <2> QED BY <2>1, <2>3
  <1> QED BY <1>1, <1>2, <1>3, <1>4

\* A request that has not locked anything yet finds a sealed session over.
LEMMA OwnSeal ==
  ASSUME TypeAll, SealRow, SealHash, NEW p \in Proc, SealReq(p), Step(p)
  PROVE  SealReq(p)'
  <1>0. now \in Nat /\ exp \in Nat /\ SealExp \in Nat
    BY SessionAssumption DEF TypeAll, TypeRest, TypeHash, SealExp, Min
  <1>1. pc'[p] = "tombstone" => ~active'
    <2> SUFFICES ASSUME pc'[p] = "tombstone" PROVE active' = FALSE
      OBVIOUS
    <2>1. CASE ReadCache(p)
      BY <2>1 DEF ReadCache, Begins, Goto, req, TypeAll, TypePc
    <2>2. CASE BeginChange(p)
      BY <2>2 DEF BeginChange, Begins, Goto, req, TypeAll, TypePc
    <2>3. CASE LoadRow(p)
      BY <2>3 DEF LoadRow, Goto, Leave, req, TypeAll, TypePc
    <2>4. CASE CacheDenied(p)
      BY <2>4 DEF CacheDenied, Goto, Leave, req, TypeAll, TypePc
    <2>5. CASE SwapRefresh(p)
      BY <2>5 DEF SwapRefresh, Stay, Goto, Leave, req, TypeAll, TypePc
    <2>6. CASE AdvanceVersion(p)
      BY <2>6 DEF AdvanceVersion, Goto, Leave, req, TypeAll, TypePc
    <2>7. CASE CheckDeadline(p)
      BY <2>7 DEF CheckDeadline, InTime, Stay, Goto, Leave, req, TypeAll, TypePc
    <2>8. CASE Fill(p)
      BY <2>8 DEF Fill, Stay, Goto, Leave, req, TypeAll, TypePc
    <2>9. CASE Filled(p)
      BY <2>9 DEF Filled, InTime, Stay, Goto, Leave, req, TypeAll, TypePc
    <2>10. CASE Confirm(p)
      BY <2>10 DEF Confirm, Stay, Goto, Leave, req, TypeAll, TypePc
    <2>11. CASE Finish(p)
      BY <2>11 DEF Finish, Goto, Leave, req, TypeAll, TypePc
    <2>12. CASE RevokeRead(p)
      BY <2>12 DEF RevokeRead, Begins, Goto, req, TypeAll, TypePc
    <2>13. CASE Fence(p)
      BY <2>13 DEF Fence, Stay, Goto, Leave, req, TypeAll, TypePc
    <2>14. CASE Commit(p)
      BY <2>14 DEF Commit, Goto, Leave, req, TypeAll, TypePc
    <2>15. CASE Tombstone(p)
      BY <2>15 DEF Tombstone, Goto, Leave, req, TypeAll, TypePc
    <2>16. CASE Crash(p)
      BY <2>16 DEF Crash, Goto, Leave, req, TypeAll, TypePc
    <2> QED BY Zenon, <2>1, <2>2, <2>3, <2>4, <2>5, <2>6, <2>7, <2>8, <2>9, <2>10, <2>11, <2>12, <2>13, <2>14, <2>15, <2>16 DEF Step
  <1>2. late'[p] = FALSE \/ late'[p] = late[p] \/ (late'[p] = sealed /\ pc[p] = "idle")
    <2>1. CASE ReadCache(p)
      BY <2>1 DEF ReadCache, Begins, Goto, req, TypeAll, TypePc
    <2>2. CASE BeginChange(p)
      BY <2>2 DEF BeginChange, Begins, Goto, req, TypeAll, TypePc
    <2>3. CASE LoadRow(p)
      BY <2>3 DEF LoadRow, Goto, Leave, req, TypeAll, TypePc
    <2>4. CASE CacheDenied(p)
      BY <2>4 DEF CacheDenied, Goto, Leave, req, TypeAll, TypePc
    <2>5. CASE SwapRefresh(p)
      BY <2>5 DEF SwapRefresh, Stay, Goto, Leave, req, TypeAll, TypePc
    <2>6. CASE AdvanceVersion(p)
      BY <2>6 DEF AdvanceVersion, Goto, Leave, req, TypeAll, TypePc
    <2>7. CASE CheckDeadline(p)
      BY <2>7 DEF CheckDeadline, InTime, Stay, Goto, Leave, req, TypeAll, TypePc
    <2>8. CASE Fill(p)
      BY <2>8 DEF Fill, Stay, Goto, Leave, req, TypeAll, TypePc
    <2>9. CASE Filled(p)
      BY <2>9 DEF Filled, InTime, Stay, Goto, Leave, req, TypeAll, TypePc
    <2>10. CASE Confirm(p)
      BY <2>10 DEF Confirm, Stay, Goto, Leave, req, TypeAll, TypePc
    <2>11. CASE Finish(p)
      BY <2>11 DEF Finish, Goto, Leave, req, TypeAll, TypePc
    <2>12. CASE RevokeRead(p)
      BY <2>12 DEF RevokeRead, Begins, Goto, req, TypeAll, TypePc
    <2>13. CASE Fence(p)
      BY <2>13 DEF Fence, Stay, Goto, Leave, req, TypeAll, TypePc
    <2>14. CASE Commit(p)
      BY <2>14 DEF Commit, Goto, Leave, req, TypeAll, TypePc
    <2>15. CASE Tombstone(p)
      BY <2>15 DEF Tombstone, Goto, Leave, req, TypeAll, TypePc
    <2>16. CASE Crash(p)
      BY <2>16 DEF Crash, Goto, Leave, req, TypeAll, TypePc
    <2> QED BY Zenon, <2>1, <2>2, <2>3, <2>4, <2>5, <2>6, <2>7, <2>8, <2>9, <2>10, <2>11, <2>12, <2>13, <2>14, <2>15, <2>16 DEF Step
  <1>3. \/ pc'[p] \notin Holding
        \/ active
        \/ status = "active" /\ now < exp
        \/ /\ pc[p] \in Holding /\ late'[p] = late[p]
           /\ pc'[p] \in Filling => pc[p] \in Filling /\ deadline'[p] = deadline[p]
    <2>1. CASE ReadCache(p)
      BY <2>1 DEF ReadCache, Begins, Goto, Live, req, TypeAll, TypePc, TypeReq, Holding, Filling
    <2>2. CASE BeginChange(p)
      BY <2>2 DEF BeginChange, Begins, Goto, req, TypeAll, TypePc, TypeReq, Holding, Filling
    <2>3. CASE LoadRow(p)
      BY <2>3 DEF LoadRow, Goto, Leave, ValidAt, req, TypeAll, TypePc, TypeReq, Holding, Filling
    <2>4. CASE CacheDenied(p)
      BY <2>4 DEF CacheDenied, Goto, Leave, req, TypeAll, TypePc, TypeReq, Holding, Filling
    <2>5. CASE SwapRefresh(p)
      BY <2>5 DEF SwapRefresh, Stay, Goto, Leave, req, TypeAll, TypePc, TypeReq, Holding, Filling
    <2>6. CASE AdvanceVersion(p)
      BY <2>6 DEF AdvanceVersion, Goto, Leave, ValidAt, req, TypeAll, TypePc, TypeReq, Holding, Filling
    <2>7. CASE CheckDeadline(p)
      BY <2>7 DEF CheckDeadline, InTime, Stay, Goto, Leave, req, TypeAll, TypePc, TypeReq, Holding, Filling
    <2>8. CASE Fill(p)
      BY <2>8 DEF Fill, Stay, Goto, Leave, req, TypeAll, TypePc, TypeReq, Holding, Filling
    <2>9. CASE Filled(p)
      BY <2>9 DEF Filled, InTime, Stay, Goto, Leave, req, TypeAll, TypePc, TypeReq, Holding, Filling
    <2>10. CASE Confirm(p)
      BY <2>10 DEF Confirm, Stay, Goto, Leave, req, TypeAll, TypePc, TypeReq, Holding, Filling
    <2>11. CASE Finish(p)
      BY <2>11 DEF Finish, Goto, Leave, req, TypeAll, TypePc, TypeReq, Holding, Filling
    <2>12. CASE RevokeRead(p)
      BY <2>12 DEF RevokeRead, Begins, Goto, req, TypeAll, TypePc, TypeReq, Holding, Filling
    <2>13. CASE Fence(p)
      BY <2>13 DEF Fence, Stay, Goto, Leave, req, TypeAll, TypePc, TypeReq, Holding, Filling
    <2>14. CASE Commit(p)
      BY <2>14 DEF Commit, Goto, Leave, req, TypeAll, TypePc, TypeReq, Holding, Filling
    <2>15. CASE Tombstone(p)
      BY <2>15 DEF Tombstone, Goto, Leave, req, TypeAll, TypePc, TypeReq, Holding, Filling
    <2>16. CASE Crash(p)
      BY <2>16 DEF Crash, Goto, Leave, req, TypeAll, TypePc, TypeReq, Holding, Filling
    <2> QED BY Zenon, <2>1, <2>2, <2>3, <2>4, <2>5, <2>6, <2>7, <2>8, <2>9, <2>10, <2>11, <2>12, <2>13, <2>14, <2>15, <2>16 DEF Step
  <1>4. sealed => ~active /\ ~(status = "active" /\ now < exp)
    <2>1. ASSUME sealed, status = "active", now < exp PROVE FALSE
      <3>1. SealExp <= now /\ exp <= SealExp
        BY <2>1 DEF SealHash, Deny
      <3> QED BY <1>0, <2>1, <3>1
    <2> QED BY <2>1 DEF SealRow
  <1>5. sealed => sealed'
    BY SealStep DEF seal
  <1>6. late'[p] => sealed /\ pc'[p] \notin Holding
    <2>1. late'[p] => sealed
      BY <1>2 DEF SealReq
    <2>2. ASSUME late'[p], pc'[p] \in Holding PROVE FALSE
      BY <1>3, <1>4, <2>1, <2>2 DEF SealReq
    <2> QED BY <2>1, <2>2
  <1>7. ASSUME sealed', pc'[p] \in Filling PROVE deadline'[p] <= sealAt' + CacheTTL
    <2>1. UNCHANGED seal
      <3>1. pc[p] # "tombstone"
        <4> SUFFICES ASSUME pc[p] = "tombstone" PROVE FALSE
          OBVIOUS
        <4>1. Tombstone(p) \/ Crash(p)
          BY Zenon DEF Step, ReadCache, BeginChange, LoadRow, CacheDenied, SwapRefresh, AdvanceVersion, CheckDeadline, Fill, Filled, Confirm, Finish, RevokeRead, Fence, Commit, Begins
        <4>2. pc'[p] = "idle"
          BY <4>1 DEF Tombstone, Crash, Leave, Goto, TypeAll, TypePc
        <4> QED BY <1>7, <4>2 DEF Filling
      <3> QED BY <3>1, SealStep
    <2>2. sealed /\ sealAt' = sealAt
      BY <1>7, <2>1 DEF seal
    <2>3. pc[p] \in Filling /\ deadline'[p] = deadline[p]
      BY <1>3, <1>4, <1>7, <2>2 DEF Filling, Holding
    <2> QED BY <2>2, <2>3 DEF SealReq
  <1> QED BY <1>1, <1>5, <1>6, <1>7 DEF SealReq

\* A step of one request leaves what is known of the others' late fills.
LEMMA OthersSeal ==
  ASSUME TypeAll, NEW p \in Proc, Step(p), NEW q \in Proc, q # p, ReqInTime(q), SealReq(q)
  PROVE  SealReq(q)'
  <1>1. pc'[q] = pc[q] /\ deadline'[q] = deadline[q] /\ late'[q] = late[q]
    BY Others
  <1>2. pc'[q] = "tombstone" => ~active'
    BY <1>1, SealStep DEF SealReq
  <1>3. late'[q] => sealed' /\ pc'[q] \notin Holding
    BY <1>1, SealStep DEF SealReq, seal
  <1>4. ASSUME sealed', pc'[q] \in Filling PROVE deadline'[q] <= sealAt' + CacheTTL
    <2>1. CASE UNCHANGED seal
      BY <1>1, <1>4, <2>1 DEF SealReq, seal
    <2>2. CASE sealAt' = now
      BY <1>1, <2>2 DEF ReqInTime
    <2> QED BY <2>1, <2>2, SealStep
  <1> QED BY <1>2, <1>3, <1>4 DEF SealReq

\* The seal holds at the start.
LEMMA SealInit == Init => SealInv
  <1> SUFFICES ASSUME Init PROVE SealInv
    OBVIOUS
  <1>1. sealed = FALSE /\ (\A q \in Proc : pc[q] = "idle" /\ late[q] = FALSE)
    BY DEF Init
  <1>2. SealRow
    BY DEF Init, SealRow
  <1>3. SealHash /\ \A q \in Proc : SealReq(q)
    BY <1>1 DEF SealHash, SealReq
  <1> QED BY FreshInit, <1>2, <1>3 DEF SealInv

\* The seal holds while time passes.
LEMMA SealTick == ASSUME SealInv, Tick PROVE SealInv'
  <1>0. now \in Nat /\ now' = now + 1 /\ sealAt \in Nat /\ SealExp \in Nat /\ TypeAll
    BY SessionAssumption DEF SealInv, FreshInv, TypeAll, TypeRest, Tick, SealExp, Min
  <1>1. FreshInv'
    BY FreshTick DEF SealInv
  <1>2. SealRow'
    <2>1. sealAt' = sealAt /\ sealed' = sealed /\ active' = active
      BY DEF Tick, seal, row
    <2>2. sealAt' <= now'
      BY <1>0, <2>1 DEF SealInv, SealRow
    <2> QED BY <2>1, <2>2 DEF SealInv, SealRow
  <1>3. SealHash'
    <2>1. SealExp' = SealExp /\ UNCHANGED <<sealed, status, exp>>
      BY DEF Tick, seal, hash, SealExp
    <2>2. SealExp <= now => SealExp <= now'
      BY <1>0
    <2> QED BY <2>1, <2>2 DEF SealInv, SealHash
  <1>4. \A q \in Proc : SealReq(q)'
    BY DEF SealInv, SealReq, Tick, req, row, seal
  <1> QED BY <1>1, <1>2, <1>3, <1>4 DEF SealInv

\* Every step keeps the seal.
LEMMA SealNext == SealInv /\ [Next]_vars => SealInv'
  <1> SUFFICES ASSUME SealInv, [Next]_vars PROVE SealInv'
    OBVIOUS
  <1>0. FreshInv'
    BY FreshStep DEF SealInv
  <1>1. ASSUME NEW p \in Proc, Step(p) PROVE SealInv'
    <2>0. TypeAll
      BY DEF SealInv, FreshInv
    <2>1. SealRow' /\ SealHash'
      BY <1>1, <2>0, StepSealRow, StepSealHash DEF SealInv
    <2>2. ASSUME NEW q \in Proc PROVE SealReq(q)'
      <3>1. CASE q = p
        BY <3>1, <1>1, <2>0, OwnSeal DEF SealInv
      <3>2. CASE q # p
        BY <3>2, <1>1, <2>0, OthersSeal DEF SealInv, FreshInv
      <3> QED BY <3>1, <3>2
    <2> QED BY <1>0, <2>1, <2>2 DEF SealInv
  <1>2. CASE Tick
    BY <1>2, SealTick
  <1>3. CASE UNCHANGED vars
    BY <1>0, <1>3 DEF vars, row, hash, req, seal, SealInv, SealRow, SealHash, SealExp, SealReq
  <1> QED BY <1>1, <1>2, <1>3, Zenon DEF Next

\* Once a tombstone has been published no later request is authorized, even when
\* the tombstone has expired and older fills are still to be written.
THEOREM SealedCorrect == Spec => []SealedIsFinal
  <1>1. SealInv => SealedIsFinal
    BY DEF SealInv, SealReq, SealedIsFinal, Holding
  <1> QED BY <1>1, SealInit, SealNext, PTL DEF Spec

=============================================================================
