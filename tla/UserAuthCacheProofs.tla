------------------------ MODULE UserAuthCacheProofs ------------------------
(* Proofs about UserAuthCache, for every set of requests and every bound.  *)
EXTENDS UserAuthCache, TLAPS

\* What holds whatever the timing: TypeOK is not inductive alone, since a
\* transaction commits the version it has in hand.
OrderInv == TypeOK /\ SnapshotsInOrder /\ FloorIsCommitted

\* The types of the variables one by one, and who holds the row lock.
TypeVars ==
    /\ ver \in Version /\ row \in {"present", "soft", "gone"}
    /\ txn \in Proc \cup {NoProc}
    /\ hash \in Version \cup {Absent}
    /\ fence \in Version \cup {Absent}
    /\ floor \in Version \cup {Absent}
    /\ pc \in [Proc -> Pc]
    /\ snap \in [Proc -> Version \cup {Absent}]
    /\ since \in [Proc -> Version \cup {Absent}]
    /\ faults \in 0..MaxFaults

LockHeld == \A p \in Proc : txn = p <=> pc[p] \in {"fence", "commit"}

\* The type invariant is the types of the variables and the row lock.
LEMMA TypeSplit == TypeOK <=> TypeVars /\ LockHeld
  BY DEF TypeOK, TypeVars, LockHeld

\* The order of versions holds at the start.
LEMMA OrderInit == Init => OrderInv
  <1> SUFFICES ASSUME Init PROVE OrderInv
    OBVIOUS
  <1>1. TypeVars
    BY VersionAssumption DEF Init, TypeVars, Version, Absent, Pc, redis
  <1>2. LockHeld
    BY ProcAssumption DEF Init, LockHeld, NoProc
  <1>3. SnapshotsInOrder
    <2>1. \A p \in Proc : pc[p] = "idle"
      BY DEF Init
    <2>2. Absent <= ver
      BY DEF Init, Absent
    <2>3. \A p \in Proc : since[p] <= ver
      BY <2>2 DEF Init
    <2> QED BY <2>1, <2>3 DEF SnapshotsInOrder
  <1>4. FloorIsCommitted
    BY DEF Init, FloorIsCommitted, Absent
  <1> QED BY <1>1, <1>2, <1>3, <1>4, TypeSplit DEF OrderInv

\* A fault is counted within its bound.
LEMMA FaultBound == ASSUME faults \in 0..MaxFaults, Ok \/ Fault PROVE faults' \in 0..MaxFaults
  BY VersionAssumption DEF Ok, Fault

\* Every variable keeps its type.
LEMMA TypeVarsStep ==
  ASSUME OrderInv, [Next]_vars
  PROVE  TypeVars'
  <1>0. TypeVars /\ LockHeld
    BY TypeSplit DEF OrderInv
  <1>1. ASSUME NEW p \in Proc, ReadHash(p) PROVE TypeVars'
    <2>1. faults' \in 0..MaxFaults
      BY <1>0, <1>1, FaultBound DEF ReadHash, Ok, TypeVars
    <2> QED
      BY <1>0, <1>1, <2>1 DEF ReadHash, db, TypeVars, Pc, redis
  <1>2. ASSUME NEW p \in Proc, CheckFloor(p) PROVE TypeVars'
    <2>1. faults' \in 0..MaxFaults
      BY <1>0, <1>2, FaultBound DEF CheckFloor, Ok, TypeVars
    <2> QED
      BY <1>0, <1>2, <2>1 DEF CheckFloor, Served, At, db, TypeVars, Pc, redis
  <1>3. ASSUME NEW p \in Proc, LoadRow(p) PROVE TypeVars'
    <2>1. faults' \in 0..MaxFaults
      BY <1>0, <1>3, FaultBound DEF LoadRow, Ok, TypeVars
    <2> QED
      BY <1>0, <1>3, <2>1 DEF LoadRow, Denied, AtWith, db, At, TypeVars, Pc, redis
  <1>4. ASSUME NEW p \in Proc, Gate(p) PROVE TypeVars'
    <2>1. faults' \in 0..MaxFaults
      BY <1>0, <1>4, FaultBound DEF Gate, Ok, TypeVars
    <2> QED
      BY <1>0, <1>4, <2>1 DEF Gate, Denied, At, db, TypeVars, Pc, redis
  <1>5. ASSUME NEW p \in Proc, Fill(p) PROVE TypeVars'
    <2>1. faults' \in 0..MaxFaults
      BY <1>0, <1>5, FaultBound DEF Fill, Ok, TypeVars
    <2> QED
      BY <1>0, <1>5, <2>1 DEF Fill, Publish, Served, Denied, db, At, TypeVars, Pc, redis
  <1>6. ASSUME NEW p \in Proc, Return(p) PROVE TypeVars'
    <2>1. faults' \in 0..MaxFaults
      BY <1>0, <1>6, FaultBound DEF Return, Ok, TypeVars
    <2> QED
      BY <1>0, <1>6, <2>1 DEF Return, At, db, TypeVars, Pc, redis
  <1>7. ASSUME NEW p \in Proc, TxLock(p) PROVE TypeVars'
    <2>1. faults' \in 0..MaxFaults
      BY <1>0, <1>7, FaultBound DEF TxLock, Ok, TypeVars
    <2> QED
      BY <1>0, <1>7, <2>1, VersionAssumption DEF TxLock, AtWith, TypeVars, Version, Pc, redis
  <1>8. ASSUME NEW p \in Proc, TxFence(p) PROVE TypeVars'
    <2>1. faults' \in 0..MaxFaults
      BY <1>0, <1>8, FaultBound DEF TxFence, Ok, TypeVars
    <2> QED
      BY <1>0, <1>8, <2>1 DEF TxFence, RaiseFence, Denied, At, db, TypeVars, Pc, redis
  <1>9. ASSUME NEW p \in Proc, TxCommit(p) PROVE TypeVars'
    <2>1. faults' \in 0..MaxFaults
      BY <1>0, <1>9, FaultBound DEF TxCommit, Ok, TypeVars
    <2>2. ver' \in Version
      BY <1>0, <1>9, VersionAssumption DEF OrderInv, SnapshotsInOrder, TxCommit, TypeVars, Version, Absent
    <2> QED
      BY <1>0, <1>9, <2>1, <2>2 DEF TxCommit, At, TypeVars, Pc, redis
  <1>10. ASSUME NEW p \in Proc, TxRollback(p) PROVE TypeVars'
    <2>1. faults' \in 0..MaxFaults
      BY <1>0, <1>10, FaultBound DEF TxRollback, Ok, TypeVars
    <2> QED
      BY <1>0, <1>10, <2>1 DEF TxRollback, Denied, At, TypeVars, Pc, redis
  <1>11. ASSUME NEW p \in Proc, RefreshStart(p) PROVE TypeVars'
    <2>1. faults' \in 0..MaxFaults
      BY <1>0, <1>11, FaultBound DEF RefreshStart, Ok, TypeVars
    <2> QED
      BY <1>0, <1>11, <2>1 DEF RefreshStart, At, db, TypeVars, Pc, redis
  <1>12. ASSUME NEW p \in Proc, Reread(p) PROVE TypeVars'
    <2>1. faults' \in 0..MaxFaults
      BY <1>0, <1>12, FaultBound DEF Reread, Ok, TypeVars
    <2> QED
      BY <1>0, <1>12, <2>1 DEF Reread, Denied, AtWith, db, At, TypeVars, Pc, redis
  <1>13. ASSUME NEW p \in Proc, Refresh(p) PROVE TypeVars'
    <2>1. faults' \in 0..MaxFaults
      BY <1>0, <1>13, FaultBound DEF Refresh, Ok, TypeVars
    <2> QED
      BY <1>0, <1>13, <2>1 DEF Refresh, Publish, At, db, TypeVars, Version, Absent, Pc, redis
  <1>14. ASSUME NEW p \in Proc, Tombstone(p) PROVE TypeVars'
    <2>1. faults' \in 0..MaxFaults
      BY <1>0, <1>14, FaultBound DEF Tombstone, Ok, TypeVars
    <2> QED
      BY <1>0, <1>14, <2>1 DEF Tombstone, Publish, Denied, At, db, TypeVars, Pc, redis
  <1>15. ASSUME NEW p \in Proc, Invalidate(p) PROVE TypeVars'
    <2>1. faults' \in 0..MaxFaults
      BY <1>0, <1>15, FaultBound DEF Invalidate, Ok, TypeVars
    <2> QED
      BY <1>0, <1>15, <2>1 DEF Invalidate, At, db, TypeVars, Pc
  <1>16. ASSUME NEW p \in Proc, FieldSelect(p) PROVE TypeVars'
    <2>1. faults' \in 0..MaxFaults
      BY <1>0, <1>16, FaultBound DEF FieldSelect, Ok, TypeVars
    <2> QED
      BY <1>0, <1>16, <2>1 DEF FieldSelect, AtWith, db, TypeVars, Pc, redis
  <1>17. ASSUME NEW p \in Proc, FieldWrite(p) PROVE TypeVars'
    <2>1. faults' \in 0..MaxFaults
      BY <1>0, <1>17, FaultBound DEF FieldWrite, Ok, TypeVars
    <2> QED
      BY <1>0, <1>17, <2>1 DEF FieldWrite, Publish, At, db, TypeVars, Pc, redis
  <1>18. ASSUME NEW p \in Proc, Crash(p) PROVE TypeVars'
    <2>1. faults' \in 0..MaxFaults
      BY <1>0, <1>18, FaultBound DEF Crash, Ok, TypeVars
    <2> QED
      BY <1>0, <1>18, <2>1 DEF Crash, At, TypeVars, Pc, redis
  <1>19. ASSUME HashExpires PROVE TypeVars'
    BY <1>0, <1>19 DEF HashExpires, TypeVars, db, local
  <1>20. ASSUME FenceExpires PROVE TypeVars'
    BY <1>0, <1>20 DEF FenceExpires, TypeVars, db, local
  <1>21. ASSUME UNCHANGED vars PROVE TypeVars'
    BY <1>0, <1>21 DEF vars, db, local, TypeVars, redis
  <1> QED
    BY <1>1, <1>2, <1>3, <1>4, <1>5, <1>6, <1>7, <1>8, <1>9, <1>10,
       <1>11, <1>12, <1>13, <1>14, <1>15, <1>16, <1>17, <1>18, <1>19, <1>20, <1>21 DEF Next, Read, Change, Update

\* The row lock is held by the transaction in progress, and by no other.
LEMMA LockStep ==
  ASSUME OrderInv, [Next]_vars
  PROVE  LockHeld'
  <1>0. TypeVars /\ LockHeld
    BY TypeSplit DEF OrderInv
  <1>a. pc \in [Proc -> Pc] /\ NoProc \notin Proc
    BY <1>0, ProcAssumption DEF TypeVars, NoProc
  <1>1. ASSUME NEW p \in Proc, ReadHash(p) PROVE LockHeld'
    BY <1>0, <1>a, <1>1 DEF ReadHash, db, LockHeld
  <1>2. ASSUME NEW p \in Proc, CheckFloor(p) PROVE LockHeld'
    BY <1>0, <1>a, <1>2 DEF CheckFloor, Served, At, db, LockHeld
  <1>3. ASSUME NEW p \in Proc, LoadRow(p) PROVE LockHeld'
    BY <1>0, <1>a, <1>3 DEF LoadRow, Denied, AtWith, db, At, LockHeld
  <1>4. ASSUME NEW p \in Proc, Gate(p) PROVE LockHeld'
    BY <1>0, <1>a, <1>4 DEF Gate, Denied, At, db, LockHeld
  <1>5. ASSUME NEW p \in Proc, Fill(p) PROVE LockHeld'
    BY <1>0, <1>a, <1>5 DEF Fill, Served, Denied, db, At, LockHeld
  <1>6. ASSUME NEW p \in Proc, Return(p) PROVE LockHeld'
    BY <1>0, <1>a, <1>6 DEF Return, At, db, LockHeld
  <1>7. ASSUME NEW p \in Proc, TxLock(p) PROVE LockHeld'
    BY <1>0, <1>a, <1>7 DEF TxLock, AtWith, LockHeld
  <1>8. ASSUME NEW p \in Proc, TxFence(p) PROVE LockHeld'
    BY <1>0, <1>a, <1>8 DEF TxFence, Denied, At, db, LockHeld
  <1>9. ASSUME NEW p \in Proc, TxCommit(p) PROVE LockHeld'
    BY <1>0, <1>a, <1>9 DEF TxCommit, At, LockHeld
  <1>10. ASSUME NEW p \in Proc, TxRollback(p) PROVE LockHeld'
    BY <1>0, <1>a, <1>10 DEF TxRollback, Denied, At, LockHeld
  <1>11. ASSUME NEW p \in Proc, RefreshStart(p) PROVE LockHeld'
    BY <1>0, <1>a, <1>11 DEF RefreshStart, At, db, LockHeld
  <1>12. ASSUME NEW p \in Proc, Reread(p) PROVE LockHeld'
    BY <1>0, <1>a, <1>12 DEF Reread, Denied, AtWith, db, At, LockHeld
  <1>13. ASSUME NEW p \in Proc, Refresh(p) PROVE LockHeld'
    BY <1>0, <1>a, <1>13 DEF Refresh, At, db, LockHeld
  <1>14. ASSUME NEW p \in Proc, Tombstone(p) PROVE LockHeld'
    BY <1>0, <1>a, <1>14 DEF Tombstone, Denied, At, db, LockHeld
  <1>15. ASSUME NEW p \in Proc, Invalidate(p) PROVE LockHeld'
    BY <1>0, <1>a, <1>15 DEF Invalidate, At, db, LockHeld
  <1>16. ASSUME NEW p \in Proc, FieldSelect(p) PROVE LockHeld'
    BY <1>0, <1>a, <1>16 DEF FieldSelect, AtWith, db, LockHeld
  <1>17. ASSUME NEW p \in Proc, FieldWrite(p) PROVE LockHeld'
    BY <1>0, <1>a, <1>17 DEF FieldWrite, At, db, LockHeld
  <1>18. ASSUME NEW p \in Proc, Crash(p) PROVE LockHeld'
    BY <1>0, <1>a, <1>18 DEF Crash, At, LockHeld
  <1>19. ASSUME HashExpires PROVE LockHeld'
    BY <1>0, <1>a, <1>19 DEF HashExpires, db, local, LockHeld
  <1>20. ASSUME FenceExpires PROVE LockHeld'
    BY <1>0, <1>a, <1>20 DEF FenceExpires, db, local, LockHeld
  <1>21. ASSUME UNCHANGED vars PROVE LockHeld'
    BY <1>0, <1>a, <1>21 DEF vars, db, local, LockHeld
  <1> QED
    BY <1>1, <1>2, <1>3, <1>4, <1>5, <1>6, <1>7, <1>8, <1>9, <1>10,
       <1>11, <1>12, <1>13, <1>14, <1>15, <1>16, <1>17, <1>18, <1>19, <1>20, <1>21
    DEF Next, Read, Change, Update

\* Snapshots in hand stay behind the database.
LEMMA SnapshotsStep ==
  ASSUME OrderInv, [Next]_vars
  PROVE  SnapshotsInOrder'
  <1>0. LockHeld /\ SnapshotsInOrder /\ FloorIsCommitted
    BY TypeSplit DEF OrderInv
  <1>a. /\ pc \in [Proc -> Pc] /\ ver \in Nat /\ hash \in Nat
        /\ snap \in [Proc -> Nat] /\ since \in [Proc -> Nat]
    BY TypeSplit, VersionAssumption DEF OrderInv, TypeVars, Version, Absent
  <1>1. ASSUME NEW p \in Proc, ReadHash(p) PROVE SnapshotsInOrder'
    BY <1>0, <1>a, <1>1 DEF ReadHash, db, SnapshotsInOrder, FloorIsCommitted
  <1>2. ASSUME NEW p \in Proc, CheckFloor(p) PROVE SnapshotsInOrder'
    BY <1>0, <1>a, <1>2 DEF CheckFloor, Served, At, db, SnapshotsInOrder
  <1>3. ASSUME NEW p \in Proc, LoadRow(p) PROVE SnapshotsInOrder'
    BY <1>0, <1>a, <1>3 DEF LoadRow, Denied, AtWith, db, At, SnapshotsInOrder
  <1>4. ASSUME NEW p \in Proc, Gate(p) PROVE SnapshotsInOrder'
    BY <1>0, <1>a, <1>4 DEF Gate, Denied, At, db, SnapshotsInOrder
  <1>5. ASSUME NEW p \in Proc, Fill(p) PROVE SnapshotsInOrder'
    BY <1>0, <1>a, <1>5 DEF Fill, Served, Denied, db, At, SnapshotsInOrder
  <1>6. ASSUME NEW p \in Proc, Return(p) PROVE SnapshotsInOrder'
    BY <1>0, <1>a, <1>6 DEF Return, At, db, SnapshotsInOrder
  <1>7. ASSUME NEW p \in Proc, TxLock(p) PROVE SnapshotsInOrder'
    BY <1>0, <1>a, <1>7 DEF TxLock, AtWith, SnapshotsInOrder
  <1>8. ASSUME NEW p \in Proc, TxFence(p) PROVE SnapshotsInOrder'
    BY <1>0, <1>a, <1>8 DEF TxFence, Denied, At, db, SnapshotsInOrder
  <1>9. ASSUME NEW p \in Proc, TxCommit(p) PROVE SnapshotsInOrder'
    BY <1>0, <1>a, <1>9 DEF TxCommit, At, LockHeld, SnapshotsInOrder
  <1>10. ASSUME NEW p \in Proc, TxRollback(p) PROVE SnapshotsInOrder'
    BY <1>0, <1>a, <1>10 DEF TxRollback, Denied, At, SnapshotsInOrder
  <1>11. ASSUME NEW p \in Proc, RefreshStart(p) PROVE SnapshotsInOrder'
    BY <1>0, <1>a, <1>11 DEF RefreshStart, At, db, SnapshotsInOrder
  <1>12. ASSUME NEW p \in Proc, Reread(p) PROVE SnapshotsInOrder'
    BY <1>0, <1>a, <1>12 DEF Reread, Denied, AtWith, db, At, SnapshotsInOrder
  <1>13. ASSUME NEW p \in Proc, Refresh(p) PROVE SnapshotsInOrder'
    BY <1>0, <1>a, <1>13 DEF Refresh, At, db, SnapshotsInOrder
  <1>14. ASSUME NEW p \in Proc, Tombstone(p) PROVE SnapshotsInOrder'
    BY <1>0, <1>a, <1>14 DEF Tombstone, Denied, At, db, SnapshotsInOrder
  <1>15. ASSUME NEW p \in Proc, Invalidate(p) PROVE SnapshotsInOrder'
    BY <1>0, <1>a, <1>15 DEF Invalidate, At, db, SnapshotsInOrder
  <1>16. ASSUME NEW p \in Proc, FieldSelect(p) PROVE SnapshotsInOrder'
    BY <1>0, <1>a, <1>16 DEF FieldSelect, AtWith, db, SnapshotsInOrder
  <1>17. ASSUME NEW p \in Proc, FieldWrite(p) PROVE SnapshotsInOrder'
    BY <1>0, <1>a, <1>17 DEF FieldWrite, At, db, SnapshotsInOrder
  <1>18. ASSUME NEW p \in Proc, Crash(p) PROVE SnapshotsInOrder'
    BY <1>0, <1>a, <1>18 DEF Crash, At, SnapshotsInOrder
  <1>19. ASSUME HashExpires PROVE SnapshotsInOrder'
    BY <1>0, <1>a, <1>19 DEF HashExpires, db, local, LockHeld, SnapshotsInOrder, FloorIsCommitted
  <1>20. ASSUME FenceExpires PROVE SnapshotsInOrder'
    BY <1>0, <1>a, <1>20 DEF FenceExpires, db, local, LockHeld, SnapshotsInOrder, FloorIsCommitted, redis
  <1>21. ASSUME UNCHANGED vars PROVE SnapshotsInOrder'
    BY <1>0, <1>a, <1>21 DEF vars, db, local, SnapshotsInOrder
  <1> QED
    BY <1>1, <1>2, <1>3, <1>4, <1>5, <1>6, <1>7, <1>8, <1>9, <1>10,
       <1>11, <1>12, <1>13, <1>14, <1>15, <1>16, <1>17, <1>18, <1>19, <1>20, <1>21
    DEF Next, Read, Change, Update

\* The permanent floor and the hash stay behind the database.
LEMMA FloorStep ==
  ASSUME OrderInv, [Next]_vars
  PROVE  FloorIsCommitted'
  <1>0. SnapshotsInOrder /\ FloorIsCommitted
    BY DEF OrderInv
  <1>a. ver \in Nat /\ hash \in Nat /\ floor \in Nat /\ fence \in Nat /\ snap \in [Proc -> Nat]
    BY TypeSplit, VersionAssumption DEF OrderInv, TypeVars, Version, Absent
  <1>1. ASSUME NEW p \in Proc, ReadHash(p) PROVE FloorIsCommitted'
    BY <1>0, <1>a, <1>1 DEF ReadHash, db, FloorIsCommitted, redis
  <1>2. ASSUME NEW p \in Proc, CheckFloor(p) PROVE FloorIsCommitted'
    BY <1>0, <1>a, <1>2 DEF CheckFloor, db, FloorIsCommitted, redis
  <1>3. ASSUME NEW p \in Proc, LoadRow(p) PROVE FloorIsCommitted'
    BY <1>0, <1>a, <1>3 DEF LoadRow, db, FloorIsCommitted, redis
  <1>4. ASSUME NEW p \in Proc, Gate(p) PROVE FloorIsCommitted'
    BY <1>0, <1>a, <1>4 DEF Gate, db, FloorIsCommitted, redis
  <1>5. ASSUME NEW p \in Proc, Fill(p) PROVE FloorIsCommitted'
    BY <1>0, <1>a, <1>5 DEF Fill, Publish, db, SnapshotsInOrder, FloorIsCommitted, redis
  <1>6. ASSUME NEW p \in Proc, Return(p) PROVE FloorIsCommitted'
    BY <1>0, <1>a, <1>6 DEF Return, db, FloorIsCommitted, redis
  <1>7. ASSUME NEW p \in Proc, TxLock(p) PROVE FloorIsCommitted'
    BY <1>0, <1>a, <1>7 DEF TxLock, FloorIsCommitted, redis
  <1>8. ASSUME NEW p \in Proc, TxFence(p) PROVE FloorIsCommitted'
    BY <1>0, <1>a, <1>8 DEF TxFence, RaiseFence, db, FloorIsCommitted, redis
  <1>9. ASSUME NEW p \in Proc, TxCommit(p) PROVE FloorIsCommitted'
    BY <1>0, <1>a, <1>9 DEF TxCommit, SnapshotsInOrder, FloorIsCommitted, redis
  <1>10. ASSUME NEW p \in Proc, TxRollback(p) PROVE FloorIsCommitted'
    BY <1>0, <1>a, <1>10 DEF TxRollback, FloorIsCommitted, redis
  <1>11. ASSUME NEW p \in Proc, RefreshStart(p) PROVE FloorIsCommitted'
    BY <1>0, <1>a, <1>11 DEF RefreshStart, db, FloorIsCommitted, redis
  <1>12. ASSUME NEW p \in Proc, Reread(p) PROVE FloorIsCommitted'
    BY <1>0, <1>a, <1>12 DEF Reread, db, FloorIsCommitted, redis
  <1>13. ASSUME NEW p \in Proc, Refresh(p) PROVE FloorIsCommitted'
    BY <1>0, <1>a, <1>13 DEF Refresh, Publish, db, SnapshotsInOrder, FloorIsCommitted, redis
  <1>14. ASSUME NEW p \in Proc, Tombstone(p) PROVE FloorIsCommitted'
    BY <1>0, <1>a, <1>14 DEF Tombstone, Publish, db, SnapshotsInOrder, FloorIsCommitted, redis
  <1>15. ASSUME NEW p \in Proc, Invalidate(p) PROVE FloorIsCommitted'
    BY <1>0, <1>a, <1>15 DEF Invalidate, db, FloorIsCommitted, Absent
  <1>16. ASSUME NEW p \in Proc, FieldSelect(p) PROVE FloorIsCommitted'
    BY <1>0, <1>a, <1>16 DEF FieldSelect, db, FloorIsCommitted, redis
  <1>17. ASSUME NEW p \in Proc, FieldWrite(p) PROVE FloorIsCommitted'
    BY <1>0, <1>a, <1>17 DEF FieldWrite, Publish, db, SnapshotsInOrder, FloorIsCommitted, redis
  <1>18. ASSUME NEW p \in Proc, Crash(p) PROVE FloorIsCommitted'
    BY <1>0, <1>a, <1>18 DEF Crash, FloorIsCommitted, redis
  <1>19. ASSUME HashExpires PROVE FloorIsCommitted'
    BY <1>0, <1>a, <1>19 DEF HashExpires, db, FloorIsCommitted, Absent
  <1>20. ASSUME FenceExpires PROVE FloorIsCommitted'
    BY <1>0, <1>a, <1>20 DEF FenceExpires, db, FloorIsCommitted
  <1>21. ASSUME UNCHANGED vars PROVE FloorIsCommitted'
    BY <1>0, <1>a, <1>21 DEF vars, db, FloorIsCommitted, redis
  <1> QED
    BY <1>1, <1>2, <1>3, <1>4, <1>5, <1>6, <1>7, <1>8, <1>9, <1>10,
       <1>11, <1>12, <1>13, <1>14, <1>15, <1>16, <1>17, <1>18, <1>19, <1>20, <1>21
    DEF Next, Read, Change, Update

\* Every step keeps the order of versions.
LEMMA OrderStep == OrderInv /\ [Next]_vars => OrderInv'
  <1> SUFFICES ASSUME OrderInv, [Next]_vars PROVE OrderInv'
    OBVIOUS
  <1>1. TypeVars' /\ LockHeld' /\ SnapshotsInOrder' /\ FloorIsCommitted'
    BY TypeVarsStep, LockStep, SnapshotsStep, FloorStep
  <1>2. TypeOK' <=> TypeVars' /\ LockHeld'
    BY DEF TypeOK, TypeVars, LockHeld
  <1> QED BY <1>1, <1>2 DEF OrderInv

\* Every variable keeps its type, and one transaction at a time holds the row.
THEOREM AuthTypeCorrect == Spec => []TypeOK
  <1>1. OrderInv => TypeOK
    BY DEF OrderInv
  <1> QED BY <1>1, OrderInit, OrderStep, PTL DEF Spec

\* Neither the cached hash nor the permanent floor that getUserAuthVersionFloor
\* reads ever passes the committed auth_version, however the scripts, the
\* transactions and the failures interleave: no user is locked out for ever.
THEOREM FloorCorrect == Spec => []FloorIsCommitted
  <1>1. OrderInv => FloorIsCommitted
    BY DEF OrderInv
  <1> QED BY <1>1, OrderInit, OrderStep, PTL DEF Spec

-----------------------------------------------------------------------------
(* Stale snapshots, when no transaction and no stale snapshot outlives a   *)
(* fence.                                                                  *)

\* The facts about numbers and program counters that the steps below use.
Numbers ==
    /\ ver \in Nat /\ hash \in Nat /\ floor \in Nat /\ fence \in Nat
    /\ pc \in [Proc -> Pc] /\ snap \in [Proc -> Nat] /\ since \in [Proc -> Nat]

\* The versions a step compares are numbers.
LEMMA OrderNumbers == OrderInv => Numbers
  BY TypeSplit, VersionAssumption DEF OrderInv, TypeVars, Numbers, Version, Absent

\* The fence of a transaction that may still commit is there.
LEMMA PendingStep ==
  ASSUME PromptTx, OrderInv, PendingIsFenced, [Next]_vars
  PROVE  PendingIsFenced'
  <1>0. LockHeld /\ SnapshotsInOrder /\ Numbers
    BY TypeSplit, OrderNumbers DEF OrderInv
  <1>1. ASSUME NEW p \in Proc, ReadHash(p) PROVE PendingIsFenced'
    BY <1>0, <1>1 DEF ReadHash, PendingIsFenced, Numbers, redis
  <1>2. ASSUME NEW p \in Proc, CheckFloor(p) PROVE PendingIsFenced'
    BY <1>0, <1>2 DEF CheckFloor, Served, At, PendingIsFenced, Numbers, redis
  <1>3. ASSUME NEW p \in Proc, LoadRow(p) PROVE PendingIsFenced'
    BY <1>0, <1>3 DEF LoadRow, Denied, AtWith, At, PendingIsFenced, Numbers, redis
  <1>4. ASSUME NEW p \in Proc, Gate(p) PROVE PendingIsFenced'
    BY <1>0, <1>4 DEF Gate, Denied, At, PendingIsFenced, Numbers, redis
  <1>5. ASSUME NEW p \in Proc, Fill(p) PROVE PendingIsFenced'
    BY <1>0, <1>5 DEF Fill, Publish, Served, Denied, At, SnapshotsInOrder, PendingIsFenced, Numbers, redis
  <1>6. ASSUME NEW p \in Proc, Return(p) PROVE PendingIsFenced'
    BY <1>0, <1>6 DEF Return, At, PendingIsFenced, redis
  <1>7. ASSUME NEW p \in Proc, TxLock(p) PROVE PendingIsFenced'
    BY <1>0, <1>7 DEF TxLock, AtWith, PendingIsFenced, redis
  <1>8. ASSUME NEW p \in Proc, TxFence(p) PROVE PendingIsFenced'
    BY <1>0, <1>8 DEF TxFence, RaiseFence, Denied, At, PendingIsFenced, Numbers, redis
  <1>9. ASSUME NEW p \in Proc, TxCommit(p) PROVE PendingIsFenced'
    BY <1>0, <1>9 DEF TxCommit, At, PendingIsFenced, Numbers, redis
  <1>10. ASSUME NEW p \in Proc, TxRollback(p) PROVE PendingIsFenced'
    BY <1>0, <1>10 DEF TxRollback, Denied, At, PendingIsFenced, redis
  <1>11. ASSUME NEW p \in Proc, RefreshStart(p) PROVE PendingIsFenced'
    BY <1>0, <1>11 DEF RefreshStart, At, PendingIsFenced, redis
  <1>12. ASSUME NEW p \in Proc, Reread(p) PROVE PendingIsFenced'
    BY <1>0, <1>12 DEF Reread, Denied, AtWith, At, PendingIsFenced, Numbers, redis
  <1>13. ASSUME NEW p \in Proc, Refresh(p) PROVE PendingIsFenced'
    BY <1>0, <1>13 DEF Refresh, Publish, At, SnapshotsInOrder, PendingIsFenced, Numbers, redis
  <1>14. ASSUME NEW p \in Proc, Tombstone(p) PROVE PendingIsFenced'
    BY <1>0, <1>14 DEF Tombstone, Publish, Denied, At, SnapshotsInOrder, PendingIsFenced, Numbers, redis
  <1>15. ASSUME NEW p \in Proc, Invalidate(p) PROVE PendingIsFenced'
    BY <1>0, <1>15 DEF Invalidate, At, PendingIsFenced
  <1>16. ASSUME NEW p \in Proc, FieldSelect(p) PROVE PendingIsFenced'
    BY <1>0, <1>16 DEF FieldSelect, AtWith, PendingIsFenced, redis
  <1>17. ASSUME NEW p \in Proc, FieldWrite(p) PROVE PendingIsFenced'
    BY <1>0, <1>17 DEF FieldWrite, Publish, At, SnapshotsInOrder, PendingIsFenced, Numbers, redis
  <1>18. ASSUME NEW p \in Proc, Crash(p) PROVE PendingIsFenced'
    BY <1>0, <1>18 DEF Crash, At, PendingIsFenced, redis
  <1>19. ASSUME HashExpires PROVE PendingIsFenced'
    BY <1>0, <1>19 DEF HashExpires, local, PendingIsFenced
  <1>20. ASSUME FenceExpires PROVE PendingIsFenced'
    BY <1>0, <1>20 DEF FenceExpires, local, PendingIsFenced
  <1>21. ASSUME UNCHANGED vars PROVE PendingIsFenced'
    BY <1>0, <1>21 DEF vars, local, PendingIsFenced, redis
  <1> QED
    BY <1>1, <1>2, <1>3, <1>4, <1>5, <1>6, <1>7, <1>8, <1>9, <1>10,
       <1>11, <1>12, <1>13, <1>14, <1>15, <1>16, <1>17, <1>18, <1>19, <1>20, <1>21
    DEF Next, Read, Change, Update

\* A stale hash stays below the floor.
LEMMA StaleFencedStep ==
  ASSUME OrderInv, PendingIsFenced, StaleIsFenced, StaleIsRefused, [Next]_vars
  PROVE  StaleIsFenced'
  <1>0. SnapshotsInOrder /\ FloorIsCommitted /\ Numbers
    BY OrderNumbers DEF OrderInv
  <1>1. ASSUME NEW p \in Proc, ReadHash(p) PROVE StaleIsFenced'
    BY <1>0, <1>1 DEF ReadHash, db, StaleIsFenced, Floor, redis
  <1>2. ASSUME NEW p \in Proc, CheckFloor(p) PROVE StaleIsFenced'
    BY <1>0, <1>2 DEF CheckFloor, Served, At, db, StaleIsFenced, Floor, redis
  <1>3. ASSUME NEW p \in Proc, LoadRow(p) PROVE StaleIsFenced'
    BY <1>0, <1>3 DEF LoadRow, Denied, AtWith, db, At, StaleIsFenced, Floor, redis
  <1>4. ASSUME NEW p \in Proc, Gate(p) PROVE StaleIsFenced'
    BY <1>0, <1>4 DEF Gate, Denied, At, db, StaleIsFenced, Floor, redis
  <1>5. ASSUME NEW p \in Proc, Fill(p) PROVE StaleIsFenced'
    BY <1>0, <1>5 DEF Fill, Publish, Served, Denied, db, At, StaleIsFenced, StaleIsRefused, HoldsStale, Floor, Absent, Numbers, redis
  <1>6. ASSUME NEW p \in Proc, Return(p) PROVE StaleIsFenced'
    BY <1>0, <1>6 DEF Return, At, db, StaleIsFenced, Floor, redis
  <1>7. ASSUME NEW p \in Proc, TxLock(p) PROVE StaleIsFenced'
    BY <1>0, <1>7 DEF TxLock, AtWith, StaleIsFenced, Floor, redis
  <1>8. ASSUME NEW p \in Proc, TxFence(p) PROVE StaleIsFenced'
    BY <1>0, <1>8 DEF TxFence, RaiseFence, Denied, At, db, StaleIsFenced, Floor, Numbers, redis
  <1>9. ASSUME NEW p \in Proc, TxCommit(p) PROVE StaleIsFenced'
    BY <1>0, <1>9 DEF TxCommit, At, PendingIsFenced, StaleIsFenced, Floor, Numbers, redis
  <1>10. ASSUME NEW p \in Proc, TxRollback(p) PROVE StaleIsFenced'
    BY <1>0, <1>10 DEF TxRollback, Denied, At, StaleIsFenced, Floor, redis
  <1>11. ASSUME NEW p \in Proc, RefreshStart(p) PROVE StaleIsFenced'
    BY <1>0, <1>11 DEF RefreshStart, At, db, StaleIsFenced, Floor, redis
  <1>12. ASSUME NEW p \in Proc, Reread(p) PROVE StaleIsFenced'
    BY <1>0, <1>12 DEF Reread, Denied, AtWith, db, At, StaleIsFenced, Floor, redis
  <1>13. ASSUME NEW p \in Proc, Refresh(p) PROVE StaleIsFenced'
    BY <1>0, <1>13 DEF Refresh, Publish, At, db, StaleIsFenced, StaleIsRefused, HoldsStale, Floor, Absent, Numbers, redis
  <1>14. ASSUME NEW p \in Proc, Tombstone(p) PROVE StaleIsFenced'
    BY <1>0, <1>14 DEF Tombstone, Publish, Denied, At, db, StaleIsFenced, Floor, Absent, Numbers, redis
  <1>15. ASSUME NEW p \in Proc, Invalidate(p) PROVE StaleIsFenced'
    BY <1>0, <1>15 DEF Invalidate, At, db, StaleIsFenced, Floor
  <1>16. ASSUME NEW p \in Proc, FieldSelect(p) PROVE StaleIsFenced'
    BY <1>0, <1>16 DEF FieldSelect, AtWith, db, StaleIsFenced, Floor, redis
  <1>17. ASSUME NEW p \in Proc, FieldWrite(p) PROVE StaleIsFenced'
    BY <1>0, <1>17 DEF FieldWrite, Publish, At, db, StaleIsFenced, Floor, Absent, Numbers, redis
  <1>18. ASSUME NEW p \in Proc, Crash(p) PROVE StaleIsFenced'
    BY <1>0, <1>18 DEF Crash, At, StaleIsFenced, Floor, redis
  <1>19. ASSUME HashExpires PROVE StaleIsFenced'
    BY <1>0, <1>19 DEF HashExpires, local, StaleIsFenced
  <1>20. ASSUME FenceExpires PROVE StaleIsFenced'
    BY <1>0, <1>20 DEF FenceExpires, db, local, StaleIsFenced, Floor, Absent, Numbers
  <1>21. ASSUME UNCHANGED vars PROVE StaleIsFenced'
    BY <1>0, <1>21 DEF vars, db, local, StaleIsFenced, Floor, redis
  <1> QED
    BY <1>1, <1>2, <1>3, <1>4, <1>5, <1>6, <1>7, <1>8, <1>9, <1>10,
       <1>11, <1>12, <1>13, <1>14, <1>15, <1>16, <1>17, <1>18, <1>19, <1>20, <1>21
    DEF Next, Read, Change, Update

\* A stale snapshot in hand stays below the floor.
LEMMA StaleRefusedStep ==
  ASSUME PromptTx, PromptFill, OrderInv, PendingIsFenced, StaleIsFenced, StaleIsRefused, [Next]_vars
  PROVE  StaleIsRefused'
  <1>0. SnapshotsInOrder /\ FloorIsCommitted /\ Numbers
    BY OrderNumbers DEF OrderInv
  <1>1. ASSUME NEW p \in Proc, ReadHash(p) PROVE StaleIsRefused'
    BY <1>0, <1>1 DEF ReadHash, db, StaleIsFenced, StaleIsRefused, HoldsStale, Floor, Numbers, redis
  <1>2. ASSUME NEW p \in Proc, CheckFloor(p) PROVE StaleIsRefused'
    BY <1>0, <1>2 DEF CheckFloor, Served, At, db, StaleIsRefused, HoldsStale, Floor, Numbers, redis
  <1>3. ASSUME NEW p \in Proc, LoadRow(p) PROVE StaleIsRefused'
    BY <1>0, <1>3 DEF LoadRow, Denied, AtWith, db, At, StaleIsRefused, HoldsStale, Floor, Numbers, redis
  <1>4. ASSUME NEW p \in Proc, Gate(p) PROVE StaleIsRefused'
    BY <1>0, <1>4 DEF Gate, Denied, At, db, StaleIsRefused, HoldsStale, Floor, Numbers, redis
  <1>5. ASSUME NEW p \in Proc, Fill(p) PROVE StaleIsRefused'
    BY <1>0, <1>5 DEF Fill, Publish, Served, Denied, db, At, StaleIsRefused, HoldsStale, Floor, Absent, Numbers, redis
  <1>6. ASSUME NEW p \in Proc, Return(p) PROVE StaleIsRefused'
    BY <1>0, <1>6 DEF Return, At, db, StaleIsRefused, HoldsStale, Floor, redis
  <1>7. ASSUME NEW p \in Proc, TxLock(p) PROVE StaleIsRefused'
    BY <1>0, <1>7 DEF TxLock, AtWith, StaleIsRefused, HoldsStale, Floor, redis
  <1>8. ASSUME NEW p \in Proc, TxFence(p) PROVE StaleIsRefused'
    BY <1>0, <1>8 DEF TxFence, RaiseFence, Denied, At, db, StaleIsRefused, HoldsStale, Floor, Numbers, redis
  <1>9. ASSUME NEW p \in Proc, TxCommit(p) PROVE StaleIsRefused'
    BY <1>0, <1>9 DEF TxCommit, At, PendingIsFenced, StaleIsRefused, HoldsStale, Floor, Numbers, redis
  <1>10. ASSUME NEW p \in Proc, TxRollback(p) PROVE StaleIsRefused'
    BY <1>0, <1>10 DEF TxRollback, Denied, At, StaleIsRefused, HoldsStale, Floor, redis
  <1>11. ASSUME NEW p \in Proc, RefreshStart(p) PROVE StaleIsRefused'
    BY <1>0, <1>11 DEF RefreshStart, At, db, StaleIsRefused, HoldsStale, Floor, redis
  <1>12. ASSUME NEW p \in Proc, Reread(p) PROVE StaleIsRefused'
    BY <1>0, <1>12 DEF Reread, Denied, AtWith, db, At, StaleIsRefused, HoldsStale, Floor, Numbers, redis
  <1>13. ASSUME NEW p \in Proc, Refresh(p) PROVE StaleIsRefused'
    BY <1>0, <1>13 DEF Refresh, Publish, At, db, StaleIsRefused, HoldsStale, Floor, Absent, Numbers, redis
  <1>14. ASSUME NEW p \in Proc, Tombstone(p) PROVE StaleIsRefused'
    BY <1>0, <1>14 DEF Tombstone, Publish, Denied, At, db, StaleIsRefused, HoldsStale, Floor, Absent, Numbers, redis
  <1>15. ASSUME NEW p \in Proc, Invalidate(p) PROVE StaleIsRefused'
    BY <1>0, <1>15 DEF Invalidate, At, db, StaleIsRefused, HoldsStale, Floor
  <1>16. ASSUME NEW p \in Proc, FieldSelect(p) PROVE StaleIsRefused'
    BY <1>0, <1>16 DEF FieldSelect, AtWith, db, StaleIsRefused, HoldsStale, Floor, Numbers, redis
  <1>17. ASSUME NEW p \in Proc, FieldWrite(p) PROVE StaleIsRefused'
    BY <1>0, <1>17 DEF FieldWrite, Publish, At, db, StaleIsRefused, HoldsStale, Floor, Absent, Numbers, redis
  <1>18. ASSUME NEW p \in Proc, Crash(p) PROVE StaleIsRefused'
    BY <1>0, <1>18 DEF Crash, At, StaleIsRefused, HoldsStale, Floor, redis
  <1>19. ASSUME HashExpires PROVE StaleIsRefused'
    BY <1>0, <1>19 DEF HashExpires, db, local, StaleIsRefused, HoldsStale, Floor
  <1>20. ASSUME FenceExpires PROVE StaleIsRefused'
    BY <1>0, <1>20 DEF FenceExpires, db, local, StaleIsRefused, HoldsStale
  <1>21. ASSUME UNCHANGED vars PROVE StaleIsRefused'
    BY <1>0, <1>21 DEF vars, db, local, StaleIsRefused, HoldsStale, Floor, redis
  <1> QED
    BY <1>1, <1>2, <1>3, <1>4, <1>5, <1>6, <1>7, <1>8, <1>9, <1>10,
       <1>11, <1>12, <1>13, <1>14, <1>15, <1>16, <1>17, <1>18, <1>19, <1>20, <1>21
    DEF Next, Read, Change, Update

\* A request is served what it found current.
LEMMA NoStaleStep ==
  ASSUME OrderInv, StaleIsRefused, NoStaleAnswer, [Next]_vars
  PROVE  NoStaleAnswer'
  <1>0. SnapshotsInOrder /\ Numbers
    BY OrderNumbers DEF OrderInv
  <1>1. ASSUME NEW p \in Proc, ReadHash(p) PROVE NoStaleAnswer'
    BY <1>0, <1>1 DEF ReadHash, NoStaleAnswer, Numbers
  <1>2. ASSUME NEW p \in Proc, CheckFloor(p) PROVE NoStaleAnswer'
    BY <1>0, <1>2 DEF CheckFloor, Served, At, SnapshotsInOrder, StaleIsRefused, HoldsStale, NoStaleAnswer, Floor, Numbers
  <1>3. ASSUME NEW p \in Proc, LoadRow(p) PROVE NoStaleAnswer'
    BY <1>0, <1>3 DEF LoadRow, Denied, AtWith, At, NoStaleAnswer, Numbers
  <1>4. ASSUME NEW p \in Proc, Gate(p) PROVE NoStaleAnswer'
    BY <1>0, <1>4 DEF Gate, Denied, At, NoStaleAnswer, Numbers
  <1>5. ASSUME NEW p \in Proc, Fill(p) PROVE NoStaleAnswer'
    BY <1>0, <1>5 DEF Fill, Served, Denied, At, SnapshotsInOrder, NoStaleAnswer, Numbers
  <1>6. ASSUME NEW p \in Proc, Return(p) PROVE NoStaleAnswer'
    BY <1>0, <1>6 DEF Return, At, NoStaleAnswer
  <1>7. ASSUME NEW p \in Proc, TxLock(p) PROVE NoStaleAnswer'
    BY <1>0, <1>7 DEF TxLock, AtWith, NoStaleAnswer
  <1>8. ASSUME NEW p \in Proc, TxFence(p) PROVE NoStaleAnswer'
    BY <1>0, <1>8 DEF TxFence, Denied, At, NoStaleAnswer, Numbers
  <1>9. ASSUME NEW p \in Proc, TxCommit(p) PROVE NoStaleAnswer'
    BY <1>0, <1>9 DEF TxCommit, At, NoStaleAnswer, Numbers
  <1>10. ASSUME NEW p \in Proc, TxRollback(p) PROVE NoStaleAnswer'
    BY <1>0, <1>10 DEF TxRollback, Denied, At, NoStaleAnswer
  <1>11. ASSUME NEW p \in Proc, RefreshStart(p) PROVE NoStaleAnswer'
    BY <1>0, <1>11 DEF RefreshStart, At, NoStaleAnswer
  <1>12. ASSUME NEW p \in Proc, Reread(p) PROVE NoStaleAnswer'
    BY <1>0, <1>12 DEF Reread, Denied, AtWith, At, NoStaleAnswer, Numbers
  <1>13. ASSUME NEW p \in Proc, Refresh(p) PROVE NoStaleAnswer'
    BY <1>0, <1>13 DEF Refresh, At, NoStaleAnswer
  <1>14. ASSUME NEW p \in Proc, Tombstone(p) PROVE NoStaleAnswer'
    BY <1>0, <1>14 DEF Tombstone, Denied, At, NoStaleAnswer, Numbers
  <1>15. ASSUME NEW p \in Proc, Invalidate(p) PROVE NoStaleAnswer'
    BY <1>0, <1>15 DEF Invalidate, At, NoStaleAnswer
  <1>16. ASSUME NEW p \in Proc, FieldSelect(p) PROVE NoStaleAnswer'
    BY <1>0, <1>16 DEF FieldSelect, AtWith, NoStaleAnswer
  <1>17. ASSUME NEW p \in Proc, FieldWrite(p) PROVE NoStaleAnswer'
    BY <1>0, <1>17 DEF FieldWrite, At, NoStaleAnswer
  <1>18. ASSUME NEW p \in Proc, Crash(p) PROVE NoStaleAnswer'
    BY <1>0, <1>18 DEF Crash, At, NoStaleAnswer
  <1>19. ASSUME HashExpires PROVE NoStaleAnswer'
    BY <1>0, <1>19 DEF HashExpires, local, NoStaleAnswer
  <1>20. ASSUME FenceExpires PROVE NoStaleAnswer'
    BY <1>0, <1>20 DEF FenceExpires, local, NoStaleAnswer
  <1>21. ASSUME UNCHANGED vars PROVE NoStaleAnswer'
    BY <1>0, <1>21 DEF vars, local, NoStaleAnswer
  <1> QED
    BY <1>1, <1>2, <1>3, <1>4, <1>5, <1>6, <1>7, <1>8, <1>9, <1>10,
       <1>11, <1>12, <1>13, <1>14, <1>15, <1>16, <1>17, <1>18, <1>19, <1>20, <1>21
    DEF Next, Read, Change, Update

\* The protection of committed changes holds at the start.
LEMMA AuthInit == Init => AuthInv
  <1> SUFFICES ASSUME Init PROVE AuthInv
    OBVIOUS
  <1>1. OrderInv
    BY OrderInit
  <1>2. \A p \in Proc : pc[p] = "idle"
    BY DEF Init
  <1>3. PendingIsFenced /\ StaleIsRefused /\ NoStaleAnswer
    BY <1>2 DEF PendingIsFenced, StaleIsRefused, HoldsStale, NoStaleAnswer
  <1>4. StaleIsFenced
    BY DEF Init, StaleIsFenced
  <1> QED BY <1>1, <1>3, <1>4 DEF AuthInv, OrderInv

\* Every step keeps the protection of committed changes, given prompt transactions and fills.
LEMMA AuthStep ==
  ASSUME PromptTx, PromptFill, AuthInv, [Next]_vars
  PROVE  AuthInv'
  <1>1. OrderInv /\ PendingIsFenced /\ StaleIsFenced /\ StaleIsRefused /\ NoStaleAnswer
    BY DEF AuthInv, OrderInv
  <1>2. OrderInv'
    BY <1>1, OrderStep
  <1>3. PendingIsFenced' /\ StaleIsFenced' /\ StaleIsRefused' /\ NoStaleAnswer'
    BY <1>1, PendingStep, StaleFencedStep, StaleRefusedStep, NoStaleStep
  <1> QED BY <1>2, <1>3 DEF AuthInv, OrderInv

\* As long as no transaction and no stale snapshot in the hands of a request
\* outlives a fence, no call of GetUserCache authorizes a request with a snapshot
\* that was out of date when the request began.
THEOREM NoStaleAnswerCorrect == PromptTx /\ PromptFill => (Spec => []NoStaleAnswer)
  <1> SUFFICES ASSUME PromptTx, PromptFill PROVE Spec => []NoStaleAnswer
    OBVIOUS
  <1>1. AuthInv /\ [Next]_vars => AuthInv'
    BY AuthStep
  <1>2. AuthInv => NoStaleAnswer
    BY DEF AuthInv
  <1> QED BY <1>1, <1>2, AuthInit, PTL DEF Spec

\* Under the same timing a stale cached hash is always below the floor, so that
\* every reader rejects it, also between a commit and its publication.
THEOREM StaleIsFencedCorrect == PromptTx /\ PromptFill => (Spec => []StaleIsFenced)
  <1> SUFFICES ASSUME PromptTx, PromptFill PROVE Spec => []StaleIsFenced
    OBVIOUS
  <1>1. AuthInv /\ [Next]_vars => AuthInv'
    BY AuthStep
  <1>2. AuthInv => StaleIsFenced
    BY DEF AuthInv
  <1> QED BY <1>1, <1>2, AuthInit, PTL DEF Spec

=============================================================================
