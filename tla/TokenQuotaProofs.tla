-------------------------- MODULE TokenQuotaProofs --------------------------
(* Proofs about TokenQuota, for every finite set of requests, every quota  *)
(* and every bound.                                                        *)
EXTENDS TokenQuota, FiniteSetTheorems, TLAPS

-----------------------------------------------------------------------------
(* The inductive invariants.                                               *)

\* Requests by what they still have to do.
Persisting == Count({"persist"})
Returning  == Count({"compensate"})
Mutating   == Count({"fence", "drop", "write"})
Raising    == Cardinality({p \in Proc : pc[p] = "adjust" /\ op[p] = "up"})
Lowering   == Cardinality({p \in Proc : pc[p] = "adjust" /\ op[p] = "down"})
Reserving  == Cardinality({p \in Proc : \/ pc[p] \in {"retry", "db"}
                                        \/ pc[p] \in {"load", "init"} /\ op[p] = "reserve"})

\* Mutations, charges and grants never outnumber the requests that made them.
Versioned == version + Mutating <= MaxVersion
Charged   == Lowering <= debited
Earned    == granted + Reserving <= ops
Bounded   == excess <= MaxOps
Adjusting == \A p \in Proc : pc[p] = "adjust" => op[p] \in {"up", "down"}

Counted == Versioned /\ Charged /\ Earned /\ Bounded /\ Adjusting

\* Balanced, in terms of the counts above.
Books ==
    live /\ ~lossy =>
        remain + batch + flush - Persisting + Raising - Lowering = Quota - granted - debited

\* What the cache may still grant: the hash, and a snapshot that is about to
\* become the hash, exceed what the quota leaves by no more than the excess that
\* is recorded, or will be when the snapshot is published.
HashCovered == balance + ups + Returning <= Quota - granted + excess
SnapCovered(p) == snapQ[p] + ups + Returning <= Quota - granted + excess + raced[p]

Covered ==
    ~lossy /\ excess < MaxOps =>
        /\ granted <= Quota + excess
        /\ hashed => HashCovered
        /\ \A p \in Proc : pc[p] = "init" => SnapCovered(p)

\* The fence is up from the invalidation of a mutation to its write, so that no
\* older snapshot can fill the hash in between; one that is still held when the
\* fence falls is as new as the last guarded mutation.
FenceUp    == \A p \in Proc : pc[p] = "drop" => fence
NoHashYet  == \A p \in Proc : pc[p] = "write" /\ guarded[p] => fence /\ ~hashed
SnapNew    == \A p \in Proc : pc[p] = "init" /\ ~fence => snapV[p] >= published
HashNew    == hashed => hashVer >= published
ReadNew    == \A p \in Proc : pc[p] \in {"init", "ok"} => snapV[p] >= since[p]

Fenced == FenceUp /\ NoHashYet /\ SnapNew /\ HashNew /\ ReadNew

-----------------------------------------------------------------------------
(* Counting requests.                                                      *)

\* Two sets of requests that agree but for one request.
LEMMA OneMoves ==
  ASSUME NEW A \in SUBSET Proc, NEW B \in SUBSET Proc, NEW p \in Proc, A \ {p} = B \ {p}
  PROVE  /\ Cardinality(A) \in Nat /\ Cardinality(B) \in Nat
         /\ p \in A /\ p \in B => Cardinality(B) = Cardinality(A)
         /\ p \notin A /\ p \notin B => Cardinality(B) = Cardinality(A)
         /\ p \in A /\ p \notin B => Cardinality(B) = Cardinality(A) - 1
         /\ p \notin A /\ p \in B => Cardinality(B) = Cardinality(A) + 1
  <1>1. IsFiniteSet(A) /\ IsFiniteSet(B)
    BY ProcAssumption, FS_Subset
  <1>2. Cardinality(A) \in Nat /\ Cardinality(B) \in Nat
    BY <1>1, FS_CardinalityType
  <1>3. /\ p \in A /\ p \in B => A = B
        /\ p \notin A /\ p \notin B => A = B
        /\ p \in A /\ p \notin B => B = A \ {p}
        /\ p \notin A /\ p \in B => B = A \cup {p}
    OBVIOUS
  <1>4. /\ p \in A => Cardinality(A \ {p}) = Cardinality(A) - 1
        /\ p \notin A => Cardinality(A \cup {p}) = Cardinality(A) + 1
    BY <1>1, FS_RemoveElement, FS_AddElement
  <1> QED BY <1>2, <1>3, <1>4

\* Counts are natural numbers.
LEMMA CountType == \A at : Count(at) \in Nat
  <1> TAKE at
  <1>1. {p \in Proc : pc[p] \in at} \in SUBSET Proc
    OBVIOUS
  <1>2. IsFiniteSet({p \in Proc : pc[p] \in at})
    BY <1>1, ProcAssumption, FS_Subset
  <1> QED BY <1>2, FS_CardinalityType DEF Count

\* What a step of one request does to the number of requests at given places.
LEMMA CountMoves ==
  ASSUME NEW p \in Proc, \A q \in Proc \ {p} : pc'[q] = pc[q], NEW at
  PROVE  /\ Count(at) \in Nat /\ Count(at)' \in Nat
         /\ (pc[p] \in at <=> pc'[p] \in at) => Count(at)' = Count(at)
         /\ pc[p] \in at /\ pc'[p] \notin at => Count(at)' = Count(at) - 1
         /\ pc[p] \notin at /\ pc'[p] \in at => Count(at)' = Count(at) + 1
  <1> DEFINE A == {q \in Proc : pc[q] \in at}
             B == {q \in Proc : pc'[q] \in at}
  <1>1. A \in SUBSET Proc /\ B \in SUBSET Proc /\ A \ {p} = B \ {p}
    OBVIOUS
  <1>2. (p \in A <=> pc[p] \in at) /\ (p \in B <=> pc'[p] \in at)
    OBVIOUS
  <1>3. Count(at) = Cardinality(A) /\ Count(at)' = Cardinality(B)
    BY DEF Count
  <1> HIDE DEF A, B
  <1> QED BY <1>1, <1>2, <1>3, OneMoves

\* The requests that are raising, lowering or reserving.
IsRaising(p)   == pc[p] = "adjust" /\ op[p] = "up"
IsLowering(p)  == pc[p] = "adjust" /\ op[p] = "down"
IsReserving(p) == pc[p] \in {"retry", "db"} \/ (pc[p] \in {"load", "init"} /\ op[p] = "reserve")

\* A number of requests, before and after a step of one of them.
Moved(n, m, was, is) ==
    /\ n \in Nat /\ m \in Nat
    /\ (was <=> is) => m = n
    /\ was /\ ~is => m = n - 1
    /\ ~was /\ is => m = n + 1

\* What a step of one request does to the numbers of requests with work to do.
LEMMA OthersMove ==
  ASSUME NEW p \in Proc, \A q \in Proc \ {p} : pc'[q] = pc[q] /\ op'[q] = op[q]
  PROVE  /\ Moved(Raising, Raising', IsRaising(p), IsRaising(p)')
         /\ Moved(Lowering, Lowering', IsLowering(p), IsLowering(p)')
         /\ Moved(Reserving, Reserving', IsReserving(p), IsReserving(p)')
  <1>1. Moved(Raising, Raising', IsRaising(p), IsRaising(p)')
    <2> DEFINE A == {q \in Proc : pc[q] = "adjust" /\ op[q] = "up"}
               B == {q \in Proc : pc'[q] = "adjust" /\ op'[q] = "up"}
    <2>1. A \in SUBSET Proc /\ B \in SUBSET Proc /\ A \ {p} = B \ {p}
      OBVIOUS
    <2>2. (p \in A <=> IsRaising(p)) /\ (p \in B <=> IsRaising(p)')
      BY DEF IsRaising
    <2>3. Raising = Cardinality(A) /\ Raising' = Cardinality(B)
      BY DEF Raising
    <2> HIDE DEF A, B
    <2> QED BY <2>1, <2>2, <2>3, OneMoves DEF Moved
  <1>2. Moved(Lowering, Lowering', IsLowering(p), IsLowering(p)')
    <2> DEFINE A == {q \in Proc : pc[q] = "adjust" /\ op[q] = "down"}
               B == {q \in Proc : pc'[q] = "adjust" /\ op'[q] = "down"}
    <2>1. A \in SUBSET Proc /\ B \in SUBSET Proc /\ A \ {p} = B \ {p}
      OBVIOUS
    <2>2. (p \in A <=> IsLowering(p)) /\ (p \in B <=> IsLowering(p)')
      BY DEF IsLowering
    <2>3. Lowering = Cardinality(A) /\ Lowering' = Cardinality(B)
      BY DEF Lowering
    <2> HIDE DEF A, B
    <2> QED BY <2>1, <2>2, <2>3, OneMoves DEF Moved
  <1>3. Moved(Reserving, Reserving', IsReserving(p), IsReserving(p)')
    <2> DEFINE A == {q \in Proc : \/ pc[q] \in {"retry", "db"}
                                  \/ pc[q] \in {"load", "init"} /\ op[q] = "reserve"}
               B == {q \in Proc : \/ pc'[q] \in {"retry", "db"}
                                  \/ pc'[q] \in {"load", "init"} /\ op'[q] = "reserve"}
    <2>1. A \in SUBSET Proc /\ B \in SUBSET Proc /\ A \ {p} = B \ {p}
      OBVIOUS
    <2>2. (p \in A <=> IsReserving(p)) /\ (p \in B <=> IsReserving(p)')
      BY DEF IsReserving
    <2>3. Reserving = Cardinality(A) /\ Reserving' = Cardinality(B)
      BY DEF Reserving
    <2> HIDE DEF A, B
    <2> QED BY <2>1, <2>2, <2>3, OneMoves DEF Moved
  <1> QED BY <1>1, <1>2, <1>3

\* The requests that have taken a unit the row does not show are those that
\* persist it and those that give it back.
LEMMA CountSplits ==
  Count({"persist", "compensate"}) = Persisting + Returning
  <1> DEFINE A == {p \in Proc : pc[p] \in {"persist"}}
             B == {p \in Proc : pc[p] \in {"compensate"}}
  <1>1. IsFiniteSet(A) /\ IsFiniteSet(B)
    BY ProcAssumption, FS_Subset
  <1>2. A \cap B = {} /\ A \cup B = {p \in Proc : pc[p] \in {"persist", "compensate"}}
    OBVIOUS
  <1>3. Cardinality(A \cup B) = Cardinality(A) + Cardinality(B) - Cardinality(A \cap B)
    BY <1>1, FS_Union
  <1>4. Cardinality(A) \in Nat /\ Cardinality(B) \in Nat /\ Cardinality({}) = 0
    BY <1>1, FS_CardinalityType, FS_EmptySet
  <1>5. Cardinality(A \cup B) = Cardinality(A) + Cardinality(B)
    <2>1. Cardinality(A \cap B) = 0
      BY <1>2, <1>4
    <2> HIDE DEF A, B
    <2> QED BY <1>3, <1>4, <2>1
  <1> QED BY <1>2, <1>5 DEF Count, Persisting, Returning

\* All of these numbers at once.
Tallied(p) ==
    /\ Moved(Persisting, Persisting', pc[p] = "persist", pc'[p] = "persist")
    /\ Moved(Returning, Returning', pc[p] = "compensate", pc'[p] = "compensate")
    /\ Moved(Mutating, Mutating', pc[p] \in {"fence", "drop", "write"},
                                  pc'[p] \in {"fence", "drop", "write"})
    /\ Moved(Raising, Raising', IsRaising(p), IsRaising(p)')
    /\ Moved(Lowering, Lowering', IsLowering(p), IsLowering(p)')
    /\ Moved(Reserving, Reserving', IsReserving(p), IsReserving(p)')

\* A step of a request changes them by that request alone.
LEMMA StepTallied ==
  ASSUME TypeOK, NEW p \in Proc, NEW at, pc' = [pc EXCEPT ![p] = at],
         op' = op \/ \E o : op' = [op EXCEPT ![p] = o]
  PROVE  Tallied(p) /\ pc'[p] = at
  <1>1. \A q \in Proc \ {p} : pc'[q] = pc[q] /\ op'[q] = op[q]
    BY DEF TypeOK
  <1>2. Moved(Persisting, Persisting', pc[p] = "persist", pc'[p] = "persist")
    BY <1>1, CountMoves DEF Persisting, Moved
  <1>3. Moved(Returning, Returning', pc[p] = "compensate", pc'[p] = "compensate")
    BY <1>1, CountMoves DEF Returning, Moved
  <1>4. Moved(Mutating, Mutating', pc[p] \in {"fence", "drop", "write"},
                                   pc'[p] \in {"fence", "drop", "write"})
    BY <1>1, CountMoves DEF Mutating, Moved
  <1>5. pc'[p] = at
    BY DEF TypeOK
  <1> QED BY <1>1, <1>2, <1>3, <1>4, <1>5, OthersMove DEF Tallied

\* They do not change while no request moves.
LEMMA NoneMoves ==
  ASSUME UNCHANGED <<pc, op>>
  PROVE  UNCHANGED <<Persisting, Returning, Mutating, Raising, Lowering, Reserving>>
  BY DEF Count, Persisting, Returning, Mutating, Raising, Lowering, Reserving

\* They are natural numbers.
LEMMA TallyType ==
  /\ Persisting \in Nat /\ Returning \in Nat /\ Mutating \in Nat
  /\ Raising \in Nat /\ Lowering \in Nat /\ Reserving \in Nat
  <1>1. Persisting \in Nat /\ Returning \in Nat /\ Mutating \in Nat
    BY CountType DEF Persisting, Returning, Mutating
  <1>2. \A S \in SUBSET Proc : Cardinality(S) \in Nat
    BY ProcAssumption, FS_Subset, FS_CardinalityType
  <1>3. Raising \in Nat
    BY <1>2 DEF Raising
  <1>4. Lowering \in Nat
    BY <1>2 DEF Lowering
  <1>5. Reserving \in Nat
    BY <1>2 DEF Reserving
  <1> QED BY <1>1, <1>3, <1>4, <1>5

\* Nobody has work to do while every request is idle.
LEMMA NoneBusy ==
  ASSUME pc = [p \in Proc |-> "idle"]
  PROVE  /\ Persisting = 0 /\ Returning = 0 /\ Mutating = 0
         /\ Raising = 0 /\ Lowering = 0 /\ Reserving = 0
  <1>1. /\ {p \in Proc : pc[p] \in {"persist"}} = {}
        /\ {p \in Proc : pc[p] \in {"compensate"}} = {}
        /\ {p \in Proc : pc[p] \in {"fence", "drop", "write"}} = {}
        /\ {p \in Proc : pc[p] = "adjust" /\ op[p] = "up"} = {}
        /\ {p \in Proc : pc[p] = "adjust" /\ op[p] = "down"} = {}
        /\ {p \in Proc : \/ pc[p] \in {"retry", "db"}
                         \/ pc[p] \in {"load", "init"} /\ op[p] = "reserve"} = {}
    OBVIOUS
  <1> QED
    BY <1>1, FS_EmptySet DEF Persisting, Returning, Mutating, Raising, Lowering, Reserving, Count

\* ... nor after a step that leaves every request idle.
LEMMA NoneBusyNext ==
  ASSUME pc' = [p \in Proc |-> "idle"]
  PROVE  /\ Persisting' = 0 /\ Returning' = 0 /\ Mutating' = 0
         /\ Raising' = 0 /\ Lowering' = 0 /\ Reserving' = 0
  <1>1. /\ {p \in Proc : pc'[p] \in {"persist"}} = {}
        /\ {p \in Proc : pc'[p] \in {"compensate"}} = {}
        /\ {p \in Proc : pc'[p] \in {"fence", "drop", "write"}} = {}
        /\ {p \in Proc : pc'[p] = "adjust" /\ op'[p] = "up"} = {}
        /\ {p \in Proc : pc'[p] = "adjust" /\ op'[p] = "down"} = {}
        /\ {p \in Proc : \/ pc'[p] \in {"retry", "db"}
                         \/ pc'[p] \in {"load", "init"} /\ op'[p] = "reserve"} = {}
    OBVIOUS
  <1> QED
    BY <1>1, FS_EmptySet DEF Persisting, Returning, Mutating, Raising, Lowering, Reserving, Count

-----------------------------------------------------------------------------
(* Types.                                                                  *)

\* The conjuncts of TypeOK by what they are about.
Flags ==
    /\ live \in BOOLEAN /\ hashed \in BOOLEAN /\ fence \in BOOLEAN /\ batched \in BOOLEAN
    /\ lossy \in BOOLEAN
StoreOK ==
    /\ remain \in Int /\ version \in 0..MaxVersion
    /\ balance \in Int /\ hashVer \in 0..version
    /\ batch \in Int /\ flush \in Int
    /\ ~batched => batch = 0 /\ flush = 0
    /\ published \in 0..version
LocalsOK ==
    /\ pc \in [Proc -> Pc]
    /\ op \in [Proc -> {"none", "reserve", "up", "down", "validate", "update", "status", "delete", "purge"}]
    /\ snapQ \in [Proc -> Int] /\ snapV \in [Proc -> 0..version]
    /\ since \in [Proc -> 0..published]
    /\ guarded \in [Proc -> BOOLEAN]
LedgerOK ==
    /\ ups \in Nat /\ downs \in Nat /\ raced \in [Proc -> Nat]
    /\ granted \in Int /\ debited \in Nat /\ excess \in Nat
    /\ ops \in 0..MaxOps /\ faults \in 0..MaxFaults

LEMMA TypeParts == TypeOK => Flags /\ StoreOK /\ LocalsOK /\ LedgerOK
  BY Zenon DEF TypeOK, Flags, StoreOK, LocalsOK, LedgerOK

LEMMA TypeWhole == Flags /\ StoreOK /\ LocalsOK /\ LedgerOK => TypeOK
  BY Zenon DEF TypeOK, Flags, StoreOK, LocalsOK, LedgerOK

LEMMA TypeWholeNext == Flags' /\ StoreOK' /\ LocalsOK' /\ LedgerOK' => TypeOK'
  BY Zenon DEF TypeOK, Flags, StoreOK, LocalsOK, LedgerOK

\* The initial state is well formed.
LEMMA TypeInit == Init => TypeOK
  <1> SUFFICES ASSUME Init PROVE TypeOK
    OBVIOUS
  <1>1. StoreOK
    BY QuotaAssumption DEF Init, StoreOK
  <1>2. LocalsOK
    BY QuotaAssumption DEF Init, LocalsOK, Pc
  <1>3. LedgerOK
    BY QuotaAssumption DEF Init, LedgerOK
  <1>4. Flags
    BY Zenon DEF Init, Flags
  <1> QED BY <1>1, <1>2, <1>3, <1>4, TypeWhole

\* A request that goes on, and what it remembers or forgets.
LEMMA LocalsKept ==
  ASSUME StoreOK, LocalsOK, NEW p \in Proc, NEW at \in Pc,
         version' \in Nat, published' \in Nat, version <= version', published <= published',
         \/ Stay(p, at)
         \/ Forget(p, at)
         \/ Begins(p, "validate", at) /\ UNCHANGED <<snapQ, snapV>>
  PROVE  LocalsOK'
  <1> USE DEF StoreOK, LocalsOK, Pc
  <1>1. CASE Stay(p, at)
    BY <1>1 DEF Stay, Goto, locals
  <1>2. CASE Forget(p, at)
    BY <1>2 DEF Forget, Goto
  <1>3. CASE Begins(p, "validate", at) /\ UNCHANGED <<snapQ, snapV>>
    BY <1>3 DEF Begins, Goto
  <1> QED BY <1>1, <1>2, <1>3

\* Every step of a request keeps row, hash, memory and requests well formed.
LEMMA RequestTypes ==
  ASSUME TypeOK, Counted, NEW p \in Proc, Step(p)
  PROVE  TypeOK'
  <1>0. Flags /\ StoreOK /\ LocalsOK /\ LedgerOK
    BY TypeParts
  <1> USE <1>0, QuotaAssumption
  <1>1. CASE TryReserve(p)
    <2>1. StoreOK'
      BY <1>1 DEF TryReserve, CountOp, Grant, row, memory, async, hash, locals, StoreOK
    <2>2. version' \in Nat /\ published' \in Nat /\ version <= version' /\ published <= published'
      BY <1>1, <2>1 DEF TryReserve, CountOp, Grant, row, memory, async, hash, locals, StoreOK
    <2>3. LocalsOK'
      <3>1. CASE Stay(p, "persist") \/ Leave(p) \/ Stay(p, "db")
        BY <2>2, <3>1, LocalsKept DEF Leave, Pc
      <3>2. CASE /\ Goto(p, "load") /\ op' = [op EXCEPT ![p] = "reserve"]
                 /\ UNCHANGED <<snapQ, snapV, since, guarded>>
        BY <2>2, <3>2 DEF Goto, LocalsOK, StoreOK, Pc
      <3> QED BY <1>1, <3>1, <3>2 DEF TryReserve
    <2>4. LedgerOK'
      BY <1>1 DEF TryReserve, CountOp, Grant, row, memory, async, hash, locals, LedgerOK, Ok, Fault
    <2>5. Flags'
      BY Zenon, <1>1 DEF TryReserve, CountOp, Grant, row, memory, async, hash, locals, Flags
    <2> QED BY <2>1, <2>3, <2>4, <2>5, TypeWholeNext
  <1>2. CASE LoadRow(p)
    <2>0. Outstanding \in Nat
      BY CountType DEF Outstanding, StoreOK, LedgerOK
    <2>1. StoreOK'
      BY <1>2, <2>0 DEF LoadRow, row, hash, memory, async, ledger, locals, StoreOK
    <2>2. version' \in Nat /\ published' \in Nat /\ version <= version' /\ published <= published'
      BY <1>2, <2>0, <2>1 DEF LoadRow, row, hash, memory, async, ledger, locals, StoreOK
    <2>3. LocalsOK'
      <3>1. CASE \E at \in {"db", "idle"} : Forget(p, at)
        BY <2>2, <3>1, LocalsKept DEF Pc
      <3>2. CASE /\ snapQ' = [snapQ EXCEPT ![p] = remain] /\ snapV' = [snapV EXCEPT ![p] = version]
                 /\ Goto(p, "init") /\ UNCHANGED <<op, since, guarded>>
        BY <2>2, <3>2 DEF Goto, LocalsOK, StoreOK, Pc
      <3> QED BY <1>2, <3>1, <3>2 DEF LoadRow
    <2>4. LedgerOK'
      BY <1>2, <2>0 DEF LoadRow, row, hash, memory, async, ledger, locals, LedgerOK, Ok, Fault
    <2>5. Flags'
      BY Zenon, <1>2 DEF LoadRow, row, hash, memory, async, ledger, locals, Flags
    <2> QED BY <2>1, <2>3, <2>4, <2>5, TypeWholeNext
  <1>3. CASE InitToken(p)
    <2>1. StoreOK'
      BY <1>3 DEF InitToken, Exceed, row, hash, memory, async, locals, StoreOK, LocalsOK
    <2>2. version' \in Nat /\ published' \in Nat /\ version <= version' /\ published <= published'
      BY <1>3, <2>1 DEF InitToken, Exceed, row, hash, memory, async, locals, StoreOK
    <2>3. LocalsOK'
      <3>1. Stay(p, "ok") \/ Forget(p, "retry")
        BY <1>3 DEF InitToken, Loaded
      <3> QED BY <2>2, <3>1, LocalsKept DEF Pc
    <2>4. LedgerOK'
      BY <1>3 DEF InitToken, Exceed, row, hash, memory, async, locals, LocalsOK, LedgerOK, Ok, Fault
    <2>5. Flags'
      BY Zenon, <1>3 DEF InitToken, Exceed, row, hash, memory, async, locals, Flags
    <2> QED BY <2>1, <2>3, <2>4, <2>5, TypeWholeNext
  <1>4. CASE ReserveDB(p)
    <2>1. StoreOK'
      BY <1>4 DEF ReserveDB, Grant, Exceed, hash, memory, async, StoreOK
    <2>2. version' \in Nat /\ published' \in Nat /\ version <= version' /\ published <= published'
      BY <1>4, <2>1 DEF ReserveDB, Grant, Exceed, hash, memory, async, StoreOK
    <2>3. LocalsOK'
      BY <1>4, <2>2, LocalsKept DEF ReserveDB, Leave, Pc
    <2>4. LedgerOK'
      BY <1>4 DEF ReserveDB, Grant, Exceed, hash, memory, async, LedgerOK, Ok, Fault
    <2>5. Flags'
      BY Zenon, <1>4 DEF ReserveDB, Grant, Exceed, hash, memory, async, Flags
    <2> QED BY <2>1, <2>3, <2>4, <2>5, TypeWholeNext
  <1>5. CASE Persist(p)
    <2>1. StoreOK'
      BY <1>5 DEF Persist, hash, async, locals, StoreOK
    <2>2. version' \in Nat /\ published' \in Nat /\ version <= version' /\ published <= published'
      BY <1>5, <2>1 DEF Persist, hash, async, locals, StoreOK
    <2>3. LocalsOK'
      <3>1. Leave(p) \/ Stay(p, "compensate")
        BY <1>5 DEF Persist
      <3> QED BY <2>2, <3>1, LocalsKept DEF Leave, Pc
    <2>4. LedgerOK'
      BY <1>5 DEF Persist, hash, async, locals, LedgerOK, Ok, Fault
    <2>5. Flags'
      BY Zenon, <1>5 DEF Persist, hash, async, locals, Flags
    <2> QED BY <2>1, <2>3, <2>4, <2>5, TypeWholeNext
  <1>6. CASE Compensate(p)
    <2>1. StoreOK'
      BY <1>6 DEF Compensate, row, memory, async, ledger, StoreOK
    <2>2. version' \in Nat /\ published' \in Nat /\ version <= version' /\ published <= published'
      BY <1>6, <2>1 DEF Compensate, row, memory, async, ledger, StoreOK
    <2>3. LocalsOK'
      BY <1>6, <2>2, LocalsKept DEF Compensate, Leave, Pc
    <2>4. LedgerOK'
      BY <1>6 DEF Compensate, row, memory, async, ledger, LedgerOK, Ok, Fault
    <2>5. Flags'
      BY Zenon, <1>6 DEF Compensate, row, memory, async, ledger, Flags
    <2> QED BY <2>1, <2>3, <2>4, <2>5, TypeWholeNext
  <1>7. CASE Adjust(p)
    <2>1. StoreOK'
      BY <1>7 DEF Adjust, CountOp, row, hash, memory, StoreOK
    <2>2. version' \in Nat /\ published' \in Nat /\ version <= version' /\ published <= published'
      BY <1>7, <2>1 DEF Adjust, CountOp, row, hash, memory, StoreOK
    <2>3. LocalsOK'
      BY <1>7, <2>2 DEF Adjust, Goto, LocalsOK, StoreOK, Pc
    <2>4. LedgerOK'
      BY <1>7 DEF Adjust, CountOp, row, hash, memory, LedgerOK, Ok, Fault
    <2>5. Flags'
      BY Zenon, <1>7 DEF Adjust, CountOp, row, hash, memory, Flags
    <2> QED BY <2>1, <2>3, <2>4, <2>5, TypeWholeNext
  <1>8. CASE AdjustRow(p)
    <2>1. StoreOK'
      BY <1>8 DEF AdjustRow, Delta, hash, async, StoreOK
    <2>2. version' \in Nat /\ published' \in Nat /\ version <= version' /\ published <= published'
      BY <1>8, <2>1 DEF AdjustRow, Delta, hash, async, StoreOK
    <2>3. LocalsOK'
      BY <1>8, <2>2, LocalsKept DEF AdjustRow, Leave, Pc
    <2>4. LedgerOK'
      BY <1>8 DEF AdjustRow, Delta, hash, async, LedgerOK, Ok, Fault
    <2>5. Flags'
      BY Zenon, <1>8 DEF AdjustRow, Delta, hash, async, Flags
    <2> QED BY <2>1, <2>3, <2>4, <2>5, TypeWholeNext
  <1>9. CASE Validate(p)
    <2>1. StoreOK'
      BY <1>9 DEF Validate, row, hash, memory, async, ledger, StoreOK
    <2>2. version' \in Nat /\ published' \in Nat /\ version <= version' /\ published <= published'
      BY <1>9, <2>1 DEF Validate, row, hash, memory, async, ledger, StoreOK
    <2>3. LocalsOK'
      <3>1. CASE Begins(p, "validate", "ok") /\ snapV' = [snapV EXCEPT ![p] = hashVer] /\ UNCHANGED snapQ
        BY <2>2, <3>1 DEF Begins, Goto, LocalsOK, StoreOK, Pc
      <3>2. CASE Begins(p, "validate", "load") /\ UNCHANGED <<snapQ, snapV>>
        BY <2>2, <3>2, LocalsKept DEF Pc
      <3> QED BY <1>9, <3>1, <3>2 DEF Validate
    <2>4. LedgerOK'
      BY <1>9 DEF Validate, row, hash, memory, async, ledger, LedgerOK, Ok, Fault
    <2>5. Flags'
      BY Zenon, <1>9 DEF Validate, row, hash, memory, async, ledger, Flags
    <2> QED BY <2>1, <2>3, <2>4, <2>5, TypeWholeNext
  <1>10. CASE ValidateUncached(p)
    <2>1. StoreOK'
      BY <1>10 DEF ValidateUncached, row, hash, memory, async, ledger, StoreOK
    <2>2. version' \in Nat /\ published' \in Nat /\ version <= version' /\ published <= published'
      BY <1>10, <2>1 DEF ValidateUncached, row, hash, memory, async, ledger, StoreOK
    <2>3. LocalsOK'
      BY <1>10, <2>2, LocalsKept DEF ValidateUncached, Pc
    <2>4. LedgerOK'
      BY <1>10 DEF ValidateUncached, row, hash, memory, async, ledger, LedgerOK, Ok, Fault
    <2>5. Flags'
      BY Zenon, <1>10 DEF ValidateUncached, row, hash, memory, async, ledger, Flags
    <2> QED BY <2>1, <2>3, <2>4, <2>5, TypeWholeNext
  <1>11. CASE Finish(p)
    <2>1. StoreOK'
      BY <1>11 DEF Finish, row, hash, memory, async, ledger, StoreOK
    <2>2. version' \in Nat /\ published' \in Nat /\ version <= version' /\ published <= published'
      BY <1>11, <2>1 DEF Finish, row, hash, memory, async, ledger, StoreOK
    <2>3. LocalsOK'
      BY <1>11, <2>2, LocalsKept DEF Finish, Leave, Pc
    <2>4. LedgerOK'
      BY <1>11 DEF Finish, row, hash, memory, async, ledger, LedgerOK, Ok, Fault
    <2>5. Flags'
      BY Zenon, <1>11 DEF Finish, row, hash, memory, async, ledger, Flags
    <2> QED BY <2>1, <2>3, <2>4, <2>5, TypeWholeNext
  <1>12. CASE MutateRead(p)
    <2>1. StoreOK'
      BY <1>12 DEF MutateRead, row, hash, memory, async, ledger, StoreOK
    <2>2. version' \in Nat /\ published' \in Nat /\ version <= version' /\ published <= published'
      BY <1>12, <2>1 DEF MutateRead, row, hash, memory, async, ledger, StoreOK
    <2>3. LocalsOK'
      <3>1. PICK o \in {"update", "status", "delete", "purge"} : Begins(p, o, "fence")
        BY <1>12 DEF MutateRead
      <3> QED BY <1>12, <2>2, <3>1 DEF MutateRead, Begins, Goto, LocalsOK, StoreOK, Pc
    <2>4. LedgerOK'
      BY <1>12 DEF MutateRead, row, hash, memory, async, ledger, LedgerOK, Ok, Fault
    <2>5. Flags'
      BY Zenon, <1>12 DEF MutateRead, row, hash, memory, async, ledger, Flags
    <2> QED BY <2>1, <2>3, <2>4, <2>5, TypeWholeNext
  <1>13. CASE Fence(p)
    <2>1. StoreOK'
      BY <1>13 DEF Fence, row, hash, memory, async, ledger, locals, StoreOK
    <2>2. version' \in Nat /\ published' \in Nat /\ version <= version' /\ published <= published'
      BY <1>13, <2>1 DEF Fence, row, hash, memory, async, ledger, locals, StoreOK
    <2>3. LocalsOK'
      <3>1. Stay(p, "drop") \/ AfterFailure(p)
        BY <1>13 DEF Fence
      <3>2. CASE Stay(p, "drop") \/ Leave(p)
        BY <2>2, <3>2, LocalsKept DEF Leave, Pc
      <3>3. CASE /\ Goto(p, "write") /\ guarded' = [guarded EXCEPT ![p] = FALSE]
                 /\ UNCHANGED <<op, snapQ, snapV, since>>
        BY <2>2, <3>3 DEF Goto, LocalsOK, StoreOK, Pc
      <3> QED BY <3>1, <3>2, <3>3 DEF AfterFailure
    <2>4. LedgerOK'
      BY <1>13 DEF Fence, row, hash, memory, async, ledger, locals, LedgerOK, Ok, Fault
    <2>5. Flags'
      BY Zenon, <1>13 DEF Fence, row, hash, memory, async, ledger, locals, Flags
    <2> QED BY <2>1, <2>3, <2>4, <2>5, TypeWholeNext
  <1>14. CASE Drop(p)
    <2>1. StoreOK'
      BY <1>14 DEF Drop, NoHash, row, hash, memory, async, ledger, locals, StoreOK
    <2>2. version' \in Nat /\ published' \in Nat /\ version <= version' /\ published <= published'
      BY <1>14, <2>1 DEF Drop, NoHash, row, hash, memory, async, ledger, locals, StoreOK
    <2>3. LocalsOK'
      <3>1. AfterInvalidation(p) \/ AfterFailure(p)
        BY <1>14 DEF Drop
      <3>2. CASE Stay(p, "write") \/ Leave(p)
        BY <2>2, <3>2, LocalsKept DEF Leave, Pc
      <3>3. CASE /\ Goto(p, "write") /\ guarded' = [guarded EXCEPT ![p] = FALSE]
                 /\ UNCHANGED <<op, snapQ, snapV, since>>
        BY <2>2, <3>3 DEF Goto, LocalsOK, StoreOK, Pc
      <3> QED BY <3>1, <3>2, <3>3 DEF AfterFailure, AfterInvalidation
    <2>4. LedgerOK'
      BY <1>14 DEF Drop, NoHash, row, hash, memory, async, ledger, locals, LedgerOK, Ok, Fault
    <2>5. Flags'
      BY Zenon, <1>14 DEF Drop, NoHash, row, hash, memory, async, ledger, locals, Flags
    <2> QED BY <2>1, <2>3, <2>4, <2>5, TypeWholeNext
  <1>15. CASE WriteRow(p)
    <2>0. version' \in 0..MaxVersion /\ version <= version'
      <3>1. Tallied(p) /\ pc'[p] = "idle"
        BY <1>15, StepTallied DEF WriteRow, Leave, Forget, Goto
      <3>2. Mutating \in Nat /\ Mutating' \in Nat /\ Mutating' = Mutating - 1
        BY <1>15, <3>1 DEF WriteRow, Tallied, Moved
      <3> QED BY <1>15, <3>2 DEF WriteRow, Counted, Versioned, row, StoreOK
    <2>1. StoreOK'
      BY <1>15, <2>0 DEF WriteRow, row, hash, memory, async, StoreOK, LocalsOK
    <2>2. version' \in Nat /\ published' \in Nat /\ version <= version' /\ published <= published'
      BY <1>15, <2>0, <2>1 DEF WriteRow, row, hash, memory, async, StoreOK
    <2>3. LocalsOK'
      BY <1>15, <2>2, LocalsKept DEF WriteRow, Leave, Pc
    <2>4. LedgerOK'
      BY <1>15, <2>0 DEF WriteRow, row, hash, memory, async, LedgerOK, Ok, Fault
    <2>5. Flags'
      BY Zenon, <1>15 DEF WriteRow, row, hash, memory, async, Flags
    <2> QED BY <2>1, <2>3, <2>4, <2>5, TypeWholeNext
  <1> QED
    BY <1>1, <1>2, <1>3, <1>4, <1>5, <1>6, <1>7, <1>8, <1>9, <1>10, <1>11, <1>12, <1>13, <1>14,
       <1>15
    DEF Step

\* So does every other step.
LEMMA TypeStep ==
  ASSUME TypeOK, Counted, [Next]_vars
  PROVE  TypeOK'
  <1>0. Flags /\ StoreOK /\ LocalsOK /\ LedgerOK
    BY TypeParts
  <1> USE <1>0, QuotaAssumption DEF row, hash, memory, async, ledger, locals
  <1>1. CASE ApplyDelta
    <2>1. StoreOK'
      BY <1>1 DEF ApplyDelta, StoreOK
    <2>2. LocalsOK'
      BY <1>1 DEF ApplyDelta, StoreOK, LocalsOK
    <2>3. LedgerOK'
      BY <1>1 DEF ApplyDelta, LedgerOK, Ok, Fault
    <2>4. Flags'
      BY Zenon, <1>1 DEF ApplyDelta, Flags
    <2> QED BY <2>1, <2>2, <2>3, <2>4, TypeWholeNext
  <1>2. CASE DropDelta
    <2>1. StoreOK'
      BY <1>2 DEF DropDelta, StoreOK
    <2>2. LocalsOK'
      BY <1>2 DEF DropDelta, StoreOK, LocalsOK
    <2>3. LedgerOK'
      BY <1>2 DEF DropDelta, LedgerOK, Ok, Fault
    <2>4. Flags'
      BY Zenon, <1>2 DEF DropDelta, Flags
    <2> QED BY <2>1, <2>2, <2>3, <2>4, TypeWholeNext
  <1>3. CASE Swap
    <2>1. StoreOK'
      BY <1>3 DEF Swap, StoreOK
    <2>2. LocalsOK'
      BY <1>3 DEF Swap, StoreOK, LocalsOK
    <2>3. LedgerOK'
      BY <1>3 DEF Swap, LedgerOK, Ok, Fault
    <2>4. Flags'
      BY Zenon, <1>3 DEF Swap, Flags
    <2> QED BY <2>1, <2>2, <2>3, <2>4, TypeWholeNext
  <1>4. CASE Flush
    <2>1. StoreOK'
      BY <1>4 DEF Flush, StoreOK
    <2>2. LocalsOK'
      BY <1>4 DEF Flush, StoreOK, LocalsOK
    <2>3. LedgerOK'
      BY <1>4 DEF Flush, LedgerOK, Ok, Fault
    <2>4. Flags'
      BY Zenon, <1>4 DEF Flush, Flags
    <2> QED BY <2>1, <2>2, <2>3, <2>4, TypeWholeNext
  <1>5. CASE HashExpires
    <2>1. StoreOK'
      BY <1>5 DEF HashExpires, NoHash, StoreOK
    <2>2. LocalsOK'
      BY <1>5 DEF HashExpires, NoHash, StoreOK, LocalsOK
    <2>3. LedgerOK'
      BY <1>5 DEF HashExpires, NoHash, LedgerOK, Ok, Fault
    <2>4. Flags'
      BY Zenon, <1>5 DEF HashExpires, NoHash, Flags
    <2> QED BY <2>1, <2>2, <2>3, <2>4, TypeWholeNext
  <1>6. CASE FenceExpires
    <2>1. StoreOK'
      BY <1>6 DEF FenceExpires, StoreOK
    <2>2. LocalsOK'
      BY <1>6 DEF FenceExpires, StoreOK, LocalsOK
    <2>3. LedgerOK'
      BY <1>6 DEF FenceExpires, LedgerOK, Ok, Fault
    <2>4. Flags'
      BY Zenon, <1>6 DEF FenceExpires, Flags
    <2> QED BY <2>1, <2>2, <2>3, <2>4, TypeWholeNext
  <1>7. CASE Crash
    <2>1. StoreOK'
      BY <1>7 DEF Crash, Pc, StoreOK
    <2>2. LocalsOK'
      BY <1>7 DEF Crash, Pc, StoreOK, LocalsOK
    <2>3. LedgerOK'
      BY <1>7 DEF Crash, Pc, LedgerOK, Ok, Fault
    <2>4. Flags'
      BY Zenon, <1>7 DEF Crash, Pc, Flags
    <2> QED BY <2>1, <2>2, <2>3, <2>4, TypeWholeNext
  <1>8. CASE UNCHANGED vars
    <2>1. StoreOK'
      BY <1>8 DEF vars, StoreOK
    <2>2. LocalsOK'
      BY <1>8 DEF vars, StoreOK, LocalsOK
    <2>3. LedgerOK'
      BY <1>8 DEF vars, LedgerOK, Ok, Fault
    <2>4. Flags'
      BY Zenon, <1>8 DEF vars, Flags
    <2> QED BY <2>1, <2>2, <2>3, <2>4, TypeWholeNext
  <1> QED
    BY <1>1, <1>2, <1>3, <1>4, <1>5, <1>6, <1>7, <1>8, RequestTypes DEF Next

-----------------------------------------------------------------------------
(* Counts.                                                                 *)

\* Every step of a request changes the counts by that request alone.
LEMMA RequestTallied ==
  ASSUME TypeOK, NEW p \in Proc, Step(p)
  PROVE  Tallied(p)
  <1>1. (\E at : pc' = [pc EXCEPT ![p] = at]) /\ (op' = op \/ \E o : op' = [op EXCEPT ![p] = o])
    <2>1. CASE TryReserve(p)
      BY <2>1 DEF TryReserve, Goto, Stay, Forget, Leave, locals
    <2>2. CASE LoadRow(p)
      BY <2>2 DEF LoadRow, Goto, Stay, Forget, Leave, locals
    <2>3. CASE InitToken(p)
      BY <2>3 DEF InitToken, Goto, Stay, Forget, Leave, locals, Loaded
    <2>4. CASE ReserveDB(p)
      BY <2>4 DEF ReserveDB, Goto, Stay, Forget, Leave, locals
    <2>5. CASE Persist(p)
      BY <2>5 DEF Persist, Goto, Stay, Forget, Leave, locals
    <2>6. CASE Compensate(p)
      BY <2>6 DEF Compensate, Goto, Stay, Forget, Leave, locals
    <2>7. CASE Adjust(p)
      BY <2>7 DEF Adjust, Goto, Stay, Forget, Leave, locals
    <2>8. CASE AdjustRow(p)
      BY <2>8 DEF AdjustRow, Goto, Stay, Forget, Leave, locals
    <2>9. CASE Validate(p)
      BY <2>9 DEF Validate, Goto, Stay, Forget, Leave, locals, Begins
    <2>10. CASE ValidateUncached(p)
      BY <2>10 DEF ValidateUncached, Goto, Stay, Forget, Leave, locals, Begins
    <2>11. CASE Finish(p)
      BY <2>11 DEF Finish, Goto, Stay, Forget, Leave, locals
    <2>12. CASE MutateRead(p)
      BY <2>12 DEF MutateRead, Goto, Stay, Forget, Leave, locals, Begins
    <2>13. CASE Fence(p)
      BY <2>13 DEF Fence, Goto, Stay, Forget, Leave, locals, AfterFailure
    <2>14. CASE Drop(p)
      BY <2>14 DEF Drop, Goto, Stay, Forget, Leave, locals, AfterFailure, AfterInvalidation
    <2>15. CASE WriteRow(p)
      BY <2>15 DEF WriteRow, Goto, Stay, Forget, Leave, locals
    <2> QED
      BY <2>1, <2>2, <2>3, <2>4, <2>5, <2>6, <2>7, <2>8,
         <2>9, <2>10, <2>11, <2>12, <2>13, <2>14, <2>15
      DEF Step
  <1> QED BY <1>1, StepTallied

\* Every step of a request keeps the counts within their bounds.
LEMMA RequestCounted ==
  ASSUME TypeOK, Counted, NEW p \in Proc, Step(p)
  PROVE  Counted'
  <1>0. Tallied(p)
    BY RequestTallied
  <1> USE <1>0, QuotaAssumption
  <1>1. CASE TryReserve(p)
    <2> USE <1>1 DEF TryReserve, CountOp, Grant, row, memory, async, hash, locals, Goto, Stay, Forget, Leave
    <2>1. Versioned'
      BY TypeParts DEF Counted, Versioned, Tallied, Moved, StoreOK, LocalsOK
    <2>2. Charged'
      BY TypeParts DEF Counted, Charged, Tallied, Moved, IsLowering, LedgerOK, LocalsOK
    <2>3. Earned'
      BY TypeParts DEF Counted, Earned, Tallied, Moved, IsReserving, LedgerOK, LocalsOK
    <2>4. Bounded'
      BY TypeParts DEF Counted, Bounded, LedgerOK
    <2>5. Adjusting'
      BY TypeParts DEF Counted, Adjusting, LocalsOK
    <2> QED BY <2>1, <2>2, <2>3, <2>4, <2>5 DEF Counted
  <1>2. CASE LoadRow(p)
    <2> USE <1>2 DEF LoadRow, row, hash, memory, async, ledger, locals, Goto, Stay, Forget, Leave
    <2>1. Versioned'
      BY TypeParts DEF Counted, Versioned, Tallied, Moved, StoreOK, LocalsOK
    <2>2. Charged'
      BY TypeParts DEF Counted, Charged, Tallied, Moved, IsLowering, LedgerOK, LocalsOK
    <2>3. Earned'
      BY TypeParts DEF Counted, Earned, Tallied, Moved, IsReserving, LedgerOK, LocalsOK
    <2>4. Bounded'
      BY TypeParts DEF Counted, Bounded, LedgerOK
    <2>5. Adjusting'
      BY TypeParts DEF Counted, Adjusting, LocalsOK
    <2> QED BY <2>1, <2>2, <2>3, <2>4, <2>5 DEF Counted
  <1>3. CASE InitToken(p)
    <2> USE <1>3 DEF InitToken, Exceed, row, hash, memory, async, locals, Loaded, Goto, Stay, Forget, Leave
    <2>1. Versioned'
      BY TypeParts DEF Counted, Versioned, Tallied, Moved, StoreOK, LocalsOK
    <2>2. Charged'
      BY TypeParts DEF Counted, Charged, Tallied, Moved, IsLowering, LedgerOK, LocalsOK
    <2>3. Earned'
      BY TypeParts DEF Counted, Earned, Tallied, Moved, IsReserving, LedgerOK, LocalsOK
    <2>4. Bounded'
      BY TypeParts DEF Counted, Bounded, LedgerOK
    <2>5. Adjusting'
      BY TypeParts DEF Counted, Adjusting, LocalsOK
    <2> QED BY <2>1, <2>2, <2>3, <2>4, <2>5 DEF Counted
  <1>4. CASE ReserveDB(p)
    <2> USE <1>4 DEF ReserveDB, Grant, Exceed, hash, memory, async, Goto, Stay, Forget, Leave
    <2>1. Versioned'
      BY TypeParts DEF Counted, Versioned, Tallied, Moved, StoreOK, LocalsOK
    <2>2. Charged'
      BY TypeParts DEF Counted, Charged, Tallied, Moved, IsLowering, LedgerOK, LocalsOK
    <2>3. Earned'
      BY TypeParts DEF Counted, Earned, Tallied, Moved, IsReserving, LedgerOK, LocalsOK
    <2>4. Bounded'
      BY TypeParts DEF Counted, Bounded, LedgerOK
    <2>5. Adjusting'
      BY TypeParts DEF Counted, Adjusting, LocalsOK
    <2> QED BY <2>1, <2>2, <2>3, <2>4, <2>5 DEF Counted
  <1>5. CASE Persist(p)
    <2> USE <1>5 DEF Persist, hash, async, locals, Goto, Stay, Forget, Leave
    <2>1. Versioned'
      BY TypeParts DEF Counted, Versioned, Tallied, Moved, StoreOK, LocalsOK
    <2>2. Charged'
      BY TypeParts DEF Counted, Charged, Tallied, Moved, IsLowering, LedgerOK, LocalsOK
    <2>3. Earned'
      BY TypeParts DEF Counted, Earned, Tallied, Moved, IsReserving, LedgerOK, LocalsOK
    <2>4. Bounded'
      BY TypeParts DEF Counted, Bounded, LedgerOK
    <2>5. Adjusting'
      BY TypeParts DEF Counted, Adjusting, LocalsOK
    <2> QED BY <2>1, <2>2, <2>3, <2>4, <2>5 DEF Counted
  <1>6. CASE Compensate(p)
    <2> USE <1>6 DEF Compensate, row, memory, async, ledger, Goto, Stay, Forget, Leave
    <2>1. Versioned'
      BY TypeParts DEF Counted, Versioned, Tallied, Moved, StoreOK, LocalsOK
    <2>2. Charged'
      BY TypeParts DEF Counted, Charged, Tallied, Moved, IsLowering, LedgerOK, LocalsOK
    <2>3. Earned'
      BY TypeParts DEF Counted, Earned, Tallied, Moved, IsReserving, LedgerOK, LocalsOK
    <2>4. Bounded'
      BY TypeParts DEF Counted, Bounded, LedgerOK
    <2>5. Adjusting'
      BY TypeParts DEF Counted, Adjusting, LocalsOK
    <2> QED BY <2>1, <2>2, <2>3, <2>4, <2>5 DEF Counted
  <1>7. CASE Adjust(p)
    <2> USE <1>7 DEF Adjust, CountOp, row, hash, memory, Goto, Stay, Forget, Leave
    <2>1. Versioned'
      BY TypeParts DEF Counted, Versioned, Tallied, Moved, StoreOK, LocalsOK
    <2>2. Charged'
      BY TypeParts DEF Counted, Charged, Tallied, Moved, IsLowering, LedgerOK, LocalsOK
    <2>3. Earned'
      BY TypeParts DEF Counted, Earned, Tallied, Moved, IsReserving, LedgerOK, LocalsOK
    <2>4. Bounded'
      BY TypeParts DEF Counted, Bounded, LedgerOK
    <2>5. Adjusting'
      BY TypeParts DEF Counted, Adjusting, LocalsOK
    <2> QED BY <2>1, <2>2, <2>3, <2>4, <2>5 DEF Counted
  <1>8. CASE AdjustRow(p)
    <2> USE <1>8 DEF AdjustRow, Delta, hash, async, Goto, Stay, Forget, Leave
    <2>1. Versioned'
      BY TypeParts DEF Counted, Versioned, Tallied, Moved, StoreOK, LocalsOK
    <2>2. Charged'
      BY TypeParts DEF Counted, Charged, Tallied, Moved, IsLowering, LedgerOK, LocalsOK
    <2>3. Earned'
      BY TypeParts DEF Counted, Earned, Tallied, Moved, IsReserving, LedgerOK, LocalsOK
    <2>4. Bounded'
      BY TypeParts DEF Counted, Bounded, LedgerOK
    <2>5. Adjusting'
      BY TypeParts DEF Counted, Adjusting, LocalsOK
    <2> QED BY <2>1, <2>2, <2>3, <2>4, <2>5 DEF Counted
  <1>9. CASE Validate(p)
    <2> USE <1>9 DEF Validate, Begins, row, hash, memory, async, ledger, Goto, Stay, Forget, Leave
    <2>1. Versioned'
      BY TypeParts DEF Counted, Versioned, Tallied, Moved, StoreOK, LocalsOK
    <2>2. Charged'
      BY TypeParts DEF Counted, Charged, Tallied, Moved, IsLowering, LedgerOK, LocalsOK
    <2>3. Earned'
      BY TypeParts DEF Counted, Earned, Tallied, Moved, IsReserving, LedgerOK, LocalsOK
    <2>4. Bounded'
      BY TypeParts DEF Counted, Bounded, LedgerOK
    <2>5. Adjusting'
      BY TypeParts DEF Counted, Adjusting, LocalsOK
    <2> QED BY <2>1, <2>2, <2>3, <2>4, <2>5 DEF Counted
  <1>10. CASE ValidateUncached(p)
    <2> USE <1>10 DEF ValidateUncached, Begins, row, hash, memory, async, ledger, Goto, Stay, Forget, Leave
    <2>1. Versioned'
      BY TypeParts DEF Counted, Versioned, Tallied, Moved, StoreOK, LocalsOK
    <2>2. Charged'
      BY TypeParts DEF Counted, Charged, Tallied, Moved, IsLowering, LedgerOK, LocalsOK
    <2>3. Earned'
      BY TypeParts DEF Counted, Earned, Tallied, Moved, IsReserving, LedgerOK, LocalsOK
    <2>4. Bounded'
      BY TypeParts DEF Counted, Bounded, LedgerOK
    <2>5. Adjusting'
      BY TypeParts DEF Counted, Adjusting, LocalsOK
    <2> QED BY <2>1, <2>2, <2>3, <2>4, <2>5 DEF Counted
  <1>11. CASE Finish(p)
    <2> USE <1>11 DEF Finish, row, hash, memory, async, ledger, Goto, Stay, Forget, Leave
    <2>1. Versioned'
      BY TypeParts DEF Counted, Versioned, Tallied, Moved, StoreOK, LocalsOK
    <2>2. Charged'
      BY TypeParts DEF Counted, Charged, Tallied, Moved, IsLowering, LedgerOK, LocalsOK
    <2>3. Earned'
      BY TypeParts DEF Counted, Earned, Tallied, Moved, IsReserving, LedgerOK, LocalsOK
    <2>4. Bounded'
      BY TypeParts DEF Counted, Bounded, LedgerOK
    <2>5. Adjusting'
      BY TypeParts DEF Counted, Adjusting, LocalsOK
    <2> QED BY <2>1, <2>2, <2>3, <2>4, <2>5 DEF Counted
  <1>12. CASE MutateRead(p)
    <2> USE <1>12 DEF MutateRead, Begins, row, hash, memory, async, ledger, Goto, Stay, Forget, Leave
    <2>1. Versioned'
      BY TypeParts DEF Counted, Versioned, Mutating, Tallied, Moved, StoreOK, LocalsOK
    <2>2. Charged'
      BY TypeParts DEF Counted, Charged, Tallied, Moved, IsLowering, LedgerOK, LocalsOK
    <2>3. Earned'
      BY TypeParts DEF Counted, Earned, Tallied, Moved, IsReserving, LedgerOK, LocalsOK
    <2>4. Bounded'
      BY TypeParts DEF Counted, Bounded, LedgerOK
    <2>5. Adjusting'
      BY TypeParts DEF Counted, Adjusting, LocalsOK
    <2> QED BY <2>1, <2>2, <2>3, <2>4, <2>5 DEF Counted
  <1>13. CASE Fence(p)
    <2> USE <1>13 DEF Fence, AfterFailure, row, hash, memory, async, ledger, locals, Goto, Stay, Forget, Leave
    <2>1. Versioned'
      BY TypeParts DEF Counted, Versioned, Tallied, Moved, StoreOK, LocalsOK
    <2>2. Charged'
      BY TypeParts DEF Counted, Charged, Tallied, Moved, IsLowering, LedgerOK, LocalsOK
    <2>3. Earned'
      BY TypeParts DEF Counted, Earned, Tallied, Moved, IsReserving, LedgerOK, LocalsOK
    <2>4. Bounded'
      BY TypeParts DEF Counted, Bounded, LedgerOK
    <2>5. Adjusting'
      BY TypeParts DEF Counted, Adjusting, LocalsOK
    <2> QED BY <2>1, <2>2, <2>3, <2>4, <2>5 DEF Counted
  <1>14. CASE Drop(p)
    <2> USE <1>14 DEF Drop, NoHash, AfterFailure, AfterInvalidation, row, hash, memory, async, ledger, locals, Goto, Stay, Forget, Leave
    <2>1. Versioned'
      BY TypeParts DEF Counted, Versioned, Tallied, Moved, StoreOK, LocalsOK
    <2>2. Charged'
      BY TypeParts DEF Counted, Charged, Tallied, Moved, IsLowering, LedgerOK, LocalsOK
    <2>3. Earned'
      BY TypeParts DEF Counted, Earned, Tallied, Moved, IsReserving, LedgerOK, LocalsOK
    <2>4. Bounded'
      BY TypeParts DEF Counted, Bounded, LedgerOK
    <2>5. Adjusting'
      BY TypeParts DEF Counted, Adjusting, LocalsOK
    <2> QED BY <2>1, <2>2, <2>3, <2>4, <2>5 DEF Counted
  <1>15. CASE WriteRow(p)
    <2> USE <1>15 DEF WriteRow, row, hash, memory, async, Goto, Stay, Forget, Leave
    <2>1. Versioned'
      BY TypeParts DEF Counted, Versioned, Tallied, Moved, StoreOK, LocalsOK
    <2>2. Charged'
      BY TypeParts DEF Counted, Charged, Tallied, Moved, IsLowering, LedgerOK, LocalsOK
    <2>3. Earned'
      BY TypeParts DEF Counted, Earned, Tallied, Moved, IsReserving, LedgerOK, LocalsOK
    <2>4. Bounded'
      BY TypeParts DEF Counted, Bounded, LedgerOK
    <2>5. Adjusting'
      BY TypeParts DEF Counted, Adjusting, LocalsOK
    <2> QED BY <2>1, <2>2, <2>3, <2>4, <2>5 DEF Counted
  <1> QED
    BY <1>1, <1>2, <1>3, <1>4, <1>5, <1>6, <1>7, <1>8,
       <1>9, <1>10, <1>11, <1>12, <1>13, <1>14, <1>15
    DEF Step

\* So does every other step: counts.
LEMMA CountedStep ==
  ASSUME TypeOK, Counted, [Next]_vars
  PROVE  Counted'
  <1> USE DEF row, hash, memory, async, ledger, locals
  <1>1. CASE ApplyDelta
    BY <1>1, NoneMoves DEF ApplyDelta, Counted, Versioned, Charged, Earned, Bounded, Adjusting
  <1>2. CASE DropDelta
    BY <1>2, NoneMoves DEF DropDelta, Counted, Versioned, Charged, Earned, Bounded, Adjusting
  <1>3. CASE Swap
    BY <1>3, NoneMoves DEF Swap, Counted, Versioned, Charged, Earned, Bounded, Adjusting
  <1>4. CASE Flush
    BY <1>4, NoneMoves DEF Flush, Counted, Versioned, Charged, Earned, Bounded, Adjusting
  <1>5. CASE HashExpires
    BY <1>5, NoneMoves DEF HashExpires, NoHash, Counted, Versioned, Charged, Earned, Bounded, Adjusting
  <1>6. CASE FenceExpires
    BY <1>6, NoneMoves DEF FenceExpires, Counted, Versioned, Charged, Earned, Bounded, Adjusting
  <1>7. CASE Crash
    <2>1. Persisting' = 0 /\ Returning' = 0 /\ Mutating' = 0 /\ Lowering' = 0 /\ Reserving' = 0
      BY <1>7, NoneBusyNext DEF Crash
    <2>2. Versioned' /\ Charged' /\ Earned' /\ Bounded'
      BY <1>7, <2>1, TallyType, TypeParts
      DEF Crash, Counted, Versioned, Charged, Earned, Bounded, StoreOK, LedgerOK
    <2>3. Adjusting'
      BY <1>7 DEF Crash, Adjusting
    <2> QED BY <2>2, <2>3 DEF Counted
  <1>8. CASE UNCHANGED vars
    BY <1>8, NoneMoves DEF vars, Counted, Versioned, Charged, Earned, Bounded, Adjusting
  <1> QED
    BY <1>1, <1>2, <1>3, <1>4, <1>5, <1>6, <1>7, <1>8, RequestCounted DEF Next

-----------------------------------------------------------------------------
(* Balances.                                                               *)

\* Every step of a request keeps the books.
LEMMA RequestBooked ==
  ASSUME TypeOK, Counted, Books, NEW p \in Proc, Step(p)
  PROVE  Books'
  <1>0. Tallied(p)
    BY RequestTallied
  <1> SUFFICES ASSUME live', ~lossy'
               PROVE  (remain + batch + flush - Persisting + Raising - Lowering = Quota - granted - debited)'
    BY DEF Books
  <1> USE <1>0, QuotaAssumption, TypeParts DEF Counted, StoreOK, LocalsOK, LedgerOK
  <1>1. CASE TryReserve(p)
    <2>1. live /\ ~lossy
      BY <1>1 DEF TryReserve, CountOp, Grant, row, memory, async, hash, locals
    <2>2. remain + batch + flush - Persisting + Raising - Lowering = Quota - granted - debited
      BY <2>1 DEF Books
    <2> QED
      BY <1>1, <2>1, <2>2
      DEF TryReserve, CountOp, Grant, row, memory, async, hash, locals, Goto, Stay, Forget, Leave, Tallied, Moved, IsRaising, IsLowering
  <1>2. CASE LoadRow(p)
    <2>1. live /\ ~lossy
      BY <1>2 DEF LoadRow, row, hash, memory, async, ledger, locals
    <2>2. remain + batch + flush - Persisting + Raising - Lowering = Quota - granted - debited
      BY <2>1 DEF Books
    <2> QED
      BY <1>2, <2>1, <2>2
      DEF LoadRow, row, hash, memory, async, ledger, locals, Goto, Stay, Forget, Leave, Tallied, Moved, IsRaising, IsLowering
  <1>3. CASE InitToken(p)
    <2>1. live /\ ~lossy
      BY <1>3 DEF InitToken, Exceed, row, hash, memory, async, locals, Loaded
    <2>2. remain + batch + flush - Persisting + Raising - Lowering = Quota - granted - debited
      BY <2>1 DEF Books
    <2> QED
      BY <1>3, <2>1, <2>2
      DEF InitToken, Exceed, row, hash, memory, async, locals, Loaded, Goto, Stay, Forget, Leave, Tallied, Moved, IsRaising, IsLowering
  <1>4. CASE ReserveDB(p)
    <2>1. live /\ ~lossy
      BY <1>4 DEF ReserveDB, Grant, Exceed, hash, memory, async
    <2>2. remain + batch + flush - Persisting + Raising - Lowering = Quota - granted - debited
      BY <2>1 DEF Books
    <2> QED
      BY <1>4, <2>1, <2>2
      DEF ReserveDB, Grant, Exceed, hash, memory, async, Goto, Stay, Forget, Leave, Tallied, Moved, IsRaising, IsLowering
  <1>5. CASE Persist(p)
    <2>1. live /\ ~lossy
      BY <1>5 DEF Persist, hash, async, locals
    <2>2. remain + batch + flush - Persisting + Raising - Lowering = Quota - granted - debited
      BY <2>1 DEF Books
    <2> QED
      BY <1>5, <2>1, <2>2
      DEF Persist, hash, async, locals, Goto, Stay, Forget, Leave, Tallied, Moved, IsRaising, IsLowering
  <1>6. CASE Compensate(p)
    <2>1. live /\ ~lossy
      BY <1>6 DEF Compensate, row, memory, async, ledger
    <2>2. remain + batch + flush - Persisting + Raising - Lowering = Quota - granted - debited
      BY <2>1 DEF Books
    <2> QED
      BY <1>6, <2>1, <2>2
      DEF Compensate, row, memory, async, ledger, Goto, Stay, Forget, Leave, Tallied, Moved, IsRaising, IsLowering
  <1>7. CASE Adjust(p)
    <2>1. live /\ ~lossy
      BY <1>7 DEF Adjust, CountOp, row, hash, memory
    <2>2. remain + batch + flush - Persisting + Raising - Lowering = Quota - granted - debited
      BY <2>1 DEF Books
    <2> QED
      BY <1>7, <2>1, <2>2
      DEF Adjust, CountOp, row, hash, memory, Goto, Stay, Forget, Leave, Tallied, Moved, IsRaising, IsLowering
  <1>8. CASE AdjustRow(p)
    <2>1. live /\ ~lossy
      BY <1>8 DEF AdjustRow, Delta, hash, async
    <2>2. remain + batch + flush - Persisting + Raising - Lowering = Quota - granted - debited
      BY <2>1 DEF Books
    <2> QED
      BY <1>8, <2>1, <2>2
      DEF AdjustRow, Delta, hash, async, Goto, Stay, Forget, Leave, Tallied, Moved, IsRaising, IsLowering, Adjusting
  <1>9. CASE Validate(p)
    <2>1. live /\ ~lossy
      BY <1>9 DEF Validate, Begins, row, hash, memory, async, ledger
    <2>2. remain + batch + flush - Persisting + Raising - Lowering = Quota - granted - debited
      BY <2>1 DEF Books
    <2> QED
      BY <1>9, <2>1, <2>2
      DEF Validate, Begins, row, hash, memory, async, ledger, Goto, Stay, Forget, Leave, Tallied, Moved, IsRaising, IsLowering
  <1>10. CASE ValidateUncached(p)
    <2>1. live /\ ~lossy
      BY <1>10 DEF ValidateUncached, Begins, row, hash, memory, async, ledger
    <2>2. remain + batch + flush - Persisting + Raising - Lowering = Quota - granted - debited
      BY <2>1 DEF Books
    <2> QED
      BY <1>10, <2>1, <2>2
      DEF ValidateUncached, Begins, row, hash, memory, async, ledger, Goto, Stay, Forget, Leave, Tallied, Moved, IsRaising, IsLowering
  <1>11. CASE Finish(p)
    <2>1. live /\ ~lossy
      BY <1>11 DEF Finish, row, hash, memory, async, ledger
    <2>2. remain + batch + flush - Persisting + Raising - Lowering = Quota - granted - debited
      BY <2>1 DEF Books
    <2> QED
      BY <1>11, <2>1, <2>2
      DEF Finish, row, hash, memory, async, ledger, Goto, Stay, Forget, Leave, Tallied, Moved, IsRaising, IsLowering
  <1>12. CASE MutateRead(p)
    <2>1. live /\ ~lossy
      BY <1>12 DEF MutateRead, Begins, row, hash, memory, async, ledger
    <2>2. remain + batch + flush - Persisting + Raising - Lowering = Quota - granted - debited
      BY <2>1 DEF Books
    <2> QED
      BY <1>12, <2>1, <2>2
      DEF MutateRead, Begins, row, hash, memory, async, ledger, Goto, Stay, Forget, Leave, Tallied, Moved, IsRaising, IsLowering
  <1>13. CASE Fence(p)
    <2>1. live /\ ~lossy
      BY <1>13 DEF Fence, AfterFailure, row, hash, memory, async, ledger, locals
    <2>2. remain + batch + flush - Persisting + Raising - Lowering = Quota - granted - debited
      BY <2>1 DEF Books
    <2> QED
      BY <1>13, <2>1, <2>2
      DEF Fence, AfterFailure, row, hash, memory, async, ledger, locals, Goto, Stay, Forget, Leave, Tallied, Moved, IsRaising, IsLowering
  <1>14. CASE Drop(p)
    <2>1. live /\ ~lossy
      BY <1>14 DEF Drop, NoHash, AfterFailure, AfterInvalidation, row, hash, memory, async, ledger, locals
    <2>2. remain + batch + flush - Persisting + Raising - Lowering = Quota - granted - debited
      BY <2>1 DEF Books
    <2> QED
      BY <1>14, <2>1, <2>2
      DEF Drop, NoHash, AfterFailure, AfterInvalidation, row, hash, memory, async, ledger, locals, Goto, Stay, Forget, Leave, Tallied, Moved, IsRaising, IsLowering
  <1>15. CASE WriteRow(p)
    <2>1. live /\ ~lossy /\ remain' = remain
      <3>1. CASE live /\ lossy' = (lossy \/ remain' # remain)
        BY ONLY <3>1, ~lossy', Zenon
      <3>2. CASE UNCHANGED <<row, lossy>>
        BY <3>2 DEF row
      <3> QED BY ONLY WriteRow(p), <1>15, <3>1, <3>2, Zenon DEF WriteRow
    <2>2. remain + batch + flush - Persisting + Raising - Lowering = Quota - granted - debited
      BY <2>1 DEF Books
    <2> QED
      BY <1>15, <2>1, <2>2
      DEF WriteRow, row, hash, memory, async, Goto, Stay, Forget, Leave, Tallied, Moved, IsRaising, IsLowering
  <1> QED
    BY <1>1, <1>2, <1>3, <1>4, <1>5, <1>6, <1>7, <1>8,
       <1>9, <1>10, <1>11, <1>12, <1>13, <1>14, <1>15
    DEF Step

\* So does every other step.
LEMMA BooksStep ==
  ASSUME TypeOK, Counted, Books, [Next]_vars
  PROVE  Books'
  <1> USE TypeParts, TallyType, NoneMoves DEF row, hash, memory, async, ledger, locals, StoreOK, LedgerOK
  <1>1. CASE ApplyDelta
    BY <1>1 DEF ApplyDelta, Books
  <1>2. CASE DropDelta
    BY <1>2 DEF DropDelta, Books
  <1>3. CASE Swap
    BY <1>3 DEF Swap, Books
  <1>4. CASE Flush
    BY <1>4 DEF Flush, Books
  <1>5. CASE HashExpires
    BY <1>5 DEF HashExpires, NoHash, Books
  <1>6. CASE FenceExpires
    BY <1>6 DEF FenceExpires, Books
  <1>7. CASE Crash
    BY <1>7 DEF Crash, Books
  <1>8. CASE UNCHANGED vars
    BY <1>8 DEF vars, Books
  <1> QED
    BY <1>1, <1>2, <1>3, <1>4, <1>5, <1>6, <1>7, <1>8, RequestBooked DEF Next

\* Every step of a request keeps what the cache may still grant covered.
LEMMA RequestCovered ==
  ASSUME TypeOK, Counted, Books, Covered, NEW p \in Proc, Step(p)
  PROVE  Covered'
  <1>0. Tallied(p)
    BY RequestTallied
  <1> SUFFICES ASSUME ~lossy', excess' < MaxOps
               PROVE  /\ granted' <= Quota + excess'
                      /\ hashed' => HashCovered'
                      /\ \A q \in Proc : pc'[q] = "init" => SnapCovered(q)'
    BY DEF Covered
  <1> USE <1>0, QuotaAssumption, TypeParts DEF Counted, StoreOK, LocalsOK, LedgerOK
  <1>1. CASE TryReserve(p)
    <2>1. ~lossy /\ excess < MaxOps
      BY <1>1 DEF TryReserve, CountOp, Grant, row, memory, async, hash, locals
    <2>2. /\ granted <= Quota + excess
          /\ hashed => HashCovered
          /\ \A q \in Proc : pc[q] = "init" => SnapCovered(q)
      BY <2>1 DEF Covered
    <2>4. granted' <= Quota + excess'
      BY <1>1, <2>1, <2>2 DEF TryReserve, CountOp, Grant, row, memory, async, hash, locals, Goto, Stay, Forget, Leave, Tallied, Moved, HashCovered
    <2>5. hashed' => HashCovered'
      BY <1>1, <2>1, <2>2 DEF TryReserve, CountOp, Grant, row, memory, async, hash, locals, Goto, Stay, Forget, Leave, Tallied, Moved, HashCovered
    <2>6. ASSUME NEW q \in Proc, pc'[q] = "init" PROVE SnapCovered(q)'
      BY <1>1, <2>1, <2>2, <2>6 DEF TryReserve, CountOp, Grant, row, memory, async, hash, locals, Goto, Stay, Forget, Leave, Tallied, Moved, SnapCovered
    <2> QED BY <2>4, <2>5, <2>6
  <1>2. CASE LoadRow(p)
    <2>1. ~lossy /\ excess < MaxOps
      BY <1>2 DEF LoadRow, row, hash, memory, async, ledger, locals
    <2>2. /\ granted <= Quota + excess
          /\ hashed => HashCovered
          /\ \A q \in Proc : pc[q] = "init" => SnapCovered(q)
      BY <2>1 DEF Covered
    <2>0. /\ Outstanding \in Nat
          /\ Outstanding >= Persisting + Returning + ups
          /\ Outstanding >= Persisting + Returning + ups - (batch + flush)
      BY CountSplits, TallyType DEF Outstanding
    <2>3. live => remain <= Quota - granted + Persisting - (batch + flush)
      BY <2>1, TallyType DEF Books, Charged
    <2>4. granted' <= Quota + excess'
      BY <1>2, <2>1, <2>2, <2>0, <2>3 DEF LoadRow, row, hash, memory, async, ledger, locals, Goto, Stay, Forget, Leave, Tallied, Moved, HashCovered
    <2>5. hashed' => HashCovered'
      BY <1>2, <2>1, <2>2, <2>0, <2>3 DEF LoadRow, row, hash, memory, async, ledger, locals, Goto, Stay, Forget, Leave, Tallied, Moved, HashCovered
    <2>6. ASSUME NEW q \in Proc, pc'[q] = "init" PROVE SnapCovered(q)'
      BY <1>2, <2>1, <2>2, <2>0, <2>3, <2>6 DEF LoadRow, row, hash, memory, async, ledger, locals, Goto, Stay, Forget, Leave, Tallied, Moved, SnapCovered
    <2> QED BY <2>4, <2>5, <2>6
  <1>3. CASE InitToken(p)
    <2>1. ~lossy /\ excess < MaxOps
      BY <1>3 DEF InitToken, Exceed, row, hash, memory, async, locals, Loaded
    <2>2. /\ granted <= Quota + excess
          /\ hashed => HashCovered
          /\ \A q \in Proc : pc[q] = "init" => SnapCovered(q)
      BY <2>1 DEF Covered
    <2>4. granted' <= Quota + excess'
      BY <1>3, <2>1, <2>2 DEF InitToken, Exceed, row, hash, memory, async, locals, Loaded, Goto, Stay, Forget, Leave, Tallied, Moved, HashCovered
    <2>5. hashed' => HashCovered'
      <3>1. Returning' = Returning /\ ups' = ups /\ granted' = granted
        BY <1>3 DEF InitToken, Loaded, Goto, Stay, Forget, Tallied, Moved, async
      <3>2. CASE balance' = snapQ[p] /\ Exceed(raced[p])
        <4>1. SnapCovered(p)
          BY <1>3, <2>2 DEF InitToken
        <4>2. excess' = excess + raced[p]
          BY <3>2 DEF Exceed
        <4> QED BY <3>1, <3>2, <4>1, <4>2, TallyType DEF HashCovered, SnapCovered
      <3>3. CASE UNCHANGED <<hash, excess>>
        BY <2>2, <3>1, <3>3 DEF HashCovered, hash
      <3> QED BY <1>3, <3>2, <3>3 DEF InitToken
    <2>6. ASSUME NEW q \in Proc, pc'[q] = "init" PROVE SnapCovered(q)'
      BY <1>3, <2>1, <2>2, <2>6 DEF InitToken, Exceed, row, hash, memory, async, locals, Loaded, Goto, Stay, Forget, Leave, Tallied, Moved, SnapCovered
    <2> QED BY <2>4, <2>5, <2>6
  <1>4. CASE ReserveDB(p)
    <2>1. ~lossy /\ excess < MaxOps
      BY <1>4 DEF ReserveDB, Grant, Exceed, hash, memory, async
    <2>2. /\ granted <= Quota + excess
          /\ hashed => HashCovered
          /\ \A q \in Proc : pc[q] = "init" => SnapCovered(q)
      BY <2>1 DEF Covered
    <2>0. /\ Outstanding \in Nat
          /\ Outstanding >= Persisting + Returning + ups
          /\ Outstanding >= Persisting + Returning + ups - (batch + flush)
      BY CountSplits, TallyType DEF Outstanding
    <2>3. live => remain <= Quota - granted + Persisting - (batch + flush)
      BY <2>1, TallyType DEF Books, Charged
    <2>4. granted' <= Quota + excess'
      BY <1>4, <2>1, <2>2, <2>0, <2>3 DEF ReserveDB, Grant, Exceed, hash, memory, async, Goto, Stay, Forget, Leave, Tallied, Moved, HashCovered
    <2>5. hashed' => HashCovered'
      BY <1>4, <2>1, <2>2, <2>0, <2>3 DEF ReserveDB, Grant, Exceed, hash, memory, async, Goto, Stay, Forget, Leave, Tallied, Moved, HashCovered
    <2>6. ASSUME NEW q \in Proc, pc'[q] = "init" PROVE SnapCovered(q)'
      BY <1>4, <2>1, <2>2, <2>0, <2>3, <2>6 DEF ReserveDB, Grant, Exceed, hash, memory, async, Goto, Stay, Forget, Leave, Tallied, Moved, SnapCovered
    <2> QED BY <2>4, <2>5, <2>6
  <1>5. CASE Persist(p)
    <2>1. ~lossy /\ excess < MaxOps
      BY <1>5 DEF Persist, hash, async, locals
    <2>2. /\ granted <= Quota + excess
          /\ hashed => HashCovered
          /\ \A q \in Proc : pc[q] = "init" => SnapCovered(q)
      BY <2>1 DEF Covered
    <2>4. granted' <= Quota + excess'
      BY <1>5, <2>1, <2>2 DEF Persist, hash, async, locals, Goto, Stay, Forget, Leave, Tallied, Moved, HashCovered
    <2>5. hashed' => HashCovered'
      BY <1>5, <2>1, <2>2 DEF Persist, hash, async, locals, Goto, Stay, Forget, Leave, Tallied, Moved, HashCovered
    <2>6. ASSUME NEW q \in Proc, pc'[q] = "init" PROVE SnapCovered(q)'
      BY <1>5, <2>1, <2>2, <2>6 DEF Persist, hash, async, locals, Goto, Stay, Forget, Leave, Tallied, Moved, SnapCovered
    <2> QED BY <2>4, <2>5, <2>6
  <1>6. CASE Compensate(p)
    <2>1. ~lossy /\ excess < MaxOps
      BY <1>6 DEF Compensate, row, memory, async, ledger
    <2>2. /\ granted <= Quota + excess
          /\ hashed => HashCovered
          /\ \A q \in Proc : pc[q] = "init" => SnapCovered(q)
      BY <2>1 DEF Covered
    <2>4. granted' <= Quota + excess'
      BY <1>6, <2>1, <2>2 DEF Compensate, row, memory, async, ledger, Goto, Stay, Forget, Leave, Tallied, Moved, HashCovered
    <2>5. hashed' => HashCovered'
      BY <1>6, <2>1, <2>2 DEF Compensate, row, memory, async, ledger, Goto, Stay, Forget, Leave, Tallied, Moved, HashCovered
    <2>6. ASSUME NEW q \in Proc, pc'[q] = "init" PROVE SnapCovered(q)'
      BY <1>6, <2>1, <2>2, <2>6 DEF Compensate, row, memory, async, ledger, Goto, Stay, Forget, Leave, Tallied, Moved, SnapCovered
    <2> QED BY <2>4, <2>5, <2>6
  <1>7. CASE Adjust(p)
    <2>1. ~lossy /\ excess < MaxOps
      BY <1>7 DEF Adjust, CountOp, row, hash, memory
    <2>2. /\ granted <= Quota + excess
          /\ hashed => HashCovered
          /\ \A q \in Proc : pc[q] = "init" => SnapCovered(q)
      BY <2>1 DEF Covered
    <2>4. granted' <= Quota + excess'
      BY <1>7, <2>1, <2>2 DEF Adjust, CountOp, row, hash, memory, Goto, Stay, Forget, Leave, Tallied, Moved, HashCovered
    <2>5. hashed' => HashCovered'
      BY <1>7, <2>1, <2>2 DEF Adjust, CountOp, row, hash, memory, Goto, Stay, Forget, Leave, Tallied, Moved, HashCovered
    <2>6. ASSUME NEW q \in Proc, pc'[q] = "init" PROVE SnapCovered(q)'
      BY <1>7, <2>1, <2>2, <2>6 DEF Adjust, CountOp, row, hash, memory, Goto, Stay, Forget, Leave, Tallied, Moved, SnapCovered
    <2> QED BY <2>4, <2>5, <2>6
  <1>8. CASE AdjustRow(p)
    <2>1. ~lossy /\ excess < MaxOps
      BY <1>8 DEF AdjustRow, Delta, hash, async
    <2>2. /\ granted <= Quota + excess
          /\ hashed => HashCovered
          /\ \A q \in Proc : pc[q] = "init" => SnapCovered(q)
      BY <2>1 DEF Covered
    <2>4. granted' <= Quota + excess'
      BY <1>8, <2>1, <2>2 DEF AdjustRow, Delta, hash, async, Goto, Stay, Forget, Leave, Tallied, Moved, HashCovered
    <2>5. hashed' => HashCovered'
      BY <1>8, <2>1, <2>2 DEF AdjustRow, Delta, hash, async, Goto, Stay, Forget, Leave, Tallied, Moved, HashCovered
    <2>6. ASSUME NEW q \in Proc, pc'[q] = "init" PROVE SnapCovered(q)'
      BY <1>8, <2>1, <2>2, <2>6 DEF AdjustRow, Delta, hash, async, Goto, Stay, Forget, Leave, Tallied, Moved, SnapCovered
    <2> QED BY <2>4, <2>5, <2>6
  <1>9. CASE Validate(p)
    <2>1. ~lossy /\ excess < MaxOps
      BY <1>9 DEF Validate, Begins, row, hash, memory, async, ledger
    <2>2. /\ granted <= Quota + excess
          /\ hashed => HashCovered
          /\ \A q \in Proc : pc[q] = "init" => SnapCovered(q)
      BY <2>1 DEF Covered
    <2>4. granted' <= Quota + excess'
      BY <1>9, <2>1, <2>2 DEF Validate, Begins, row, hash, memory, async, ledger, Goto, Stay, Forget, Leave, Tallied, Moved, HashCovered
    <2>5. hashed' => HashCovered'
      BY <1>9, <2>1, <2>2 DEF Validate, Begins, row, hash, memory, async, ledger, Goto, Stay, Forget, Leave, Tallied, Moved, HashCovered
    <2>6. ASSUME NEW q \in Proc, pc'[q] = "init" PROVE SnapCovered(q)'
      BY <1>9, <2>1, <2>2, <2>6 DEF Validate, Begins, row, hash, memory, async, ledger, Goto, Stay, Forget, Leave, Tallied, Moved, SnapCovered
    <2> QED BY <2>4, <2>5, <2>6
  <1>10. CASE ValidateUncached(p)
    <2>1. ~lossy /\ excess < MaxOps
      BY <1>10 DEF ValidateUncached, Begins, row, hash, memory, async, ledger
    <2>2. /\ granted <= Quota + excess
          /\ hashed => HashCovered
          /\ \A q \in Proc : pc[q] = "init" => SnapCovered(q)
      BY <2>1 DEF Covered
    <2>4. granted' <= Quota + excess'
      BY <1>10, <2>1, <2>2 DEF ValidateUncached, Begins, row, hash, memory, async, ledger, Goto, Stay, Forget, Leave, Tallied, Moved, HashCovered
    <2>5. hashed' => HashCovered'
      BY <1>10, <2>1, <2>2 DEF ValidateUncached, Begins, row, hash, memory, async, ledger, Goto, Stay, Forget, Leave, Tallied, Moved, HashCovered
    <2>6. ASSUME NEW q \in Proc, pc'[q] = "init" PROVE SnapCovered(q)'
      BY <1>10, <2>1, <2>2, <2>6 DEF ValidateUncached, Begins, row, hash, memory, async, ledger, Goto, Stay, Forget, Leave, Tallied, Moved, SnapCovered
    <2> QED BY <2>4, <2>5, <2>6
  <1>11. CASE Finish(p)
    <2>1. ~lossy /\ excess < MaxOps
      BY <1>11 DEF Finish, row, hash, memory, async, ledger
    <2>2. /\ granted <= Quota + excess
          /\ hashed => HashCovered
          /\ \A q \in Proc : pc[q] = "init" => SnapCovered(q)
      BY <2>1 DEF Covered
    <2>4. granted' <= Quota + excess'
      BY <1>11, <2>1, <2>2 DEF Finish, row, hash, memory, async, ledger, Goto, Stay, Forget, Leave, Tallied, Moved, HashCovered
    <2>5. hashed' => HashCovered'
      BY <1>11, <2>1, <2>2 DEF Finish, row, hash, memory, async, ledger, Goto, Stay, Forget, Leave, Tallied, Moved, HashCovered
    <2>6. ASSUME NEW q \in Proc, pc'[q] = "init" PROVE SnapCovered(q)'
      BY <1>11, <2>1, <2>2, <2>6 DEF Finish, row, hash, memory, async, ledger, Goto, Stay, Forget, Leave, Tallied, Moved, SnapCovered
    <2> QED BY <2>4, <2>5, <2>6
  <1>12. CASE MutateRead(p)
    <2>1. ~lossy /\ excess < MaxOps
      BY <1>12 DEF MutateRead, Begins, row, hash, memory, async, ledger
    <2>2. /\ granted <= Quota + excess
          /\ hashed => HashCovered
          /\ \A q \in Proc : pc[q] = "init" => SnapCovered(q)
      BY <2>1 DEF Covered
    <2>4. granted' <= Quota + excess'
      BY <1>12, <2>1, <2>2 DEF MutateRead, Begins, row, hash, memory, async, ledger, Goto, Stay, Forget, Leave, Tallied, Moved, HashCovered
    <2>5. hashed' => HashCovered'
      BY <1>12, <2>1, <2>2 DEF MutateRead, Begins, row, hash, memory, async, ledger, Goto, Stay, Forget, Leave, Tallied, Moved, HashCovered
    <2>6. ASSUME NEW q \in Proc, pc'[q] = "init" PROVE SnapCovered(q)'
      BY <1>12, <2>1, <2>2, <2>6 DEF MutateRead, Begins, row, hash, memory, async, ledger, Goto, Stay, Forget, Leave, Tallied, Moved, SnapCovered
    <2> QED BY <2>4, <2>5, <2>6
  <1>13. CASE Fence(p)
    <2>1. ~lossy /\ excess < MaxOps
      BY <1>13 DEF Fence, AfterFailure, row, hash, memory, async, ledger, locals
    <2>2. /\ granted <= Quota + excess
          /\ hashed => HashCovered
          /\ \A q \in Proc : pc[q] = "init" => SnapCovered(q)
      BY <2>1 DEF Covered
    <2>4. granted' <= Quota + excess'
      BY <1>13, <2>1, <2>2 DEF Fence, AfterFailure, row, hash, memory, async, ledger, locals, Goto, Stay, Forget, Leave, Tallied, Moved, HashCovered
    <2>5. hashed' => HashCovered'
      BY <1>13, <2>1, <2>2 DEF Fence, AfterFailure, row, hash, memory, async, ledger, locals, Goto, Stay, Forget, Leave, Tallied, Moved, HashCovered
    <2>6. ASSUME NEW q \in Proc, pc'[q] = "init" PROVE SnapCovered(q)'
      BY <1>13, <2>1, <2>2, <2>6 DEF Fence, AfterFailure, row, hash, memory, async, ledger, locals, Goto, Stay, Forget, Leave, Tallied, Moved, SnapCovered
    <2> QED BY <2>4, <2>5, <2>6
  <1>14. CASE Drop(p)
    <2>1. ~lossy /\ excess < MaxOps
      BY <1>14 DEF Drop, NoHash, AfterFailure, AfterInvalidation, row, hash, memory, async, ledger, locals
    <2>2. /\ granted <= Quota + excess
          /\ hashed => HashCovered
          /\ \A q \in Proc : pc[q] = "init" => SnapCovered(q)
      BY <2>1 DEF Covered
    <2>4. granted' <= Quota + excess'
      BY <1>14, <2>1, <2>2 DEF Drop, NoHash, AfterFailure, AfterInvalidation, row, hash, memory, async, ledger, locals, Goto, Stay, Forget, Leave, Tallied, Moved, HashCovered
    <2>5. hashed' => HashCovered'
      BY <1>14, <2>1, <2>2 DEF Drop, NoHash, AfterFailure, AfterInvalidation, row, hash, memory, async, ledger, locals, Goto, Stay, Forget, Leave, Tallied, Moved, HashCovered
    <2>6. ASSUME NEW q \in Proc, pc'[q] = "init" PROVE SnapCovered(q)'
      BY <1>14, <2>1, <2>2, <2>6 DEF Drop, NoHash, AfterFailure, AfterInvalidation, row, hash, memory, async, ledger, locals, Goto, Stay, Forget, Leave, Tallied, Moved, SnapCovered
    <2> QED BY <2>4, <2>5, <2>6
  <1>15. CASE WriteRow(p)
    <2>1. ~lossy /\ excess < MaxOps
      <3>1. lossy' = (lossy \/ remain' # remain) => ~lossy
        BY ONLY ~lossy', Zenon
      <3>2. ~lossy
        BY <1>15, <3>1 DEF WriteRow
      <3> QED BY <1>15, <3>2 DEF WriteRow
    <2>2. /\ granted <= Quota + excess
          /\ hashed => HashCovered
          /\ \A q \in Proc : pc[q] = "init" => SnapCovered(q)
      BY <2>1 DEF Covered
    <2>4. granted' <= Quota + excess'
      BY <1>15, <2>1, <2>2 DEF WriteRow, row, hash, memory, async, Goto, Stay, Forget, Leave, Tallied, Moved, HashCovered
    <2>5. hashed' => HashCovered'
      BY <1>15, <2>1, <2>2 DEF WriteRow, row, hash, memory, async, Goto, Stay, Forget, Leave, Tallied, Moved, HashCovered
    <2>6. ASSUME NEW q \in Proc, pc'[q] = "init" PROVE SnapCovered(q)'
      BY <1>15, <2>1, <2>2, <2>6 DEF WriteRow, row, hash, memory, async, Goto, Stay, Forget, Leave, Tallied, Moved, SnapCovered
    <2> QED BY <2>4, <2>5, <2>6
  <1> QED
    BY <1>1, <1>2, <1>3, <1>4, <1>5, <1>6, <1>7, <1>8,
       <1>9, <1>10, <1>11, <1>12, <1>13, <1>14, <1>15
    DEF Step

\* So does every other step.
LEMMA CoveredStep ==
  ASSUME TypeOK, Counted, Books, Covered, [Next]_vars
  PROVE  Covered'
  <1> USE QuotaAssumption, TypeParts, TallyType, NoneMoves
      DEF row, hash, memory, async, ledger, locals, StoreOK, LocalsOK, LedgerOK
  <1>1. CASE ApplyDelta
    BY <1>1 DEF ApplyDelta, Covered, HashCovered, SnapCovered
  <1>2. CASE DropDelta
    BY <1>2 DEF DropDelta, Covered, HashCovered, SnapCovered
  <1>3. CASE Swap
    BY <1>3 DEF Swap, Covered, HashCovered, SnapCovered
  <1>4. CASE Flush
    BY <1>4 DEF Flush, Covered, HashCovered, SnapCovered
  <1>5. CASE HashExpires
    BY <1>5 DEF HashExpires, NoHash, Covered, HashCovered, SnapCovered
  <1>6. CASE FenceExpires
    BY <1>6 DEF FenceExpires, Covered, HashCovered, SnapCovered
  <1>7. CASE Crash
    BY <1>7 DEF Crash, Covered, HashCovered, SnapCovered
  <1>8. CASE UNCHANGED vars
    BY <1>8 DEF vars, Covered, HashCovered, SnapCovered
  <1> QED
    BY <1>1, <1>2, <1>3, <1>4, <1>5, <1>6, <1>7, <1>8, RequestCovered DEF Next

-----------------------------------------------------------------------------
(* Fences.                                                                 *)

\* Every step of a request keeps older snapshots behind the fence.
LEMMA RequestFenced ==
  ASSUME TypeOK, Fenced, NEW p \in Proc, Step(p)
  PROVE  Fenced'
  <1> USE TypeParts DEF Fenced
  <1>1. CASE TryReserve(p)
    <2> USE <1>1 DEF TryReserve, CountOp, Grant, row, memory, async, hash, locals, Goto, Stay, Forget, Leave
    <2>1. FenceUp'
      BY DEF FenceUp, LocalsOK
    <2>2. NoHashYet'
      BY DEF NoHashYet, LocalsOK
    <2>3. SnapNew'
      BY DEF SnapNew, LocalsOK, StoreOK
    <2>4. HashNew'
      BY DEF HashNew, LocalsOK, StoreOK
    <2>5. ReadNew'
      BY DEF ReadNew, LocalsOK, StoreOK
    <2> QED BY <2>1, <2>2, <2>3, <2>4, <2>5
  <1>2. CASE LoadRow(p)
    <2> USE <1>2 DEF LoadRow, row, hash, memory, async, ledger, locals, Goto, Stay, Forget, Leave
    <2>1. FenceUp'
      BY DEF FenceUp, LocalsOK
    <2>2. NoHashYet'
      BY DEF NoHashYet, LocalsOK
    <2>3. SnapNew'
      BY DEF SnapNew, LocalsOK, StoreOK
    <2>4. HashNew'
      BY DEF HashNew, LocalsOK, StoreOK
    <2>5. ReadNew'
      BY DEF ReadNew, LocalsOK, StoreOK
    <2> QED BY <2>1, <2>2, <2>3, <2>4, <2>5
  <1>3. CASE InitToken(p)
    <2> USE <1>3 DEF InitToken, Exceed, row, hash, memory, async, locals, Loaded, Goto, Stay, Forget, Leave
    <2>1. FenceUp'
      BY DEF FenceUp, LocalsOK
    <2>2. NoHashYet'
      BY DEF NoHashYet, LocalsOK
    <2>3. SnapNew'
      BY DEF SnapNew, LocalsOK, StoreOK
    <2>4. HashNew'
      BY DEF HashNew, LocalsOK, StoreOK, SnapNew
    <2>5. ReadNew'
      BY DEF ReadNew, LocalsOK, StoreOK
    <2> QED BY <2>1, <2>2, <2>3, <2>4, <2>5
  <1>4. CASE ReserveDB(p)
    <2> USE <1>4 DEF ReserveDB, Grant, Exceed, hash, memory, async, Goto, Stay, Forget, Leave
    <2>1. FenceUp'
      BY DEF FenceUp, LocalsOK
    <2>2. NoHashYet'
      BY DEF NoHashYet, LocalsOK
    <2>3. SnapNew'
      BY DEF SnapNew, LocalsOK, StoreOK
    <2>4. HashNew'
      BY DEF HashNew, LocalsOK, StoreOK
    <2>5. ReadNew'
      BY DEF ReadNew, LocalsOK, StoreOK
    <2> QED BY <2>1, <2>2, <2>3, <2>4, <2>5
  <1>5. CASE Persist(p)
    <2> USE <1>5 DEF Persist, hash, async, locals, Goto, Stay, Forget, Leave
    <2>1. FenceUp'
      BY DEF FenceUp, LocalsOK
    <2>2. NoHashYet'
      BY DEF NoHashYet, LocalsOK
    <2>3. SnapNew'
      BY DEF SnapNew, LocalsOK, StoreOK
    <2>4. HashNew'
      BY DEF HashNew, LocalsOK, StoreOK
    <2>5. ReadNew'
      BY DEF ReadNew, LocalsOK, StoreOK
    <2> QED BY <2>1, <2>2, <2>3, <2>4, <2>5
  <1>6. CASE Compensate(p)
    <2> USE <1>6 DEF Compensate, row, memory, async, ledger, Goto, Stay, Forget, Leave
    <2>1. FenceUp'
      BY DEF FenceUp, LocalsOK
    <2>2. NoHashYet'
      BY DEF NoHashYet, LocalsOK
    <2>3. SnapNew'
      BY DEF SnapNew, LocalsOK, StoreOK
    <2>4. HashNew'
      BY DEF HashNew, LocalsOK, StoreOK
    <2>5. ReadNew'
      BY DEF ReadNew, LocalsOK, StoreOK
    <2> QED BY <2>1, <2>2, <2>3, <2>4, <2>5
  <1>7. CASE Adjust(p)
    <2> USE <1>7 DEF Adjust, CountOp, row, hash, memory, Goto, Stay, Forget, Leave
    <2>1. FenceUp'
      BY DEF FenceUp, LocalsOK
    <2>2. NoHashYet'
      BY DEF NoHashYet, LocalsOK
    <2>3. SnapNew'
      BY DEF SnapNew, LocalsOK, StoreOK
    <2>4. HashNew'
      BY DEF HashNew, LocalsOK, StoreOK
    <2>5. ReadNew'
      BY DEF ReadNew, LocalsOK, StoreOK
    <2> QED BY <2>1, <2>2, <2>3, <2>4, <2>5
  <1>8. CASE AdjustRow(p)
    <2> USE <1>8 DEF AdjustRow, Delta, hash, async, Goto, Stay, Forget, Leave
    <2>1. FenceUp'
      BY DEF FenceUp, LocalsOK
    <2>2. NoHashYet'
      BY DEF NoHashYet, LocalsOK
    <2>3. SnapNew'
      BY DEF SnapNew, LocalsOK, StoreOK
    <2>4. HashNew'
      BY DEF HashNew, LocalsOK, StoreOK
    <2>5. ReadNew'
      BY DEF ReadNew, LocalsOK, StoreOK
    <2> QED BY <2>1, <2>2, <2>3, <2>4, <2>5
  <1>9. CASE Validate(p)
    <2> USE <1>9 DEF Validate, Begins, row, hash, memory, async, ledger, Goto, Stay, Forget, Leave
    <2>1. FenceUp'
      BY DEF FenceUp, LocalsOK
    <2>2. NoHashYet'
      BY DEF NoHashYet, LocalsOK
    <2>3. SnapNew'
      BY DEF SnapNew, LocalsOK, StoreOK
    <2>4. HashNew'
      BY DEF HashNew, LocalsOK, StoreOK
    <2>5. ReadNew'
      BY DEF ReadNew, LocalsOK, StoreOK, HashNew
    <2> QED BY <2>1, <2>2, <2>3, <2>4, <2>5
  <1>10. CASE ValidateUncached(p)
    <2> USE <1>10 DEF ValidateUncached, Begins, row, hash, memory, async, ledger, Goto, Stay, Forget, Leave
    <2>1. FenceUp'
      BY DEF FenceUp, LocalsOK
    <2>2. NoHashYet'
      BY DEF NoHashYet, LocalsOK
    <2>3. SnapNew'
      BY DEF SnapNew, LocalsOK, StoreOK
    <2>4. HashNew'
      BY DEF HashNew, LocalsOK, StoreOK
    <2>5. ReadNew'
      BY DEF ReadNew, LocalsOK, StoreOK
    <2> QED BY <2>1, <2>2, <2>3, <2>4, <2>5
  <1>11. CASE Finish(p)
    <2> USE <1>11 DEF Finish, row, hash, memory, async, ledger, Goto, Stay, Forget, Leave
    <2>1. FenceUp'
      BY DEF FenceUp, LocalsOK
    <2>2. NoHashYet'
      BY DEF NoHashYet, LocalsOK
    <2>3. SnapNew'
      BY DEF SnapNew, LocalsOK, StoreOK
    <2>4. HashNew'
      BY DEF HashNew, LocalsOK, StoreOK
    <2>5. ReadNew'
      BY DEF ReadNew, LocalsOK, StoreOK
    <2> QED BY <2>1, <2>2, <2>3, <2>4, <2>5
  <1>12. CASE MutateRead(p)
    <2> USE <1>12 DEF MutateRead, Begins, row, hash, memory, async, ledger, Goto, Stay, Forget, Leave
    <2>1. FenceUp'
      BY DEF FenceUp, LocalsOK
    <2>2. NoHashYet'
      BY DEF NoHashYet, LocalsOK
    <2>3. SnapNew'
      BY DEF SnapNew, LocalsOK, StoreOK
    <2>4. HashNew'
      BY DEF HashNew, LocalsOK, StoreOK
    <2>5. ReadNew'
      BY DEF ReadNew, LocalsOK, StoreOK
    <2> QED BY <2>1, <2>2, <2>3, <2>4, <2>5
  <1>13. CASE Fence(p)
    <2> USE <1>13 DEF Fence, AfterFailure, row, hash, memory, async, ledger, locals, Goto, Stay, Forget, Leave
    <2>1. FenceUp'
      BY DEF FenceUp, LocalsOK
    <2>2. NoHashYet'
      BY DEF NoHashYet, LocalsOK
    <2>3. SnapNew'
      BY DEF SnapNew, LocalsOK, StoreOK
    <2>4. HashNew'
      BY DEF HashNew, LocalsOK, StoreOK
    <2>5. ReadNew'
      BY DEF ReadNew, LocalsOK, StoreOK
    <2> QED BY <2>1, <2>2, <2>3, <2>4, <2>5
  <1>14. CASE Drop(p)
    <2> USE <1>14 DEF Drop, NoHash, AfterFailure, AfterInvalidation, row, hash, memory, async, ledger, locals, Goto, Stay, Forget, Leave
    <2>1. FenceUp'
      BY DEF FenceUp, LocalsOK
    <2>2. NoHashYet'
      BY DEF NoHashYet, LocalsOK, FenceUp
    <2>3. SnapNew'
      BY DEF SnapNew, LocalsOK, StoreOK
    <2>4. HashNew'
      BY DEF HashNew, LocalsOK, StoreOK
    <2>5. ReadNew'
      BY DEF ReadNew, LocalsOK, StoreOK
    <2> QED BY <2>1, <2>2, <2>3, <2>4, <2>5
  <1>15. CASE WriteRow(p)
    <2> USE <1>15 DEF WriteRow, row, hash, memory, async, Goto, Stay, Forget, Leave
    <2>1. FenceUp'
      BY DEF FenceUp, LocalsOK
    <2>2. NoHashYet'
      BY DEF NoHashYet, LocalsOK
    <2>3. SnapNew'
      BY DEF SnapNew, LocalsOK, StoreOK, NoHashYet
    <2>4. HashNew'
      BY DEF HashNew, LocalsOK, StoreOK, NoHashYet
    <2>5. ReadNew'
      BY DEF ReadNew, LocalsOK, StoreOK
    <2> QED BY <2>1, <2>2, <2>3, <2>4, <2>5
  <1> QED
    BY <1>1, <1>2, <1>3, <1>4, <1>5, <1>6, <1>7, <1>8,
       <1>9, <1>10, <1>11, <1>12, <1>13, <1>14, <1>15
    DEF Step

\* So does every other step, if the fence outlives those who count on it.
LEMMA FencedStep ==
  ASSUME PromptFence, TypeOK, Fenced, [Next]_vars
  PROVE  Fenced'
  <1> USE TypeParts
      DEF row, hash, memory, async, ledger, locals, StoreOK, LocalsOK, Fenced, FenceUp, NoHashYet, SnapNew,
          HashNew, ReadNew
  <1>1. CASE ApplyDelta
    BY <1>1 DEF ApplyDelta
  <1>2. CASE DropDelta
    BY <1>2 DEF DropDelta
  <1>3. CASE Swap
    BY <1>3 DEF Swap
  <1>4. CASE Flush
    BY <1>4 DEF Flush
  <1>5. CASE HashExpires
    BY <1>5 DEF HashExpires, NoHash
  <1>6. CASE FenceExpires
    BY <1>6 DEF FenceExpires
  <1>7. CASE Crash
    BY <1>7 DEF Crash
  <1>8. CASE UNCHANGED vars
    BY <1>8 DEF vars
  <1> QED
    BY <1>1, <1>2, <1>3, <1>4, <1>5, <1>6, <1>7, <1>8, RequestFenced DEF Next

-----------------------------------------------------------------------------
(* Theorems.                                                               *)

QuotaInv == TypeOK /\ Counted /\ Books /\ Covered

LEMMA QuotaInit == Init => QuotaInv
  <1> SUFFICES ASSUME Init PROVE QuotaInv
    OBVIOUS
  <1>1. /\ Persisting = 0 /\ Returning = 0 /\ Mutating = 0
        /\ Raising = 0 /\ Lowering = 0 /\ Reserving = 0
    BY NoneBusy DEF Init
  <1>2. Counted
    BY <1>1, QuotaAssumption
    DEF Init, Counted, Versioned, Charged, Earned, Bounded, Adjusting
  <1>3. Books
    BY <1>1, QuotaAssumption DEF Init, Books
  <1>4. Covered
    BY QuotaAssumption DEF Init, Covered
  <1> QED BY <1>2, <1>3, <1>4, TypeInit DEF QuotaInv

\* Types, counts, books and cover are kept together.
THEOREM QuotaInvariant == Spec => []QuotaInv
  <1>1. QuotaInv /\ [Next]_vars => QuotaInv'
    BY TypeStep, CountedStep, BooksStep, CoveredStep DEF QuotaInv
  <1> QED BY QuotaInit, <1>1, PTL DEF Spec

\* TypeOK: row, hash, memory and requests hold what they may; the hash never
\* shows a version that has not been written, and nothing is queued when no
\* batch updater runs.
THEOREM TokenTypeCorrect == Spec => []TypeOK
  <1>1. QuotaInv => TypeOK
    BY DEF QuotaInv
  <1> QED BY <1>1, QuotaInvariant, PTL

\* Balanced: every unit granted, given back or charged extra is in the row or on
\* its way there, exactly once, whatever becomes of the cache.
THEOREM TokenBalanced == Spec => []Balanced
  <1>1. QuotaInv => Balanced
    BY DEF QuotaInv, Books, Balanced, Persisting, Raising, Lowering
  <1> QED BY <1>1, QuotaInvariant, PTL

\* NoOverspend: requests are granted no more than the quota and the units that a
\* stale fill of the cache, or a reservation in the row beside it, may have
\* granted twice.
THEOREM TokenNoOverspend == Spec => []NoOverspend
  <1>1. QuotaInv => NoOverspend
    <2> SUFFICES ASSUME QuotaInv, ~lossy PROVE granted <= Quota + excess
      BY DEF NoOverspend
    <2>1. CASE excess < MaxOps
      BY <2>1 DEF QuotaInv, Covered
    <2>2. CASE excess = MaxOps
      <3>1. granted <= ops /\ ops <= MaxOps
        BY TypeParts, TallyType DEF QuotaInv, Counted, Earned, LedgerOK
      <3> QED BY <2>2, <3>1, TypeParts, QuotaAssumption DEF QuotaInv, LedgerOK
    <2>3. excess \in Nat /\ excess <= MaxOps
      BY TypeParts DEF QuotaInv, Counted, Bounded, LedgerOK
    <2> QED BY <2>1, <2>2, <2>3, QuotaAssumption
  <1> QED BY <1>1, QuotaInvariant, PTL

\* NoStaleToken: while the fence outlives the writes and the readers it is meant
\* to outlive, no request is accepted with the token as it was before a mutation
\* whose invalidation had succeeded when the request began.
THEOREM TokenNoStale ==
  ASSUME PromptFence
  PROVE  Spec => []NoStaleToken
  <1>1. Init => Fenced
    BY DEF Init, Fenced, FenceUp, NoHashYet, SnapNew, HashNew, ReadNew
  <1>2. QuotaInv /\ Fenced /\ [Next]_vars => Fenced'
    BY FencedStep DEF QuotaInv
  <1>3. Fenced => NoStaleToken
    BY DEF Fenced, ReadNew, NoStaleToken
  <1> QED BY <1>1, <1>2, <1>3, QuotaInvariant, PTL DEF Spec

=============================================================================
