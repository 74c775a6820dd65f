--------------------------- MODULE PondBorrowProofs ---------------------------
(***************************************************************************)
(* Type correctness of PondMaintenance and the safety of its borrow gate,  *)
(* for every set of pools, descriptors and tasks.  The gate itself and     *)
(* what is left of the counters under the race the ledger accepts hold     *)
(* whatever FreeRace is; that the counters are exact, that a borrow stays  *)
(* valid and that the protocol implements StableAccess need the caller's   *)
(* duty FreeRace = FALSE.                                                  *)
(***************************************************************************)
EXTENDS PondMaintenance, PondFolds, FiniteSetTheorems, TLAPS

-----------------------------------------------------------------------------
(* Type correctness *)

LEMMA AnyPoolType == AnyPool \in Pools
  BY PoolsAssumption DEF AnyPool

LEMMA IdleType == Idle \in OpRecord
  BY AnyPoolType DEF Idle, OpRecord

LEMMA EmptyPoolType == EmptyPool \in PoolRecord
  BY DEF EmptyPool, PoolRecord, PoolStates

LEMMA NextGenerationType == \A g \in 0 .. GenMax : NextGeneration(g) \in 1 .. GenMax
  BY GenAssumption DEF NextGeneration

LEMMA FreeDescType == \A g \in 0 .. GenMax : FreeDesc(g) \in ObjectDesc
  BY AnyPoolType DEF FreeDesc, ObjectDesc

LEMMA ObjectSetsCountable ==
  ASSUME NEW S \in SUBSET Objects
  PROVE  Cardinality(S) \in Nat
  BY ObjectsAssumption, FS_Subset, FS_CardinalityType

LEMMA NatProduct == \A a, b \in Nat : a * b \in Nat
  OBVIOUS

LEMMA UnitsAreNat == Units \subseteq Nat
  BY SegAssumption DEF Units

LEMMA InitType == Init => TypeOK
<1> SUFFICES ASSUME Init PROVE TypeOK
  OBVIOUS
<1>1. held \in [Tasks -> SUBSET Token]
  BY DEF Init
<1>2. 0 \in 0 .. GenMax
  BY GenAssumption
<1>3. QED BY <1>1, <1>2, IdleType, EmptyPoolType, FreeDescType DEF Init, TypeOK

(* Every variable keeps its type, whatever tasks and owner do. *)
THEOREM TypeInvariant == Spec => []TypeOK
<1>1. Init => TypeOK
  BY InitType
<1>2. TypeOK /\ [Next]_vars => TypeOK'
  <2> SUFFICES ASSUME TypeOK, [Next]_vars PROVE TypeOK'
    OBVIOUS
  <2>T. /\ pool \in [Pools -> PoolRecord]
        /\ obj \in [Objects -> ObjectDesc]
        /\ held \in [Tasks -> SUBSET Token]
        /\ op \in OpRecord
    BY DEF TypeOK
  <2>F. /\ \A p \in Pools : /\ pool[p].first \in Nat /\ pool[p].count \in Nat
                           /\ pool[p].borrows \in Nat /\ pool[p].live \in Int
        /\ \A o \in Objects : obj[o].pool \in Pools /\ obj[o].borrows \in Nat
        /\ op.src \in Pools /\ op.tgt \in Pools /\ op.keep \in Nat /\ op.fresh \in Nat
    BY <2>T DEF PoolRecord, ObjectDesc, OpRecord
  <2>1. ASSUME NEW t \in Tasks, NEW r \in RawRef, BorrowBegin(t, r)
         PROVE  TypeOK'
    <3>1. r.obj \in Objects /\ obj[r.obj].pool \in Pools
      BY <2>T DEF RawRef, ObjectDesc
    <3>2. [obj |-> r.obj, gen |-> r.gen, hint |-> r.hint, addr |-> obj[r.obj].start] \in Token
      BY <2>T, <3>1 DEF RawRef, ObjectDesc, Token
    <3>3. pool' \in [Pools -> PoolRecord]
      BY <2>T, <2>1, <3>1 DEF BorrowBegin, PoolRecord, PoolStates, MaintenanceStates
    <3>4. obj' \in [Objects -> ObjectDesc]
      BY <2>T, <2>1, <3>1 DEF BorrowBegin, ObjectDesc
    <3>5. held' \in [Tasks -> SUBSET Token]
      BY <2>T, <2>1, <3>2 DEF BorrowBegin, Token
    <3>6. op' \in OpRecord
      BY <2>T, <2>1 DEF BorrowBegin
    <3>7. QED BY <3>3, <3>4, <3>5, <3>6 DEF TypeOK
  <2>2. ASSUME NEW t \in Tasks, BorrowEnd(t)
         PROVE  TypeOK'
    <3>1. PICK k \in held[t] : BorrowEnd(t)!(k)
      BY <2>2 DEF BorrowEnd
    <3>2. k.obj \in Objects /\ obj[k.obj].pool \in Pools
      BY <2>T DEF Token, ObjectDesc
    <3>3. held' \in [Tasks -> SUBSET Token] /\ op' \in OpRecord
      BY <2>T, <3>1
    <3>4. pool' \in [Pools -> PoolRecord]
      <4>1. CASE TokenMatches(k)
        <5>1. pool[obj[k.obj].pool].borrows - 1 \in Nat
          BY <2>F, <3>2, <4>1 DEF TokenMatches
        <5>2. pool' = [pool EXCEPT ![obj[k.obj].pool].borrows = @ - 1]
          BY <3>1, <4>1
        <5>3. QED BY <2>T, <3>2, <5>1, <5>2 DEF PoolRecord
      <4>2. QED BY <2>T, <3>1, <4>1
    <3>5. obj' \in [Objects -> ObjectDesc]
      <4>1. CASE TokenMatches(k)
        <5>1. obj[k.obj].borrows - 1 \in Nat
          BY <2>F, <3>2, <4>1 DEF TokenMatches
        <5>2. obj' = [obj EXCEPT ![k.obj].borrows = @ - 1]
          BY <3>1, <4>1
        <5>3. QED BY <2>T, <3>2, <5>1, <5>2 DEF ObjectDesc
      <4>2. QED BY <2>T, <3>1, <4>1
    <3>6. QED BY <3>3, <3>4, <3>5 DEF TypeOK
  <2>3. ASSUME NEW p \in Pools, Pause(p) \/ Resume(p)
         PROVE  TypeOK'
    <3>1. pool' \in [Pools -> PoolRecord]
      BY <2>T, <2>3 DEF Pause, Resume, PoolRecord, PoolStates, MaintenanceStates
    <3>2. obj' \in [Objects -> ObjectDesc]
      BY <2>T, <2>3 DEF Pause, Resume
    <3>3. held' \in [Tasks -> SUBSET Token]
      BY <2>T, <2>3 DEF Pause, Resume
    <3>4. op' \in OpRecord
      BY <2>T, <2>3 DEF Pause, Resume
    <3>5. QED BY <3>1, <3>2, <3>3, <3>4 DEF TypeOK
  <2>4. ASSUME NEW n \in 1 .. Segments, CreatePool(n)
         PROVE  TypeOK'
    <3>1. PICK new \in Pools, base \in 0 .. Segments - n :
            pool' = [pool EXCEPT ![new] =
                       [EmptyPool EXCEPT !.state = "Running", !.first = base, !.count = n]]
      BY <2>4 DEF CreatePool
    <3>2. base \in Nat /\ n \in Nat
      BY SegAssumption
    <3>3. [EmptyPool EXCEPT !.state = "Running", !.first = base, !.count = n] \in PoolRecord
      <4>1. [EmptyPool EXCEPT !.state = "Running"] \in PoolRecord
        BY EmptyPoolType DEF PoolRecord, PoolStates
      <4>2. [EmptyPool EXCEPT !.state = "Running", !.first = base] \in PoolRecord
        BY <3>2, <4>1 DEF PoolRecord
      <4>3. QED BY <3>2, <4>2 DEF PoolRecord
    <3>4. pool' \in [Pools -> PoolRecord]
      BY <2>T, <2>4, <3>1, <3>3 DEF CreatePool, PoolRecord, PoolStates, MaintenanceStates
    <3>5. obj' \in [Objects -> ObjectDesc]
      BY <2>T, <2>4 DEF CreatePool
    <3>6. held' \in [Tasks -> SUBSET Token]
      BY <2>T, <2>4 DEF CreatePool
    <3>7. op' \in OpRecord
      BY <2>T, <2>4 DEF CreatePool
    <3>8. QED BY <3>4, <3>5, <3>6, <3>7 DEF TypeOK
  <2>5. ASSUME NEW p \in Pools, DestroyPool(p)
         PROVE  TypeOK'
    <3>1. pool' \in [Pools -> PoolRecord]
      BY <2>T, <2>5, EmptyPoolType DEF DestroyPool, PoolRecord, PoolStates, MaintenanceStates
    <3>2. obj' \in [Objects -> ObjectDesc]
      BY <2>T, <2>5 DEF DestroyPool
    <3>3. held' \in [Tasks -> SUBSET Token]
      BY <2>T, <2>5 DEF DestroyPool
    <3>4. op' \in OpRecord
      BY <2>T, <2>5 DEF DestroyPool
    <3>5. QED BY <3>1, <3>2, <3>3, <3>4 DEF TypeOK
  <2>6. ASSUME NEW p \in Pools, NEW o \in Objects, NEW size \in Sizes, NEW pinned \in BOOLEAN,
               Alloc(p, o, size, pinned)
         PROVE  TypeOK'
    <3>1. PICK s \in WindowLo(pool[p]) .. WindowHi(pool[p]) - size :
            obj' = [obj EXCEPT ![o] =
                      [state |-> "Live", gen |-> NextGeneration(@.gen), pool |-> p, start |-> s,
                       size |-> size, pinned |-> pinned, borrows |-> 0]]
      BY <2>6 DEF Alloc
    <3>2. WindowLo(pool[p]) \in Nat /\ WindowHi(pool[p]) \in Nat
      <4>1. pool[p].first \in Nat /\ pool[p].first + pool[p].count \in Nat /\ SegUnits \in Nat
        BY <2>F, SegAssumption
      <4>2. QED BY <4>1, NatProduct DEF WindowLo, WindowHi
    <3>3. s \in Nat /\ size \in Nat
      BY <3>2, SizesAssumption
    <3>4. obj[o].gen \in 0 .. GenMax
      BY <2>T DEF ObjectDesc
    <3>5. NextGeneration(obj[o].gen) \in 0 .. GenMax
      BY <3>4, NextGenerationType
    <3>6. pool' \in [Pools -> PoolRecord]
      BY <2>T, <2>6 DEF Alloc, PoolRecord, PoolStates, MaintenanceStates
    <3>7. obj' \in [Objects -> ObjectDesc]
      BY <2>T, <2>6, <3>1, <3>3, <3>5 DEF Alloc, ObjectDesc
    <3>8. held' \in [Tasks -> SUBSET Token]
      BY <2>T, <2>6 DEF Alloc
    <3>9. op' \in OpRecord
      BY <2>T, <2>6 DEF Alloc
    <3>10. QED BY <3>6, <3>7, <3>8, <3>9 DEF TypeOK
  <2>7. ASSUME NEW o \in Objects, FreeCheck(o)
         PROVE  TypeOK'
    <3>1. pool' \in [Pools -> PoolRecord]
      BY <2>T, <2>7 DEF FreeCheck
    <3>2. obj' \in [Objects -> ObjectDesc]
      BY <2>T, <2>7 DEF FreeCheck
    <3>3. held' \in [Tasks -> SUBSET Token]
      BY <2>T, <2>7 DEF FreeCheck
    <3>4. op' \in OpRecord
      BY <2>T, <2>7 DEF FreeCheck, OpRecord, CompactSteps, MergeSteps, SplitSteps, FreeSteps
    <3>5. QED BY <3>1, <3>2, <3>3, <3>4 DEF TypeOK
  <2>8. ASSUME NEW o \in Objects, FreeDestroying(o)
         PROVE  TypeOK'
    <3>1. pool' \in [Pools -> PoolRecord]
      BY <2>T, <2>8 DEF FreeDestroying
    <3>2. obj' \in [Objects -> ObjectDesc]
      BY <2>T, <2>8 DEF FreeDestroying, ObjectDesc
    <3>3. held' \in [Tasks -> SUBSET Token]
      BY <2>T, <2>8 DEF FreeDestroying
    <3>4. op' \in OpRecord
      BY <2>T, <2>8 DEF FreeDestroying, OpRecord, CompactSteps, MergeSteps, SplitSteps, FreeSteps
    <3>5. QED BY <3>1, <3>2, <3>3, <3>4 DEF TypeOK
  <2>9. ASSUME NEW o \in Objects, FreeCommit(o)
         PROVE  TypeOK'
    <3>1. obj[o].gen \in 0 .. GenMax
      BY <2>T DEF ObjectDesc
    <3>2. FreeDesc(NextGeneration(obj[o].gen)) \in ObjectDesc
      BY <3>1, NextGenerationType, FreeDescType
    <3>3. pool' \in [Pools -> PoolRecord]
      BY <2>T, <2>F, <2>9 DEF FreeCommit, PoolRecord, PoolStates, MaintenanceStates
    <3>4. obj' \in [Objects -> ObjectDesc]
      BY <2>T, <2>9, <3>2 DEF FreeCommit, ObjectDesc
    <3>5. held' \in [Tasks -> SUBSET Token]
      BY <2>T, <2>9 DEF FreeCommit
    <3>6. op' \in OpRecord
      BY <2>T, <2>9, IdleType DEF FreeCommit, OpRecord, CompactSteps, MergeSteps, SplitSteps, FreeSteps
    <3>7. QED BY <3>3, <3>4, <3>5, <3>6 DEF TypeOK
  <2>10. ASSUME NEW p \in Pools, CompactRefused(p)
         PROVE  TypeOK'
    <3>1. pool' \in [Pools -> PoolRecord]
      BY <2>T, <2>10 DEF CompactRefused, PoolRecord, PoolStates, MaintenanceStates
    <3>2. obj' \in [Objects -> ObjectDesc]
      BY <2>T, <2>10 DEF CompactRefused
    <3>3. held' \in [Tasks -> SUBSET Token]
      BY <2>T, <2>10 DEF CompactRefused
    <3>4. op' \in OpRecord
      BY <2>T, <2>10 DEF CompactRefused
    <3>5. QED BY <3>1, <3>2, <3>3, <3>4 DEF TypeOK
  <2>11. ASSUME NEW p \in Pools, CompactArm(p)
         PROVE  TypeOK'
    <3>1. pool' \in [Pools -> PoolRecord]
      BY <2>T, <2>11 DEF CompactArm, PoolRecord, PoolStates, MaintenanceStates
    <3>2. obj' \in [Objects -> ObjectDesc]
      BY <2>T, <2>11 DEF CompactArm
    <3>3. held' \in [Tasks -> SUBSET Token]
      BY <2>T, <2>11 DEF CompactArm
    <3>4. op' \in OpRecord
      BY <2>T, <2>11, IdleType DEF CompactArm, OpRecord, CompactSteps, MergeSteps, SplitSteps, FreeSteps
    <3>5. QED BY <3>1, <3>2, <3>3, <3>4 DEF TypeOK
  <2>12. CASE CompactPlan
    <3>1. PICK f \in [Residents(op.src) -> Units],
               cut \in {obj[o].start : o \in Residents(op.src)} \cup {WindowHi(pool[op.src])} :
            op' = [op EXCEPT !.pc = "compact-move", !.to = OnObjects(f),
                     !.todo = {o \in Residents(op.src) : obj[o].start < cut /\ f[o] # obj[o].start}]
      BY <2>12 DEF CompactPlan
    <3>2. OnObjects(f) \in [Objects -> Nat]
      BY UnitsAreNat DEF OnObjects
    <3>3. Residents(op.src) \in SUBSET Objects
      BY DEF Residents
    <3>4. pool' \in [Pools -> PoolRecord]
      BY <2>T, <2>12 DEF CompactPlan
    <3>5. obj' \in [Objects -> ObjectDesc]
      BY <2>T, <2>12 DEF CompactPlan
    <3>6. held' \in [Tasks -> SUBSET Token]
      BY <2>T, <2>12 DEF CompactPlan
    <3>7. op' \in OpRecord
      BY <2>T, <2>12, <3>1, <3>2, <3>3 DEF CompactPlan, OpRecord, CompactSteps, MergeSteps, SplitSteps, FreeSteps
    <3>8. QED BY <3>4, <3>5, <3>6, <3>7 DEF TypeOK
  <2>13. CASE CompactPlanFails
    <3>1. pool' \in [Pools -> PoolRecord]
      BY <2>T, <2>13 DEF CompactPlanFails
    <3>2. obj' \in [Objects -> ObjectDesc]
      BY <2>T, <2>13 DEF CompactPlanFails
    <3>3. held' \in [Tasks -> SUBSET Token]
      BY <2>T, <2>13 DEF CompactPlanFails
    <3>4. op' \in OpRecord
      BY <2>T, <2>13 DEF CompactPlanFails, OpRecord, CompactSteps, MergeSteps, SplitSteps, FreeSteps
    <3>5. QED BY <3>1, <3>2, <3>3, <3>4 DEF TypeOK
  <2>14. ASSUME NEW o \in Objects, CompactMove(o) \/ MergeMove(o) \/ SplitMove(o)
         PROVE  TypeOK'
    <3>1. op.to[o] \in Nat
      BY <2>T DEF OpRecord
    <3>2. pool' \in [Pools -> PoolRecord]
      BY <2>T, <2>14 DEF CompactMove, MergeMove, SplitMove, Relocate
    <3>3. obj' \in [Objects -> ObjectDesc]
      BY <2>T, <2>14, <3>1 DEF CompactMove, MergeMove, SplitMove, Relocate, ObjectDesc
    <3>4. held' \in [Tasks -> SUBSET Token]
      BY <2>T, <2>14 DEF CompactMove, MergeMove, SplitMove, Relocate
    <3>5. op' \in OpRecord
      BY <2>T, <2>14 DEF CompactMove, MergeMove, SplitMove, Relocate, OpRecord, CompactSteps, MergeSteps, SplitSteps, FreeSteps
    <3>6. QED BY <3>2, <3>3, <3>4, <3>5 DEF TypeOK
  <2>15. CASE CompactCommit
    <3>1. pool' \in [Pools -> PoolRecord]
      BY <2>T, <2>15 DEF CompactCommit, PoolRecord, PoolStates, MaintenanceStates
    <3>2. obj' \in [Objects -> ObjectDesc]
      BY <2>T, <2>15 DEF CompactCommit
    <3>3. held' \in [Tasks -> SUBSET Token]
      BY <2>T, <2>15 DEF CompactCommit
    <3>4. op' \in OpRecord
      BY <2>T, <2>15, IdleType DEF CompactCommit, OpRecord, CompactSteps, MergeSteps, SplitSteps, FreeSteps
    <3>5. QED BY <3>1, <3>2, <3>3, <3>4 DEF TypeOK
  <2>16. CASE CompactRestore
    <3>1. pool' \in [Pools -> PoolRecord]
      <4>1. EntryState(op.src) \in PoolStates
        BY DEF EntryState, PoolStates
      <4>2. QED BY <2>T, <2>F, <2>16, <4>1 DEF CompactRestore, PoolRecord
    <3>2. obj' \in [Objects -> ObjectDesc]
      BY <2>T, <2>16 DEF CompactRestore
    <3>3. held' \in [Tasks -> SUBSET Token]
      BY <2>T, <2>16 DEF CompactRestore
    <3>4. op' \in OpRecord
      BY <2>T, <2>16, IdleType DEF CompactRestore, OpRecord, CompactSteps, MergeSteps, SplitSteps, FreeSteps
    <3>5. QED BY <3>1, <3>2, <3>3, <3>4 DEF TypeOK
  <2>17. ASSUME NEW s \in Pools, NEW t \in Pools, MergeArm(s, t)
         PROVE  TypeOK'
    <3>1. pool' \in [Pools -> PoolRecord]
      BY <2>T, <2>17 DEF MergeArm, PoolRecord, PoolStates, MaintenanceStates
    <3>2. obj' \in [Objects -> ObjectDesc]
      BY <2>T, <2>17 DEF MergeArm
    <3>3. held' \in [Tasks -> SUBSET Token]
      BY <2>T, <2>17 DEF MergeArm
    <3>4. op' \in OpRecord
      BY <2>T, <2>17, IdleType DEF MergeArm, OpRecord, CompactSteps, MergeSteps, SplitSteps, FreeSteps
    <3>5. QED BY <3>1, <3>2, <3>3, <3>4 DEF TypeOK
  <2>18. CASE MergePlan
    <3> DEFINE R == Residents(op.src) \cup Residents(op.tgt)
    <3>1. PICK f \in [R -> Units] :
            op' = [op EXCEPT !.pc = "merge-move", !.to = OnObjects(f), !.todo = R,
                             !.adopt = Residents(op.src)]
      BY <2>18 DEF MergePlan
    <3>2. OnObjects(f) \in [Objects -> Nat]
      BY UnitsAreNat DEF OnObjects
    <3>3. R \in SUBSET Objects /\ Residents(op.src) \in SUBSET Objects
      BY DEF Residents
    <3> HIDE DEF R
    <3>4. pool' \in [Pools -> PoolRecord]
      BY <2>T, <2>18 DEF MergePlan
    <3>5. obj' \in [Objects -> ObjectDesc]
      BY <2>T, <2>18 DEF MergePlan
    <3>6. held' \in [Tasks -> SUBSET Token]
      BY <2>T, <2>18 DEF MergePlan
    <3>7. op' \in OpRecord
      BY <2>T, <2>18, <3>1, <3>2, <3>3 DEF MergePlan, OpRecord, CompactSteps, MergeSteps, SplitSteps, FreeSteps
    <3>8. QED BY <3>4, <3>5, <3>6, <3>7 DEF TypeOK
  <2>19. ASSUME NEW o \in Objects, MergeAdopt(o) \/ SplitAdopt(o)
         PROVE  TypeOK'
    <3>1. op.tgt \in Pools
      BY <2>T DEF OpRecord
    <3>2. pool' \in [Pools -> PoolRecord]
      BY <2>T, <2>19 DEF MergeAdopt, SplitAdopt
    <3>3. obj' \in [Objects -> ObjectDesc]
      BY <2>T, <2>19, <3>1 DEF MergeAdopt, SplitAdopt, ObjectDesc
    <3>4. held' \in [Tasks -> SUBSET Token]
      BY <2>T, <2>19 DEF MergeAdopt, SplitAdopt
    <3>5. op' \in OpRecord
      BY <2>T, <2>19 DEF MergeAdopt, SplitAdopt, OpRecord, CompactSteps, MergeSteps, SplitSteps, FreeSteps
    <3>6. QED BY <3>2, <3>3, <3>4, <3>5 DEF TypeOK
  <2>20. CASE MergeFirst
    <3>1. Lower(op.src, op.tgt) \in Pools
      BY <2>T DEF Lower, OpRecord
    <3>2. pool[Lower(op.src, op.tgt)].first \in Nat
      BY <2>T, <3>1 DEF PoolRecord
    <3>3. pool' \in [Pools -> PoolRecord]
      BY <2>T, <2>20, <3>2 DEF MergeFirst, PoolRecord, PoolStates, MaintenanceStates
    <3>4. obj' \in [Objects -> ObjectDesc]
      BY <2>T, <2>20 DEF MergeFirst
    <3>5. held' \in [Tasks -> SUBSET Token]
      BY <2>T, <2>20 DEF MergeFirst
    <3>6. op' \in OpRecord
      BY <2>T, <2>20 DEF MergeFirst, OpRecord, CompactSteps, MergeSteps, SplitSteps, FreeSteps
    <3>7. QED BY <3>3, <3>4, <3>5, <3>6 DEF TypeOK
  <2>21. CASE MergeCount
    <3>1. Cardinality(Residents(op.tgt)) \in Int
      BY ObjectSetsCountable DEF Residents
    <3>2. pool[op.tgt].count + pool[op.src].count \in Nat
      BY <2>F
    <3>3. pool' \in [Pools -> PoolRecord]
      <4> DEFINE a == [pool EXCEPT ![op.tgt].count = pool[op.tgt].count + pool[op.src].count]
      <4>1. a \in [Pools -> PoolRecord]
        BY <2>T, <2>F, <3>2 DEF PoolRecord
      <4>2. pool' = [a EXCEPT ![op.tgt].live = Cardinality(Residents(op.tgt))]
        BY <2>21 DEF MergeCount
      <4> HIDE DEF a
      <4>3. QED BY <2>F, <3>1, <4>1, <4>2 DEF PoolRecord
    <3>4. obj' \in [Objects -> ObjectDesc]
      BY <2>T, <2>21 DEF MergeCount
    <3>5. held' \in [Tasks -> SUBSET Token]
      BY <2>T, <2>21 DEF MergeCount
    <3>6. op' \in OpRecord
      BY <2>T, <2>21 DEF MergeCount, OpRecord, CompactSteps, MergeSteps, SplitSteps, FreeSteps
    <3>7. QED BY <3>3, <3>4, <3>5, <3>6 DEF TypeOK
  <2>22. CASE MergeCommit
    <3>1. pool' \in [Pools -> PoolRecord]
      BY <2>T, <2>22, EmptyPoolType DEF MergeCommit, PoolRecord, PoolStates, MaintenanceStates
    <3>2. obj' \in [Objects -> ObjectDesc]
      BY <2>T, <2>22 DEF MergeCommit
    <3>3. held' \in [Tasks -> SUBSET Token]
      BY <2>T, <2>22 DEF MergeCommit
    <3>4. op' \in OpRecord
      BY <2>T, <2>22, IdleType DEF MergeCommit, OpRecord, CompactSteps, MergeSteps, SplitSteps, FreeSteps
    <3>5. QED BY <3>1, <3>2, <3>3, <3>4 DEF TypeOK
  <2>23. ASSUME NEW p \in Pools, NEW n \in 1 .. Segments, SplitArm(p, n)
         PROVE  TypeOK'
    <3>1. PICK new \in Pools :
            /\ pool' = [pool EXCEPT ![p].state = "Splitting", ![new].state = "Splitting"]
            /\ op' = [Idle EXCEPT !.pc = "split-plan", !.src = p, !.tgt = new,
                        !.paused = {q \in {p} : pool[q].state = "Paused"},
                        !.keep = pool[p].count - n, !.fresh = n]
      BY <2>23 DEF SplitArm
    <3>2. pool[p].count - n \in Nat
      BY <2>T, <2>23 DEF SplitArm, PoolRecord
    <3>3. n \in Nat
      OBVIOUS
    <3>4. pool' \in [Pools -> PoolRecord]
      BY <2>T, <2>23, <3>1 DEF SplitArm, PoolRecord, PoolStates, MaintenanceStates
    <3>5. obj' \in [Objects -> ObjectDesc]
      BY <2>T, <2>23 DEF SplitArm
    <3>6. held' \in [Tasks -> SUBSET Token]
      BY <2>T, <2>23 DEF SplitArm
    <3>7. op' \in OpRecord
      BY <3>1, <3>2, <3>3, IdleType DEF OpRecord, SplitSteps
    <3>8. QED BY <3>4, <3>5, <3>6, <3>7 DEF TypeOK
  <2>24. CASE SplitPlan
    <3>1. PICK f \in SplitPlans(op.src) :
            op' = [op EXCEPT !.pc = "split-move", !.to = OnObjects(f),
                             !.todo = {o \in Residents(op.src) : ~obj[o].pinned}]
      BY <2>24 DEF SplitPlan
    <3>2. OnObjects(f) \in [Objects -> Nat]
      BY UnitsAreNat DEF OnObjects, SplitPlans
    <3>3. Residents(op.src) \in SUBSET Objects
      BY DEF Residents
    <3>4. pool' \in [Pools -> PoolRecord]
      BY <2>T, <2>24 DEF SplitPlan
    <3>5. obj' \in [Objects -> ObjectDesc]
      BY <2>T, <2>24 DEF SplitPlan
    <3>6. held' \in [Tasks -> SUBSET Token]
      BY <2>T, <2>24 DEF SplitPlan
    <3>7. op' \in OpRecord
      BY <2>T, <2>24, <3>1, <3>2, <3>3 DEF SplitPlan, OpRecord, CompactSteps, MergeSteps, SplitSteps, FreeSteps
    <3>8. QED BY <3>4, <3>5, <3>6, <3>7 DEF TypeOK
  <2>25. CASE SplitPlanFails
    <3>1. pool' \in [Pools -> PoolRecord]
      BY <2>T, <2>25 DEF SplitPlanFails
    <3>2. obj' \in [Objects -> ObjectDesc]
      BY <2>T, <2>25 DEF SplitPlanFails
    <3>3. held' \in [Tasks -> SUBSET Token]
      BY <2>T, <2>25 DEF SplitPlanFails
    <3>4. op' \in OpRecord
      BY <2>T, <2>25 DEF SplitPlanFails, OpRecord, CompactSteps, MergeSteps, SplitSteps, FreeSteps
    <3>5. QED BY <3>1, <3>2, <3>3, <3>4 DEF TypeOK
  <2>26. CASE SplitWindow
    <3>1. pool[op.src].first + op.keep \in Nat /\ op.fresh \in Nat
      BY <2>F
    <3>2. Residents(op.src) \in SUBSET Objects
      BY DEF Residents
    <3>3. pool' \in [Pools -> PoolRecord]
      <4> DEFINE a == [pool EXCEPT ![op.tgt].first = pool[op.src].first + op.keep]
      <4>1. a \in [Pools -> PoolRecord]
        BY <2>T, <2>F, <3>1 DEF PoolRecord
      <4>2. pool' = [a EXCEPT ![op.tgt].count = op.fresh]
        BY <2>26 DEF SplitWindow
      <4> HIDE DEF a
      <4>3. QED BY <2>F, <3>1, <4>1, <4>2 DEF PoolRecord
    <3>4. obj' \in [Objects -> ObjectDesc]
      BY <2>T, <2>26 DEF SplitWindow
    <3>5. held' \in [Tasks -> SUBSET Token]
      BY <2>T, <2>26 DEF SplitWindow
    <3>6. op' \in OpRecord
      BY <2>T, <2>26, <3>2 DEF SplitWindow, OpRecord, CompactSteps, MergeSteps, SplitSteps, FreeSteps
    <3>7. QED BY <3>3, <3>4, <3>5, <3>6 DEF TypeOK
  <2>27. CASE SplitCount
    <3> DEFINE moved == Cardinality(Residents(op.tgt))
               f1 == [pool EXCEPT ![op.src].live = @ - moved]
               f2 == [f1 EXCEPT ![op.src].count = op.keep]
               f3 == [f2 EXCEPT ![op.tgt].live = moved]
    <3>1. moved \in Int
      BY ObjectSetsCountable DEF Residents
    <3>2. pool' = f3
      BY <2>27 DEF SplitCount
    <3> HIDE DEF moved
    <3>a. f1 \in [Pools -> PoolRecord]
      BY <2>T, <2>F, <3>1 DEF PoolRecord
    <3> HIDE DEF f1
    <3>b. f2 \in [Pools -> PoolRecord]
      BY <2>F, <3>a DEF PoolRecord
    <3> HIDE DEF f2
    <3>c. f3 \in [Pools -> PoolRecord]
      BY <3>1, <3>b DEF PoolRecord
    <3>3. pool' \in [Pools -> PoolRecord]
      BY <3>2, <3>c
    <3>4. obj' \in [Objects -> ObjectDesc]
      BY <2>T, <2>27 DEF SplitCount
    <3>5. held' \in [Tasks -> SUBSET Token]
      BY <2>T, <2>27 DEF SplitCount
    <3>6. op' \in OpRecord
      BY <2>T, <2>27 DEF SplitCount, OpRecord, CompactSteps, MergeSteps, SplitSteps, FreeSteps
    <3>7. QED BY <3>3, <3>4, <3>5, <3>6 DEF TypeOK
  <2>28. CASE SplitCommit
    <3>1. pool' \in [Pools -> PoolRecord]
      BY <2>T, <2>F, <2>28 DEF SplitCommit, PoolRecord, PoolStates, MaintenanceStates
    <3>2. obj' \in [Objects -> ObjectDesc]
      BY <2>T, <2>28 DEF SplitCommit
    <3>3. held' \in [Tasks -> SUBSET Token]
      BY <2>T, <2>28 DEF SplitCommit
    <3>4. op' \in OpRecord
      BY <2>T, <2>28, IdleType DEF SplitCommit, OpRecord, CompactSteps, MergeSteps, SplitSteps, FreeSteps
    <3>5. QED BY <3>1, <3>2, <3>3, <3>4 DEF TypeOK
  <2>29. CASE SplitRestore
    <3>1. pool' \in [Pools -> PoolRecord]
      <4>1. DEFINE a == [pool[op.src] EXCEPT !.state = EntryState(op.src)]
      <4>2. pool' = [[pool EXCEPT ![op.src] = a] EXCEPT ![op.tgt] = EmptyPool]
        BY <2>T, <2>29 DEF SplitRestore
      <4>3. a \in PoolRecord
        BY <2>T, <2>F DEF PoolRecord, PoolStates, EntryState
      <4> HIDE DEF a
      <4>4. QED BY <2>T, <4>2, <4>3, EmptyPoolType
    <3>2. obj' \in [Objects -> ObjectDesc]
      BY <2>T, <2>29 DEF SplitRestore
    <3>3. held' \in [Tasks -> SUBSET Token]
      BY <2>T, <2>29 DEF SplitRestore
    <3>4. op' \in OpRecord
      BY <2>T, <2>29, IdleType DEF SplitRestore, OpRecord, CompactSteps, MergeSteps, SplitSteps, FreeSteps
    <3>5. QED BY <3>1, <3>2, <3>3, <3>4 DEF TypeOK
  <2>30. CASE UNCHANGED vars
    BY <2>T, <2>30 DEF vars, TypeOK
  <2>31. QED
    BY <2>1, <2>2, <2>3, <2>4, <2>5, <2>6, <2>7, <2>8, <2>9, <2>10, <2>11, <2>12, <2>13, <2>14, <2>15, <2>16, <2>17, <2>18, <2>19, <2>20, <2>21, <2>22, <2>23, <2>24, <2>25, <2>26, <2>27, <2>28, <2>29, <2>30
       DEF Next, TaskNext, OwnerCalls, OwnerProceeds
<1>3. QED BY <1>1, <1>2, PTL DEF Spec

-----------------------------------------------------------------------------
(* The gate *)

MaintenancePc == CompactSteps \cup MergeSteps \cup SplitSteps

QuietUnlessOpen ==
  \A p \in Pools : pool[p].state \notin {"Running", "Paused"} => pool[p].borrows = 0

OpOwns ==
  op.pc \in MaintenancePc =>
    /\ pool[op.src].state \in MaintenanceStates
    /\ pool[op.tgt].state \in MaintenanceStates
    /\ \A o \in op.todo \cup op.adopt : obj[o].pool \in {op.src, op.tgt}

GateInv == TypeOK /\ QuietUnlessOpen /\ OpOwns

(* What a step of the owner leaves of the borrow counters: no pool's       *)
(* counter changes, only a pool with count 0 is closed or removed, and an  *)
(* object that is counted keeps its pool unless that pool's count is 0.    *)
PoolsKeepCounts ==
  \A p \in Pools :
    /\ pool'[p].borrows = pool[p].borrows
    /\ pool'[p].state \in {"Running", "Paused"} \/ pool'[p].state = pool[p].state
                                                \/ pool[p].borrows = 0

ObjectsKeepCounts ==
  \A o \in Objects :
    obj'[o].state = "Live" /\ obj'[o].borrows # 0 =>
      /\ obj[o].state = "Live" /\ obj'[o].borrows = obj[o].borrows
      /\ obj'[o].pool = obj[o].pool \/ pool[obj[o].pool].borrows = 0

KeepsCounts == OpOwns' /\ PoolsKeepCounts /\ ObjectsKeepCounts

LEMMA SameObjects == obj' = obj => ObjectsKeepCounts
  BY DEF ObjectsKeepCounts

LEMMA IdleOwnsNothing == op' = Idle => OpOwns' /\ op'.victim = {}
  BY DEF Idle, OpOwns, MaintenancePc, CompactSteps, MergeSteps, SplitSteps

LEMMA OutsideMaintenance ==
  ASSUME op'.pc \in {"idle"} \cup FreeSteps
  PROVE  OpOwns'
  BY DEF OpOwns, FreeSteps, MaintenancePc, CompactSteps, MergeSteps, SplitSteps

(* The fields of Idle that the arming steps leave alone. *)
IdlePlain == Idle \in OpRecord /\ Idle.todo = {} /\ Idle.adopt = {} /\ Idle.victim = {}

LEMMA CallsKeepCounts ==
  ASSUME GateInv, OwnerCalls
  PROVE  KeepsCounts
<1>1. TypeOK /\ QuietUnlessOpen /\ OpOwns
  BY DEF GateInv
<1>T. /\ pool \in [Pools -> PoolRecord] /\ obj \in [Objects -> ObjectDesc]
      /\ op \in OpRecord /\ IdlePlain
  BY <1>1, IdleType DEF TypeOK, IdlePlain, Idle
<1>2. ASSUME NEW n \in 1 .. Segments, CreatePool(n) PROVE KeepsCounts
  <2>1. PICK new \in Pools, base \in 0 .. Segments - n :
          /\ pool[new].state = "Empty"
          /\ pool' = [pool EXCEPT ![new] =
                       [EmptyPool EXCEPT !.state = "Running", !.first = base, !.count = n]]
    BY <1>2 DEF CreatePool, FirstEmpty
  <2>2. pool[new].borrows = 0
    BY <1>1, <2>1 DEF QuietUnlessOpen
  <2>3. \A p \in Pools : /\ pool'[p].borrows = pool[p].borrows
                         /\ pool'[p].state = IF p = new THEN "Running" ELSE pool[p].state
    <3>1. EmptyPool \in PoolRecord /\ EmptyPool.borrows = 0
      BY EmptyPoolType DEF EmptyPool
    <3> DEFINE e1 == [EmptyPool EXCEPT !.state = "Running"]
               e2 == [e1 EXCEPT !.first = base]
               e3 == [e2 EXCEPT !.count = n]
    <3>2. e1 \in PoolRecord /\ e1.borrows = 0 /\ e1.state = "Running"
      BY <3>1 DEF PoolRecord, PoolStates
    <3>3. base \in Nat /\ n \in Nat
      BY SegAssumption
    <3> HIDE DEF e1
    <3>4. e2 \in PoolRecord /\ e2.borrows = 0 /\ e2.state = "Running"
      BY <3>2, <3>3 DEF PoolRecord
    <3> HIDE DEF e2
    <3>5. e3.borrows = 0 /\ e3.state = "Running"
      BY <3>3, <3>4 DEF PoolRecord
    <3>6. pool' = [pool EXCEPT ![new] = e3]
      BY <2>1 DEF e1, e2
    <3> HIDE DEF e3
    <3>7. QED BY <1>T, <2>2, <3>5, <3>6
  <2>4. op' = op /\ obj' = obj /\ op'.pc = "idle"
    BY <1>2 DEF CreatePool, OwnerAt
  <2>5. QED BY <2>3, <2>4, SameObjects, OutsideMaintenance DEF KeepsCounts, PoolsKeepCounts
<1>3. ASSUME NEW p \in Pools, DestroyPool(p) PROVE KeepsCounts
  <2>1. \A q \in Pools : pool'[q].borrows = pool[q].borrows
                         /\ (pool'[q].state = pool[q].state \/ pool[q].borrows = 0)
    BY <1>T, <1>3 DEF DestroyPool, EmptyPool
  <2>2. obj' = obj /\ op'.pc = "idle"
    BY <1>3 DEF DestroyPool, OwnerAt
  <2>3. QED BY <2>1, <2>2, SameObjects, OutsideMaintenance DEF KeepsCounts, PoolsKeepCounts
<1>4. ASSUME NEW p \in Pools, NEW o \in Objects, NEW size \in Sizes, NEW pinned \in BOOLEAN,
             Alloc(p, o, size, pinned)
      PROVE  KeepsCounts
  <2>1. obj'[o].borrows = 0 /\ \A q \in Objects : q # o => obj'[q] = obj[q]
    BY <1>T, <1>4 DEF Alloc
  <2>2. \A q \in Pools : pool'[q].borrows = pool[q].borrows /\ pool'[q].state = pool[q].state
    BY <1>T, <1>4 DEF Alloc, PoolRecord
  <2>3. op'.pc = "idle"
    BY <1>4 DEF Alloc, OwnerAt
  <2>4. QED BY <2>1, <2>2, <2>3, OutsideMaintenance
            DEF KeepsCounts, PoolsKeepCounts, ObjectsKeepCounts
<1>5. ASSUME NEW o \in Objects, FreeCheck(o) PROVE KeepsCounts
  <2>1. op'.pc = "free-checked" /\ UNCHANGED <<pool, obj>>
    BY <1>T, <1>5 DEF FreeCheck, OpRecord
  <2>2. QED BY <2>1, SameObjects, OutsideMaintenance DEF KeepsCounts, PoolsKeepCounts, FreeSteps
<1>6. ASSUME NEW p \in Pools, CompactRefused(p) PROVE KeepsCounts
  <2>1. \A q \in Pools : /\ pool'[q].borrows = pool[q].borrows
                         /\ pool'[q].state = pool[q].state \/ pool'[q].state = "Paused"
    BY <1>T, <1>6 DEF CompactRefused, PoolRecord
  <2>2. obj' = obj /\ op'.pc = "idle"
    BY <1>6 DEF CompactRefused, OwnerAt
  <2>3. QED BY <2>1, <2>2, SameObjects, OutsideMaintenance DEF KeepsCounts, PoolsKeepCounts
<1>7. ASSUME NEW p \in Pools, CompactArm(p) PROVE KeepsCounts
  <2>1. \A q \in Pools : /\ pool'[q].borrows = pool[q].borrows
                         /\ pool'[q].state = IF q = p THEN "Compacting" ELSE pool[q].state
    BY <1>T, <1>7 DEF CompactArm, PoolRecord
  <2>2. op'.src = p /\ op'.tgt = p /\ op'.todo = {} /\ op'.adopt = {}
    BY <1>7, <1>T DEF CompactArm, IdlePlain, OpRecord
  <2>3. OpOwns'
    BY <2>1, <2>2 DEF OpOwns, MaintenanceStates
  <2>4. pool[p].borrows = 0 /\ obj' = obj
    BY <1>7 DEF CompactArm
  <2>5. QED BY <2>1, <2>3, <2>4, SameObjects DEF KeepsCounts, PoolsKeepCounts
<1>8. ASSUME NEW s \in Pools, NEW t \in Pools, MergeArm(s, t) PROVE KeepsCounts
  <2>1. \A q \in Pools : /\ pool'[q].borrows = pool[q].borrows
                         /\ pool'[q].state = IF q \in {s, t} THEN "Merging" ELSE pool[q].state
    BY <1>T, <1>8 DEF MergeArm, PoolRecord
  <2>2. op'.src = s /\ op'.tgt = t /\ op'.todo = {} /\ op'.adopt = {}
    BY <1>8, <1>T DEF MergeArm, IdlePlain, OpRecord
  <2>3. OpOwns'
    BY <2>1, <2>2 DEF OpOwns, MaintenanceStates
  <2>4. pool[s].borrows = 0 /\ pool[t].borrows = 0 /\ obj' = obj
    BY <1>8 DEF MergeArm, Maintainable
  <2>5. QED BY <2>1, <2>3, <2>4, SameObjects DEF KeepsCounts, PoolsKeepCounts
<1>9. ASSUME NEW p \in Pools, NEW n \in 1 .. Segments, SplitArm(p, n) PROVE KeepsCounts
  <2>1. PICK new \in Pools :
          /\ pool[new].state = "Empty"
          /\ pool' = [pool EXCEPT ![p].state = "Splitting", ![new].state = "Splitting"]
          /\ op' = [Idle EXCEPT !.pc = "split-plan", !.src = p, !.tgt = new,
                      !.paused = {q \in {p} : pool[q].state = "Paused"},
                      !.keep = pool[p].count - n, !.fresh = n]
    BY <1>9 DEF SplitArm, FirstEmpty
  <2>2. pool[p].borrows = 0 /\ pool[new].borrows = 0 /\ obj' = obj
    BY <1>1, <1>9, <2>1 DEF SplitArm, Maintainable, QuietUnlessOpen
  <2>3. \A q \in Pools : /\ pool'[q].borrows = pool[q].borrows
                         /\ pool'[q].state = IF q \in {p, new} THEN "Splitting" ELSE pool[q].state
    BY <1>T, <2>1 DEF PoolRecord
  <2>4. op'.src = p /\ op'.tgt = new /\ op'.todo = {} /\ op'.adopt = {}
    BY <1>T, <2>1 DEF IdlePlain, OpRecord
  <2>5. OpOwns'
    BY <2>3, <2>4 DEF OpOwns, MaintenanceStates
  <2>6. QED BY <2>2, <2>3, <2>5, SameObjects DEF KeepsCounts, PoolsKeepCounts
<1>10. QED BY <1>2, <1>3, <1>4, <1>5, <1>6, <1>7, <1>8, <1>9 DEF OwnerCalls

(* What the owner may still move or hand over lies in pools with count 0. *)
LEMMA OwnedQuiet ==
  ASSUME GateInv, op.pc \in MaintenancePc, NEW o \in op.todo \cup op.adopt
  PROVE  o \in Objects /\ obj[o].pool \in Pools /\ pool[obj[o].pool].borrows = 0
<1>1. TypeOK /\ QuietUnlessOpen /\ OpOwns
  BY DEF GateInv
<1>2. /\ op.src \in Pools /\ op.tgt \in Pools /\ o \in Objects
      /\ obj[o].pool \in {op.src, op.tgt}
      /\ pool[op.src].state \in MaintenanceStates /\ pool[op.tgt].state \in MaintenanceStates
  BY <1>1 DEF TypeOK, OpRecord, OpOwns
<1>3. QED BY <1>1, <1>2 DEF QuietUnlessOpen, MaintenanceStates

LEMMA FreeKeepsCounts ==
  ASSUME GateInv, NEW o \in Objects, FreeDestroying(o) \/ FreeCommit(o)
  PROVE  KeepsCounts
<1>T. /\ pool \in [Pools -> PoolRecord] /\ obj \in [Objects -> ObjectDesc]
      /\ op \in OpRecord
  BY DEF GateInv, TypeOK
<1>1. CASE FreeDestroying(o)
  <2>1. obj'[o].state = "Destroying" /\ \A q \in Objects : q # o => obj'[q] = obj[q]
    BY <1>T, <1>1 DEF FreeDestroying, ObjectDesc
  <2>2. op'.pc = "free-destroying" /\ pool' = pool
    BY <1>T, <1>1 DEF FreeDestroying, OpRecord
  <2>3. QED BY <2>1, <2>2, OutsideMaintenance
            DEF KeepsCounts, PoolsKeepCounts, ObjectsKeepCounts, FreeSteps
<1>2. CASE FreeCommit(o)
  <2>1. obj'[o].borrows = 0 /\ \A q \in Objects : q # o => obj'[q] = obj[q]
    BY <1>T, <1>2 DEF FreeCommit, FreeDesc
  <2>2. \A q \in Pools : pool'[q].borrows = pool[q].borrows /\ pool'[q].state = pool[q].state
    BY <1>T, <1>2 DEF FreeCommit, PoolRecord
  <2>3. OpOwns'
    BY <1>2, IdleOwnsNothing DEF FreeCommit
  <2>4. QED BY <2>1, <2>2, <2>3 DEF KeepsCounts, PoolsKeepCounts, ObjectsKeepCounts
<1>3. QED BY <1>1, <1>2

LEMMA MovesOwned ==
  ASSUME NEW o \in Objects,
         CompactMove(o) \/ MergeMove(o) \/ SplitMove(o) \/ MergeAdopt(o) \/ SplitAdopt(o)
  PROVE  op.pc \in MaintenancePc /\ o \in op.todo \cup op.adopt
<1>1. CASE CompactMove(o)
  BY <1>1 DEF CompactMove, OwnerAt, Lowest, MaintenancePc, CompactSteps
<1>2. CASE MergeMove(o) \/ MergeAdopt(o)
  BY <1>2 DEF MergeMove, MergeAdopt, OwnerAt, Lowest, MaintenancePc, MergeSteps
<1>3. CASE SplitMove(o) \/ SplitAdopt(o)
  BY <1>3 DEF SplitMove, SplitAdopt, OwnerAt, Lowest, Highest, MaintenancePc, SplitSteps
<1>4. QED BY <1>1, <1>2, <1>3

LEMMA MoveKeepsCounts ==
  ASSUME GateInv, NEW o \in Objects,
         CompactMove(o) \/ MergeMove(o) \/ SplitMove(o) \/ MergeAdopt(o) \/ SplitAdopt(o)
  PROVE  KeepsCounts
<1>T. obj \in [Objects -> ObjectDesc] /\ op \in OpRecord /\ OpOwns
  BY DEF GateInv, TypeOK
<1>1. op.pc \in MaintenancePc /\ o \in op.todo \cup op.adopt /\ pool' = pool
  BY MovesOwned DEF CompactMove, MergeMove, SplitMove, MergeAdopt, SplitAdopt
<1>2. pool[obj[o].pool].borrows = 0
  BY <1>1, OwnedQuiet
<1>3. /\ op'.pc = op.pc /\ op'.src = op.src /\ op'.tgt = op.tgt
      /\ op'.todo \subseteq op.todo /\ op'.adopt \subseteq op.adopt
  BY <1>T DEF CompactMove, MergeMove, SplitMove, MergeAdopt, SplitAdopt, OpRecord
<1>4. /\ obj'[o].borrows = obj[o].borrows /\ obj'[o].state = obj[o].state
      /\ obj'[o].pool \in {obj[o].pool, op.tgt}
      /\ \A q \in Objects : q # o => obj'[q] = obj[q]
  BY <1>T DEF CompactMove, MergeMove, SplitMove, MergeAdopt, SplitAdopt, Relocate, ObjectDesc
<1>5. OpOwns'
  <2>1. op.todo \subseteq Objects /\ op.adopt \subseteq Objects
    BY <1>T DEF OpRecord
  <2>2. \A q \in op'.todo \cup op'.adopt : obj'[q].pool \in {op.src, op.tgt}
    BY <1>T, <1>1, <1>3, <1>4, <2>1 DEF OpOwns
  <2>3. QED BY <1>T, <1>1, <1>3, <2>2 DEF OpOwns
<1>6. PoolsKeepCounts
  BY <1>1 DEF PoolsKeepCounts
<1>7. ObjectsKeepCounts
  BY <1>2, <1>4 DEF ObjectsKeepCounts
<1>8. QED BY <1>5, <1>6, <1>7 DEF KeepsCounts

LEMMA PlanKeepsCounts ==
  ASSUME GateInv, CompactPlan \/ CompactPlanFails \/ MergePlan \/ SplitPlan \/ SplitPlanFails
  PROVE  KeepsCounts
<1>T. op \in OpRecord /\ OpOwns
  BY DEF GateInv, TypeOK
<1>2. op.pc \in MaintenancePc /\ UNCHANGED <<pool, obj>>
  BY DEF CompactPlan, CompactPlanFails, MergePlan, SplitPlan, SplitPlanFails, OwnerAt,
         MaintenancePc, CompactSteps, MergeSteps, SplitSteps
<1>3. op'.src = op.src /\ op'.tgt = op.tgt
  BY <1>T DEF CompactPlan, CompactPlanFails, MergePlan, SplitPlan, SplitPlanFails, OpRecord
<1>4. op'.todo \cup op'.adopt \subseteq
        op.todo \cup op.adopt \cup Residents(op.src) \cup Residents(op.tgt)
  <2>1. CASE CompactPlan
    BY <1>T, <2>1 DEF CompactPlan, OpRecord
  <2>2. CASE MergePlan
    <3>1. PICK f : op' = [op EXCEPT !.pc = "merge-move", !.to = OnObjects(f),
                            !.todo = Residents(op.src) \cup Residents(op.tgt),
                            !.adopt = Residents(op.src)]
      BY <2>2 DEF MergePlan
    <3>2. op'.todo = Residents(op.src) \cup Residents(op.tgt) /\ op'.adopt = Residents(op.src)
      BY <1>T, <3>1 DEF OpRecord
    <3>3. QED BY <3>2
  <2>3. CASE SplitPlan
    <3>1. op'.todo = {o \in Residents(op.src) : ~obj[o].pinned} /\ op'.adopt = op.adopt
      BY <1>T, <2>3 DEF SplitPlan, OpRecord
    <3>2. QED BY <3>1
  <2>4. CASE CompactPlanFails \/ SplitPlanFails
    BY <1>T, <2>4 DEF CompactPlanFails, SplitPlanFails, OpRecord
  <2>5. QED BY <2>1, <2>2, <2>3, <2>4
<1>5. \A o \in Residents(op.src) \cup Residents(op.tgt) : obj[o].pool \in {op.src, op.tgt}
  BY DEF Residents
<1>6. \A o \in op'.todo \cup op'.adopt : obj'[o].pool \in {op.src, op.tgt}
  BY <1>T, <1>2, <1>4, <1>5 DEF OpOwns
<1>7. OpOwns'
  BY <1>T, <1>2, <1>3, <1>6 DEF OpOwns
<1>8. QED BY <1>2, <1>7, SameObjects DEF KeepsCounts, PoolsKeepCounts

LEMMA PublishKeepsCounts ==
  ASSUME GateInv,
         \/ CompactCommit \/ CompactRestore \/ MergeFirst \/ MergeCount \/ MergeCommit
         \/ SplitWindow \/ SplitCount \/ SplitCommit \/ SplitRestore
  PROVE  KeepsCounts
<1>1. TypeOK /\ QuietUnlessOpen /\ OpOwns
  BY DEF GateInv
<1>T. pool \in [Pools -> PoolRecord] /\ op \in OpRecord /\ op.src \in Pools /\ op.tgt \in Pools
  BY <1>1 DEF TypeOK, OpRecord
<1>2. op.pc \in MaintenancePc /\ obj' = obj
  BY DEF CompactCommit, CompactRestore, MergeFirst, MergeCount, MergeCommit, SplitWindow,
         SplitCount, SplitCommit, SplitRestore, OwnerAt, MaintenancePc, CompactSteps,
         MergeSteps, SplitSteps
<1>3. pool[op.src].borrows = 0 /\ pool[op.tgt].borrows = 0
  BY <1>1, <1>T, <1>2 DEF QuietUnlessOpen, OpOwns, MaintenanceStates
<1>4. CASE MergeFirst \/ MergeCount \/ SplitWindow \/ SplitCount
  <2>1. \A p \in Pools : pool'[p].borrows = pool[p].borrows /\ pool'[p].state = pool[p].state
    <3>1. CASE MergeFirst
      BY <1>T, <3>1 DEF MergeFirst, PoolRecord
    <3>2. CASE MergeCount
      BY <1>T, <3>2 DEF MergeCount, PoolRecord
    <3>3. CASE SplitWindow
      BY <1>T, <3>3 DEF SplitWindow, PoolRecord
    <3>4. CASE SplitCount
      BY <1>T, <3>4 DEF SplitCount, PoolRecord
    <3>5. QED BY <1>4, <3>1, <3>2, <3>3, <3>4
  <2>2. op'.src = op.src /\ op'.tgt = op.tgt
    BY <1>T, <1>4 DEF MergeFirst, MergeCount, SplitWindow, SplitCount, OpRecord
  <2>3. \A o \in op'.todo \cup op'.adopt : obj'[o].pool \in {op.src, op.tgt}
    <3>1. op'.todo \cup op'.adopt \subseteq op.todo \cup op.adopt \cup Residents(op.src)
      <4>1. CASE SplitWindow
        BY <1>T, <4>1 DEF SplitWindow, OpRecord
      <4>2. CASE MergeFirst \/ MergeCount \/ SplitCount
        BY <1>T, <4>2 DEF MergeFirst, MergeCount, SplitCount, OpRecord
      <4>3. QED BY <1>4, <4>1, <4>2
    <3>2. QED BY <1>1, <1>2, <3>1 DEF OpOwns, Residents
  <2>4. OpOwns'
    BY <1>1, <1>T, <1>2, <2>1, <2>2, <2>3 DEF OpOwns
  <2>5. QED BY <1>2, <2>1, <2>4, SameObjects DEF KeepsCounts, PoolsKeepCounts
<1>5. CASE CompactCommit \/ CompactRestore \/ MergeCommit \/ SplitCommit \/ SplitRestore
  <2>1. op' = Idle
    BY <1>5 DEF CompactCommit, CompactRestore, MergeCommit, SplitCommit, SplitRestore
  <2>2. \A p \in Pools : pool'[p].borrows = pool[p].borrows
    <3>1. CASE CompactCommit \/ CompactRestore
      BY <1>T, <3>1 DEF CompactCommit, CompactRestore, PoolRecord
    <3>2. CASE MergeCommit
      BY <1>T, <1>3, <3>2 DEF MergeCommit, EmptyPool, PoolRecord
    <3>3. CASE SplitCommit \/ SplitRestore
      BY <1>T, <1>3, <3>3 DEF SplitCommit, SplitRestore, EmptyPool, PoolRecord
    <3>4. QED BY <1>5, <3>1, <3>2, <3>3
  <2>3. \A p \in Pools : p \notin {op.src, op.tgt} => pool'[p].state = pool[p].state
    BY <1>T, <1>5 DEF CompactCommit, CompactRestore, MergeCommit, SplitCommit,
       SplitRestore, PoolRecord
  <2>4. PoolsKeepCounts
    BY <1>3, <2>2, <2>3 DEF PoolsKeepCounts
  <2>5. QED BY <1>2, <2>1, <2>4, IdleOwnsNothing, SameObjects DEF KeepsCounts
<1>6. QED BY <1>4, <1>5

LEMMA OwnerKeepsCounts ==
  ASSUME GateInv, OwnerCalls \/ OwnerProceeds
  PROVE  KeepsCounts
  BY CallsKeepCounts, FreeKeepsCounts, MoveKeepsCounts, PlanKeepsCounts, PublishKeepsCounts
     DEF OwnerProceeds

(* The effect of a borrow and of its accepted end on the counters. *)
Recounts(o, n) ==
  LET p == obj[o].pool IN
  /\ \A q \in Objects :
       /\ obj'[q].state = obj[q].state /\ obj'[q].gen = obj[q].gen
       /\ obj'[q].pool = obj[q].pool /\ obj'[q].start = obj[q].start
       /\ obj'[q].borrows = IF q = o THEN obj[q].borrows + n ELSE obj[q].borrows
  /\ \A q \in Pools :
       /\ pool'[q].state = pool[q].state
       /\ pool'[q].borrows = IF q = p THEN pool[q].borrows + n ELSE pool[q].borrows

LEMMA BeginRecounts ==
  ASSUME TypeOK, NEW t \in Tasks, NEW r \in RawRef, BorrowBegin(t, r)
  PROVE  /\ r.obj \in Objects /\ Recounts(r.obj, 1) /\ op' = op
         /\ obj[r.obj].state = "Live" /\ pool[obj[r.obj].pool].state = "Running"
<1>1. /\ pool \in [Pools -> PoolRecord] /\ obj \in [Objects -> ObjectDesc]
      /\ r.obj \in Objects /\ obj[r.obj].pool \in Pools
  BY DEF TypeOK, RawRef, ObjectDesc
<1>2. /\ pool' = [pool EXCEPT ![obj[r.obj].pool].borrows = @ + 1]
      /\ obj' = [obj EXCEPT ![r.obj].borrows = @ + 1]
      /\ op' = op /\ CheckRef(r) = "Ok"
  BY DEF BorrowBegin
<1>3. NamesLive(r) /\ pool[obj[r.obj].pool].state = "Running"
  BY <1>2 DEF CheckRef
<1>4. QED BY <1>1, <1>2, <1>3 DEF Recounts, NamesLive, ObjectDesc, PoolRecord

LEMMA EndRecounts ==
  ASSUME TypeOK, NEW t \in Tasks, BorrowEnd(t)
  PROVE  \/ UNCHANGED <<pool, obj, op>>
         \/ /\ op' = op
            /\ \E o \in Objects :
                 /\ Recounts(o, -1) /\ obj[o].state = "Live"
                 /\ obj[o].borrows > 0 /\ pool[obj[o].pool].borrows > 0
<1>1. pool \in [Pools -> PoolRecord] /\ obj \in [Objects -> ObjectDesc]
  BY DEF TypeOK
<1>2. PICK k \in held[t] : BorrowEnd(t)!(k)
  BY DEF BorrowEnd
<1>3. CASE TokenMatches(k)
  <2>1. k.obj \in Objects /\ obj[k.obj].pool \in Pools
    BY <1>1 DEF TypeOK, Token, ObjectDesc
  <2>2. /\ pool' = [pool EXCEPT ![obj[k.obj].pool].borrows = @ - 1]
        /\ obj' = [obj EXCEPT ![k.obj].borrows = @ - 1]
        /\ op' = op
    BY <1>2, <1>3
  <2>3. obj[k.obj].borrows \in Nat /\ pool[obj[k.obj].pool].borrows \in Nat
    BY <1>1, <2>1 DEF ObjectDesc, PoolRecord
  <2>4. Recounts(k.obj, -1)
    BY <1>1, <2>1, <2>2, <2>3 DEF Recounts, ObjectDesc, PoolRecord
  <2>5. QED BY <1>3, <2>1, <2>2, <2>4 DEF TokenMatches, NamesLive
<1>4. QED BY <1>2, <1>3

LEMMA FlipKeepsCounts ==
  ASSUME GateInv, NEW p \in Pools, Pause(p) \/ Resume(p)
  PROVE  KeepsCounts
<1>1. TypeOK /\ OpOwns
  BY DEF GateInv
<1>2. pool \in [Pools -> PoolRecord] /\ op.src \in Pools /\ op.tgt \in Pools
  BY <1>1 DEF TypeOK, OpRecord
<1>3. pool[p].state \in {"Running", "Paused"} /\ UNCHANGED <<obj, op>>
  BY DEF Pause, Resume
<1>4. \A q \in Pools : /\ pool'[q].borrows = pool[q].borrows
                       /\ q # p => pool'[q].state = pool[q].state
                       /\ q = p => pool'[q].state \in {"Running", "Paused"}
  BY <1>2 DEF Pause, Resume, PoolRecord
<1>5. OpOwns'
  BY <1>1, <1>2, <1>3, <1>4 DEF OpOwns, MaintenanceStates
<1>6. QED BY <1>3, <1>4, <1>5, SameObjects DEF KeepsCounts, PoolsKeepCounts

(* Every step leaves the counters alone or moves one object's and its      *)
(* pool's by one.                                                          *)
LEMMA StepCounts ==
  ASSUME GateInv, [Next]_vars
  PROVE  \/ KeepsCounts
         \/ /\ op' = op
            /\ \E o \in Objects :
                 /\ obj[o].state = "Live"
                 /\ \/ Recounts(o, 1) /\ pool[obj[o].pool].state = "Running"
                    \/ Recounts(o, -1) /\ obj[o].borrows > 0 /\ pool[obj[o].pool].borrows > 0
<1>1. TypeOK
  BY DEF GateInv
<1>2. ASSUME UNCHANGED <<pool, obj, op>> PROVE KeepsCounts
  BY <1>2 DEF GateInv, OpOwns, KeepsCounts, PoolsKeepCounts, ObjectsKeepCounts
<1>3. CASE UNCHANGED vars
  BY <1>2, <1>3 DEF vars
<1>4. ASSUME NEW t \in Tasks, NEW r \in RawRef, BorrowBegin(t, r)
      PROVE  /\ op' = op
             /\ \E o \in Objects : /\ obj[o].state = "Live" /\ Recounts(o, 1)
                                   /\ pool[obj[o].pool].state = "Running"
  BY <1>1, <1>4, BeginRecounts
<1>5. ASSUME NEW t \in Tasks, BorrowEnd(t)
      PROVE  \/ KeepsCounts
             \/ /\ op' = op
                /\ \E o \in Objects : /\ Recounts(o, -1) /\ obj[o].state = "Live"
                                      /\ obj[o].borrows > 0 /\ pool[obj[o].pool].borrows > 0
  BY <1>1, <1>2, <1>5, EndRecounts
<1>6. ASSUME NEW p \in Pools, Pause(p) \/ Resume(p) PROVE KeepsCounts
  BY <1>6, FlipKeepsCounts
<1>7. CASE OwnerCalls \/ OwnerProceeds
  BY <1>7, OwnerKeepsCounts
<1>8. QED BY <1>3, <1>4, <1>5, <1>6, <1>7 DEF Next, TaskNext

LEMMA GateNext ==
  ASSUME GateInv, TypeOK', [Next]_vars
  PROVE  GateInv'
<1>1. TypeOK /\ QuietUnlessOpen /\ OpOwns
  BY DEF GateInv
<1>2. CASE KeepsCounts
  BY <1>1, <1>2 DEF GateInv, KeepsCounts, PoolsKeepCounts, QuietUnlessOpen
<1>3. ASSUME NEW o \in Objects, op' = op, obj[o].state = "Live",
             \/ Recounts(o, 1) /\ pool[obj[o].pool].state = "Running"
             \/ Recounts(o, -1) /\ obj[o].borrows > 0 /\ pool[obj[o].pool].borrows > 0
      PROVE  GateInv'
  <2>1. obj[o].pool \in Pools
    BY <1>1 DEF TypeOK, ObjectDesc
  <2>2. QuietUnlessOpen'
    BY <1>1, <1>3, <2>1 DEF QuietUnlessOpen, Recounts
  <2>3. op.src \in Pools /\ op.tgt \in Pools /\ op.todo \subseteq Objects /\ op.adopt \subseteq Objects
    BY <1>1 DEF TypeOK, OpRecord
  <2>4. OpOwns'
    BY <1>1, <1>3, <2>3 DEF OpOwns, Recounts
  <2>5. QED BY <2>2, <2>4 DEF GateInv
<1>4. QED BY <1>2, <1>3, StepCounts

LEMMA GateInit == Init => GateInv
<1> SUFFICES ASSUME Init PROVE GateInv
  OBVIOUS
<1>1. TypeOK
  BY InitType
<1>2. \A p \in Pools : pool[p].borrows = 0
  BY DEF Init, EmptyPool
<1>3. OpOwns
  BY DEF Init, Idle, OpOwns, MaintenancePc, CompactSteps, MergeSteps, SplitSteps
<1>4. QED BY <1>1, <1>2, <1>3 DEF GateInv, QuietUnlessOpen

(* With or without the accepted race: only Running and Paused pools have   *)
(* borrows, and what a maintenance call works on stays in the pools it has *)
(* armed.                                                                  *)
THEOREM GateInvariant == Spec => []GateInv
<1>1. GateInv /\ TypeOK' /\ [Next]_vars => GateInv'
  BY GateNext
<1>2. QED BY <1>1, GateInit, TypeInvariant, PTL DEF Spec

-----------------------------------------------------------------------------
(* The accepted race *)

ObjectCounts == [o \in Objects |-> obj[o].borrows]
Covers == \A p \in Pools : Total(ObjectCounts, Residents(p)) <= pool[p].borrows
RaceInv == GateInv /\ Covers

LEMMA ResidentsFinite ==
  ASSUME TypeOK, NEW p
  PROVE  /\ IsFiniteSet(Residents(p)) /\ Residents(p) \subseteq Objects
         /\ \A o \in Residents(p) : ObjectCounts[o] \in Nat /\ ObjectCounts[o] = obj[o].borrows
<1>1. Residents(p) \subseteq Objects
  BY DEF Residents
<1>2. \A o \in Objects : ObjectCounts[o] \in Nat /\ ObjectCounts[o] = obj[o].borrows
  BY DEF TypeOK, ObjectDesc, ObjectCounts
<1>3. QED BY <1>1, <1>2, ObjectsAssumption, FS_Subset

(* A pool whose counter is 0 has no counted object. *)
LEMMA CoveredZero ==
  ASSUME RaceInv, NEW p \in Pools, pool[p].borrows = 0, NEW o \in Residents(p)
  PROVE  obj[o].borrows = 0
<1>1. TypeOK /\ Total(ObjectCounts, Residents(p)) <= 0
  BY DEF RaceInv, GateInv, Covers
<1>2. /\ IsFiniteSet(Residents(p)) /\ o \in Objects
      /\ \A q \in Residents(p) : ObjectCounts[q] \in Nat /\ ObjectCounts[q] = obj[q].borrows
  BY <1>1, ResidentsFinite
<1>3. Total(ObjectCounts, {o}) <= Total(ObjectCounts, Residents(p))
  BY <1>2, TotalMonotone
<1>4. Total(ObjectCounts, {o}) = obj[o].borrows
  BY <1>2, TotalOne
<1>5. Total(ObjectCounts, Residents(p)) \in Nat
  BY <1>2, TotalType
<1>6. QED BY <1>1, <1>2, <1>3, <1>4, <1>5

LEMMA CoversKept ==
  ASSUME RaceInv, TypeOK', KeepsCounts
  PROVE  Covers'
<1> SUFFICES ASSUME NEW p \in Pools
             PROVE  Total(ObjectCounts', Residents(p)') <= pool'[p].borrows
  BY DEF Covers
<1>1. TypeOK /\ Total(ObjectCounts, Residents(p)) <= pool[p].borrows
  BY DEF RaceInv, GateInv, Covers
<1>2. /\ IsFiniteSet(Residents(p))
      /\ \A q \in Residents(p) : ObjectCounts[q] \in Nat /\ ObjectCounts[q] = obj[q].borrows
  BY <1>1, ResidentsFinite
<1>3. \A q \in Objects : ObjectCounts'[q] = obj'[q].borrows /\ obj'[q].borrows \in Nat
  BY DEF TypeOK, ObjectDesc, ObjectCounts
<1>4. ASSUME NEW o \in Residents(p)', obj'[o].borrows # 0
      PROVE  o \in Residents(p) /\ obj'[o].borrows = obj[o].borrows
  <2>1. /\ o \in Objects /\ obj[o].state = "Live" /\ obj'[o].borrows = obj[o].borrows
        /\ obj'[o].pool = p
        /\ obj'[o].pool = obj[o].pool \/ pool[obj[o].pool].borrows = 0
    BY <1>4 DEF KeepsCounts, ObjectsKeepCounts, Residents
  <2>2. CASE obj'[o].pool = obj[o].pool
    BY <2>1, <2>2 DEF Residents
  <2>3. CASE pool[obj[o].pool].borrows = 0
    <3>1. obj[o].pool \in Pools /\ o \in Residents(obj[o].pool)
      BY <1>1, <2>1 DEF TypeOK, ObjectDesc, Residents
    <3>2. obj[o].borrows = 0
      BY <2>3, <3>1, CoveredZero
    <3>3. QED BY <1>4, <2>1, <3>2
  <2>4. QED BY <2>1, <2>2, <2>3
<1>5. \A o \in Residents(p)' :
        /\ ObjectCounts'[o] \in Nat
        /\ ObjectCounts'[o] # 0 => o \in Residents(p) /\ ObjectCounts'[o] <= ObjectCounts[o]
  <2>1. \A o \in Residents(p)' : o \in Objects
    BY DEF Residents
  <2>2. QED BY <1>2, <1>3, <1>4, <2>1
<1>6. Total(ObjectCounts', Residents(p)') <= Total(ObjectCounts, Residents(p))
  BY <1>2, <1>5, TotalMonotone
<1>7. pool'[p].borrows = pool[p].borrows
  BY DEF KeepsCounts, PoolsKeepCounts
<1>8. Total(ObjectCounts, Residents(p)) \in Nat /\ pool[p].borrows \in Nat
  BY <1>1, <1>2, TotalType DEF TypeOK, PoolRecord
<1>9. Total(ObjectCounts', Residents(p)') \in Nat
  <2>1. IsFiniteSet(Residents(p)')
    <3>1. Residents(p)' \subseteq Objects
      BY DEF Residents
    <3>2. QED BY <3>1, ObjectsAssumption, FS_Subset
  <2>2. QED BY <1>5, <2>1, TotalType
<1>10. QED BY <1>1, <1>6, <1>7, <1>8, <1>9

LEMMA CoversRecounted ==
  ASSUME RaceInv, TypeOK', NEW o \in Objects, obj[o].state = "Live",
         NEW n \in {-1, 1}, Recounts(o, n)
  PROVE  Covers'
<1> SUFFICES ASSUME NEW p \in Pools
             PROVE  Total(ObjectCounts', Residents(p)') <= pool'[p].borrows
  BY DEF Covers
<1> DEFINE R == Residents(p)
<1>1. TypeOK /\ Total(ObjectCounts, R) <= pool[p].borrows
  BY DEF RaceInv, GateInv, Covers
<1>2. /\ IsFiniteSet(R) /\ R \subseteq Objects
      /\ \A q \in R : ObjectCounts[q] \in Nat /\ ObjectCounts[q] = obj[q].borrows
  BY <1>1, ResidentsFinite
<1>3. Residents(p)' = R
  BY DEF Recounts, Residents
<1>4. \A q \in Objects : ObjectCounts'[q] = obj'[q].borrows /\ obj'[q].borrows \in Nat
  BY DEF TypeOK, ObjectDesc, ObjectCounts
<1>5. Total(ObjectCounts, R) \in Nat /\ pool[p].borrows \in Nat
  BY <1>1, <1>2, TotalType DEF TypeOK, PoolRecord
<1> HIDE DEF R
<1>6. CASE p # obj[o].pool
  <2>1. o \notin R
    BY <1>6 DEF R, Residents
  <2>2. \A q \in R : ObjectCounts'[q] = ObjectCounts[q]
    BY <1>2, <1>4, <2>1 DEF Recounts
  <2>3. Total(ObjectCounts', R) = Total(ObjectCounts, R)
    BY <2>2, TotalSame
  <2>4. pool'[p].borrows = pool[p].borrows
    BY <1>6 DEF Recounts
  <2>5. QED BY <1>1, <1>3, <2>3, <2>4
<1>7. CASE p = obj[o].pool
  <2>1. o \in R
    BY <1>7 DEF R, Residents
  <2>2. /\ \A q \in R \ {o} : ObjectCounts'[q] = ObjectCounts[q]
        /\ ObjectCounts'[o] = ObjectCounts[o] + n
    BY <1>2, <1>4, <2>1 DEF Recounts
  <2>3. Total(ObjectCounts', R \ {o}) = Total(ObjectCounts, R \ {o})
    BY <2>2, TotalSame
  <2>4. /\ Total(ObjectCounts, R) = Total(ObjectCounts, R \ {o}) + ObjectCounts[o]
        /\ Total(ObjectCounts', R) = Total(ObjectCounts', R \ {o}) + ObjectCounts'[o]
    BY <1>2, <1>4, <2>1, TotalRemove
  <2>5. Total(ObjectCounts, R \ {o}) \in Nat /\ ObjectCounts[o] \in Nat
    BY <1>2, <2>1, TotalType, FS_RemoveElement
  <2>6. Total(ObjectCounts', R) = Total(ObjectCounts, R) + n
    BY <2>2, <2>3, <2>4, <2>5
  <2>7. pool'[p].borrows = pool[p].borrows + n
    BY <1>7 DEF Recounts
  <2>8. QED BY <1>1, <1>3, <1>5, <2>6, <2>7
<1>8. QED BY <1>6, <1>7

LEMMA RaceNext ==
  ASSUME RaceInv, TypeOK', [Next]_vars
  PROVE  RaceInv'
<1>1. GateInv
  BY DEF RaceInv
<1>2. GateInv'
  BY <1>1, GateNext
<1>3. Covers'
  BY <1>1, StepCounts, CoversKept, CoversRecounted
<1>4. QED BY <1>2, <1>3 DEF RaceInv

LEMMA RaceInit == Init => RaceInv
<1> SUFFICES ASSUME Init PROVE RaceInv
  OBVIOUS
<1>1. GateInv
  BY GateInit
<1>2. \A p \in Pools : Residents(p) = {} /\ pool[p].borrows = 0
  BY DEF Init, EmptyPool, FreeDesc, Residents
<1>3. \A p \in Pools : Total(ObjectCounts, Residents(p)) = 0
  BY <1>2, TotalEmpty
<1>4. QED BY <1>1, <1>2, <1>3 DEF RaceInv, Covers

(* Covers holds through alloc, free, merge and split although a free that  *)
(* races with a borrow resets its object's counter: the pool's keeps the   *)
(* borrow.                                                                 *)
THEOREM RaceInvariant == Spec => []RaceInv
<1>1. RaceInv /\ TypeOK' /\ [Next]_vars => RaceInv'
  BY RaceNext
<1>2. QED BY <1>1, RaceInit, TypeInvariant, PTL DEF Spec

(* The fold of RaceOnlyLeaks is this sum. *)
LEMMA CountsSum ==
  ASSUME TypeOK, NEW p \in Pools
  PROVE  MapThenSumSet(LAMBDA o : obj[o].borrows, Residents(p)) = Total(ObjectCounts, Residents(p))
<1> DEFINE R == Residents(p)
           Eq(g) == g = [s \in SUBSET R |->
                           IF s = {} THEN 0
                           ELSE obj[CHOOSE x \in s : TRUE].borrows
                                  + g[s \ {CHOOSE x \in s : TRUE}]]
           h == CHOOSE g : Eq(g)
<1>1. /\ IsFiniteSet(R)
      /\ \A o \in R : ObjectCounts[o] \in Nat /\ ObjectCounts[o] = obj[o].borrows
  BY ResidentsFinite
<1>2. MapThenSumSet(LAMBDA o : obj[o].borrows, R) = h[R]
  BY DEF MapThenSumSet, MapThenFoldSet
<1> HIDE DEF R
<1>3. \A s \in SUBSET R : s # {} => ObjectCounts[AnyOf(s)] = obj[AnyOf(s)].borrows
  BY <1>1 DEF AnyOf
<1>4. Eq(Totals(ObjectCounts, R))
  <2>1. Totals(ObjectCounts, R) =
          [s \in SUBSET R |-> IF s = {} THEN 0
                              ELSE ObjectCounts[AnyOf(s)]
                                     + Totals(ObjectCounts, R)[s \ {AnyOf(s)}]]
    BY <1>1, TotalsSolve
  <2>2. QED BY <1>3, <2>1 DEF AnyOf
<1>6. Eq(h)
  BY <1>4
<1>7. \A s \in SUBSET R :
        h[s] = IF s = {} THEN 0 ELSE ObjectCounts[AnyOf(s)] + h[s \ {AnyOf(s)}]
  <2> HIDE DEF h
  <2> QED BY <1>3, <1>6 DEF AnyOf
<1> HIDE DEF h, Eq
<1>8. h[R] = Total(ObjectCounts, R)
  BY <1>1, <1>7, FoldIsTotal
<1>9. QED BY <1>2, <1>8 DEF R

(* The race the ledger accepts (free() against borrow_begin) leaks counts  *)
(* and never loses one: a pool counts at least the borrows its objects     *)
(* count, so maintenance is refused too often and never too seldom.        *)
THEOREM RaceLeaksOnly == Spec => []RaceOnlyLeaks
<1>1. ASSUME RaceInv PROVE RaceOnlyLeaks
  <2>1. TypeOK
    BY <1>1 DEF RaceInv, GateInv
  <2>2. \A o \in Objects : obj[o].borrows >= 0
    BY <2>1 DEF TypeOK, ObjectDesc
  <2>3. \A p \in Pools : /\ Total(ObjectCounts, Residents(p)) <= pool[p].borrows
                         /\ Total(ObjectCounts, Residents(p)) \in Nat /\ pool[p].borrows \in Nat
    BY <1>1, <2>1, ResidentsFinite, TotalType DEF RaceInv, Covers, TypeOK, PoolRecord
  <2>4. QED BY <2>1, <2>2, <2>3, CountsSum DEF RaceOnlyLeaks
<1>2. RaceInv => RaceOnlyLeaks
  BY <1>1
<1>3. QED BY <1>2, RaceInvariant, PTL

-----------------------------------------------------------------------------
(* Tokens *)

(* The inductive invariant without the race: the gate, the tokens with the *)
(* counters, and the object free() has accepted.                           *)
OneBorrow == \A t \in Tasks : \A j, k \in held[t] : j = k

TokensLive ==
  \A t \in Tasks : \A k \in held[t] :
    NamesLive(k) /\ HintMatches(k) /\ obj[k.obj].start = k.addr

BorrowCore == OneBorrow /\ TokensLive /\ BorrowsConserved

VictimsUnused == \A o \in op.victim : Holders(o) = {} /\ obj[o].state # "Free"

BorrowInv == GateInv /\ BorrowCore /\ VictimsUnused

LEMMA BorrowParts ==
  ASSUME BorrowInv
  PROVE  /\ TypeOK /\ QuietUnlessOpen /\ OpOwns /\ BorrowCore /\ VictimsUnused
         /\ BorrowsConserved
  BY DEF BorrowInv, GateInv, BorrowCore

-----------------------------------------------------------------------------
(* Counters and holders *)

LEMMA HoldersFinite ==
  /\ \A o \in Objects : IsFiniteSet(Holders(o))
  /\ \A p \in Pools : IsFiniteSet(PoolHolders(p))
<1>1. ASSUME NEW o \in Objects PROVE IsFiniteSet(Holders(o))
  <2>1. Holders(o) \in SUBSET Tasks
    BY DEF Holders
  <2>2. QED BY <2>1, TasksAssumption, FS_Subset
<1>2. ASSUME NEW p \in Pools PROVE IsFiniteSet(PoolHolders(p))
  <2>1. PoolHolders(p) \in SUBSET Tasks
    BY DEF PoolHolders
  <2>2. QED BY <2>1, TasksAssumption, FS_Subset
<1>3. QED BY <1>1, <1>2

(* A counter is zero exactly when nobody holds the object, or an object of *)
(* the pool: this is what lets the owner read one integer.                 *)
LEMMA ZeroMeansUnheld ==
  ASSUME BorrowsConserved
  PROVE  /\ \A o \in Objects : obj[o].borrows = 0 <=> Holders(o) = {}
         /\ \A p \in Pools : pool[p].borrows = 0 <=> PoolHolders(p) = {}
  BY HoldersFinite, FS_EmptySet DEF BorrowsConserved

LEMMA QuietPool ==
  ASSUME BorrowsConserved, NEW o \in Objects, obj[o].pool \in Pools,
         pool[obj[o].pool].borrows = 0
  PROVE  Holders(o) = {}
<1>1. PoolHolders(obj[o].pool) = {}
  BY ZeroMeansUnheld
<1>2. QED BY <1>1 DEF Holders, PoolHolders

(* A step that leaves the tokens alone, changes only objects nobody holds  *)
(* and no pool's counter keeps the three parts about tokens.               *)
LEMMA StepFrame ==
  ASSUME TypeOK, TypeOK', BorrowCore, held' = held,
         \A o \in Objects : Holders(o) # {} =>
           /\ obj'[o].state = obj[o].state /\ obj'[o].gen = obj[o].gen
           /\ obj'[o].pool = obj[o].pool /\ obj'[o].start = obj[o].start
           /\ obj'[o].borrows = obj[o].borrows,
         \A o \in Objects : Holders(o) = {} => obj'[o].borrows = 0,
         \A p \in Pools : pool'[p].borrows = pool[p].borrows
  PROVE  BorrowCore' /\ \A o \in Objects : Holders(o)' = Holders(o)
<1>1. ASSUME NEW t \in Tasks, NEW k \in held[t]
      PROVE  /\ k.obj \in Objects
             /\ obj'[k.obj].state = obj[k.obj].state /\ obj'[k.obj].gen = obj[k.obj].gen
             /\ obj'[k.obj].pool = obj[k.obj].pool /\ obj'[k.obj].start = obj[k.obj].start
  <2>1. k.obj \in Objects
    BY DEF TypeOK, Token
  <2>2. t \in Holders(k.obj)
    BY DEF Holders
  <2>3. QED BY <2>1, <2>2
<1>2. OneBorrow'
  BY DEF BorrowCore, OneBorrow
<1>3. TokensLive'
  BY <1>1 DEF BorrowCore, TokensLive, NamesLive, HintMatches
<1>4. ASSUME NEW o \in Objects PROVE Holders(o)' = Holders(o)
  BY DEF Holders
<1>5. ASSUME NEW p \in Pools PROVE PoolHolders(p)' = PoolHolders(p)
  BY <1>1 DEF PoolHolders
<1>6. ASSUME NEW o \in Objects PROVE obj'[o].borrows = Cardinality(Holders(o)')
  BY <1>4, FS_EmptySet DEF BorrowCore, BorrowsConserved
<1>7. BorrowsConserved'
  BY <1>5, <1>6 DEF BorrowCore, BorrowsConserved
<1>8. QED BY <1>2, <1>3, <1>4, <1>7 DEF BorrowCore

(* The same for a step that does not touch the descriptors at all. *)
LEMMA PoolStepFrame ==
  ASSUME TypeOK, TypeOK', BorrowCore, UNCHANGED <<obj, held>>,
         \A p \in Pools : pool'[p].borrows = pool[p].borrows
  PROVE  BorrowCore' /\ \A o \in Objects : Holders(o)' = Holders(o)
<1>1. \A o \in Objects : Holders(o) = {} => obj'[o].borrows = 0
  BY FS_EmptySet DEF BorrowCore, BorrowsConserved
<1>2. QED BY <1>1, StepFrame

-----------------------------------------------------------------------------
(* Preservation, task steps *)

LEMMA BeginKeeps ==
  ASSUME FreeRace = FALSE, BorrowInv, GateInv', NEW t \in Tasks, NEW r \in RawRef,
         BorrowBegin(t, r)
  PROVE  BorrowInv'
<1> DEFINE k == [obj |-> r.obj, gen |-> r.gen, hint |-> r.hint, addr |-> obj[r.obj].start]
           o == r.obj
           p == obj[r.obj].pool
<1>1. TypeOK /\ BorrowCore /\ QuietUnlessOpen /\ OpOwns /\ VictimsUnused
  BY BorrowParts
<1>2. /\ pool \in [Pools -> PoolRecord] /\ obj \in [Objects -> ObjectDesc]
      /\ held \in [Tasks -> SUBSET Token]
  BY <1>1 DEF TypeOK
<1>3. o \in Objects /\ p \in Pools
  BY <1>2 DEF RawRef, ObjectDesc
<1>4. /\ held[t] = {} /\ o \notin op.victim
      /\ NamesLive(k) /\ HintMatches(k) /\ pool[p].state = "Running"
  <2>1. CheckRef(r) = "Ok" /\ held[t] = {} /\ o \notin op.victim
    BY DEF BorrowBegin
  <2>2. NamesLive(r) /\ HintMatches(r) /\ pool[p].state = "Running"
    BY <2>1 DEF CheckRef
  <2>3. QED BY <2>1, <2>2 DEF NamesLive, HintMatches
<1>5. /\ pool' = [pool EXCEPT ![p].borrows = @ + 1]
      /\ obj' = [obj EXCEPT ![o].borrows = @ + 1]
      /\ held' = [held EXCEPT ![t] = {k}]
      /\ op' = op
  BY DEF BorrowBegin
<1>6. \A q \in Objects : /\ obj'[q].state = obj[q].state /\ obj'[q].gen = obj[q].gen
                         /\ obj'[q].pool = obj[q].pool /\ obj'[q].start = obj[q].start
                         /\ obj'[q].borrows = IF q = o THEN obj[q].borrows + 1 ELSE obj[q].borrows
  BY <1>2, <1>3, <1>5 DEF ObjectDesc
<1>7. \A q \in Pools : /\ pool'[q].state = pool[q].state
                       /\ pool'[q].borrows = IF q = p THEN pool[q].borrows + 1 ELSE pool[q].borrows
  BY <1>2, <1>3, <1>5 DEF PoolRecord
<1>8. /\ held'[t] = {k} /\ \A u \in Tasks : u # t => held'[u] = held[u]
      /\ k.obj = o /\ k.addr = obj[o].start
  BY <1>2, <1>5
<1> HIDE DEF k, o, p
<1>9. OneBorrow'
  BY <1>1, <1>8 DEF BorrowCore, OneBorrow
<1>10. TokensLive'
  <2> SUFFICES ASSUME NEW u \in Tasks, NEW j \in held'[u]
               PROVE  (NamesLive(j) /\ HintMatches(j))' /\ obj'[j.obj].start = j.addr
    BY DEF TokensLive
  <2>1. NamesLive(j) /\ HintMatches(j) /\ obj[j.obj].start = j.addr
    BY <1>1, <1>4, <1>8 DEF BorrowCore, TokensLive
  <2>2. j.obj \in Objects
    BY <1>2, <1>3, <1>8 DEF Token
  <2>3. QED BY <1>6, <2>1, <2>2 DEF NamesLive, HintMatches
<1>11. \A q \in Objects : Holders(q)' = IF q = o THEN Holders(q) \cup {t} ELSE Holders(q)
  <2> TAKE q \in Objects
  <2>1. Holders(q)' = {u \in Tasks : \E j \in held'[u] : j.obj = q}
    BY DEF Holders
  <2>2. QED BY <1>4, <1>8, <2>1 DEF Holders
<1>12. \A q \in Pools : PoolHolders(q)' =
                          IF q = p THEN PoolHolders(q) \cup {t} ELSE PoolHolders(q)
  <2> TAKE q \in Pools
  <2>1. PoolHolders(q)' = {u \in Tasks : \E j \in held'[u] : obj'[j.obj].pool = q}
    BY DEF PoolHolders
  <2>2. \A u \in Tasks : \A j \in held[u] : obj'[j.obj].pool = obj[j.obj].pool
    BY <1>2, <1>6 DEF Token
  <2>3. obj'[o].pool = p
    BY <1>3, <1>6 DEF o, p
  <2>4. QED BY <1>4, <1>8, <2>1, <2>2, <2>3 DEF PoolHolders
<1>13. (\A q \in Objects : t \notin Holders(q)) /\ (\A q \in Pools : t \notin PoolHolders(q))
  BY <1>4 DEF Holders, PoolHolders
<1>14. BorrowsConserved'
  <2>1. ASSUME NEW q \in Objects PROVE obj'[q].borrows = Cardinality(Holders(q)')
    BY <1>1, <1>6, <1>11, <1>13, HoldersFinite, FS_AddElement DEF BorrowCore, BorrowsConserved
  <2>2. ASSUME NEW q \in Pools PROVE pool'[q].borrows = Cardinality(PoolHolders(q)')
    BY <1>1, <1>7, <1>12, <1>13, HoldersFinite, FS_AddElement DEF BorrowCore, BorrowsConserved
  <2>3. QED BY <2>1, <2>2 DEF BorrowsConserved
<1>17. VictimsUnused'
  <2>1. op.victim \subseteq Objects
    BY <1>1 DEF TypeOK, OpRecord
  <2>2. QED BY <1>1, <1>4, <1>5, <1>6, <1>11, <2>1 DEF VictimsUnused
<1>18. QED BY <1>9, <1>10, <1>14, <1>17 DEF BorrowInv, BorrowCore

(* The end of a borrow is always accepted, so both counters go down. *)
LEMMA EndAccepted ==
  ASSUME BorrowInv, NEW t \in Tasks, NEW k \in held[t]
  PROVE  TokenMatches(k)
<1>1. TypeOK /\ BorrowCore /\ QuietUnlessOpen
  BY BorrowParts
<1>2. k.obj \in Objects /\ obj[k.obj].pool \in Pools
  BY <1>1 DEF TypeOK, Token, ObjectDesc
<1>3. obj[k.obj].borrows \in Nat /\ pool[obj[k.obj].pool].borrows \in Nat
  BY <1>1, <1>2 DEF TypeOK, ObjectDesc, PoolRecord
<1>4. t \in Holders(k.obj) /\ t \in PoolHolders(obj[k.obj].pool)
  BY DEF Holders, PoolHolders
<1>5. obj[k.obj].borrows # 0 /\ pool[obj[k.obj].pool].borrows # 0
  BY <1>1, <1>2, <1>4, ZeroMeansUnheld DEF BorrowCore
<1>6. pool[obj[k.obj].pool].state # "Empty"
  BY <1>1, <1>2, <1>5 DEF QuietUnlessOpen
<1>7. NamesLive(k) /\ HintMatches(k)
  BY <1>1 DEF BorrowCore, TokensLive
<1>8. QED BY <1>3, <1>5, <1>6, <1>7 DEF TokenMatches

LEMMA EndKeeps ==
  ASSUME BorrowInv, GateInv', NEW t \in Tasks, BorrowEnd(t)
  PROVE  BorrowInv'
<1>1. TypeOK /\ BorrowCore /\ QuietUnlessOpen /\ OpOwns /\ VictimsUnused
  BY BorrowParts
<1>2. /\ pool \in [Pools -> PoolRecord] /\ obj \in [Objects -> ObjectDesc]
      /\ held \in [Tasks -> SUBSET Token]
  BY <1>1 DEF TypeOK
<1>3. PICK k \in held[t] : BorrowEnd(t)!(k)
  BY DEF BorrowEnd
<1> DEFINE o == k.obj
           p == obj[k.obj].pool
<1>4. o \in Objects /\ p \in Pools
  BY <1>2 DEF Token, ObjectDesc
<1>5. /\ pool' = [pool EXCEPT ![p].borrows = @ - 1]
      /\ obj' = [obj EXCEPT ![o].borrows = @ - 1]
      /\ held' = [held EXCEPT ![t] = {}]
      /\ op' = op
  BY <1>3, EndAccepted
<1>6. \A q \in Objects : /\ obj'[q].state = obj[q].state /\ obj'[q].gen = obj[q].gen
                         /\ obj'[q].pool = obj[q].pool /\ obj'[q].start = obj[q].start
                         /\ obj'[q].borrows = IF q = o THEN obj[q].borrows - 1 ELSE obj[q].borrows
  BY <1>2, <1>4, <1>5 DEF ObjectDesc
<1>7. \A q \in Pools : /\ pool'[q].state = pool[q].state
                       /\ pool'[q].borrows = IF q = p THEN pool[q].borrows - 1 ELSE pool[q].borrows
  BY <1>2, <1>4, <1>5 DEF PoolRecord
<1>8. /\ held'[t] = {} /\ \A u \in Tasks : u # t => held'[u] = held[u]
  BY <1>2, <1>5
<1>9. \A j \in held[t] : j = k
  BY <1>1 DEF BorrowCore, OneBorrow
<1>10. t \in Holders(o) /\ t \in PoolHolders(p)
  BY DEF Holders, PoolHolders
<1>11. /\ \A q \in Objects : q # o => t \notin Holders(q)
       /\ \A q \in Pools : q # p => t \notin PoolHolders(q)
  BY <1>9 DEF Holders, PoolHolders
<1> HIDE DEF o, p
<1>12. OneBorrow'
  BY <1>1, <1>8 DEF BorrowCore, OneBorrow
<1>13. TokensLive'
  <2> SUFFICES ASSUME NEW u \in Tasks, NEW j \in held'[u]
               PROVE  (NamesLive(j) /\ HintMatches(j))' /\ obj'[j.obj].start = j.addr
    BY DEF TokensLive
  <2>1. j \in held[u]
    BY <1>8
  <2>2. NamesLive(j) /\ HintMatches(j) /\ obj[j.obj].start = j.addr
    BY <1>1, <2>1 DEF BorrowCore, TokensLive
  <2>3. j.obj \in Objects
    BY <1>2, <2>1 DEF Token
  <2>4. QED BY <1>6, <2>2, <2>3 DEF NamesLive, HintMatches
<1>14. \A q \in Objects : Holders(q)' = Holders(q) \ {t}
  <2> TAKE q \in Objects
  <2>1. Holders(q)' = {u \in Tasks : \E j \in held'[u] : j.obj = q}
    BY DEF Holders
  <2>2. QED BY <1>8, <2>1 DEF Holders
<1>15. \A q \in Pools : PoolHolders(q)' = PoolHolders(q) \ {t}
  <2> TAKE q \in Pools
  <2>1. PoolHolders(q)' = {u \in Tasks : \E j \in held'[u] : obj'[j.obj].pool = q}
    BY DEF PoolHolders
  <2>2. \A u \in Tasks : \A j \in held[u] : obj'[j.obj].pool = obj[j.obj].pool
    BY <1>2, <1>6 DEF Token
  <2>3. QED BY <1>8, <2>1, <2>2 DEF PoolHolders
<1>16. BorrowsConserved'
  <2>1. ASSUME NEW q \in Objects PROVE obj'[q].borrows = Cardinality(Holders(q)')
    BY <1>1, <1>6, <1>10, <1>11, <1>14, HoldersFinite, FS_RemoveElement
       DEF BorrowCore, BorrowsConserved
  <2>2. ASSUME NEW q \in Pools PROVE pool'[q].borrows = Cardinality(PoolHolders(q)')
    BY <1>1, <1>7, <1>10, <1>11, <1>15, HoldersFinite, FS_RemoveElement
       DEF BorrowCore, BorrowsConserved
  <2>3. QED BY <2>1, <2>2 DEF BorrowsConserved
<1>19. VictimsUnused'
  <2>1. op.victim \subseteq Objects
    BY <1>1 DEF TypeOK, OpRecord
  <2>2. QED BY <1>1, <1>5, <1>6, <1>14, <2>1 DEF VictimsUnused
<1>20. QED BY <1>12, <1>13, <1>16, <1>19 DEF BorrowInv, BorrowCore

-----------------------------------------------------------------------------
(* Preservation, owner steps *)

(* A step of the owner that leaves the descriptors alone. *)
LEMMA PoolStep ==
  ASSUME BorrowInv, GateInv', KeepsCounts, UNCHANGED <<obj, held>>,
         \A o \in op'.victim :
           (Holders(o) = {} /\ obj[o].state # "Free") \/ o \in op.victim
  PROVE  BorrowInv'
<1>1. TypeOK /\ BorrowCore /\ VictimsUnused /\ TypeOK'
  BY BorrowParts DEF GateInv
<1>2. BorrowCore' /\ \A o \in Objects : Holders(o)' = Holders(o)
  BY <1>1, PoolStepFrame DEF KeepsCounts, PoolsKeepCounts
<1>3. op'.victim \subseteq Objects
  BY <1>1 DEF TypeOK, OpRecord
<1>4. VictimsUnused'
  BY <1>1, <1>2, <1>3 DEF VictimsUnused
<1>5. QED BY <1>2, <1>4 DEF BorrowInv

(* A step of the owner that rewrites one descriptor nobody borrows. *)
LEMMA ObjStep ==
  ASSUME BorrowInv, GateInv', KeepsCounts, held' = held,
         NEW o \in Objects, Holders(o) = {}, obj'[o].borrows = 0,
         \A q \in Objects : q # o => obj'[q] = obj[q],
         op'.victim \subseteq op.victim, o \in op'.victim => obj'[o].state # "Free"
  PROVE  BorrowInv'
<1>1. TypeOK /\ BorrowCore /\ VictimsUnused /\ TypeOK'
  BY BorrowParts DEF GateInv
<1>2. \A q \in Objects : Holders(q) = {} => obj'[q].borrows = 0
  BY <1>1, FS_EmptySet DEF BorrowCore, BorrowsConserved
<1>3. /\ \A p \in Pools : pool'[p].borrows = pool[p].borrows
      /\ \A q \in Objects : Holders(q) # {} => obj'[q] = obj[q]
  BY DEF KeepsCounts, PoolsKeepCounts
<1>4. BorrowCore' /\ \A q \in Objects : Holders(q)' = Holders(q)
  BY <1>1, <1>2, <1>3, StepFrame
<1>5. op'.victim \subseteq Objects
  BY <1>1 DEF TypeOK, OpRecord
<1>6. VictimsUnused'
  BY <1>1, <1>4, <1>5 DEF VictimsUnused
<1>7. QED BY <1>4, <1>6 DEF BorrowInv

(* What the owner may still move or hand over is not borrowed. *)
LEMMA OwnedUnheld ==
  ASSUME BorrowInv, op.pc \in MaintenancePc, NEW o \in op.todo \cup op.adopt
  PROVE  Holders(o) = {} /\ o \in Objects /\ obj[o].borrows = 0
<1>1. GateInv /\ BorrowsConserved
  BY BorrowParts DEF BorrowInv
<1>2. o \in Objects /\ obj[o].pool \in Pools /\ pool[obj[o].pool].borrows = 0
  BY <1>1, OwnedQuiet
<1>3. Holders(o) = {}
  BY <1>1, <1>2, QuietPool
<1>4. QED BY <1>1, <1>2, <1>3, ZeroMeansUnheld

LEMMA OwnerCallsKeep ==
  ASSUME BorrowInv, GateInv', OwnerCalls
  PROVE  BorrowInv'
<1>1. TypeOK /\ BorrowCore /\ VictimsUnused /\ GateInv
  BY BorrowParts DEF BorrowInv
<1>T. /\ pool \in [Pools -> PoolRecord] /\ obj \in [Objects -> ObjectDesc]
      /\ op \in OpRecord /\ IdlePlain
  BY <1>1, IdleType DEF TypeOK, IdlePlain, Idle
<1>2. KeepsCounts
  BY <1>1, OwnerKeepsCounts
<1>3. ASSUME NEW p \in Pools, NEW o \in Objects, NEW size \in Sizes, NEW pinned \in BOOLEAN,
             Alloc(p, o, size, pinned)
      PROVE  BorrowInv'
  <2>1. /\ obj[o].state = "Free" /\ obj'[o].borrows = 0 /\ obj'[o].state = "Live"
        /\ \A q \in Objects : q # o => obj'[q] = obj[q]
    BY <1>T, <1>3 DEF Alloc
  <2>2. Holders(o) = {}
    BY <1>1, <2>1 DEF Holders, BorrowCore, TokensLive, NamesLive
  <2>3. op' = op /\ held' = held
    BY <1>3 DEF Alloc
  <2>4. QED BY <1>2, <2>1, <2>2, <2>3, ObjStep
<1>4. ASSUME NEW o \in Objects, FreeCheck(o) PROVE BorrowInv'
  <2>1. Holders(o) = {} /\ obj[o].state # "Free"
    BY <1>1, <1>4, ZeroMeansUnheld DEF FreeCheck, BorrowCore
  <2>2. op'.victim = {o} /\ UNCHANGED <<obj, held>>
    BY <1>T, <1>4 DEF FreeCheck, OpRecord
  <2>3. QED BY <1>2, <2>1, <2>2, PoolStep
<1>5. CASE /\ UNCHANGED <<obj, held>>
           /\ op'.victim \subseteq op.victim
  BY <1>2, <1>5, PoolStep
<1>6. ASSUME NEW p \in Pools, DestroyPool(p) \/ CompactRefused(p)
      PROVE  UNCHANGED <<obj, held>> /\ op'.victim \subseteq op.victim
  BY <1>6 DEF DestroyPool, CompactRefused
<1>7. ASSUME NEW n \in 1 .. Segments, CreatePool(n)
      PROVE  UNCHANGED <<obj, held>> /\ op'.victim \subseteq op.victim
  BY <1>7 DEF CreatePool
<1>8. ASSUME NEW p \in Pools, CompactArm(p)
      PROVE  UNCHANGED <<obj, held>> /\ op'.victim \subseteq op.victim
  BY <1>T, <1>8 DEF CompactArm, IdlePlain, OpRecord
<1>9. ASSUME NEW s \in Pools, NEW t \in Pools, MergeArm(s, t)
      PROVE  UNCHANGED <<obj, held>> /\ op'.victim \subseteq op.victim
  BY <1>T, <1>9 DEF MergeArm, IdlePlain, OpRecord
<1>10. ASSUME NEW p \in Pools, NEW n \in 1 .. Segments, SplitArm(p, n)
       PROVE  UNCHANGED <<obj, held>> /\ op'.victim \subseteq op.victim
  BY <1>T, <1>10 DEF SplitArm, IdlePlain, OpRecord
<1>11. QED BY <1>3, <1>4, <1>5, <1>6, <1>7, <1>8, <1>9, <1>10 DEF OwnerCalls

(* The rest of a call: the two steps of free(), then the maintenance bodies. *)
LEMMA FreeKeeps ==
  ASSUME BorrowInv, GateInv', NEW o \in Objects, FreeDestroying(o) \/ FreeCommit(o)
  PROVE  BorrowInv'
<1>1. TypeOK /\ BorrowCore /\ VictimsUnused /\ GateInv
  BY BorrowParts DEF BorrowInv
<1>T. /\ pool \in [Pools -> PoolRecord] /\ obj \in [Objects -> ObjectDesc]
      /\ op \in OpRecord
  BY <1>1 DEF TypeOK
<1>2. Holders(o) = {} /\ KeepsCounts
  BY <1>1, FreeKeepsCounts DEF FreeDestroying, FreeCommit, VictimsUnused
<1>3. obj[o].borrows = 0
  BY <1>1, <1>2, ZeroMeansUnheld DEF BorrowCore
<1>4. CASE FreeDestroying(o)
  <2>1. /\ obj'[o].borrows = 0 /\ obj'[o].state = "Destroying"
        /\ \A q \in Objects : q # o => obj'[q] = obj[q]
    BY <1>T, <1>3, <1>4 DEF FreeDestroying, ObjectDesc
  <2>2. op'.victim = op.victim /\ held' = held
    BY <1>T, <1>4 DEF FreeDestroying, OpRecord
  <2>3. QED BY <1>2, <2>1, <2>2, ObjStep
<1>5. CASE FreeCommit(o)
  <2>1. obj'[o].borrows = 0 /\ \A q \in Objects : q # o => obj'[q] = obj[q]
    BY <1>T, <1>5 DEF FreeCommit, FreeDesc
  <2>2. op'.victim = {} /\ held' = held
    BY <1>5, IdleOwnsNothing DEF FreeCommit
  <2>3. QED BY <1>2, <2>1, <2>2, ObjStep
<1>6. QED BY <1>4, <1>5

(* Moving a block and rewriting its pool_id: the object is in todo or in   *)
(* adopt, so nobody borrows it.                                            *)
LEMMA MoveKeeps ==
  ASSUME BorrowInv, GateInv', NEW o \in Objects,
         CompactMove(o) \/ MergeMove(o) \/ SplitMove(o) \/ MergeAdopt(o) \/ SplitAdopt(o)
  PROVE  BorrowInv'
<1>1. TypeOK /\ GateInv /\ VictimsUnused
  BY BorrowParts DEF BorrowInv
<1>T. obj \in [Objects -> ObjectDesc] /\ op \in OpRecord
  BY <1>1 DEF TypeOK
<1>2. op.pc \in MaintenancePc /\ o \in op.todo \cup op.adopt
  BY MovesOwned
<1>3. Holders(o) = {} /\ obj[o].borrows = 0
  BY <1>2, OwnedUnheld
<1>4. held' = held /\ KeepsCounts
  BY <1>1, MoveKeepsCounts DEF CompactMove, MergeMove, SplitMove, MergeAdopt, SplitAdopt
<1>5. op'.victim = op.victim
  BY <1>T DEF CompactMove, MergeMove, SplitMove, MergeAdopt, SplitAdopt, OpRecord
<1>6. /\ obj'[o].borrows = 0 /\ \A q \in Objects : q # o => obj'[q] = obj[q]
      /\ obj'[o].state = obj[o].state
  BY <1>T, <1>3 DEF CompactMove, MergeMove, SplitMove, MergeAdopt, SplitAdopt, Relocate, ObjectDesc
<1>7. o \in op'.victim => obj'[o].state # "Free"
  BY <1>1, <1>5, <1>6 DEF VictimsUnused
<1>8. QED BY <1>3, <1>4, <1>5, <1>6, <1>7, ObjStep

(* Planning, rewriting windows and counts, and the publications. *)
LEMMA PlanKeeps ==
  ASSUME BorrowInv, GateInv',
         CompactPlan \/ CompactPlanFails \/ MergePlan \/ SplitPlan \/ SplitPlanFails
  PROVE  BorrowInv'
<1>1. op \in OpRecord /\ GateInv
  BY BorrowParts DEF BorrowInv, TypeOK
<1>2. op'.victim = op.victim /\ UNCHANGED <<obj, held>>
  BY <1>1 DEF CompactPlan, CompactPlanFails, MergePlan, SplitPlan, SplitPlanFails, OpRecord
<1>3. KeepsCounts
  BY <1>1, PlanKeepsCounts
<1>4. QED BY <1>2, <1>3, PoolStep

LEMMA PublishKeeps ==
  ASSUME BorrowInv, GateInv',
         \/ CompactCommit \/ CompactRestore \/ MergeFirst \/ MergeCount \/ MergeCommit
         \/ SplitWindow \/ SplitCount \/ SplitCommit \/ SplitRestore
  PROVE  BorrowInv'
<1>1. op \in OpRecord /\ GateInv
  BY BorrowParts DEF BorrowInv, TypeOK
<1>2. UNCHANGED <<obj, held>>
  BY DEF CompactCommit, CompactRestore, MergeFirst, MergeCount, MergeCommit, SplitWindow,
         SplitCount, SplitCommit, SplitRestore
<1>3. op'.victim \subseteq op.victim
  <2>1. CASE MergeFirst \/ MergeCount \/ SplitWindow \/ SplitCount
    BY <1>1, <2>1 DEF MergeFirst, MergeCount, SplitWindow, SplitCount, OpRecord
  <2>2. CASE CompactCommit \/ CompactRestore \/ MergeCommit \/ SplitCommit \/ SplitRestore
    BY <2>2, IdleOwnsNothing
       DEF CompactCommit, CompactRestore, MergeCommit, SplitCommit, SplitRestore
  <2>3. QED BY <2>1, <2>2
<1>4. KeepsCounts
  BY <1>1, PublishKeepsCounts
<1>5. QED BY <1>2, <1>3, <1>4, PoolStep

-----------------------------------------------------------------------------
(* The theorems *)

LEMMA BorrowInvInit == Init => BorrowInv
<1> SUFFICES ASSUME Init PROVE BorrowInv
  OBVIOUS
<1>1. GateInv
  BY GateInit
<1>2. \A t \in Tasks : held[t] = {}
  BY DEF Init
<1>3. /\ \A p \in Pools : pool[p].borrows = 0
      /\ \A o \in Objects : obj[o].borrows = 0
  BY DEF Init, EmptyPool, FreeDesc
<1>4. /\ \A o \in Objects : Holders(o) = {}
      /\ \A p \in Pools : PoolHolders(p) = {}
  BY <1>2 DEF Holders, PoolHolders
<1>5. BorrowsConserved
  BY <1>3, <1>4, FS_EmptySet DEF BorrowsConserved
<1>6. OneBorrow /\ TokensLive
  BY <1>2 DEF OneBorrow, TokensLive
<1>7. VictimsUnused
  BY DEF Init, Idle, VictimsUnused
<1>8. QED BY <1>1, <1>5, <1>6, <1>7 DEF BorrowInv, BorrowCore

LEMMA BorrowInvNext ==
  ASSUME FreeRace = FALSE, BorrowInv, TypeOK', [Next]_vars
  PROVE  BorrowInv'
<1>1. GateInv /\ GateInv'
  BY GateNext DEF BorrowInv
<1>2. ASSUME NEW t \in Tasks, NEW r \in RawRef, BorrowBegin(t, r) PROVE BorrowInv'
  BY <1>1, <1>2, BeginKeeps
<1>3. ASSUME NEW t \in Tasks, BorrowEnd(t) PROVE BorrowInv'
  BY <1>1, <1>3, EndKeeps
<1>4. ASSUME NEW p \in Pools, Pause(p) \/ Resume(p) PROVE BorrowInv'
  <2>1. KeepsCounts
    BY <1>1, <1>4, FlipKeepsCounts
  <2>2. UNCHANGED <<obj, held, op>>
    BY <1>4 DEF Pause, Resume
  <2>3. QED BY <1>1, <2>1, <2>2, PoolStep
<1>5. CASE OwnerCalls
  BY <1>1, <1>5, OwnerCallsKeep
<1>6. CASE OwnerProceeds
  BY <1>1, <1>6, FreeKeeps, MoveKeeps, PlanKeeps, PublishKeeps DEF OwnerProceeds
<1>7. CASE UNCHANGED vars
  BY <1>1, <1>7 DEF vars, BorrowInv, BorrowCore, OneBorrow, TokensLive, BorrowsConserved,
     VictimsUnused, NamesLive, HintMatches, Holders, PoolHolders
<1>8. QED BY <1>2, <1>3, <1>4, <1>5, <1>6, <1>7 DEF Next, TaskNext

(* The inductive invariant holds in every reachable state. *)
THEOREM BorrowInvariant ==
  ASSUME FreeRace = FALSE
  PROVE  Spec => []BorrowInv
<1>1. BorrowInv /\ TypeOK' /\ [Next]_vars => BorrowInv'
  BY BorrowInvNext
<1>2. QED BY <1>1, BorrowInvInit, TypeInvariant, PTL DEF Spec

(* No compact, merge or split ever runs under an outstanding borrow: the   *)
(* locked Running test of borrow_begin and the locked arming blocks of the *)
(* owner exclude each other.                                               *)
THEOREM BorrowGateSafe ==
  ASSUME FreeRace = FALSE
  PROVE  Spec => []MaintenanceExcludesBorrows
<1>1. BorrowInv => MaintenanceExcludesBorrows
  BY BorrowParts, ZeroMeansUnheld
     DEF QuietUnlessOpen, MaintenanceExcludesBorrows, MaintenanceStates
<1>2. QED BY <1>1, BorrowInvariant, PTL

(* Both borrow counters always equal the number of outstanding borrows,    *)
(* also across merge and split, which move objects between pools.          *)
THEOREM BorrowCountsExact ==
  ASSUME FreeRace = FALSE
  PROVE  Spec => []BorrowsConserved
<1>1. BorrowInv => BorrowsConserved
  BY BorrowParts
<1>2. QED BY <1>1, BorrowInvariant, PTL

(* The pointer a borrow handed out stays good until the borrow ends, and   *)
(* its end is accepted.                                                    *)
THEOREM BorrowPointerStable ==
  ASSUME FreeRace = FALSE
  PROVE  Spec => []BorrowedStaysPut
<1>1. BorrowInv => BorrowedStaysPut
  BY EndAccepted DEF BorrowInv, BorrowCore, TokensLive, BorrowedStaysPut
<1>2. QED BY <1>1, BorrowInvariant, PTL

-----------------------------------------------------------------------------
(* The refinement *)

AbsGate  == [p \in Pools |-> GateOf(p)]
AbsWhere == [o \in Objects |-> PlaceOf(o)]
AbsUsers == [o \in Objects |-> obj[o].borrows]

(* What the abstract state sees of a step. *)
SameGates  == \A p \in Pools : GateOf(p)' = GateOf(p)
SamePlaces == \A o \in Objects : PlaceOf(o)' = PlaceOf(o)
SameUsers  == \A o \in Objects : obj'[o].borrows = obj[o].borrows

LEMMA Stutters ==
  ASSUME SameGates, SamePlaces, SameUsers
  PROVE  UNCHANGED Stable!stableVars
<1>1. AbsGate' = AbsGate
  BY DEF AbsGate, SameGates
<1>2. AbsWhere' = AbsWhere
  BY DEF AbsWhere, SamePlaces
<1>3. AbsUsers' = AbsUsers
  BY DEF AbsUsers, SameUsers
<1>4. QED BY <1>1, <1>2, <1>3 DEF Stable!stableVars, AbsGate, AbsWhere, AbsUsers

(* Closing or removing a pool is allowed when its objects are not in use. *)
LEMMA Regates ==
  ASSUME SamePlaces, SameUsers,
         \A p \in Pools :
           GateOf(p)' # GateOf(p) /\ GateOf(p)' \in {"held", "absent"} =>
             \A o \in Objects : PlaceOf(o).pool = p => obj[o].borrows = 0
  PROVE  Stable!Regate
<1>1. UNCHANGED <<AbsWhere, AbsUsers>>
  BY DEF AbsWhere, AbsUsers, SamePlaces, SameUsers
<1>2. AbsGate' = [p \in Pools |-> AbsGate'[p]]
  BY DEF AbsGate
<1>3. ASSUME NEW p \in Pools, AbsGate'[p] # AbsGate[p]
      PROVE  /\ AbsGate'[p] \in Stable!Gates
             /\ AbsGate'[p] \in {"held", "absent"} =>
                  \A o \in Objects : AbsWhere[o].pool = p => AbsUsers[o] = 0
  <2>1. GateOf(p)' # GateOf(p) /\ AbsGate'[p] = GateOf(p)'
    BY <1>3 DEF AbsGate
  <2>2. GateOf(p)' \in {"absent", "open", "shut", "held"}
    BY DEF GateOf
  <2>3. \A o \in Objects : AbsWhere[o].pool = PlaceOf(o).pool /\ AbsUsers[o] = obj[o].borrows
    BY DEF AbsWhere, AbsUsers
  <2>4. QED BY <2>1, <2>2, <2>3 DEF Stable!Gates
<1>4. QED BY <1>1, <1>2, <1>3
          DEF Stable!Regate, Stable!Unused, AbsGate, AbsWhere, AbsUsers

(* A step that leaves the tokens alone leaves the users alone. *)
LEMMA TokensGiveUsers ==
  ASSUME BorrowInv, BorrowInv', held' = held
  PROVE  SameUsers
<1>1. \A o \in Objects : Holders(o)' = Holders(o)
  BY DEF Holders
<1>2. QED BY <1>1 DEF SameUsers, BorrowInv, BorrowCore, BorrowsConserved

(* What the owner does to pools alone is a change of gates. *)
LEMMA PoolStepsRegate ==
  ASSUME BorrowInv, BorrowInv', UNCHANGED <<obj, held>>
  PROVE  Stable!Regate
<1>1. SameUsers /\ SamePlaces
  BY TokensGiveUsers DEF SamePlaces, PlaceOf
<1>2. \A p \in Pools : PoolHolders(p)' = PoolHolders(p)
  BY DEF PoolHolders
<1>3. ASSUME NEW p \in Pools, GateOf(p)' \in {"held", "absent"},
             NEW o \in Objects, PlaceOf(o).pool = p
      PROVE  obj[o].borrows = 0
  <2>1. pool'[p].state \notin {"Running", "Paused"}
    BY <1>3 DEF GateOf
  <2>2. pool'[p].borrows = 0
    BY <2>1 DEF BorrowInv, GateInv, QuietUnlessOpen
  <2>3. pool[p].borrows = 0
    BY <1>2, <2>2 DEF BorrowInv, BorrowCore, BorrowsConserved
  <2>4. obj[o].pool = p
    BY <1>3, PoolsAssumption DEF PlaceOf
  <2>5. QED BY <2>3, <2>4, QuietPool, ZeroMeansUnheld DEF BorrowInv, BorrowCore
<1>4. QED BY <1>1, <1>3, Regates

LEMMA PlaceTyped ==
  ASSUME TypeOK, NEW o \in Objects, obj[o].state # "Free"
  PROVE  /\ PlaceOf(o).pool = obj[o].pool /\ PlaceOf(o).pool \in Pools
         /\ PlaceOf(o) # Stable!Nowhere
<1>1. obj[o].pool \in Pools /\ obj[o].pool # -1
  BY PoolsAssumption DEF TypeOK, ObjectDesc
<1>2. PlaceOf(o) = [pool |-> obj[o].pool, at |-> obj[o].start]
  BY DEF PlaceOf
<1>3. QED BY <1>1, <1>2 DEF Stable!Nowhere

(* The objects the owner moves or hands over lie in closed pools. *)
LEMMA MovesRelocate ==
  ASSUME BorrowInv, BorrowInv', NEW o \in Objects,
         CompactMove(o) \/ MergeMove(o) \/ SplitMove(o) \/ MergeAdopt(o) \/ SplitAdopt(o)
  PROVE  Stable!Relocate(o) \/ UNCHANGED Stable!stableVars
<1>1. TypeOK /\ TypeOK' /\ OpOwns
  BY DEF BorrowInv, GateInv
<1>T. obj \in [Objects -> ObjectDesc] /\ op \in OpRecord
  BY <1>1 DEF TypeOK
<1>2. op.pc \in MaintenancePc /\ o \in op.todo \cup op.adopt
  BY MovesOwned
<1>3. obj[o].borrows = 0
  BY <1>2, OwnedUnheld
<1>4. pool' = pool /\ held' = held
  BY DEF CompactMove, MergeMove, SplitMove, MergeAdopt, SplitAdopt
<1>5. SameGates /\ SameUsers
  BY <1>4, TokensGiveUsers DEF SameGates, GateOf
<1>6. /\ \A q \in Objects : q # o => obj'[q] = obj[q]
      /\ obj'[o].state = obj[o].state /\ obj'[o].pool \in {obj[o].pool, op.tgt}
  BY <1>T DEF CompactMove, MergeMove, SplitMove, MergeAdopt, SplitAdopt, Relocate, ObjectDesc
<1>7. \A q \in Objects : q # o => PlaceOf(q)' = PlaceOf(q)
  BY <1>6 DEF PlaceOf
<1>8. CASE obj[o].state = "Free"
  <2>1. PlaceOf(o)' = PlaceOf(o)
    BY <1>6, <1>8 DEF PlaceOf
  <2>2. SamePlaces
    BY <1>7, <2>1 DEF SamePlaces
  <2>3. QED BY <1>5, <2>2, Stutters
<1>9. CASE obj[o].state # "Free"
  <2>1. /\ PlaceOf(o).pool = obj[o].pool /\ PlaceOf(o).pool \in Pools
        /\ PlaceOf(o) # Stable!Nowhere
    BY <1>1, <1>9, PlaceTyped
  <2>2. PlaceOf(o)'.pool = obj'[o].pool /\ PlaceOf(o)'.pool \in Pools
    <3>1. obj'[o].pool \in Pools /\ obj'[o].state # "Free"
      BY <1>1, <1>6, <1>9 DEF TypeOK, ObjectDesc
    <3>2. PlaceOf(o)' = [pool |-> obj'[o].pool, at |-> obj'[o].start]
      BY <3>1 DEF PlaceOf
    <3>3. QED BY <3>1, <3>2
  <2>3. GateOf(obj[o].pool) = "held" /\ GateOf(obj'[o].pool) = "held"
    BY <1>1, <1>2, <1>6 DEF OpOwns, GateOf, MaintenanceStates
  <2>4. AbsGate' = AbsGate /\ AbsUsers' = AbsUsers
    BY <1>5 DEF AbsGate, AbsUsers, SameGates, SameUsers
  <2>5. AbsWhere' = [AbsWhere EXCEPT ![o] = AbsWhere'[o]]
    BY <1>7 DEF AbsWhere
  <2>6. /\ AbsWhere[o] # Stable!Nowhere /\ AbsGate[AbsWhere[o].pool] = "held"
        /\ AbsUsers[o] = 0
        /\ AbsWhere'[o].pool \in Pools /\ AbsGate[AbsWhere'[o].pool] = "held"
    BY <1>3, <2>1, <2>2, <2>3 DEF AbsWhere, AbsGate, AbsUsers
  <2>7. Stable!Relocate(o)
    BY <2>4, <2>5, <2>6 DEF Stable!Relocate, AbsWhere, AbsGate, AbsUsers
  <2>8. QED BY <2>7
<1>10. QED BY <1>8, <1>9

LEMMA AllocAppears ==
  ASSUME BorrowInv, BorrowInv', NEW p \in Pools, NEW o \in Objects, NEW size \in Sizes,
         NEW pinned \in BOOLEAN, Alloc(p, o, size, pinned)
  PROVE  Stable!Appear(o)
<1>1. TypeOK /\ TypeOK'
  BY DEF BorrowInv, GateInv
<1>T. pool \in [Pools -> PoolRecord] /\ obj \in [Objects -> ObjectDesc]
  BY <1>1 DEF TypeOK
<1>2. \A q \in Pools : pool'[q].state = pool[q].state
  BY <1>T DEF Alloc, PoolRecord
<1>3. /\ obj[o].state = "Free" /\ obj'[o].state = "Live" /\ obj'[o].pool = p
      /\ \A q \in Objects : q # o => obj'[q] = obj[q]
      /\ pool[p].state = "Running" /\ held' = held
  BY <1>T DEF Alloc
<1>4. SameGates /\ SameUsers
  BY <1>2, <1>3, TokensGiveUsers DEF SameGates, GateOf
<1>5. AbsGate' = AbsGate /\ AbsUsers' = AbsUsers
  BY <1>4 DEF AbsGate, AbsUsers, SameGates, SameUsers
<1>6. \A q \in Objects : q # o => PlaceOf(q)' = PlaceOf(q)
  BY <1>3 DEF PlaceOf
<1>7. AbsWhere' = [AbsWhere EXCEPT ![o] = AbsWhere'[o]]
  BY <1>6 DEF AbsWhere
<1>8. AbsWhere[o] = Stable!Nowhere
  BY <1>3 DEF AbsWhere, PlaceOf, Stable!Nowhere
<1>9. AbsWhere'[o].pool = p /\ AbsGate[p] = "open"
  <2>1. PlaceOf(o)' = [pool |-> p, at |-> obj'[o].start]
    BY <1>3 DEF PlaceOf
  <2>2. QED BY <1>3, <2>1 DEF AbsWhere, AbsGate, GateOf
<1>10. QED BY <1>5, <1>7, <1>8, <1>9 DEF Stable!Appear, AbsWhere, AbsGate, AbsUsers

LEMMA FreeVanishes ==
  ASSUME BorrowInv, BorrowInv', NEW o \in Objects, FreeDestroying(o) \/ FreeCommit(o)
  PROVE  Stable!Vanish(o) \/ UNCHANGED Stable!stableVars
<1>1. TypeOK /\ TypeOK' /\ VictimsUnused /\ BorrowsConserved
  BY DEF BorrowInv, GateInv, BorrowCore
<1>T. pool \in [Pools -> PoolRecord] /\ obj \in [Objects -> ObjectDesc]
  BY <1>1 DEF TypeOK
<1>2. \A q \in Pools : pool'[q].state = pool[q].state
  BY <1>T DEF FreeDestroying, FreeCommit, PoolRecord
<1>3. SameGates /\ SameUsers
  BY <1>2, TokensGiveUsers DEF SameGates, GateOf, FreeDestroying, FreeCommit
<1>4. AbsGate' = AbsGate /\ AbsUsers' = AbsUsers
  BY <1>3 DEF AbsGate, AbsUsers, SameGates, SameUsers
<1>5. obj[o].borrows = 0
  BY <1>1, ZeroMeansUnheld DEF FreeDestroying, FreeCommit, VictimsUnused
<1>6. \A q \in Objects : q # o => PlaceOf(q)' = PlaceOf(q)
  BY <1>T DEF FreeDestroying, FreeCommit, PlaceOf
<1>7. AbsWhere' = [AbsWhere EXCEPT ![o] = AbsWhere'[o]]
  BY <1>6 DEF AbsWhere
<1>8. CASE PlaceOf(o)' = PlaceOf(o)
  BY <1>3, <1>6, <1>8, Stutters DEF SamePlaces
<1>9. CASE PlaceOf(o)' # PlaceOf(o)
  <2>1. FreeCommit(o) /\ obj[o].state # "Free"
    <3>1. CASE FreeDestroying(o)
      <4>1. obj[o].state # "Free"
        BY <1>1, <3>1 DEF FreeDestroying, VictimsUnused
      <4>2. /\ obj'[o].state = "Destroying" /\ obj'[o].pool = obj[o].pool
            /\ obj'[o].start = obj[o].start
        BY <1>T, <3>1 DEF FreeDestroying, ObjectDesc
      <4>3. QED BY <1>9, <4>1, <4>2 DEF PlaceOf
    <3>2. CASE FreeCommit(o) /\ obj[o].state = "Free"
      <4>1. obj'[o].state = "Free"
        BY <1>T, <3>2 DEF FreeCommit, FreeDesc
      <4>2. QED BY <1>9, <3>2, <4>1 DEF PlaceOf
    <3>3. QED BY <3>1, <3>2
  <2>2. AbsWhere[o] # Stable!Nowhere
    BY <1>1, <2>1, PlaceTyped DEF AbsWhere
  <2>3. AbsWhere'[o] = Stable!Nowhere
    <3>1. obj'[o].state = "Free"
      BY <1>T, <2>1 DEF FreeCommit, FreeDesc
    <3>2. QED BY <3>1 DEF AbsWhere, PlaceOf, Stable!Nowhere
  <2>4. Stable!Vanish(o)
    BY <1>4, <1>5, <1>7, <2>2, <2>3 DEF Stable!Vanish, AbsWhere, AbsGate, AbsUsers
  <2>5. QED BY <2>4
<1>10. QED BY <1>8, <1>9

LEMMA BeginEnters ==
  ASSUME FreeRace = FALSE, BorrowInv, NEW t \in Tasks, NEW r \in RawRef, BorrowBegin(t, r)
  PROVE  Stable!Enter(r.obj)
<1> DEFINE o == r.obj
           p == obj[r.obj].pool
<1>1. TypeOK
  BY BorrowParts
<1>T. pool \in [Pools -> PoolRecord] /\ obj \in [Objects -> ObjectDesc]
      /\ o \in Objects /\ p \in Pools
  BY <1>1 DEF TypeOK, RawRef, ObjectDesc
<1>2. obj[o].state = "Live" /\ pool[p].state = "Running"
  <2>1. CheckRef(r) = "Ok"
    BY DEF BorrowBegin
  <2>2. QED BY <2>1 DEF CheckRef, NamesLive
<1>3. \A q \in Objects : /\ obj'[q].state = obj[q].state
                         /\ obj'[q].pool = obj[q].pool /\ obj'[q].start = obj[q].start
                         /\ obj'[q].borrows = IF q = o THEN obj[q].borrows + 1 ELSE obj[q].borrows
  BY <1>T DEF BorrowBegin, ObjectDesc
<1>4. \A q \in Pools : pool'[q].state = pool[q].state
  BY <1>T DEF BorrowBegin, PoolRecord
<1> HIDE DEF o, p
<1>5. AbsGate' = AbsGate /\ AbsWhere' = AbsWhere
  BY <1>3, <1>4 DEF AbsGate, AbsWhere, GateOf, PlaceOf
<1>6. AbsUsers' = [AbsUsers EXCEPT ![o] = @ + 1]
  BY <1>3 DEF AbsUsers
<1>7. AbsWhere[o] # Stable!Nowhere /\ AbsGate[AbsWhere[o].pool] = "open"
  <2>1. PlaceOf(o).pool = p /\ PlaceOf(o) # Stable!Nowhere
    BY <1>1, <1>T, <1>2, PlaceTyped DEF o, p
  <2>2. QED BY <1>T, <1>2, <2>1 DEF AbsWhere, AbsGate, GateOf
<1>8. Stable!Enter(o)
  BY <1>5, <1>6, <1>7 DEF Stable!Enter, AbsGate, AbsWhere, AbsUsers
<1>9. QED BY <1>8 DEF o

LEMMA EndLeaves ==
  ASSUME BorrowInv, NEW t \in Tasks, BorrowEnd(t)
  PROVE  \E o \in Objects : Stable!Leave(o)
<1>1. TypeOK
  BY BorrowParts
<1>2. PICK k \in held[t] : BorrowEnd(t)!(k)
  BY DEF BorrowEnd
<1> DEFINE o == k.obj
           p == obj[k.obj].pool
<1>T. pool \in [Pools -> PoolRecord] /\ obj \in [Objects -> ObjectDesc]
      /\ o \in Objects /\ p \in Pools
  BY <1>1 DEF TypeOK, Token, ObjectDesc
<1>3. TokenMatches(k)
  BY EndAccepted
<1>4. /\ pool' = [pool EXCEPT ![p].borrows = @ - 1]
      /\ obj' = [obj EXCEPT ![o].borrows = @ - 1]
  BY <1>2, <1>3
<1>5. \A q \in Objects : /\ obj'[q].state = obj[q].state
                         /\ obj'[q].pool = obj[q].pool /\ obj'[q].start = obj[q].start
                         /\ obj'[q].borrows = IF q = o THEN obj[q].borrows - 1 ELSE obj[q].borrows
  BY <1>T, <1>4 DEF ObjectDesc
<1>6. \A q \in Pools : pool'[q].state = pool[q].state
  BY <1>T, <1>4 DEF PoolRecord
<1>7. obj[o].borrows > 0
  BY <1>3 DEF TokenMatches
<1> HIDE DEF o, p
<1>8. AbsGate' = AbsGate /\ AbsWhere' = AbsWhere
  BY <1>5, <1>6 DEF AbsGate, AbsWhere, GateOf, PlaceOf
<1>9. AbsUsers' = [AbsUsers EXCEPT ![o] = @ - 1] /\ AbsUsers[o] > 0
  BY <1>T, <1>5, <1>7 DEF AbsUsers
<1>10. Stable!Leave(o)
  BY <1>8, <1>9 DEF Stable!Leave, AbsGate, AbsWhere, AbsUsers
<1>11. QED BY <1>T, <1>10

-----------------------------------------------------------------------------
(* The refinement theorem *)

LEMMA InitRefines == Init => Stable!StableInit
  BY DEF Init, Stable!StableInit, GateOf, PlaceOf, EmptyPool, FreeDesc, Stable!Nowhere

LEMMA NextRefines ==
  ASSUME FreeRace = FALSE, BorrowInv, BorrowInv', [Next]_vars
  PROVE  [Stable!StableNext]_(Stable!stableVars)
<1>1. ASSUME NEW t \in Tasks, NEW r \in RawRef, BorrowBegin(t, r) PROVE Stable!StableNext
  BY <1>1, BeginEnters DEF RawRef, Stable!StableNext
<1>2. ASSUME NEW t \in Tasks, BorrowEnd(t) PROVE Stable!StableNext
  BY <1>2, EndLeaves DEF Stable!StableNext
<1>3. ASSUME NEW p \in Pools, Pause(p) \/ Resume(p) PROVE Stable!StableNext
  BY <1>3, PoolStepsRegate DEF Pause, Resume, Stable!StableNext
<1>4. CASE OwnerCalls
  <2>1. CASE \E p \in Pools, o \in Objects, size \in Sizes, pinned \in BOOLEAN :
               Alloc(p, o, size, pinned)
    BY <2>1, AllocAppears DEF Stable!StableNext
  <2>2. CASE UNCHANGED <<obj, held>>
    BY <2>2, PoolStepsRegate DEF Stable!StableNext
  <2>3. QED BY <1>4, <2>1, <2>2
            DEF OwnerCalls, CreatePool, DestroyPool, FreeCheck, CompactRefused, CompactArm,
                MergeArm, SplitArm
<1>5. CASE OwnerProceeds
  <2>1. CASE \E o \in Objects : \/ FreeDestroying(o) \/ FreeCommit(o)
                                \/ CompactMove(o) \/ MergeMove(o) \/ MergeAdopt(o)
                                \/ SplitMove(o) \/ SplitAdopt(o)
    BY <2>1, FreeVanishes, MovesRelocate DEF Stable!StableNext
  <2>2. CASE UNCHANGED <<obj, held>>
    BY <2>2, PoolStepsRegate DEF Stable!StableNext
  <2>3. QED BY <1>5, <2>1, <2>2
            DEF OwnerProceeds, CompactPlan, CompactPlanFails, CompactCommit, CompactRestore,
                MergePlan, MergeFirst, MergeCount, MergeCommit, SplitPlan, SplitPlanFails,
                SplitWindow, SplitCount, SplitCommit, SplitRestore
<1>6. CASE UNCHANGED vars
  <2>1. UNCHANGED <<obj, held>>
    BY <1>6 DEF vars
  <2>2. QED BY <2>1, PoolStepsRegate DEF Stable!StableNext
<1>7. QED BY <1>1, <1>2, <1>3, <1>4, <1>5, <1>6 DEF Next, TaskNext

(* The protocol implements StableAccess: an object in use never moves,     *)
(* changes pool or vanishes, whatever the interleaving.                    *)
THEOREM ProtocolRefines ==
  ASSUME FreeRace = FALSE
  PROVE  Spec => ImplementsStableAccess
<1>1. BorrowInv /\ BorrowInv' /\ [Next]_vars => [Stable!StableNext]_(Stable!stableVars)
  BY NextRefines
<1>2. QED BY <1>1, InitRefines, BorrowInvariant, PTL
          DEF Spec, ImplementsStableAccess, Stable!StableSpec

-----------------------------------------------------------------------------
(***************************************************************************)
(* Where blocks lie, for every geometry of the zone and every set of pools *)
(* and objects: no move of a compact, merge or split lands on a block in   *)
(* use, and pools and windows agree whenever nothing is in maintenance.    *)
(* Borrows play no part in this: it holds with and without the free race.  *)
(***************************************************************************)
Used(o)   == obj[o].state # "Free"
UsedIn(p) == {o \in Objects : Used(o) /\ obj[o].pool = p}
There(p)  == pool[p].state # "Empty"

(* A merge or split has one span for its two pools: the windows they had   *)
(* or will have together, while first and count are rewritten.             *)
InPair(p) == op.pc \in MergeSteps \cup SplitSteps /\ p \in {op.src, op.tgt}

SpanFirst ==
  IF op.pc \in SplitSteps THEN pool[op.src].first
  ELSE IF op.pc \in {"merge-count", "merge-commit"} THEN pool[op.tgt].first
  ELSE pool[Lower(op.src, op.tgt)].first

SpanCount ==
  IF op.pc \in SplitSteps THEN op.keep + op.fresh
  ELSE IF op.pc = "merge-commit" THEN pool[op.tgt].count
  ELSE pool[op.src].count + pool[op.tgt].count

First(p) == IF InPair(p) THEN SpanFirst ELSE pool[p].first
Past(p)  == IF InPair(p) THEN SpanFirst + SpanCount ELSE pool[p].first + pool[p].count

(* Blocks have a size, and only free() has one in state Destroying.        *)
Blocks ==
  /\ \A o \in Objects : Used(o) => obj[o].size > 0
  /\ \A o \in Objects : obj[o].state = "Destroying" => op.pc = "free-destroying" /\ op.victim = {o}
  /\ op.pc \in FreeSteps => \E o \in Objects : op.victim = {o} /\ Used(o)

(* What the owner's place in a call says of the pools it has armed.        *)
OpShape ==
  /\ op.pc \in CompactSteps => op.tgt = op.src /\ pool[op.src].state = "Compacting"
  /\ op.pc \in MergeSteps =>
       op.src # op.tgt /\ pool[op.src].state = "Merging" /\ pool[op.tgt].state = "Merging"
  /\ op.pc \in {"merge-plan", "merge-move"} =>
       /\ JustBelow(op.src, op.tgt) \/ JustBelow(op.tgt, op.src)
       /\ pool[op.src].count > 0 /\ pool[op.tgt].count > 0
  /\ op.pc \in SplitSteps =>
       /\ op.src # op.tgt /\ pool[op.src].state = "Splitting" /\ pool[op.tgt].state = "Splitting"
       /\ op.keep > 0 /\ op.fresh > 0
       /\ pool[op.src].count = IF op.pc = "split-commit" THEN op.keep ELSE op.keep + op.fresh
  /\ op.pc \in {"split-adopt", "split-commit"} =>
       pool[op.tgt].first = pool[op.src].first + op.keep /\ pool[op.tgt].count = op.fresh

(* Windows are in the zone and apart, but for the pair of a merge or split.*)
Windows ==
  /\ \A p \in Pools : There(p) => First(p) < Past(p) /\ Past(p) <= Segments
  /\ \A p, q \in Pools : p # q /\ There(p) /\ There(q) =>
       Past(p) <= First(q) \/ Past(q) <= First(p) \/ (InPair(p) /\ InPair(q))

(* Every block lies in the window, or the span, of its pool.               *)
Inside ==
  \A o \in Objects : Used(o) =>
    /\ There(obj[o].pool)
    /\ First(obj[o].pool) * SegUnits <= obj[o].start
    /\ BlockEnd(o) <= Past(obj[o].pool) * SegUnits

(* Whose the objects of the pair are, and on which side of the boundary.   *)
Sides ==
  /\ op.pc = "merge-move" => op.adopt = UsedIn(op.src)
  /\ op.pc \in {"merge-count", "merge-commit"} => UsedIn(op.src) = {}
  /\ op.pc \in {"split-plan", "split-move", "split-fail"} => UsedIn(op.tgt) = {}
  /\ op.pc \in {"split-adopt", "split-commit"} =>
       /\ op.adopt \subseteq UsedIn(op.src)
       /\ \A o \in UsedIn(op.src) \ op.adopt : BlockEnd(o) <= Boundary
       /\ \A o \in UsedIn(op.tgt) \cup op.adopt : Boundary <= obj[o].start
  /\ op.pc = "split-commit" => op.adopt = {}

Moving == UsedIn(op.src) \cup UsedIn(op.tgt)

(* compact and merge slide blocks down, the lowest first: what lies below  *)
(* a block that still moves lies, or will lie, below its destination.      *)
Slides ==
  op.pc \in {"compact-move", "merge-move"} =>
    /\ op.todo \subseteq Moving
    /\ \A a \in op.todo :
         /\ First(op.src) * SegUnits <= op.to[a] /\ op.to[a] <= obj[a].start
         /\ obj[a].pinned => op.to[a] = obj[a].start
         /\ \A b \in Moving : obj[b].start < obj[a].start =>
              (IF b \in op.todo THEN op.to[b] ELSE obj[b].start) + obj[b].size <= op.to[a]

(* split keeps the order of the blocks; the ones that go below the         *)
(* boundary are below it and slide down.                                   *)
Splits ==
  op.pc = "split-move" =>
    /\ op.todo \subseteq UsedIn(op.src) /\ \A a \in op.todo : ~obj[a].pinned
    /\ \A b \in UsedIn(op.src) :
         /\ pool[op.src].first * SegUnits <= op.to[b]
         /\ op.to[b] + obj[b].size <= (pool[op.src].first + pool[op.src].count) * SegUnits
         /\ b \notin op.todo => op.to[b] = obj[b].start
         /\ op.to[b] < Boundary => op.to[b] + obj[b].size <= Boundary
         /\ op.to[b] < Boundary /\ b \in op.todo =>
              BlockEnd(b) <= Boundary /\ op.to[b] <= obj[b].start
    /\ \A a, b \in UsedIn(op.src) : obj[a].start < obj[b].start =>
         op.to[a] + obj[a].size <= op.to[b]

(* live_objects counts the objects of a pool, but in the middle of a merge *)
(* or split.                                                               *)
Counts ==
  /\ \A p \in Pools : There(p) /\ ~InPair(p) => pool[p].live = Cardinality(UsedIn(p))
  /\ op.pc = "merge-commit" => pool[op.tgt].live = Cardinality(UsedIn(op.tgt))
  /\ op.pc \in SplitSteps \ {"split-commit"} => pool[op.src].live = Cardinality(Moving)
  /\ op.pc = "split-commit" => /\ pool[op.src].live = Cardinality(UsedIn(op.src))
                               /\ pool[op.tgt].live = Cardinality(UsedIn(op.tgt))

Layout ==
  /\ Blocks /\ OpShape /\ Windows /\ Inside /\ Sides /\ Slides /\ Splits /\ Counts
  /\ LiveBlocksDisjoint

-----------------------------------------------------------------------------
(* Numbers and types *)

LEMMA Scale ==
  ASSUME NEW a \in Nat, NEW b \in Nat, a <= b
  PROVE  a * SegUnits \in Nat /\ b * SegUnits \in Nat /\ a * SegUnits <= b * SegUnits
  BY SegAssumption

LEMMA Fields ==
  ASSUME TypeOK
  PROVE  /\ \A p \in Pools : /\ pool[p].first \in Nat /\ pool[p].count \in Nat
                             /\ pool[p].live \in Int /\ pool[p].state \in PoolStates
         /\ \A o \in Objects : /\ obj[o].pool \in Pools /\ obj[o].start \in Nat
                               /\ obj[o].size \in Nat /\ op.to[o] \in Nat
         /\ op.src \in Pools /\ op.tgt \in Pools /\ op.keep \in Nat /\ op.fresh \in Nat
         /\ op.todo \subseteq Objects /\ op.adopt \subseteq Objects
  BY DEF TypeOK, PoolRecord, ObjectDesc, OpRecord

(* A set of objects has one whose block starts lowest.                     *)
LEMMA LowestBlock ==
  ASSUME TypeOK, NEW S \in SUBSET Objects, S # {}
  PROVE  \E a \in S : \A b \in S : obj[a].start <= obj[b].start
<1> DEFINE N == {obj[o].start : o \in S}
<1>1. N \in SUBSET Nat /\ N # {}
  BY Fields
<1>2. PICK m \in N : \A n \in N : m <= n
  BY <1>1, LeastNumber
<1>3. PICK a \in S : m = obj[a].start
  BY <1>2
<1>4. QED BY <1>2, <1>3

(* A packing slides blocks down: one that went up would need a lower one   *)
(* that went up, and the lowest of those has none.                         *)
LEMMA PacksDown ==
  ASSUME TypeOK, Blocks, LiveBlocksDisjoint, NEW R \in SUBSET Objects, \A o \in R : Used(o),
         NEW f, \A o \in R : f[o] \in Nat, NEW base \in Nat, NEW limit,
         Packs(f, R, base, limit), \A o \in R : base <= obj[o].start
  PROVE  \A o \in R : f[o] <= obj[o].start
<1> DEFINE Up == {o \in R : f[o] > obj[o].start}
<1>1. SUFFICES ASSUME Up # {} PROVE FALSE
  BY Fields
<1>2. PICK o \in Up : \A q \in Up : obj[o].start <= obj[q].start
  BY <1>1, LowestBlock
<1>3. o \in R /\ f[o] > obj[o].start /\ o \in Objects
  OBVIOUS
<1>4. ~obj[o].pinned /\ f[o] # base
  BY <1>3, Fields DEF Packs
<1>5. PICK q \in Below(R, o) : f[o] = f[q] + obj[q].size
  BY <1>3, <1>4 DEF Packs
<1>6. q \in R /\ q \in Objects /\ obj[q].start < obj[o].start
  BY <1>5 DEF Below
<1>7. f[q] <= obj[q].start
  BY <1>2, <1>6, Fields
<1>8. obj[q].start + obj[q].size <= obj[o].start
  BY <1>3, <1>6, Fields DEF LiveBlocksDisjoint, BlockEnd, Used, Blocks
<1>9. QED BY <1>3, <1>5, <1>6, <1>7, <1>8, Fields

(* Of two blocks one lies below the other.                                 *)
LEMMA Ordered ==
  ASSUME TypeOK, Blocks, LiveBlocksDisjoint, NEW a \in Objects, NEW b \in Objects,
         Used(a), Used(b), a # b
  PROVE  /\ obj[a].start # obj[b].start
         /\ obj[a].start < obj[b].start => obj[a].start + obj[a].size <= obj[b].start
  BY Fields DEF LiveBlocksDisjoint, BlockEnd, Used, Blocks

-----------------------------------------------------------------------------
(* Frames *)

LEMMA WindowsFrame ==
  ASSUME Windows,
         \A p \in Pools : /\ There(p)' => There(p) /\ First(p)' = First(p) /\ Past(p)' = Past(p)
                          /\ There(p)' /\ InPair(p) => InPair(p)'
  PROVE  Windows'
<1>1. \A p \in Pools : There(p)' => First(p)' < Past(p)' /\ Past(p)' <= Segments
  BY DEF Windows
<1>2. ASSUME NEW p \in Pools, NEW q \in Pools, p # q, There(p)', There(q)'
      PROVE  Past(p)' <= First(q)' \/ Past(q)' <= First(p)' \/ (InPair(p)' /\ InPair(q)')
  BY <1>2 DEF Windows
<1>3. QED BY <1>1, <1>2 DEF Windows

(* A step that leaves blocks alone.                                        *)
LEMMA BlocksFrame ==
  ASSUME Layout, TypeOK, obj' = obj, op.pc \notin FreeSteps, op'.pc \notin FreeSteps,
         \A p \in Pools : UsedIn(p) # {} /\ There(p) =>
           There(p)' /\ First(p)' = First(p) /\ Past(p)' = Past(p)
  PROVE  Blocks' /\ Inside' /\ LiveBlocksDisjoint' /\ \A p \in Pools : UsedIn(p)' = UsedIn(p)
<1>1. \A o \in Objects : Used(o)' = Used(o) /\ BlockEnd(o)' = BlockEnd(o)
  BY DEF Used, BlockEnd
<1>2. Blocks'
  BY <1>1 DEF Layout, Blocks, FreeSteps
<1>3. Inside'
  <2>1. ASSUME NEW o \in Objects, Used(o)
        PROVE  /\ There(obj[o].pool)'
               /\ First(obj[o].pool)' * SegUnits <= obj[o].start
               /\ BlockEnd(o) <= Past(obj[o].pool)' * SegUnits
    <3>1. obj[o].pool \in Pools /\ UsedIn(obj[o].pool) # {} /\ There(obj[o].pool)
      BY <2>1, Fields DEF UsedIn, Layout, Inside
    <3>2. /\ There(obj[o].pool)' /\ First(obj[o].pool)' = First(obj[o].pool)
          /\ Past(obj[o].pool)' = Past(obj[o].pool)
      BY <3>1
    <3>3. QED BY <2>1, <3>2 DEF Layout, Inside
  <2>2. QED BY <1>1, <2>1 DEF Inside
<1>4. LiveBlocksDisjoint'
  BY <1>1 DEF Layout, LiveBlocksDisjoint, Used
<1>5. QED BY <1>1, <1>2, <1>3, <1>4 DEF UsedIn

(* Windows hold whole numbers of units, and so do spans.                   *)
LEMMA SpanTypes ==
  ASSUME TypeOK, NEW p \in Pools
  PROVE  First(p) \in Nat /\ Past(p) \in Nat
<1>1. Lower(op.src, op.tgt) \in Pools
  BY Fields DEF Lower
<1>2. SpanFirst \in Nat /\ SpanCount \in Nat
  BY <1>1, Fields DEF SpanFirst, SpanCount
<1>3. QED BY <1>2, Fields DEF First, Past

LEMMA InsideIf ==
  ASSUME \A o \in Objects : obj'[o].pool \in Pools,
         \A o \in Objects, p \in Pools : Used(o)' /\ obj'[o].pool = p =>
           /\ There(p)' /\ First(p)' * SegUnits <= obj'[o].start
           /\ BlockEnd(o)' <= Past(p)' * SegUnits
  PROVE  Inside'
  BY DEF Inside

(* What lies in one window or span meets no block of another.              *)
LEMMA Elsewhere ==
  ASSUME TypeOK, Layout, NEW p \in Pools, NEW b \in Objects, There(p), Used(b), obj[b].pool # p,
         ~(InPair(p) /\ InPair(obj[b].pool)), NEW lo \in Nat, NEW hi \in Nat,
         First(p) * SegUnits <= lo, hi <= Past(p) * SegUnits
  PROVE  hi <= obj[b].start \/ BlockEnd(b) <= lo
<1> DEFINE q == obj[b].pool
<1>1. /\ q \in Pools /\ There(q) /\ First(q) * SegUnits <= obj[b].start
      /\ BlockEnd(b) <= Past(q) * SegUnits
      /\ obj[b].start \in Nat /\ BlockEnd(b) \in Nat
  BY Fields DEF Layout, Inside, BlockEnd
<1>2. Past(p) <= First(q) \/ Past(q) <= First(p)
  BY <1>1 DEF Layout, Windows
<1>3. First(p) \in Nat /\ Past(p) \in Nat /\ First(q) \in Nat /\ Past(q) \in Nat
  BY <1>1, SpanTypes
<1> HIDE DEF q
<1>4. CASE Past(p) <= First(q)
  <2>1. /\ Past(p) * SegUnits <= First(q) * SegUnits
        /\ Past(p) * SegUnits \in Nat /\ First(q) * SegUnits \in Nat
    BY <1>3, <1>4, Scale
  <2>2. QED BY <1>1, <2>1
<1>5. CASE Past(q) <= First(p)
  <2>1. /\ Past(q) * SegUnits <= First(p) * SegUnits
        /\ Past(q) * SegUnits \in Nat /\ First(p) * SegUnits \in Nat
    BY <1>3, <1>5, Scale
  <2>2. QED BY <1>1, <2>1
<1>6. QED BY <1>2, <1>4, <1>5

(* Borrow counts and pauses are no business of the layout.                 *)
LEMMA SameLayout ==
  ASSUME TypeOK, Layout, op' = op,
         \A p \in Pools : /\ pool'[p].first = pool[p].first /\ pool'[p].count = pool[p].count
                          /\ pool'[p].live = pool[p].live
                          /\ \/ pool'[p].state = pool[p].state
                             \/ {pool[p].state, pool'[p].state} \subseteq {"Running", "Paused"},
         \A o \in Objects : /\ obj'[o].state = obj[o].state /\ obj'[o].pool = obj[o].pool
                            /\ obj'[o].start = obj[o].start /\ obj'[o].size = obj[o].size
                            /\ obj'[o].pinned = obj[o].pinned
  PROVE  Layout'
<1>1. \A o \in Objects : Used(o)' = Used(o) /\ BlockEnd(o)' = BlockEnd(o)
  BY DEF Used, BlockEnd
<1>2. \A p \in Pools : UsedIn(p)' = UsedIn(p) /\ There(p)' = There(p) /\ InPair(p)' = InPair(p)
  BY <1>1 DEF UsedIn, There, InPair
<1>3. op.src \in Pools /\ op.tgt \in Pools /\ Lower(op.src, op.tgt) \in Pools
  BY Fields DEF Lower
<1>4. Lower(op.src, op.tgt)' = Lower(op.src, op.tgt)
  BY <1>3 DEF Lower
<1>5. SpanFirst' = SpanFirst /\ SpanCount' = SpanCount
  BY <1>3, <1>4 DEF SpanFirst, SpanCount
<1>6. \A p \in Pools : First(p)' = First(p) /\ Past(p)' = Past(p)
  BY <1>2, <1>5 DEF First, Past
<1>7. Moving' = Moving /\ Boundary' = Boundary
  BY <1>2, <1>3 DEF Moving, Boundary
<1>8. Blocks' /\ LiveBlocksDisjoint'
  BY <1>1 DEF Layout, Blocks, LiveBlocksDisjoint, Used
<1>9. OpShape'
  BY <1>3 DEF Layout, OpShape, JustBelow
<1>10. Windows'
  BY <1>2, <1>6, WindowsFrame DEF Layout
<1>11. Inside'
  BY <1>1, <1>2, <1>6, Fields DEF Layout, Inside
<1>12. Sides'
  BY <1>1, <1>2, <1>3, <1>7, Fields DEF Layout, Sides, UsedIn
<1>13. Slides'
  BY <1>3, <1>6, <1>7, Fields DEF Layout, Slides, Moving, UsedIn
<1>14. Splits'
  BY <1>1, <1>2, <1>3, <1>7, Fields DEF Layout, Splits, UsedIn
<1>15. Counts'
  BY <1>2, <1>3, <1>7 DEF Layout, Counts
<1>16. QED BY <1>8, <1>9, <1>10, <1>11, <1>12, <1>13, <1>14, <1>15 DEF Layout

(* What is left to show when a call has ended.                             *)
LEMMA AtIdle ==
  ASSUME op'.pc = "idle"
  PROVE  /\ OpShape' /\ Sides' /\ Slides' /\ Splits' /\ \A p : ~InPair(p)'
         /\ (\A p \in Pools : There(p)' => pool'[p].live = Cardinality(UsedIn(p)')) => Counts'
<1>1. /\ op'.pc \notin CompactSteps /\ op'.pc \notin MergeSteps /\ op'.pc \notin SplitSteps
      /\ op'.pc \notin {"merge-plan", "merge-move", "split-adopt", "split-commit", "merge-count",
                        "merge-commit", "split-plan", "split-move", "split-fail", "compact-move"}
  BY DEF CompactSteps, MergeSteps, SplitSteps
<1>2. OpShape'
  BY <1>1 DEF OpShape
<1>3. Sides' /\ Slides' /\ Splits' /\ \A p : ~InPair(p)'
  BY <1>1 DEF Sides, Slides, Splits, InPair
<1>4. (\A p \in Pools : There(p)' => pool'[p].live = Cardinality(UsedIn(p)')) => Counts'
  BY <1>1 DEF Counts
<1>5. QED BY <1>2, <1>3, <1>4

LEMMA NoPair ==
  ASSUME op.pc \notin MergeSteps \cup SplitSteps, NEW p
  PROVE  ~InPair(p) /\ First(p) = pool[p].first /\ Past(p) = pool[p].first + pool[p].count
  BY DEF InPair, First, Past

-----------------------------------------------------------------------------
(* Tasks, and calls of one step *)

LEMMA TaskKeeps ==
  ASSUME TypeOK, Layout, TaskNext
  PROVE  Layout'
<1>T. pool \in [Pools -> PoolRecord] /\ obj \in [Objects -> ObjectDesc] /\ held \in [Tasks -> SUBSET Token]
  BY DEF TypeOK
<1>1. ASSUME NEW t \in Tasks, NEW r \in RawRef, BorrowBegin(t, r) PROVE Layout'
  <2>1. r.obj \in Objects /\ obj[r.obj].pool \in Pools
    BY <1>T DEF RawRef, ObjectDesc
  <2>2. /\ pool' = [pool EXCEPT ![obj[r.obj].pool].borrows = @ + 1]
        /\ obj' = [obj EXCEPT ![r.obj].borrows = @ + 1] /\ op' = op
    BY <1>1 DEF BorrowBegin
  <2>3. QED BY <1>T, <2>1, <2>2, SameLayout DEF PoolRecord, ObjectDesc
<1>2. ASSUME NEW t \in Tasks, BorrowEnd(t) PROVE Layout'
  <2>1. PICK k \in held[t] : BorrowEnd(t)!(k)
    BY <1>2 DEF BorrowEnd
  <2>2. k.obj \in Objects /\ obj[k.obj].pool \in Pools
    BY <1>T DEF Token, ObjectDesc
  <2>3. CASE TokenMatches(k)
    <3>1. /\ pool' = [pool EXCEPT ![obj[k.obj].pool].borrows = @ - 1]
          /\ obj' = [obj EXCEPT ![k.obj].borrows = @ - 1] /\ op' = op
      BY <2>1, <2>3
    <3>2. QED BY <1>T, <2>2, <3>1, SameLayout DEF PoolRecord, ObjectDesc
  <2>4. CASE ~TokenMatches(k)
    <3>1. pool' = pool /\ obj' = obj /\ op' = op
      BY <2>1, <2>4
    <3>2. QED BY <3>1, SameLayout
  <2>5. QED BY <2>3, <2>4
<1>3. ASSUME NEW p \in Pools, Pause(p) \/ Resume(p) PROVE Layout'
  BY <1>T, <1>3, SameLayout DEF Pause, Resume, PoolRecord
<1>4. QED BY <1>1, <1>2, <1>3 DEF TaskNext

LEMMA UsedFinite ==
  ASSUME NEW p
  PROVE  UsedIn(p) \in SUBSET Objects /\ IsFiniteSet(UsedIn(p)) /\ Cardinality(UsedIn(p)) \in Nat
<1>1. UsedIn(p) \in SUBSET Objects
  BY DEF UsedIn
<1>2. QED BY <1>1, ObjectsAssumption, FS_Subset, FS_CardinalityType

(* At idle the windows are the pools' own and the counts exact.            *)
LEMMA Idling ==
  ASSUME Layout, op.pc = "idle"
  PROVE  /\ op.pc \notin FreeSteps /\ op.pc \notin MergeSteps \cup SplitSteps
         /\ \A p \in Pools : There(p) => pool[p].live = Cardinality(UsedIn(p))
         /\ \A p \in Pools : ~There(p) => UsedIn(p) = {}
         /\ \A p : /\ ~InPair(p) /\ First(p) = pool[p].first
                   /\ Past(p) = pool[p].first + pool[p].count
         /\ \A o \in Objects : obj[o].state # "Destroying"
<1>1. op.pc \notin FreeSteps /\ op.pc \notin MergeSteps \cup SplitSteps
  BY DEF FreeSteps, MergeSteps, SplitSteps
<1>2. QED BY <1>1, NoPair DEF Layout, Counts, Inside, UsedIn, Blocks, FreeSteps

LEMMA CreateKeeps ==
  ASSUME TypeOK, Layout, NEW n \in 1 .. Segments, CreatePool(n)
  PROVE  Layout'
<1>1. PICK new \in Pools, base \in 0 .. Segments - n :
        /\ FirstEmpty(new) /\ FreeRun(base, n)
        /\ pool' = [pool EXCEPT ![new] =
                      [EmptyPool EXCEPT !.state = "Running", !.first = base, !.count = n]]
  BY DEF CreatePool
<1>2. op.pc = "idle" /\ op' = op /\ obj' = obj /\ ~There(new)
  BY <1>1 DEF CreatePool, OwnerAt, FirstEmpty, There
<1>3. /\ pool \in [Pools -> PoolRecord] /\ base \in Nat /\ n \in Nat /\ n > 0 /\ base + n <= Segments
      /\ Segments \in Nat
  BY SegAssumption DEF TypeOK
<1>4. pool'[new] = [EmptyPool EXCEPT !.state = "Running", !.first = base, !.count = n]
  BY <1>1, <1>3
<1>5. /\ pool'[new].state = "Running" /\ pool'[new].first = base /\ pool'[new].count = n
      /\ pool'[new].live = 0
  BY <1>4 DEF EmptyPool
<1>6. \A q \in Pools : q # new => pool'[q] = pool[q]
  BY <1>1, <1>3
<1>7. \A q \in Pools : There(q) =>
        pool[q].first + pool[q].count <= base \/ base + n <= pool[q].first
  <2> SUFFICES ASSUME NEW q \in Pools, There(q), ~(pool[q].first + pool[q].count <= base),
                      ~(base + n <= pool[q].first)
               PROVE  FALSE
    OBVIOUS
  <2>1. \A s \in base .. base + n - 1 : ~(s \in pool[q].first .. pool[q].first + pool[q].count - 1)
    BY <1>1 DEF FreeRun, SegmentUsed, There
  <2>2. pool[q].first \in Nat /\ pool[q].count \in Nat /\ pool[q].count > 0
    BY <1>2, Fields, Idling DEF Layout, Windows
  <2>3. CASE base <= pool[q].first
    BY <1>3, <2>1, <2>2, <2>3
  <2>4. CASE pool[q].first < base
    BY <1>3, <2>1, <2>2, <2>4
  <2>5. QED BY <1>3, <2>2, <2>3, <2>4
<1>8. /\ \A p : ~InPair(p) /\ ~InPair(p)'
      /\ \A p : /\ First(p) = pool[p].first /\ Past(p) = pool[p].first + pool[p].count
                /\ First(p)' = pool'[p].first /\ Past(p)' = pool'[p].first + pool'[p].count
  BY <1>2, Idling DEF InPair, First, Past
<1>9. Windows'
  <2>1. \A p \in Pools : There(p)' <=> There(p) \/ p = new
    BY <1>2, <1>5, <1>6 DEF There
  <2>2. \A p \in Pools : There(p)' => First(p)' < Past(p)' /\ Past(p)' <= Segments
    BY <1>3, <1>5, <1>6, <1>8, <2>1 DEF Layout, Windows
  <2>3. ASSUME NEW p \in Pools, NEW q \in Pools, p # q, There(p)', There(q)'
        PROVE  Past(p)' <= First(q)' \/ Past(q)' <= First(p)'
    <3>1. CASE p # new /\ q # new
      BY <1>6, <1>8, <2>1, <2>3, <3>1 DEF Layout, Windows
    <3>2. CASE p = new
      BY <1>5, <1>6, <1>7, <1>8, <2>1, <2>3, <3>2
    <3>3. CASE q = new
      BY <1>5, <1>6, <1>7, <1>8, <2>1, <2>3, <3>3
    <3>4. QED BY <3>1, <3>2, <3>3
  <2>4. QED BY <2>2, <2>3 DEF Windows
<1>10. Blocks' /\ Inside' /\ LiveBlocksDisjoint' /\ \A p \in Pools : UsedIn(p)' = UsedIn(p)
  <2>1. \A p \in Pools : There(p) => There(p)' /\ First(p)' = First(p) /\ Past(p)' = Past(p)
    BY <1>2, <1>6, <1>8 DEF There
  <2>2. QED BY <1>2, <2>1, Idling, BlocksFrame
<1>11. Counts'
  <2>1. \A p \in Pools : There(p)' => pool'[p].live = Cardinality(UsedIn(p)')
    BY <1>2, <1>5, <1>6, <1>10, Idling, FS_EmptySet DEF There
  <2>2. QED BY <1>2, <2>1, AtIdle
<1>12. QED BY <1>2, <1>9, <1>10, <1>11, AtIdle DEF Layout

LEMMA DestroyPoolKeeps ==
  ASSUME TypeOK, Layout, NEW p \in Pools, DestroyPool(p)
  PROVE  Layout'
<1>1. /\ op.pc = "idle" /\ op' = op /\ obj' = obj /\ pool' = [pool EXCEPT ![p] = EmptyPool]
      /\ There(p) /\ pool[p].live = 0 /\ pool \in [Pools -> PoolRecord]
  BY DEF DestroyPool, OwnerAt, There, TypeOK
<1>2. ~There(p)' /\ \A q \in Pools : q # p => pool'[q] = pool[q]
  BY <1>1 DEF There, EmptyPool
<1>3. UsedIn(p) = {}
  BY <1>1, Idling, UsedFinite, FS_EmptySet
<1>4. /\ \A q : ~InPair(q) /\ ~InPair(q)'
      /\ \A q : /\ First(q) = pool[q].first /\ Past(q) = pool[q].first + pool[q].count
                /\ First(q)' = pool'[q].first /\ Past(q)' = pool'[q].first + pool'[q].count
  BY <1>1, Idling DEF InPair, First, Past
<1>5. \A q \in Pools : There(q) /\ q # p => There(q)' /\ First(q)' = First(q) /\ Past(q)' = Past(q)
  BY <1>2, <1>4 DEF There
<1>6. Windows'
  <2>1. \A q \in Pools : There(q)' => There(q) /\ q # p
    BY <1>2 DEF There
  <2>2. QED BY <1>4, <1>5, <2>1 DEF Layout, Windows
<1>7. Blocks' /\ Inside' /\ LiveBlocksDisjoint' /\ \A q \in Pools : UsedIn(q)' = UsedIn(q)
  BY <1>1, <1>3, <1>5, Idling, BlocksFrame
<1>8. Counts'
  <2>1. \A q \in Pools : There(q)' => pool'[q].live = Cardinality(UsedIn(q)')
    BY <1>1, <1>2, <1>7, Idling DEF There
  <2>2. QED BY <1>1, <2>1, AtIdle
<1>9. QED BY <1>1, <1>6, <1>7, <1>8, AtIdle DEF Layout

(* A new block overlaps none and lies in its pool's window.                *)
LEMMA AllocKeeps ==
  ASSUME TypeOK, Layout, NEW p \in Pools, NEW o \in Objects, NEW size \in Sizes,
         NEW pinned \in BOOLEAN, Alloc(p, o, size, pinned)
  PROVE  Layout'
<1>1. PICK s \in WindowLo(pool[p]) .. WindowHi(pool[p]) - size :
        /\ FreeUnits(s, size)
        /\ obj' = [obj EXCEPT ![o] =
                     [state |-> "Live", gen |-> NextGeneration(@.gen), pool |-> p, start |-> s,
                      size |-> size, pinned |-> pinned, borrows |-> 0]]
  BY DEF Alloc
<1>2. /\ op.pc = "idle" /\ op' = op /\ There(p) /\ ~Used(o)
      /\ pool' = [pool EXCEPT ![p].live = @ + 1]
      /\ pool \in [Pools -> PoolRecord] /\ obj \in [Objects -> ObjectDesc]
  BY DEF Alloc, OwnerAt, There, Used, TypeOK
<1>3. /\ size \in Nat /\ size > 0
      /\ pool[p].first * SegUnits \in Nat /\ (pool[p].first + pool[p].count) * SegUnits \in Nat
  BY SizesAssumption, SegAssumption, Fields
<1>4. /\ s \in Nat /\ pool[p].first * SegUnits <= s
      /\ s + size <= (pool[p].first + pool[p].count) * SegUnits
  BY <1>1, <1>3 DEF WindowLo, WindowHi
<1>5. /\ obj'[o].state = "Live" /\ obj'[o].pool = p /\ obj'[o].start = s /\ obj'[o].size = size
      /\ \A q \in Objects : q # o => obj'[q] = obj[q]
  BY <1>1, <1>2
<1>6. /\ \A q \in Pools : /\ pool'[q].first = pool[q].first /\ pool'[q].count = pool[q].count
                          /\ pool'[q].state = pool[q].state
                          /\ q # p => pool'[q].live = pool[q].live
      /\ pool'[p].live = pool[p].live + 1
  BY <1>2 DEF PoolRecord
<1>7. /\ \A q \in Objects : Used(q)' <=> Used(q) \/ q = o
      /\ BlockEnd(o)' = s + size /\ \A q \in Objects : q # o => BlockEnd(q)' = BlockEnd(q)
  BY <1>5 DEF Used, BlockEnd
<1>8. /\ \A q : ~InPair(q) /\ ~InPair(q)'
      /\ \A q : /\ First(q) = pool[q].first /\ Past(q) = pool[q].first + pool[q].count
                /\ First(q)' = pool'[q].first /\ Past(q)' = pool'[q].first + pool'[q].count
  BY <1>2, Idling DEF InPair, First, Past
<1>9. \A q \in Pools : There(q)' = There(q) /\ First(q)' = First(q) /\ Past(q)' = Past(q)
  BY <1>6, <1>8 DEF There
<1>10. Blocks'
  BY <1>2, <1>3, <1>5, <1>7, Idling DEF Layout, Blocks
<1>11. Windows'
  BY <1>8, <1>9, WindowsFrame DEF Layout
<1>12. Inside'
  <2>1. ASSUME NEW q \in Objects, NEW r \in Pools, Used(q)', obj'[q].pool = r
        PROVE  /\ There(r)' /\ First(r)' * SegUnits <= obj'[q].start
               /\ BlockEnd(q)' <= Past(r)' * SegUnits
    <3>1. CASE q = o
      BY <1>2, <1>4, <1>5, <1>7, <1>8, <1>9, <2>1, <3>1
    <3>2. CASE q # o
      <4>1. Used(q) /\ obj[q].pool = r /\ obj'[q] = obj[q] /\ BlockEnd(q)' = BlockEnd(q)
        BY <1>5, <1>7, <2>1, <3>2
      <4>2. QED BY <1>9, <4>1 DEF Layout, Inside
    <3>3. QED BY <3>1, <3>2
  <2>2. \A q \in Objects : obj'[q].pool \in Pools
    BY <1>5, Fields
  <2>3. QED BY <2>1, <2>2, InsideIf
<1>13. LiveBlocksDisjoint'
  BY <1>1, <1>5, <1>7 DEF Layout, LiveBlocksDisjoint, FreeUnits, Used
<1>14. Counts'
  <2>1. UsedIn(p)' = UsedIn(p) \cup {o} /\ o \notin UsedIn(p)
    BY <1>2, <1>5, <1>7 DEF UsedIn
  <2>2. \A q \in Pools : q # p => UsedIn(q)' = UsedIn(q)
    BY <1>2, <1>5, <1>7 DEF UsedIn
  <2>3. Cardinality(UsedIn(p) \cup {o}) = Cardinality(UsedIn(p)) + 1
    BY <2>1, UsedFinite, FS_AddElement
  <2>4. ASSUME NEW q \in Pools, There(q)'
        PROVE  pool'[q].live = Cardinality(UsedIn(q)')
    <3>1. There(q) /\ pool[q].live = Cardinality(UsedIn(q))
      BY <1>2, <1>9, <2>4, Idling
    <3>2. CASE q = p
      BY <1>6, <2>1, <2>3, <3>1, <3>2
    <3>3. CASE q # p
      BY <1>6, <2>2, <3>1, <3>3
    <3>4. QED BY <3>2, <3>3
  <2>5. QED BY <1>2, <2>4, AtIdle
<1>15. QED BY <1>2, <1>10, <1>11, <1>12, <1>13, <1>14, AtIdle DEF Layout

(* free() runs between idle and idle, outside every span.                  *)
LEMMA Freeing ==
  ASSUME op.pc \in FreeSteps
  PROVE  /\ op.pc \notin CompactSteps /\ op.pc \notin MergeSteps /\ op.pc \notin SplitSteps
         /\ op.pc \notin {"merge-plan", "merge-move", "split-adopt", "split-commit", "merge-count",
                          "merge-commit", "split-plan", "split-move", "split-fail", "compact-move"}
  BY DEF FreeSteps, CompactSteps, MergeSteps, SplitSteps

LEMMA FreeStepsFrame ==
  ASSUME TypeOK, Layout, pool' = pool, op.pc = "idle" \/ op.pc \in FreeSteps, op'.pc \in FreeSteps,
         \A o \in Objects : /\ Used(o)' = Used(o) /\ obj'[o].pool = obj[o].pool
                            /\ obj'[o].start = obj[o].start /\ obj'[o].size = obj[o].size,
         Blocks'
  PROVE  Layout'
<1>1. op.pc \notin MergeSteps \cup SplitSteps /\ op'.pc \notin MergeSteps \cup SplitSteps
  BY Idling, Freeing DEF FreeSteps, MergeSteps, SplitSteps
<1>2. /\ \A q : ~InPair(q) /\ ~InPair(q)'
      /\ \A q : First(q)' = First(q) /\ Past(q)' = Past(q) /\ There(q)' = There(q)
  BY <1>1 DEF InPair, First, Past, There
<1>3. \A p \in Pools : UsedIn(p)' = UsedIn(p)
  BY DEF UsedIn
<1>4. /\ op'.pc \notin CompactSteps
      /\ op'.pc \notin {"merge-plan", "merge-move", "split-adopt", "split-commit", "merge-count",
                        "merge-commit", "split-plan", "split-move", "split-fail", "compact-move"}
  BY DEF FreeSteps, CompactSteps
<1>5. OpShape' /\ Sides' /\ Slides' /\ Splits'
  BY <1>1, <1>4 DEF OpShape, Sides, Slides, Splits
<1>6. Windows'
  BY <1>2, WindowsFrame DEF Layout
<1>7. Inside' /\ LiveBlocksDisjoint'
  <2>1. \A o \in Objects : BlockEnd(o)' = BlockEnd(o)
    BY DEF BlockEnd
  <2>2. \A o \in Objects : Used(o) =>
          /\ There(obj[o].pool)'
          /\ First(obj[o].pool)' * SegUnits <= obj[o].start
          /\ BlockEnd(o) <= Past(obj[o].pool)' * SegUnits
    BY <1>2 DEF Layout, Inside
  <2>3. Inside'
    BY <2>1, <2>2 DEF Inside, First, Past, There, InPair, SpanFirst, SpanCount
  <2>4. QED BY <2>1, <2>3 DEF Layout, LiveBlocksDisjoint, Used
<1>8. Counts'
  BY <1>1, <1>2, <1>3, <1>4 DEF Layout, Counts
<1>9. QED BY <1>5, <1>6, <1>7, <1>8 DEF Layout

LEMMA FreeCheckKeeps ==
  ASSUME TypeOK, Layout, NEW o \in Objects, FreeCheck(o) \/ FreeDestroying(o)
  PROVE  Layout'
<1>1. CASE FreeCheck(o)
  <2>1. /\ op.pc = "idle" /\ op'.pc = "free-checked" /\ op'.victim = {o} /\ obj[o].state = "Live"
        /\ UNCHANGED <<pool, obj, held>>
    BY <1>1 DEF FreeCheck, OwnerAt, TypeOK, OpRecord
  <2>2. \A q \in Objects : Used(q)' = Used(q)
    BY <2>1 DEF Used
  <2>3. Blocks'
    BY <2>1, <2>2, Idling DEF Layout, Blocks, FreeSteps, Used
  <2>4. QED BY <2>1, <2>2, <2>3, FreeStepsFrame DEF FreeSteps
<1>2. CASE FreeDestroying(o)
  <2>1. /\ op.pc = "free-checked" /\ op'.pc = "free-destroying" /\ op'.victim = op.victim
        /\ o \in op.victim /\ obj' = [obj EXCEPT ![o].state = "Destroying"] /\ pool' = pool
    BY <1>2 DEF FreeDestroying, OwnerAt, TypeOK, OpRecord
  <2>2. op.victim = {o} /\ Used(o)
    BY <2>1 DEF Layout, Blocks, FreeSteps
  <2>3. \A q \in Objects : /\ obj'[q].state = (IF q = o THEN "Destroying" ELSE obj[q].state)
                           /\ obj'[q].pool = obj[q].pool /\ obj'[q].start = obj[q].start
                           /\ obj'[q].size = obj[q].size
    BY <2>1 DEF TypeOK, ObjectDesc
  <2>4. \A q \in Objects : Used(q)' = Used(q)
    BY <2>2, <2>3 DEF Used
  <2>5. \A q \in Objects : obj[q].state # "Destroying"
    BY <2>1 DEF Layout, Blocks
  <2>6. Blocks'
    BY <2>1, <2>2, <2>3, <2>4, <2>5 DEF Layout, Blocks, FreeSteps
  <2>7. QED BY <2>1, <2>3, <2>4, <2>6, FreeStepsFrame DEF FreeSteps
<1>3. QED BY <1>1, <1>2

LEMMA FreeCommitKeeps ==
  ASSUME TypeOK, Layout, NEW o \in Objects, FreeCommit(o)
  PROVE  Layout'
<1> DEFINE p == obj[o].pool
<1>1. /\ op.pc \in FreeSteps /\ op.victim = {o} /\ Used(o) /\ op'.pc = "idle"
      /\ pool' = [pool EXCEPT ![p].live = @ - 1]
      /\ obj' = [obj EXCEPT ![o] = FreeDesc(NextGeneration(@.gen))]
      /\ pool \in [Pools -> PoolRecord] /\ obj \in [Objects -> ObjectDesc] /\ p \in Pools
  <2>1. op.pc \in FreeSteps /\ o \in op.victim
    BY DEF FreeCommit
  <2>2. op.victim = {o} /\ Used(o)
    BY <2>1 DEF Layout, Blocks
  <2>3. QED BY <2>1, <2>2, Fields DEF FreeCommit, Idle, TypeOK
<1>2. ~Used(o)' /\ obj'[o].pool \in Pools /\ \A q \in Objects : q # o => obj'[q] = obj[q]
  BY <1>1, AnyPoolType DEF FreeDesc, Used
<1>3. /\ \A q \in Pools : /\ pool'[q].first = pool[q].first /\ pool'[q].count = pool[q].count
                          /\ pool'[q].state = pool[q].state
                          /\ q # p => pool'[q].live = pool[q].live
      /\ pool'[p].live = pool[p].live - 1
  BY <1>1 DEF PoolRecord
<1>4. \A q \in Objects : q # o => /\ Used(q)' = Used(q) /\ BlockEnd(q)' = BlockEnd(q)
                                  /\ obj[q].state # "Destroying"
  BY <1>1, <1>2 DEF Used, BlockEnd, Layout, Blocks
<1>5. op.pc \notin MergeSteps \cup SplitSteps /\ op'.pc \notin MergeSteps \cup SplitSteps
  BY <1>1, Freeing DEF MergeSteps, SplitSteps
<1>6. /\ \A q : ~InPair(q) /\ ~InPair(q)'
      /\ \A q : /\ First(q) = pool[q].first /\ Past(q) = pool[q].first + pool[q].count
                /\ First(q)' = pool'[q].first /\ Past(q)' = pool'[q].first + pool'[q].count
  BY <1>5 DEF InPair, First, Past
<1>7. \A q \in Pools : There(q)' = There(q) /\ First(q)' = First(q) /\ Past(q)' = Past(q)
  BY <1>3, <1>6 DEF There
<1>8. Blocks'
  BY <1>1, <1>2, <1>4 DEF Layout, Blocks, FreeSteps, Used
<1>9. Windows'
  BY <1>6, <1>7, WindowsFrame DEF Layout
<1>10. Inside'
  <2>1. ASSUME NEW q \in Objects, NEW r \in Pools, Used(q)', obj'[q].pool = r
        PROVE  /\ There(r)' /\ First(r)' * SegUnits <= obj'[q].start
               /\ BlockEnd(q)' <= Past(r)' * SegUnits
    <3>1. Used(q) /\ obj[q].pool = r /\ obj'[q] = obj[q] /\ BlockEnd(q)' = BlockEnd(q)
      BY <1>2, <1>4, <2>1
    <3>2. QED BY <1>7, <3>1 DEF Layout, Inside
  <2>2. \A q \in Objects : obj'[q].pool \in Pools
    BY <1>2, Fields
  <2>3. QED BY <2>1, <2>2, InsideIf
<1>11. LiveBlocksDisjoint'
  BY <1>2, <1>4 DEF Layout, LiveBlocksDisjoint, Used
<1>12. Counts'
  <2>1. o \in UsedIn(p) /\ UsedIn(p) \ {o} = {q \in Objects \ {o} : Used(q) /\ obj[q].pool = p}
    BY <1>1 DEF UsedIn
  <2>2. Cardinality(UsedIn(p) \ {o}) = Cardinality(UsedIn(p)) - 1
    <3>1. IsFiniteSet(UsedIn(p)) /\ o \in UsedIn(p)
      BY <2>1, UsedFinite
    <3> HIDE DEF p
    <3>2. QED BY <3>1, FS_RemoveElement
  <2>3. ASSUME NEW q \in Pools, There(q)' PROVE pool'[q].live = Cardinality(UsedIn(q)')
    <3>1. pool[q].live = Cardinality(UsedIn(q))
      BY <1>6, <1>7, <2>3 DEF Layout, Counts
    <3>2. UsedIn(q)' = UsedIn(q) \ {o}
      BY <1>2, <1>4 DEF UsedIn
    <3>3. CASE q = p
      BY <1>3, <2>2, <3>1, <3>2, <3>3
    <3>4. CASE q # p
      <4>1. o \notin UsedIn(q)
        BY <3>4 DEF UsedIn
      <4>2. QED BY <1>3, <3>1, <3>2, <3>4, <4>1
    <3>5. QED BY <3>3, <3>4
  <2>4. QED BY <1>1, <2>3, AtIdle
<1>13. QED BY <1>1, <1>8, <1>9, <1>10, <1>11, <1>12, AtIdle DEF Layout

-----------------------------------------------------------------------------
(* compact *)

(* A step outside merge and split that leaves blocks and windows alone.    *)
LEMMA PlainFrame ==
  ASSUME TypeOK, Layout, obj' = obj, op.pc \notin FreeSteps, op'.pc \notin FreeSteps,
         op.pc \notin MergeSteps \cup SplitSteps, op'.pc \notin MergeSteps \cup SplitSteps,
         \A p \in Pools : /\ pool'[p].first = pool[p].first /\ pool'[p].count = pool[p].count
                          /\ pool'[p].live = pool[p].live /\ There(p)' = There(p)
  PROVE  Blocks' /\ Windows' /\ Inside' /\ Counts' /\ LiveBlocksDisjoint'
<1>1. /\ \A q : ~InPair(q) /\ ~InPair(q)'
      /\ \A q : /\ First(q) = pool[q].first /\ Past(q) = pool[q].first + pool[q].count
                /\ First(q)' = pool'[q].first /\ Past(q)' = pool'[q].first + pool'[q].count
  BY DEF InPair, First, Past
<1>2. \A q \in Pools : There(q)' = There(q) /\ First(q)' = First(q) /\ Past(q)' = Past(q)
  BY <1>1
<1>3. Windows'
  BY <1>1, <1>2, WindowsFrame DEF Layout
<1>4. Blocks' /\ Inside' /\ LiveBlocksDisjoint' /\ \A p \in Pools : UsedIn(p)' = UsedIn(p)
  BY <1>2, BlocksFrame
<1>5. Counts'
  <2>1. op'.pc \notin SplitSteps /\ op'.pc # "merge-commit" /\ op'.pc # "split-commit"
    BY DEF MergeSteps, SplitSteps
  <2>2. \A p \in Pools : There(p)' => pool'[p].live = Cardinality(UsedIn(p)')
    BY <1>1, <1>2, <1>4 DEF Layout, Counts
  <2>3. QED BY <2>1, <2>2 DEF Counts
<1>6. QED BY <1>3, <1>4, <1>5

LEMMA CompactArmKeeps ==
  ASSUME TypeOK, Layout, NEW p \in Pools, CompactRefused(p) \/ CompactArm(p)
  PROVE  Layout'
<1>1. pool \in [Pools -> PoolRecord]
  BY DEF TypeOK
<1>2. CASE CompactRefused(p)
  BY <1>1, <1>2, SameLayout DEF CompactRefused, PoolRecord
<1>3. CASE CompactArm(p)
  <2>1. /\ op.pc = "idle" /\ op'.pc = "compact-plan" /\ op'.src = p /\ op'.tgt = p /\ obj' = obj
        /\ pool' = [pool EXCEPT ![p].state = "Compacting"] /\ There(p)
    BY <1>3 DEF CompactArm, OwnerAt, Idle, There
  <2>2. \A q \in Pools : /\ pool'[q].first = pool[q].first /\ pool'[q].count = pool[q].count
                         /\ pool'[q].live = pool[q].live /\ There(q)' = There(q)
    BY <1>1, <2>1 DEF PoolRecord, There
  <2>3. op'.pc \notin FreeSteps /\ op'.pc \notin MergeSteps \cup SplitSteps
    BY <2>1 DEF FreeSteps, MergeSteps, SplitSteps
  <2>4. Blocks' /\ Windows' /\ Inside' /\ Counts' /\ LiveBlocksDisjoint'
    BY <2>1, <2>2, <2>3, Idling, PlainFrame
  <2>5. OpShape'
    BY <1>1, <2>1, <2>3 DEF OpShape
  <2>6. Sides' /\ Slides' /\ Splits'
    BY <2>1 DEF Sides, Slides, Splits
  <2>7. QED BY <2>4, <2>5, <2>6 DEF Layout
<1>4. QED BY <1>2, <1>3

LEMMA Compacting ==
  ASSUME TypeOK, Layout, op.pc \in CompactSteps
  PROVE  /\ op.pc \notin FreeSteps /\ op.pc \notin MergeSteps \cup SplitSteps
         /\ op.tgt = op.src /\ pool[op.src].state = "Compacting" /\ Moving = UsedIn(op.src)
         /\ Residents(op.src) = UsedIn(op.src)
<1>1. op.pc \notin FreeSteps /\ op.pc \notin MergeSteps \cup SplitSteps
  BY DEF CompactSteps, FreeSteps, MergeSteps, SplitSteps
<1>2. op.tgt = op.src /\ pool[op.src].state = "Compacting"
  BY DEF Layout, OpShape
<1>3. \A o \in Objects : obj[o].state = "Live" <=> Used(o)
  BY <1>1 DEF TypeOK, ObjectDesc, Layout, Blocks, FreeSteps, Used
<1>4. QED BY <1>1, <1>2, <1>3 DEF Moving, Residents, UsedIn

LEMMA CompactPlanKeeps ==
  ASSUME TypeOK, TypeOK', Layout, CompactPlan \/ CompactPlanFails
  PROVE  Layout'
<1>1. op.pc = "compact-plan" /\ op.pc \in CompactSteps /\ UNCHANGED <<pool, obj, held>>
  BY DEF CompactPlan, CompactPlanFails, OwnerAt, CompactSteps
<1>2. /\ op'.pc \in {"compact-move", "compact-fail"} /\ op'.src = op.src /\ op'.tgt = op.tgt
  BY <1>1 DEF CompactPlan, CompactPlanFails, TypeOK, OpRecord
<1>3. /\ op'.pc \in CompactSteps /\ op'.pc \notin FreeSteps /\ op'.pc \notin MergeSteps \cup SplitSteps
  BY <1>2 DEF CompactSteps, FreeSteps, MergeSteps, SplitSteps
<1>4. \A p \in Pools : There(p)' = There(p)
  BY <1>1 DEF There
<1>5. Blocks' /\ Windows' /\ Inside' /\ Counts' /\ LiveBlocksDisjoint'
  BY <1>1, <1>3, <1>4, Compacting, PlainFrame
<1>6. OpShape'
  BY <1>1, <1>2, <1>3, Compacting DEF OpShape
<1>7. Sides' /\ Splits'
  BY <1>2 DEF Sides, Splits
<1>8. Slides'
  <2>1. CASE CompactPlanFails
    BY <2>1 DEF CompactPlanFails, TypeOK, OpRecord, Slides
  <2>2. CASE CompactPlan
    <3> DEFINE p == op.src
               R == Residents(op.src)
    <3>1. PICK f \in [R -> Units], cut \in {obj[o].start : o \in R} \cup {WindowHi(pool[p])} :
            /\ Packs(f, R, WindowLo(pool[p]), WindowHi(pool[p]))
            /\ op' = [op EXCEPT !.pc = "compact-move", !.to = OnObjects(f),
                        !.todo = {o \in R : obj[o].start < cut /\ f[o] # obj[o].start}]
      BY <2>2 DEF CompactPlan
    <3>0. R = UsedIn(op.src)
      BY <1>1, Compacting
    <3>2. /\ R \in SUBSET Objects /\ \A o \in R : Used(o) /\ obj[o].pool = p
          /\ \A o \in R : f[o] \in Nat /\ op'.to[o] = f[o]
          /\ op'.todo = {o \in R : obj[o].start < cut /\ f[o] # obj[o].start}
      BY <3>0, <3>1, UnitsAreNat DEF UsedIn, OnObjects, TypeOK, OpRecord
    <3>3. /\ First(p) = pool[p].first /\ First(p)' = pool[p].first
          /\ WindowLo(pool[p]) = First(p) * SegUnits /\ WindowLo(pool[p]) \in Nat
          /\ WindowHi(pool[p]) \in Nat /\ p \in Pools
      BY <1>1, <1>2, <1>3, Compacting, NoPair, Fields, SegAssumption
         DEF WindowLo, WindowHi, First, InPair
    <3>4. \A o \in R : WindowLo(pool[p]) <= obj[o].start
      BY <3>2, <3>3 DEF Layout, Inside
    <3>5. \A o \in R : f[o] <= obj[o].start
      BY <3>1, <3>2, <3>3, <3>4, PacksDown DEF Layout
    <3>6. \A o \in R : /\ WindowLo(pool[p]) <= f[o]
                       /\ obj[o].pinned => f[o] = obj[o].start
                       /\ \A q \in R : obj[q].start < obj[o].start => f[q] + obj[q].size <= f[o]
      BY <3>1 DEF Packs, Below
    <3>7. cut \in Nat
      BY <3>1, <3>2, <3>3, Fields
    <3>8. Moving' = R /\ First(op.src)' = First(p)'
      BY <1>1, <1>2, <3>0, Compacting DEF Moving, UsedIn, Used
    <3>9. op'.src = p
      BY <1>2
    <3> HIDE DEF p, R
    <3>10. ASSUME NEW a \in op'.todo
           PROVE  /\ First(p)' * SegUnits <= op'.to[a] /\ op'.to[a] <= obj[a].start
                  /\ obj[a].pinned => op'.to[a] = obj[a].start
                  /\ \A b \in R : obj[b].start < obj[a].start =>
                       (IF b \in op'.todo THEN op'.to[b] ELSE obj[b].start) + obj[b].size <= op'.to[a]
      <4>1. a \in R /\ obj[a].start < cut /\ f[a] # obj[a].start
        BY <3>2, <3>10
      <4>2. ASSUME NEW b \in R, obj[b].start < obj[a].start
            PROVE  (IF b \in op'.todo THEN op'.to[b] ELSE obj[b].start) = f[b]
        BY <3>2, <3>7, <4>1, <4>2, Fields
      <4>3. QED BY <3>2, <3>3, <3>5, <3>6, <4>1, <4>2
    <3>11. op'.todo \subseteq R
      BY <3>2
    <3>12. First(op.src)' = First(p)' /\ op'.src = p
      BY <3>8, <3>9
    <3>13. QED BY <1>1, <3>8, <3>10, <3>11, <3>12 DEF Slides
  <2>3. QED BY <2>1, <2>2
<1>9. QED BY <1>5, <1>6, <1>7, <1>8 DEF Layout

(* When the lowest block that still moves goes down, all below it have     *)
(* gone, and lie below its destination.                                    *)
LEMMA SlideKeeps ==
  ASSUME TypeOK, Layout, op.pc \in {"compact-move", "merge-move"}, NEW a \in op.todo,
         Lowest(op.todo, a), obj' = [obj EXCEPT ![a].start = op.to[a]],
         op' = [op EXCEPT !.todo = @ \ {a}], pool' = pool
  PROVE  Layout'
<1> DEFINE p == op.src
           at == op.to[a]
<1>1. /\ op.todo \subseteq Moving /\ a \in Moving
      /\ First(p) * SegUnits <= at /\ at <= obj[a].start
      /\ \A c \in op.todo :
           /\ First(p) * SegUnits <= op.to[c] /\ op.to[c] <= obj[c].start
           /\ obj[c].pinned => op.to[c] = obj[c].start
           /\ \A b \in Moving : obj[b].start < obj[c].start =>
                (IF b \in op.todo THEN op.to[b] ELSE obj[b].start) + obj[b].size <= op.to[c]
  BY DEF Layout, Slides
<1>2. /\ \A b \in Moving : b \in Objects /\ Used(b) /\ obj[b].pool \in {op.src, op.tgt}
      /\ \A b \in Objects \ Moving : Used(b) => obj[b].pool \notin {op.src, op.tgt}
  BY DEF Moving, UsedIn
<1>3. a \in Objects /\ Used(a) /\ obj[a].pool \in {p, op.tgt}
  BY <1>1, <1>2
<1>4. /\ at \in Nat /\ obj[a].size \in Nat /\ obj[a].size > 0 /\ obj[a].start \in Nat
  BY <1>3, Fields DEF Layout, Blocks
<1>5. /\ op.pc \notin FreeSteps /\ op'.pc = op.pc /\ op'.src = op.src /\ op'.tgt = op.tgt
      /\ op'.adopt = op.adopt /\ op'.to = op.to /\ op'.todo = op.todo \ {a}
  BY DEF TypeOK, OpRecord, FreeSteps
<1>6. /\ \A o \in Objects : /\ obj'[o].state = obj[o].state /\ obj'[o].pool = obj[o].pool
                            /\ obj'[o].size = obj[o].size /\ obj'[o].pinned = obj[o].pinned
                            /\ o # a => obj'[o].start = obj[o].start
      /\ obj'[a].start = at
  BY <1>3 DEF TypeOK, ObjectDesc
<1>7. /\ \A o \in Objects : /\ Used(o)' = Used(o) /\ BlockEnd(o)' = obj'[o].start + obj[o].size
                            /\ BlockEnd(o) = obj[o].start + obj[o].size
      /\ \A q : UsedIn(q)' = UsedIn(q)
  BY <1>6 DEF Used, BlockEnd, UsedIn
<1>8. /\ \A q : There(q)' = There(q) /\ InPair(q)' = InPair(q)
      /\ \A q : First(q)' = First(q) /\ Past(q)' = Past(q)
  <2>1. SpanFirst' = SpanFirst /\ SpanCount' = SpanCount
    BY <1>5 DEF SpanFirst, SpanCount, Lower, TypeOK, OpRecord, MergeSteps, SplitSteps
  <2>2. QED BY <1>5, <2>1 DEF There, InPair, First, Past
<1>9. /\ p \in Pools /\ There(p) /\ First(obj[a].pool) = First(p) /\ Past(obj[a].pool) = Past(p)
  <2>1. CASE op.pc = "compact-move"
    BY <1>3, <2>1, Compacting, Fields DEF CompactSteps, There
  <2>2. CASE op.pc = "merge-move"
    BY <1>3, <2>2, Fields DEF MergeSteps, Layout, OpShape, There, InPair, First, Past
  <2>3. QED BY <2>1, <2>2
<1>10. at + obj[a].size <= Past(p) * SegUnits
  <2>1. BlockEnd(a) <= Past(p) * SegUnits /\ Past(p) \in Nat
    BY <1>3, <1>9, SpanTypes DEF Layout, Inside
  <2>2. Past(p) * SegUnits \in Nat
    BY <2>1, Scale
  <2>3. QED BY <1>1, <1>3, <1>4, <1>7, <2>1, <2>2
<1>11. ASSUME NEW b \in Objects, Used(b), b # a
       PROVE  at + obj[a].size <= obj[b].start \/ obj[b].start + obj[b].size <= at
  <2>1. CASE b \in Moving
    <3>1. CASE obj[b].start < obj[a].start
      <4>1. b \notin op.todo
        BY <3>1 DEF Lowest, Below
      <4>2. QED BY <1>1, <2>1, <3>1, <4>1
    <3>2. CASE obj[a].start < obj[b].start
      BY <1>1, <1>3, <1>4, <1>11, <3>2, Ordered, Fields DEF Layout
    <3>3. QED BY <1>3, <1>11, <3>1, <3>2, Ordered, Fields DEF Layout
  <2>2. CASE b \notin Moving
    <3>1. obj[b].pool # p /\ ~InPair(obj[b].pool)
      BY <1>2, <1>11, <2>2 DEF InPair
    <3>2. at + obj[a].size \in Nat
      BY <1>4
    <3>3. QED BY <1>1, <1>4, <1>7, <1>9, <1>10, <1>11, <3>1, <3>2, Elsewhere
  <2>3. QED BY <2>1, <2>2
<1>12. Moving' = Moving
  BY <1>5, <1>7 DEF Moving
<1> HIDE DEF p, at
<1>13. Blocks'
  BY <1>4, <1>5, <1>6, <1>7 DEF Layout, Blocks, FreeSteps
<1>14. LiveBlocksDisjoint'
  <2>1. ASSUME NEW b \in Objects, NEW c \in Objects, b # c, Used(b), Used(c)
        PROVE  BlockEnd(b)' <= obj'[c].start \/ BlockEnd(c)' <= obj'[b].start
    <3>1. CASE b # a /\ c # a
      BY <1>6, <1>7, <2>1, <3>1 DEF Layout, LiveBlocksDisjoint, Used
    <3>2. CASE b = a
      BY <1>6, <1>7, <1>11, <2>1, <3>2
    <3>3. CASE c = a
      BY <1>6, <1>7, <1>11, <2>1, <3>3
    <3>4. QED BY <3>1, <3>2, <3>3
  <2>2. QED BY <1>7, <2>1 DEF LiveBlocksDisjoint, Used
<1>15. OpShape'
  BY <1>5, Freeing DEF Layout, OpShape, JustBelow, CompactSteps, MergeSteps, SplitSteps
<1>16. Windows'
  BY <1>8, WindowsFrame DEF Layout
<1>17. Inside'
  <2>1. ASSUME NEW q \in Objects, NEW r \in Pools, Used(q)', obj'[q].pool = r
        PROVE  /\ There(r)' /\ First(r)' * SegUnits <= obj'[q].start
               /\ BlockEnd(q)' <= Past(r)' * SegUnits
    <3>1. Used(q) /\ obj[q].pool = r
      BY <1>6, <1>7, <2>1
    <3>2. There(r) /\ First(r) * SegUnits <= obj[q].start /\ BlockEnd(q) <= Past(r) * SegUnits
      BY <3>1 DEF Layout, Inside
    <3>3. CASE q = a
      BY <1>1, <1>6, <1>7, <1>8, <1>9, <1>10, <3>1, <3>2, <3>3
    <3>4. CASE q # a
      BY <1>6, <1>7, <1>8, <3>2, <3>4
    <3>5. QED BY <3>3, <3>4
  <2>2. \A q \in Objects : obj'[q].pool \in Pools
    BY <1>6, Fields
  <2>3. QED BY <2>1, <2>2, InsideIf
<1>18. Sides'
  BY <1>5, <1>7 DEF Layout, Sides
<1>19. Slides'
  <2>1. ASSUME NEW c \in op'.todo
        PROVE  /\ First(p) * SegUnits <= op'.to[c] /\ op'.to[c] <= obj'[c].start
               /\ obj'[c].pinned => op'.to[c] = obj'[c].start
               /\ \A b \in Moving : obj'[b].start < obj'[c].start =>
                    (IF b \in op'.todo THEN op'.to[b] ELSE obj'[b].start) + obj'[b].size <= op'.to[c]
    <3>1. c \in op.todo /\ c # a /\ c \in Objects /\ Used(c) /\ obj'[c].start = obj[c].start
      BY <1>1, <1>2, <1>5, <1>6, <2>1
    <3>2. obj[a].start < obj[c].start
      <4>1. ~(obj[c].start < obj[a].start)
        BY <3>1 DEF Lowest, Below
      <4>2. QED BY <1>3, <3>1, <4>1, Ordered, Fields DEF Layout
    <3>3. ASSUME NEW b \in Moving, obj'[b].start < obj'[c].start
          PROVE  (IF b \in op'.todo THEN op'.to[b] ELSE obj'[b].start) + obj'[b].size <= op'.to[c]
      <4>1. CASE b = a
        BY <1>1, <1>3, <1>5, <1>6, <3>1, <3>2, <4>1 DEF at
      <4>2. CASE b # a
        BY <1>1, <1>2, <1>5, <1>6, <3>1, <3>3, <4>2
      <4>3. QED BY <4>1, <4>2
    <3>4. QED BY <1>1, <1>5, <1>6, <3>1, <3>3
  <2>2. First(op.src)' = First(p)
    BY <1>5, <1>8 DEF p
  <2>3. op'.todo \subseteq Moving
    BY <1>1, <1>5
  <2>4. QED BY <1>12, <2>1, <2>2, <2>3 DEF Slides
<1>20. Splits'
  BY <1>5 DEF Splits
<1>21. Counts'
  BY <1>5, <1>7, <1>8, <1>12 DEF Layout, Counts
<1>22. QED BY <1>13, <1>14, <1>15, <1>16, <1>17, <1>18, <1>19, <1>20, <1>21 DEF Layout

LEMMA CompactStepsKeep ==
  ASSUME TypeOK, Layout, (\E o \in Objects : CompactMove(o)) \/ CompactCommit \/ CompactRestore
  PROVE  Layout'
<1>1. CASE \E o \in Objects : CompactMove(o)
  BY <1>1, SlideKeeps DEF CompactMove, OwnerAt, Lowest, Relocate
<1>2. CASE CompactCommit \/ CompactRestore
  <2>1. /\ op.pc \in CompactSteps /\ op'.pc = "idle" /\ obj' = obj
        /\ \E st \in {"Running", "Paused"} : pool' = [pool EXCEPT ![op.src].state = st]
    BY <1>2 DEF CompactCommit, CompactRestore, OwnerAt, Idle, CompactSteps, EntryState
  <2>2. pool \in [Pools -> PoolRecord] /\ There(op.src) /\ op.src \in Pools
    BY <2>1, Compacting, Fields DEF TypeOK, There
  <2>3. \A q \in Pools : /\ pool'[q].first = pool[q].first /\ pool'[q].count = pool[q].count
                         /\ pool'[q].live = pool[q].live /\ There(q)' = There(q)
    BY <2>1, <2>2 DEF PoolRecord, There
  <2>4. op'.pc \notin FreeSteps /\ op'.pc \notin MergeSteps \cup SplitSteps
    BY <2>1 DEF FreeSteps, MergeSteps, SplitSteps
  <2>5. QED BY <2>1, <2>3, <2>4, Compacting, PlainFrame, AtIdle DEF Layout
<1>3. QED BY <1>1, <1>2

-----------------------------------------------------------------------------
(* What merge and split share *)

(* A window that grows keeps its blocks.                                   *)
LEMMA InsideWider ==
  ASSUME TypeOK, Layout, obj' = obj,
         \A p \in Pools : There(p) =>
           /\ There(p)' /\ First(p)' \in Nat /\ Past(p)' \in Nat
           /\ First(p)' <= First(p) /\ Past(p) <= Past(p)'
  PROVE  Inside'
<1>1. ASSUME NEW q \in Objects, NEW r \in Pools, Used(q)', obj'[q].pool = r
      PROVE  /\ There(r)' /\ First(r)' * SegUnits <= obj'[q].start
             /\ BlockEnd(q)' <= Past(r)' * SegUnits
  <2>1. Used(q) /\ obj[q].pool = r /\ BlockEnd(q)' = BlockEnd(q) /\ BlockEnd(q) \in Nat
        /\ obj[q].start \in Nat
    BY <1>1, Fields DEF Used, BlockEnd
  <2>2. There(r) /\ First(r) * SegUnits <= obj[q].start /\ BlockEnd(q) <= Past(r) * SegUnits
    BY <2>1 DEF Layout, Inside
  <2>3. First(r) \in Nat /\ Past(r) \in Nat
    BY SpanTypes
  <2>4. /\ First(r)' * SegUnits <= First(r) * SegUnits /\ First(r)' * SegUnits \in Nat
        /\ First(r) * SegUnits \in Nat
    BY <2>2, <2>3, Scale
  <2>5. /\ Past(r) * SegUnits <= Past(r)' * SegUnits /\ Past(r)' * SegUnits \in Nat
        /\ Past(r) * SegUnits \in Nat
    BY <2>2, <2>3, Scale
  <2>6. QED BY <2>1, <2>2, <2>4, <2>5
<1>2. QED BY <1>1, Fields, InsideIf

(* A merge, and what its span is before first and count are rewritten.     *)
LEMMA Merging ==
  ASSUME TypeOK, Layout, op.pc \in MergeSteps
  PROVE  /\ op.pc \notin FreeSteps /\ op.pc \notin SplitSteps /\ op.pc \notin CompactSteps
         /\ op.src # op.tgt /\ There(op.src) /\ There(op.tgt)
         /\ op.src \in Pools /\ op.tgt \in Pools
         /\ \A q : InPair(q) <=> q \in {op.src, op.tgt}
         /\ \A q : q \in {op.src, op.tgt} => First(q) = SpanFirst /\ Past(q) = SpanFirst + SpanCount
         /\ \A q : q \notin {op.src, op.tgt} =>
              First(q) = pool[q].first /\ Past(q) = pool[q].first + pool[q].count
         /\ \A o \in Objects : obj[o].state = "Live" <=> Used(o)
         /\ \A q : Residents(q) = UsedIn(q)
<1>1. op.pc \notin FreeSteps /\ op.pc \notin SplitSteps /\ op.pc \notin CompactSteps
  BY DEF FreeSteps, SplitSteps, MergeSteps, CompactSteps
<1>2. op.src # op.tgt /\ There(op.src) /\ There(op.tgt) /\ op.src \in Pools /\ op.tgt \in Pools
  BY Fields DEF Layout, OpShape, There
<1>3. \A q : InPair(q) <=> q \in {op.src, op.tgt}
  BY DEF InPair
<1>4. \A o \in Objects : obj[o].state = "Live" <=> Used(o)
  BY <1>1 DEF TypeOK, ObjectDesc, Layout, Blocks, FreeSteps, Used
<1>5. \A q : Residents(q) = UsedIn(q)
  BY <1>4 DEF Residents, UsedIn
<1>6. QED BY <1>1, <1>2, <1>3, <1>4, <1>5 DEF First, Past

(* A split, whose span is the window the source had.                       *)
LEMMA Splitting ==
  ASSUME TypeOK, Layout, op.pc \in SplitSteps
  PROVE  /\ op.pc \notin FreeSteps /\ op.pc \notin MergeSteps /\ op.pc \notin CompactSteps
         /\ op.src # op.tgt /\ There(op.src) /\ There(op.tgt)
         /\ op.src \in Pools /\ op.tgt \in Pools
         /\ SpanFirst = pool[op.src].first /\ SpanCount = op.keep + op.fresh
         /\ \A q : InPair(q) <=> q \in {op.src, op.tgt}
         /\ \A q : q \in {op.src, op.tgt} => First(q) = SpanFirst /\ Past(q) = SpanFirst + SpanCount
         /\ \A q : q \notin {op.src, op.tgt} =>
              First(q) = pool[q].first /\ Past(q) = pool[q].first + pool[q].count
         /\ \A o \in Objects : obj[o].state = "Live" <=> Used(o)
         /\ \A q : Residents(q) = UsedIn(q)
<1>1. op.pc \notin FreeSteps /\ op.pc \notin MergeSteps /\ op.pc \notin CompactSteps
  BY DEF FreeSteps, SplitSteps, MergeSteps, CompactSteps
<1>2. op.src # op.tgt /\ There(op.src) /\ There(op.tgt) /\ op.src \in Pools /\ op.tgt \in Pools
  BY Fields DEF Layout, OpShape, There
<1>3. \A q : InPair(q) <=> q \in {op.src, op.tgt}
  BY DEF InPair
<1>4. \A o \in Objects : obj[o].state = "Live" <=> Used(o)
  BY <1>1 DEF TypeOK, ObjectDesc, Layout, Blocks, FreeSteps, Used
<1>5. \A q : Residents(q) = UsedIn(q)
  BY <1>4 DEF Residents, UsedIn
<1>6. QED BY <1>1, <1>2, <1>3, <1>4, <1>5 DEF First, Past, SpanFirst, SpanCount

(* A step that leaves blocks, windows and spans alone.                     *)
LEMMA PairFrame ==
  ASSUME TypeOK, Layout, obj' = obj, op.pc \notin FreeSteps, op'.pc \notin FreeSteps,
         \A p \in Pools : /\ There(p)' = There(p) /\ InPair(p)' = InPair(p)
                          /\ First(p)' = First(p) /\ Past(p)' = Past(p)
  PROVE  /\ Blocks' /\ Windows' /\ Inside' /\ LiveBlocksDisjoint'
         /\ \A p \in Pools : UsedIn(p)' = UsedIn(p)
<1>1. Windows'
  BY WindowsFrame DEF Layout
<1>2. QED BY <1>1, BlocksFrame

(* An adopted block stays in the span it shares with the target.           *)
LEMMA AdoptKeeps ==
  ASSUME TypeOK, Layout, op.pc \in {"merge-move", "split-adopt"}, NEW o \in op.adopt,
         obj' = [obj EXCEPT ![o].pool = op.tgt], op' = [op EXCEPT !.adopt = @ \ {o}], pool' = pool
  PROVE  Layout'
<1>1. /\ op.pc \in MergeSteps \cup SplitSteps /\ o \in Objects
      /\ op.pc \notin FreeSteps /\ op.src # op.tgt /\ There(op.tgt)
      /\ First(op.src) = First(op.tgt) /\ Past(op.src) = Past(op.tgt)
      /\ \A q : InPair(q) <=> q \in {op.src, op.tgt}
  BY Merging, Splitting, Fields DEF MergeSteps, SplitSteps
<1>2. /\ op'.pc = op.pc /\ op'.src = op.src /\ op'.tgt = op.tgt /\ op'.to = op.to
      /\ op'.todo = op.todo /\ op'.adopt = op.adopt \ {o}
  BY DEF TypeOK, OpRecord
<1>3. /\ \A q \in Objects : /\ obj'[q].state = obj[q].state /\ obj'[q].start = obj[q].start
                            /\ obj'[q].size = obj[q].size /\ obj'[q].pinned = obj[q].pinned
                            /\ q # o => obj'[q].pool = obj[q].pool
      /\ obj'[o].pool = op.tgt
  BY <1>1 DEF TypeOK, ObjectDesc
<1>4. \A q \in Objects : Used(q)' = Used(q) /\ BlockEnd(q)' = BlockEnd(q)
  BY <1>3 DEF Used, BlockEnd
<1>5. o \in UsedIn(op.src) /\ Used(o) /\ obj[o].pool = op.src
  BY DEF Layout, Sides, UsedIn
<1>6. /\ UsedIn(op.src)' = UsedIn(op.src) \ {o} /\ UsedIn(op.tgt)' = UsedIn(op.tgt) \cup {o}
      /\ \A q : q \notin {op.src, op.tgt} => UsedIn(q)' = UsedIn(q)
  <2>1. op.src # op.tgt
    BY <1>1
  <2>2. \A q, p : q \in UsedIn(p)' <=> q \in Objects /\ Used(q) /\ obj'[q].pool = p
    BY <1>4 DEF UsedIn
  <2>3. \A q, p : q \in UsedIn(p) <=> q \in Objects /\ Used(q) /\ obj[q].pool = p
    BY DEF UsedIn
  <2>4. UsedIn(op.src)' = UsedIn(op.src) \ {o}
    BY <1>2, <1>3, <1>5, <2>1, <2>3, <1>4 DEF UsedIn
  <2>5. UsedIn(op.tgt)' = UsedIn(op.tgt) \cup {o}
    BY <1>2, <1>3, <1>5, <2>1, <2>3, <1>4 DEF UsedIn
  <2>6. \A q : q \notin {op.src, op.tgt} => UsedIn(q)' = UsedIn(q)
    BY <1>3, <1>4, <1>5 DEF UsedIn
  <2>7. QED BY <2>4, <2>5, <2>6
<1>7. Moving' = Moving
  BY <1>1, <1>2, <1>5, <1>6 DEF Moving
<1>8. \A q : /\ There(q)' = There(q) /\ InPair(q)' = InPair(q)
             /\ First(q)' = First(q) /\ Past(q)' = Past(q)
  <2>1. SpanFirst' = SpanFirst /\ SpanCount' = SpanCount
    BY <1>2 DEF SpanFirst, SpanCount, Lower
  <2>2. QED BY <1>1, <1>2, <2>1 DEF There, InPair, First, Past
<1>9. Blocks' /\ LiveBlocksDisjoint'
  BY <1>1, <1>2, <1>3, <1>4 DEF Layout, Blocks, LiveBlocksDisjoint, Used
<1>10. OpShape'
  BY <1>1, <1>2 DEF Layout, OpShape, JustBelow
<1>11. Windows'
  BY <1>8, WindowsFrame DEF Layout
<1>12. Inside'
  <2>1. ASSUME NEW q \in Objects, NEW r \in Pools, Used(q)', obj'[q].pool = r
        PROVE  /\ There(r)' /\ First(r)' * SegUnits <= obj'[q].start
               /\ BlockEnd(q)' <= Past(r)' * SegUnits
    <3>1. CASE q = o
      <4>1. /\ There(op.src) /\ First(op.src) * SegUnits <= obj[o].start
            /\ BlockEnd(o) <= Past(op.src) * SegUnits
        BY <1>1, <1>5 DEF Layout, Inside
      <4>2. r = op.tgt /\ There(r) /\ First(r) = First(op.src) /\ Past(r) = Past(op.src)
        BY <1>1, <1>3, <2>1, <3>1
      <4>3. QED BY <1>3, <1>4, <1>8, <3>1, <4>1, <4>2
    <3>2. CASE q # o
      BY <1>3, <1>4, <1>8, <2>1, <3>2 DEF Layout, Inside
    <3>3. QED BY <3>1, <3>2
  <2>2. \A q \in Objects : obj'[q].pool \in Pools
    BY <1>3, Fields
  <2>3. QED BY <2>1, <2>2, InsideIf
<1>13. Sides'
  <2>1. CASE op.pc = "merge-move"
    BY <1>2, <1>6, <2>1 DEF Layout, Sides
  <2>2. CASE op.pc = "split-adopt"
    <3>1. /\ op.adopt \subseteq UsedIn(op.src)
          /\ \A q \in UsedIn(op.src) \ op.adopt : BlockEnd(q) <= Boundary
          /\ \A q \in UsedIn(op.tgt) \cup op.adopt : Boundary <= obj[q].start
      BY <2>2 DEF Layout, Sides
    <3>2. /\ UsedIn(op.src)' \ op'.adopt = UsedIn(op.src) \ op.adopt
          /\ UsedIn(op.tgt)' \cup op'.adopt = UsedIn(op.tgt) \cup op.adopt
          /\ op'.adopt \subseteq UsedIn(op.src)'
      BY <1>2, <1>6, <3>1
    <3>3. Boundary' = Boundary /\ \A p : \A q \in UsedIn(p) : q \in Objects
      BY <1>2, <2>2 DEF Boundary, UsedIn, TypeOK, OpRecord
    <3>4. QED BY <1>2, <1>3, <1>4, <2>2, <3>1, <3>2, <3>3 DEF Sides
  <2>3. QED BY <2>1, <2>2
<1>14. Counts'
  BY <1>1, <1>2, <1>6, <1>7, <1>8 DEF Layout, Counts
<1>15. CASE op.pc = "merge-move"
  <2>0. op'.pc = "merge-move"
    BY <1>2, <1>15
  <2>1. /\ op.todo \subseteq Moving
        /\ \A a \in op.todo :
             /\ First(op.src) * SegUnits <= op.to[a] /\ op.to[a] <= obj[a].start
             /\ obj[a].pinned => op.to[a] = obj[a].start
             /\ \A b \in Moving : obj[b].start < obj[a].start =>
                  (IF b \in op.todo THEN op.to[b] ELSE obj[b].start) + obj[b].size <= op.to[a]
    BY <1>15 DEF Layout, Slides
  <2>2. First(op.src)' = First(op.src)
    BY <1>2, <1>8
  <2>3. \A b \in Moving : b \in Objects
    BY DEF Moving, UsedIn
  <2>4. Slides'
    BY <1>2, <1>3, <1>7, <2>1, <2>2, <2>3 DEF Slides
  <2>5. QED BY <1>9, <1>10, <1>11, <1>12, <1>13, <1>14, <2>0, <2>4 DEF Layout, Splits
<1>16. CASE op.pc = "split-adopt"
  BY <1>2, <1>9, <1>10, <1>11, <1>12, <1>13, <1>14, <1>16 DEF Layout, Slides, Splits
<1>17. QED BY <1>15, <1>16

(* One pool of the pair, empty of objects, leaves the span to the other.   *)
LEMMA CollapseKeeps ==
  ASSUME TypeOK, Layout, op.pc \in MergeSteps \cup SplitSteps, NEW s \in Pools, NEW t \in Pools,
         {s, t} = {op.src, op.tgt}, UsedIn(s) = {}, pool[t].live = Cardinality(UsedIn(t)),
         SpanFirst = pool[t].first, SpanCount = pool[t].count,
         obj' = obj, op'.pc = "idle", ~There(s)', There(t)',
         \A q \in Pools \ {s} :
           /\ pool'[q].first = pool[q].first /\ pool'[q].count = pool[q].count
           /\ pool'[q].live = pool[q].live /\ There(q)' = There(q)
  PROVE  Layout'
<1>1. op.pc \notin FreeSteps /\ op'.pc \notin FreeSteps /\ op'.pc \notin MergeSteps \cup SplitSteps
  BY DEF MergeSteps, SplitSteps, FreeSteps
<1>2. /\ s # t /\ There(t) /\ First(t) = SpanFirst /\ Past(t) = SpanFirst + SpanCount
      /\ \A q : InPair(q) <=> q \in {s, t}
      /\ \A q : q \notin {s, t} => First(q) = pool[q].first /\ Past(q) = pool[q].first + pool[q].count
  BY Merging, Splitting
<1>3. \A q : ~InPair(q)' /\ First(q)' = pool'[q].first /\ Past(q)' = pool'[q].first + pool'[q].count
  BY <1>1 DEF InPair, First, Past
<1>4. \A q \in Pools \ {s} :
        There(q)' = There(q) /\ First(q)' = First(q) /\ Past(q)' = Past(q)
  BY <1>2, <1>3
<1>5. Windows'
  <2>1. \A q \in Pools : There(q)' => q # s
    OBVIOUS
  <2>2. \A q \in Pools : InPair(q) /\ q # s => q = t
    BY <1>2
  <2>3. \A q \in Pools : There(q)' => First(q)' < Past(q)' /\ Past(q)' <= Segments
    BY <1>4, <2>1 DEF Layout, Windows
  <2>4. ASSUME NEW q \in Pools, NEW r \in Pools, q # r, There(q)', There(r)'
        PROVE  Past(q)' <= First(r)' \/ Past(r)' <= First(q)'
    <3>1. ~(InPair(q) /\ InPair(r)) /\ There(q) /\ There(r) /\ q # s /\ r # s
      BY <1>4, <2>1, <2>2, <2>4
    <3>2. Past(q) <= First(r) \/ Past(r) <= First(q)
      BY <2>4, <3>1 DEF Layout, Windows
    <3>3. QED BY <1>4, <3>1, <3>2
  <2>5. QED BY <2>3, <2>4 DEF Windows
<1>6. Blocks' /\ Inside' /\ LiveBlocksDisjoint' /\ \A q \in Pools : UsedIn(q)' = UsedIn(q)
  BY <1>1, <1>4, BlocksFrame
<1>7. \A q \in Pools : There(q)' => pool'[q].live = Cardinality(UsedIn(q)')
  BY <1>2, <1>6 DEF Layout, Counts
<1>8. QED BY <1>5, <1>6, <1>7, AtIdle DEF Layout

-----------------------------------------------------------------------------
(* merge *)

LEMMA MergeArmKeeps ==
  ASSUME TypeOK, Layout, NEW s \in Pools, NEW t \in Pools, MergeArm(s, t)
  PROVE  Layout'
<1>1. /\ op.pc = "idle" /\ s # t /\ There(s) /\ There(t)
      /\ pool' = [pool EXCEPT ![s].state = "Merging", ![t].state = "Merging"]
      /\ op'.pc = "merge-plan" /\ op'.src = s /\ op'.tgt = t /\ obj' = obj
      /\ pool \in [Pools -> PoolRecord]
  BY DEF MergeArm, OwnerAt, Maintainable, There, Idle, TypeOK
<1>2. /\ \A q \in Pools : /\ pool'[q].first = pool[q].first /\ pool'[q].count = pool[q].count
                          /\ pool'[q].live = pool[q].live /\ There(q)' = There(q)
      /\ pool'[s].state = "Merging" /\ pool'[t].state = "Merging"
  BY <1>1 DEF PoolRecord, There
<1>3. /\ JustBelow(s, t) \/ JustBelow(t, s)
      /\ \A q \in Pools : /\ First(q) = pool[q].first /\ Past(q) = pool[q].first + pool[q].count
                          /\ pool[q].first \in Nat /\ pool[q].count \in Nat
                          /\ There(q) => pool[q].count > 0
  <2>1. JustBelow(s, t) \/ JustBelow(t, s)
    BY DEF MergeArm
  <2>2. QED BY <1>1, <2>1, Idling, Fields DEF Layout, Windows
<1> DEFINE low == IF pool[s].first < pool[t].first THEN s ELSE t
           from == pool[low].first
           past == pool[low].first + (pool[s].count + pool[t].count)
<1>4. /\ from \in Nat /\ past \in Nat /\ from < past
      /\ from <= pool[s].first /\ pool[s].first + pool[s].count <= past
      /\ from <= pool[t].first /\ pool[t].first + pool[t].count <= past
      /\ past = pool[s].first + pool[s].count \/ past = pool[t].first + pool[t].count
  BY <1>1, <1>3 DEF JustBelow
<1>5. /\ \A q : InPair(q)' <=> q \in {s, t}
      /\ \A q \in Pools \ {s, t} : First(q)' = First(q) /\ Past(q)' = Past(q)
      /\ \A q \in {s, t} : First(q)' = from /\ Past(q)' = past
  <2>1. op'.pc \in MergeSteps /\ op'.pc \notin SplitSteps
    BY <1>1 DEF MergeSteps, SplitSteps
  <2>2. \A q : InPair(q)' <=> q \in {s, t}
    BY <1>1, <2>1 DEF InPair
  <2>3. SpanFirst' = from /\ SpanCount' = pool[s].count + pool[t].count
    BY <1>1, <1>2, <2>1 DEF SpanFirst, SpanCount, Lower
  <2>4. QED BY <1>2, <1>3, <2>2, <2>3 DEF First, Past
<1>6. from < past /\ past <= Segments
  BY <1>1, <1>3, <1>4 DEF Layout, Windows
<1>7. \A q \in Pools \ {s, t} : There(q) => Past(q) <= from \/ past <= First(q)
  <2> SUFFICES ASSUME NEW q \in Pools \ {s, t}, There(q) PROVE Past(q) <= from \/ past <= First(q)
    OBVIOUS
  <2>1. /\ Past(q) <= First(s) \/ Past(s) <= First(q)
        /\ Past(q) <= First(t) \/ Past(t) <= First(q)
        /\ First(q) < Past(q)
    BY <1>1, Idling DEF Layout, Windows
  <2>2. QED BY <1>1, <1>3, <2>1 DEF JustBelow
<1> HIDE DEF low, from, past
<1>8. Windows'
  <2>1. \A q \in Pools : There(q)' => First(q)' < Past(q)' /\ Past(q)' <= Segments
    BY <1>2, <1>5, <1>6 DEF Layout, Windows
  <2>2. ASSUME NEW q \in Pools, NEW r \in Pools, q # r, There(q)', There(r)'
        PROVE  Past(q)' <= First(r)' \/ Past(r)' <= First(q)' \/ (InPair(q)' /\ InPair(r)')
    <3>1. CASE q \in {s, t}
      BY <1>2, <1>5, <1>7, <2>2, <3>1
    <3>2. CASE r \in {s, t}
      BY <1>2, <1>5, <1>7, <2>2, <3>2
    <3>3. CASE q \notin {s, t} /\ r \notin {s, t}
      BY <1>1, <1>2, <1>5, <2>2, <3>3, Idling DEF Layout, Windows
    <3>4. QED BY <3>1, <3>2, <3>3
  <2>3. QED BY <2>1, <2>2 DEF Windows
<1>9. Inside'
  <2>1. \A q \in Pools : There(q) =>
          /\ There(q)' /\ First(q)' \in Nat /\ Past(q)' \in Nat
          /\ First(q)' <= First(q) /\ Past(q) <= Past(q)'
    BY <1>2, <1>3, <1>4, <1>5
  <2>2. QED BY <1>1, <2>1, InsideWider
<1>10. \A o \in Objects : Used(o)' = Used(o) /\ BlockEnd(o)' = BlockEnd(o)
  BY <1>1 DEF Used, BlockEnd
<1>11. Blocks' /\ LiveBlocksDisjoint'
  BY <1>1, <1>10, Idling DEF Layout, Blocks, LiveBlocksDisjoint, FreeSteps, Used
<1>12. OpShape'
  <2>1. op'.pc \notin CompactSteps /\ op'.pc \notin SplitSteps
    BY <1>1 DEF CompactSteps, SplitSteps
  <2>2. JustBelow(s, t)' \/ JustBelow(t, s)'
    BY <1>2, <1>3 DEF JustBelow
  <2>3. QED BY <1>1, <1>2, <1>3, <2>1, <2>2 DEF OpShape, JustBelow
<1>13. Sides' /\ Slides' /\ Splits'
  BY <1>1 DEF Sides, Slides, Splits
<1>14. Counts'
  <2>1. op'.pc \notin SplitSteps
    BY <1>1 DEF SplitSteps
  <2>2. \A q \in Pools : UsedIn(q)' = UsedIn(q)
    BY <1>1 DEF UsedIn, Used
  <2>3. QED BY <1>1, <1>2, <2>1, <2>2, Idling DEF Counts
<1>15. QED BY <1>8, <1>9, <1>11, <1>12, <1>13, <1>14 DEF Layout

LEMMA MergePlanKeeps ==
  ASSUME TypeOK, Layout, MergePlan
  PROVE  Layout'
<1> DEFINE R    == Residents(op.src) \cup Residents(op.tgt)
           low  == Lower(op.src, op.tgt)
           high == IF low = op.src THEN op.tgt ELSE op.src
<1>1. op.pc = "merge-plan" /\ op.pc \in MergeSteps /\ pool' = pool /\ obj' = obj
  BY DEF MergePlan, OwnerAt, MergeSteps
<1>2. PICK f \in [R -> Units] :
        /\ Packs(f, R, WindowLo(pool[low]), WindowHi(pool[high]))
        /\ op' = [op EXCEPT !.pc = "merge-move", !.to = OnObjects(f), !.todo = R,
                            !.adopt = Residents(op.src)]
  BY DEF MergePlan
<1>3. /\ op'.pc = "merge-move" /\ op'.src = op.src /\ op'.tgt = op.tgt
      /\ op'.to = OnObjects(f) /\ op'.todo = R /\ op'.adopt = Residents(op.src)
  BY <1>2 DEF TypeOK, OpRecord
<1>4. /\ op'.pc \in MergeSteps /\ op'.pc \notin FreeSteps /\ op'.pc \notin SplitSteps
      /\ op'.pc \notin CompactSteps
  BY <1>3 DEF MergeSteps, FreeSteps, SplitSteps, CompactSteps
<1>5. /\ SpanFirst = pool[low].first /\ SpanFirst' = pool[low].first
      /\ SpanCount' = SpanCount
  BY <1>1, <1>3, <1>4, Merging DEF SpanFirst, SpanCount, Lower
<1>6. \A q : /\ There(q)' = There(q) /\ InPair(q)' = InPair(q)
             /\ First(q)' = First(q) /\ Past(q)' = Past(q)
  BY <1>1, <1>3, <1>4, <1>5 DEF There, InPair, First, Past
<1>7. /\ Blocks' /\ Windows' /\ Inside' /\ LiveBlocksDisjoint'
      /\ \A q \in Pools : UsedIn(q)' = UsedIn(q)
  BY <1>1, <1>4, <1>6, Merging, PairFrame
<1>8. R = Moving /\ Moving' = Moving
  BY <1>1, <1>3, <1>7, Merging DEF Moving
<1>9. OpShape'
  BY <1>1, <1>3, <1>4 DEF Layout, OpShape, JustBelow
<1>10. Sides'
  BY <1>1, <1>3, <1>7, Merging DEF Sides
<1>11. Slides'
  <2>1. /\ low \in Pools /\ SpanFirst \in Nat /\ First(op.src) = SpanFirst
        /\ WindowLo(pool[low]) = SpanFirst * SegUnits /\ WindowLo(pool[low]) \in Nat
    BY <1>1, <1>5, Merging, Fields, SegAssumption DEF Lower, WindowLo
  <2>2. /\ R \in SUBSET Objects /\ \A o \in R : Used(o) /\ obj[o].pool \in {op.src, op.tgt}
        /\ \A o \in R : f[o] \in Nat /\ op'.to[o] = f[o]
    BY <1>2, <1>3, <1>8, UnitsAreNat DEF Moving, UsedIn, OnObjects
  <2>3. \A o \in R : WindowLo(pool[low]) <= obj[o].start
    BY <1>1, <2>1, <2>2, Merging DEF Layout, Inside
  <2> HIDE DEF R, low, high
  <2>4. \A o \in R : f[o] <= obj[o].start
    BY <1>2, <2>1, <2>2, <2>3, PacksDown DEF Layout
  <2>5. \A o \in R : /\ WindowLo(pool[low]) <= f[o]
                     /\ obj[o].pinned => f[o] = obj[o].start
                     /\ \A q \in R : obj[q].start < obj[o].start => f[q] + obj[q].size <= f[o]
    BY <1>2 DEF Packs, Below
  <2>6. op'.todo = R /\ op'.todo \subseteq Moving' /\ Moving' = R
    BY <1>3, <1>8
  <2>7. First(op.src)' = SpanFirst
    BY <1>3, <1>6, <2>1
  <2>8. QED BY <1>1, <2>1, <2>2, <2>4, <2>5, <2>6, <2>7 DEF Slides
<1>12. Splits'
  BY <1>3 DEF Splits
<1>13. Counts'
  BY <1>1, <1>3, <1>4, <1>6, <1>7 DEF Layout, Counts
<1>14. QED BY <1>7, <1>9, <1>10, <1>11, <1>12, <1>13 DEF Layout

(* An adopted block stays in the span of the two pools.                    *)
LEMMA MergeMoveKeeps ==
  ASSUME TypeOK, Layout, NEW o \in Objects, MergeMove(o)
  PROVE  Layout'
  BY SlideKeeps DEF MergeMove, OwnerAt, Lowest, Relocate

(* While first and count are rewritten the span stays what it is.          *)
LEMMA MergeWindowKeeps ==
  ASSUME TypeOK, Layout, MergeFirst \/ MergeCount
  PROVE  Layout'
<1>1. /\ op.pc \in {"merge-move", "merge-count"} /\ op.pc \in MergeSteps /\ obj' = obj
      /\ pool \in [Pools -> PoolRecord] /\ UsedIn(op.src) = {}
  BY DEF MergeFirst, MergeCount, OwnerAt, MergeSteps, TypeOK, Layout, Sides
<1>2. /\ op'.pc \in {"merge-count", "merge-commit"} /\ op'.src = op.src /\ op'.tgt = op.tgt
      /\ op'.pc = "merge-commit" <=> MergeCount
  BY DEF MergeFirst, MergeCount, OwnerAt, TypeOK, OpRecord
<1>3. /\ op'.pc \in MergeSteps /\ op'.pc \notin FreeSteps /\ op'.pc \notin SplitSteps
      /\ op'.pc \notin CompactSteps
  BY <1>2 DEF MergeSteps, FreeSteps, SplitSteps, CompactSteps
<1>4. op.src # op.tgt /\ op.src \in Pools /\ op.tgt \in Pools
  BY <1>1, Merging
<1>5. /\ \A q \in Pools : There(q)' = There(q) /\ pool'[q].state = pool[q].state
      /\ \A q \in Pools \ {op.src, op.tgt} : pool'[q] = pool[q]
  <2>1. \A q \in Pools \ {op.tgt} : pool'[q] = pool[q]
    BY <1>1, <1>4 DEF MergeFirst, MergeCount
  <2>2. pool'[op.tgt].state = pool[op.tgt].state
    <3>1. pool[op.tgt] \in PoolRecord
      BY <1>1, <1>4
    <3>2. CASE MergeFirst
      <4>1. pool'[op.tgt] = [pool[op.tgt] EXCEPT !.first = pool[Lower(op.src, op.tgt)].first]
        BY <1>1, <1>4, <3>2 DEF MergeFirst
      <4>2. QED BY <3>1, <4>1 DEF PoolRecord
    <3>3. CASE MergeCount
      <4>1. pool'[op.tgt] = [pool[op.tgt] EXCEPT !.count = @ + pool[op.src].count,
                                                 !.live = Cardinality(Residents(op.tgt))]
        BY <1>1, <1>4, <3>3 DEF MergeCount
      <4>2. QED BY <3>1, <4>1 DEF PoolRecord
    <3>4. QED BY <3>2, <3>3
  <2>3. QED BY <2>1, <2>2 DEF There
<1>6. SpanFirst' = SpanFirst /\ SpanCount' = SpanCount
  <2>1. CASE MergeFirst
    <3>1. op.pc = "merge-move" /\ op'.pc = "merge-count"
      BY <2>1 DEF MergeFirst, OwnerAt, TypeOK, OpRecord
    <3>2. /\ pool'[op.tgt].first = pool[Lower(op.src, op.tgt)].first
          /\ pool'[op.tgt].count = pool[op.tgt].count /\ pool'[op.src].count = pool[op.src].count
      BY <1>1, <1>4, <2>1 DEF MergeFirst, PoolRecord
    <3>3. QED BY <1>1, <1>2, <1>3, <3>1, <3>2, Merging DEF SpanFirst, SpanCount
  <2>2. CASE MergeCount
    <3>1. op.pc = "merge-count" /\ op'.pc = "merge-commit"
      BY <2>2 DEF MergeCount, OwnerAt, TypeOK, OpRecord
    <3>2. /\ pool'[op.tgt].first = pool[op.tgt].first
          /\ pool'[op.tgt].count = pool[op.tgt].count + pool[op.src].count
      BY <1>1, <1>4, <2>2 DEF MergeCount, PoolRecord
    <3>3. QED BY <1>1, <1>2, <1>3, <1>4, <3>1, <3>2, Merging, Fields DEF SpanFirst, SpanCount
  <2>3. QED BY <2>1, <2>2
<1>7. \A q \in Pools : /\ There(q)' = There(q) /\ InPair(q)' = InPair(q)
                       /\ First(q)' = First(q) /\ Past(q)' = Past(q)
  BY <1>1, <1>2, <1>3, <1>5, <1>6 DEF InPair, First, Past
<1>8. /\ Blocks' /\ Windows' /\ Inside' /\ LiveBlocksDisjoint'
      /\ \A q \in Pools : UsedIn(q)' = UsedIn(q)
  BY <1>1, <1>3, <1>7, Merging, PairFrame
<1>9. OpShape'
  BY <1>1, <1>2, <1>3, <1>4, <1>5 DEF Layout, OpShape
<1>10. Sides'
  BY <1>1, <1>2, <1>3, <1>4, <1>8 DEF Sides
<1>11. Slides' /\ Splits'
  BY <1>2 DEF Slides, Splits
<1>12. Counts'
  <2>1. \A q \in Pools : There(q)' /\ ~InPair(q)' => pool'[q].live = Cardinality(UsedIn(q)')
    BY <1>1, <1>5, <1>7, <1>8, Merging DEF Layout, Counts
  <2>2. MergeCount => pool'[op.tgt].live = Cardinality(UsedIn(op.tgt))
    BY <1>1, <1>4, Merging DEF MergeCount, PoolRecord
  <2>3. QED BY <1>2, <1>3, <1>4, <1>8, <2>1, <2>2 DEF Counts
<1>13. QED BY <1>8, <1>9, <1>10, <1>11, <1>12 DEF Layout

LEMMA MergeAdoptKeeps ==
  ASSUME TypeOK, Layout, NEW o \in Objects, MergeAdopt(o)
  PROVE  Layout'
  BY AdoptKeeps DEF MergeAdopt, OwnerAt

LEMMA MergeCommitKeeps ==
  ASSUME TypeOK, Layout, MergeCommit
  PROVE  Layout'
<1>1. PICK s \in Pools, t \in Pools : s = op.src /\ t = op.tgt
  BY Fields
<1>2. /\ op.pc = "merge-commit" /\ op.pc \in MergeSteps /\ obj' = obj /\ op'.pc = "idle"
      /\ pool \in [Pools -> PoolRecord] /\ UsedIn(s) = {}
      /\ pool[t].live = Cardinality(UsedIn(t))
      /\ pool' = [pool EXCEPT ![s] = EmptyPool, ![t].state = "Running"]
  BY <1>1 DEF MergeCommit, OwnerAt, MergeSteps, TypeOK, Layout, Sides, Counts, Idle
<1>3. s # t /\ There(t) /\ SpanFirst = pool[t].first /\ SpanCount = pool[t].count
  BY <1>1, <1>2, Merging DEF SpanFirst, SpanCount
<1>4. /\ ~There(s)' /\ There(t)'
      /\ \A q \in Pools \ {s} :
           /\ pool'[q].first = pool[q].first /\ pool'[q].count = pool[q].count
           /\ pool'[q].live = pool[q].live /\ There(q)' = There(q)
  BY <1>2, <1>3 DEF EmptyPool, There, PoolRecord
<1>5. QED BY <1>1, <1>2, <1>3, <1>4, CollapseKeeps


-----------------------------------------------------------------------------
(* split *)

(* The new pool has no objects and shares the window of the source.        *)
LEMMA SplitArmKeeps ==
  ASSUME TypeOK, Layout, NEW p \in Pools, NEW n \in 1 .. Segments, SplitArm(p, n)
  PROVE  Layout'
<1>1. PICK new \in Pools :
        /\ FirstEmpty(new)
        /\ pool' = [pool EXCEPT ![p].state = "Splitting", ![new].state = "Splitting"]
        /\ op' = [Idle EXCEPT !.pc = "split-plan", !.src = p, !.tgt = new,
                    !.paused = {q \in {p} : pool[q].state = "Paused"},
                    !.keep = pool[p].count - n, !.fresh = n]
  BY DEF SplitArm
<1>2. /\ op.pc = "idle" /\ obj' = obj /\ There(p) /\ ~There(new) /\ p # new
      /\ n \in Nat /\ n > 0 /\ pool[p].count \in Nat /\ n < pool[p].count
      /\ pool \in [Pools -> PoolRecord]
  BY <1>1, SegAssumption, Fields DEF SplitArm, OwnerAt, Maintainable, FirstEmpty, There, TypeOK
<1>3. /\ op'.pc = "split-plan" /\ op'.src = p /\ op'.tgt = new
      /\ op'.keep = pool[p].count - n /\ op'.fresh = n
  BY <1>1 DEF Idle
<1>4. /\ op'.pc \in SplitSteps /\ op'.pc \notin MergeSteps /\ op'.pc \notin CompactSteps
      /\ op'.pc \notin FreeSteps
  BY <1>3 DEF SplitSteps, MergeSteps, CompactSteps, FreeSteps
<1>5. /\ pool'[p].state = "Splitting" /\ pool'[new].state = "Splitting"
      /\ \A q \in Pools : /\ pool'[q].first = pool[q].first /\ pool'[q].count = pool[q].count
                          /\ pool'[q].live = pool[q].live
                          /\ There(q)' <=> There(q) \/ q = new
  BY <1>1, <1>2 DEF PoolRecord, There
<1>6. \A q : InPair(q)' <=> q \in {p, new}
  BY <1>3, <1>4 DEF InPair
<1>7. SpanFirst' = pool[p].first /\ SpanCount' = pool[p].count
  BY <1>2, <1>3, <1>4, <1>5 DEF SpanFirst, SpanCount
<1>8. /\ \A q : First(q) = pool[q].first /\ Past(q) = pool[q].first + pool[q].count
      /\ \A q \in Pools \ {new} : First(q)' = First(q) /\ Past(q)' = Past(q)
      /\ First(new)' = First(p) /\ Past(new)' = Past(p)
  BY <1>2, <1>5, <1>6, <1>7, Idling DEF First, Past
<1>9. Windows'
  <2>1. \A q \in Pools : There(q)' => First(q)' < Past(q)' /\ Past(q)' <= Segments
    BY <1>2, <1>5, <1>8 DEF Layout, Windows
  <2>2. ASSUME NEW q \in Pools, NEW r \in Pools, q # r, There(q)', There(r)'
        PROVE  Past(q)' <= First(r)' \/ Past(r)' <= First(q)' \/ (InPair(q)' /\ InPair(r)')
    <3> DEFINE at(x) == IF x = new THEN p ELSE x
    <3>1. /\ at(q) \in Pools /\ There(at(q)) /\ First(q)' = First(at(q)) /\ Past(q)' = Past(at(q))
          /\ at(r) \in Pools /\ There(at(r)) /\ First(r)' = First(at(r)) /\ Past(r)' = Past(at(r))
      BY <1>2, <1>5, <1>8, <2>2
    <3>2. CASE at(q) = at(r)
      BY <1>6, <2>2, <3>2
    <3>3. CASE at(q) # at(r)
      <4>1. Past(at(q)) <= First(at(r)) \/ Past(at(r)) <= First(at(q))
        BY <1>2, <3>1, <3>3, Idling DEF Layout, Windows
      <4>2. QED BY <3>1, <4>1
    <3>4. QED BY <3>2, <3>3
  <2>3. QED BY <2>1, <2>2 DEF Windows
<1>10. Blocks' /\ Inside' /\ LiveBlocksDisjoint' /\ \A q \in Pools : UsedIn(q)' = UsedIn(q)
  <2>1. \A q \in Pools : There(q) => There(q)' /\ First(q)' = First(q) /\ Past(q)' = Past(q)
    BY <1>2, <1>5, <1>8
  <2>2. QED BY <1>2, <1>4, <2>1, Idling, BlocksFrame
<1>11. UsedIn(new)' = {} /\ Moving' = UsedIn(p)
  <2>1. UsedIn(new) = {}
    BY <1>2, Idling
  <2>2. UsedIn(new)' = {} /\ UsedIn(p)' = UsedIn(p)
    BY <1>10, <2>1
  <2>3. Moving' = UsedIn(p)' \cup UsedIn(new)'
    BY <1>3 DEF Moving
  <2>4. QED BY <2>2, <2>3
<1>12. OpShape'
  BY <1>2, <1>3, <1>4, <1>5 DEF OpShape
<1>13. Sides' /\ Slides' /\ Splits'
  BY <1>3, <1>11 DEF Sides, Slides, Splits
<1>14. Counts'
  BY <1>2, <1>3, <1>4, <1>5, <1>6, <1>10, <1>11, Idling DEF Counts
<1>15. QED BY <1>9, <1>10, <1>12, <1>13, <1>14 DEF Layout

(* A step of split that rewrites neither first nor count of the source.    *)
LEMMA SplitFrame ==
  ASSUME TypeOK, Layout, op.pc \in SplitSteps, op'.pc \in SplitSteps, obj' = obj,
         op'.src = op.src, op'.tgt = op.tgt, op'.keep = op.keep, op'.fresh = op.fresh,
         pool'[op.src].first = pool[op.src].first,
         \A q \in Pools : There(q)' = There(q),
         \A q \in Pools \ {op.src, op.tgt} : pool'[q] = pool[q]
  PROVE  /\ Blocks' /\ Windows' /\ Inside' /\ LiveBlocksDisjoint'
         /\ \A q \in Pools : UsedIn(q)' = UsedIn(q)
         /\ Moving' = Moving /\ Boundary' = Boundary
         /\ \A q \in Pools : There(q)' /\ ~InPair(q)' => pool'[q].live = Cardinality(UsedIn(q)')
<1>1. SpanFirst' = SpanFirst /\ SpanCount' = SpanCount /\ Boundary' = Boundary
  BY Splitting DEF SpanFirst, SpanCount, Boundary
<1>2. \A q \in Pools : /\ There(q)' = There(q) /\ InPair(q)' = InPair(q)
                       /\ First(q)' = First(q) /\ Past(q)' = Past(q)
  BY <1>1 DEF InPair, First, Past
<1>3. op.pc \notin FreeSteps /\ op'.pc \notin FreeSteps
  BY DEF FreeSteps, SplitSteps
<1>4. /\ Blocks' /\ Windows' /\ Inside' /\ LiveBlocksDisjoint'
      /\ \A q \in Pools : UsedIn(q)' = UsedIn(q)
  BY <1>2, <1>3, PairFrame
<1>5. Moving' = Moving
  BY <1>4, Splitting DEF Moving
<1>6. \A q \in Pools : There(q)' /\ ~InPair(q)' => pool'[q].live = Cardinality(UsedIn(q)')
  BY <1>2, <1>4, Splitting DEF Layout, Counts
<1>7. QED BY <1>1, <1>4, <1>5, <1>6

(* A plan keeps the order of the blocks: the lower side is packed below    *)
(* the boundary and slides down, the upper side lands at or above it.      *)
LEMMA SplitPlanOrdered ==
  ASSUME TypeOK, Layout, op.pc = "split-plan", NEW f \in SplitPlans(op.src)
  PROVE  /\ \A b \in UsedIn(op.src) :
              /\ f[b] \in Nat /\ pool[op.src].first * SegUnits <= f[b]
              /\ f[b] + obj[b].size <= (pool[op.src].first + pool[op.src].count) * SegUnits
              /\ obj[b].pinned => f[b] = obj[b].start
              /\ f[b] < Boundary => /\ f[b] + obj[b].size <= Boundary
                                    /\ BlockEnd(b) <= Boundary /\ f[b] <= obj[b].start
         /\ \A a, b \in UsedIn(op.src) : obj[a].start < obj[b].start => f[a] + obj[a].size <= f[b]
<1> DEFINE p  == op.src
           R  == UsedIn(op.src)
           lo == pool[op.src].first * SegUnits
           hi == (pool[op.src].first + pool[op.src].count) * SegUnits
           Lowers == {o \in R : ~(BlockEnd(o) > Boundary)}
           Uppers == {o \in R : BlockEnd(o) > Boundary}
<1>1. /\ op.pc \in SplitSteps /\ p \in Pools /\ Residents(p) = R
      /\ R \in SUBSET Objects /\ \A o \in R : Used(o) /\ obj[o].pool = p
  BY Splitting DEF SplitSteps, UsedIn
<1>2. /\ lo \in Nat /\ Boundary \in Nat /\ hi \in Nat /\ lo <= Boundary /\ Boundary <= hi
  <2>1. pool[p].count = op.keep + op.fresh /\ pool[p].first \in Nat
        /\ op.keep \in Nat /\ op.fresh \in Nat
    BY <1>1, Fields DEF Layout, OpShape
  <2>2. /\ pool[p].first <= pool[p].first + op.keep /\ pool[p].first + op.keep \in Nat
        /\ pool[p].first + op.keep <= pool[p].first + pool[p].count
        /\ pool[p].first + pool[p].count \in Nat
    BY <2>1
  <2>3. QED BY <2>1, <2>2, Scale DEF Boundary
<1>3. /\ f \in [R -> Units] /\ \A o \in R : f[o] \in Nat
      /\ Packs(f, Lowers, lo, Boundary) /\ Packs(f, Uppers, Boundary, hi)
  <2>1. /\ f \in [R -> Units] /\ UpperSide(p) = Uppers /\ LowerSide(p) = Lowers
        /\ Packs(f, LowerSide(p), lo, Boundary) /\ Packs(f, UpperSide(p), Boundary, hi)
    BY <1>1 DEF SplitPlans, UpperSide, LowerSide, WindowLo, WindowHi
  <2>2. QED BY <2>1, UnitsAreNat
<1>4. \A o \in R : /\ lo <= obj[o].start /\ obj[o].start \in Nat /\ obj[o].size \in Nat
                   /\ obj[o].size > 0 /\ BlockEnd(o) = obj[o].start + obj[o].size
  BY <1>1, Splitting, Fields DEF Layout, Inside, Blocks, BlockEnd
<1> HIDE DEF p, R, lo, hi
<1>5. \A o \in Lowers : f[o] <= obj[o].start
  <2>1. Lowers \in SUBSET Objects /\ \A o \in Lowers : Used(o) /\ f[o] \in Nat /\ lo <= obj[o].start
    BY <1>1, <1>3, <1>4
  <2> HIDE DEF Lowers
  <2>2. QED BY <1>2, <1>3, <2>1, PacksDown DEF Layout
<1>6. /\ \A o \in Lowers : /\ lo <= f[o] /\ f[o] + obj[o].size <= Boundary
                           /\ obj[o].pinned => f[o] = obj[o].start
                           /\ \A q \in Lowers : obj[q].start < obj[o].start => f[q] + obj[q].size <= f[o]
      /\ \A o \in Uppers : /\ Boundary <= f[o] /\ f[o] + obj[o].size <= hi
                           /\ obj[o].pinned => f[o] = obj[o].start
                           /\ \A q \in Uppers : obj[q].start < obj[o].start => f[q] + obj[q].size <= f[o]
  BY <1>3 DEF Packs, Below
<1>7. ASSUME NEW b \in R
      PROVE  /\ f[b] \in Nat /\ lo <= f[b] /\ f[b] + obj[b].size <= hi
             /\ obj[b].pinned => f[b] = obj[b].start
             /\ f[b] < Boundary => /\ f[b] + obj[b].size <= Boundary
                                   /\ BlockEnd(b) <= Boundary /\ f[b] <= obj[b].start
  <2>1. CASE b \in Lowers
    BY <1>2, <1>3, <1>4, <1>5, <1>6, <2>1
  <2>2. CASE b \in Uppers
    BY <1>2, <1>3, <1>4, <1>6, <2>2
  <2>3. QED BY <2>1, <2>2
<1>8. ASSUME NEW a \in R, NEW b \in R, obj[a].start < obj[b].start
      PROVE  f[a] + obj[a].size <= f[b]
  <2>1. CASE a \in Lowers /\ b \in Lowers
    BY <1>6, <1>8, <2>1
  <2>2. CASE a \in Uppers /\ b \in Uppers
    BY <1>6, <1>8, <2>2
  <2>3. CASE a \in Lowers /\ b \in Uppers
    BY <1>2, <1>3, <1>4, <1>6, <2>3
  <2>4. CASE a \in Uppers /\ b \in Lowers
    <3>1. obj[a].start + obj[a].size <= obj[b].start
      BY <1>1, <1>4, <1>8, Ordered DEF Layout
    <3>2. QED BY <1>2, <1>4, <2>4, <3>1
  <2>5. QED BY <2>1, <2>2, <2>3, <2>4
<1>9. QED BY <1>7, <1>8 DEF p, R, lo, hi

LEMMA SplitPlanKeeps ==
  ASSUME TypeOK, Layout, SplitPlan \/ SplitPlanFails
  PROVE  Layout'
<1>1. op.pc = "split-plan" /\ op.pc \in SplitSteps /\ pool' = pool /\ obj' = obj
  BY DEF SplitPlan, SplitPlanFails, OwnerAt, SplitSteps
<1>2. /\ op'.pc \in {"split-move", "split-fail"} /\ op'.src = op.src /\ op'.tgt = op.tgt
      /\ op'.keep = op.keep /\ op'.fresh = op.fresh
      /\ SplitPlanFails => op'.pc = "split-fail"
  BY DEF SplitPlan, SplitPlanFails, TypeOK, OpRecord
<1>3. /\ op'.pc \in SplitSteps /\ op'.pc # "split-commit" /\ op'.pc \notin MergeSteps
      /\ op'.pc \notin CompactSteps
  BY <1>2 DEF SplitSteps, MergeSteps, CompactSteps
<1>4. /\ Blocks' /\ Windows' /\ Inside' /\ LiveBlocksDisjoint'
      /\ \A q \in Pools : UsedIn(q)' = UsedIn(q)
      /\ Moving' = Moving /\ Boundary' = Boundary
      /\ \A q \in Pools : There(q)' /\ ~InPair(q)' => pool'[q].live = Cardinality(UsedIn(q)')
  BY <1>1, <1>2, <1>3, SplitFrame DEF There
<1>5. op.src \in Pools /\ op.tgt \in Pools
  BY <1>1, Splitting
<1>6. OpShape'
  BY <1>1, <1>2, <1>3 DEF Layout, OpShape
<1>7. Sides' /\ Slides'
  BY <1>1, <1>2, <1>4, <1>5 DEF Layout, Sides, Slides
<1>8. Splits'
  <2>1. CASE SplitPlanFails
    BY <1>2, <2>1 DEF Splits
  <2>2. CASE SplitPlan
    <3>1. PICK f \in SplitPlans(op.src) :
            op' = [op EXCEPT !.pc = "split-move", !.to = OnObjects(f),
                             !.todo = {o \in Residents(op.src) : ~obj[o].pinned}]
      BY <2>2 DEF SplitPlan
    <3>2. /\ op'.to = OnObjects(f)
          /\ op'.todo = {o \in UsedIn(op.src) : ~obj[o].pinned}
      BY <1>1, <3>1, Splitting DEF TypeOK, OpRecord
    <3>3. \A o \in UsedIn(op.src) : op'.to[o] = f[o] /\ o \in Objects
      <4>1. f \in [UsedIn(op.src) -> Units]
        BY <1>1, Splitting DEF SplitPlans
      <4>2. QED BY <3>2, <4>1 DEF OnObjects, UsedIn
    <3>4. /\ UsedIn(op.src)' = UsedIn(op.src) /\ pool'[op.src] = pool[op.src]
          /\ \A o \in Objects : BlockEnd(o)' = BlockEnd(o)
      BY <1>1, <1>2, <1>4, <1>5 DEF BlockEnd
    <3>5. /\ \A b \in UsedIn(op.src) :
               /\ f[b] \in Nat /\ pool[op.src].first * SegUnits <= f[b]
               /\ f[b] + obj[b].size <= (pool[op.src].first + pool[op.src].count) * SegUnits
               /\ obj[b].pinned => f[b] = obj[b].start
               /\ f[b] < Boundary => /\ f[b] + obj[b].size <= Boundary
                                     /\ BlockEnd(b) <= Boundary /\ f[b] <= obj[b].start
          /\ \A a, b \in UsedIn(op.src) : obj[a].start < obj[b].start => f[a] + obj[a].size <= f[b]
      BY <1>1, SplitPlanOrdered
    <3>6. QED BY <1>1, <1>2, <1>4, <3>2, <3>3, <3>4, <3>5 DEF Splits
  <2>3. QED BY <2>1, <2>2
<1>9. Counts'
  BY <1>1, <1>2, <1>3, <1>4, <1>5 DEF Layout, Counts, MergeSteps
<1>10. QED BY <1>4, <1>6, <1>7, <1>8, <1>9 DEF Layout

(* The move of a split leaves every block on its side of the moved one and *)
(* lands between them: going right past no block that has not gone, coming *)
(* down onto none that is still to go.                                     *)
LEMMA SplitMoveClear ==
  ASSUME TypeOK, Layout, NEW o \in Objects, SplitMove(o), NEW b \in UsedIn(op.src), b # o
  PROVE  /\ obj[b].start < obj[o].start => obj[b].start + obj[b].size <= op.to[o]
         /\ ~(obj[b].start < obj[o].start) => op.to[o] + obj[o].size <= obj[b].start
<1> DEFINE upper == {q \in op.todo : op.to[q] >= Boundary}
           right == {q \in upper : op.to[q] > obj[q].start}
<1>1. /\ op.pc = "split-move" /\ op.pc \in SplitSteps /\ o \in op.todo
      /\ \/ Highest(right, o)
         \/ right = {} /\ Lowest(upper, o)
         \/ upper = {} /\ Lowest(op.todo, o)
  BY DEF SplitMove, OwnerAt, SplitSteps, Highest, Lowest
<1>2. /\ op.todo \subseteq UsedIn(op.src)
      /\ \A c \in UsedIn(op.src) :
           /\ c \notin op.todo => op.to[c] = obj[c].start
           /\ op.to[c] < Boundary => op.to[c] + obj[c].size <= Boundary
           /\ op.to[c] < Boundary /\ c \in op.todo =>
                BlockEnd(c) <= Boundary /\ op.to[c] <= obj[c].start
      /\ \A a, c \in UsedIn(op.src) : obj[a].start < obj[c].start =>
           op.to[a] + obj[a].size <= op.to[c]
  BY <1>1 DEF Layout, Splits
<1>3. /\ o \in UsedIn(op.src) /\ b \in Objects /\ Used(o) /\ Used(b)
      /\ op.to[o] \in Nat /\ op.to[b] \in Nat /\ Boundary \in Nat
      /\ obj[o].start \in Nat /\ obj[o].size \in Nat /\ obj[o].size > 0
      /\ obj[b].start \in Nat /\ obj[b].size \in Nat /\ obj[b].size > 0
      /\ BlockEnd(b) = obj[b].start + obj[b].size
  BY <1>1, <1>2, Fields, NatProduct, SegAssumption DEF UsedIn, Layout, Blocks, Boundary, BlockEnd
<1>4. /\ obj[b].start < obj[o].start => obj[b].start + obj[b].size <= obj[o].start
      /\ ~(obj[b].start < obj[o].start) =>
           obj[o].start < obj[b].start /\ obj[o].start + obj[o].size <= obj[b].start
  BY <1>3, Ordered DEF Layout
<1>5. CASE b \notin op.todo
  BY <1>2, <1>3, <1>4, <1>5
<1>6. CASE b \in op.todo /\ Highest(right, o)
  <2>1. op.to[o] > obj[o].start /\ op.to[o] >= Boundary
    BY <1>6 DEF Highest
  <2>2. CASE obj[b].start < obj[o].start
    BY <1>3, <1>4, <2>1, <2>2
  <2>3. CASE ~(obj[b].start < obj[o].start)
    <3>1. b \notin right
      BY <1>3, <1>4, <1>6, <2>3 DEF Highest
    <3>2. op.to[o] + obj[o].size <= op.to[b]
      BY <1>2, <1>3, <1>4, <2>3
    <3>3. op.to[b] <= obj[b].start
      BY <1>3, <1>6, <2>1, <3>1, <3>2
    <3>4. QED BY <1>3, <2>3, <3>2, <3>3
  <2>4. QED BY <2>2, <2>3
<1>7. CASE b \in op.todo /\ right = {} /\ Lowest(upper, o)
  <2>1. op.to[o] <= obj[o].start /\ op.to[o] >= Boundary
    BY <1>3, <1>7 DEF Lowest
  <2>2. obj[b].start < obj[o].start => b \notin upper
    BY <1>7 DEF Lowest, Below
  <2>3. obj[b].start < obj[o].start => BlockEnd(b) <= Boundary
    BY <1>2, <1>3, <1>7, <2>2
  <2>4. QED BY <1>3, <1>4, <2>1, <2>3
<1>8. CASE b \in op.todo /\ upper = {} /\ Lowest(op.todo, o)
  <2>1. op.to[o] <= obj[o].start
    BY <1>1, <1>2, <1>3, <1>8
  <2>2. ~(obj[b].start < obj[o].start)
    BY <1>8 DEF Lowest, Below
  <2>3. QED BY <1>3, <1>4, <2>1, <2>2
<1>9. QED BY <1>1, <1>5, <1>6, <1>7, <1>8

LEMMA SplitMoveKeeps ==
  ASSUME TypeOK, Layout, NEW o \in Objects, SplitMove(o)
  PROVE  Layout'
<1> DEFINE p == op.src
           at == op.to[o]
<1>1. /\ op.pc = "split-move" /\ op.pc \in SplitSteps /\ o \in op.todo /\ pool' = pool
      /\ obj' = [obj EXCEPT ![o].start = at]
  BY DEF SplitMove, OwnerAt, SplitSteps, Highest, Lowest, Relocate
<1>2. /\ op'.pc = op.pc /\ op'.src = op.src /\ op'.tgt = op.tgt /\ op'.to = op.to
      /\ op'.keep = op.keep /\ op'.fresh = op.fresh
      /\ op'.todo = op.todo \ {o} /\ op'.adopt = op.adopt
  BY DEF SplitMove, TypeOK, OpRecord
<1>3. /\ op.todo \subseteq UsedIn(p) /\ \A a \in op.todo : ~obj[a].pinned
      /\ \A b \in UsedIn(p) :
           /\ pool[p].first * SegUnits <= op.to[b]
           /\ op.to[b] + obj[b].size <= (pool[p].first + pool[p].count) * SegUnits
           /\ b \notin op.todo => op.to[b] = obj[b].start
           /\ op.to[b] < Boundary => op.to[b] + obj[b].size <= Boundary
           /\ op.to[b] < Boundary /\ b \in op.todo =>
                BlockEnd(b) <= Boundary /\ op.to[b] <= obj[b].start
      /\ \A a, b \in UsedIn(p) : obj[a].start < obj[b].start =>
           op.to[a] + obj[a].size <= op.to[b]
  BY <1>1 DEF Layout, Splits
<1>4. o \in UsedIn(p) /\ Used(o) /\ obj[o].pool = p /\ obj[o].size \in Nat /\ at \in Nat
  BY <1>1, <1>3, Fields DEF UsedIn
<1>5. /\ \A q \in Objects : /\ obj'[q].state = obj[q].state /\ obj'[q].pool = obj[q].pool
                            /\ obj'[q].size = obj[q].size /\ obj'[q].pinned = obj[q].pinned
                            /\ q # o => obj'[q].start = obj[q].start
      /\ obj'[o].start = at
  BY <1>1 DEF TypeOK, ObjectDesc
<1>6. /\ \A q \in Objects : /\ Used(q)' = Used(q) /\ BlockEnd(q)' = obj'[q].start + obj[q].size
                            /\ BlockEnd(q) = obj[q].start + obj[q].size
      /\ \A q : UsedIn(q)' = UsedIn(q)
  BY <1>5 DEF Used, BlockEnd, UsedIn
<1>7. /\ \A q : There(q)' = There(q) /\ InPair(q)' = InPair(q)
      /\ \A q : First(q)' = First(q) /\ Past(q)' = Past(q)
      /\ Boundary' = Boundary /\ Moving' = Moving
  <2>1. SpanFirst' = SpanFirst /\ SpanCount' = SpanCount
    BY <1>1, <1>2 DEF SpanFirst, SpanCount, Lower
  <2>2. QED BY <1>1, <1>2, <1>6, <2>1 DEF There, InPair, First, Past, Boundary, Moving
<1>8. /\ p \in Pools /\ There(p) /\ UsedIn(op.tgt) = {}
      /\ First(p) = pool[p].first /\ Past(p) = pool[p].first + pool[p].count
      /\ \A q : InPair(q) <=> q \in {p, op.tgt}
      /\ op.pc \notin FreeSteps /\ op.pc \notin MergeSteps /\ op.pc \notin CompactSteps
  BY <1>1, Splitting DEF Layout, Sides, OpShape
<1>9. First(p) * SegUnits <= at /\ at + obj[o].size <= Past(p) * SegUnits
  BY <1>3, <1>4, <1>8
<1>10. ASSUME NEW b \in Objects, Used(b), b # o
       PROVE  at + obj[o].size <= obj[b].start \/ obj[b].start + obj[b].size <= at
  <2>1. CASE b \in UsedIn(p)
    BY <1>10, <2>1, SplitMoveClear
  <2>2. CASE b \notin UsedIn(p)
    <3>1. obj[b].pool # p /\ obj[b].pool # op.tgt
      BY <1>8, <1>10, <2>2 DEF UsedIn
    <3>2. ~InPair(obj[b].pool) /\ at + obj[o].size \in Nat
      BY <1>4, <1>8, <3>1
    <3>3. QED BY <1>4, <1>6, <1>8, <1>9, <1>10, <3>1, <3>2, Elsewhere
  <2>3. QED BY <2>1, <2>2
<1>11. \A b \in UsedIn(p) : b # o =>
         /\ obj[b].start < at => obj[b].start < obj[o].start
         /\ at < obj[b].start => obj[o].start < obj[b].start
  <2> SUFFICES ASSUME NEW b \in UsedIn(p), b # o
               PROVE  /\ obj[b].start < at => obj[b].start < obj[o].start
                      /\ at < obj[b].start => obj[o].start < obj[b].start
    OBVIOUS
  <2>1. /\ b \in Objects /\ Used(b) /\ obj[b].start \in Nat /\ obj[b].size \in Nat
        /\ obj[o].start \in Nat /\ obj[b].size > 0
    BY Fields DEF UsedIn, Layout, Blocks
  <2>2. obj[b].start # obj[o].start
    BY <1>4, <2>1, Ordered DEF Layout
  <2>3. /\ obj[b].start < obj[o].start => obj[b].start + obj[b].size <= at
        /\ ~(obj[b].start < obj[o].start) => at + obj[o].size <= obj[b].start
    BY SplitMoveClear
  <2>4. QED BY <1>4, <2>1, <2>2, <2>3
<1> HIDE DEF p, at
<1>12. Blocks'
  BY <1>2, <1>5, <1>6, <1>8 DEF Layout, Blocks, FreeSteps
<1>13. LiveBlocksDisjoint'
  <2>1. ASSUME NEW b \in Objects, NEW c \in Objects, b # c, Used(b), Used(c)
        PROVE  BlockEnd(b)' <= obj'[c].start \/ BlockEnd(c)' <= obj'[b].start
    <3>1. CASE b # o /\ c # o
      BY <1>5, <1>6, <2>1, <3>1 DEF Layout, LiveBlocksDisjoint, Used
    <3>2. CASE b = o
      BY <1>5, <1>6, <1>10, <2>1, <3>2
    <3>3. CASE c = o
      BY <1>5, <1>6, <1>10, <2>1, <3>3
    <3>4. QED BY <3>1, <3>2, <3>3
  <2>2. QED BY <1>6, <2>1 DEF LiveBlocksDisjoint, Used
<1>14. OpShape'
  BY <1>1, <1>2, <1>8 DEF Layout, OpShape, JustBelow
<1>15. Windows'
  BY <1>7, WindowsFrame DEF Layout
<1>16. Inside'
  <2>1. ASSUME NEW q \in Objects, NEW r \in Pools, Used(q)', obj'[q].pool = r
        PROVE  /\ There(r)' /\ First(r)' * SegUnits <= obj'[q].start
               /\ BlockEnd(q)' <= Past(r)' * SegUnits
    <3>1. CASE q = o
      BY <1>4, <1>5, <1>6, <1>7, <1>8, <1>9, <2>1, <3>1
    <3>2. CASE q # o
      BY <1>5, <1>6, <1>7, <2>1, <3>2 DEF Layout, Inside
    <3>3. QED BY <3>1, <3>2
  <2>2. \A q \in Objects : obj'[q].pool \in Pools
    BY <1>5, Fields
  <2>3. QED BY <2>1, <2>2, InsideIf
<1>17. Sides' /\ Slides'
  BY <1>1, <1>2, <1>6 DEF Layout, Sides, Slides
<1>18. Splits'
  <2>1. \A b \in UsedIn(p) : b \in Objects
    BY DEF UsedIn
  <2>2. op'.todo \subseteq UsedIn(p) /\ \A a \in op'.todo : ~obj'[a].pinned
    BY <1>2, <1>3, <1>5, <2>1
  <2>3. ASSUME NEW b \in UsedIn(p)
        PROVE  /\ pool[p].first * SegUnits <= op.to[b]
               /\ op.to[b] + obj'[b].size <= (pool[p].first + pool[p].count) * SegUnits
               /\ b \notin op'.todo => op.to[b] = obj'[b].start
               /\ op.to[b] < Boundary => op.to[b] + obj'[b].size <= Boundary
               /\ op.to[b] < Boundary /\ b \in op'.todo =>
                    BlockEnd(b)' <= Boundary /\ op.to[b] <= obj'[b].start
    <3>1. obj'[b].size = obj[b].size
      BY <1>5, <2>1
    <3>2. CASE b = o
      <4>1. b \notin op'.todo /\ op.to[b] = obj'[b].start
        BY <1>2, <1>5, <3>2 DEF at
      <4>2. QED BY <1>3, <3>1, <4>1
    <3>3. CASE b # o
      <4>1. obj'[b].start = obj[b].start /\ BlockEnd(b)' = BlockEnd(b)
        BY <1>5, <1>6, <2>1, <3>3
      <4>2. b \in op'.todo <=> b \in op.todo
        BY <1>2, <3>3
      <4>3. QED BY <1>3, <3>1, <4>1, <4>2
    <3>4. QED BY <3>2, <3>3
  <2>4. ASSUME NEW a \in UsedIn(p), NEW b \in UsedIn(p), obj'[a].start < obj'[b].start
        PROVE  op.to[a] + obj'[a].size <= op.to[b]
    <3>1. obj[a].start < obj[b].start
      BY <1>4, <1>5, <1>11, <2>1, <2>4, Fields
    <3>2. QED BY <1>3, <1>5, <2>1, <3>1
  <2>5. op'.src = p /\ UsedIn(op.src)' = UsedIn(p)
    BY <1>2, <1>6 DEF p
  <2>6. QED BY <1>1, <1>2, <1>7, <2>2, <2>3, <2>4, <2>5 DEF Splits
<1>19. Counts'
  BY <1>1, <1>2, <1>6, <1>7 DEF Layout, Counts
<1>20. QED BY <1>12, <1>13, <1>14, <1>15, <1>16, <1>17, <1>18, <1>19 DEF Layout

(* When all has moved every block is on the side its pool will have.       *)
LEMMA SplitWindowKeeps ==
  ASSUME TypeOK, Layout, SplitWindow
  PROVE  Layout'
<1>1. /\ op.pc = "split-move" /\ op.pc \in SplitSteps /\ op.todo = {} /\ obj' = obj
      /\ pool' = [pool EXCEPT ![op.tgt].first = pool[op.src].first + op.keep,
                              ![op.tgt].count = op.fresh]
      /\ pool \in [Pools -> PoolRecord]
  BY DEF SplitWindow, OwnerAt, SplitSteps, TypeOK
<1>2. /\ op'.pc = "split-adopt" /\ op'.src = op.src /\ op'.tgt = op.tgt
      /\ op'.keep = op.keep /\ op'.fresh = op.fresh
      /\ op'.adopt = {o \in Residents(op.src) : obj[o].start >= Boundary}
  BY DEF SplitWindow, TypeOK, OpRecord
<1>3. /\ op'.pc \in SplitSteps /\ op'.pc \notin MergeSteps /\ op'.pc \notin CompactSteps
  BY <1>2 DEF SplitSteps, MergeSteps, CompactSteps
<1>4. op.src # op.tgt /\ op.src \in Pools /\ op.tgt \in Pools /\ Residents(op.src) = UsedIn(op.src)
  BY <1>1, Splitting
<1>5. /\ \A q \in Pools : /\ pool'[q].state = pool[q].state /\ pool'[q].live = pool[q].live
                          /\ There(q)' = There(q)
      /\ \A q \in Pools \ {op.src, op.tgt} : pool'[q] = pool[q]
      /\ pool'[op.src] = pool[op.src]
      /\ pool'[op.tgt].first = pool[op.src].first + op.keep /\ pool'[op.tgt].count = op.fresh
  BY <1>1, <1>4 DEF PoolRecord, There
<1>6. /\ Blocks' /\ Windows' /\ Inside' /\ LiveBlocksDisjoint'
      /\ \A q \in Pools : UsedIn(q)' = UsedIn(q)
      /\ Moving' = Moving /\ Boundary' = Boundary
      /\ \A q \in Pools : There(q)' /\ ~InPair(q)' => pool'[q].live = Cardinality(UsedIn(q)')
  BY <1>1, <1>2, <1>3, <1>5, SplitFrame
<1>7. OpShape'
  BY <1>1, <1>2, <1>3, <1>4, <1>5 DEF Layout, OpShape
<1>8. Sides'
  <2>1. UsedIn(op.tgt) = {}
    BY <1>1 DEF Layout, Sides
  <2>2. \A o \in UsedIn(op.src) : o \in Objects /\ ~(obj[o].start >= Boundary) => BlockEnd(o) <= Boundary
    <3> SUFFICES ASSUME NEW o \in UsedIn(op.src), ~(obj[o].start >= Boundary)
                 PROVE  BlockEnd(o) <= Boundary
      OBVIOUS
    <3>1. /\ o \in Objects /\ obj[o].start \in Nat /\ Boundary \in Nat
          /\ BlockEnd(o) = obj[o].start + obj[o].size
      BY Fields, NatProduct, SegAssumption DEF UsedIn, Boundary, BlockEnd
    <3>2. /\ op.to[o] = obj[o].start
          /\ op.to[o] < Boundary => op.to[o] + obj[o].size <= Boundary
      BY <1>1 DEF Layout, Splits
    <3>3. QED BY <3>1, <3>2
  <2>3. /\ UsedIn(op.src)' = UsedIn(op.src) /\ UsedIn(op.tgt)' = {}
        /\ \A o : BlockEnd(o)' = BlockEnd(o)
    BY <1>1, <1>2, <1>4, <1>6, <2>1 DEF BlockEnd
  <2>4. \A o \in UsedIn(op.src) : o \in Objects
    BY DEF UsedIn
  <2>5. /\ op'.adopt \subseteq UsedIn(op.src)
        /\ \A o \in UsedIn(op.src) \ op'.adopt : BlockEnd(o) <= Boundary
        /\ \A o \in op'.adopt : Boundary <= obj[o].start
    <3>1. \A o \in UsedIn(op.src) : obj[o].start \in Nat /\ Boundary \in Nat
      BY <2>4, Fields, NatProduct, SegAssumption DEF Boundary
    <3>2. QED BY <1>2, <1>4, <2>2, <2>4, <3>1
  <2>6. QED BY <1>1, <1>2, <1>6, <2>3, <2>5 DEF Sides
<1>9. Slides' /\ Splits'
  BY <1>2 DEF Slides, Splits
<1>10. Counts'
  BY <1>1, <1>2, <1>3, <1>4, <1>5, <1>6 DEF Layout, Counts, MergeSteps
<1>11. QED BY <1>6, <1>7, <1>8, <1>9, <1>10 DEF Layout

LEMMA SplitAdoptKeeps ==
  ASSUME TypeOK, Layout, NEW o \in Objects, SplitAdopt(o)
  PROVE  Layout'
  BY AdoptKeeps DEF SplitAdopt, OwnerAt, Lowest

(* The objects of the two pools are counted apart.                         *)
LEMMA SplitCountKeeps ==
  ASSUME TypeOK, Layout, SplitCount
  PROVE  Layout'
<1> DEFINE moved == Cardinality(Residents(op.tgt))
<1>1. /\ op.pc = "split-adopt" /\ op.pc \in SplitSteps /\ op.adopt = {} /\ obj' = obj
      /\ pool' = [pool EXCEPT ![op.src].live = @ - moved,
                              ![op.src].count = op.keep,
                              ![op.tgt].live = moved]
      /\ pool \in [Pools -> PoolRecord]
  BY DEF SplitCount, OwnerAt, SplitSteps, TypeOK
<1>2. /\ op'.pc = "split-commit" /\ op'.src = op.src /\ op'.tgt = op.tgt
      /\ op'.keep = op.keep /\ op'.fresh = op.fresh /\ op'.adopt = op.adopt
  BY DEF SplitCount, TypeOK, OpRecord
<1>3. /\ op'.pc \in SplitSteps /\ op'.pc \notin MergeSteps /\ op'.pc \notin CompactSteps
  BY <1>2 DEF SplitSteps, MergeSteps, CompactSteps
<1>4. /\ op.src # op.tgt /\ op.src \in Pools /\ op.tgt \in Pools
      /\ moved = Cardinality(UsedIn(op.tgt))
  BY <1>1, Splitting
<1> HIDE DEF moved
<1>5. /\ \A q \in Pools : /\ pool'[q].state = pool[q].state /\ pool'[q].first = pool[q].first
                          /\ There(q)' = There(q)
      /\ \A q \in Pools \ {op.src, op.tgt} : pool'[q] = pool[q]
      /\ pool'[op.src].count = op.keep /\ pool'[op.src].live = pool[op.src].live - moved
      /\ pool'[op.tgt].count = pool[op.tgt].count /\ pool'[op.tgt].live = moved
  BY <1>1, <1>4 DEF PoolRecord, There
<1>6. /\ Blocks' /\ Windows' /\ Inside' /\ LiveBlocksDisjoint'
      /\ \A q \in Pools : UsedIn(q)' = UsedIn(q)
      /\ Moving' = Moving /\ Boundary' = Boundary
      /\ \A q \in Pools : There(q)' /\ ~InPair(q)' => pool'[q].live = Cardinality(UsedIn(q)')
  BY <1>1, <1>2, <1>3, <1>4, <1>5, SplitFrame
<1>7. OpShape'
  BY <1>1, <1>2, <1>3, <1>4, <1>5 DEF Layout, OpShape
<1>8. Sides'
  <2>1. \A q : \A o \in UsedIn(q) : o \in Objects
    BY DEF UsedIn
  <2>2. /\ \A o \in UsedIn(op.src) : BlockEnd(o) <= Boundary
        /\ \A o \in UsedIn(op.tgt) : Boundary <= obj[o].start
    BY <1>1 DEF Layout, Sides
  <2>3. /\ UsedIn(op.src)' = UsedIn(op.src) /\ UsedIn(op.tgt)' = UsedIn(op.tgt)
        /\ \A o : BlockEnd(o)' = BlockEnd(o)
    BY <1>1, <1>2, <1>4, <1>6 DEF BlockEnd
  <2>4. QED BY <1>1, <1>2, <1>6, <2>2, <2>3 DEF Sides
<1>9. Slides' /\ Splits'
  BY <1>2 DEF Slides, Splits
<1>10. Counts'
  <2>1. UsedIn(op.src) \cap UsedIn(op.tgt) = {}
    BY <1>4 DEF UsedIn
  <2>2. Cardinality(Moving) = Cardinality(UsedIn(op.src)) + Cardinality(UsedIn(op.tgt))
    <3> DEFINE S == UsedIn(op.src)
               T == UsedIn(op.tgt)
    <3>1. /\ IsFiniteSet(S) /\ IsFiniteSet(T) /\ Moving = S \cup T /\ S \cap T = {}
          /\ Cardinality(S) \in Nat /\ Cardinality(T) \in Nat
      BY <2>1, UsedFinite DEF Moving
    <3> HIDE DEF S, T
    <3>2. Cardinality(S \cup T) = Cardinality(S) + Cardinality(T) - Cardinality(S \cap T)
      BY <3>1, FS_Union
    <3>3. Cardinality(S \cap T) = 0
      BY <3>1, FS_EmptySet
    <3>4. QED BY <3>1, <3>2, <3>3 DEF S, T
  <2>3. pool[op.src].live = Cardinality(Moving)
    BY <1>1 DEF Layout, Counts
  <2>4. /\ pool'[op.src].live = Cardinality(UsedIn(op.src))
        /\ pool'[op.tgt].live = Cardinality(UsedIn(op.tgt))
    BY <1>4, <1>5, <2>2, <2>3, UsedFinite
  <2>5. /\ op'.pc # "merge-commit" /\ op'.pc \notin SplitSteps \ {"split-commit"}
        /\ UsedIn(op.src)' = UsedIn(op.src) /\ UsedIn(op.tgt)' = UsedIn(op.tgt)
    BY <1>2, <1>4, <1>6 DEF MergeSteps
  <2>6. QED BY <1>2, <1>6, <2>4, <2>5 DEF Counts
<1>11. QED BY <1>6, <1>7, <1>8, <1>9, <1>10 DEF Layout

(* The window of the source is cut at the boundary.                        *)
LEMMA SplitCommitKeeps ==
  ASSUME TypeOK, Layout, SplitCommit
  PROVE  Layout'
<1>1. PICK s \in Pools, t \in Pools : s = op.src /\ t = op.tgt
  BY Fields
<1>2. /\ op.pc = "split-commit" /\ op.pc \in SplitSteps /\ obj' = obj /\ op'.pc = "idle"
      /\ pool' = [pool EXCEPT ![s].state = "Running", ![t].state = "Running"]
      /\ pool \in [Pools -> PoolRecord]
  BY <1>1 DEF SplitCommit, OwnerAt, SplitSteps, TypeOK, Idle
<1>3. /\ op.pc \notin FreeSteps /\ op'.pc \notin FreeSteps
      /\ s # t /\ There(s) /\ There(t) /\ SpanFirst = pool[s].first
      /\ SpanCount = op.keep + op.fresh
      /\ \A q : InPair(q) <=> q \in {s, t}
      /\ \A q : q \in {s, t} => First(q) = SpanFirst /\ Past(q) = SpanFirst + SpanCount
      /\ \A q : q \notin {s, t} =>
           First(q) = pool[q].first /\ Past(q) = pool[q].first + pool[q].count
  BY <1>1, <1>2, Splitting DEF FreeSteps
<1>4. /\ pool[s].count = op.keep /\ op.keep > 0 /\ op.fresh > 0
      /\ pool[t].first = pool[s].first + op.keep /\ pool[t].count = op.fresh
      /\ op.keep \in Nat /\ op.fresh \in Nat /\ pool[s].first \in Nat
      /\ Boundary = pool[t].first * SegUnits
  BY <1>1, <1>2, Fields DEF Layout, OpShape, Boundary
<1>5. \A q \in Pools : /\ pool'[q].first = pool[q].first /\ pool'[q].count = pool[q].count
                       /\ pool'[q].live = pool[q].live /\ There(q)' = There(q)
  BY <1>2, <1>3 DEF PoolRecord, There
<1>6. \A q : ~InPair(q)' /\ First(q)' = pool'[q].first /\ Past(q)' = pool'[q].first + pool'[q].count
  BY <1>2 DEF InPair, First, Past, MergeSteps, SplitSteps
<1>7. /\ First(s)' = SpanFirst /\ Past(s)' = First(t)' /\ Past(t)' = SpanFirst + SpanCount
      /\ First(s)' < Past(s)' /\ First(t)' < Past(t)'
      /\ First(t)' = pool[t].first
      /\ \A q \in Pools \ {s, t} : First(q)' = First(q) /\ Past(q)' = Past(q)
  BY <1>3, <1>4, <1>5, <1>6
<1>8. /\ SpanFirst \in Nat /\ SpanCount \in Nat /\ SpanFirst + SpanCount <= Segments
      /\ Segments \in Nat
  BY <1>3, <1>4, SegAssumption DEF Layout, Windows
<1>9. \A q \in Pools \ {s, t} : There(q) =>
        Past(q) <= SpanFirst \/ SpanFirst + SpanCount <= First(q)
  BY <1>3 DEF Layout, Windows
<1>10. Windows'
  <2>1. \A q \in Pools : There(q)' => First(q)' < Past(q)' /\ Past(q)' <= Segments
    <3> SUFFICES ASSUME NEW q \in Pools, There(q)' PROVE First(q)' < Past(q)' /\ Past(q)' <= Segments
      OBVIOUS
    <3>1. CASE q \in {s, t}
      BY <1>3, <1>4, <1>7, <1>8, <3>1
    <3>2. CASE q \notin {s, t}
      BY <1>5, <1>7, <3>2 DEF Layout, Windows
    <3>3. QED BY <3>1, <3>2
  <2>2. ASSUME NEW q \in Pools, NEW r \in Pools, q # r, There(q)', There(r)'
        PROVE  Past(q)' <= First(r)' \/ Past(r)' <= First(q)'
    <3>1. There(q) /\ There(r) /\ \A x \in Pools : First(x) \in Nat /\ Past(x) \in Nat
      BY <1>5, <2>2, SpanTypes
    <3>2. CASE q \in {s, t} /\ r \in {s, t}
      BY <1>4, <1>7, <2>2, <3>2
    <3>3. CASE q \in {s, t} /\ r \notin {s, t}
      BY <1>3, <1>4, <1>7, <1>8, <1>9, <3>1, <3>3
    <3>4. CASE q \notin {s, t} /\ r \in {s, t}
      BY <1>3, <1>4, <1>7, <1>8, <1>9, <3>1, <3>4
    <3>5. CASE q \notin {s, t} /\ r \notin {s, t}
      BY <1>3, <1>7, <2>2, <3>1, <3>5 DEF Layout, Windows
    <3>6. QED BY <3>2, <3>3, <3>4, <3>5
  <2>3. QED BY <2>1, <2>2 DEF Windows
<1>11. \A o \in Objects : Used(o)' = Used(o) /\ BlockEnd(o)' = BlockEnd(o)
  BY <1>2 DEF Used, BlockEnd
<1>12. Inside'
  <2>1. ASSUME NEW q \in Objects, NEW r \in Pools, Used(q)', obj'[q].pool = r
        PROVE  /\ There(r)' /\ First(r)' * SegUnits <= obj'[q].start
               /\ BlockEnd(q)' <= Past(r)' * SegUnits
    <3>1. /\ Used(q) /\ obj[q].pool = r /\ obj'[q] = obj[q] /\ BlockEnd(q)' = BlockEnd(q)
          /\ There(r) /\ First(r) * SegUnits <= obj[q].start /\ BlockEnd(q) <= Past(r) * SegUnits
      BY <1>2, <1>11, <2>1 DEF Layout, Inside
    <3>2. CASE r = s
      <4>1. q \in UsedIn(op.src) \ op.adopt
        BY <1>1, <1>2, <3>1, <3>2 DEF UsedIn, Layout, Sides
      <4>2. BlockEnd(q) <= Boundary
        BY <1>2, <4>1 DEF Layout, Sides
      <4>3. QED BY <1>3, <1>4, <1>5, <1>7, <3>1, <3>2, <4>2
    <3>3. CASE r = t
      <4>1. q \in UsedIn(op.tgt)
        BY <1>1, <3>1, <3>3 DEF UsedIn
      <4>2. Boundary <= obj[q].start
        BY <1>2, <4>1 DEF Layout, Sides
      <4>3. QED BY <1>3, <1>4, <1>5, <1>7, <3>1, <3>3, <4>2
    <3>4. CASE r \notin {s, t}
      BY <1>5, <1>7, <3>1, <3>4
    <3>5. QED BY <3>2, <3>3, <3>4
  <2>2. QED BY <1>2, <2>1, Fields, InsideIf
<1>13. Blocks' /\ LiveBlocksDisjoint'
  BY <1>2, <1>3, <1>11 DEF Layout, Blocks, LiveBlocksDisjoint, FreeSteps, Used
<1>14. \A q \in Pools : There(q)' => pool'[q].live = Cardinality(UsedIn(q)')
  <2>1. \A q : UsedIn(q)' = UsedIn(q)
    BY <1>2 DEF UsedIn, Used
  <2>2. QED BY <1>1, <1>2, <1>3, <1>5, <2>1 DEF Layout, Counts
<1>15. QED BY <1>2, <1>10, <1>12, <1>13, <1>14, AtIdle DEF Layout

LEMMA SplitRestoreKeeps ==
  ASSUME TypeOK, Layout, SplitRestore
  PROVE  Layout'
<1>1. PICK s \in Pools, t \in Pools : s = op.src /\ t = op.tgt
  BY Fields
<1>2. PICK st \in {"Running", "Paused"} :
        pool' = [pool EXCEPT ![s].state = st, ![t] = EmptyPool]
  BY <1>1 DEF SplitRestore, EntryState
<1>3. /\ op.pc = "split-fail" /\ op.pc \in SplitSteps /\ obj' = obj /\ op'.pc = "idle"
      /\ pool \in [Pools -> PoolRecord] /\ UsedIn(t) = {}
      /\ pool[s].live = Cardinality(Moving)
  BY <1>1 DEF SplitRestore, OwnerAt, SplitSteps, TypeOK, Layout, Sides, Counts, Idle
<1>4. s # t /\ There(s) /\ SpanFirst = pool[s].first /\ SpanCount = pool[s].count
  BY <1>1, <1>3, Splitting DEF Layout, OpShape
<1>5. Moving = UsedIn(s)
  BY <1>1, <1>3 DEF Moving
<1>6. /\ ~There(t)' /\ There(s)'
      /\ \A q \in Pools \ {t} :
           /\ pool'[q].first = pool[q].first /\ pool'[q].count = pool[q].count
           /\ pool'[q].live = pool[q].live /\ There(q)' = There(q)
  BY <1>2, <1>3, <1>4 DEF EmptyPool, There, PoolRecord
<1>7. QED BY <1>1, <1>3, <1>4, <1>5, <1>6, CollapseKeeps

-----------------------------------------------------------------------------
(* The inductive invariant *)

LEMMA InitLayout == Init => Layout
<1> SUFFICES ASSUME Init PROVE Layout
  OBVIOUS
<1>1. /\ op.pc = "idle" /\ \A o \in Objects : obj[o].state = "Free"
      /\ \A p \in Pools : pool[p].state = "Empty"
  BY DEF Init, Idle, FreeDesc, EmptyPool
<1>2. /\ op.pc \notin CompactSteps /\ op.pc \notin MergeSteps /\ op.pc \notin SplitSteps
      /\ op.pc \notin FreeSteps
  BY <1>1 DEF CompactSteps, MergeSteps, SplitSteps, FreeSteps
<1>3. (\A o \in Objects : ~Used(o)) /\ (\A p \in Pools : ~There(p))
  BY <1>1 DEF Used, There
<1>4. Blocks /\ Inside /\ LiveBlocksDisjoint
  BY <1>1, <1>2, <1>3 DEF Blocks, Inside, LiveBlocksDisjoint, Used
<1>5. OpShape
  BY <1>1, <1>2 DEF OpShape
<1>6. Windows
  BY <1>3 DEF Windows
<1>7. Sides /\ Slides /\ Splits
  BY <1>1 DEF Sides, Slides, Splits
<1>8. Counts
  BY <1>1, <1>2, <1>3 DEF Counts
<1>9. QED BY <1>4, <1>5, <1>6, <1>7, <1>8 DEF Layout

LEMMA NextLayout ==
  ASSUME TypeOK, TypeOK', Layout, [Next]_vars
  PROVE  Layout'
<1>1. CASE TaskNext
  BY <1>1, TaskKeeps
<1>2. CASE OwnerCalls
  BY <1>2, CreateKeeps, DestroyPoolKeeps, AllocKeeps, FreeCheckKeeps, CompactArmKeeps,
     MergeArmKeeps, SplitArmKeeps DEF OwnerCalls
<1>3. CASE OwnerProceeds
  BY <1>3, FreeCheckKeeps, FreeCommitKeeps, CompactPlanKeeps, CompactStepsKeep,
     MergePlanKeeps, MergeMoveKeeps, MergeAdoptKeeps, MergeWindowKeeps, MergeCommitKeeps,
     SplitPlanKeeps, SplitMoveKeeps, SplitWindowKeeps, SplitAdoptKeeps, SplitCountKeeps,
     SplitCommitKeeps, SplitRestoreKeeps DEF OwnerProceeds
<1>4. CASE UNCHANGED vars
  BY <1>4, SameLayout DEF vars
<1>5. QED BY <1>1, <1>2, <1>3, <1>4 DEF Next

(* Layout is an invariant of the protocol, whatever borrows do.            *)
THEOREM LayoutInvariant == Spec => []Layout
<1>1. Init => Layout
  BY InitLayout
<1>2. TypeOK /\ TypeOK' /\ Layout /\ [Next]_vars => Layout'
  BY NextLayout
<1>3. QED BY <1>1, <1>2, TypeInvariant, PTL DEF Spec

(* LiveBlocksDisjoint: between any two moves of compact, merge and split   *)
(* no block in use overlaps another.                                       *)
THEOREM BlocksDisjoint == Spec => []LiveBlocksDisjoint
<1>1. Layout => LiveBlocksDisjoint
  BY DEF Layout
<1>2. QED BY <1>1, LayoutInvariant, PTL

(* PoolTableConsistent: pools that are not in maintenance have windows in  *)
(* the zone, apart from each other, that hold their blocks and count them. *)
THEOREM TableConsistent == Spec => []PoolTableConsistent
<1>1. ASSUME TypeOK, Layout PROVE PoolTableConsistent
  <2>1. \A p \in Settled : /\ p \in Pools /\ There(p) /\ ~InPair(p)
                           /\ First(p) = pool[p].first /\ Past(p) = pool[p].first + pool[p].count
    BY <1>1, Merging, Splitting DEF Settled, There, InPair, First, Past, Layout, OpShape
  <2>2. \A p \in Settled : pool[p].first + pool[p].count <= Segments
    BY <1>1, <2>1 DEF Layout, Windows
  <2>3. \A p \in Settled :
          pool[p].live = Cardinality({o \in Objects : obj[o].state # "Free" /\ obj[o].pool = p})
    BY <1>1, <2>1 DEF Layout, Counts, UsedIn, Used
  <2>4. \A p, q \in Settled : p # q =>
          pool[p].first + pool[p].count <= pool[q].first \/
          pool[q].first + pool[q].count <= pool[p].first
    BY <1>1, <2>1 DEF Layout, Windows
  <2>5. \A o \in Objects : obj[o].state # "Free" /\ obj[o].pool \in Settled => BlockInWindow(o)
    BY <1>1, <2>1 DEF Layout, Inside, Used, There, BlockInWindow, WindowLo, WindowHi
  <2>6. QED BY <2>2, <2>3, <2>4, <2>5 DEF PoolTableConsistent
<1>2. QED BY <1>1, LayoutInvariant, TypeInvariant, PTL

(* MaintenanceAnswersBusy: check_ref never mistakes a block that compact   *)
(* or split is moving for a corrupt one, and says Ok in a Running pool.    *)
THEOREM AnswersBusy == Spec => []MaintenanceAnswersBusy
<1>1. ASSUME TypeOK, Layout PROVE MaintenanceAnswersBusy
  <2>1. ASSUME NEW o \in Objects, obj[o].state = "Live", pool[obj[o].pool].state # "Merging"
        PROVE  BlockInWindow(o)
    <3> DEFINE p == obj[o].pool
    <3>1. /\ p \in Pools /\ There(p) /\ First(p) * SegUnits <= obj[o].start
          /\ BlockEnd(o) <= Past(p) * SegUnits
      BY <1>1, <2>1, Fields DEF Layout, Inside, Used
    <3>2. CASE ~InPair(p)
      BY <3>1, <3>2 DEF First, Past, There, BlockInWindow, WindowLo, WindowHi
    <3>3. CASE InPair(p)
      <4>1. op.pc \in SplitSteps
        BY <1>1, <2>1, <3>3 DEF InPair, Layout, OpShape
      <4>2. /\ SpanFirst = pool[op.src].first /\ SpanCount = op.keep + op.fresh
            /\ First(p) = SpanFirst /\ Past(p) = SpanFirst + SpanCount
        BY <1>1, <3>3, <4>1, Splitting
      <4>3. SpanFirst * SegUnits <= obj[o].start /\ BlockEnd(o) <= (SpanFirst + SpanCount) * SegUnits
        BY <3>1, <4>2
      <4>4. CASE p = op.src /\ op.pc # "split-commit"
        <5>1. pool[p].first = SpanFirst /\ pool[p].count = SpanCount
          BY <1>1, <4>1, <4>2, <4>4 DEF Layout, OpShape
        <5>2. QED BY <3>1, <4>3, <5>1 DEF There, BlockInWindow, WindowLo, WindowHi
      <4>5. CASE p = op.src /\ op.pc = "split-commit"
        <5>1. pool[p].first = SpanFirst /\ pool[p].count = op.keep
          BY <1>1, <4>1, <4>2, <4>5 DEF Layout, OpShape
        <5>2. o \in UsedIn(op.src) \ op.adopt
          BY <1>1, <2>1, <4>5 DEF Layout, Sides, UsedIn, Used
        <5>3. BlockEnd(o) <= (pool[p].first + op.keep) * SegUnits
          BY <1>1, <4>5, <5>2 DEF Layout, Sides, Boundary
        <5>4. QED BY <3>1, <4>3, <5>1, <5>3 DEF There, BlockInWindow, WindowLo, WindowHi
      <4>6. CASE p = op.tgt
        <5>1. o \in UsedIn(op.tgt)
          BY <2>1, <4>6 DEF UsedIn, Used
        <5>2. op.pc \in {"split-adopt", "split-commit"}
          BY <1>1, <4>1, <5>1 DEF Layout, Sides, SplitSteps
        <5>3. /\ pool[p].first = pool[op.src].first + op.keep /\ pool[p].count = op.fresh
              /\ (pool[op.src].first + op.keep) * SegUnits <= obj[o].start
          BY <1>1, <4>6, <5>1, <5>2 DEF Layout, OpShape, Sides, Boundary
        <5>4. pool[p].first + pool[p].count = SpanFirst + SpanCount
          BY <1>1, <4>2, <5>3, Fields
        <5>5. QED BY <3>1, <4>3, <5>3, <5>4 DEF There, BlockInWindow, WindowLo, WindowHi
      <4>7. QED BY <3>3, <4>4, <4>5, <4>6 DEF InPair
    <3>4. QED BY <3>2, <3>3
  <2>2. ASSUME NEW o \in Objects, obj[o].state = "Live" PROVE NamesLive(CrossRef(o)) /\ HintMatches(CrossRef(o))
    BY <2>2 DEF NamesLive, HintMatches, CrossRef
  <2>3. ASSUME NEW o \in Objects, obj[o].state = "Live"
        PROVE  /\ pool[obj[o].pool].state = "Running" => CheckRef(CrossRef(o)) = "Ok"
               /\ pool[obj[o].pool].state \in {"Paused", "Compacting", "Splitting"} =>
                    CheckRef(CrossRef(o)) = "Busy"
    BY <2>1, <2>2, <2>3 DEF CheckRef, CrossRef
  <2>4. ASSUME NEW o \in Objects, obj[o].state = "Live"
        PROVE  pool[obj[o].pool].state \in {"Running", "Paused", "Compacting", "Splitting", "Merging"}
    BY <1>1, <2>4, Fields DEF Layout, Inside, Used, There, PoolStates, MaintenanceStates
  <2>5. QED BY <2>3, <2>4 DEF MaintenanceAnswersBusy
<1>2. QED BY <1>1, LayoutInvariant, TypeInvariant, PTL

(* PinnedNeverMoves: a pinned object keeps its address through every step  *)
(* of compact, merge and split.                                            *)
THEOREM PinnedStay == Spec => PinnedNeverMoves
<1> DEFINE Stays == \A o \in Objects :
             obj[o].state = "Live" /\ obj'[o].state = "Live" /\ obj[o].pinned =>
               obj'[o].start = obj[o].start
<1>1. ASSUME TypeOK, Layout, [Next]_vars PROVE Stays
  <2>T. obj \in [Objects -> ObjectDesc]
    BY <1>1 DEF TypeOK
  <2>1. SUFFICES ASSUME NEW o \in Objects, obj[o].state = "Live", obj'[o].state = "Live", obj[o].pinned
                 PROVE  obj'[o].start = obj[o].start
    OBVIOUS
  <2>2. ASSUME NEW a \in Objects, Relocate(a), a \in op.todo, obj[a].pinned => op.to[a] = obj[a].start
        PROVE  obj'[o].start = obj[o].start
    BY <2>T, <2>1, <2>2 DEF Relocate, ObjectDesc
  <2>3. CASE \E a \in Objects : CompactMove(a) \/ MergeMove(a)
    <3>1. PICK a \in Objects : CompactMove(a) \/ MergeMove(a)
      BY <2>3
    <3>2. op.pc \in {"compact-move", "merge-move"} /\ a \in op.todo /\ Relocate(a)
      BY <3>1 DEF CompactMove, MergeMove, OwnerAt, Lowest
    <3>3. obj[a].pinned => op.to[a] = obj[a].start
      BY <1>1, <3>2 DEF Layout, Slides
    <3>4. QED BY <2>2, <3>2, <3>3
  <2>4. CASE \E a \in Objects : SplitMove(a)
    <3>1. PICK a \in Objects : SplitMove(a)
      BY <2>4
    <3>2. op.pc = "split-move" /\ a \in op.todo /\ Relocate(a)
      BY <3>1 DEF SplitMove, OwnerAt, Highest, Lowest
    <3>3. ~obj[a].pinned
      BY <1>1, <3>2 DEF Layout, Splits
    <3>4. QED BY <2>2, <3>2, <3>3
  <2>5. CASE TaskNext
    <3>1. CASE \E t \in Tasks, r \in RawRef : BorrowBegin(t, r)
      BY <2>T, <3>1 DEF BorrowBegin, ObjectDesc
    <3>2. CASE \E t \in Tasks : BorrowEnd(t)
      BY <2>T, <3>2 DEF BorrowEnd, ObjectDesc
    <3>3. CASE (\E p \in Pools : Pause(p)) \/ (\E p \in Pools : Resume(p))
      BY <3>3 DEF Pause, Resume
    <3>4. QED BY <2>5, <3>1, <3>2, <3>3 DEF TaskNext
  <2>6. CASE OwnerCalls
    <3>1. CASE \E p \in Pools, a \in Objects, size \in Sizes, pinned \in BOOLEAN : Alloc(p, a, size, pinned)
      <4>1. PICK p \in Pools, a \in Objects, size \in Sizes, pinned \in BOOLEAN : Alloc(p, a, size, pinned)
        BY <3>1
      <4>2. obj[a].state = "Free" /\ \A q \in Objects : q # a => obj'[q] = obj[q]
        BY <2>T, <4>1 DEF Alloc
      <4>3. QED BY <2>1, <4>2
    <3>2. CASE ~\E p \in Pools, a \in Objects, size \in Sizes, pinned \in BOOLEAN : Alloc(p, a, size, pinned)
      <4>1. obj' = obj
        BY <2>6, <3>2 DEF OwnerCalls, CreatePool, DestroyPool, FreeCheck, CompactRefused, CompactArm,
                          MergeArm, SplitArm
      <4>2. QED BY <4>1
    <3>3. QED BY <3>1, <3>2
  <2>7. CASE OwnerProceeds /\ ~(\E a \in Objects : CompactMove(a) \/ MergeMove(a) \/ SplitMove(a))
    <3>1. CASE \E a \in Objects : FreeDestroying(a)
      BY <2>T, <3>1 DEF FreeDestroying, ObjectDesc
    <3>2. CASE \E a \in Objects : FreeCommit(a)
      <4>1. PICK a \in Objects : FreeCommit(a)
        BY <3>2
      <4>2. obj'[a].state = "Free" /\ \A q \in Objects : q # a => obj'[q] = obj[q]
        BY <2>T, <4>1 DEF FreeCommit, FreeDesc
      <4>3. QED BY <2>1, <4>2
    <3>3. CASE \E a \in Objects : MergeAdopt(a) \/ SplitAdopt(a)
      BY <2>T, <3>3 DEF MergeAdopt, SplitAdopt, ObjectDesc
    <3>4. CASE UNCHANGED obj
      BY <3>4
    <3>5. QED
      BY <2>7, <3>1, <3>2, <3>3, <3>4
         DEF OwnerProceeds, CompactPlan, CompactPlanFails, CompactCommit, CompactRestore, MergePlan,
             MergeFirst, MergeCount, MergeCommit, SplitPlan, SplitPlanFails, SplitWindow, SplitCount,
             SplitCommit, SplitRestore
  <2>8. CASE UNCHANGED vars
    BY <2>8 DEF vars
  <2>9. QED BY <1>1, <2>3, <2>4, <2>5, <2>6, <2>7, <2>8 DEF Next
<1>2. TypeOK /\ Layout /\ [Next]_vars => [Stays]_vars
  BY <1>1
<1>3. QED BY <1>2, LayoutInvariant, TypeInvariant, PTL DEF Spec, PinnedNeverMoves
=============================================================================
