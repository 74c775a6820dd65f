--------------------------- MODULE PondObjectProofs ---------------------------
(***************************************************************************)
(* The invariants of PondObjects, for every set of pools, slots, pointers  *)
(* and accesses, every object size and every bound on generations.         *)
(***************************************************************************)
EXTENDS PondObjects, FiniteSetTheorems, TLAPS

(* A descriptor in use has a generation that a free can still raise, and   *)
(* lies in a pool; an object is built in storage that is in use.           *)
Descriptors ==
  \A o \in Objects :
    /\ obj[o].live => obj[o].gen # 0 /\ obj[o].gen + 1 <= GenBound /\ Exists(obj[o].pool)
    /\ obj[o].built => obj[o].live

(* No pointer carries a generation its slot has not had yet: what is       *)
(* allocated next is named by nobody.                                      *)
NoneFromTheFuture ==
  \A h \in Pointers :
    ptr[h].gen # 0 => ptr[h].obj \in Objects /\ ptr[h].gen <= obj[ptr[h].obj].gen

(* An access holds its object: the same generation, built, in the pool its *)
(* pointer was bound to.                                                   *)
AccessHolds ==
  \A a \in Accesses : access[a] # NullRef =>
    LET k == access[a] IN
    /\ k.gen # 0 /\ k.obj \in Objects
    /\ Names(k, k.obj) /\ obj[k.obj].built
    /\ k.hint \in {Cross, obj[k.obj].pool}

(* During a make its storage is allocated and no object lives in it yet.   *)
MakeHolds ==
  make.pc # "idle" =>
    /\ make.ref.obj \in Objects /\ Names(make.ref, make.ref.obj)
    /\ make.ref.hint \in Pools /\ make.ref.offset = 0
    /\ ~obj[make.ref.obj].built

PointersNameBuilt ==
  \A h \in Pointers : Names(ptr[h], ptr[h].obj) => obj[ptr[h].obj].built

(* The program keeps a root pointer to what it has built.                  *)
RootKept == \A o \in Objects : obj[o].built => \E h \in Pointers : RootOf(ptr[h], o)

PoolAccesses(p) == {a \in Accesses : access[a].gen # 0 /\ obj[access[a].obj].pool = p}

Counted ==
  /\ \A o \in Objects : obj[o].borrows = Cardinality(AccessesOn(o))
  /\ \A p \in Pools : count[p] = Cardinality(PoolAccesses(p))

References ==
  Descriptors /\ NoneFromTheFuture /\ AccessHolds /\ MakeHolds /\ PointersNameBuilt /\ RootKept

IInv == TypeOK /\ References /\ Counted

ObjectDesc ==
  [live : BOOLEAN, gen : 0 .. GenBound, pool : Pools, pinned : BOOLEAN, fn : BOOLEAN,
   borrows : 0 .. Cardinality(Accesses), built : BOOLEAN]

-----------------------------------------------------------------------------
(* Descriptors and references *)

LEMMA Constants ==
  /\ Pools \subseteq Nat /\ AnyPool \in Pools /\ Cross \notin Pools
  /\ IsFiniteSet(Accesses) /\ Cardinality(Accesses) \in Nat /\ GenBound \in Nat
<1>1. AnyPool \in Pools
  BY ObjectsAssumption DEF AnyPool
<1>2. QED BY <1>1, ObjectsAssumption, FS_CardinalityType DEF Cross

LEMMA NullRefType == NullRef \in RawRef
  BY Constants DEF NullRef, RawRef

LEMMA FreeDescType ==
  ASSUME NEW g \in 0 .. GenBound
  PROVE  FreeDesc(g) \in ObjectDesc
  BY Constants DEF FreeDesc, ObjectDesc

LEMMA Types ==
  ASSUME TypeOK
  PROVE  /\ pool \in [Pools -> {"Empty", "Running", "Paused"}]
         /\ count \in [Pools -> 0 .. Cardinality(Accesses)]
         /\ obj \in [Objects -> ObjectDesc]
         /\ ptr \in [Pointers -> RawRef] /\ access \in [Accesses -> RawRef]
         /\ make \in [pc : {"idle", "hook", "resolve", "construct", "undo"}, ref : RawRef]
         /\ \A o \in Objects : obj[o].fn => obj[o].pinned
  BY DEF TypeOK, ObjectDesc

LEMMA TypesSuffice ==
  ASSUME pool \in [Pools -> {"Empty", "Running", "Paused"}],
         count \in [Pools -> 0 .. Cardinality(Accesses)],
         obj \in [Objects -> ObjectDesc],
         ptr \in [Pointers -> RawRef], access \in [Accesses -> RawRef],
         make \in [pc : {"idle", "hook", "resolve", "construct", "undo"}, ref : RawRef],
         \A o \in Objects : obj[o].fn => obj[o].pinned
  PROVE  TypeOK
  BY DEF TypeOK, ObjectDesc

LEMMA ReleasedIs ==
  ASSUME TypeOK, NEW o \in Objects
  PROVE  Released(o) = [q \in Objects |-> IF q = o THEN FreeDesc(obj[o].gen + 1) ELSE obj[q]]
  BY Types DEF Released

(* What the answers of check_ref and free mean.                            *)
LEMMA CheckMeans ==
  ASSUME NEW r, NEW n, NEW b \in BOOLEAN, CheckRef(r, n, b) = "Ok"
  PROVE  /\ Names(r, r.obj) /\ r.hint \in {Cross, obj[r.obj].pool}
         /\ b => pool[obj[r.obj].pool] = "Running"
  BY DEF CheckRef

LEMMA FreeMeans ==
  ASSUME NEW r, FreeStatus(r) = "Ok"
  PROVE  r.offset = 0 /\ Names(r, r.obj) /\ obj[r.obj].borrows = 0
  BY CheckMeans DEF FreeStatus

LEMMA NullMeans ==
  ASSUME AccessHolds, NEW a \in Accesses
  PROVE  access[a] # NullRef <=> access[a].gen # 0
  BY DEF AccessHolds, NullRef

(* The counters the guards read speak of accesses.                         *)
LEMMA Unaccessed ==
  ASSUME Counted, NEW o \in Objects, obj[o].borrows = 0
  PROVE  AccessesOn(o) = {}
<1>1. AccessesOn(o) \in SUBSET Accesses
  BY DEF AccessesOn
<1>2. IsFiniteSet(AccessesOn(o))
  BY <1>1, Constants, FS_Subset
<1>3. QED BY <1>2, FS_EmptySet DEF Counted

LEMMA QuietPool ==
  ASSUME Counted, NEW p \in Pools, count[p] = 0
  PROVE  PoolAccesses(p) = {}
<1>1. PoolAccesses(p) \in SUBSET Accesses
  BY DEF PoolAccesses
<1>2. IsFiniteSet(PoolAccesses(p))
  BY <1>1, Constants, FS_Subset
<1>3. QED BY <1>2, FS_EmptySet DEF Counted

-----------------------------------------------------------------------------
(* Frames *)

(* A step that starts and ends no access and leaves accessed objects in    *)
(* their pools, with their counts, keeps the counters exact.               *)
LEMMA CountedFrame ==
  ASSUME AccessHolds, Counted, access' = access, count' = count,
         \A a \in Accesses : access[a] # NullRef =>
           obj'[access[a].obj].pool = obj[access[a].obj].pool,
         \A o \in Objects : obj'[o].borrows = obj[o].borrows
  PROVE  Counted'
<1>1. \A o \in Objects : AccessesOn(o)' = AccessesOn(o)
  BY DEF AccessesOn
<1>2. \A p \in Pools : PoolAccesses(p)' = PoolAccesses(p)
  BY NullMeans DEF PoolAccesses
<1>3. QED BY <1>1, <1>2 DEF Counted

(* A step on one object that nobody accesses: it leaves the accesses of    *)
(* the others alone.                                                       *)
LEMMA ObjectFrame ==
  ASSUME References, Counted, NEW o \in Objects, obj[o].borrows = 0,
         UNCHANGED <<pool, count, access>>,
         \A q \in Objects : q # o => obj'[q] = obj[q],
         obj'[o].borrows = 0,
         obj'[o].live => /\ obj'[o].gen # 0 /\ obj'[o].gen + 1 <= GenBound
                          /\ pool[obj'[o].pool] # "Empty",
         obj'[o].built => obj'[o].live
  PROVE  Descriptors' /\ AccessHolds' /\ Counted'
<1>1. \A a \in Accesses : access[a] # NullRef =>
        access[a].obj \in Objects /\ access[a].obj # o /\ obj'[access[a].obj] = obj[access[a].obj]
  BY Unaccessed, NullMeans DEF AccessesOn, References, AccessHolds
<1>2. Descriptors'
  <2>1. \A q \in Objects :
          /\ obj[q].live => /\ obj[q].gen # 0 /\ obj[q].gen + 1 <= GenBound
                            /\ pool[obj[q].pool] # "Empty"
          /\ obj[q].built => obj[q].live
    BY DEF References, Descriptors, Exists
  <2>2. ASSUME NEW q \in Objects
        PROVE  /\ obj'[q].live => /\ obj'[q].gen # 0 /\ obj'[q].gen + 1 <= GenBound
                                  /\ pool'[obj'[q].pool] # "Empty"
               /\ obj'[q].built => obj'[q].live
    BY <2>1
  <2>3. QED BY <2>2 DEF Descriptors, Exists
<1>3. AccessHolds'
  BY <1>1 DEF References, AccessHolds, Names
<1>4. Counted'
  BY <1>1, CountedFrame DEF References
<1>5. QED BY <1>2, <1>3, <1>4

(* A step that changes at most destructors and pool states.                *)
LEMMA FieldsFrame ==
  ASSUME IInv, UNCHANGED <<count, ptr, access>>,
         \A q \in Objects :
           /\ obj'[q].live = obj[q].live /\ obj'[q].gen = obj[q].gen
           /\ obj'[q].pool = obj[q].pool /\ obj'[q].borrows = obj[q].borrows
           /\ obj'[q].built = obj[q].built
           /\ obj[q].live => pool'[obj[q].pool] # "Empty"
  PROVE  /\ Descriptors' /\ NoneFromTheFuture' /\ AccessHolds' /\ PointersNameBuilt'
         /\ RootKept' /\ Counted'
<1>1. TypeOK /\ References /\ Counted
  BY DEF IInv
<1>2. Descriptors'
  BY <1>1 DEF References, Descriptors, Exists
<1>3. NoneFromTheFuture'
  BY <1>1 DEF References, NoneFromTheFuture
<1>4. AccessHolds'
  BY <1>1 DEF References, AccessHolds, Names
<1>5. PointersNameBuilt'
  <2>1. ASSUME NEW h \in Pointers, Names(ptr[h], ptr[h].obj)' PROVE obj'[ptr[h].obj].built
    <3>1. ptr[h].obj \in Objects
      BY <1>1, <2>1 DEF Names, References, NoneFromTheFuture
    <3>2. QED BY <1>1, <2>1, <3>1 DEF Names, References, PointersNameBuilt
  <2>2. QED BY <2>1 DEF PointersNameBuilt
<1>6. RootKept'
  BY <1>1 DEF References, RootKept, RootOf, Names
<1>7. Counted'
  BY <1>1, CountedFrame DEF References, AccessHolds
<1>8. QED BY <1>2, <1>3, <1>4, <1>5, <1>6, <1>7

-----------------------------------------------------------------------------
(* Preservation: pools *)

LEMMA PoolStepKeeps ==
  ASSUME IInv, pool' \in [Pools -> {"Empty", "Running", "Paused"}],
         UNCHANGED <<count, obj, ptr, access, make>>,
         \A o \in Objects : obj[o].live => pool'[obj[o].pool] # "Empty"
  PROVE  IInv'
<1>1. TypeOK'
  BY DEF IInv, TypeOK
<1>2. MakeHolds'
  BY DEF IInv, References, MakeHolds, Names
<1>3. QED BY <1>1, <1>2, FieldsFrame DEF IInv, References

LEMMA PoolsKeep ==
  ASSUME IInv, NEW p \in Pools,
         Pause(p) \/ Resume(p) \/ create_pool(p) \/ destroy_pool(p)
  PROVE  IInv'
<1>1. /\ pool \in [Pools -> {"Empty", "Running", "Paused"}] /\ obj \in [Objects -> ObjectDesc]
      /\ \A o \in Objects : obj[o].live => pool[obj[o].pool] # "Empty" /\ obj[o].pool \in Pools
  BY Types DEF IInv, References, Descriptors, Exists, ObjectDesc
<1>2. CASE Pause(p) \/ Resume(p) \/ create_pool(p)
  BY <1>1, <1>2, PoolStepKeeps DEF Pause, Resume, create_pool
<1>3. CASE destroy_pool(p)
  <2>1. \A o \in Objects : obj[o].live => obj[o].pool # p
    BY <1>3 DEF destroy_pool, Residents
  <2>2. QED BY <1>1, <1>3, <2>1, PoolStepKeeps DEF destroy_pool
<1>4. QED BY <1>2, <1>3

(* Objects that change pool in a merge or split are accessed by nobody.    *)
LEMMA ReboundKeeps ==
  ASSUME IInv, NEW p \in Pools, NEW q \in Pools, NEW R \in SUBSET Residents(p), count[p] = 0,
         obj' = Rebound(R, q), UNCHANGED <<count, ptr, access, make>>,
         pool' \in [Pools -> {"Empty", "Running", "Paused"}],
         \A o \in Objects : obj[o].live => pool'[IF o \in R THEN q ELSE obj[o].pool] # "Empty"
  PROVE  IInv'
<1>1. TypeOK /\ References /\ Counted /\ obj \in [Objects -> ObjectDesc]
  BY Types DEF IInv
<1>2. \A o \in Objects : obj'[o] = IF o \in R THEN [obj[o] EXCEPT !.pool = q] ELSE obj[o]
  BY DEF Rebound
<1>3. \A o \in Objects :
        /\ obj'[o].live = obj[o].live /\ obj'[o].gen = obj[o].gen
        /\ obj'[o].borrows = obj[o].borrows /\ obj'[o].built = obj[o].built
        /\ obj'[o].fn = obj[o].fn /\ obj'[o].pinned = obj[o].pinned
        /\ obj'[o].pool = (IF o \in R THEN q ELSE obj[o].pool)
        /\ obj'[o] \in ObjectDesc
  <2> TAKE o \in Objects
  <2>1. obj[o] \in ObjectDesc
    BY <1>1
  <2>2. CASE o \notin R
    BY <1>2, <2>1, <2>2
  <2>3. CASE o \in R
    <3>1. obj'[o] = [obj[o] EXCEPT !.pool = q]
      BY <1>2, <2>3
    <3>2. QED BY <2>1, <2>3, <3>1 DEF ObjectDesc
  <2>4. QED BY <2>2, <2>3
<1>4. \A a \in Accesses : access[a] # NullRef =>
        access[a].obj \in Objects /\ obj'[access[a].obj].pool = obj[access[a].obj].pool
  <2> SUFFICES ASSUME NEW a \in Accesses, access[a] # NullRef
               PROVE  access[a].obj \in Objects /\ access[a].obj \notin R
    BY <1>3
  <2>1. access[a].gen # 0 /\ access[a].obj \in Objects
    BY <1>1 DEF References, AccessHolds
  <2>2. obj[access[a].obj].pool # p
    BY <1>1, <2>1, QuietPool DEF PoolAccesses
  <2>3. QED BY <2>1, <2>2 DEF Residents
<1>5. TypeOK'
  <2>1. obj' \in [Objects -> ObjectDesc]
    BY <1>3 DEF Rebound
  <2>2. QED BY <1>1, <1>3, <2>1, Types, TypesSuffice DEF TypeOK, ObjectDesc
<1>6. Descriptors'
  BY <1>1, <1>3 DEF References, Descriptors, Exists
<1>7. NoneFromTheFuture'
  BY <1>1, <1>3 DEF References, NoneFromTheFuture
<1>8. AccessHolds'
  BY <1>1, <1>3, <1>4 DEF References, AccessHolds, Names
<1>9. MakeHolds'
  BY <1>1, <1>3 DEF References, MakeHolds, Names
<1>10. PointersNameBuilt'
  <2>1. \A h \in Pointers : ptr[h].gen # 0 => ptr[h].obj \in Objects
    BY <1>1 DEF References, NoneFromTheFuture
  <2>2. QED BY <1>1, <1>3, <2>1 DEF References, PointersNameBuilt, Names
<1>11. RootKept'
  BY <1>1, <1>3 DEF References, RootKept, RootOf, Names
<1>12. Counted'
  BY <1>1, <1>3, <1>4, CountedFrame DEF References
<1>13. QED BY <1>5, <1>6, <1>7, <1>8, <1>9, <1>10, <1>11, <1>12 DEF IInv, References

LEMMA MergeSplitKeep ==
  ASSUME IInv, NEW p \in Pools, NEW q \in Pools, merge(p, q) \/ split(p, q)
  PROVE  IInv'
<1>1. /\ pool \in [Pools -> {"Empty", "Running", "Paused"}] /\ obj \in [Objects -> ObjectDesc]
      /\ \A o \in Objects : obj[o].live => pool[obj[o].pool] # "Empty" /\ obj[o].pool \in Pools
  BY Types DEF IInv, References, Descriptors, Exists, ObjectDesc
<1>2. CASE merge(p, q)
  <2>1. /\ p # q /\ count[p] = 0 /\ obj' = Rebound(Residents(p), q)
        /\ pool' = [pool EXCEPT ![p] = "Empty", ![q] = "Running"]
        /\ UNCHANGED <<count, ptr, access, make>>
    BY <1>2 DEF merge
  <2>2. \A o \in Objects : obj[o].live /\ obj[o].pool = p => o \in Residents(p)
    BY DEF Residents
  <2>3. QED BY <1>1, <2>1, <2>2, ReboundKeeps
<1>3. CASE split(p, q)
  <2>1. PICK R \in SUBSET Residents(p) : obj' = Rebound(R, q)
    BY <1>3 DEF split
  <2>2. /\ count[p] = 0 /\ pool' = [pool EXCEPT ![p] = "Running", ![q] = "Running"]
        /\ UNCHANGED <<count, ptr, access, make>>
    BY <1>3 DEF split
  <2>3. QED BY <1>1, <2>1, <2>2, ReboundKeeps
<1>4. QED BY <1>2, <1>3

-----------------------------------------------------------------------------
(* Preservation: makes *)

(* Storage in which nothing was built has no access, so its count is 0.    *)
LEMMA UnbuiltQuiet ==
  ASSUME AccessHolds, Counted, NEW o \in Objects, ~obj[o].built
  PROVE  obj[o].borrows = 0
<1>1. AccessesOn(o) = {}
  BY NullMeans DEF AccessHolds, AccessesOn
<1>2. QED BY <1>1, FS_EmptySet DEF Counted

(* What an allocation does to everybody else.                              *)
LEMMA AllocFrame ==
  ASSUME IInv, NEW p \in Pools, NEW o \in Objects, NEW pinned \in BOOLEAN, NEW built \in BOOLEAN,
         CanAlloc(p, o), UNCHANGED <<pool, count, access>>,
         obj' = [q \in Objects |->
                   IF q = o
                   THEN [live |-> TRUE, gen |-> obj[o].gen + 1, pool |-> p, pinned |-> pinned,
                         fn |-> FALSE, borrows |-> 0, built |-> built]
                   ELSE obj[q]]
  PROVE  /\ obj' \in [Objects -> ObjectDesc] /\ \A q \in Objects : obj'[q].fn => obj'[q].pinned
         /\ Descriptors' /\ AccessHolds' /\ Counted'
         /\ NoneFromTheFuture
         /\ \A h \in Pointers : ptr[h].gen # 0 =>
              ptr[h].obj \in Objects /\ ptr[h].gen <= obj'[ptr[h].obj].gen
         /\ \A h \in Pointers : ptr[h].gen # 0 /\ ptr[h].obj = o =>
              ptr[h].gen # obj'[o].gen
         /\ ~obj[o].live /\ ~obj[o].built
<1>1. TypeOK /\ References /\ Counted /\ obj \in [Objects -> ObjectDesc] /\ ptr \in [Pointers -> RawRef]
  BY Types DEF IInv
<1>2. /\ pool[p] = "Running" /\ ~obj[o].live /\ obj[o].gen + 2 <= GenBound
      /\ obj[o].gen \in 0 .. GenBound /\ ~obj[o].built
  BY <1>1 DEF CanAlloc, ObjectDesc, References, Descriptors
<1>3. /\ obj'[o].live = TRUE /\ obj'[o].gen = obj[o].gen + 1 /\ obj'[o].pool = p
      /\ obj'[o].pinned = pinned /\ obj'[o].fn = FALSE /\ obj'[o].borrows = 0
      /\ obj'[o].built = built /\ \A q \in Objects : q # o => obj'[q] = obj[q]
  OBVIOUS
<1>4. obj' \in [Objects -> ObjectDesc] /\ \A q \in Objects : obj'[q].fn => obj'[q].pinned
  <2>1. [live |-> TRUE, gen |-> obj[o].gen + 1, pool |-> p, pinned |-> pinned,
         fn |-> FALSE, borrows |-> 0, built |-> built] \in ObjectDesc
    BY <1>2, Constants DEF ObjectDesc
  <2>2. obj' \in [Objects -> ObjectDesc]
    BY <1>1, <2>1
  <2>3. QED BY <1>1, <1>3, <2>2 DEF TypeOK
<1>5. Descriptors' /\ AccessHolds' /\ Counted'
  <2>1. obj[o].borrows = 0
    BY <1>1, <1>2, UnbuiltQuiet DEF References
  <2>2. obj'[o].gen # 0 /\ obj'[o].gen + 1 <= GenBound
    BY <1>2, <1>3, Constants
  <2>3. QED BY <1>1, <1>2, <1>3, <2>1, <2>2, ObjectFrame
<1>6. NoneFromTheFuture
  BY <1>1 DEF References
<1>7. ASSUME NEW h \in Pointers, ptr[h].gen # 0
      PROVE  /\ ptr[h].obj \in Objects /\ ptr[h].gen <= obj'[ptr[h].obj].gen
             /\ ptr[h].obj = o => ptr[h].gen # obj'[o].gen
  <2>1. /\ ptr[h].obj \in Objects /\ ptr[h].gen <= obj[ptr[h].obj].gen
        /\ ptr[h].gen \in 0 .. GenBound
    BY <1>1, <1>6, <1>7 DEF NoneFromTheFuture, RawRef
  <2>2. QED BY <1>2, <1>3, <2>1, Constants
<1>8. QED BY <1>2, <1>4, <1>5, <1>6, <1>7

LEMMA MakeAllocKeeps ==
  ASSUME IInv, NEW p \in Pools, NEW o \in Objects, NEW pinned \in BOOLEAN, MakeAlloc(p, o, pinned)
  PROVE  IInv'
<1>1. TypeOK /\ References /\ Counted
  BY DEF IInv
<1>2. /\ CanAlloc(p, o) /\ obj' = Allocated(p, o, pinned, FALSE)
      /\ make' = [pc |-> IF pinned THEN "hook" ELSE "resolve", ref |-> RefTo(p, o)]
      /\ UNCHANGED <<pool, count, ptr, access>>
  BY DEF MakeAlloc
<1>3. obj' = [q \in Objects |->
                IF q = o
                THEN [live |-> TRUE, gen |-> obj[o].gen + 1, pool |-> p, pinned |-> pinned,
                      fn |-> FALSE, borrows |-> 0, built |-> FALSE]
                ELSE obj[q]]
  BY <1>1, <1>2, Types DEF Allocated
<1>4. /\ obj' \in [Objects -> ObjectDesc] /\ \A q \in Objects : obj'[q].fn => obj'[q].pinned
      /\ Descriptors' /\ AccessHolds' /\ Counted'
      /\ \A h \in Pointers : ptr[h].gen # 0 =>
           ptr[h].obj \in Objects /\ ptr[h].gen <= obj'[ptr[h].obj].gen
      /\ \A h \in Pointers : ptr[h].gen # 0 /\ ptr[h].obj = o => ptr[h].gen # obj'[o].gen
      /\ ~obj[o].live /\ ~obj[o].built
  BY <1>2, <1>3, AllocFrame
<1>5. /\ obj'[o].live = TRUE /\ obj'[o].gen = obj[o].gen + 1 /\ obj'[o].built = FALSE
      /\ \A q \in Objects : q # o => obj'[q] = obj[q]
  BY <1>3
<1>6. obj[o].gen \in 0 .. GenBound /\ obj[o].gen + 2 <= GenBound
  BY <1>1, <1>2, Types DEF CanAlloc, ObjectDesc
<1>7. TypeOK'
  <2>1. RefTo(p, o) \in RawRef
    BY <1>6, Constants DEF RefTo, RawRef
  <2>2. QED BY <1>1, <1>2, <1>4, <2>1, Types, TypesSuffice DEF TypeOK, ObjectDesc
<1>8. NoneFromTheFuture'
  BY <1>2, <1>4 DEF NoneFromTheFuture
<1>9. MakeHolds'
  <2>1. /\ make'.ref.obj = o /\ make'.ref.gen = obj[o].gen + 1 /\ make'.ref.gen # 0
        /\ make'.ref.hint = p /\ make'.ref.offset = 0
    BY <1>2, <1>6 DEF RefTo
  <2>2. QED BY <1>5, <2>1 DEF MakeHolds, Names
<1>10. PointersNameBuilt'
  <2>1. ASSUME NEW h \in Pointers, Names(ptr[h], ptr[h].obj)' PROVE obj'[ptr[h].obj].built
    <3>1. ptr'[h] = ptr[h]
      BY <1>2
    <3>2. ptr[h].gen # 0 /\ ptr[h].obj # o /\ ptr[h].obj \in Objects
      BY <1>4, <2>1, <3>1 DEF Names
    <3>3. Names(ptr[h], ptr[h].obj)
      BY <1>5, <2>1, <3>1, <3>2 DEF Names
    <3>4. QED BY <1>1, <1>5, <3>2, <3>3 DEF References, PointersNameBuilt
  <2>2. QED BY <1>2, <2>1 DEF PointersNameBuilt
<1>11. RootKept'
  <2>1. ASSUME NEW q \in Objects, obj'[q].built PROVE \E h \in Pointers : RootOf(ptr[h], q)'
    <3>1. q # o /\ obj'[q] = obj[q]
      BY <1>5, <2>1
    <3>2. PICK h \in Pointers : RootOf(ptr[h], q)
      BY <1>1, <2>1, <3>1 DEF References, RootKept
    <3>3. QED BY <1>2, <3>1, <3>2 DEF RootOf, Names
  <2>2. QED BY <2>1 DEF RootKept
<1>12. QED BY <1>4, <1>7, <1>8, <1>9, <1>10, <1>11 DEF IInv, References

LEMMA BufferKeeps ==
  ASSUME IInv, NEW h \in Pointers, NEW p \in Pools, NEW o \in Objects, NEW pinned \in BOOLEAN,
         pm_alloc_buffer(h, p, o, pinned)
  PROVE  IInv'
<1>1. TypeOK /\ References /\ Counted
  BY DEF IInv
<1>2. /\ make.pc = "idle" /\ CanAlloc(p, o) /\ ptr[h] = NullRef
      /\ obj' = Allocated(p, o, pinned, TRUE)
      /\ ptr' = [ptr EXCEPT ![h] = pm_local_ptr(RefTo(p, o))]
      /\ UNCHANGED <<pool, count, access, make>>
  BY DEF pm_alloc_buffer
<1>3. obj' = [q \in Objects |->
                IF q = o
                THEN [live |-> TRUE, gen |-> obj[o].gen + 1, pool |-> p, pinned |-> pinned,
                      fn |-> FALSE, borrows |-> 0, built |-> TRUE]
                ELSE obj[q]]
  BY <1>1, <1>2, Types DEF Allocated
<1>4. /\ obj' \in [Objects -> ObjectDesc] /\ \A q \in Objects : obj'[q].fn => obj'[q].pinned
      /\ Descriptors' /\ AccessHolds' /\ Counted'
      /\ \A g \in Pointers : ptr[g].gen # 0 =>
           ptr[g].obj \in Objects /\ ptr[g].gen <= obj'[ptr[g].obj].gen
      /\ \A g \in Pointers : ptr[g].gen # 0 /\ ptr[g].obj = o => ptr[g].gen # obj'[o].gen
      /\ ~obj[o].live /\ ~obj[o].built
  BY <1>2, <1>3, AllocFrame
<1>5. /\ obj'[o].live = TRUE /\ obj'[o].gen = obj[o].gen + 1 /\ obj'[o].built = TRUE
      /\ \A q \in Objects : q # o => obj'[q] = obj[q]
  BY <1>3
<1>6. obj[o].gen \in 0 .. GenBound /\ obj[o].gen + 2 <= GenBound
  BY <1>1, <1>2, Types DEF CanAlloc, ObjectDesc
<1>7. pm_local_ptr(RefTo(p, o)) = RefTo(p, o) /\ RefTo(p, o) \in RawRef
  <2>1. RefTo(p, o).hint # Cross
    BY Constants DEF RefTo
  <2>2. RefTo(p, o) \in RawRef
    BY <1>6, Constants DEF RefTo, RawRef
  <2>3. QED BY <2>1, <2>2 DEF pm_local_ptr
<1>8. /\ ptr'[h].obj = o /\ ptr'[h].gen = obj[o].gen + 1 /\ ptr'[h].gen # 0 /\ ptr'[h].offset = 0
      /\ \A g \in Pointers \ {h} : ptr'[g] = ptr[g]
  BY <1>1, <1>2, <1>6, <1>7, Types DEF RefTo
<1>9. TypeOK'
  BY <1>1, <1>2, <1>4, <1>7, Types, TypesSuffice DEF TypeOK, ObjectDesc
<1>10. NoneFromTheFuture'
  BY <1>4, <1>5, <1>6, <1>8 DEF NoneFromTheFuture
<1>11. MakeHolds'
  BY <1>2 DEF MakeHolds
<1>12. PointersNameBuilt'
  <2>1. ASSUME NEW g \in Pointers, Names(ptr[g], ptr[g].obj)' PROVE obj'[ptr'[g].obj].built
    <3>1. CASE g = h
      BY <1>5, <1>8, <3>1
    <3>2. CASE g # h
      <4>1. ptr'[g] = ptr[g]
        BY <1>8, <3>2
      <4>2. ptr[g].gen # 0 /\ ptr[g].obj # o /\ ptr[g].obj \in Objects
        BY <1>4, <2>1, <4>1 DEF Names
      <4>3. Names(ptr[g], ptr[g].obj)
        BY <1>5, <2>1, <4>1, <4>2 DEF Names
      <4>4. QED BY <1>1, <1>5, <4>1, <4>2, <4>3 DEF References, PointersNameBuilt
    <3>3. QED BY <3>1, <3>2
  <2>2. QED BY <2>1 DEF PointersNameBuilt
<1>13. RootKept'
  <2>1. ASSUME NEW q \in Objects, obj'[q].built PROVE \E g \in Pointers : RootOf(ptr[g], q)'
    <3>1. CASE q = o
      BY <1>5, <1>8, <3>1 DEF RootOf, Names
    <3>2. CASE q # o
      <4>1. PICK g \in Pointers : RootOf(ptr[g], q)
        BY <1>1, <1>5, <2>1, <3>2 DEF References, RootKept
      <4>2. g # h
        BY <1>2, <4>1 DEF RootOf, Names, NullRef
      <4>3. QED BY <1>5, <1>8, <3>2, <4>1, <4>2 DEF RootOf, Names
    <3>3. QED BY <3>1, <3>2
  <2>2. QED BY <2>1 DEF RootKept
<1>14. QED BY <1>4, <1>9, <1>10, <1>11, <1>12, <1>13 DEF IInv, References

(* The steps of a make that leave pointers and other objects alone.        *)
LEMMA MakeStepsKeep ==
  ASSUME IInv, MakeHook \/ MakeResolve
  PROVE  IInv'
<1>1. /\ TypeOK /\ References /\ Counted /\ obj \in [Objects -> ObjectDesc]
      /\ make \in [pc : {"idle", "hook", "resolve", "construct", "undo"}, ref : RawRef]
      /\ make.pc # "idle"
  BY Types DEF IInv, MakeHook, MakeResolve
<1> DEFINE o == make.ref.obj
<1>2. o \in Objects
  BY <1>1 DEF References, MakeHolds
<1>3. /\ make'.ref = make.ref /\ make'.pc # "idle"
      /\ make' \in [pc : {"idle", "hook", "resolve", "construct", "undo"}, ref : RawRef]
      /\ UNCHANGED <<pool, count, ptr, access>>
  BY <1>1 DEF MakeHook, MakeResolve
<1>4. \/ obj' = obj
      \/ obj' = [obj EXCEPT ![o].fn = TRUE] /\ obj[o].pinned
  BY DEF MakeHook, MakeResolve
<1>5. \A q \in Objects :
        /\ obj'[q].live = obj[q].live /\ obj'[q].gen = obj[q].gen
        /\ obj'[q].pool = obj[q].pool /\ obj'[q].borrows = obj[q].borrows
        /\ obj'[q].built = obj[q].built /\ obj'[q].pinned = obj[q].pinned
        /\ obj'[q].fn => obj'[q].pinned
        /\ obj'[q] \in ObjectDesc
  <2> TAKE q \in Objects
  <2>1. obj[q] \in ObjectDesc /\ (obj[q].fn => obj[q].pinned)
    BY <1>1 DEF TypeOK
  <2>2. CASE obj' = obj
    BY <2>1, <2>2
  <2>3. CASE obj' = [obj EXCEPT ![o].fn = TRUE] /\ obj[o].pinned
    <3>1. CASE q = o
      <4>1. obj'[q] = [obj[q] EXCEPT !.fn = TRUE] /\ obj[q].pinned
        BY <1>1, <2>3, <3>1
      <4>2. QED BY <2>1, <4>1 DEF ObjectDesc
    <3>2. CASE q # o
      BY <1>1, <2>1, <2>3, <3>2
    <3>3. QED BY <3>1, <3>2
  <2>4. QED BY <1>4, <2>2, <2>3
<1>6. TypeOK'
  <2>1. obj' \in [Objects -> ObjectDesc]
    BY <1>1, <1>4, <1>5
  <2>2. QED BY <1>1, <1>3, <1>5, <2>1, Types, TypesSuffice DEF TypeOK, ObjectDesc
<1>7. MakeHolds'
  BY <1>1, <1>2, <1>3, <1>5 DEF References, MakeHolds, Names
<1>8. \A q \in Objects : obj[q].live => pool'[obj[q].pool] # "Empty"
  BY <1>1, <1>3 DEF References, Descriptors, Exists
<1>9. QED BY <1>3, <1>5, <1>6, <1>7, <1>8, FieldsFrame DEF IInv, References

LEMMA MakeConstructKeeps ==
  ASSUME IInv, NEW h \in Pointers, MakeConstruct(h)
  PROVE  IInv'
<1> DEFINE r == make.ref
           o == make.ref.obj
<1>1. TypeOK /\ References /\ Counted /\ obj \in [Objects -> ObjectDesc] /\ ptr \in [Pointers -> RawRef]
  BY Types DEF IInv
<1>2. /\ make.pc = "construct" /\ ptr[h] = NullRef
      /\ obj' = [obj EXCEPT ![o].built = TRUE]
      /\ ptr' = [ptr EXCEPT ![h] = pm_local_ptr(r)]
      /\ make' = Idle
      /\ UNCHANGED <<pool, count, access>>
  BY DEF MakeConstruct
<1>3. /\ o \in Objects /\ Names(r, o) /\ r.hint \in Pools /\ r.offset = 0
      /\ ~obj[o].built /\ r \in RawRef
  BY <1>1, <1>2, Types DEF References, MakeHolds
<1>4. pm_local_ptr(r) = r
  BY <1>3, Constants DEF pm_local_ptr
<1>5. /\ obj'[o].live /\ obj'[o].gen = obj[o].gen /\ obj'[o].pool = obj[o].pool
      /\ obj'[o].borrows = obj[o].borrows /\ obj'[o].fn = obj[o].fn
      /\ obj'[o].pinned = obj[o].pinned /\ obj'[o].built = TRUE /\ obj[o].live
      /\ obj'[o] \in ObjectDesc
      /\ \A q \in Objects : q # o => obj'[q] = obj[q]
  <2>1. obj'[o] = [obj[o] EXCEPT !.built = TRUE] /\ obj[o] \in ObjectDesc /\ obj[o].live
    BY <1>1, <1>2, <1>3 DEF Names
  <2>2. \A q \in Objects : q # o => obj'[q] = obj[q]
    BY <1>1, <1>2
  <2>3. /\ obj'[o].live /\ obj'[o].gen = obj[o].gen /\ obj'[o].pool = obj[o].pool
        /\ obj'[o].borrows = obj[o].borrows /\ obj'[o].fn = obj[o].fn
        /\ obj'[o].pinned = obj[o].pinned /\ obj'[o].built = TRUE
    BY <2>1 DEF ObjectDesc
  <2>4. obj'[o] \in ObjectDesc
    BY <2>1 DEF ObjectDesc
  <2>5. QED BY <2>1, <2>2, <2>3, <2>4
<1>6. ptr'[h] = r /\ \A g \in Pointers \ {h} : ptr'[g] = ptr[g]
  BY <1>1, <1>2, <1>4
<1>7. obj' \in [Objects -> ObjectDesc]
  BY <1>1, <1>2, <1>5
<1> HIDE DEF o, r
<1>8. TypeOK'
  <2>1. ptr' \in [Pointers -> RawRef]
    BY <1>1, <1>2, <1>3, <1>4
  <2>2. make' \in [pc : {"idle", "hook", "resolve", "construct", "undo"}, ref : RawRef]
    BY <1>2, NullRefType DEF Idle
  <2>3. \A q \in Objects : obj'[q].fn => obj'[q].pinned
    BY <1>1, <1>5 DEF TypeOK
  <2>4. QED BY <1>1, <1>2, <1>7, <2>1, <2>2, <2>3, Types, TypesSuffice DEF TypeOK, ObjectDesc
<1>9. Descriptors' /\ AccessHolds' /\ Counted'
  <2>1. obj[o].borrows = 0
    BY <1>1, <1>3, UnbuiltQuiet DEF References
  <2>2. /\ obj[o].gen # 0 /\ obj[o].gen + 1 <= GenBound /\ pool[obj[o].pool] # "Empty"
    BY <1>1, <1>3, <1>5 DEF References, Descriptors, Exists
  <2>3. QED BY <1>1, <1>2, <1>3, <1>5, <2>1, <2>2, ObjectFrame
<1>10. r.obj = o /\ r.gen # 0 /\ r.gen = obj[o].gen /\ obj[o].gen \in 0 .. GenBound
  BY <1>1, <1>3 DEF Names, ObjectDesc, o, r
<1>11. NoneFromTheFuture'
  BY <1>1, <1>3, <1>5, <1>6, <1>10 DEF References, NoneFromTheFuture
<1>12. MakeHolds'
  BY <1>2 DEF MakeHolds, Idle
<1>13. PointersNameBuilt'
  <2>1. ASSUME NEW g \in Pointers, Names(ptr[g], ptr[g].obj)' PROVE obj'[ptr'[g].obj].built
    <3>1. CASE g = h
      BY <1>5, <1>6, <1>10, <3>1
    <3>2. CASE g # h
      <4>1. ptr'[g] = ptr[g] /\ ptr[g].gen # 0 /\ ptr[g].obj \in Objects
        BY <1>1, <1>6, <2>1, <3>2 DEF Names, References, NoneFromTheFuture
      <4>2. QED BY <1>1, <1>5, <2>1, <4>1 DEF References, PointersNameBuilt, Names
    <3>3. QED BY <3>1, <3>2
  <2>2. QED BY <2>1 DEF PointersNameBuilt
<1>14. RootKept'
  <2>1. ASSUME NEW q \in Objects, obj'[q].built PROVE \E g \in Pointers : RootOf(ptr[g], q)'
    <3>1. CASE q = o
      BY <1>3, <1>5, <1>6, <1>10, <3>1 DEF RootOf, Names
    <3>2. CASE q # o
      <4>1. PICK g \in Pointers : RootOf(ptr[g], q)
        BY <1>1, <1>5, <2>1, <3>2 DEF References, RootKept
      <4>2. g # h
        BY <1>2, <4>1 DEF RootOf, Names, NullRef
      <4>3. QED BY <1>5, <1>6, <3>2, <4>1, <4>2 DEF RootOf, Names
    <3>3. QED BY <3>1, <3>2
  <2>2. QED BY <2>1 DEF RootKept
<1>15. QED BY <1>8, <1>9, <1>11, <1>12, <1>13, <1>14 DEF IInv, References

-----------------------------------------------------------------------------
(* Preservation: destroys *)

(* What an accepted free() does to everybody else.                         *)
LEMMA ReleaseFrame ==
  ASSUME IInv, NEW r, r.gen # 0, r.obj \in Objects, FreeStatus(r) = "Ok",
         obj' = Released(r.obj), UNCHANGED <<pool, count, access>>
  PROVE  /\ obj' \in [Objects -> ObjectDesc] /\ \A q \in Objects : obj'[q].fn => obj'[q].pinned
         /\ Descriptors' /\ AccessHolds' /\ Counted'
         /\ \A q \in Objects : q # r.obj => obj'[q] = obj[q]
         /\ ~obj'[r.obj].live /\ ~obj'[r.obj].built
         /\ obj[r.obj].gen \in 0 .. GenBound /\ obj'[r.obj].gen = obj[r.obj].gen + 1
<1> DEFINE o == r.obj
<1>1. TypeOK /\ References /\ Counted /\ obj \in [Objects -> ObjectDesc]
  BY Types DEF IInv
<1>2. obj[o].live /\ obj[o].borrows = 0
  BY FreeMeans DEF Names
<1>3. obj[o].gen \in 0 .. GenBound /\ obj[o].gen + 1 <= GenBound
  BY <1>1, <1>2 DEF References, Descriptors, ObjectDesc
<1>4. obj' = [q \in Objects |-> IF q = o THEN FreeDesc(obj[o].gen + 1) ELSE obj[q]]
  BY <1>1, ReleasedIs
<1>5. /\ obj'[o] = FreeDesc(obj[o].gen + 1) /\ FreeDesc(obj[o].gen + 1) \in ObjectDesc
      /\ \A q \in Objects : q # o => obj'[q] = obj[q]
  BY <1>3, <1>4, Constants, FreeDescType
<1>6. /\ obj'[o].live = FALSE /\ obj'[o].built = FALSE /\ obj'[o].borrows = 0
      /\ obj'[o].fn = FALSE /\ obj'[o].gen = obj[o].gen + 1
  BY <1>5 DEF FreeDesc
<1>7. obj' \in [Objects -> ObjectDesc]
  BY <1>1, <1>4, <1>5
<1>8. \A q \in Objects : obj'[q].fn => obj'[q].pinned
  BY <1>1, <1>5, <1>6 DEF TypeOK
<1>9. Descriptors' /\ AccessHolds' /\ Counted'
  BY <1>1, <1>2, <1>5, <1>6, ObjectFrame
<1>10. QED BY <1>3, <1>5, <1>6, <1>7, <1>8, <1>9

LEMMA MakeUndoKeeps ==
  ASSUME IInv, MakeUndo
  PROVE  IInv'
<1> DEFINE r == make.ref
<1>1. TypeOK /\ References /\ Counted /\ ptr \in [Pointers -> RawRef]
  BY Types DEF IInv
<1>2. r.gen # 0 /\ r.obj \in Objects /\ ~obj[r.obj].built
  BY <1>1 DEF References, MakeHolds, MakeUndo, Names
<1>3. make' = Idle /\ UNCHANGED <<pool, count, ptr, access>>
  BY DEF MakeUndo
<1>4. make' \in [pc : {"idle", "hook", "resolve", "construct", "undo"}, ref : RawRef] /\ MakeHolds'
  BY <1>3, NullRefType DEF Idle, MakeHolds
<1>5. CASE FreeStatus(r) = "Ok"
  <2>1. obj' = Released(r.obj)
    BY <1>5 DEF MakeUndo
  <2>2. /\ obj' \in [Objects -> ObjectDesc] /\ \A q \in Objects : obj'[q].fn => obj'[q].pinned
        /\ Descriptors' /\ AccessHolds' /\ Counted'
        /\ \A q \in Objects : q # r.obj => obj'[q] = obj[q]
        /\ ~obj'[r.obj].live /\ ~obj'[r.obj].built
        /\ obj[r.obj].gen \in 0 .. GenBound /\ obj'[r.obj].gen = obj[r.obj].gen + 1
    BY <1>2, <1>3, <1>5, <2>1, ReleaseFrame
  <2> HIDE DEF r
  <2>3. TypeOK'
    BY <1>1, <1>3, <1>4, <2>2, Types, TypesSuffice DEF TypeOK, ObjectDesc
  <2>4. NoneFromTheFuture'
    <3>1. ASSUME NEW h \in Pointers, ptr[h].gen # 0
          PROVE  ptr[h].obj \in Objects /\ ptr[h].gen <= obj'[ptr[h].obj].gen
      <4>1. /\ ptr[h].obj \in Objects /\ ptr[h].gen <= obj[ptr[h].obj].gen
            /\ ptr[h].gen \in 0 .. GenBound
        BY <1>1, <3>1 DEF References, NoneFromTheFuture, RawRef
      <4>2. QED BY <2>2, <4>1, Constants
    <3>2. QED BY <1>3, <3>1 DEF NoneFromTheFuture
  <2>5. PointersNameBuilt'
    <3>1. ASSUME NEW h \in Pointers, Names(ptr[h], ptr[h].obj)' PROVE obj'[ptr[h].obj].built
      <4>1. ptr'[h] = ptr[h] /\ ptr[h].gen # 0 /\ ptr[h].obj \in Objects /\ ptr[h].obj # r.obj
        BY <1>1, <1>3, <2>2, <3>1 DEF Names, References, NoneFromTheFuture
      <4>2. QED BY <1>1, <2>2, <3>1, <4>1 DEF References, PointersNameBuilt, Names
    <3>2. QED BY <1>3, <3>1 DEF PointersNameBuilt
  <2>6. RootKept'
    <3>1. ASSUME NEW q \in Objects, obj'[q].built PROVE \E h \in Pointers : RootOf(ptr[h], q)'
      <4>1. obj'[q] = obj[q]
        BY <2>2, <3>1
      <4>2. PICK h \in Pointers : RootOf(ptr[h], q)
        BY <1>1, <3>1, <4>1 DEF References, RootKept
      <4>3. QED BY <1>3, <4>1, <4>2 DEF RootOf, Names
    <3>2. QED BY <3>1 DEF RootKept
  <2>7. QED BY <1>4, <2>2, <2>3, <2>4, <2>5, <2>6 DEF IInv, References
<1>6. CASE FreeStatus(r) # "Ok"
  <2>1. obj' = obj
    BY <1>6 DEF MakeUndo
  <2>2. TypeOK'
    BY <1>1, <1>3, <1>4, <2>1, Types, TypesSuffice DEF TypeOK, ObjectDesc
  <2>3. \A q \in Objects : obj[q].live => pool'[obj[q].pool] # "Empty"
    BY <1>1, <1>3 DEF References, Descriptors, Exists
  <2>4. QED BY <1>3, <1>4, <2>1, <2>2, <2>3, FieldsFrame DEF IInv, References
<1>7. QED BY <1>5, <1>6

LEMMA DestroyKeeps ==
  ASSUME IInv, NEW h \in Pointers, pm_destroy(h)
  PROVE  IInv'
<1> DEFINE r == ptr[h]
<1>1. TypeOK /\ References /\ Counted /\ ptr \in [Pointers -> RawRef]
  BY Types DEF IInv
<1>2. /\ make.pc = "idle" /\ FreeStatus(r) = "Ok" /\ obj' = Released(r.obj)
      /\ ptr' = [ptr EXCEPT ![h] = NullRef] /\ UNCHANGED <<pool, count, access, make>>
  BY DEF pm_destroy
<1>3. r.gen # 0 /\ r.obj \in Objects
  BY <1>1, <1>2, FreeMeans DEF Names, References, NoneFromTheFuture
<1>4. /\ obj' \in [Objects -> ObjectDesc] /\ \A q \in Objects : obj'[q].fn => obj'[q].pinned
      /\ Descriptors' /\ AccessHolds' /\ Counted'
      /\ \A q \in Objects : q # r.obj => obj'[q] = obj[q]
      /\ ~obj'[r.obj].live /\ ~obj'[r.obj].built
      /\ obj[r.obj].gen \in 0 .. GenBound /\ obj'[r.obj].gen = obj[r.obj].gen + 1
  BY <1>2, <1>3, ReleaseFrame
<1>5. ptr'[h].gen = 0 /\ \A g \in Pointers \ {h} : ptr'[g] = ptr[g]
  BY <1>1, <1>2 DEF NullRef
<1>6. TypeOK'
  <2>1. ptr' \in [Pointers -> RawRef]
    BY <1>1, <1>2, NullRefType
  <2>2. QED BY <1>1, <1>2, <1>4, <2>1, Types, TypesSuffice DEF TypeOK, ObjectDesc
<1> HIDE DEF r
<1>7. NoneFromTheFuture'
  <2>1. ASSUME NEW g \in Pointers, ptr'[g].gen # 0
        PROVE  ptr'[g].obj \in Objects /\ ptr'[g].gen <= obj'[ptr'[g].obj].gen
    <3>1. g # h /\ ptr'[g] = ptr[g]
      BY <1>5, <2>1
    <3>2. /\ ptr[g].obj \in Objects /\ ptr[g].gen <= obj[ptr[g].obj].gen
          /\ ptr[g].gen \in 0 .. GenBound
      BY <1>1, <2>1, <3>1 DEF References, NoneFromTheFuture, RawRef
    <3>3. QED BY <1>4, <3>1, <3>2, Constants
  <2>2. QED BY <2>1 DEF NoneFromTheFuture
<1>8. MakeHolds'
  BY <1>2 DEF MakeHolds
<1>9. PointersNameBuilt'
  <2>1. ASSUME NEW g \in Pointers, Names(ptr[g], ptr[g].obj)' PROVE obj'[ptr'[g].obj].built
    <3>1. g # h /\ ptr'[g] = ptr[g] /\ ptr[g].gen # 0
      BY <1>5, <2>1 DEF Names
    <3>2. ptr[g].obj \in Objects /\ ptr[g].obj # r.obj
      BY <1>1, <1>4, <2>1, <3>1 DEF Names, References, NoneFromTheFuture
    <3>3. QED BY <1>1, <1>4, <2>1, <3>1, <3>2 DEF References, PointersNameBuilt, Names
  <2>2. QED BY <2>1 DEF PointersNameBuilt
<1>10. RootKept'
  <2>1. ASSUME NEW q \in Objects, obj'[q].built PROVE \E g \in Pointers : RootOf(ptr[g], q)'
    <3>1. obj'[q] = obj[q] /\ q # r.obj
      BY <1>4, <2>1
    <3>2. PICK g \in Pointers : RootOf(ptr[g], q)
      BY <1>1, <2>1, <3>1 DEF References, RootKept
    <3>3. g # h
      BY <3>1, <3>2 DEF RootOf, Names, r
    <3>4. QED BY <1>5, <3>1, <3>2, <3>3 DEF RootOf, Names
  <2>2. QED BY <2>1 DEF RootKept
<1>11. QED BY <1>4, <1>6, <1>7, <1>8, <1>9, <1>10 DEF IInv, References

LEMMA SetDestroyFnKeeps ==
  ASSUME IInv, NEW h \in Pointers, set_destroy_fn(h)
  PROVE  IInv'
<1> DEFINE o == ptr[h].obj
<1>1. /\ TypeOK /\ References /\ Counted /\ obj \in [Objects -> ObjectDesc]
  BY Types DEF IInv
<1>2. /\ make.pc = "idle" /\ CheckRef(ptr[h], 0, FALSE) = "Ok" /\ obj[o].pinned
      /\ obj' = [obj EXCEPT ![o].fn = TRUE] /\ UNCHANGED <<pool, count, ptr, access, make>>
  BY DEF set_destroy_fn
<1>3. \A q \in Objects :
        /\ obj'[q].live = obj[q].live /\ obj'[q].gen = obj[q].gen
        /\ obj'[q].pool = obj[q].pool /\ obj'[q].borrows = obj[q].borrows
        /\ obj'[q].built = obj[q].built /\ obj'[q].pinned = obj[q].pinned
        /\ obj'[q].fn => obj'[q].pinned
        /\ obj'[q] \in ObjectDesc
  <2> TAKE q \in Objects
  <2>1. obj[q] \in ObjectDesc /\ (obj[q].fn => obj[q].pinned)
    BY <1>1 DEF TypeOK
  <2>2. CASE q = o
    <3>1. obj'[q] = [obj[q] EXCEPT !.fn = TRUE] /\ obj[q].pinned
      BY <1>1, <1>2, <2>2
    <3>2. QED BY <2>1, <3>1 DEF ObjectDesc
  <2>3. CASE q # o
    BY <1>1, <1>2, <2>1, <2>3
  <2>4. QED BY <2>2, <2>3
<1>4. TypeOK'
  <2>1. obj' \in [Objects -> ObjectDesc]
    BY <1>1, <1>2, <1>3
  <2>2. QED BY <1>1, <1>2, <1>3, <2>1, Types, TypesSuffice DEF TypeOK, ObjectDesc
<1>5. MakeHolds'
  BY <1>2 DEF MakeHolds
<1>6. \A q \in Objects : obj[q].live => pool'[obj[q].pool] # "Empty"
  BY <1>1, <1>2 DEF References, Descriptors, Exists
<1>7. QED BY <1>2, <1>3, <1>4, <1>5, <1>6, FieldsFrame DEF IInv, References

-----------------------------------------------------------------------------
(* Preservation: pointers *)

(* A pointer that comes to name what another one names, or nothing, while  *)
(* an object keeps its last root pointer.                                  *)
LEMMA PointerKeeps ==
  ASSUME IInv, NEW h \in Pointers, UNCHANGED <<pool, count, obj, access, make>>,
         ptr' \in [Pointers -> RawRef], \A g \in Pointers : g # h => ptr'[g] = ptr[g],
         ptr'[h].gen # 0 =>
           \E g \in Pointers : ptr[g].gen = ptr'[h].gen /\ ptr[g].obj = ptr'[h].obj,
         RootOf(ptr[h], ptr[h].obj) => \E g \in Pointers \ {h} : RootOf(ptr[g], ptr[h].obj)
  PROVE  IInv'
<1>1. TypeOK /\ References /\ Counted
  BY DEF IInv
<1>2. TypeOK'
  BY <1>1, Types, TypesSuffice DEF TypeOK, ObjectDesc
<1>3. Descriptors' /\ AccessHolds' /\ MakeHolds'
  BY <1>1 DEF References, Descriptors, Exists, AccessHolds, MakeHolds, Names
<1>4. \A g \in Pointers : ptr'[g].gen # 0 =>
        \E f \in Pointers : ptr[f].gen = ptr'[g].gen /\ ptr[f].obj = ptr'[g].obj
  OBVIOUS
<1>5. NoneFromTheFuture'
  BY <1>1, <1>4 DEF References, NoneFromTheFuture
<1>6. PointersNameBuilt'
  BY <1>1, <1>4 DEF References, PointersNameBuilt, Names
<1>7. RootKept'
  <2>1. ASSUME NEW q \in Objects, obj[q].built PROVE \E g \in Pointers : RootOf(ptr[g], q)'
    <3>1. PICK g \in Pointers : RootOf(ptr[g], q)
      BY <1>1, <2>1 DEF References, RootKept
    <3>2. CASE g # h
      BY <3>1, <3>2 DEF RootOf, Names
    <3>3. CASE g = h
      <4>1. ptr[h].obj = q
        BY <3>1, <3>3 DEF RootOf, Names
      <4>2. PICK f \in Pointers \ {h} : RootOf(ptr[f], q)
        BY <3>1, <3>3, <4>1
      <4>3. QED BY <4>2 DEF RootOf, Names
    <3>4. QED BY <3>2, <3>3
  <2>2. QED BY <2>1 DEF RootKept
<1>8. Counted'
  BY <1>1, CountedFrame DEF References
<1>9. QED BY <1>2, <1>3, <1>5, <1>6, <1>7, <1>8 DEF IInv, References

LEMMA CopyKeeps ==
  ASSUME IInv, NEW from \in Pointers, NEW to \in Pointers, Copy(from, to)
  PROVE  IInv'
<1>1. ptr \in [Pointers -> RawRef] /\ ptr[from] \in RawRef
  BY Types DEF IInv
<1>2. PICK r \in {at(ptr[from], n) : n \in Offsets} \cup {pm_as_cross(ptr[from])}
                 \cup {pm_local_ptr(ptr[from])} :
        ptr' = [ptr EXCEPT ![to] = r]
  BY DEF Copy
<1>3. r \in RawRef /\ (r.gen # 0 => r.gen = ptr[from].gen /\ r.obj = ptr[from].obj)
  <2>1. CASE r \in {at(ptr[from], n) : n \in Offsets}
    BY <1>1, <2>1 DEF at, RawRef
  <2>2. CASE r = pm_as_cross(ptr[from])
    BY <1>1, <2>2 DEF pm_as_cross, RawRef
  <2>3. CASE r = pm_local_ptr(ptr[from])
    BY <1>1, <2>3, NullRefType DEF pm_local_ptr, NullRef
  <2>4. QED BY <1>2, <2>1, <2>2, <2>3
<1>4. /\ UNCHANGED <<pool, count, obj, access, make>> /\ ptr[to].gen = 0
      /\ ptr' \in [Pointers -> RawRef] /\ ptr'[to] = r
      /\ \A g \in Pointers : g # to => ptr'[g] = ptr[g]
  BY <1>1, <1>2, <1>3 DEF Copy, NullRef
<1>5. ~RootOf(ptr[to], ptr[to].obj)
  BY <1>4 DEF RootOf, Names
<1>6. QED BY <1>3, <1>4, <1>5, PointerKeeps

LEMMA ResetKeeps ==
  ASSUME IInv, NEW h \in Pointers, Reset(h)
  PROVE  IInv'
<1>1. ptr \in [Pointers -> RawRef]
  BY Types DEF IInv
<1>2. /\ ptr' \in [Pointers -> RawRef] /\ ptr'[h].gen = 0
      /\ \A g \in Pointers : g # h => ptr'[g] = ptr[g]
  BY <1>1, NullRefType DEF Reset, NullRef
<1>3. /\ UNCHANGED <<pool, count, obj, access, make>>
      /\ RootOf(ptr[h], ptr[h].obj) => \E g \in Pointers \ {h} : RootOf(ptr[g], ptr[h].obj)
  BY DEF Reset
<1>4. QED BY <1>2, <1>3, PointerKeeps

-----------------------------------------------------------------------------
(* Preservation: accesses *)

LEMMA OneMore ==
  ASSUME NEW S \in SUBSET Accesses, NEW a \in Accesses, a \notin S
  PROVE  /\ Cardinality(S \cup {a}) = Cardinality(S) + 1
         /\ Cardinality(S) + 1 \in 0 .. Cardinality(Accesses)
<1>1. IsFiniteSet(S) /\ Cardinality(S) \in Nat
  BY Constants, FS_Subset, FS_CardinalityType
<1>2. Cardinality(S \cup {a}) = Cardinality(S) + 1
  BY <1>1, FS_AddElement
<1>3. S \cup {a} \in SUBSET Accesses
  OBVIOUS
<1>4. Cardinality(S \cup {a}) <= Cardinality(Accesses)
  BY <1>3, Constants, FS_Subset
<1>5. QED BY <1>1, <1>2, <1>4, Constants

LEMMA OneLess ==
  ASSUME NEW S \in SUBSET Accesses, NEW a \in S
  PROVE  /\ Cardinality(S \ {a}) = Cardinality(S) - 1 /\ Cardinality(S) > 0
         /\ Cardinality(S) - 1 \in 0 .. Cardinality(Accesses)
<1>1. S \ {a} \in SUBSET Accesses /\ a \in Accesses /\ (S \ {a}) \cup {a} = S
  OBVIOUS
<1>2. /\ Cardinality(S) = Cardinality(S \ {a}) + 1
      /\ Cardinality(S \ {a}) + 1 \in 0 .. Cardinality(Accesses)
  BY <1>1, OneMore
<1>3. Cardinality(S \ {a}) \in Nat
  BY <1>1, Constants, FS_Subset, FS_CardinalityType
<1>4. QED BY <1>2, <1>3, Constants

(* A step that changes at most borrow counts and accesses.                 *)
LEMMA BorrowFrame ==
  ASSUME IInv, UNCHANGED <<pool, ptr, make>>, obj' \in [Objects -> ObjectDesc],
         \A q \in Objects :
           /\ obj'[q].live = obj[q].live /\ obj'[q].gen = obj[q].gen
           /\ obj'[q].pool = obj[q].pool /\ obj'[q].fn = obj[q].fn
           /\ obj'[q].built = obj[q].built /\ obj'[q].pinned = obj[q].pinned,
         access' \in [Accesses -> RawRef], count' \in [Pools -> 0 .. Cardinality(Accesses)]
  PROVE  /\ TypeOK' /\ Descriptors' /\ NoneFromTheFuture' /\ MakeHolds'
         /\ PointersNameBuilt' /\ RootKept'
<1>1. TypeOK /\ References
  BY DEF IInv
<1>2. TypeOK'
  BY <1>1, Types, TypesSuffice DEF TypeOK, ObjectDesc
<1>3. Descriptors'
  BY <1>1 DEF References, Descriptors, Exists
<1>4. NoneFromTheFuture'
  BY <1>1 DEF References, NoneFromTheFuture
<1>5. MakeHolds'
  BY <1>1 DEF References, MakeHolds, Names
<1>6. PointersNameBuilt'
  <2>1. \A h \in Pointers : ptr[h].gen # 0 => ptr[h].obj \in Objects
    BY <1>1 DEF References, NoneFromTheFuture
  <2>2. QED BY <1>1, <2>1 DEF References, PointersNameBuilt, Names
<1>7. RootKept'
  BY <1>1 DEF References, RootKept, RootOf, Names
<1>8. QED BY <1>2, <1>3, <1>4, <1>5, <1>6, <1>7

LEMMA BorrowKeeps ==
  ASSUME IInv, NEW a \in Accesses, NEW h \in Pointers, try_borrow(a, h)
  PROVE  IInv'
<1> DEFINE r == ptr[h]
           o == ptr[h].obj
           p == obj[o].pool
<1>1. /\ TypeOK /\ References /\ Counted /\ obj \in [Objects -> ObjectDesc]
      /\ count \in [Pools -> 0 .. Cardinality(Accesses)]
      /\ access \in [Accesses -> RawRef] /\ ptr \in [Pointers -> RawRef]
  BY Types DEF IInv
<1>2. /\ access[a] = NullRef /\ CheckRef(r, 1, TRUE) = "Ok"
      /\ count' = [count EXCEPT ![p] = @ + 1] /\ obj' = [obj EXCEPT ![o].borrows = @ + 1]
      /\ access' = [access EXCEPT ![a] = r] /\ UNCHANGED <<pool, ptr, make>>
  BY DEF try_borrow
<1>3. Names(r, o) /\ r.hint \in {Cross, p}
  BY <1>2, CheckMeans
<1>4. r.gen # 0 /\ o \in Objects /\ r.obj = o /\ r \in RawRef
  BY <1>1, <1>3 DEF Names, References, NoneFromTheFuture
<1>5. obj[o].built /\ p \in Pools
  BY <1>1, <1>3, <1>4 DEF References, PointersNameBuilt, ObjectDesc
<1>6. access[a].gen = 0
  BY <1>2 DEF NullRef
<1>7. /\ AccessesOn(o) \in SUBSET Accesses /\ a \notin AccessesOn(o)
      /\ PoolAccesses(p) \in SUBSET Accesses /\ a \notin PoolAccesses(p)
  BY <1>6 DEF AccessesOn, PoolAccesses
<1>8. /\ Cardinality(AccessesOn(o) \cup {a}) = obj[o].borrows + 1
      /\ obj[o].borrows + 1 \in 0 .. Cardinality(Accesses)
      /\ Cardinality(PoolAccesses(p) \cup {a}) = count[p] + 1
      /\ count[p] + 1 \in 0 .. Cardinality(Accesses)
  <2>1. obj[o].borrows = Cardinality(AccessesOn(o)) /\ count[p] = Cardinality(PoolAccesses(p))
    BY <1>1, <1>4, <1>5 DEF Counted
  <2> HIDE DEF r, o, p
  <2>2. QED BY <1>7, <2>1, OneMore
<1>9. /\ access'[a] = r /\ \A b \in Accesses : b # a => access'[b] = access[b]
      /\ access' \in [Accesses -> RawRef]
  BY <1>1, <1>2, <1>4
<1>10. /\ count'[p] = count[p] + 1 /\ \A q \in Pools : q # p => count'[q] = count[q]
       /\ count' \in [Pools -> 0 .. Cardinality(Accesses)]
  BY <1>1, <1>2, <1>5, <1>8
<1>11. /\ obj'[o] = [obj[o] EXCEPT !.borrows = @ + 1] /\ obj[o] \in ObjectDesc
       /\ \A q \in Objects : q # o => obj'[q] = obj[q]
  BY <1>1, <1>2, <1>4
<1>12. /\ obj'[o] \in ObjectDesc /\ obj'[o].borrows = obj[o].borrows + 1
       /\ obj'[o].live = obj[o].live /\ obj'[o].gen = obj[o].gen
       /\ obj'[o].pool = obj[o].pool /\ obj'[o].fn = obj[o].fn
       /\ obj'[o].built = obj[o].built /\ obj'[o].pinned = obj[o].pinned
  BY <1>8, <1>11 DEF ObjectDesc
<1>13. obj' \in [Objects -> ObjectDesc]
  BY <1>1, <1>2, <1>11, <1>12
<1>14. r \in RawRef /\ p = obj[o].pool
  BY <1>4
<1> HIDE DEF r, o, p
<1>15. \A q \in Objects :
         /\ obj'[q].live = obj[q].live /\ obj'[q].gen = obj[q].gen
         /\ obj'[q].pool = obj[q].pool /\ obj'[q].fn = obj[q].fn
         /\ obj'[q].built = obj[q].built /\ obj'[q].pinned = obj[q].pinned
  BY <1>11, <1>12
<1>16. /\ TypeOK' /\ Descriptors' /\ NoneFromTheFuture' /\ MakeHolds'
       /\ PointersNameBuilt' /\ RootKept'
  BY <1>2, <1>9, <1>10, <1>13, <1>15, BorrowFrame
<1>17. AccessHolds'
  <2>1. ASSUME NEW b \in Accesses, access'[b] # NullRef
        PROVE  /\ access'[b].gen # 0 /\ access'[b].obj \in Objects
               /\ obj'[access'[b].obj].live /\ obj'[access'[b].obj].gen = access'[b].gen
               /\ obj'[access'[b].obj].built
               /\ access'[b].hint \in {Cross, obj'[access'[b].obj].pool}
    <3>1. CASE b = a
      BY <1>3, <1>4, <1>5, <1>9, <1>14, <1>15, <3>1 DEF Names
    <3>2. CASE b # a
      BY <1>1, <1>9, <1>15, <2>1, <3>2 DEF References, AccessHolds, Names
    <3>3. QED BY <3>1, <3>2
  <2>2. QED BY <2>1 DEF AccessHolds, Names
<1>18. Counted'
  <2>1. ASSUME NEW q \in Objects PROVE obj'[q].borrows = Cardinality(AccessesOn(q)')
    <3>1. CASE q = o
      <4>1. AccessesOn(q)' = AccessesOn(q) \cup {a}
        BY <1>4, <1>9, <3>1 DEF AccessesOn
      <4>2. QED BY <1>8, <1>12, <3>1, <4>1
    <3>2. CASE q # o
      <4>1. AccessesOn(q)' = AccessesOn(q)
        BY <1>4, <1>6, <1>9, <3>2 DEF AccessesOn
      <4>2. QED BY <1>1, <1>11, <3>2, <4>1 DEF Counted
    <3>3. QED BY <3>1, <3>2
  <2>2. \A b \in Accesses : b # a /\ access'[b].gen # 0 =>
          access[b].gen # 0 /\ obj'[access'[b].obj].pool = obj[access[b].obj].pool
    BY <1>1, <1>9, <1>15, NullMeans DEF References, AccessHolds
  <2>3. ASSUME NEW q \in Pools PROVE count'[q] = Cardinality(PoolAccesses(q)')
    <3>1. CASE q = p
      <4>1. PoolAccesses(q)' = PoolAccesses(q) \cup {a}
        BY <1>4, <1>9, <1>14, <1>15, <2>2, <3>1 DEF PoolAccesses
      <4>2. QED BY <1>8, <1>10, <3>1, <4>1
    <3>2. CASE q # p
      <4>1. PoolAccesses(q)' = PoolAccesses(q)
        BY <1>4, <1>6, <1>9, <1>14, <1>15, <2>2, <3>2 DEF PoolAccesses
      <4>2. QED BY <1>1, <1>10, <3>2, <4>1 DEF Counted
    <3>3. QED BY <3>1, <3>2
  <2>4. QED BY <2>1, <2>3 DEF Counted
<1>19. QED BY <1>16, <1>17, <1>18 DEF IInv, References

LEMMA Moved ==
  ASSUME NEW S \in SUBSET Accesses, NEW a \in S, NEW b \in Accesses, b \notin S
  PROVE  Cardinality((S \ {a}) \cup {b}) = Cardinality(S)
<1>1. /\ Cardinality(S \ {a}) = Cardinality(S) - 1 /\ Cardinality(S) \in Nat
  BY OneLess, Constants, FS_Subset, FS_CardinalityType
<1>2. S \ {a} \in SUBSET Accesses /\ b \notin S \ {a}
  OBVIOUS
<1>3. Cardinality((S \ {a}) \cup {b}) = Cardinality(S \ {a}) + 1
  BY <1>2, OneMore
<1>4. QED BY <1>1, <1>3

LEMMA MoveKeeps ==
  ASSUME IInv, NEW a \in Accesses, NEW b \in Accesses, move_access(a, b)
  PROVE  IInv'
<1>1. /\ TypeOK /\ References /\ Counted /\ obj \in [Objects -> ObjectDesc]
      /\ count \in [Pools -> 0 .. Cardinality(Accesses)]
      /\ access \in [Accesses -> RawRef]
  BY Types DEF IInv
<1>2. /\ access[a] # NullRef /\ access[b] = NullRef /\ a # b
      /\ access' = [access EXCEPT ![b] = access[a], ![a] = NullRef]
      /\ UNCHANGED <<pool, count, obj, ptr, make>>
  BY DEF move_access
<1>3. /\ access'[b] = access[a] /\ access'[a] = NullRef
      /\ \A c \in Accesses : c # a /\ c # b => access'[c] = access[c]
      /\ access' \in [Accesses -> RawRef]
  BY <1>1, <1>2, NullRefType
<1>4. access[a].gen # 0 /\ access[b].gen = 0 /\ access'[a].gen = 0
  BY <1>1, <1>2, <1>3, NullMeans DEF References, NullRef
<1>5. /\ TypeOK' /\ Descriptors' /\ NoneFromTheFuture' /\ MakeHolds'
      /\ PointersNameBuilt' /\ RootKept'
  BY <1>1, <1>2, <1>3, BorrowFrame
<1>6. AccessHolds'
  <2>1. ASSUME NEW c \in Accesses, access'[c] # NullRef
        PROVE  /\ access'[c].gen # 0 /\ access'[c].obj \in Objects
               /\ obj'[access'[c].obj].live /\ obj'[access'[c].obj].gen = access'[c].gen
               /\ obj'[access'[c].obj].built
               /\ access'[c].hint \in {Cross, obj'[access'[c].obj].pool}
    <3>1. PICK d \in Accesses : access'[c] = access[d]
      BY <1>3, <2>1
    <3>2. QED BY <1>1, <1>2, <2>1, <3>1 DEF References, AccessHolds, Names
  <2>2. QED BY <2>1 DEF AccessHolds, Names
<1>7. Counted'
  <2>1. ASSUME NEW q \in Objects PROVE obj'[q].borrows = Cardinality(AccessesOn(q)')
    <3>1. AccessesOn(q) \in SUBSET Accesses /\ b \notin AccessesOn(q)
      BY <1>4 DEF AccessesOn
    <3>2. CASE a \in AccessesOn(q)
      <4>1. AccessesOn(q)' = (AccessesOn(q) \ {a}) \cup {b}
        BY <1>2, <1>3, <1>4, <3>2 DEF AccessesOn
      <4>2. QED BY <1>1, <1>2, <3>1, <3>2, <4>1, Moved DEF Counted
    <3>3. CASE a \notin AccessesOn(q)
      <4>1. AccessesOn(q)' = AccessesOn(q)
        BY <1>2, <1>3, <1>4, <3>3 DEF AccessesOn
      <4>2. QED BY <1>1, <1>2, <4>1 DEF Counted
    <3>4. QED BY <3>2, <3>3
  <2>2. ASSUME NEW q \in Pools PROVE count'[q] = Cardinality(PoolAccesses(q)')
    <3>1. PoolAccesses(q) \in SUBSET Accesses /\ b \notin PoolAccesses(q)
      BY <1>4 DEF PoolAccesses
    <3>2. CASE a \in PoolAccesses(q)
      <4>1. PoolAccesses(q)' = (PoolAccesses(q) \ {a}) \cup {b}
        BY <1>2, <1>3, <1>4, <3>2 DEF PoolAccesses
      <4>2. QED BY <1>1, <1>2, <3>1, <3>2, <4>1, Moved DEF Counted
    <3>3. CASE a \notin PoolAccesses(q)
      <4>1. PoolAccesses(q)' = PoolAccesses(q)
        BY <1>2, <1>3, <1>4, <3>3 DEF PoolAccesses
      <4>2. QED BY <1>1, <1>2, <4>1 DEF Counted
    <3>4. QED BY <3>2, <3>3
  <2>3. QED BY <2>1, <2>2 DEF Counted
<1>8. QED BY <1>5, <1>6, <1>7 DEF IInv, References

(* What an access names is there for its end, which therefore counts.      *)
LEMMA EndMatches ==
  ASSUME TypeOK, References, Counted, NEW a \in Accesses, access[a] # NullRef
  PROVE  /\ TokenMatches(access[a])
         /\ access[a].obj \in Objects /\ obj[access[a].obj].pool \in Pools
         /\ a \in AccessesOn(access[a].obj) /\ a \in PoolAccesses(obj[access[a].obj].pool)
<1> DEFINE k == access[a]
           o == access[a].obj
           p == obj[o].pool
<1>1. /\ k.gen # 0 /\ o \in Objects /\ Names(k, o) /\ k.hint \in {Cross, p}
  BY DEF References, AccessHolds
<1>2. p \in Pools /\ Exists(p)
  BY <1>1, Types DEF Names, References, Descriptors, ObjectDesc
<1>3. /\ a \in AccessesOn(o) /\ AccessesOn(o) \in SUBSET Accesses
      /\ a \in PoolAccesses(p) /\ PoolAccesses(p) \in SUBSET Accesses
  BY <1>1 DEF AccessesOn, PoolAccesses
<1>4. obj[o].borrows = Cardinality(AccessesOn(o)) /\ count[p] = Cardinality(PoolAccesses(p))
  BY <1>1, <1>2 DEF Counted
<1>5. Cardinality(AccessesOn(o)) > 0 /\ Cardinality(PoolAccesses(p)) > 0
  <2> HIDE DEF o, p
  <2>1. QED BY <1>3, OneLess
<1>6. QED BY <1>1, <1>2, <1>3, <1>4, <1>5 DEF TokenMatches

LEMMA DropKeeps ==
  ASSUME IInv, NEW a \in Accesses, drop_access(a)
  PROVE  IInv'
<1> DEFINE o == access[a].obj
           p == obj[o].pool
<1>1. /\ TypeOK /\ References /\ Counted /\ obj \in [Objects -> ObjectDesc]
      /\ count \in [Pools -> 0 .. Cardinality(Accesses)]
      /\ access \in [Accesses -> RawRef]
  BY Types DEF IInv
<1>2. /\ TokenMatches(access[a]) /\ o \in Objects /\ p \in Pools
      /\ a \in AccessesOn(o) /\ a \in PoolAccesses(p)
  BY <1>1, EndMatches DEF drop_access
<1>3. /\ access' = [access EXCEPT ![a] = NullRef]
      /\ count' = [count EXCEPT ![p] = @ - 1] /\ obj' = [obj EXCEPT ![o].borrows = @ - 1]
      /\ UNCHANGED <<pool, ptr, make>>
  BY <1>2 DEF drop_access
<1>4. AccessesOn(o) \in SUBSET Accesses /\ PoolAccesses(p) \in SUBSET Accesses
  BY DEF AccessesOn, PoolAccesses
<1>5. /\ Cardinality(AccessesOn(o) \ {a}) = obj[o].borrows - 1
      /\ obj[o].borrows - 1 \in 0 .. Cardinality(Accesses)
      /\ Cardinality(PoolAccesses(p) \ {a}) = count[p] - 1
      /\ count[p] - 1 \in 0 .. Cardinality(Accesses)
  <2>1. obj[o].borrows = Cardinality(AccessesOn(o)) /\ count[p] = Cardinality(PoolAccesses(p))
    BY <1>1, <1>2 DEF Counted
  <2> HIDE DEF o, p
  <2>2. QED BY <1>2, <1>4, <2>1, OneLess
<1>6. /\ access'[a] = NullRef /\ \A b \in Accesses : b # a => access'[b] = access[b]
      /\ access' \in [Accesses -> RawRef] /\ access'[a].gen = 0
  BY <1>1, <1>3, NullRefType DEF NullRef
<1>7. /\ count'[p] = count[p] - 1 /\ \A q \in Pools : q # p => count'[q] = count[q]
      /\ count' \in [Pools -> 0 .. Cardinality(Accesses)]
  BY <1>1, <1>2, <1>3, <1>5
<1>8. /\ obj'[o] = [obj[o] EXCEPT !.borrows = @ - 1] /\ obj[o] \in ObjectDesc
      /\ \A q \in Objects : q # o => obj'[q] = obj[q]
  BY <1>1, <1>2, <1>3
<1>9. /\ obj'[o] \in ObjectDesc /\ obj'[o].borrows = obj[o].borrows - 1
      /\ obj'[o].live = obj[o].live /\ obj'[o].gen = obj[o].gen
      /\ obj'[o].pool = obj[o].pool /\ obj'[o].fn = obj[o].fn
      /\ obj'[o].built = obj[o].built /\ obj'[o].pinned = obj[o].pinned
  BY <1>5, <1>8 DEF ObjectDesc
<1>10. obj' \in [Objects -> ObjectDesc]
  BY <1>1, <1>3, <1>8, <1>9
<1>11. access[a].obj = o /\ p = obj[o].pool
  OBVIOUS
<1> HIDE DEF o, p
<1>12. \A q \in Objects :
         /\ obj'[q].live = obj[q].live /\ obj'[q].gen = obj[q].gen
         /\ obj'[q].pool = obj[q].pool /\ obj'[q].fn = obj[q].fn
         /\ obj'[q].built = obj[q].built /\ obj'[q].pinned = obj[q].pinned
  BY <1>8, <1>9
<1>13. /\ TypeOK' /\ Descriptors' /\ NoneFromTheFuture' /\ MakeHolds'
       /\ PointersNameBuilt' /\ RootKept'
  BY <1>3, <1>6, <1>7, <1>10, <1>12, BorrowFrame
<1>14. AccessHolds'
  <2>1. ASSUME NEW b \in Accesses, access'[b] # NullRef
        PROVE  /\ access'[b].gen # 0 /\ access'[b].obj \in Objects
               /\ obj'[access'[b].obj].live /\ obj'[access'[b].obj].gen = access'[b].gen
               /\ obj'[access'[b].obj].built
               /\ access'[b].hint \in {Cross, obj'[access'[b].obj].pool}
    BY <1>1, <1>6, <1>12, <2>1 DEF References, AccessHolds, Names
  <2>2. QED BY <2>1 DEF AccessHolds, Names
<1>15. Counted'
  <2>1. ASSUME NEW q \in Objects PROVE obj'[q].borrows = Cardinality(AccessesOn(q)')
    <3>1. CASE q = o
      <4>1. AccessesOn(q)' = AccessesOn(q) \ {a}
        BY <1>6 DEF AccessesOn
      <4>2. QED BY <1>5, <1>9, <3>1, <4>1
    <3>2. CASE q # o
      <4>1. AccessesOn(q)' = AccessesOn(q)
        BY <1>6, <1>11, <3>2 DEF AccessesOn
      <4>2. QED BY <1>1, <1>8, <3>2, <4>1 DEF Counted
    <3>3. QED BY <3>1, <3>2
  <2>2. \A b \in Accesses : b # a /\ access[b].gen # 0 =>
          obj'[access'[b].obj].pool = obj[access[b].obj].pool
    BY <1>1, <1>6, <1>12, NullMeans DEF References, AccessHolds
  <2>3. ASSUME NEW q \in Pools PROVE count'[q] = Cardinality(PoolAccesses(q)')
    <3>1. CASE q = p
      <4>1. PoolAccesses(q)' = PoolAccesses(q) \ {a}
        BY <1>6, <2>2 DEF PoolAccesses
      <4>2. QED BY <1>5, <1>7, <3>1, <4>1
    <3>2. CASE q # p
      <4>1. PoolAccesses(q)' = PoolAccesses(q)
        BY <1>6, <1>11, <2>2, <3>2 DEF PoolAccesses
      <4>2. QED BY <1>1, <1>7, <3>2, <4>1 DEF Counted
    <3>3. QED BY <3>1, <3>2
  <2>4. QED BY <2>1, <2>3 DEF Counted
<1>16. QED BY <1>13, <1>14, <1>15 DEF IInv, References

-----------------------------------------------------------------------------
(* The inductive invariant *)

LEMMA InitIInv == Init => IInv
<1> SUFFICES ASSUME Init PROVE IInv
  OBVIOUS
<1>1. /\ NullRef \in RawRef /\ NullRef.gen = 0 /\ NullRef.obj = "none"
      /\ FreeDesc(0) \in ObjectDesc
  BY Constants, NullRefType, FreeDescType DEF NullRef
<1>2. \A o \in Objects : /\ ~obj[o].live /\ ~obj[o].built /\ ~obj[o].fn
                          /\ obj[o].borrows = 0 /\ obj[o] \in ObjectDesc
  BY <1>1 DEF Init, FreeDesc
<1>3. TypeOK
  <2>1. obj \in [Objects -> ObjectDesc]
    BY <1>1 DEF Init
  <2>2. make \in [pc : {"idle", "hook", "resolve", "construct", "undo"}, ref : RawRef]
    BY <1>1 DEF Init, Idle
  <2>3. QED BY <1>1, <1>2, <2>1, <2>2, Constants, TypesSuffice DEF Init
<1>4. References
  BY <1>1, <1>2 DEF References, Descriptors, NoneFromTheFuture, AccessHolds, MakeHolds,
                    PointersNameBuilt, RootKept, Names, Init, Idle
<1>5. Counted
  <2>1. \A o \in Objects : AccessesOn(o) = {}
    BY <1>1 DEF Init, AccessesOn
  <2>2. \A p \in Pools : PoolAccesses(p) = {}
    BY <1>1 DEF Init, PoolAccesses
  <2>3. QED BY <1>2, <2>1, <2>2, FS_EmptySet DEF Counted, Init
<1>6. QED BY <1>3, <1>4, <1>5 DEF IInv

LEMMA StutterKeeps ==
  ASSUME IInv, UNCHANGED vars
  PROVE  IInv'
<1>1. pool' \in [Pools -> {"Empty", "Running", "Paused"}]
  BY DEF vars, IInv, TypeOK
<1>2. \A o \in Objects : obj[o].live => pool'[obj[o].pool] # "Empty"
  BY DEF vars, IInv, References, Descriptors, Exists
<1>3. QED BY <1>1, <1>2, PoolStepKeeps DEF vars

LEMMA NextIInv ==
  ASSUME IInv, [Next]_vars
  PROVE  IInv'
<1>1. ASSUME NEW p \in Pools, NEW o \in Objects, NEW pinned \in BOOLEAN, MakeAlloc(p, o, pinned)
      PROVE  IInv'
  BY <1>1, MakeAllocKeeps
<1>2. CASE MakeHook \/ MakeResolve
  BY <1>2, MakeStepsKeep
<1>3. CASE MakeUndo
  BY <1>3, MakeUndoKeeps
<1>4. ASSUME NEW h \in Pointers,
             MakeConstruct(h) \/ pm_destroy(h) \/ set_destroy_fn(h) \/ Reset(h)
      PROVE  IInv'
  BY <1>4, MakeConstructKeeps, DestroyKeeps, SetDestroyFnKeeps, ResetKeeps
<1>5. ASSUME NEW h \in Pointers, NEW p \in Pools, NEW o \in Objects, NEW pinned \in BOOLEAN,
             pm_alloc_buffer(h, p, o, pinned)
      PROVE  IInv'
  BY <1>5, BufferKeeps
<1>6. ASSUME NEW g \in Pointers, NEW h \in Pointers, Copy(g, h) PROVE IInv'
  BY <1>6, CopyKeeps
<1>7. ASSUME NEW a \in Accesses, NEW h \in Pointers, try_borrow(a, h) PROVE IInv'
  BY <1>7, BorrowKeeps
<1>8. ASSUME NEW a \in Accesses, NEW b \in Accesses, move_access(a, b) PROVE IInv'
  BY <1>8, MoveKeeps
<1>9. ASSUME NEW a \in Accesses, drop_access(a) PROVE IInv'
  BY <1>9, DropKeeps
<1>10. ASSUME NEW p \in Pools, Pause(p) \/ Resume(p) \/ create_pool(p) \/ destroy_pool(p)
       PROVE  IInv'
  BY <1>10, PoolsKeep
<1>11. ASSUME NEW p \in Pools, NEW q \in Pools, merge(p, q) \/ split(p, q) PROVE IInv'
  BY <1>11, MergeSplitKeep
<1>12. CASE UNCHANGED vars
  BY <1>12, StutterKeeps
<1>13. QED BY <1>1, <1>2, <1>3, <1>4, <1>5, <1>6, <1>7, <1>8, <1>9, <1>10, <1>11, <1>12 DEF Next

(* Every reachable state of the typed layer satisfies the inductive        *)
(* invariant: pointers never name a generation of the future, accesses and *)
(* makes hold what they name, every built object has a root pointer, and   *)
(* the counters are the accesses.                                          *)
THEOREM ObjectInvariant == Spec => []IInv
<1>1. Init => IInv
  BY InitIInv
<1>2. IInv /\ [Next]_vars => IInv'
  BY NextIInv
<1>3. QED BY <1>1, <1>2, PTL DEF Spec

-----------------------------------------------------------------------------
(* What the program relies on *)

(* Types, and no destructor on a movable object (set_destroy_fn), in every *)
(* reachable state.                                                        *)
THEOREM ObjectTypes == Spec => []TypeOK
<1>1. IInv => TypeOK
  BY DEF IInv
<1>2. QED BY <1>1, ObjectInvariant, PTL

(* The accesses on the residents of a pool are those the pool counts.      *)
LEMMA UnionIs ==
  ASSUME References, NEW p \in Pools
  PROVE  UNION {AccessesOn(o) : o \in Residents(p)} = PoolAccesses(p)
<1>1. \A a \in Accesses : access[a].gen # 0 =>
        access[a].obj \in Objects /\ obj[access[a].obj].live
  BY NullMeans DEF References, AccessHolds, Names
<1>2. QED BY <1>1 DEF AccessesOn, Residents, PoolAccesses

(* pm_access is exact: whatever is moved, ended early or paused, every     *)
(* object and every pool counts the accesses alive on it.                  *)
THEOREM AccountingExact == Spec => []BorrowsAreAccesses
<1>1. IInv => BorrowsAreAccesses
  BY UnionIs DEF IInv, Counted, BorrowsAreAccesses
<1>2. QED BY <1>1, ObjectInvariant, PTL

(* The program never reaches storage in which nothing was built, and the   *)
(* end of every access matches what it began on: borrow_end never falls    *)
(* through.                                                                *)
THEOREM OnlyBuiltReached == Spec => []NothingUnbuiltReached
<1>1. IInv => NothingUnbuiltReached
  BY EndMatches DEF IInv, References, AccessHolds, PointersNameBuilt, NothingUnbuiltReached
<1>2. QED BY <1>1, ObjectInvariant, PTL

(* No built object is lost: some pointer destroys it once it is idle in a  *)
(* Running pool, although pm_destroy may have been refused before.         *)
THEOREM NothingLost == Spec => []AlwaysReclaimable
<1>1. ASSUME IInv, NEW o \in Objects, obj[o].built, obj[o].borrows = 0,
             pool[obj[o].pool] = "Running"
      PROVE  \E h \in Pointers : ptr[h].obj = o /\ FreeStatus(pm_as_cross(ptr[h])) = "Ok"
  <2>1. PICK h \in Pointers : RootOf(ptr[h], o)
    BY <1>1 DEF IInv, References, RootKept
  <2>2. ptr[h] \in RawRef
    BY <1>1, Types DEF IInv
  <2> DEFINE r == pm_as_cross(ptr[h])
  <2>3. r.obj = o /\ r.gen = ptr[h].gen /\ r.hint = Cross /\ r.offset = 0
    BY <2>1, <2>2 DEF pm_as_cross, RawRef, RootOf, Names
  <2>4. Names(r, o)
    BY <2>1, <2>3 DEF RootOf, Names
  <2> HIDE DEF r
  <2>5. ~(r.offset + 0 > ObjSize)
    BY <2>3, ObjectsAssumption
  <2>6. CheckRef(r, 0, TRUE) = "Ok"
    BY <1>1, <2>3, <2>4, <2>5 DEF CheckRef
  <2>7. FreeStatus(r) = "Ok"
    BY <1>1, <2>3, <2>6 DEF FreeStatus
  <2>8. QED BY <2>1, <2>7 DEF RootOf, Names, r
<1>2. IInv => AlwaysReclaimable
  BY <1>1 DEF AlwaysReclaimable
<1>3. QED BY <1>2, ObjectInvariant, PTL
=============================================================================
