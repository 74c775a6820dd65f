------------------------------ MODULE PondObjects ------------------------------
(***************************************************************************)
(* The typed layer of PondMerge (src/include/pondmerge/pondmerge.hpp):     *)
(* pm_make and its siblings, the logical pointers a program keeps, the     *)
(* RAII accesses it borrows through, and pm_destroy.                       *)
(*                                                                         *)
(* One owner context makes and destroys objects and runs the maintenance   *)
(* operations, each of which is one action here (PondMaintenance has their *)
(* steps); of free() the same holds, under the caller's duty not to start  *)
(* a borrow inside it.  Other contexts borrow, end borrows, pause and      *)
(* resume between any two steps: pm_make calls alloc, set_destroy_fn,      *)
(* resolve and free one after the other and holds no lock.                 *)
(***************************************************************************)
EXTENDS Integers, FiniteSets

CONSTANTS
  Pools,      (* pool ids                                                   *)
  Objects,    (* descriptor slots                                           *)
  Pointers,   (* pm_ptr variables of the program                            *)
  Accesses,   (* pm_access variables of the program                         *)
  ObjSize,    (* size of an object, in parts                                *)
  Offsets,    (* offsets at() is called with, in parts                      *)
  GenBound    (* bound of the model on generations (uint16_t)               *)

ASSUME ObjectsAssumption ==
  /\ Pools \subseteq Nat /\ Pools # {}
  /\ IsFiniteSet(Pools) /\ IsFiniteSet(Objects) /\ IsFiniteSet(Accesses)
  /\ ObjSize \in Nat \ {0} /\ Offsets \subseteq Nat /\ GenBound \in Nat

Cross == -1                     \* CROSS_HINT

VARIABLES
  pool,    (* pool states                                                   *)
  count,   (* borrow_count of each pool                                     *)
  obj,     (* descriptors; built is history: an object lives in the storage *)
  ptr,     (* the RawRef inside each pm_ptr                                 *)
  access,  (* the RawRef inside each pm_access; null when its ptr_ is null  *)
  make     (* where the owner is inside pm_make or pm_make_pinned           *)

vars == <<pool, count, obj, ptr, access, make>>

AnyPool   == CHOOSE p \in Pools : TRUE

RawRef  == [obj : Objects \cup {"none"}, gen : 0 .. GenBound, hint : Pools \cup {Cross},
            offset : {0} \cup Offsets]
NullRef == [obj |-> "none", gen |-> 0, hint |-> AnyPool, offset |-> 0]
FreeDesc(gen) == [live |-> FALSE, gen |-> gen, pool |-> AnyPool, pinned |-> FALSE,
                  fn |-> FALSE, borrows |-> 0, built |-> FALSE]
Idle    == [pc |-> "idle", ref |-> NullRef]
Exists(p) == pool[p] # "Empty"

-----------------------------------------------------------------------------
(* check_ref and the tests of free() *)

Names(r, o) == r.gen # 0 /\ r.obj = o /\ obj[o].live /\ obj[o].gen = r.gen

(* Mutant: a local pointer is followed into another pool. *)
CheckRefAnyPool(r, size, require_running) ==
  IF ~Names(r, r.obj) THEN "InvalidRef"
  ELSE IF require_running /\ pool[obj[r.obj].pool] # "Running" THEN "Busy"
  ELSE IF r.offset + size > ObjSize THEN "InvalidRef"
  ELSE "Ok"

CheckRef(r, size, require_running) ==
  IF ~Names(r, r.obj) THEN "InvalidRef"
  ELSE IF r.hint \notin {Cross, obj[r.obj].pool} THEN "PoolChanged"
  ELSE IF require_running /\ pool[obj[r.obj].pool] # "Running" THEN "Busy"
  ELSE IF r.offset + size > ObjSize THEN "InvalidRef"
  ELSE "Ok"

FreeStatus(r) ==
  IF r.offset # 0 THEN "InvalidRef"
  ELSE IF CheckRef(r, 0, TRUE) # "Ok" THEN CheckRef(r, 0, TRUE)
  ELSE IF obj[r.obj].borrows # 0 THEN "Busy"
  ELSE "Ok"

Released(o) == [obj EXCEPT ![o] = FreeDesc(@.gen + 1)]

-----------------------------------------------------------------------------
(* Making objects *)

Allocated(p, o, pinned, built) ==
  [obj EXCEPT ![o] = [live |-> TRUE, gen |-> @.gen + 1, pool |-> p, pinned |-> pinned,
                      fn |-> FALSE, borrows |-> 0, built |-> built]]

CanAlloc(p, o) == pool[p] = "Running" /\ ~obj[o].live /\ obj[o].gen + 2 <= GenBound
RefTo(p, o) == [obj |-> o, gen |-> obj[o].gen + 1, hint |-> p, offset |-> 0]

(* pm_local_ptr(RawRef): a cross reference becomes an invalid pointer.     *)
pm_local_ptr(r) == IF r.hint = Cross THEN NullRef ELSE r

(* pm_make's and pm_make_pinned's alloc.                                   *)
MakeAlloc(p, o, pinned) ==
  /\ make.pc = "idle"
  /\ CanAlloc(p, o)
  /\ obj'  = Allocated(p, o, pinned, FALSE)
  /\ make' = [pc |-> IF pinned THEN "hook" ELSE "resolve", ref |-> RefTo(p, o)]
  /\ UNCHANGED <<pool, count, ptr, access>>

MakeHook ==
  /\ make.pc = "hook"
  /\ IF CheckRef(make.ref, 0, FALSE) = "Ok" /\ obj[make.ref.obj].pinned
     THEN /\ obj'  = [obj EXCEPT ![make.ref.obj].fn = TRUE]
          /\ make' = [make EXCEPT !.pc = "resolve"]
     ELSE /\ make' = [make EXCEPT !.pc = "undo"]
          /\ UNCHANGED obj
  /\ UNCHANGED <<pool, count, ptr, access>>

MakeResolve ==
  /\ make.pc = "resolve"
  /\ make' = [make EXCEPT !.pc = IF CheckRef(make.ref, ObjSize, TRUE) = "Ok"
                                 THEN "construct" ELSE "undo"]
  /\ UNCHANGED <<pool, count, obj, ptr, access>>

(* The constructor runs and the caller stores the pointer it is given.     *)
MakeConstruct(h) ==
  /\ make.pc = "construct"
  /\ ptr[h] = NullRef
  /\ obj'  = [obj EXCEPT ![make.ref.obj].built = TRUE]
  /\ ptr'  = [ptr EXCEPT ![h] = pm_local_ptr(make.ref)]
  /\ make' = Idle
  /\ UNCHANGED <<pool, count, access>>

(* Mutant: the pointer is returned although resolve failed. *)
MakeUndoReturns ==
  /\ make.pc = "undo"
  /\ \E h \in Pointers : ptr[h] = NullRef /\ ptr' = [ptr EXCEPT ![h] = make.ref]
  /\ make' = Idle
  /\ UNCHANGED <<pool, count, obj, access>>

(* The rollback ignores what free() answers.                               *)
MakeUndo ==
  /\ make.pc = "undo"
  /\ obj'  = IF FreeStatus(make.ref) = "Ok" THEN Released(make.ref.obj) ELSE obj
  /\ make' = Idle
  /\ UNCHANGED <<pool, count, ptr, access>>

pm_alloc_buffer(h, p, o, pinned) ==
  /\ make.pc = "idle"
  /\ CanAlloc(p, o) /\ ptr[h] = NullRef
  /\ obj' = Allocated(p, o, pinned, TRUE)
  /\ ptr' = [ptr EXCEPT ![h] = pm_local_ptr(RefTo(p, o))]
  /\ UNCHANGED <<pool, count, access, make>>

(* Mutant: a movable object is given a destructor. *)
set_destroy_fn_any(h) ==
  /\ make.pc = "idle"
  /\ CheckRef(ptr[h], 0, FALSE) = "Ok"
  /\ obj' = [obj EXCEPT ![ptr[h].obj].fn = TRUE]
  /\ UNCHANGED <<pool, count, ptr, access, make>>

set_destroy_fn(h) ==
  /\ make.pc = "idle"
  /\ CheckRef(ptr[h], 0, FALSE) = "Ok"
  /\ obj[ptr[h].obj].pinned
  /\ obj' = [obj EXCEPT ![ptr[h].obj].fn = TRUE]
  /\ UNCHANGED <<pool, count, ptr, access, make>>

(* Mutant: the pointer is cleared whatever free() answers. *)
pm_destroyClears(h) ==
  /\ make.pc = "idle"
  /\ ptr[h] # NullRef
  /\ obj' = IF FreeStatus(ptr[h]) = "Ok" THEN Released(ptr[h].obj) ELSE obj
  /\ ptr' = [ptr EXCEPT ![h] = NullRef]
  /\ UNCHANGED <<pool, count, access, make>>

(* A refused destroy changes nothing.                                      *)
pm_destroy(h) ==
  /\ make.pc = "idle"
  /\ FreeStatus(ptr[h]) = "Ok"
  /\ obj' = Released(ptr[h].obj)
  /\ ptr' = [ptr EXCEPT ![h] = NullRef]
  /\ UNCHANGED <<pool, count, access, make>>

-----------------------------------------------------------------------------
(* Pointers and accesses *)

at(r, n)       == [r EXCEPT !.offset = n]
pm_as_cross(r) == [r EXCEPT !.hint = Cross]

(* The program copies a pointer into a null one: a sub-object view, a      *)
(* cross pointer, or a local pointer built from the raw reference.         *)
Copy(from, to) ==
  /\ make.pc = "idle"
  /\ ptr[from] # NullRef /\ ptr[to] = NullRef
  /\ \E r \in {at(ptr[from], n) : n \in Offsets} \cup {pm_as_cross(ptr[from])}
              \cup {pm_local_ptr(ptr[from])} :
       ptr' = [ptr EXCEPT ![to] = r]
  /\ UNCHANGED <<pool, count, obj, access, make>>

RootOf(r, o) == Names(r, o) /\ r.offset = 0

(* The program resets a pointer it does not own the object through: a      *)
(* view, a dead reference, or one of several root pointers.                *)
Reset(h) ==
  /\ make.pc = "idle"
  /\ ptr[h] # NullRef
  /\ RootOf(ptr[h], ptr[h].obj) => \E g \in Pointers \ {h} : RootOf(ptr[g], ptr[h].obj)
  /\ ptr' = [ptr EXCEPT ![h] = NullRef]
  /\ UNCHANGED <<pool, count, obj, access, make>>

try_borrow(a, h) ==
  /\ access[a] = NullRef
  /\ CheckRef(ptr[h], 1, TRUE) = "Ok"
  /\ LET o == ptr[h].obj IN
     /\ count' = [count EXCEPT ![obj[o].pool] = @ + 1]
     /\ obj'   = [obj EXCEPT ![o].borrows = @ + 1]
  /\ access' = [access EXCEPT ![a] = ptr[h]]
  /\ UNCHANGED <<pool, ptr, make>>

(* Mutant: the source of a move keeps its pointer. *)
move_accessKeeps(a, b) ==
  /\ access[a] # NullRef /\ access[b] = NullRef
  /\ access' = [access EXCEPT ![b] = access[a]]
  /\ UNCHANGED <<pool, count, obj, ptr, make>>

(* pm_access(pm_access&&): into a named access, a Result or a proxy.       *)
move_access(a, b) ==
  /\ access[a] # NullRef /\ access[b] = NullRef
  /\ access' = [access EXCEPT ![b] = access[a], ![a] = NullRef]
  /\ UNCHANGED <<pool, count, obj, ptr, make>>

TokenMatches(k) ==
  /\ Names(k, k.obj)
  /\ k.hint \in {Cross, obj[k.obj].pool}
  /\ Exists(obj[k.obj].pool)
  /\ obj[k.obj].borrows > 0 /\ count[obj[k.obj].pool] > 0

(* The access goes out of scope.                                           *)
drop_access(a) ==
  /\ access[a] # NullRef
  /\ access' = [access EXCEPT ![a] = NullRef]
  /\ LET k == access[a] IN
     IF TokenMatches(k)
     THEN /\ count' = [count EXCEPT ![obj[k.obj].pool] = @ - 1]
          /\ obj'   = [obj EXCEPT ![k.obj].borrows = @ - 1]
     ELSE UNCHANGED <<count, obj>>
  /\ UNCHANGED <<pool, ptr, make>>

-----------------------------------------------------------------------------
(* Pools *)

Pause(p) ==
  /\ pool[p] = "Running"
  /\ pool' = [pool EXCEPT ![p] = "Paused"]
  /\ UNCHANGED <<count, obj, ptr, access, make>>

Resume(p) ==
  /\ pool[p] = "Paused"
  /\ pool' = [pool EXCEPT ![p] = "Running"]
  /\ UNCHANGED <<count, obj, ptr, access, make>>

create_pool(p) ==
  /\ make.pc = "idle"
  /\ ~Exists(p) /\ \A q \in Pools : q < p => Exists(q)
  /\ pool' = [pool EXCEPT ![p] = "Running"]
  /\ UNCHANGED <<count, obj, ptr, access, make>>

Residents(p) == {o \in Objects : obj[o].live /\ obj[o].pool = p}

destroy_pool(p) ==
  /\ make.pc = "idle"
  /\ Exists(p) /\ Residents(p) = {} /\ count[p] = 0
  /\ pool' = [pool EXCEPT ![p] = "Empty"]
  /\ UNCHANGED <<count, obj, ptr, access, make>>

Rebound(R, p) == [o \in Objects |-> IF o \in R THEN [obj[o] EXCEPT !.pool = p] ELSE obj[o]]

merge(s, t) ==
  /\ make.pc = "idle"
  /\ s # t /\ Exists(s) /\ Exists(t) /\ count[s] = 0 /\ count[t] = 0
  /\ obj'  = Rebound(Residents(s), t)
  /\ pool' = [pool EXCEPT ![s] = "Empty", ![t] = "Running"]
  /\ UNCHANGED <<count, ptr, access, make>>

(* Which objects the new pool adopts is a matter of their addresses.       *)
split(p, q) ==
  /\ make.pc = "idle"
  /\ Exists(p) /\ count[p] = 0
  /\ ~Exists(q) /\ \A lower \in Pools : lower < q => Exists(lower)
  /\ \E R \in SUBSET Residents(p) : obj' = Rebound(R, q)
  /\ pool' = [pool EXCEPT ![p] = "Running", ![q] = "Running"]
  /\ UNCHANGED <<count, ptr, access, make>>

-----------------------------------------------------------------------------
Init ==
  /\ pool   = [p \in Pools |-> "Empty"]
  /\ count  = [p \in Pools |-> 0]
  /\ obj    = [o \in Objects |-> FreeDesc(0)]
  /\ ptr    = [h \in Pointers |-> NullRef]
  /\ access = [a \in Accesses |-> NullRef]
  /\ make   = Idle

Next ==
  \/ \E p \in Pools, o \in Objects, pinned \in BOOLEAN : MakeAlloc(p, o, pinned)
  \/ MakeHook \/ MakeResolve \/ MakeUndo
  \/ \E h \in Pointers : MakeConstruct(h) \/ pm_destroy(h) \/ set_destroy_fn(h) \/ Reset(h)
  \/ \E h \in Pointers, p \in Pools, o \in Objects, pinned \in BOOLEAN :
       pm_alloc_buffer(h, p, o, pinned)
  \/ \E g, h \in Pointers : Copy(g, h)
  \/ \E a \in Accesses, h \in Pointers : try_borrow(a, h)
  \/ \E a, b \in Accesses : move_access(a, b)
  \/ \E a \in Accesses : drop_access(a)
  \/ \E p \in Pools : Pause(p) \/ Resume(p) \/ create_pool(p) \/ destroy_pool(p)
  \/ \E p, q \in Pools : merge(p, q) \/ split(p, q)

Spec == Init /\ [][Next]_vars

-----------------------------------------------------------------------------
(* Properties *)

(* Types, with the rule of set_destroy_fn: a movable object never carries  *)
(* a destructor, which would run on a memmoved copy.                       *)
TypeOK ==
  /\ pool \in [Pools -> {"Empty", "Running", "Paused"}]
  /\ count \in [Pools -> 0 .. Cardinality(Accesses)]
  /\ obj \in [Objects -> [live : BOOLEAN, gen : 0 .. GenBound, pool : Pools,
                          pinned : BOOLEAN, fn : BOOLEAN,
                          borrows : 0 .. Cardinality(Accesses), built : BOOLEAN]]
  /\ ptr \in [Pointers -> RawRef]
  /\ access \in [Accesses -> RawRef]
  /\ make \in [pc : {"idle", "hook", "resolve", "construct", "undo"}, ref : RawRef]
  /\ \A o \in Objects : obj[o].fn => obj[o].pinned

AccessesOn(o) == {a \in Accesses : access[a].gen # 0 /\ access[a].obj = o}

(* RAII accounting (pm_access, borrow_begin, borrow_end): through every    *)
(* move, early end and pause, the borrows counted on an object are exactly *)
(* the accesses alive on it, and the pool counts the same ones.            *)
BorrowsAreAccesses ==
  /\ \A o \in Objects : obj[o].borrows = Cardinality(AccessesOn(o))
  /\ \A p \in Pools :
       count[p] = Cardinality(UNION {AccessesOn(o) : o \in Residents(p)})

(* The program never reaches storage in which nothing was built.  What a   *)
(* live access names stays: the same generation of a built object, in the  *)
(* pool its pointer was bound to, so that its end token matches; and a     *)
(* make that fails, in whatever step, hands out no pointer.                *)
NothingUnbuiltReached ==
  /\ \A a \in Accesses : access[a] # NullRef =>
       TokenMatches(access[a]) /\ obj[access[a].obj].built
  /\ \A h \in Pointers : Names(ptr[h], ptr[h].obj) => obj[ptr[h].obj].built

(* pm_destroy keeps the pointer on every refusal (borrow, pause, a pool    *)
(* the object left), so no built object is ever lost: once it is idle in a *)
(* Running pool, some pointer rebound by pm_as_cross destroys it.          *)
AlwaysReclaimable ==
  \A o \in Objects :
    obj[o].built /\ obj[o].borrows = 0 /\ pool[obj[o].pool] = "Running" =>
      \E h \in Pointers : ptr[h].obj = o /\ FreeStatus(pm_as_cross(ptr[h])) = "Ok"

(* docs/AUDIT_LEDGER.md, object lifetime: construction and the destructor  *)
(* thunk happen exactly once.  A free that runs the thunk must therefore   *)
(* find a constructed object.                                              *)
DestructorsPaired ==
  [][\A o \in Objects : obj[o].live /\ ~obj'[o].live /\ obj[o].fn => obj[o].built]_vars

(* The rollback in pm_make and pm_make_pinned: a failed make leaves no     *)
(* storage behind.                                                         *)
MakeRollsBack ==
  make.pc = "idle" => \A o \in Objects : obj[o].live => obj[o].built
=============================================================================
