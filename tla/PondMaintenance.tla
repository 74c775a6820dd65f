--------------------------- MODULE PondMaintenance ---------------------------
(***************************************************************************)
(* The borrow/maintenance protocol of PondMerge (src/src/core.cpp).        *)
(*                                                                         *)
(* One owner context runs alloc, free, compact, merge, split and the pool  *)
(* lifecycle.  Any number of other tasks call borrow_begin, borrow_end,    *)
(* pause and resume, each of which is one PM_LOCK critical section and so  *)
(* one action here.  The three maintenance operations lock only to arm and *)
(* to publish: between the two every descriptor and pool field they write  *)
(* is a step of its own that the tasks may observe.                        *)
(*                                                                         *)
(* Addresses are units of the zone (a unit is the smallest block here) and *)
(* a block is the interval [start, start + size).  Which free interval     *)
(* alloc picks, the slack between blocks and the headers in memory are the *)
(* business of the heap model; everything check_ref and the planners read  *)
(* is kept.                                                                *)
(***************************************************************************)
EXTENDS Integers, FiniteSets, FiniteSetsExt

CONSTANTS
  Pools,      (* pool ids 0 .. PM_MAX_POOLS - 1                             *)
  Objects,    (* descriptor slots                                           *)
  Tasks,      (* contexts that borrow, pause and resume                     *)
  Segments,   (* number of segments of the Auto Zone                        *)
  SegUnits,   (* units per segment                                          *)
  Sizes,      (* block sizes in units                                       *)
  GenMax,     (* largest generation before the wrap to 1                    *)
  BorrowBound,(* bound of the model on a pool's borrow_count (uint32_t)     *)
  FreeRace    (* may a task borrow an object the owner is freeing?          *)

ASSUME PoolsAssumption   == Pools \subseteq Nat /\ Pools # {} /\ IsFiniteSet(Pools)
ASSUME ObjectsAssumption == IsFiniteSet(Objects)
ASSUME TasksAssumption   == IsFiniteSet(Tasks)
ASSUME SegAssumption     == Segments \in Nat \ {0} /\ SegUnits \in Nat \ {0}
ASSUME SizesAssumption   == Sizes \subseteq Nat \ {0}
ASSUME GenAssumption     == GenMax \in Nat \ {0}
ASSUME BoundAssumption   == BorrowBound \in Nat
ASSUME RaceAssumption    == FreeRace \in BOOLEAN

Cross == -1                     \* CROSS_HINT: the reference names no pool
Units == 0 .. Segments * SegUnits - 1

VARIABLES
  pool,   (* pool table                                                     *)
  obj,    (* descriptor table                                               *)
  held,   (* held[t]: the borrow task t has begun and not ended, if any     *)
  op      (* where the owner is inside free / compact / merge / split       *)

vars == <<pool, obj, held, op>>

-----------------------------------------------------------------------------
(* Types *)

MaintenanceStates == {"Compacting", "Merging", "Splitting"}
PoolStates == {"Empty", "Running", "Paused"} \cup MaintenanceStates

PoolRecord == [state : PoolStates, first : Nat, count : Nat, borrows : Nat, live : Int]
EmptyPool  == [state |-> "Empty", first |-> 0, count |-> 0, borrows |-> 0, live |-> 0]

ObjectDesc == [state : {"Free", "Live", "Destroying"}, gen : 0 .. GenMax,
               pool : Pools, start : Nat, size : Nat, pinned : BOOLEAN, borrows : Nat]

RawRef == [obj : Objects, gen : 1 .. GenMax, hint : Pools \cup {Cross}]
Token  == [obj : Objects, gen : 1 .. GenMax, hint : Pools \cup {Cross}, addr : Nat]

CompactSteps == {"compact-plan", "compact-move", "compact-fail"}
MergeSteps   == {"merge-plan", "merge-move", "merge-count", "merge-commit"}
SplitSteps   == {"split-plan", "split-move", "split-adopt", "split-commit", "split-fail"}
FreeSteps    == {"free-checked", "free-destroying"}

(* src, tgt: the pools an operation holds (tgt = src for compact); paused: *)
(* those of them that were Paused on entry; victim: the object free() has  *)
(* accepted; to: planned block starts; todo: objects still to be moved;    *)
(* adopt: objects whose pool_id is still to be rewritten; keep, fresh: how *)
(* many segments a split leaves to the source and gives to the new pool.   *)
OpRecord == [pc : {"idle"} \cup FreeSteps \cup CompactSteps \cup MergeSteps \cup SplitSteps,
             src : Pools, tgt : Pools, paused : SUBSET Pools, victim : SUBSET Objects,
             to : [Objects -> Nat], todo : SUBSET Objects, adopt : SUBSET Objects,
             keep : Nat, fresh : Nat]

AnyPool == CHOOSE p \in Pools : TRUE
Idle == [pc |-> "idle", src |-> AnyPool, tgt |-> AnyPool, paused |-> {}, victim |-> {},
         to |-> [o \in Objects |-> 0], todo |-> {}, adopt |-> {}, keep |-> 0, fresh |-> 0]

(* Only state, generation and the slot link of a Free descriptor are ever  *)
(* read; the other fields are given one value.                             *)
FreeDesc(gen) == [state |-> "Free", gen |-> gen, pool |-> AnyPool, start |-> 0,
                  size |-> 0, pinned |-> FALSE, borrows |-> 0]

-----------------------------------------------------------------------------
(* Geometry *)

WindowLo(P) == P.first * SegUnits
WindowHi(P) == (P.first + P.count) * SegUnits
BlockEnd(o) == obj[o].start + obj[o].size

Residents(p) == {o \in Objects : obj[o].state = "Live" /\ obj[o].pool = p}

BlockInWindow(o) ==
  LET P == pool[obj[o].pool] IN
  /\ P.state # "Empty"
  /\ WindowLo(P) <= obj[o].start
  /\ BlockEnd(o) <= WindowHi(P)

FreeUnits(s, size) ==
  \A o \in Objects : obj[o].state # "Free" => s + size <= obj[o].start \/ BlockEnd(o) <= s

SegmentUsed(s) ==
  \E p \in Pools : /\ pool[p].state # "Empty"
                   /\ s \in pool[p].first .. pool[p].first + pool[p].count - 1

(* Mutant: no wrap. *)
NextGenerationUnbounded(g) == g + 1

NextGeneration(g) == IF g = GenMax THEN 1 ELSE g + 1

-----------------------------------------------------------------------------
(* check_ref, in the order of its early returns.  The Busy test comes      *)
(* after the proof that the block lies in its pool's window.               *)

NamesLive(r)    == obj[r.obj].state = "Live" /\ obj[r.obj].gen = r.gen
HintMatches(r)  == r.hint \in {Cross, obj[r.obj].pool}

(* Mutant: a borrow is not refused while the pool is not Running. *)
CheckRefNeverBusy(r) ==
  IF ~NamesLive(r) THEN "InvalidRef"
  ELSE IF ~BlockInWindow(r.obj) THEN "CorruptMetadata"
  ELSE IF ~HintMatches(r) THEN "PoolChanged"
  ELSE "Ok"

CheckRef(r) ==
  IF ~NamesLive(r) THEN "InvalidRef"
  ELSE IF ~BlockInWindow(r.obj) THEN "CorruptMetadata"
  ELSE IF ~HintMatches(r) THEN "PoolChanged"
  ELSE IF pool[obj[r.obj].pool].state # "Running" THEN "Busy"
  ELSE "Ok"

-----------------------------------------------------------------------------
(* Any context: borrow accounting and the pause/resume flips *)

BorrowBegin(t, r) ==
  /\ held[t] = {}
  /\ FreeRace \/ r.obj \notin op.victim
  /\ CheckRef(r) = "Ok"
  /\ pool[obj[r.obj].pool].borrows < BorrowBound
  /\ pool' = [pool EXCEPT ![obj[r.obj].pool].borrows = @ + 1]
  /\ obj'  = [obj EXCEPT ![r.obj].borrows = @ + 1]
  /\ held' = [held EXCEPT ![t] = {[obj |-> r.obj, gen |-> r.gen, hint |-> r.hint,
                                   addr |-> obj[r.obj].start]}]
  /\ UNCHANGED op

(* Mutant: the counters are not tested before they are decremented. *)
TokenMatchesUncounted(k) == obj[k.obj].state = "Live" /\ HintMatches(k)

(* What borrow_end re-validates before it touches a counter. *)
TokenMatches(k) ==
  /\ NamesLive(k)
  /\ HintMatches(k)
  /\ pool[obj[k.obj].pool].state # "Empty"
  /\ obj[k.obj].borrows > 0
  /\ pool[obj[k.obj].pool].borrows > 0

(* Mutant: the end of a borrow is refused unless the pool is Running. *)
BorrowEndIfRunning(t) ==
  \E k \in held[t] :
    /\ held' = [held EXCEPT ![t] = {}]
    /\ \/ /\ CheckRef(k) = "Ok"
          /\ pool' = [pool EXCEPT ![obj[k.obj].pool].borrows = @ - 1]
          /\ obj'  = [obj EXCEPT ![k.obj].borrows = @ - 1]
       \/ /\ CheckRef(k) # "Ok"
          /\ UNCHANGED <<pool, obj>>
    /\ UNCHANGED op

BorrowEnd(t) ==
  \E k \in held[t] :
    /\ held' = [held EXCEPT ![t] = {}]
    /\ \/ /\ TokenMatches(k)
          /\ pool' = [pool EXCEPT ![obj[k.obj].pool].borrows = @ - 1]
          /\ obj'  = [obj EXCEPT ![k.obj].borrows = @ - 1]
       \/ /\ ~TokenMatches(k)
          /\ UNCHANGED <<pool, obj>>
    /\ UNCHANGED op

Pause(p) ==
  /\ pool[p].state = "Running"
  /\ pool' = [pool EXCEPT ![p].state = "Paused"]
  /\ UNCHANGED <<obj, held, op>>

Resume(p) ==
  /\ pool[p].state = "Paused"
  /\ pool' = [pool EXCEPT ![p].state = "Running"]
  /\ UNCHANGED <<obj, held, op>>

-----------------------------------------------------------------------------
(* Owner: pool lifecycle, alloc, free *)

OwnerAt(pc) == op.pc = pc
FirstEmpty(p) == pool[p].state = "Empty" /\ \A q \in Pools : q < p => pool[q].state # "Empty"

FreeRun(base, n) == \A s \in base .. base + n - 1 : ~SegmentUsed(s)

CreatePool(n) ==
  /\ OwnerAt("idle")
  /\ \E new \in Pools, base \in 0 .. Segments - n :
       /\ FirstEmpty(new)
       /\ FreeRun(base, n)
       /\ \A lower \in 0 .. base - 1 : ~FreeRun(lower, n)
       /\ pool' = [pool EXCEPT ![new] =
                     [EmptyPool EXCEPT !.state = "Running", !.first = base, !.count = n]]
  /\ UNCHANGED <<obj, held, op>>

DestroyPool(p) ==
  /\ OwnerAt("idle")
  /\ pool[p].state \in {"Running", "Paused"}
  /\ pool[p].live = 0 /\ pool[p].borrows = 0
  /\ pool' = [pool EXCEPT ![p] = EmptyPool]
  /\ UNCHANGED <<obj, held, op>>

Alloc(p, o, size, pinned) ==
  /\ OwnerAt("idle")
  /\ pool[p].state = "Running"
  /\ obj[o].state = "Free"
  /\ \E s \in WindowLo(pool[p]) .. WindowHi(pool[p]) - size :
       /\ FreeUnits(s, size)
       /\ obj' = [obj EXCEPT ![o] =
                    [state |-> "Live", gen |-> NextGeneration(@.gen), pool |-> p, start |-> s,
                     size |-> size, pinned |-> pinned, borrows |-> 0]]
  /\ pool' = [pool EXCEPT ![p].live = @ + 1]
  /\ UNCHANGED <<held, op>>

(* The unlocked checks at the head of free().  That no task begins a       *)
(* borrow between these reads and the commit is the caller's duty          *)
(* (docs/AUDIT_LEDGER.md, accepted boundary 1); FreeRace drops it.         *)
FreeCheck(o) ==
  /\ OwnerAt("idle")
  /\ obj[o].state = "Live"
  /\ CheckRef([obj |-> o, gen |-> obj[o].gen, hint |-> Cross]) = "Ok"
  /\ obj[o].borrows = 0
  /\ op' = [op EXCEPT !.pc = "free-checked", !.victim = {o}]
  /\ UNCHANGED <<pool, obj, held>>

(* A pinned object may carry a destroy callback: it runs in state Destroying. *)
FreeDestroying(o) ==
  /\ OwnerAt("free-checked")
  /\ o \in op.victim
  /\ obj[o].pinned
  /\ obj' = [obj EXCEPT ![o].state = "Destroying"]
  /\ op'  = [op EXCEPT !.pc = "free-destroying"]
  /\ UNCHANGED <<pool, held>>

FreeCommit(o) ==
  /\ op.pc \in FreeSteps
  /\ o \in op.victim
  /\ pool' = [pool EXCEPT ![obj[o].pool].live = @ - 1]
  /\ obj'  = [obj EXCEPT ![o] = FreeDesc(NextGeneration(@.gen))]
  /\ op'   = Idle
  /\ UNCHANGED held

-----------------------------------------------------------------------------
(* Packing plans.  f maps the objects of R to block starts.  The cursor of *)
(* the planning loops is base or the end of a block already placed: taken  *)
(* in address order, a movable block goes to the cursor, a pinned one      *)
(* keeps its place, which must not lie below the cursor.                   *)

Below(R, o) == {q \in R : obj[q].start < obj[o].start}

(* Mutant: pinned blocks are packed like the others. *)
PacksUnpinned(f, R, base, limit) ==
  \A o \in R :
    /\ base <= f[o] /\ f[o] + obj[o].size <= limit
    /\ \A q \in Below(R, o) : f[q] + obj[q].size <= f[o]
    /\ f[o] = base \/ \E q \in Below(R, o) : f[o] = f[q] + obj[q].size

Packs(f, R, base, limit) ==
  \A o \in R :
    /\ base <= f[o] /\ f[o] + obj[o].size <= limit
    /\ \A q \in Below(R, o) : f[q] + obj[q].size <= f[o]
    /\ IF obj[o].pinned THEN f[o] = obj[o].start
       ELSE f[o] = base \/ \E q \in Below(R, o) : f[o] = f[q] + obj[q].size

OnObjects(f) == [o \in Objects |-> IF o \in DOMAIN f THEN f[o] ELSE 0]
Relocate(o)  == obj' = [obj EXCEPT ![o].start = op.to[o]]
Lowest(R, o) == o \in R /\ Below(R, o) = {}
Highest(R, o) == o \in R /\ \A q \in R : obj[q].start <= obj[o].start

-----------------------------------------------------------------------------
(* compact *)

(* Refused because of a borrow: the pool is left Paused. *)
CompactRefused(p) ==
  /\ OwnerAt("idle")
  /\ pool[p].state \in {"Running", "Paused"}
  /\ pool[p].borrows # 0
  /\ pool' = [pool EXCEPT ![p].state = "Paused"]
  /\ UNCHANGED <<obj, held, op>>

(* Mutant: arming does not look at borrow_count. *)
CompactArmUnchecked(p) ==
  /\ OwnerAt("idle")
  /\ pool[p].state \in {"Running", "Paused"}
  /\ pool' = [pool EXCEPT ![p].state = "Compacting"]
  /\ op' = [Idle EXCEPT !.pc = "compact-plan", !.src = p, !.tgt = p,
                        !.paused = {q \in {p} : pool[q].state = "Paused"}]
  /\ UNCHANGED <<obj, held>>

CompactArm(p) ==
  /\ OwnerAt("idle")
  /\ pool[p].state \in {"Running", "Paused"}
  /\ pool[p].borrows = 0
  /\ pool' = [pool EXCEPT ![p].state = "Compacting"]
  /\ op' = [Idle EXCEPT !.pc = "compact-plan", !.src = p, !.tgt = p,
                        !.paused = {q \in {p} : pool[q].state = "Paused"}]
  /\ UNCHANGED <<obj, held>>

(* A target or a budget may end the plan before any object: only blocks    *)
(* that start below the cut are moved.                                     *)
CompactPlan ==
  /\ OwnerAt("compact-plan")
  /\ LET p == op.src
         R == Residents(p)
     IN \E f \in [R -> Units], cut \in {obj[o].start : o \in R} \cup {WindowHi(pool[p])} :
          /\ Packs(f, R, WindowLo(pool[p]), WindowHi(pool[p]))
          /\ op' = [op EXCEPT !.pc = "compact-move", !.to = OnObjects(f),
                      !.todo = {o \in R : obj[o].start < cut /\ f[o] # obj[o].start}]
  /\ UNCHANGED <<pool, obj, held>>

(* A malformed CompactionRequest is refused after arming. *)
CompactPlanFails ==
  /\ OwnerAt("compact-plan")
  /\ op' = [op EXCEPT !.pc = "compact-fail"]
  /\ UNCHANGED <<pool, obj, held>>

CompactMove(o) ==
  /\ OwnerAt("compact-move")
  /\ Lowest(op.todo, o)
  /\ Relocate(o)
  /\ op' = [op EXCEPT !.todo = @ \ {o}]
  /\ UNCHANGED <<pool, held>>

CompactCommit ==
  /\ OwnerAt("compact-move")
  /\ op.todo = {}
  /\ pool' = [pool EXCEPT ![op.src].state = "Running"]
  /\ op' = Idle
  /\ UNCHANGED <<obj, held>>

EntryState(p) == IF p \in op.paused THEN "Paused" ELSE "Running"

CompactRestore ==
  /\ OwnerAt("compact-fail")
  /\ pool' = [pool EXCEPT ![op.src].state = EntryState(op.src)]
  /\ op' = Idle
  /\ UNCHANGED <<obj, held>>

-----------------------------------------------------------------------------
(* merge: the source's segments and objects go to the adjacent target *)

Maintainable(p) == pool[p].state \in {"Running", "Paused"} /\ pool[p].borrows = 0
JustBelow(p, q) == pool[q].first = pool[p].first + pool[p].count
Lower(p, q)     == IF pool[p].first < pool[q].first THEN p ELSE q

(* Mutant: only the target's borrows are looked at. *)
MergeArmTargetOnly(s, t) ==
  /\ OwnerAt("idle")
  /\ s # t
  /\ pool[s].state \in {"Running", "Paused"} /\ Maintainable(t)
  /\ JustBelow(s, t) \/ JustBelow(t, s)
  /\ pool' = [pool EXCEPT ![s].state = "Merging", ![t].state = "Merging"]
  /\ op' = [Idle EXCEPT !.pc = "merge-plan", !.src = s, !.tgt = t,
                        !.paused = {q \in {s, t} : pool[q].state = "Paused"}]
  /\ UNCHANGED <<obj, held>>

MergeArm(s, t) ==
  /\ OwnerAt("idle")
  /\ s # t
  /\ Maintainable(s) /\ Maintainable(t)
  /\ JustBelow(s, t) \/ JustBelow(t, s)
  /\ pool' = [pool EXCEPT ![s].state = "Merging", ![t].state = "Merging"]
  /\ op' = [Idle EXCEPT !.pc = "merge-plan", !.src = s, !.tgt = t,
                        !.paused = {q \in {s, t} : pool[q].state = "Paused"}]
  /\ UNCHANGED <<obj, held>>

MergePlan ==
  /\ OwnerAt("merge-plan")
  /\ LET R    == Residents(op.src) \cup Residents(op.tgt)
         low  == Lower(op.src, op.tgt)
         high == IF low = op.src THEN op.tgt ELSE op.src
     IN \E f \in [R -> Units] :
          /\ Packs(f, R, WindowLo(pool[low]), WindowHi(pool[high]))
          /\ op' = [op EXCEPT !.pc = "merge-move", !.to = OnObjects(f), !.todo = R,
                              !.adopt = Residents(op.src)]
  /\ UNCHANGED <<pool, obj, held>>

(* Each plan entry first moves the block, then rewrites its pool_id. *)
MergeMove(o) ==
  /\ OwnerAt("merge-move")
  /\ op.adopt \subseteq op.todo
  /\ Lowest(op.todo, o)
  /\ Relocate(o)
  /\ op' = [op EXCEPT !.todo = @ \ {o}]
  /\ UNCHANGED <<pool, held>>

MergeAdopt(o) ==
  /\ OwnerAt("merge-move")
  /\ o \in op.adopt \ op.todo
  /\ obj' = [obj EXCEPT ![o].pool = op.tgt]
  /\ op' = [op EXCEPT !.adopt = @ \ {o}]
  /\ UNCHANGED <<pool, held>>

MergeFirst ==
  /\ OwnerAt("merge-move")
  /\ op.todo = {} /\ op.adopt = {}
  /\ pool' = [pool EXCEPT ![op.tgt].first = pool[Lower(op.src, op.tgt)].first]
  /\ op' = [op EXCEPT !.pc = "merge-count"]
  /\ UNCHANGED <<obj, held>>

MergeCount ==
  /\ OwnerAt("merge-count")
  /\ pool' = [pool EXCEPT ![op.tgt].count = @ + pool[op.src].count,
                          ![op.tgt].live = Cardinality(Residents(op.tgt))]
  /\ op' = [op EXCEPT !.pc = "merge-commit"]
  /\ UNCHANGED <<obj, held>>

MergeCommit ==
  /\ OwnerAt("merge-commit")
  /\ pool' = [pool EXCEPT ![op.src] = EmptyPool, ![op.tgt].state = "Running"]
  /\ op' = Idle
  /\ UNCHANGED <<obj, held>>

-----------------------------------------------------------------------------
(* split: the top n segments of the source become a new pool *)

SplitArm(p, n) ==
  /\ OwnerAt("idle")
  /\ Maintainable(p)
  /\ n \in 1 .. pool[p].count - 1
  /\ \E new \in Pools :
       /\ FirstEmpty(new)
       /\ pool' = [pool EXCEPT ![p].state = "Splitting", ![new].state = "Splitting"]
       /\ op' = [Idle EXCEPT !.pc = "split-plan", !.src = p, !.tgt = new,
                   !.paused = {q \in {p} : pool[q].state = "Paused"},
                   !.keep = pool[p].count - n, !.fresh = n]
  /\ UNCHANGED <<obj, held>>

(* Blocks wholly below the boundary stay below it; a block that crosses it *)
(* counts as upper.                                                        *)
Boundary     == (pool[op.src].first + op.keep) * SegUnits
UpperSide(p) == {o \in Residents(p) : BlockEnd(o) > Boundary}
LowerSide(p) == Residents(p) \ UpperSide(p)

SplitPlans(p) ==
  {f \in [Residents(p) -> Units] :
     /\ Packs(f, LowerSide(p), WindowLo(pool[p]), Boundary)
     /\ Packs(f, UpperSide(p), Boundary, WindowHi(pool[p]))}

SplitPlan ==
  /\ OwnerAt("split-plan")
  /\ \E f \in SplitPlans(op.src) :
       op' = [op EXCEPT !.pc = "split-move", !.to = OnObjects(f),
                        !.todo = {o \in Residents(op.src) : ~obj[o].pinned}]
  /\ UNCHANGED <<pool, obj, held>>

SplitPlanFails ==
  /\ OwnerAt("split-plan")
  /\ SplitPlans(op.src) = {}
  /\ op' = [op EXCEPT !.pc = "split-fail"]
  /\ UNCHANGED <<pool, obj, held>>

(* Mutant: one pass in address order. *)
SplitMoveAscending(o) ==
  /\ OwnerAt("split-move")
  /\ Lowest(op.todo, o)
  /\ Relocate(o)
  /\ op' = [op EXCEPT !.todo = @ \ {o}]
  /\ UNCHANGED <<pool, held>>

(* Rightward moves from the top down, then the other upper blocks from the *)
(* boundary up, then the lower side from its start up.                     *)
SplitMove(o) ==
  /\ OwnerAt("split-move")
  /\ LET upper == {q \in op.todo : op.to[q] >= Boundary}
         right == {q \in upper : op.to[q] > obj[q].start}
     IN \/ Highest(right, o)
        \/ right = {} /\ Lowest(upper, o)
        \/ upper = {} /\ Lowest(op.todo, o)
  /\ Relocate(o)
  /\ op' = [op EXCEPT !.todo = @ \ {o}]
  /\ UNCHANGED <<pool, held>>

(* Mutant: the source gives up its upper segments before its objects. *)
SplitWindowShrinksSource ==
  /\ OwnerAt("split-move")
  /\ op.todo = {}
  /\ pool' = [pool EXCEPT ![op.tgt].first = pool[op.src].first + op.keep,
                          ![op.tgt].count = op.fresh,
                          ![op.src].count = op.keep]
  /\ op' = [op EXCEPT !.pc = "split-adopt",
                      !.adopt = {o \in Residents(op.src) : obj[o].start >= Boundary}]
  /\ UNCHANGED <<obj, held>>

SplitWindow ==
  /\ OwnerAt("split-move")
  /\ op.todo = {}
  /\ pool' = [pool EXCEPT ![op.tgt].first = pool[op.src].first + op.keep,
                          ![op.tgt].count = op.fresh]
  /\ op' = [op EXCEPT !.pc = "split-adopt",
                      !.adopt = {o \in Residents(op.src) : obj[o].start >= Boundary}]
  /\ UNCHANGED <<obj, held>>

SplitAdopt(o) ==
  /\ OwnerAt("split-adopt")
  /\ Lowest(op.adopt, o)
  /\ obj' = [obj EXCEPT ![o].pool = op.tgt]
  /\ op' = [op EXCEPT !.adopt = @ \ {o}]
  /\ UNCHANGED <<pool, held>>

(* Mutant: the source keeps counting the objects it gave away. *)
SplitCountKeepsLive ==
  /\ OwnerAt("split-adopt")
  /\ op.adopt = {}
  /\ pool' = [pool EXCEPT ![op.src].count = op.keep,
                          ![op.tgt].live = Cardinality(Residents(op.tgt))]
  /\ op' = [op EXCEPT !.pc = "split-commit"]
  /\ UNCHANGED <<obj, held>>

SplitCount ==
  /\ OwnerAt("split-adopt")
  /\ op.adopt = {}
  /\ LET moved == Cardinality(Residents(op.tgt)) IN
       pool' = [pool EXCEPT ![op.src].live = @ - moved,
                            ![op.src].count = op.keep,
                            ![op.tgt].live = moved]
  /\ op' = [op EXCEPT !.pc = "split-commit"]
  /\ UNCHANGED <<obj, held>>

SplitCommit ==
  /\ OwnerAt("split-commit")
  /\ pool' = [pool EXCEPT ![op.src].state = "Running", ![op.tgt].state = "Running"]
  /\ op' = Idle
  /\ UNCHANGED <<obj, held>>

(* Mutant: a failed split does not give the claimed pool entry back. *)
SplitRestoreSourceOnly ==
  /\ OwnerAt("split-fail")
  /\ pool' = [pool EXCEPT ![op.src].state = EntryState(op.src)]
  /\ op' = Idle
  /\ UNCHANGED <<obj, held>>

SplitRestore ==
  /\ OwnerAt("split-fail")
  /\ pool' = [pool EXCEPT ![op.src].state = EntryState(op.src), ![op.tgt] = EmptyPool]
  /\ op' = Idle
  /\ UNCHANGED <<obj, held>>

-----------------------------------------------------------------------------
(* Specification *)

Init ==
  /\ pool = [p \in Pools |-> EmptyPool]
  /\ obj  = [o \in Objects |-> FreeDesc(0)]
  /\ held = [t \in Tasks |-> {}]
  /\ op   = Idle

TaskNext ==
  \/ \E t \in Tasks, r \in RawRef : BorrowBegin(t, r)
  \/ \E t \in Tasks : BorrowEnd(t)
  \/ \E p \in Pools : Pause(p)
  \/ \E p \in Pools : Resume(p)

OwnerCalls ==
  \/ \E n \in 1 .. Segments : CreatePool(n)
  \/ \E p \in Pools : DestroyPool(p)
  \/ \E p \in Pools, o \in Objects, size \in Sizes, pinned \in BOOLEAN : Alloc(p, o, size, pinned)
  \/ \E o \in Objects : FreeCheck(o)
  \/ \E p \in Pools : CompactRefused(p)
  \/ \E p \in Pools : CompactArm(p)
  \/ \E s, t \in Pools : MergeArm(s, t)
  \/ \E p \in Pools, n \in 1 .. Segments : SplitArm(p, n)

(* The rest of a call the owner has begun. *)
OwnerProceeds ==
  \/ \E o \in Objects : FreeDestroying(o)
  \/ \E o \in Objects : FreeCommit(o)
  \/ CompactPlan
  \/ CompactPlanFails
  \/ \E o \in Objects : CompactMove(o)
  \/ CompactCommit
  \/ CompactRestore
  \/ MergePlan
  \/ \E o \in Objects : MergeMove(o)
  \/ \E o \in Objects : MergeAdopt(o)
  \/ MergeFirst
  \/ MergeCount
  \/ MergeCommit
  \/ SplitPlan
  \/ SplitPlanFails
  \/ \E o \in Objects : SplitMove(o)
  \/ SplitWindow
  \/ \E o \in Objects : SplitAdopt(o)
  \/ SplitCount
  \/ SplitCommit
  \/ SplitRestore

Next == TaskNext \/ OwnerCalls \/ OwnerProceeds

Spec == Init /\ [][Next]_vars

(* The owner runs straight-line code between arming and publishing, and a  *)
(* borrow is a scope (pm_access) that its task leaves.                     *)
Fairness ==
  /\ WF_vars(OwnerProceeds)
  /\ \A t \in Tasks : WF_vars(BorrowEnd(t))

FairSpec == Spec /\ Fairness

-----------------------------------------------------------------------------
(* Invariants *)

(* Every variable has its type. *)
TypeOK ==
  /\ pool \in [Pools -> PoolRecord]
  /\ obj  \in [Objects -> ObjectDesc]
  /\ held \in [Tasks -> SUBSET Token]
  /\ op   \in OpRecord

Holders(o)     == {t \in Tasks : \E k \in held[t] : k.obj = o}
PoolHolders(p) == {t \in Tasks : \E k \in held[t] : obj[k.obj].pool = p}

(* No pool is inside compact, merge or split while a borrow of one of its  *)
(* objects is outstanding (borrow_begin's Running test and the arming      *)
(* blocks exclude each other, whatever pause and resume do in between).    *)
MaintenanceExcludesBorrows ==
  \A p \in Pools : pool[p].state \in MaintenanceStates =>
    pool[p].borrows = 0 /\ PoolHolders(p) = {}

(* The two borrow counters always equal the number of outstanding borrows, *)
(* of the object and of the pool that owns it now, through merges, splits  *)
(* and slot reuse.                                                         *)
BorrowsConserved ==
  /\ \A o \in Objects : obj[o].borrows = Cardinality(Holders(o))
  /\ \A p \in Pools : pool[p].borrows = Cardinality(PoolHolders(p))

(* An outstanding borrow still names the live object it was begun on, at   *)
(* the address borrow_begin handed out, and its end token will be accepted.*)
BorrowedStaysPut ==
  \A t \in Tasks : \A k \in held[t] :
    TokenMatches(k) /\ obj[k.obj].start = k.addr

(* No two blocks in use overlap, also between the moves of a compact,      *)
(* merge or split: no move lands on a block that has not been moved yet.   *)
LiveBlocksDisjoint ==
  \A a, b \in Objects :
    a # b /\ obj[a].state # "Free" /\ obj[b].state # "Free" =>
      BlockEnd(a) <= obj[b].start \/ BlockEnd(b) <= obj[a].start

(* The race the ledger accepts (a borrow begun while free() is past its    *)
(* check) can only leak: no counter underflows and a pool's counter never  *)
(* falls below those of its objects, so maintenance is refused rather than *)
(* run under a counted borrow.                                             *)
RaceOnlyLeaks ==
  /\ \A o \in Objects : obj[o].borrows >= 0
  /\ \A p \in Pools :
       pool[p].borrows >= MapThenSumSet(LAMBDA o : obj[o].borrows, Residents(p))

(* Outside the maintenance bodies the pool table is consistent: windows    *)
(* are disjoint and in the zone, every block lies in its pool's window and *)
(* live_objects counts them.                                               *)
Settled == {p \in Pools : pool[p].state \in {"Running", "Paused"}}
PoolTableConsistent ==
  /\ \A p \in Settled :
       /\ pool[p].first + pool[p].count <= Segments
       /\ pool[p].live = Cardinality({o \in Objects : obj[o].state # "Free" /\ obj[o].pool = p})
  /\ \A p, q \in Settled : p # q =>
       pool[p].first + pool[p].count <= pool[q].first \/
       pool[q].first + pool[q].count <= pool[p].first
  /\ \A o \in Objects : obj[o].state # "Free" /\ obj[o].pool \in Settled => BlockInWindow(o)

CrossRef(o) == [obj |-> o, gen |-> obj[o].gen, hint |-> Cross]

(* A reference to a live object is answered Ok exactly while its pool is   *)
(* Running and Busy while it is Paused, Compacting or Splitting, at every  *)
(* intermediate step of those operations (the range proof of check_ref     *)
(* never trips over a half-moved object).  merge is left out: see          *)
(* NoFalseCorruption.                                                      *)
MaintenanceAnswersBusy ==
  \A o \in Objects : obj[o].state = "Live" =>
    CASE pool[obj[o].pool].state = "Running" -> CheckRef(CrossRef(o)) = "Ok"
      [] pool[obj[o].pool].state \in {"Paused", "Compacting", "Splitting"} ->
           CheckRef(CrossRef(o)) = "Busy"
      [] OTHER -> pool[obj[o].pool].state = "Merging"

(* No valid reference is ever told that the metadata is corrupt.           *)
NoFalseCorruption ==
  \A o \in Objects : obj[o].state = "Live" => CheckRef(CrossRef(o)) # "CorruptMetadata"

-----------------------------------------------------------------------------
(* Action and liveness properties *)

(* A pinned object keeps its address for its whole life: compact, merge    *)
(* and split pack around it and at most change the pool that owns it.      *)
PinnedNeverMoves ==
  [][\A o \in Objects : obj[o].state = "Live" /\ obj'[o].state = "Live" /\ obj[o].pinned =>
       obj'[o].start = obj[o].start]_vars

(* Every compact, merge and split that is armed ends: no pool stays in a   *)
(* maintenance state.                                                      *)
MaintenanceEnds ==
  \A p \in Pools : (pool[p].state \in MaintenanceStates) ~> (pool[p].state \notin MaintenanceStates)

(* A paused pool drains: unless somebody resumes it, its borrows end, so a *)
(* compact that was refused can succeed.                                   *)
PausedPoolDrains ==
  \A p \in Pools : (pool[p].state = "Paused") ~> (pool[p].borrows = 0 \/ pool[p].state = "Running")

-----------------------------------------------------------------------------
(* Refinement: the protocol implements StableAccess. *)

GateOf(p) ==
  CASE pool[p].state = "Empty"   -> "absent"
    [] pool[p].state = "Running" -> "open"
    [] pool[p].state = "Paused"  -> "shut"
    [] OTHER                     -> "held"

PlaceOf(o) ==
  IF obj[o].state = "Free" THEN [pool |-> -1, at |-> -1]
  ELSE [pool |-> obj[o].pool, at |-> obj[o].start]

Stable == INSTANCE StableAccess WITH
            gate  <- [p \in Pools |-> GateOf(p)],
            where <- [o \in Objects |-> PlaceOf(o)],
            users <- [o \in Objects |-> obj[o].borrows]

(* Every behaviour of the protocol is one of StableAccess: an object in    *)
(* use never moves, changes pool or vanishes.                              *)
ImplementsStableAccess == Stable!StableSpec

=============================================================================
