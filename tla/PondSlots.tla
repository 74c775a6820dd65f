------------------------------ MODULE PondSlots ------------------------------
(***************************************************************************)
(* The descriptor table of PondMerge (src/src/core.cpp): the free-slot     *)
(* list, the pools' live-slot lists, the generations that guard references *)
(* and the destroy callbacks, which re-enter the allocator.                *)
(*                                                                         *)
(* All of it belongs to the owner context, so an action is a whole call.   *)
(* The one call that is not over in one step is a free() with a destroy    *)
(* callback: FreeCallback enters it, any other call may follow from inside *)
(* the callback, CallbackReturns ends it.  Callbacks nest, so the frees    *)
(* under way form a stack.                                                 *)
(*                                                                         *)
(* Blocks, windows and pool states are the business of PondHeap and        *)
(* PondMaintenance.  Here alloc may fail for want of a block at any time,  *)
(* two pools may be neighbours at any time, a split may put any objects    *)
(* above its boundary, and an address order is any order.  compact() moves *)
(* blocks and leaves every list alone, so it has no action.                *)
(***************************************************************************)
EXTENDS Integers, Sequences, FiniteSets

CONSTANTS
  PoolCount,  (* PM_MAX_POOLS                                               *)
  SlotCount,  (* PM_MAX_OBJECTS                                             *)
  GenMax      (* largest generation, 65535 in the code                      *)

(* A slot's generation moves twice per lifecycle, at alloc and at free.    *)
(* The number of nonzero 16-bit values is odd, which is why a slot meets   *)
(* an old generation again only after GenMax lifecycles, not half of them. *)
ASSUME PoolCountAssumption == PoolCount \in Nat \ {0}
ASSUME SlotCountAssumption == SlotCount \in Nat \ {0}
ASSUME GenMaxAssumption ==
  GenMax \in Nat /\ \E k \in 0 .. GenMax : GenMax = 2 * k + 1

Pools == 0 .. PoolCount - 1
Slots == 0 .. SlotCount - 1
None  == -1                     \* NO_SLOT and NO_ORDER
Links == Slots \cup {None}

VARIABLES
  up,       (* G.initialized                                                *)
  pool,     (* pool table: existence, order_head, live_objects              *)
  desc,     (* descriptor table                                             *)
  freeHead, (* G.free_slot_head                                             *)
  count,    (* G.live_object_count                                          *)
  running,  (* the free() calls whose callback is running, innermost last   *)
  refs      (* references the clients hold, by slot, with their age: the    *)
            (* number of allocations of the slot since the reference's own  *)

vars == <<up, pool, desc, freeHead, count, running, refs>>

-----------------------------------------------------------------------------
(* Types *)

PoolRecord == [exists : BOOLEAN, head : Links, live : 0 .. SlotCount]
EmptyPool  == [exists |-> FALSE, head |-> 0, live |-> 0]

ObjectDesc == [state : {"Free", "Live", "Destroying"}, gen : 0 .. GenMax,
               pool : Pools, prev : Links, next : Links, link : Links,
               callback : BOOLEAN]

ZeroDesc == [state |-> "Free", gen |-> 0, pool |-> 0, prev |-> 0, next |-> 0,
             link |-> 0, callback |-> FALSE]

FreshDesc(s) ==
  [ZeroDesc EXCEPT !.prev = None, !.next = None,
                   !.link = IF s + 1 < SlotCount THEN s + 1 ELSE None]

Reference == [gen : 1 .. GenMax, age : 0 .. GenMax - 1]

TypeOK ==
  /\ up \in BOOLEAN
  /\ pool \in [Pools -> PoolRecord]
  /\ desc \in [Slots -> ObjectDesc]
  /\ freeHead \in Links
  /\ count \in 0 .. SlotCount
  /\ running \in Seq([slot : Slots, pool : Pools])
  /\ refs \in [Slots -> SUBSET Reference]

-----------------------------------------------------------------------------
(* Lists of slots *)

Lists == UNION {{w \in [1 .. n -> Slots] : \A i, j \in 1 .. n : w[i] = w[j] => i = j}
                : n \in 0 .. SlotCount}

At(w, i)   == IF i \in DOMAIN w THEN w[i] ELSE None
On(w)      == {w[i] : i \in DOMAIN w}
Orders(S)  == {w \in Lists : On(w) = S}

(* w is the doubly linked list of pool p. *)
LiveChain(p, w) ==
  /\ pool[p].head = At(w, 1)
  /\ \A i \in DOMAIN w : /\ desc[w[i]].next = At(w, i + 1)
                         /\ desc[w[i]].prev = At(w, i - 1)

(* w is the free-slot list. *)
FreeChain(w) ==
  /\ freeHead = At(w, 1)
  /\ \A i \in DOMAIN w : desc[w[i]].link = At(w, i + 1)

(* Plausible slip: objects whose destroy callback is running pass as well. *)
CollectDestroying(p) ==
  {w \in Lists :
     /\ LiveChain(p, w)
     /\ \A s \in On(w) : desc[s].state # "Free" /\ desc[s].pool = p /\ desc[s].gen # 0
     /\ Len(w) = pool[p].live}

(* What precheck_pool accepts, and the slots it collects: at most one list. *)
Collect(p) ==
  {w \in Lists :
     /\ LiveChain(p, w)
     /\ \A s \in On(w) : desc[s].state = "Live" /\ desc[s].pool = p /\ desc[s].gen # 0
     /\ Len(w) = pool[p].live}

-----------------------------------------------------------------------------
(* Lifecycle *)

Init ==
  /\ up = FALSE
  /\ pool = [p \in Pools |-> EmptyPool]
  /\ desc = [s \in Slots |-> ZeroDesc]
  /\ freeHead = 0
  /\ count = 0
  /\ running = <<>>
  /\ refs = [s \in Slots |-> {}]

Start ==
  /\ ~up
  /\ up' = TRUE
  /\ pool' = [p \in Pools |-> EmptyPool]
  /\ desc' = [s \in Slots |-> FreshDesc(s)]
  /\ freeHead' = 0
  /\ count' = 0
  /\ UNCHANGED <<running, refs>>

(* The generations are forgotten, so the clients must forget their         *)
(* references too.                                                         *)
Deinit ==
  /\ up
  /\ count = 0
  /\ up' = FALSE
  /\ pool' = [p \in Pools |-> EmptyPool]
  /\ desc' = [s \in Slots |-> ZeroDesc]
  /\ freeHead' = 0
  /\ count' = 0
  /\ refs' = [s \in Slots |-> {}]
  /\ UNCHANGED running

FirstEmpty(p) == ~pool[p].exists /\ \A q \in Pools : q < p => pool[q].exists

CreatePool(p) ==
  /\ up
  /\ FirstEmpty(p)
  /\ pool' = [pool EXCEPT ![p] = [exists |-> TRUE, head |-> None, live |-> 0]]
  /\ UNCHANGED <<up, desc, freeHead, count, running, refs>>

DestroyPool(p) ==
  /\ up
  /\ pool[p].exists
  /\ pool[p].live = 0
  /\ pool' = [pool EXCEPT ![p] = EmptyPool]
  /\ UNCHANGED <<up, desc, freeHead, count, running, refs>>

-----------------------------------------------------------------------------
(* alloc *)

(* Plausible slips: no wrap, and the bare 16-bit wrap through 0. *)
NextGenerationUnbounded(g) == g + 1
NextGenerationThroughZero(g) == (g + 1) % (GenMax + 1)

NextGeneration(g) == IF g = GenMax THEN 1 ELSE g + 1

(* Clients keep a reference for as long as they like; one that is GenMax   *)
(* allocations old is the wrap the design accepts, and is dropped.         *)
Aged(R) == {[r EXCEPT !.age = @ + 1] : r \in {q \in R : q.age + 1 < GenMax}}

(* order_append *)
Pushed(p, s, d) ==
  [t \in Slots |-> IF t = s THEN [d EXCEPT !.prev = None, !.next = pool[p].head]
                   ELSE IF t = pool[p].head THEN [desc[t] EXCEPT !.prev = s]
                   ELSE desc[t]]

Alloc(p) ==
  /\ up
  /\ pool[p].exists
  /\ freeHead # None
  /\ LET s == freeHead
         g == NextGeneration(desc[s].gen)
     IN  /\ freeHead' = desc[s].link
         /\ desc' = Pushed(p, s, [ZeroDesc EXCEPT !.state = "Live", !.gen = g, !.pool = p])
         /\ pool' = [pool EXCEPT ![p].head = s, ![p].live = @ + 1]
         /\ refs' = [refs EXCEPT ![s] = Aged(@) \cup {[gen |-> g, age |-> 0]}]
  /\ count' = count + 1
  /\ UNCHANGED <<up, running>>

(* Plausible slip: an early return that forgets slot_release. *)
ReleasedNever(s, h) == desc' = desc /\ freeHead' = h

(* slot_release of a slot that slot_alloc took from the list with head h *)
Released(s, h) == desc' = [desc EXCEPT ![s].link = h] /\ freeHead' = s

(* No block fits: the slot goes back, its generation untouched. *)
AllocFails(p) ==
  /\ up
  /\ pool[p].exists
  /\ freeHead # None
  /\ Released(freeHead, desc[freeHead].link)
  /\ UNCHANGED <<up, pool, count, running, refs>>

-----------------------------------------------------------------------------
(* free *)

NamesLive(s, r) == desc[s].state = "Live" /\ desc[s].gen = r.gen

SetDestroyFn(s, fn) ==
  /\ up
  /\ \E r \in refs[s] : NamesLive(s, r)
  /\ desc' = [desc EXCEPT ![s].callback = fn]
  /\ UNCHANGED <<up, pool, freeHead, count, running, refs>>

(* Plausible slip: only the predecessor is told. *)
UnlinkedForward(s) ==
  [t \in Slots |->
     [desc[t] EXCEPT !.next = IF t = desc[s].prev THEN desc[s].next ELSE @]]

(* order_unlink: the neighbours of s close up *)
Unlinked(s) ==
  [t \in Slots |->
     [desc[t] EXCEPT !.next = IF t = desc[s].prev THEN desc[s].next ELSE @,
                     !.prev = IF t = desc[s].next THEN desc[s].prev ELSE @]]

(* The mutation phase of free(), on the pool that its first lines found. *)
Commit(s, p) ==
  /\ desc' = [Unlinked(s) EXCEPT
                ![s] = [@ EXCEPT !.gen = NextGeneration(desc[s].gen), !.state = "Free",
                                 !.prev = None, !.next = None, !.callback = FALSE,
                                 !.link = freeHead]]
  /\ pool' = [pool EXCEPT ![p].head = IF desc[s].prev = None THEN desc[s].next ELSE @,
                          ![p].live = @ - 1]
  /\ count' = count - 1
  /\ freeHead' = s

FreePlain(s) ==
  /\ up
  /\ \E r \in refs[s] : NamesLive(s, r)
  /\ ~desc[s].callback
  /\ Commit(s, desc[s].pool)
  /\ UNCHANGED <<up, running, refs>>

FreeCallback(s) ==
  /\ up
  /\ \E r \in refs[s] : NamesLive(s, r)
  /\ desc[s].callback
  /\ desc' = [desc EXCEPT ![s].state = "Destroying"]
  /\ running' = Append(running, [slot |-> s, pool |-> desc[s].pool])
  /\ UNCHANGED <<up, pool, freeHead, count, refs>>

CallbackReturns ==
  /\ running # <<>>
  /\ LET call == running[Len(running)]
     IN  IF desc[call.slot].state = "Destroying"
         THEN Commit(call.slot, call.pool)
         ELSE UNCHANGED <<desc, pool, count, freeHead>>
  /\ running' = SubSeq(running, 1, Len(running) - 1)
  /\ UNCHANGED <<up, refs>>

-----------------------------------------------------------------------------
(* merge and split rebuild the live-slot lists from the collected slots *)

Linked(w, p) ==
  [t \in On(w) |-> LET i == CHOOSE k \in DOMAIN w : w[k] = t
                   IN  [desc[t] EXCEPT !.pool = p, !.prev = At(w, i - 1),
                                       !.next = At(w, i + 1)]]

Merge(tgt, src) ==
  /\ up
  /\ tgt # src /\ pool[tgt].exists /\ pool[src].exists
  /\ \E v \in Collect(tgt), u \in Collect(src) :
       \E w \in Orders(On(v) \cup On(u)) :
         /\ desc' = [t \in Slots |-> IF t \in On(w) THEN Linked(w, tgt)[t] ELSE desc[t]]
         /\ pool' = [pool EXCEPT ![tgt].head = At(w, 1), ![tgt].live = Len(w),
                                 ![src] = EmptyPool]
  /\ UNCHANGED <<up, freeHead, count, running, refs>>

Split(src, new) ==
  /\ up
  /\ pool[src].exists /\ FirstEmpty(new)
  /\ \E w \in Collect(src) : \E above \in SUBSET On(w) :
       \E v \in Orders(above), u \in Orders(On(w) \ above) :
         /\ desc' = [t \in Slots |-> IF t \in On(v) THEN Linked(v, new)[t]
                                     ELSE IF t \in On(u) THEN Linked(u, src)[t]
                                     ELSE desc[t]]
         /\ pool' = [pool EXCEPT
                       ![src].head = At(u, 1), ![src].live = @ - Len(v),
                       ![new] = [exists |-> TRUE, head |-> At(v, 1), live |-> Len(v)]]
  /\ UNCHANGED <<up, freeHead, count, running, refs>>

-----------------------------------------------------------------------------
Next ==
  \/ Start
  \/ Deinit
  \/ \E p \in Pools : CreatePool(p) \/ DestroyPool(p) \/ Alloc(p) \/ AllocFails(p)
  \/ \E s \in Slots, fn \in BOOLEAN : SetDestroyFn(s, fn)
  \/ \E s \in Slots : FreePlain(s) \/ FreeCallback(s)
  \/ CallbackReturns
  \/ \E p, q \in Pools : Merge(p, q) \/ Split(p, q)

Spec == Init /\ [][Next]_vars

-----------------------------------------------------------------------------
(* Properties *)

Used       == {s \in Slots : desc[s].state # "Free"}
Members(p) == {s \in Used : desc[s].pool = p}

(* Between slot_alloc, slot_release and the failure paths of alloc no      *)
(* descriptor is lost or handed out twice: the free-slot list threads all  *)
(* free descriptors and no other.                                          *)
FreeListExact == up => \E w \in Orders(Slots \ Used) : FreeChain(w)

(* Whatever the calls, and from inside whatever callbacks, each pool's     *)
(* doubly linked live-slot list holds the objects of the pool, those being *)
(* destroyed included, once each, and the counters that guard destroy_pool *)
(* and deinit are the numbers of objects.                                  *)
LiveListsExact ==
  up => /\ \A s \in Used : pool[desc[s].pool].exists
        /\ \A p \in Pools :
             pool[p].exists =>
               \E w \in Orders(Members(p)) : LiveChain(p, w) /\ pool[p].live = Len(w)
        /\ count = Cardinality(Used)

(* The ABA guard: a reference is accepted by check_ref only until its own  *)
(* object is freed, through any reuse of the slot short of GenMax          *)
(* allocations; 65535 of them, although the generation moves by two each.  *)
StaleRefused ==
  \A s \in Slots : \A r \in refs[s] : NamesLive(s, r) => r.age = 0

(* free() keeps pointers to the pool and the descriptor across the destroy *)
(* callback.  Nothing the callback may call - alloc, free, merge, split,   *)
(* destroy_pool, deinit - takes either away.                               *)
CallbackSafe ==
  /\ running # <<>> => up
  /\ \A i \in DOMAIN running :
       /\ desc[running[i].slot].state = "Destroying"
       /\ desc[running[i].slot].pool = running[i].pool
       /\ pool[running[i].pool].exists
       /\ \A j \in DOMAIN running : running[i].slot = running[j].slot => i = j

(* Violated.  The user guide says that CorruptMetadata reports damage and  *)
(* nothing else, and pondmerge.hpp lets a destroy callback call the        *)
(* allocator; yet every audit inside one refuses the undamaged pool.       *)
AuditsAcceptUndamaged ==
  up => \A p \in Pools : pool[p].exists => Collect(p) # {}
=============================================================================
