# A TLA+ model of PondMerge

PondMerge (`src/`) is a C++ allocator for microcontrollers. A fixed "Auto Zone"
of memory is cut into segments, contiguous segments form *pools*, and every
pool is a TLSF heap of its own. Objects are reached through generation-checked
references, so that a pool can be *compacted*, two neighbours *merged* and one
*split* while references survive. One owner context mutates; any context may
borrow an object, end a borrow, pause or resume a pool.

This directory holds TLA+ modules of that program, TLC runs that check them on
small instances, and proofs checked by TLAPS for every size.

## 1. The system

### Components

| Component | State | Operations | What must hold |
|---|---|---|---|
| Borrow and pool-state protocol (`core.cpp` `check_ref`, `borrow_*`, `pause`, `resume`) | `Pool::state`, `Pool::borrow_count`, `ObjectDesc::active_borrows` | one `PM_LOCK` section each | no maintenance under a borrow; counters exact; a borrowed address stays valid |
| Maintenance (`compact`, `merge`, `split`) | pool table, descriptors, headers | lock to arm, work unlocked, lock to publish | no move lands on a live block; pinned blocks stay; every armed call publishes; observers see `Busy`, never damage |
| Pool table (`create_pool`, `destroy_pool`) | windows of segments | owner | disjoint windows; `live_objects` exact |
| Block layer (`alloc`, `free`) | boundary tags: size, free bit, `prev_size` | owner | header words, bins and descriptors agree after any sequence |
| Relocation copy and address sort (`move_block`, `sort_*`) | scratch arrays | called by every maintenance operation | a move is `memmove`, the sort is a sort, packed keys lose nothing |
| Planners (`compact_impl`, loops of `merge` and `split`) | none (scratch arrays) | owner, read-only | packing never fails after the audit; targets and budgets mean what the header says |
| Audits (`precheck_pool`, `audit_pool_bins`, `validate`) | none | owner, read-only | every reachable layout is accepted |
| TLSF bins | bitmaps, lists of free blocks | insert, remove, find | the bins are exactly the free blocks |
| Descriptor slots | free-slot list, live-slot lists, generations | `slot_alloc`, `slot_release` | a stale reference is refused until the generation wraps |
| Init and shutdown | everything | `init`, `deinit` | `deinit` refuses while objects live; references do not outlive it |
| Compaction advice | cached verdict per pool | `analyze_compaction`, `poll_compaction_advice` | verdicts agree with what a compaction would do |
| Typed wrappers (`pm_ptr`, `pm_access`, `pm_make*`) | a reference, a scope | templates over the core | a scope ends its borrow once; failed construction leaves no object and runs no destructor |
| Platform port | lock, tick source | macros | mutual exclusion |
| Statistics, debug hooks, fault injection | counters | read-only or test-only | decide nothing, except that the advice reads `get_stats` |
| Tests, fuzzers, benchmarks, examples, build | – | – | clients of the library |

### How they interact

The owner's calls are ordinary functions on shared tables. `borrow_begin`,
`borrow_end`, `pause`, `resume` run under `PM_LOCK` in any context. `compact`,
`merge` and `split` test the borrow counters and switch the pool state inside
one lock section (*arm*), audit, plan and move without the lock, and switch to
`Running` inside another (*publish*). Whatever other contexts may do in between
is decided by `check_ref` alone, which reads fields that are being rewritten.
`free` is the owner's and takes no lock at all.

### What is hard

* arming against borrows, pauses and resumes of other tasks (interleaving, atomicity);
* what a task reads between two unlocked writes of merge or split (ordering);
* counters whose pool changes under an outstanding reference (stale state);
* the order of overlapping block moves (ordering);
* a plan that fails after arming (partial failure);
* `prev_size` words kept up to date by six writers, slack that must be poisoned
  (long legal call sequences);
* boundary arithmetic of split, targets, budgets, 32-bit rounding (numeric edge);
* scratch arrays with a claimed bound (resource bound);
* the destroy callback, which re-enters the allocator (protocol sequence);
* construction in three steps of the owner with other tasks' pauses in between
  (interleaving, partial failure);
* advice that is read in two looks at volatile counters, and suppressed by a
  cache that outlives its pool (stale state);
* two bitmap levels and two links per block that describe one set
  (long legal call sequences).

`PROJECT.json` lists each hazard at its line with the properties that cover it, or with the
reason why none does: mostly that the code does not keep what a property would say, and a
configuration beside the runs shows it (section 5).

## 2. Modules

| Module | Models | State |
|---|---|---|
| `PondMaintenance` | the protocol, one lock section or one unlocked write per action; windows, descriptors, moves | `pool`, `obj`, `held` (a task's outstanding borrow), `op` (where the owner is inside a call) |
| `StableAccess` | the promise to a borrower: an object in use does not move, change pool or vanish | `gate`, `where`, `users` |
| `PondHeap` | headers, alloc, free, planners, audits, one action per owner call | `pool` (with `bins`), `obj`, `mem` (header words) |
| `PondSlots` | the descriptor table: slot lists, generations, destroy callbacks that re-enter, `init` and `deinit` | `up`, `pool`, `desc`, `freeHead`, `count`, `running` (the frees inside their callbacks), `refs` (what clients hold) |
| `PondBins` | one pool's TLSF index word by word: bitmaps, heads, links, the bounded search, the audits | `bins` (`head`, `sl`, `fl`, `next`, `prev`), `own` (header words), `todo` (holes `finalize_layout` has yet to insert) |
| `BlockPool` | the promise of one pool's allocator: intervals in use, intervals listed, nothing of words, bitmaps and lists | `used`, `listed`, `pending` |
| `PondAdvice` (EXTENDS `PondHeap`) | `analyze_compaction`, `poll_compaction_advice`, the thresholds, beside every operation of the heap and the borrows and pauses of other contexts | the heap's, `paused`, `held`, `epoch`, `thresholds`, `cache`, `told` (what the caller was last told), `call` |
| `PondObjects` | the typed layer of `pondmerge.hpp` over the core as it sees it | `pool`, `count`, `obj`, `ptr` (the program's pointers), `access` (its live `pm_access`), `make` (where a make is) |
| `PondMove`, `PondSort`, `PondRoutines` | `move_block` byte by byte; the address sorts; the two in one behaviour | memory and the running copy; the array and the running sift |
| `MCPond…` | instances for TLC (`PondSlots`, `PondBins` run as they are); `MCPondCrowded` is one scripted sequence of calls of `PondHeap` | – |
| `PondFolds` | sums over finite sets and folds over sequences, for the proofs | – |
| `PondBorrowProofs`, `PondSlotProofs`, `PondRoutineProofs`, `PondObjectProofs`, `PondBinProofs`, `PondHeapProofs`, `PondPlanProofs` (EXTENDS `PondHeapProofs`, `PondAdvice`) | theorems | – |

`PondMaintenance` and `PondHeap` cut the same code along two lines. The first
has every interleaving and no header; the second has every header and runs each
owner call in one step. What joins them is the packing rule: `Packs` in the
first is what `CompactStep` and `SplitStep` of the second compute one block at a
time. Pool states and borrows live in the first only; a pool of the second is
`Running` or absent.

### Correspondence in PondMaintenance

* `CheckRef` keeps the order of `check_ref`'s early returns, because that order is
  what a task observes in the middle of a merge. Offsets and alignments of the
  access are left out.
* `BorrowBegin`, `BorrowEnd`, `Pause`, `Resume`: one lock section each. An end token
  that no longer matches is dropped, as in the code.
* `FreeCheck`, `FreeDestroying`, `FreeCommit`: the unlocked reads at the head of
  `free`, the callback's state, the mutation. `FreeRace` says whether a task may
  borrow the object between them; the ledger (`docs/AUDIT_LEDGER.md`) makes that
  the caller's duty, so it is off except in `free_race`.
* `CompactArm … CompactCommit`, `MergeArm … MergeCommit`, `SplitArm … SplitCommit`
  and the two `…Restore` paths: the code between two observable writes is one
  action. A compaction that a target or budget cuts short moves only the objects
  below some cut (`CompactPlan`). Merge cannot fail after arming
  (`PackingNeverRefused` of the heap model shows it), so it has no restore action.
* A block is an interval of units. Which free interval `alloc` takes is left open.

### Correspondence in PondHeap

A unit is `PM_ALIGNMENT` = 8 bytes. A header is one unit with the words `own`
and `prev`; every other word of the zone is `Stale`, a value no size check
accepts, so that code which reads user bytes as a header is caught. `bins` is
the set of linked free blocks: `BinsFind` may return any block of the lowest
size class that holds a fitting one, since list order is left open.
`FinalMem` and `FinalPool` are `finalize_layout`. The planning loops are folds over
the blocks in address order (`CompactStep`, `SplitStep`). `free_bytes` is not kept:
every writer sets it to capacity minus `used_bytes`. Segments have at least
two units; `init` demands 128.

### Correspondence in PondSlots

* Everything here belongs to the owner, so an action is a whole call. The exception
  is a `free` with a destroy callback: `FreeCallback` runs up to the call of
  `destroy_fn`, `CallbackReturns` does the rest, and every other action may come
  in between. `running` is the stack of such frees, with the `Pool&` and the
  descriptor each keeps in C++ locals.
* The second `verify_neighbours` of `free` reads headers; that it succeeds is
  `FreeFindsNeighbours` of `PondHeap`, so it is no branch here.
* `Collect` is the walk of `precheck_pool`. Where it finds no list, `merge` and `split`
  answer `CorruptMetadata` and restore the pools, which changes nothing here.
* `merge` and `split` relink in address order. Addresses are not modelled, so the order
  is any order, any two pools may be neighbours, and any objects may lie above the
  boundary. `alloc` may run out of blocks at any time (`AllocFails`).
* A reference carries its generation and, as a history variable, its age: the
  allocations of the slot since its own. At age `GenMax` the generations
  coincide again and the reference is dropped; `deinit` drops all, since
  `init` restarts the generations (asserted by `src/tests/suite.cpp:1646`).
* Left out: `compact` (it touches no list), pool states and pool hints (a paused
  pool refuses `alloc` and `free`, which only removes behaviours), the pinned
  flag that `set_destroy_fn` demands, borrow counters.

### Correspondence in PondBins

* One pool; what joins it to `PondHeap` is `IndexExact`: the index holds exactly the
  free blocks, so `bins` may be a set there. `bins_insert` and `bins_remove`
  write the words the code writes, in LIFO order, and `free` unlinks a merged
  neighbour from wherever it stands in its list. A compaction may leave any
  holes (`Holes`): which ones is the planners' affair.
* `bins_find` is stated without its loop. `Hops` are the places the loop may read, a
  visited bin and a place in its list; `NoLater` is their order, lowest bit first and along
  the list; `Stops` are those at which the loop would return, and it returns at `FirstOf`
  them.
* `SlCount` is 2 for the code's 4, and first levels start at the minimum block of two
  units. A block handed to the user has its links overwritten (`Scribbled`), so that an
  index that still led there would be caught.
* `validates` is `audit_pool_bins` with the byte count of `validate`. What the audits
  *detect* is asked of every index that differs from a reachable one in a single
  head, link or bitmap bit (`Damaged`).
* `BlockPool` is the index without a data structure: `Take` cuts a request from a fitting
  block of the lowest class that has one, `Give` joins a block with the free blocks it
  touches, `Repack` moves blocks down in order and leaves the gaps to be listed.
  `PondBins` maps to it by reading: `InUse` is the headers, `Indexed` what the lists
  lead to, `Unlisted` the holes in `todo`. A free block that no list leads to, or one
  in the list of another class, is thus visible as a block lost or one taken out
  of turn. A refused `alloc` is a stutter there; that it is refused only when
  nothing fits is `FindKeepsContract`.

### Correspondence in PondAdvice

* The owner asks, so the heap stands still during a query; other contexts borrow,
  end borrows, pause and resume. `Analyze` takes the copy of the counters,
  `Answer` reads `borrow_count` and `state` again and compares and stores the key.
* `analyze_compaction` called alone stores its key as a poll does, so `Answer`
  stands for both; what differs is `*changed`, which only a poll reports.
* `cache` survives `destroy_pool` and `create_pool`, as in the code; `told` does not:
  a caller was told nothing about a pool that is new.
* Ratios are the code's, in permille of the capacity; sizes are in units.

### Correspondence in PondObjects

* `MakeAlloc`, `MakeHook`, `MakeResolve`, `MakeConstruct`, `MakeUndo` are the steps of
  `pm_make` and `pm_make_pinned` between which another task may pause or resume. The
  owner does nothing else during a make; `MakeUndo` is whichever `free(r)` the
  failing step calls, and its status is dropped, as in the code.
* `CheckRef` and `FreeStatus` are the core's answers without addresses; `split` may move
  any of the objects, since which ones is a matter of addresses.
* A program keeps one root pointer to each object it owns (`Reset` drops others
  only): forgetting the last one is a leak the library cannot see.

### Correspondence in PondMove and PondSort

* `memcpy` copies bytes in any order, one action per byte, so that overlap would
  show; `memmove` is atomic (both belong to the C library). The word loops take
  one word per action.
* `sort_u32_asc` and `sort_slots_by_address` have the same loops, modelled once: keys are
  the packed keys, or address and slot as one number where the code compares
  both. `OffSpan` and `SlotSpan` stand for the 24 and 8 bits of a packed key.
* `validate`'s free offsets may repeat when the pool is damaged, so `sort_free_off`
  takes any sequence.

## 3. Runs

| Run | Instance | Shows |
|---|---|---|
| `protocol` | 2 pools over 2 segments of 2 units, 2 objects of 2 units, 2 tasks, generations 1..3 | maintenance and borrows exclude each other; counters exact; a borrow stays valid; the protocol refines `StableAccess`; armed calls publish, also when a split's plan fails; paused pools drain |
| `layout` | 3 segments of 2 units, 3 objects of 1 or 2 units, pinned or not, no tasks | blocks never overlap between moves; the table is consistent when settled; `Busy` at each step of compact and split; pinned blocks stay |
| `free_race` | `FreeRace` on | the accepted race leaks counts but never loses one |
| `heap` | 2 pools over 3 segments of 4 units, 3 objects, payloads 1..3, a target of 16 bytes, a budget of 3 units, a cap of one object | every layout is accepted by `validate`, can be freed from and packed; split refuses only the impossible; `target_met` is honest, budgets are kept, no plan loses the largest block |
| `slots` | 2 pools, 3 slots, `GenMax` 3 | the free list and the live lists partition the table, counters exact, the locals of `free` stay valid across its callback, no stale reference is accepted before the accepted wrap |
| `bins` | a zone of 14 units, blocks of any size | the index is exact after every operation, the search misses no fitting block, the audits accept every undamaged index, and `validate` finds any single damaged head, link or bit; words and lists refine `BlockPool` |
| `advice` | 2 pools over 2 segments of 3 units, 2 objects, 2 settings of the thresholds (both 0, and 100 permille with one unit), no request, one that can fit and one no pool can serve (malformed) | the move estimate is the planner's, verdicts are honest when acted on at once, suppression hides nothing |
| `objects` | 2 pools, 2 objects, 2 pointers, 2 accesses, a sub-object offset | counts are the live accesses, nothing unbuilt is reached, nothing built becomes undestroyable |
| `routines` | all pairs of ranges in 24 bytes; up to 5 slots with keys that fit and keys that do not; up to 4 free offsets | `move_block` is `memmove`; the sorts sort |
| `merge_reply`, `target_wrap`, `make_destructor` | smallest that show it | disagreements of section 5 |

### Bounds and why they are enough

* **Two tasks.** The lock serialises tasks; what differs is whether another borrow
  of the same or another object is outstanding, which two tasks show. The
  theorems hold for any number.
* **Two pools, three segments.** A merge and a split touch two pools; that a third is a
  bystander the theorems show. Three segments let a window grow at either end.
  The owner's calls of the heap model read and write one or two pools.
* **Two or three objects.** A crossing block, one below, one above; a pinned barrier
  with a movable block on either side.
* **`GenMax` 1 to 3** forces the wrap of the generation (65535 in the code).
  A wrap inside a *stored* reference (ABA) is the caller's risk by design;
  `PondSlots` shows how late it comes.
* **Three slots, two pools** (`slots`): an unlink in the middle of a list, with both
  neighbours, and callbacks nested three deep over both pools. `GenMax` 3 is odd
  like 65535, and its even neighbour 4 is what a missing skip of 0 gives.
* **`BorrowBound` 2** caps a pool's counter; with two tasks it is never reached,
  so it hides nothing. It stands for `uint32_t`.
* **4 units per segment** leaves room for an absorbed remainder, one unit of
  slack before a pinned block and a free block in one window; three segments reach
  two interior slacks, a split refused with `NoSpace` and one with
  `PinnedConflict`.
* **`WordSpan` 256** stands for 2^32; the zone is below it, as `init` ensures.
* **Partial requests** (`heap`): a target alone, a target with a budget, a budget alone,
  a cap alone. Each is asked of every reachable layout, and compacting with it
  leads to further ones.
* **Zone 14** (`bins`): classes of one size and of several, a class whose head is
  too small for the request, two first levels, and lists of three blocks.
* **`AgeBound` 1, `BorrowBound` 1, `EpochBound` 2** (`advice`): from its first query on
  the owner makes at most one call of the heap between two answers, out of any layout
  it reached before; a suppressed answer compares two consecutive ones, so one
  change at a time is what can be missed. A change that restores every field is
  seen in `epoch`, which two steps show.
* **`GenBound` 4** (`objects`): a slot is reused once while old pointers and
  accesses remain. Wrapping is the affair of `PondSlots`.
* **24 bytes** (`routines`): two aligned ranges of two words that overlap in one, in
  either direction, and every unaligned pair. Five slots give a heap with a last
  left child without a sibling and three levels; the two zone sizes lie on both sides
  of `OffSpan`. The proof removes the bound on the copy.
* Descriptor slots and tasks are symmetric. `protocol` (which checks liveness) and
  `slots` use no symmetry; in `slots` the order of the free list matters.

### Fairness

`WF(OwnerProceeds)`: between arming and publishing the owner runs straight-line
code with bounded loops, no wait and no lock but the short sections. It does not
force the owner to *begin* a call. `WF(BorrowEnd(t))`: a borrow is a `pm_access`
scope, whose destructor ends it; a raw `borrow_begin` client owes the same.
Nothing is assumed of `pause`, `resume` or `borrow_begin`.

Deadlock is checked in every run that passes.

## 4. Proofs

### The protocol

For any finite sets of pools, objects and tasks, any sizes and any generation bound:

* `TypeInvariant`: `Spec => []TypeOK`.
* `GateInvariant` and `RaceInvariant`, and from them `RaceLeaksOnly` (`RaceOnlyLeaks`):
  for both values of `FreeRace`, so also under the race of `free` and
  `borrow_begin` that the ledger accepts.
* `BorrowInvariant` and from it `BorrowGateSafe` (`MaintenanceExcludesBorrows`),
  `BorrowCountsExact` (`BorrowsConserved`) and `BorrowPointerStable`
  (`BorrowedStaysPut`), under `FreeRace = FALSE`.
* `ProtocolRefines`: `Spec => ImplementsStableAccess`, also under
  `FreeRace = FALSE`: initial states map to initial states, and each action is a
  step of `StableAccess` or a stutter.

The argument has three layers, each inductive with those before it:

* The gate, `TypeOK` with `QuietUnlessOpen` (a pool that is neither `Running` nor
  `Paused` has borrow count 0, the reason the unlocked moves are safe) and `OpOwns`
  (the pools an operation has armed stay in its maintenance state, and the objects it
  still moves or adopts belong to them). `OpOwns` links `op`, which is only a program
  counter, to the pool states that keep borrowers out. One lemma, `StepCounts`,
  says what any step may do to the counters; no layer above looks at single
  actions for that again.
* The race, `Covers`: a pool's counter is at least the sum of its objects'. A
  borrow raises both sides, `free` lowers the sum only, and merge and split change
  the sum of pools whose counter, hence whose sum, is 0. Sums are cardinalities of
  sets of pairs in `PondFolds`, which also shows that the fold the property is
  written with is such a sum: the fold is a function chosen to solve an equation,
  and it is compared on a smallest set where it could differ.
* The tokens, without the race: `OneBorrow`, `TokensLive`, `BorrowsConserved` (a
  token names a live object at its address, and the counters count the tokens) and
  `VictimsUnused` (the object `free` has accepted is not borrowed). Without the tokens'
  liveness, a free could take an object whose counter was lost.

The only hard steps are those that change an object's pool (`MergeAdopt`,
`SplitAdopt`), where a pool's sum and its count of holders are over another set of
objects: both pools are quiet there, so all of these are zero.

### The layout

For any geometry of the zone, any finite sets of pools and objects and whatever the
tasks do, the free race included, `PondBorrowProofs` also shows `LayoutInvariant`
(`Spec => []Layout`) and from it `BlocksDisjoint` (`LiveBlocksDisjoint`),
`TableConsistent` (`PoolTableConsistent`), `AnswersBusy` (`MaintenanceAnswersBusy`)
and `PinnedStay` (`PinnedNeverMoves`). The windows of a merge or split are
rewritten one field at a time, so the invariant gives the two pools of such a call
one *span* (`SpanFirst`, `SpanCount`) that no step changes: `First` and `Past` are the
span for a pool of the pair and the pool's own window otherwise. `Layout` is the
conjunction of

* `Windows`, `Inside`, `LiveBlocksDisjoint`, `Blocks`: windows and spans are apart, and
  blocks lie in theirs and apart. A destination inside the span therefore meets no
  block of a bystander (`Elsewhere`);
* `OpShape` and `Sides`: what is armed, and whose the objects are. After the moves of a
  split every block is on its side of the boundary; at the commit of a merge the
  source has none;
* `Slides`, for compact and merge: a block goes down or stays, and what lies below it
  lies, or will lie, below its destination. The lowest block that still moves has
  everything below it in place (`SlideKeeps`);
* `Splits`: the plan keeps the order of the blocks, and those that go below the boundary
  are below it and slide down. `SplitMoveClear` has one case per phase of
  the moves: a rightward move past blocks that have gone, a downward one onto none
  that has not;
* `Counts`: `live_objects` is exact for a pool outside the pair, and the source's count
  is that of both pools during a split.

A packing is greedy, so that it moves nothing up is a fact about all blocks below:
`PacksDown` takes the lowest block that goes up, whose predecessor in the packing
went up too (`LeastNumber`, the well-foundedness of `<`, in place of induction).

### The heap

For any zone, any finite non-empty set of pool numbers, any finite set of descriptors, any
payloads and any requests, `PondHeapProofs` shows `HeapInvariant` (`Spec => []HeapInv`) and
from it `HeapTypes` (`TypeOK`), `NeighboursFound` (`FreeFindsNeighbours`), `PackingFits`
(`PackingNeverRefused`), `AuditsOpen`: `precheck_pool` and `audit_pool_bins` accept every
pool, so no maintenance call is refused as damage, `ValidateHolds`: `validate` accepts every
pool while `FreeRunsCapped` holds, and `FreeRunsFew`. `PM_MAX_POOLS` sizes an array, which
is why there is a pool; `WordSpan` exceeds the zone, as `init` ensures.

`HeapInv` is `TypeOK`, windows that are apart, objects in existing pools, and for every
pool `PoolInv`: `live` and `used` are the number and the sum of its blocks, what the
bins and the descriptors say agrees with the headers, with `Chained`, the boundary tags:

* every block lies in the window and ends before the next one starts;
* behind a block lies a block whose `prev` names it, or the poisoned head of slack, or the
  window's end;
* a `prev` that is not 0 leads to a block that ends here,

and with `Spaced`, what lies between blocks:

* from the window's start and from each block's end it is at most one unit to the next
  block or the window's end;
* no free block ends where another starts;
* `fragment` is the number of units no block covers.

`FreeFindsNeighbours` says the second only. It is not inductive: `free` writes at the head its
`prev` leads to, so without the third part it could overwrite a live header, and without
the distances it could merge across a block. `alloc` and `free` replace one block of
the chain by two, or up to three by one (`AllocKeeps`, `FreeKeeps`); the other four operations
rebuild it from a placement, and one lemma (`Settles`) shows that `finalize_layout` establishes
`PoolInv` for any placement of blocks apart. A pool the call does not name keeps its
headers, since windows are apart (`FrameKept`).

`ValidateHolds` is that chain read from the bottom. `validate` walks the window and counts the
bytes of blocks and gaps; at each block `SweepAt` shows what the walk sees there, at each gap
`SweepGap`, and the count comes out because blocks and bare units partition the window
(`CoverageHolds`, a sum of lengths by `TotalCovers` of `PondFolds`). Its one hypothesis is
`FreeRunsCapped`: the free blocks fit the scratch array, which the code does not ensure
(`crowded` in section 5). `FreeRunsFew` says what does hold: each free block but one is
followed by a block in use or by a unit of slack of its own, so there are at most
`live_objects` plus slack plus one.

What the planners compute is a fold over the blocks in address order, and a fold is a
recursive function on all sequences that `CHOOSE` picks. `PondFolds` shows that it is the
last of a run of values in which each comes from the one before; `LeastNumber` takes the place
of induction. So an invariant of a planning loop is an invariant of that run: `Packed` says
that what the cursor has passed is packed in order below it and that the rest
still lies above; `Halved` is the same with two cursors. That a pinned block is never met by
the cursor follows from the second half, which is `PackingFits`.

### The plans

`PondPlanProofs` states three promises of the planners to their callers, in every state of
`HeapInv`:

* `CostsBounded` (`CompactionNeverCosts`). That moves and bytes stay in the limits is
  `Allowed`, kept by each step. That no compaction loses the largest block is about `Room`: units
  in a row that no block touches. When a block slides down, the units in front of it
  reappear behind it, so room for `L` units stays unless it lay across the cursor and the
  block, and then the slide leaves it between the block and the next (`SlideKeepsRoom`,
  with `NextUp` and `AtEdge` for the order of the blocks). Room is a hole of the final
  layout (`RoomIsHole`), and a hole is a free block.
* `TargetsHonest` (`TargetMetHonest`), under the hypothesis that no target lies within
  15 bytes of 2^32. Without it the property is false: `target_wrap` shows how. `met` is set
  when `Reachable` is large enough (`ReachIsRoom`), and the plan stops there.
* `SplitRefusals` (`SplitRefusesOnlyImpossible`). Take any placement that keeps order and pinned
  blocks. The planner's cursors never pass it (`Keeps`), so a block that does not fit the planner's
  half does not fit that placement either. For `NoSpace`, `Counted` says that the upper cursor is
  the boundary plus the sum of the upper blocks passed, or is not past where the others lie.

### The advice

`PondPlanProofs` goes on to the advice: every step of `AdviceNext` is a step of the heap or
leaves it alone, so `HeapInv` holds beside it.

* `EstimatesExact` (`EstimateExact`). The simulation and the plan are two folds over the same
  blocks; `FullPass` ties them step by step: the same cursor, moves and bytes, as a full plan
  never stops before the end (`PackingFits`).
* `VerdictsHonest` (`VerdictHonest`). `FreeUnitsAre` reads the counters off the window: the
  units free are those of the bins and the slack, so `CountersOk` never fails. What compaction
  leaves is at most that, and with nothing pinned all of it in one piece (`PackedLargest`).
  Any thresholds are allowed; with both at 0 the verdict without a request promises
  nothing, and the property says so (section 5, `advice_zero`).
* `AdviceTypes` (`AdviceTypeOK`) and `SuppressionLosesNothing` (`SuppressionSound`), from
  `AdviceInv`. Its parts `Recalls` and `CallAdds` say that the cache entry agrees with what the
  caller was told in every field the key has, and that capacity is used plus free in every
  advice: that is the one field of `Visible` that is not in the key.

The model value `NoAdvice` is assumed to be none of the records it stands in for
(`NoAdviceAssumption`).

### The descriptor table

For any number of pools and slots and any odd `GenMax` (65535 is odd; with an even
one `StaleRefused` is false), `PondSlotProofs` shows `Spec => []IInv` and from it
`SlotTypes`, `FreeSlotsExact`, `LiveSlotsExact`, `CallbacksSafe` and
`StaleReferencesRefused`. `IInv` is the conjunction of `TypeOK`, `FreeListExact`,
`LiveListsExact`, `CallbackSafe` and two parts that no run names:

* `DownIsEmpty`: while the library is down no object and no reference exists, so
  `Start` may reset the table;
* `Generations`: the distance from a reference's generation to its slot's, modulo
  `GenMax`, is twice the reference's age, plus one when the slot is free. Ages stay
  below `GenMax`, so twice an age is a multiple of an odd `GenMax` only for
  age 0: that is where the generations of a live slot and a reference agree.

The lists are existential: *some* sequence of distinct slots threads the links. Each
step exhibits the next sequence (`ConsList` for a push, `CutList` for an unlink,
the planned order for merge and split). `CallbackSafe` needs `LiveListsExact`: an audit
that succeeds has collected as many `Live` slots as the pool has members, so no
member is being destroyed (`CollectIsComplete`). That is why no callback can merge or
split its own pool away.

### The copy and the sorts

`PondRoutineProofs` takes the two routines apart (`Separate`: a step of one is a stutter
of the other) and shows `RoutineTypes`, `MoveIsMemmove` (`MoveExact`) and `SortIsExact`
(`SortExact`).

The copy: any memory, any values and any two ranges inside it. The invariant `MoveInv` says
what each primitive has done so far. `Done` names the offsets already copied: the
complement of `left` for `memcpy`, the words below `i` going up, the words from `i`
on going down; `Copied` says memory is `was` with exactly those moved.
`Chosen` records why that is enough: `memcpy` runs on disjoint ranges, so no source
byte changes; the upward loop runs with the destination below the source, so
what it overwrites has been read; the downward one the other way round. Both
loops need the size to be a multiple of the word, which the alignment test gives.

The sorts: any number of keys, any keys. `SortInv` says

* `Rearranged`: the array is the given keys in some order, by a bijection of the
  indices that each swap composes with a transposition;
* `Ordered` and `Fillable`: from `next` (first loop) or 0 (second loop) on, no parent's
  key is below its child's, but for the one at the root of a running sift, whose
  children may take its place. A sift moves this hole to the larger child
  (`SiftSteps`), and closes it when it stops (`SiftStops`);
* `Drained`: behind `next` every key of the second loop is in its final place. The next
  one to join is the top of the heap, its greatest key (`TopIsGreatest`);
* `Keyed`: a key is `address * span + slot` with the slot below the span, so it gives back
  the slot (`KeySlot`) and keys compare as addresses do (`KeyOrder`). `KeysKeyed` is
  where `Packs` is needed: an offset below `OffSpan` loses nothing to the shift.

### The bins

For any zone, any number of second levels and any `FlMax` whose power exceeds the zone,
`PondBinProofs` shows `BinsInductive` (`Spec => []BinsInvariant`) and from it `BinsTypeOK`
(`TypeOK`), `IndexIsExact` (`IndexExact`), `AuditsAcceptBins` (`AuditsAccept`),
`DamageIsFound` (`DamageFound`), `FindKeeps` (`FindKeepsContract`) and `BinsRefine`
(`ImplementsBlockPool`). `BinsInvariant` is the conjunction of

* `Tiling`: each block ends where the next one starts or at the zone's end, and no header
  lies inside a block. Without it a block that `alloc` leaves, or `free` merges, could start
  or end in the middle of another;
* `todo` holds free blocks only;
* `Index`, for the classes of the free blocks outside `todo` (`Binned`): the heads and links
  thread, for each class, some sequence of exactly its blocks (`Listed`); the bitmaps say which
  classes have one (`Mapped`); the link words of everything else are `Junk` (`Stale`).

The sequences are existential, as in the descriptor table: a `bins_insert` puts a block in
front (`ListCons`), a `bins_remove` takes one out at its place (`ListCut`), and the lists of the
other classes are not touched, because no block has two classes. The headers follow by
`TilingSplit` and `TilingJoin`. A compaction that is cut after any block leaves a tiling
because what lies below a block that stays is made of whole blocks: a gap is a sum of
block sizes (`PackedSpaced`, `TotalGap`), so it is empty or holds a block of two units
(`LayoutTiles`).

What follows from it:

* the walks of the audits and of the search read exactly the list (`ListChain`), which is no
  longer than the zone has blocks, so no cap is met;
* `DamageIsFound`. What an accepted index says is `ValidateMeans`: its chains hold free
  blocks of their class, linked both ways, and, since the bytes agree and no block is
  empty, every free block (`TotalProper`). A damaged head or link therefore shows at the
  other end of that link, and a bit at its list;
* `FindKeeps`. A larger block is in no lower class (`ClassGrows`), so the first hop at which the
  loop stops is in the class of the smallest fit (`FirstHop`). Each hop up to it is at a free
  block of its own, and there are fewer than `MaxSteps` of these (`HopsFew`);
* `BinsRefine`. In every reachable state the lists lead to exactly the free blocks outside
  `todo` (`ChainedFree`), so a step is followed on the headers alone: `AllocTakes`,
  `FreeGives` (what `free` merges is what touches the block, `FreeMeans`), `InsertHoleLists`
  and `CompactRepacks`. The last counts: packing maps the blocks below each block one to
  one (`SameCount`), so the order and the number of blocks stand, and what a
  finished layout leaves free is what lies between its blocks (`GapsAre`).

### The typed layer

For any finite sets of pools, slots and accesses, any pointers, any object size and any
bound on generations, `PondObjectProofs` shows `ObjectInvariant` (`Spec => []IInv`) and
from it `ObjectTypes`, `AccountingExact` (`BorrowsAreAccesses`), `OnlyBuiltReached`
(`NothingUnbuiltReached`) and `NothingLost` (`AlwaysReclaimable`). `IInv` is the
conjunction of `TypeOK` with

* `Descriptors`: what is in use has a generation that `free` can still raise, and an existing pool;
* `NoneFromTheFuture`: no pointer carries a generation its slot has not had, so nobody
  names what is allocated next. Without it a stale pointer could come to name a fresh,
  unbuilt object;
* `AccessHolds`: what an access names is live, built and in the pool its pointer
  was bound to;
* `MakeHolds`: a make's storage stays its own, unbuilt, until it constructs or rolls
  back, whatever the other contexts pause meanwhile;
* `PointersNameBuilt` and `RootKept`: a valid pointer names a built object, and every
  built object has a pointer at offset 0;
* `Counted`: the counters are the accesses. A pool's count is over the accesses by
  their objects' pools (`PoolAccesses`), which `UnionIs` turns into the property's union.

The steps that could upset the counts change an object's pool or end its generation:
`merge` and `split` run at count 0, where `QuietPool` shows no access to the pool, and
`free` at `borrows = 0`, where `Unaccessed` shows none to the object.

### What is not proved

Every invariant, action property and refinement of a passing run is a theorem. Only model-checked: liveness
(`MaintenanceEnds`, `PausedPoolDrains`; fairness and `ENABLED` are beyond the prover). The
three properties that a run finds violated are not theorems, of course (section 5);
`TargetMetHonest` is one under a hypothesis that excludes the violation.

## 5. Where code and documentation disagree

The first three are runs of the project that TLC finds violated, listed in
`PROJECT.json` with the lines. The next seven have a configuration beside the
modules that shows them in the same way (`tlc -config <name>.cfg <module>`); the
last four follow from what the models say.

* `merge_reply`: merge rewrites `pool_id` before the target's window, and
  `check_ref` tests the window before the state: a valid reference is answered
  `CorruptMetadata` for a moment where the guide promises `Busy`.
* `target_wrap`: `requested_size` near 2^32 wraps in the planner and
  `target_met` is reported for a request no pool can hold.
* `make_destructor`: `pm_make_pinned` registers the destroy function before it
  resolves and constructs. When another task pauses the pool just before the
  resolve and resumes it just after, the rollback's `free` runs the destructor of an
  object that was never constructed (`pondmerge.hpp:676-683`), against the
  ledger's "exactly once" (`docs/AUDIT_LEDGER.md:23`).
* `needless_moves` (`MCPondHeap`): a hole shut in below a pinned block already
  satisfies the target; the plan moves blocks anyway (`core.cpp:1073`,
  `pondmerge.hpp:286`).
* `budget_stop` (`MCPondHeap`): a packed block larger than the budget ends the plan
  although it would not move (`core.cpp:1100`, `pondmerge.hpp:362`).
* `crowded` (`MCPondCrowded`): slack separates free blocks too, so the bound
  `free_blocks <= live_objects + 1` that the comment on `kFreeOffCap` derives
  (`core.cpp:966-969`) does not hold. Nineteen legal calls leave five free blocks in a
  pool with three descriptors, and `validate` reports `CorruptMetadata` for an
  undamaged pool (`core.cpp:2747`). `ValidateAccepts` therefore holds only while the free
  blocks fit the array (`FreeRunsCapped`), which the bounds of the `heap` run imply; under
  that condition it is proved for every size (`ValidateHolds`).
* `callback_audit` (`PondSlots`): an object whose destroy callback runs stays on its
  pool's list, so `compact`, `merge`, `split` and `validate` inside the callback report
  `CorruptMetadata` for an undamaged pool (`core.cpp:435`). That refusal is also what
  keeps `free` safe (`CallbackSafe`); the disagreement is about the name of the answer.
* `advice_unlikely` (`MCPondAdvice`): `COMPACT_UNLIKELY_TO_HELP` is documented as "even
  a successful compaction could not satisfy" (`pondmerge.hpp:339-341`). The estimate
  subtracts all fragment bytes (`core.cpp:2016`), but slack in front of a pinned
  block is won back when the block behind it has gone, and the compaction then
  satisfies the request.
* `advice_changed` (`MCPondAdvice`, `ChangedAsDocumented`): the comment on
  `poll_compaction_advice` says that `*changed` is false when the verdict,
  `structure_epoch`, `borrow_count`, `largest_free_block` and `fragment_bytes` are all
  unchanged (`pondmerge.hpp:445-448`; `docs/COMPACTION_POLICY.md:91-93` adds the
  request). The code compares the pool's state, the used and free bytes, the live
  count, pinned objects and the thresholds as well (`core.cpp:2095-2116`), so new
  thresholds or a pause are reported as a change. Lines 98-101 of the same document give the long
  key, and the tests expect it (`tests/suite.cpp`, R31, R33): `SuppressionSound` is about that
  one, and would not hold with the short one.
* `advice_zero` (`MCPondAdvice`, `RecommendedPays`): `set_compaction_thresholds` takes any
  value (`core.cpp:1853`), and with both at 0 every pool passes the test for fragmentation
  (`core.cpp:2040-2044`): a pool with one free block and nothing else is answered
  `COMPACT_RECOMMENDED`, which `pondmerge.hpp:335-336` reserves for pools that would benefit. With
  either above 0 the verdict pays (`VerdictHonest`).
* The comment on `compact` speaks of "packing-impossible cases that make full compact
  refuse" (`pondmerge.hpp:294-295`), and `docs/COMPACTION_POLICY.md:137-140` and `175-176`
  of `PinnedConflict` or `NoSpace` when pinned objects are dense. There are none:
  `PackingNeverRefused`, checked by `heap` and proved for every size (`PackingFits`), says
  that a pool the audit accepts can always be packed around its pinned blocks, since the blocks
  between two of them already fit there. The refusals in the loops of `compact` and `merge` are
  dead code, as merge's own comment argues; only `split` answers `PinnedConflict`.
* `MakeRollsBack` of `PondObjects`: when the pool is still paused, the rollback's `free` is
  itself refused and its status dropped, so a failed make leaves an allocation
  nobody can name (`docs/PondMerge_v1_repair_task.md:149` asks for a rollback).
* The advice cache survives `destroy_pool`, so the first poll of a new pool with the
  same figures can be suppressed (`core.cpp:2097`; `docs/COMPACTION_POLICY.md`,
  section 5, says a first query always reports).
* `borrow_count` is read twice by an analysis: an answer may be `BLOCKED` with a
  `borrow_count` of 0, or the reverse (`core.cpp:1951`, `2023`).

## 6. Not modelled

* Damage from outside other than one word of the bins' index: of descriptors, headers and
  live-slot lists the audits are modelled for what they accept.
* `init`'s checks of its configuration, beyond the assumptions on the constants.
* The tick source, `global_stats`, high-water marks, wrap counters, logging: they
  decide nothing.
* Alignments: `PM_MAX_ALIGNMENT` is 8, the unit. `PondMove` has them, as the copy
  tests them.
* `std::optional`-like plumbing of `Result`, comparison operators, `const` views: no state.
* Tests, fuzzers, benchmarks, examples and build files: clients of the library.

## 7. Plan

Done: `PondMaintenance` with `StableAccess`, `PondHeap`, `PondSlots`, `PondBins` with
`BlockPool`, `PondAdvice`, `PondObjects`, `PondMove`, `PondSort`. What would add most next is
a model of damage to descriptors and live-slot lists, to show what `precheck_pool` finds.
