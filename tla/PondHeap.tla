------------------------------- MODULE PondHeap -------------------------------
(***************************************************************************)
(* The block layer of PondMerge (src/src/core.cpp): the boundary-tag heap  *)
(* inside every pool, the planners of compact, merge and split, and the    *)
(* audits that gate them.                                                  *)
(*                                                                         *)
(* One owner context calls these operations, so each is one action; what   *)
(* concurrent borrowers may see of the three maintenance operations is the *)
(* business of PondMaintenance, which also holds the pool states: a pool   *)
(* here is Running, or Empty when it has no segments.                      *)
(*                                                                         *)
(* A unit is PM_ALIGNMENT = 8 bytes.  A block is a one-unit header, the    *)
(* words `own` (block size and BLOCK_FREE_BIT) and `prev` (prev_size), and *)
(* its payload; PM_MIN_BLOCK is two units.  `own` holds the size of a used *)
(* block, minus the size of a free one, and 0 at the head of poisoned      *)
(* slack.  Every other word of the zone is Stale: the user may have        *)
(* written anything there, so an operation that reads one is on its own.   *)
(***************************************************************************)
EXTENDS Integers, FiniteSets, Sequences, FiniteSetsExt, SequencesExt

CONSTANTS
  Pools,      (* pool ids                                                   *)
  Objects,    (* descriptor slots, PM_MAX_OBJECTS of them                   *)
  Segments,   (* segments of the Auto Zone                                  *)
  SegUnits,   (* units per segment                                          *)
  Payloads,   (* payload sizes alloc is asked for, in units                 *)
  Partial,    (* partial compaction requests: target is requested_size in   *)
              (* bytes, budget is max_move_bytes in units, cap is           *)
              (* max_move_objects, and 0 is no target or no limit           *)
  WordSpan    (* 2^w for the w-bit arithmetic of the planner (uint32_t)     *)

ASSUME HeapAssumption ==
  /\ IsFiniteSet(Pools) /\ Pools # {} /\ Pools \subseteq Nat /\ IsFiniteSet(Objects)
  /\ Segments \in Nat \ {0} /\ SegUnits \in Nat /\ SegUnits >= 2
  /\ Payloads \subseteq Nat \ {0}
  /\ Partial \subseteq [full : {FALSE}, target : 0 .. WordSpan - 1, budget : Nat, cap : Nat]
  /\ WordSpan \in Nat /\ WordSpan % 8 = 0 /\ WordSpan > 8 * Segments * SegUnits

MinBlock == 2
Zone     == Segments * SegUnits
Units    == 0 .. Zone - 1
Junk     == Zone + 1            \* larger than any block: no size check accepts it

VARIABLES
  pool,   (* pool table; bins is the set of free blocks linked in the bins  *)
  obj,    (* descriptors: size 0 is a free slot                             *)
  mem     (* the headers in the zone                                        *)

vars == <<pool, obj, mem>>

Header    == [own : -Zone .. Junk, prev : 0 .. Junk]
Stale     == [own |-> Junk, prev |-> Junk]
EmptyPool == [first |-> 0, count |-> 0, used |-> 0, fragment |-> 0, live |-> 0, bins |-> {}]
AnyPool   == CHOOSE p \in Pools : TRUE
FreeDesc  == [pool |-> AnyPool, start |-> 0, size |-> 0, pinned |-> FALSE]

TypeOK ==
  /\ pool \in [Pools -> [first : 0 .. Segments, count : 0 .. Segments, used : 0 .. Zone,
                         fragment : 0 .. Zone, live : 0 .. Cardinality(Objects),
                         bins : SUBSET Units]]
  /\ obj \in [Objects -> [pool : Pools, start : Units, size : 0 .. Zone, pinned : BOOLEAN]]
  /\ mem \in [Units -> Header]

-----------------------------------------------------------------------------
(* Geometry and header words *)

Lo(P) == P.first * SegUnits
Hi(P) == (P.first + P.count) * SegUnits
Exists(p) == pool[p].count > 0
Residents(p) == {o \in Objects : obj[o].size > 0 /\ obj[o].pool = p}

IsFree(u)  == mem[u].own < 0
SizeAt(u)  == IF IsFree(u) THEN -mem[u].own ELSE mem[u].own

(* A placement maps objects to block starts; Here(R) is where they are.    *)
Here(R)    == [o \in R |-> obj[o].start]
EndIn(f, o) == f[o] + obj[o].size
ByAddress(R) ==
  [i \in 1 .. Cardinality(R) |->
     CHOOSE o \in R : Cardinality({q \in R : obj[q].start < obj[o].start}) = i - 1]
UnitsOf(R) == MapThenSumSet(LAMBDA o : obj[o].size, R)

(* The maximal block-free intervals of the window [lo, hi) under f.        *)
Holes(f, lo, hi) ==
  LET starts == {f[o] : o \in DOMAIN f} \cup {hi}
      ends   == {EndIn(f, o) : o \in DOMAIN f} \cup {lo}
      Next(a) == Min({b \in starts : b >= a})
  IN {[from |-> a, len |-> Next(a) - a] : a \in {e \in ends : Next(e) > e}}

(* Mutant: a hole of exactly PM_MIN_BLOCK counts as slack. *)
FreeRunsStrict(f, lo, hi) == {h \in Holes(f, lo, hi) : h.len > MinBlock}

FreeRuns(f, lo, hi) == {h \in Holes(f, lo, hi) : h.len >= MinBlock}
Slack(f, lo, hi)    == {h \in Holes(f, lo, hi) : h.len < MinBlock}
LargestOf(H)        == Max({h.len : h \in H} \cup {0})

-----------------------------------------------------------------------------
(* finalize_layout: headers, bins and byte statistics of a window, rebuilt *)
(* from the final placement.  Holes too small for a block become slack,    *)
(* whose head reads as a used block of size 0.                             *)

Tiles(f, lo, hi) ==
  {[from |-> f[o], len |-> obj[o].size, own |-> obj[o].size] : o \in DOMAIN f}
  \cup {[from |-> h.from, len |-> h.len, own |-> -h.len] : h \in FreeRuns(f, lo, hi)}
  \cup {[from |-> h.from, len |-> h.len, own |-> 0] : h \in Slack(f, lo, hi)}

(* prev_size of the tile that starts at u: 0 at the window's start and     *)
(* behind slack.                                                           *)
PrevWord(T, u) ==
  IF \E t \in T : t.from + t.len = u /\ t.own # 0
  THEN (CHOOSE t \in T : t.from + t.len = u /\ t.own # 0).len ELSE 0

(* Mutant: the head of slack is not poisoned. *)
FinalMemUnpoisoned(m, f, lo, hi) ==
  LET T == Tiles(f, lo, hi) IN
  [u \in Units |->
     IF u < lo \/ hi <= u THEN m[u]
     ELSE IF \A t \in T : t.from # u \/ t.own = 0 THEN Stale
     ELSE LET t == CHOOSE x \in T : x.from = u IN
          [own |-> t.own, prev |-> PrevWord(T, u)]]

FinalMem(m, f, lo, hi) ==
  LET T == Tiles(f, lo, hi) IN
  [u \in Units |->
     IF u < lo \/ hi <= u THEN m[u]
     ELSE IF \A t \in T : t.from # u THEN Stale
     ELSE LET t == CHOOSE x \in T : x.from = u IN
          [own |-> t.own, prev |-> IF t.own = 0 THEN Junk ELSE PrevWord(T, u)]]

(* Mutant: used_bytes is not rebuilt. *)
FinalPoolKeepsUsed(P, f) ==
  [P EXCEPT !.live = Cardinality(DOMAIN f),
            !.fragment = MapThenSumSet(LAMBDA h : h.len, Slack(f, Lo(P), Hi(P))),
            !.bins = {h.from : h \in FreeRuns(f, Lo(P), Hi(P))}]

FinalPool(P, f) ==
  [P EXCEPT !.used = UnitsOf(DOMAIN f), !.live = Cardinality(DOMAIN f),
            !.fragment = MapThenSumSet(LAMBDA h : h.len, Slack(f, Lo(P), Hi(P))),
            !.bins = {h.from : h \in FreeRuns(f, Lo(P), Hi(P))}]

Within(f, lo, hi) ==
  LET R == {o \in DOMAIN f : lo <= f[o] /\ EndIn(f, o) <= hi} IN [o \in R |-> f[o]]

-----------------------------------------------------------------------------
(* The audits *)

(* precheck_pool *)
Precheck(p) ==
  LET P == pool[p]  R == Residents(p) IN
  /\ \A o \in R :
       /\ obj[o].size >= MinBlock
       /\ Lo(P) <= obj[o].start /\ obj[o].start + obj[o].size <= Hi(P)
       /\ mem[obj[o].start].own = obj[o].size
       /\ \A q \in R : obj[q].start < obj[o].start => obj[q].start + obj[q].size <= obj[o].start
  /\ Cardinality(R) = P.live
  /\ UnitsOf(R) = P.used

PrevLinkOk(u, lo) ==
  LET n == mem[u].prev IN
  n = 0 \/ (n >= MinBlock /\ n <= u - lo /\ SizeAt(u - n) = n)

AuditBins(p) ==
  LET P == pool[p] IN
  \A b \in P.bins : /\ IsFree(b)
                    /\ SizeAt(b) >= MinBlock
                    /\ Lo(P) <= b /\ b + SizeAt(b) <= Hi(P)
                    /\ PrevLinkOk(b, Lo(P))

(* validate's sweep over the union of live and binned blocks.              *)
Coverage(p) ==
  LET P      == pool[p]
      blocks == {[from |-> obj[o].start, len |-> obj[o].size, free |-> FALSE] : o \in Residents(p)}
                \cup {[from |-> b, len |-> SizeAt(b), free |-> TRUE] : b \in P.bins}
      EndBefore(u) == Max({b.from + b.len : b \in {x \in blocks : x.from < u}} \cup {Lo(P)})
      Gap(b) == b.from - EndBefore(b.from)
      tail   == Hi(P) - EndBefore(Hi(P))
      binned == MapThenSumSet(LAMBDA b : SizeAt(b), P.bins)
  IN /\ Cardinality(P.bins) <= Cardinality(Objects) + 1
     /\ \A b \in blocks : 0 <= Gap(b) /\ Gap(b) < MinBlock
     /\ \A b, c \in blocks : b.free /\ c.free => b.from + b.len # c.from
     /\ 0 <= tail /\ tail < MinBlock
     /\ P.used + binned + MapThenSumSet(Gap, blocks) + tail = Hi(P) - Lo(P)
     /\ binned = (Hi(P) - Lo(P) - P.used) - P.fragment

Validates(p) ==
  /\ Precheck(p)
  /\ \A o \in Residents(p) : PrevLinkOk(obj[o].start, Lo(pool[p]))
  /\ AuditBins(p)
  /\ Coverage(p)

-----------------------------------------------------------------------------
(* Pools *)

SegmentUsed(s) ==
  \E p \in Pools : Exists(p) /\ s \in pool[p].first .. pool[p].first + pool[p].count - 1
FreeSegments(base, n) == \A s \in base .. base + n - 1 : ~SegmentUsed(s)
FirstEmpty(p) == ~Exists(p) /\ \A q \in Pools : q < p => Exists(q)
NoBlocks == [o \in {} |-> 0]

CreatePool(n) ==
  \E p \in Pools, base \in 0 .. Segments - n :
    /\ FirstEmpty(p)
    /\ FreeSegments(base, n)
    /\ \A lower \in 0 .. base - 1 : ~FreeSegments(lower, n)
    /\ LET P == [EmptyPool EXCEPT !.first = base, !.count = n] IN
       /\ pool' = [pool EXCEPT ![p] = FinalPool(P, NoBlocks)]
       /\ mem'  = FinalMem(mem, NoBlocks, Lo(P), Hi(P))
    /\ UNCHANGED obj

DestroyPool(p) ==
  /\ Exists(p)
  /\ pool[p].live = 0
  /\ pool' = [pool EXCEPT ![p] = EmptyPool]
  /\ mem'  = [u \in Units |-> IF u \in Lo(pool[p]) .. Hi(pool[p]) - 1 THEN Stale ELSE mem[u]]
  /\ UNCHANGED obj

-----------------------------------------------------------------------------
(* alloc and free *)

(* The TLSF class of a size (fl_index, sl_index with four second levels).  *)
SizeClass(n) ==
  LET fl == Max({k \in 0 .. n : 2^k <= n}) IN <<fl, ((n - 2^fl) * 4) \div 2^fl>>

(* What bins_find may return: some fitting block of the lowest class that  *)
(* holds one.  The order of a bin's list is left open.                     *)
BinsFind(p, need) ==
  LET fits == {b \in pool[p].bins : SizeAt(b) >= need} IN
  {b \in fits : SizeClass(SizeAt(b)) = SizeClass(Min({SizeAt(c) : c \in fits}))}

(* Mutant: the block behind keeps its old prev_size. *)
AllocMemOneSided(b, whole, size, hi) ==
  [u \in Units |->
     IF u = b THEN [own |-> size, prev |-> mem[b].prev]
     ELSE IF u = b + size /\ size < whole THEN [own |-> size - whole, prev |-> size]
     ELSE mem[u]]

(* Headers after `size` units of the free block at b are taken: its own,   *)
(* the remainder's if there is one, and prev_size of what follows both.    *)
AllocMem(b, whole, size, hi) ==
  [u \in Units |->
     IF u = b THEN [own |-> size, prev |-> mem[b].prev]
     ELSE IF u = b + size /\ size < whole THEN [own |-> size - whole, prev |-> size]
     ELSE IF u = b + whole /\ u < hi
          THEN [mem[u] EXCEPT !.prev = IF size < whole THEN whole - size ELSE size]
     ELSE mem[u]]

(* A remainder too small for a block is absorbed.                          *)
Alloc(p, o, payload, pinned) ==
  LET need == Max({payload + 1, MinBlock}) IN
  /\ Exists(p)
  /\ obj[o].size = 0
  /\ \E b \in BinsFind(p, need) :
       LET whole == SizeAt(b)
           size  == IF whole - need >= MinBlock THEN need ELSE whole
       IN /\ mem' = AllocMem(b, whole, size, Hi(pool[p]))
          /\ obj' = [obj EXCEPT ![o] = [pool |-> p, start |-> b, size |-> size,
                                        pinned |-> pinned]]
          /\ pool' = [pool EXCEPT ![p].used = @ + size, ![p].live = @ + 1,
                        ![p].bins = (@ \ {b}) \cup (IF size < whole THEN {b + size} ELSE {})]

(* verify_neighbours, the proof free() demands before it writes anything   *)
VerifyNeighbours(o) ==
  LET P    == pool[obj[o].pool]
      b    == obj[o].start
      back == mem[b].prev
      fwd  == b + obj[o].size
  IN /\ mem[b].own = obj[o].size
     /\ \/ back = 0
        \/ /\ back >= MinBlock /\ back <= b - Lo(P)
           /\ SizeAt(b - back) = back
           /\ IsFree(b - back) => b - back \in P.bins
     /\ fwd < Hi(P) /\ IsFree(fwd) => /\ SizeAt(fwd) >= MinBlock
                                     /\ SizeAt(fwd) <= Hi(P) - fwd
                                     /\ fwd \in P.bins

(* The free neighbours are found through the header words.                 *)
MergedHead(o) ==
  LET b == obj[o].start IN
  IF mem[b].prev # 0 /\ IsFree(b - mem[b].prev) THEN b - mem[b].prev ELSE b

(* Mutant: no forward merge. *)
MergedEndAlone(o) == obj[o].start + obj[o].size

MergedEnd(o) ==
  LET fwd == obj[o].start + obj[o].size IN
  IF fwd < Hi(pool[obj[o].pool]) /\ IsFree(fwd) THEN fwd + SizeAt(fwd) ELSE fwd

Free(o) ==
  /\ obj[o].size > 0
  /\ VerifyNeighbours(o)
  /\ LET p      == obj[o].pool
         head   == MergedHead(o)
         end    == MergedEnd(o)
         inside == head + 1 .. end - 1
     IN /\ mem' = [u \in Units |->
                     IF u = head THEN [own |-> head - end, prev |-> mem[head].prev]
                     ELSE IF u \in inside THEN Stale
                     ELSE IF u = end /\ end < Hi(pool[p]) THEN [mem[u] EXCEPT !.prev = end - head]
                     ELSE mem[u]]
        /\ pool' = [pool EXCEPT ![p].used = @ - obj[o].size, ![p].live = @ - 1,
                                ![p].bins = (@ \ inside) \cup {head}]
        /\ obj'  = [obj EXCEPT ![o] = FreeDesc]

-----------------------------------------------------------------------------
(* compact.  A plan is built by one pass over the blocks in address order: *)
(* to is the placement, verdict is "plan" while the pass runs.             *)

NoRequest == [full |-> TRUE, target |-> 0, budget |-> 0, cap |-> 0]
Requests  == {NoRequest} \cup Partial

(* Mutant: the target's block header is forgotten. *)
NeedPayloadOnly(req) == (req.target + 7) \div 8

(* (requested_size + BLOCK_HEADER_SIZE + 7) & ~7 in w-bit arithmetic       *)
Need(req) == IF req.target = 0 THEN 0 ELSE ((req.target + 15) % WordSpan) \div 8

PinnedAbove(R, u) == {obj[q].start : q \in {x \in R : obj[x].pinned /\ obj[x].start > u}}

(* Mutant: the barrier index stays at the first pinned block. *)
BarrierFirst(R, u, hi) == Min(PinnedAbove(R, -1) \cup {hi})

Barrier(R, u, hi) == Min(PinnedAbove(R, u) \cup {hi})

(* Mutant: the caps are tested after the move that exceeds them. *)
SpentAfterwards(plan, req, size) ==
  \/ req.budget # 0 /\ plan.bytes > req.budget
  \/ req.cap # 0 /\ plan.moves > req.cap

Spent(plan, req, size) ==
  \/ req.budget # 0 /\ plan.bytes + size > req.budget
  \/ req.cap # 0 /\ plan.moves + 1 > req.cap

(* The free run a request could use before o is moved: what the cursor has *)
(* walked over, or a hole of the old layout above o.                       *)
Reachable(R, lo, hi, cursor, o) ==
  Max({obj[o].start - cursor,
       LargestOf({h \in Holes(Here(R), lo, hi) : h.from > obj[o].start})})

CompactStep(R, lo, hi, req, plan, o) ==
  LET start   == obj[o].start
      size    == obj[o].size
      cursor  == plan.cursor
      barrier == Barrier(R, start, hi)
  IN IF plan.verdict # "plan" THEN plan
     ELSE IF obj[o].pinned THEN
       IF cursor > start THEN [plan EXCEPT !.verdict = "PinnedConflict"]
       ELSE [plan EXCEPT !.cursor = start + size]
     ELSE IF cursor + size > barrier THEN
       [plan EXCEPT !.verdict = IF ~req.full THEN "cut"
                                ELSE IF barrier < hi THEN "PinnedConflict" ELSE "NoSpace"]
     ELSE IF Need(req) # 0 /\ Reachable(R, lo, hi, cursor, o) >= Need(req) THEN
       [plan EXCEPT !.verdict = "cut", !.met = TRUE]
     ELSE IF Spent(plan, req, size) THEN [plan EXCEPT !.verdict = "cut"]
     ELSE IF start = cursor THEN [plan EXCEPT !.cursor = start + size]
     ELSE [plan EXCEPT !.cursor = cursor + size, !.to[o] = cursor,
                       !.bytes = @ + size, !.moves = @ + 1]

CompactPlan(R, lo, hi, req) ==
  FoldLeft(LAMBDA plan, o : CompactStep(R, lo, hi, req, plan, o),
           [cursor |-> lo, to |-> Here(R), bytes |-> 0, moves |-> 0,
            met |-> Need(req) = 0, verdict |-> "plan"],
           ByAddress(R))

Refused(plan) == plan.verdict \in {"PinnedConflict", "NoSpace"}
PlanOf(p, req) == CompactPlan(Residents(p), Lo(pool[p]), Hi(pool[p]), req)
Placed(f) == [o \in Objects |-> IF o \in DOMAIN f THEN [obj[o] EXCEPT !.start = f[o]] ELSE obj[o]]

Compact(p, req) ==
  /\ Exists(p)
  /\ Precheck(p)
  /\ LET plan == PlanOf(p, req)  P == pool[p] IN
     /\ ~Refused(plan)
     /\ obj'  = Placed(plan.to)
     /\ mem'  = FinalMem(mem, plan.to, Lo(P), Hi(P))
     /\ pool' = [pool EXCEPT ![p] = FinalPool(P, plan.to)]

-----------------------------------------------------------------------------
(* merge: one full packing pass over both windows *)

JustBelow(p, q) == pool[q].first = pool[p].first + pool[p].count
Lower(p, q) == IF pool[p].first < pool[q].first THEN p ELSE q
Joined(s, t) ==
  [pool[t] EXCEPT !.first = pool[Lower(s, t)].first, !.count = pool[s].count + pool[t].count]
MergePlan(s, t) ==
  LET J == Joined(s, t) IN
  CompactPlan(Residents(s) \cup Residents(t), Lo(J), Hi(J), NoRequest)

Adjacent(s, t) == s # t /\ Exists(s) /\ Exists(t) /\ (JustBelow(s, t) \/ JustBelow(t, s))

Merge(s, t) ==
  /\ Adjacent(s, t)
  /\ Precheck(s) /\ Precheck(t) /\ AuditBins(s) /\ AuditBins(t)
  /\ LET plan == MergePlan(s, t)  J == Joined(s, t) IN
     /\ ~Refused(plan)
     /\ obj'  = [o \in Objects |-> IF o \in DOMAIN plan.to
                                   THEN [Placed(plan.to)[o] EXCEPT !.pool = t] ELSE obj[o]]
     /\ mem'  = FinalMem(mem, plan.to, Lo(J), Hi(J))
     /\ pool' = [pool EXCEPT ![t] = FinalPool(J, plan.to), ![s] = EmptyPool]

-----------------------------------------------------------------------------
(* split: both halves are packed toward their own start; a block that      *)
(* crosses the boundary goes to the upper half.                            *)

(* Mutant: a block that ends at the boundary counts as crossing it. *)
UpperAtBoundary(o, boundary) == obj[o].start + obj[o].size >= boundary

Upper(o, boundary) == obj[o].start + obj[o].size > boundary

SplitStep(R, boundary, hi, plan, o) ==
  LET start   == obj[o].start
      size    == obj[o].size
      side    == IF Upper(o, boundary) THEN "up" ELSE "low"
      cursor  == plan[side]
      ahead   == PinnedAbove(R, start)
      bars    == IF side = "up" THEN ahead ELSE {b \in ahead : b < boundary}
      barrier == Min(bars \cup {IF side = "up" THEN hi ELSE boundary})
  IN IF plan.verdict # "plan" THEN plan
     ELSE IF obj[o].pinned THEN
       IF (start < boundary /\ side = "up") \/ cursor > start
       THEN [plan EXCEPT !.verdict = "PinnedConflict"]
       ELSE [plan EXCEPT ![side] = start + size]
     ELSE IF cursor + size > barrier THEN
       [plan EXCEPT !.verdict = IF bars # {} THEN "PinnedConflict" ELSE "NoSpace"]
     ELSE [plan EXCEPT ![side] = cursor + size, !.to[o] = cursor]

SplitPlan(p, boundary) ==
  LET R == Residents(p) IN
  FoldLeft(LAMBDA plan, o : SplitStep(R, boundary, Hi(pool[p]), plan, o),
           [low |-> Lo(pool[p]), up |-> boundary, to |-> Here(R), verdict |-> "plan"],
           ByAddress(R))

(* d.address >= boundary is asked of the payload address.                  *)
Split(p, n) ==
  /\ n < pool[p].count
  /\ Precheck(p)
  /\ \E new \in Pools :
       /\ FirstEmpty(new)
       /\ LET S        == [pool[p] EXCEPT !.count = @ - n]
              N        == [EmptyPool EXCEPT !.first = S.first + S.count, !.count = n]
              boundary == Hi(S)
              plan     == SplitPlan(p, boundary)
              low      == Within(plan.to, Lo(S), boundary)
              up       == Within(plan.to, boundary, Hi(N))
              above    == {o \in DOMAIN plan.to : plan.to[o] + 1 >= boundary}
          IN /\ ~Refused(plan)
             /\ obj'  = [o \in Objects |-> IF o \in above
                                           THEN [Placed(plan.to)[o] EXCEPT !.pool = new]
                                           ELSE Placed(plan.to)[o]]
             /\ mem'  = FinalMem(FinalMem(mem, low, Lo(S), boundary), up, boundary, Hi(N))
             /\ pool' = [pool EXCEPT
                           ![p]   = [FinalPool(S, low) EXCEPT
                                       !.live = pool[p].live - Cardinality(above)],
                           ![new] = [FinalPool(N, up) EXCEPT !.live = Cardinality(above)]]

-----------------------------------------------------------------------------
Init ==
  /\ pool = [p \in Pools |-> EmptyPool]
  /\ obj  = [o \in Objects |-> FreeDesc]
  /\ mem  = [u \in Units |-> Stale]

Next ==
  \/ \E n \in 1 .. Segments : CreatePool(n)
  \/ \E p \in Pools : DestroyPool(p)
  \/ \E p \in Pools, o \in Objects, payload \in Payloads, pinned \in BOOLEAN :
       Alloc(p, o, payload, pinned)
  \/ \E o \in Objects : Free(o)
  \/ \E p \in Pools, req \in Requests : Compact(p, req)
  \/ \E s, t \in Pools : Merge(s, t)
  \/ \E p \in Pools, n \in 1 .. Segments : Split(p, n)

Spec == Init /\ [][Next]_vars

-----------------------------------------------------------------------------
(* Properties *)

(* validate() accepts every pool that a sequence of legal calls produces,  *)
(* and so no maintenance operation is refused by its own audits.  It holds *)
(* while the free blocks fit the scratch array, see FreeRunsCapped.        *)
ValidateAccepts == \A p \in Pools : Exists(p) => Validates(p)

(* free() finds its neighbours (verify_neighbours): it never takes the     *)
(* headers around a live object for damage, and two adjacent blocks are    *)
(* linked both ways.  The word behind a block is a header, poisoned slack  *)
(* or the pool's end, never user bytes, and a header behind a block names  *)
(* that block's size; a missing link would leave free neighbours           *)
(* uncoalesced for ever.                                                   *)
FreeFindsNeighbours ==
  /\ \A o \in Objects : obj[o].size > 0 => VerifyNeighbours(o)
  /\ \A p \in Pools : Exists(p) =>
       \A b \in pool[p].bins \cup {obj[o].start : o \in Residents(p)} :
         LET next == b + SizeAt(b) IN
         next < Hi(pool[p]) =>
           /\ mem[next].own # Junk
           /\ mem[next].own # 0 => mem[next].prev = SizeAt(b)

(* The refusals in the packing loops of compact and merge are dead code,   *)
(* as merge's comment argues: a pool that passed the audit can always be   *)
(* packed, whatever its pinned blocks, alone or with a neighbour.  The     *)
(* comment on compact (pondmerge.hpp) and COMPACTION_POLICY.md warn of     *)
(* refusals by dense pinned blocks, which thus never happen.               *)
PackingNeverRefused ==
  /\ \A p \in Pools : Exists(p) => ~Refused(PlanOf(p, NoRequest))
  /\ \A s, t \in Pools : Adjacent(s, t) => ~Refused(MergePlan(s, t))

(* When compact reports target_met, the layout it leaves really has a free *)
(* block that the requested allocation fits.                               *)
TargetMetHonest ==
  \A p \in Pools : Exists(p) =>
    \A req \in Requests \ {NoRequest} :
      LET plan == PlanOf(p, req) IN
      plan.met /\ req.target > 0 =>
        8 * LargestOf(FreeRuns(plan.to, Lo(pool[p]), Hi(pool[p]))) >= req.target + 8

(* A compaction costs its caller no more than it asked for: a partial one  *)
(* moves at most what max_move_bytes and max_move_objects allow, and none, *)
(* full or cut short anywhere, makes the largest allocatable block         *)
(* smaller; nor does a merge.                                              *)
CompactionNeverCosts ==
  LET Largest(p) == Max({SizeAt(b) : b \in pool[p].bins} \cup {0}) IN
  /\ \A p \in Pools : Exists(p) =>
       \A req \in Requests :
         LET plan  == PlanOf(p, req)
             moved == {o \in Residents(p) : plan.to[o] # obj[o].start}
         IN /\ req.budget # 0 => UnitsOf(moved) <= req.budget
            /\ req.cap # 0 => Cardinality(moved) <= req.cap
            /\ LargestOf(FreeRuns(plan.to, Lo(pool[p]), Hi(pool[p]))) >= Largest(p)
  /\ \A s, t \in Pools : Adjacent(s, t) =>
       LargestOf(FreeRuns(MergePlan(s, t).to, Lo(Joined(s, t)), Hi(Joined(s, t))))
         >= Max({Largest(s), Largest(t)})

(* The blocks that end above the boundary belong in the upper half.        *)
Crossing(R, boundary) == {o \in R : obj[o].start + obj[o].size > boundary}

(* A layout of both halves that keeps address order.                       *)
FitsHalves(R, lo, boundary, hi, f) ==
  \A o \in R :
    /\ IF o \in Crossing(R, boundary) THEN boundary <= f[o] /\ EndIn(f, o) <= hi
                                      ELSE lo <= f[o] /\ EndIn(f, o) <= boundary
    /\ \A q \in R : obj[q].start < obj[o].start => EndIn(f, q) <= f[o]

(* split refuses only what cannot be done: NoSpace means the blocks of the *)
(* upper half exceed its capacity, and after any refusal no placement that *)
(* keeps address order and pinned blocks would have fitted the two halves. *)
SplitRefusesOnlyImpossible ==
  \A p \in Pools : \A k \in 1 .. pool[p].count - 1 :
    LET R        == Residents(p)
        lo       == Lo(pool[p])
        hi       == Hi(pool[p])
        boundary == (pool[p].first + k) * SegUnits
        verdict  == SplitPlan(p, boundary).verdict
        movable  == {o \in R : ~obj[o].pinned}
    IN /\ verdict = "NoSpace" => UnitsOf(Crossing(R, boundary)) > hi - boundary
       /\ verdict # "plan" => \A g \in [movable -> lo .. hi - MinBlock] :
            ~FitsHalves(R, lo, boundary, hi,
                        [o \in R |-> IF o \in movable THEN g[o] ELSE obj[o].start])

(* The header documents that a partial plan stops at the first prefix      *)
(* after which the target would be satisfied, with no move at all when the *)
(* pool already satisfies it.                                              *)
NoNeedlessMoves ==
  \A p \in Pools : Exists(p) =>
    \A req \in Requests \ {NoRequest} :
      Need(req) # 0 /\ (\E b \in pool[p].bins : SizeAt(b) >= Need(req)) =>
        PlanOf(p, req).moves = 0

(* The header documents max_move_bytes and max_move_objects as stopping    *)
(* the plan before the move that would exceed them: whatever a budget      *)
(* leaves out of place begins with a block the budget cannot move.         *)
BudgetStopsOnlyMoves ==
  \A p \in Pools : Exists(p) =>
    \A req \in {r \in Requests : r.target = 0} :
      LET plan == PlanOf(p, req)
          all  == PlanOf(p, [req EXCEPT !.budget = 0, !.cap = 0])
          left == {o \in Residents(p) : all.to[o] # obj[o].start /\ plan.to[o] = obj[o].start}
      IN \A o \in left : (\A q \in left : obj[o].start <= obj[q].start) =>
           Spent(plan, req, obj[o].size)

(* The comment on kFreeOffCap claims that a consistent pool never has more *)
(* than PM_MAX_OBJECTS + 1 free blocks, one more than it has live ones:    *)
(* validate() takes a larger number for damage.                            *)
FreeRunsCapped ==
  \A p \in Pools : Cardinality(pool[p].bins) <= Cardinality(Objects) + 1

=============================================================================
