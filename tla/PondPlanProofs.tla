---------------------------- MODULE PondPlanProofs ----------------------------
(***************************************************************************)
(* What the planners of PondHeap promise their callers, for every zone,    *)
(* every set of pools and descriptors and every request: a target reported *)
(* as met is met, a compaction costs no more than it was allowed and loses *)
(* no allocatable block, and split refuses only what cannot be done.  And  *)
(* what the advice of PondAdvice says of them: its estimate is the move    *)
(* count of a full compaction, its verdicts keep their promises, and its   *)
(* cache suppresses nothing a caller has not been told.                    *)
(***************************************************************************)
EXTENDS PondHeapProofs, PondAdvice

-----------------------------------------------------------------------------
(* Free space *)

(* A window has room for L units in a row under the placement f.           *)
Room(f, lo, hi, L) ==
  \E g \in Nat : /\ lo <= g /\ g + L <= hi
                 /\ \A o \in DOMAIN f : EndIn(f, o) <= g \/ g + L <= f[o]

LEMMA GreatestNumber ==
  ASSUME NEW n \in Nat, NEW S \in SUBSET (0 .. n), S # {}
  PROVE  \E m \in S : \A y \in S : y <= m
<1>1. Max(S) \in S /\ \A y \in S : y <= Max(S)
  BY MaxOfIndices
<1>2. QED BY <1>1

(* Room lies in a hole: the one behind the last block below it.            *)
LEMMA RoomIsHole ==
  ASSUME TypeOK, NEW f, NEW lo \in Nat, NEW hi \in Nat, lo <= hi, Placement(f, lo, hi),
         NEW L \in Nat, L > 0, Room(f, lo, hi, L)
  PROVE  \E h \in Holes(f, lo, hi) : h.len >= L
<1>1. PICK g \in Nat : /\ lo <= g /\ g + L <= hi
                       /\ \A o \in DOMAIN f : EndIn(f, o) <= g \/ g + L <= f[o]
  BY DEF Room
<1>2. PICK E : E = {e \in Opens(f, lo) : e <= g}
  OBVIOUS
<1>3. Opens(f, lo) \in SUBSET Nat /\ lo \in Opens(f, lo) /\ \A e \in Opens(f, lo) : e <= hi
  BY PlacedNumbers DEF Opens
<1>4. E \in SUBSET (0 .. g) /\ E # {}
  BY <1>1, <1>2, <1>3
<1>5. PICK e \in E : \A y \in E : y <= e
  BY <1>1, <1>4, GreatestNumber
<1>6. e \in Nat /\ e <= g /\ e \in Opens(f, lo) /\ e <= hi
  BY <1>1, <1>2, <1>3, <1>5
<1>7. /\ NextIn(f, hi, e) \in Closes(f, hi) /\ NextIn(f, hi, e) \in Nat
      /\ e <= NextIn(f, hi, e)
  BY <1>6, NextIs
<1>8. g + L <= NextIn(f, hi, e)
  <2>1. CASE NextIn(f, hi, e) = hi
    BY <1>1, <2>1
  <2>2. CASE NextIn(f, hi, e) # hi
    <3>1. PICK o \in DOMAIN f : NextIn(f, hi, e) = f[o]
      BY <1>7, <2>2 DEF Closes
    <3>2. EndIn(f, o) \in Nat /\ f[o] \in Nat /\ f[o] + 2 <= EndIn(f, o)
      BY PlacedNumbers
    <3>3. ~(EndIn(f, o) <= g)
      <4>1. EndIn(f, o) \in Opens(f, lo)
        BY DEF Opens
      <4>2. EndIn(f, o) <= g => EndIn(f, o) <= e
        BY <1>2, <1>5, <4>1
      <4>3. QED BY <1>6, <1>7, <3>1, <3>2, <4>2
    <3>4. QED BY <1>1, <3>1, <3>3
  <2>3. QED BY <2>1, <2>2
<1>9. NextIn(f, hi, e) > e /\ NextIn(f, hi, e) - e >= L
  BY <1>1, <1>6, <1>7, <1>8
<1>10. [from |-> e, len |-> NextIn(f, hi, e) - e] \in Holes(f, lo, hi)
  BY <1>6, <1>9, HolesAre
<1>11. QED BY <1>9, <1>10

(* The largest of some holes is one of them, and none is larger.           *)
LEMMA LargestIs ==
  ASSUME NEW n \in Nat, NEW H, \A h \in H : h.len \in Nat /\ h.len <= n
  PROVE  /\ LargestOf(H) \in Nat
         /\ \A h \in H : h.len <= LargestOf(H)
         /\ LargestOf(H) # 0 => \E h \in H : h.len = LargestOf(H)
<1>1. PICK S : S = {h.len : h \in H} \cup {0}
  OBVIOUS
<1>2. S \in SUBSET (0 .. n) /\ S # {}
  BY <1>1
<1>3. Max(S) \in S /\ \A y \in S : y <= Max(S)
  BY <1>2, MaxOfIndices
<1>4. PICK top : top = LargestOf(H)
  OBVIOUS
<1>5. top = Max(S)
  BY <1>1, <1>4 DEF LargestOf
<1>6. top \in S /\ \A y \in S : y <= top
  BY <1>3, <1>5
<1>7. top \in Nat
  BY <1>2, <1>6
<1>8. \A h \in H : h.len <= top
  BY <1>1, <1>6
<1>9. top # 0 => \E h \in H : h.len = top
  BY <1>1, <1>6
<1>10. QED BY <1>4, <1>7, <1>8, <1>9

LEMMA HolesBounded ==
  ASSUME TypeOK, NEW f, NEW lo \in Nat, NEW hi \in Nat, lo <= hi, Placement(f, lo, hi)
  PROVE  \A h \in Holes(f, lo, hi) : h.len \in Nat /\ h.len <= hi
<1>1. \A h \in Holes(f, lo, hi) : h.from \in Nat /\ h.len \in Nat /\ h.from + h.len <= hi
  BY HoleShape
<1>2. QED BY <1>1

(* Room for a block is a free block that large.                            *)
LEMMA RoomIsBlock ==
  ASSUME TypeOK, NEW f, NEW lo \in Nat, NEW hi \in Nat, lo <= hi, Placement(f, lo, hi),
         NEW L \in Nat, L >= 2, Room(f, lo, hi, L)
  PROVE  LargestOf(FreeRuns(f, lo, hi)) \in Nat /\ LargestOf(FreeRuns(f, lo, hi)) >= L
<1>1. \A h \in Holes(f, lo, hi) : h.len \in Nat /\ h.len <= hi
  BY HolesBounded
<1>2. \A h \in FreeRuns(f, lo, hi) : h.len \in Nat /\ h.len <= hi
  BY <1>1 DEF FreeRuns
<1>3. PICK h \in Holes(f, lo, hi) : h.len >= L
  BY RoomIsHole
<1>4. h \in FreeRuns(f, lo, hi)
  BY <1>1, <1>3 DEF FreeRuns, MinBlock
<1>5. /\ LargestOf(FreeRuns(f, lo, hi)) \in Nat
      /\ \A r \in FreeRuns(f, lo, hi) : r.len <= LargestOf(FreeRuns(f, lo, hi))
  BY <1>2, LargestIs
<1>6. QED BY <1>1, <1>3, <1>4, <1>5


-----------------------------------------------------------------------------
(* What a step of the packing pass costs *)

Moved(R, f) == {o \in R : f[o] # obj[o].start}

(* The four things a step can do to the plan.                              *)
PassedBy(plan, next, o) ==
  /\ next.to = plan.to /\ next.bytes = plan.bytes /\ next.moves = plan.moves
  /\ next.met = plan.met /\ next.verdict = "plan"
  /\ next.cursor = obj[o].start + obj[o].size

SlidDown(plan, next, o) ==
  /\ next.to = [plan.to EXCEPT ![o] = plan.cursor]
  /\ next.bytes = plan.bytes + obj[o].size /\ next.moves = plan.moves + 1
  /\ next.met = plan.met /\ next.verdict = "plan"
  /\ next.cursor = plan.cursor + obj[o].size

Stopped(plan, next) ==
  /\ next.to = plan.to /\ next.bytes = plan.bytes /\ next.moves = plan.moves
  /\ next.met = plan.met /\ next.verdict # "plan"

FoundRoom(plan, next) ==
  /\ next.to = plan.to /\ next.bytes = plan.bytes /\ next.moves = plan.moves
  /\ next.met = TRUE /\ next.verdict # "plan"

LEMMA StepIs ==
  ASSUME TypeOK, NEW R \in SUBSET Objects, NEW lo, NEW hi, NEW req,
         NEW plan \in PlanRecord(R), NEW o \in R, plan.verdict = "plan",
         NEW next, next = CompactStep(R, lo, hi, req, plan, o)
  PROVE  \/ PassedBy(plan, next, o)
         \/ /\ SlidDown(plan, next, o) /\ ~obj[o].pinned /\ obj[o].start # plan.cursor
            /\ ~Spent(plan, req, obj[o].size)
         \/ Stopped(plan, next)
         \/ /\ FoundRoom(plan, next)
            /\ Need(req) # 0 /\ Reachable(R, lo, hi, plan.cursor, o) >= Need(req)
<1> DEFINE barrier == Barrier(R, obj[o].start, hi)
           A == plan.cursor > obj[o].start
           B == plan.cursor + obj[o].size > barrier
           C == Need(req) # 0 /\ Reachable(R, lo, hi, plan.cursor, o) >= Need(req)
           D == Spent(plan, req, obj[o].size)
           E == obj[o].start = plan.cursor
           v == IF ~req.full THEN "cut" ELSE IF barrier < hi THEN "PinnedConflict" ELSE "NoSpace"
           kept == [plan EXCEPT !.cursor = obj[o].start + obj[o].size]
           slid == [plan EXCEPT !.cursor = plan.cursor + obj[o].size, !.to[o] = plan.cursor,
                                !.bytes = @ + obj[o].size, !.moves = @ + 1]
           found == [plan EXCEPT !.verdict = "cut", !.met = TRUE]
<1>1. next =
        IF obj[o].pinned THEN
          IF A THEN [plan EXCEPT !.verdict = "PinnedConflict"] ELSE kept
        ELSE IF B THEN [plan EXCEPT !.verdict = v]
        ELSE IF C THEN found
        ELSE IF D THEN [plan EXCEPT !.verdict = "cut"]
        ELSE IF E THEN kept
        ELSE slid
  BY DEF CompactStep
<1>2. PassedBy(plan, kept, o)
  BY DEF PlanRecord, PassedBy
<1>3. SlidDown(plan, slid, o)
  BY DEF PlanRecord, SlidDown
<1>4. FoundRoom(plan, found)
  BY DEF PlanRecord, FoundRoom
<1>5. \A w \in {"cut", "PinnedConflict", "NoSpace"} : Stopped(plan, [plan EXCEPT !.verdict = w])
  BY DEF PlanRecord, Stopped
<1>6. v \in {"cut", "PinnedConflict", "NoSpace"}
  OBVIOUS
<1> HIDE DEF A, B, v, kept, slid, found
<1>7. QED BY <1>1, <1>2, <1>3, <1>4, <1>5, <1>6

(* The plan's counters are the objects it moves, within what is allowed.   *)
Allowed(R, req, plan) ==
  /\ plan.bytes = Total(Sizes, Moved(R, plan.to))
  /\ plan.moves = Cardinality(Moved(R, plan.to))
  /\ req.budget # 0 => plan.bytes <= req.budget
  /\ req.cap # 0 => plan.moves <= req.cap

LEMMA SlideCounts ==
  ASSUME TypeOK, NEW R \in SUBSET Objects, NEW req, NEW plan \in PlanRecord(R), NEW o \in R,
         NEW next, SlidDown(plan, next, o), Allowed(R, req, plan), plan.to[o] = obj[o].start,
         obj[o].start # plan.cursor, ~Spent(plan, req, obj[o].size),
         req.budget \in Nat, req.cap \in Nat
  PROVE  Allowed(R, req, next)
<1>1. plan.to \in [R -> Nat] /\ next.to = [plan.to EXCEPT ![o] = plan.cursor]
  BY DEF PlanRecord, SlidDown
<1>2. Moved(R, next.to) = Moved(R, plan.to) \cup {o} /\ o \notin Moved(R, plan.to)
  BY <1>1 DEF Moved
<1>3. PICK M \in SUBSET R : M = Moved(R, plan.to)
  BY DEF Moved
<1>4. IsFiniteSet(M) /\ \A x \in M \cup {o} : Sizes[x] \in Nat
  <2>1. M \in SUBSET Objects
    OBVIOUS
  <2>2. IsFiniteSet(M)
    BY <2>1, SizesType
  <2>3. \A x \in R : Sizes[x] \in Nat
    BY SizesType
  <2>4. QED BY <2>2, <2>3
<1>5. Total(Sizes, M \cup {o}) = Total(Sizes, M) + Sizes[o] /\ Sizes[o] = obj[o].size
  <2>1. o \notin M
    BY <1>2, <1>3
  <2>2. Total(Sizes, M \cup {o}) = Total(Sizes, M) + Sizes[o]
    BY <1>4, <2>1, TotalAdd
  <2>3. QED BY <2>2, SizesType
<1>6. Cardinality(M \cup {o}) = Cardinality(M) + 1
  BY <1>2, <1>3, <1>4, FS_AddElement
<1>7. next.bytes = plan.bytes + obj[o].size /\ next.moves = plan.moves + 1
  BY DEF SlidDown
<1>8. plan.bytes \in Nat /\ plan.moves \in Nat /\ obj[o].size \in Nat
  BY ObjTypes DEF PlanRecord
<1>9. req.budget # 0 => plan.bytes + obj[o].size <= req.budget
  BY <1>8 DEF Spent
<1>10. req.cap # 0 => plan.moves + 1 <= req.cap
  BY <1>8 DEF Spent
<1>11. QED BY <1>2, <1>3, <1>5, <1>6, <1>7, <1>9, <1>10 DEF Allowed

-----------------------------------------------------------------------------
(* No free block is lost *)

(* Between two steps of a pass, o is next: the blocks before it end at the *)
(* cursor at the latest, those behind it are where they were.              *)
NextUp(R, lo, hi, f, cursor, o) ==
  /\ lo <= cursor /\ cursor <= obj[o].start /\ f[o] = obj[o].start
  /\ obj[o].start + obj[o].size <= hi
  /\ \A x \in R \ {o} : \/ f[x] + obj[x].size <= cursor
                        \/ f[x] = obj[x].start /\ obj[o].start + obj[o].size <= f[x]

(* The cursor stands at the window's start or behind a block.              *)
AtEdge(R, lo, f, cursor) == cursor = lo \/ \E x \in R : f[x] + obj[x].size = cursor

LEMMA PassStands ==
  ASSUME TypeOK, NEW R \in SUBSET Objects, NEW lo \in Nat, NEW hi \in Nat, lo <= hi,
         Placement(Here(R), lo, hi), NEW N \in Nat, NEW seq \in [1 .. N -> R], InOrder(R, N, seq),
         NEW k \in 0 .. N - 1, NEW plan \in PlanRecord(R), Packed(R, lo, seq, N, plan, k),
         plan.verdict = "plan", NEW o \in R, o = seq[k + 1]
  PROVE  NextUp(R, lo, hi, plan.to, plan.cursor, o)
<1>1. k + 1 \in 1 .. N /\ k \in Nat
  OBVIOUS
<1>2. /\ \A x \in R : /\ obj[x].start \in Nat /\ obj[x].size \in Nat
                      /\ obj[x].start + obj[x].size <= hi
      /\ \A x, y \in R : obj[x].start < obj[y].start => obj[x].start + obj[x].size <= obj[y].start
  BY PlacedOrder
<1>3. /\ lo <= plan.cursor
      /\ \A i \in 1 .. N : i <= k => plan.to[seq[i]] + obj[seq[i]].size <= plan.cursor
      /\ \A i \in 1 .. N : k < i => /\ plan.cursor <= obj[seq[i]].start
                                    /\ plan.to[seq[i]] = obj[seq[i]].start
  BY DEF Packed
<1>4. plan.cursor <= obj[o].start /\ plan.to[o] = obj[o].start
  BY <1>1, <1>3
<1>5. ASSUME NEW x \in R \ {o}
      PROVE  \/ plan.to[x] + obj[x].size <= plan.cursor
             \/ plan.to[x] = obj[x].start /\ obj[o].start + obj[o].size <= plan.to[x]
  <2>1. PICK i \in 1 .. N : seq[i] = x
    BY DEF InOrder
  <2>2. CASE i <= k
    BY <1>3, <2>1, <2>2
  <2>3. CASE k + 1 < i
    <3>1. obj[o].start < obj[x].start
      BY <1>1, <2>1, <2>3 DEF InOrder
    <3>2. plan.to[x] = obj[x].start
      BY <1>1, <1>3, <2>1, <2>3
    <3>3. QED BY <1>2, <3>1, <3>2
  <2>4. i # k + 1
    BY <2>1
  <2>5. QED BY <1>1, <2>2, <2>3, <2>4
<1>6. QED BY <1>2, <1>3, <1>4, <1>5 DEF NextUp

LEMMA SlideKeepsRoom ==
  ASSUME TypeOK, NEW R \in SUBSET Objects, NEW lo \in Nat, NEW hi \in Nat,
         NEW f \in [R -> Nat], NEW cursor \in Nat, NEW o \in R, NextUp(R, lo, hi, f, cursor, o),
         AtEdge(R, lo, f, cursor), NEW h, h = [f EXCEPT ![o] = cursor],
         NEW L \in Nat, L > 0, Room(f, lo, hi, L)
  PROVE  Room(h, lo, hi, L)
<1>1. \A x \in R : obj[x].size \in Nat
  BY ObjTypes
<1>2. PICK start \in Nat, size \in Nat : start = obj[o].start /\ size = obj[o].size
  BY ObjTypes
<1>3. /\ lo <= cursor /\ cursor <= start /\ f[o] = start /\ start + size <= hi
      /\ \A x \in R : x # o => f[x] + obj[x].size <= cursor \/ start + size <= f[x]
  BY <1>2 DEF NextUp
<1>4. DOMAIN h = R /\ h[o] = cursor /\ \A x \in R : x # o => h[x] = f[x]
  OBVIOUS
<1>5. \A x \in R : EndIn(f, x) = f[x] + obj[x].size /\ EndIn(h, x) = h[x] + obj[x].size
  BY DEF EndIn
<1>6. PICK g \in Nat : /\ lo <= g /\ g + L <= hi
                       /\ \A x \in R : f[x] + obj[x].size <= g \/ g + L <= f[x]
  BY <1>5 DEF Room
<1>7. CASE cursor + size <= g \/ g + L <= cursor
  <2>1. \A x \in R : h[x] + obj[x].size <= g \/ g + L <= h[x]
    <3>1. SUFFICES ASSUME NEW x \in R
                   PROVE  h[x] + obj[x].size <= g \/ g + L <= h[x]
      OBVIOUS
    <3>2. CASE x = o
      <4>1. h[x] = cursor /\ obj[x].size = size
        BY <1>2, <1>4, <3>2
      <4>2. QED BY <1>7, <4>1
    <3>3. CASE x # o
      <4>1. h[x] = f[x]
        BY <1>4, <3>3
      <4>2. QED BY <1>6, <4>1
    <3>4. QED BY <3>2, <3>3
  <2>2. \A x \in DOMAIN h : EndIn(h, x) <= g \/ g + L <= h[x]
    BY <1>4, <1>5, <2>1
  <2>3. QED BY ONLY <1>6, <2>2, g \in Nat DEF Room
<1>8. CASE ~(cursor + size <= g) /\ ~(g + L <= cursor)
  <2>1. g + L <= start
    <3>1. start + size <= g \/ g + L <= start
      BY <1>2, <1>3, <1>6
    <3>2. QED BY <1>3, <1>8, <3>1
  <2>2. cursor <= g
    <3>1. CASE cursor = lo
      BY <1>6, <3>1
    <3>2. CASE cursor # lo
      <4>1. PICK x \in R : f[x] + obj[x].size = cursor
        BY <3>2 DEF AtEdge
      <4>2. cursor <= g \/ g + L <= f[x]
        BY <1>6, <4>1
      <4>3. f[x] \in Nat /\ obj[x].size \in Nat
        BY <1>1
      <4>4. QED BY <1>8, <4>1, <4>2, <4>3
    <3>3. QED BY <3>1, <3>2
  <2>3. PICK n \in Nat : n + L = start + size
    <3>1. (start + size) - L \in Nat
      BY <2>1
    <3>2. QED BY <3>1
  <2>4. cursor + size <= n
    BY <2>1, <2>2, <2>3
  <2>5. \A x \in R : h[x] + obj[x].size <= n \/ n + L <= h[x]
    <3>1. SUFFICES ASSUME NEW x \in R
                   PROVE  h[x] + obj[x].size <= n \/ n + L <= h[x]
      OBVIOUS
    <3>2. CASE x = o
      <4>1. h[x] = cursor /\ obj[x].size = size
        BY <1>2, <1>4, <3>2
      <4>2. QED BY <2>4, <4>1
    <3>3. CASE x # o
      <4>1. h[x] = f[x] /\ f[x] \in Nat /\ obj[x].size \in Nat
        BY <1>1, <1>4, <3>3
      <4>2. f[x] + obj[x].size <= cursor \/ start + size <= f[x]
        BY <1>3, <3>3
      <4>3. QED BY <2>3, <2>4, <4>1, <4>2
    <3>4. QED BY <3>2, <3>3
  <2>6. lo <= n /\ n + L <= hi
    BY <1>3, <2>3, <2>4
  <2>7. \A x \in DOMAIN h : EndIn(h, x) <= n \/ n + L <= h[x]
    BY <1>4, <1>5, <2>5
  <2>8. QED BY ONLY <2>6, <2>7, n \in Nat DEF Room
<1>9. QED BY <1>7, <1>8

(* What the planner counts as reachable for a request is there in the      *)
(* layout it has planned so far: below the next block, or above it.        *)
LEMMA ReachIsRoom ==
  ASSUME TypeOK, NEW R \in SUBSET Objects, NEW lo \in Nat, NEW hi \in Nat, lo <= hi,
         Placement(Here(R), lo, hi), NEW f \in [R -> Nat], NEW cursor \in Nat, NEW o \in R,
         NextUp(R, lo, hi, f, cursor, o), NEW n \in Nat, n > 0,
         Reachable(R, lo, hi, cursor, o) >= n
  PROVE  Room(f, lo, hi, n)
<1>1. \A x \in R : obj[x].size \in Nat /\ EndIn(f, x) = f[x] + obj[x].size
  BY ObjTypes DEF EndIn
<1>2. PICK start \in Nat, size \in Nat : start = obj[o].start /\ size = obj[o].size
  BY ObjTypes
<1>3. /\ lo <= cursor /\ cursor <= start /\ f[o] = start /\ start + size <= hi
      /\ \A x \in R : x # o => \/ f[x] + obj[x].size <= cursor
                               \/ f[x] = obj[x].start /\ start + size <= f[x]
  BY <1>2 DEF NextUp
<1>4. PICK H : H = {h \in Holes(Here(R), lo, hi) : h.from > start}
  OBVIOUS
<1>5. \A h \in H : h.len \in Nat /\ h.len <= hi
  BY <1>4, HolesBounded
<1>6. PICK best : best = LargestOf(H)
  OBVIOUS
<1>7. best \in Nat /\ (best # 0 => \E h \in H : h.len = best)
  BY <1>5, <1>6, LargestIs
<1>8. PICK below \in Nat : below = start - cursor
  BY <1>3
<1>9. Max({below, best}) \in Nat /\ Max({below, best}) >= n
  <2>1. Reachable(R, lo, hi, cursor, o) = Max({below, best})
    BY <1>2, <1>4, <1>6, <1>8 DEF Reachable
  <2>2. QED BY <1>7, <2>1, MaxOfTwo
<1>10. CASE below >= n
  <2>1. lo <= cursor /\ cursor + n <= hi
    BY <1>3, <1>8, <1>10
  <2>2. \A x \in DOMAIN f : EndIn(f, x) <= cursor \/ cursor + n <= f[x]
    <3>1. SUFFICES ASSUME NEW x \in R
                   PROVE  EndIn(f, x) <= cursor \/ cursor + n <= f[x]
      OBVIOUS
    <3>2. CASE x = o
      BY <1>3, <1>8, <1>10, <3>2
    <3>3. CASE x # o
      BY <1>1, <1>3, <1>8, <1>10, <3>3
    <3>4. QED BY <3>2, <3>3
  <2>3. QED BY ONLY <2>1, <2>2, cursor \in Nat DEF Room
<1>11. CASE ~(below >= n)
  <2>1. best >= n
    <3>1. Max({below, best}) \in {below, best}
      <4>1. below \in 0 .. below + best /\ best \in 0 .. below + best
        BY <1>7
      <4>2. {below, best} \in SUBSET (0 .. below + best) /\ {below, best} # {}
        BY <4>1
      <4>3. below + best \in Nat
        BY <1>7
      <4>4. QED BY <4>2, <4>3, MaxOfIndices
    <3>2. QED BY <1>9, <1>11, <3>1
  <2>2. PICK h \in H : h.len = best
    BY <1>7, <2>1
  <2>3. /\ h.from \in Nat /\ lo <= h.from /\ h.from + best <= hi /\ start < h.from
        /\ \A x \in DOMAIN Here(R) : EndIn(Here(R), x) <= h.from \/ h.from + best <= Here(R)[x]
    <3>1. h \in Holes(Here(R), lo, hi) /\ h.from > start
      BY <1>4
    <3>2. /\ h.from \in Nat /\ lo <= h.from /\ h.from + h.len <= hi
          /\ \A x \in DOMAIN Here(R) : EndIn(Here(R), x) <= h.from \/ h.from + h.len <= Here(R)[x]
      BY <3>1, HoleShape
    <3>3. QED BY <2>2, <3>1, <3>2
  <2>4. PICK g \in Nat : g = h.from
    BY <2>3
  <2>5. \A x \in R : obj[x].start + obj[x].size <= g \/ g + best <= obj[x].start
    BY <2>3, <2>4 DEF Here, EndIn
  <2>6. \A x \in DOMAIN f : EndIn(f, x) <= g \/ g + n <= f[x]
    <3>1. SUFFICES ASSUME NEW x \in R
                   PROVE  EndIn(f, x) <= g \/ g + n <= f[x]
      OBVIOUS
    <3>2. CASE f[x] + obj[x].size <= cursor
      BY <1>1, <1>3, <2>3, <2>4, <3>2
    <3>3. CASE f[x] = obj[x].start
      <4>1. f[x] \in Nat /\ obj[x].size \in Nat
        BY <1>1
      <4>2. QED BY <1>1, <1>7, <2>1, <2>5, <3>3, <4>1
    <3>4. QED BY <1>2, <1>3, <3>2, <3>3
  <2>7. lo <= g /\ g + n <= hi
    BY <1>7, <2>1, <2>3, <2>4
  <2>8. QED BY ONLY <2>6, <2>7, g \in Nat DEF Room
<1>12. QED BY <1>10, <1>11

(* What the pass keeps: the counters are exact and within the caps, no     *)
(* room is lost, and a target that is reported has its room.               *)
Roomy(R, lo, hi, req, plan) ==
  /\ \A L \in Nat : L > 0 /\ Room(Here(R), lo, hi, L) => Room(plan.to, lo, hi, L)
  /\ plan.verdict = "plan" => /\ AtEdge(R, lo, plan.to, plan.cursor)
                              /\ Need(req) # 0 => plan.met = FALSE
  /\ plan.met = TRUE /\ Need(req) # 0 => Room(plan.to, lo, hi, Need(req))

LEMMA FrugalStep ==
  ASSUME TypeOK, NEW R \in SUBSET Objects, NEW lo \in Nat, NEW hi \in Nat, lo <= hi,
         Placement(Here(R), lo, hi), NEW req, req.budget \in Nat, req.cap \in Nat, Need(req) \in Nat,
         NEW plan \in PlanRecord(R), NEW o \in R,
         plan.verdict = "plan" => NextUp(R, lo, hi, plan.to, plan.cursor, o),
         Allowed(R, req, plan), Roomy(R, lo, hi, req, plan),
         NEW next, next = CompactStep(R, lo, hi, req, plan, o)
  PROVE  Allowed(R, req, next) /\ Roomy(R, lo, hi, req, next)
<1>1. CASE plan.verdict # "plan"
  <2>1. next = plan
    BY <1>1 DEF CompactStep
  <2>2. QED BY <2>1
<1>2. CASE plan.verdict = "plan"
  <2>1. NextUp(R, lo, hi, plan.to, plan.cursor, o) /\ AtEdge(R, lo, plan.to, plan.cursor)
    BY <1>2 DEF Roomy
  <2>2. plan.to \in [R -> Nat] /\ plan.cursor \in Nat /\ plan.to[o] = obj[o].start
    BY <2>1 DEF PlanRecord, NextUp
  <2>3. /\ \A L \in Nat : L > 0 /\ Room(Here(R), lo, hi, L) => Room(plan.to, lo, hi, L)
        /\ Need(req) # 0 => plan.met = FALSE
    BY <1>2 DEF Roomy
  <2>4. CASE PassedBy(plan, next, o)
    <3>1. /\ next.to = plan.to /\ next.bytes = plan.bytes /\ next.moves = plan.moves
          /\ next.met = plan.met /\ next.cursor = obj[o].start + obj[o].size
      BY <2>4 DEF PassedBy
    <3>2. AtEdge(R, lo, next.to, next.cursor)
      BY <2>2, <3>1 DEF AtEdge
    <3>3. QED BY <2>3, <3>1, <3>2 DEF Allowed, Roomy
  <2>5. CASE SlidDown(plan, next, o) /\ obj[o].start # plan.cursor /\ ~Spent(plan, req, obj[o].size)
    <3>1. Allowed(R, req, next)
      BY <2>2, <2>5, SlideCounts
    <3>2. /\ next.to = [plan.to EXCEPT ![o] = plan.cursor] /\ next.met = plan.met
          /\ next.cursor = plan.cursor + obj[o].size
      BY <2>5 DEF SlidDown
    <3>3. ASSUME NEW L \in Nat, L > 0, Room(Here(R), lo, hi, L)
          PROVE  Room(next.to, lo, hi, L)
      <4>1. Room(plan.to, lo, hi, L)
        BY <2>3, <3>3
      <4>2. QED BY <2>1, <2>2, <3>2, <3>3, <4>1, SlideKeepsRoom
    <3>4. next.to[o] = plan.cursor
      BY <2>2, <3>2
    <3>5. AtEdge(R, lo, next.to, next.cursor)
      BY <3>2, <3>4 DEF AtEdge
    <3>6. Need(req) # 0 => next.met = FALSE
      BY <2>3, <3>2
    <3>7. QED BY <3>1, <3>3, <3>5, <3>6 DEF Roomy
  <2>6. CASE Stopped(plan, next)
    <3>1. /\ next.to = plan.to /\ next.bytes = plan.bytes /\ next.moves = plan.moves
          /\ next.met = plan.met /\ next.verdict # "plan"
      BY <2>6 DEF Stopped
    <3>2. QED BY <2>3, <3>1 DEF Allowed, Roomy
  <2>7. CASE FoundRoom(plan, next) /\ Need(req) # 0 /\ Reachable(R, lo, hi, plan.cursor, o) >= Need(req)
    <3>1. /\ next.to = plan.to /\ next.bytes = plan.bytes /\ next.moves = plan.moves
          /\ next.verdict # "plan"
      BY <2>7 DEF FoundRoom
    <3>2. PICK n \in Nat : n = Need(req)
      OBVIOUS
    <3>3. Room(plan.to, lo, hi, n)
      BY <2>1, <2>2, <2>7, <3>2, ReachIsRoom
    <3>4. QED BY <2>3, <3>1, <3>2, <3>3 DEF Allowed, Roomy
  <2>8. QED BY <1>2, <2>4, <2>5, <2>6, <2>7, StepIs
<1>3. QED BY <1>1, <1>2

LEMMA FrugalStart ==
  ASSUME TypeOK, NEW R \in SUBSET Objects, NEW lo \in Nat, NEW hi \in Nat,
         NEW req, req.budget \in Nat, req.cap \in Nat
  PROVE  /\ Allowed(R, req, FirstPlan(R, lo, req))
         /\ Roomy(R, lo, hi, req, FirstPlan(R, lo, req))
<1>1. PICK plan : plan = FirstPlan(R, lo, req)
  OBVIOUS
<1>2. /\ plan.to = Here(R) /\ plan.bytes = 0 /\ plan.moves = 0 /\ plan.cursor = lo
      /\ plan.met = (Need(req) = 0)
  BY <1>1 DEF FirstPlan
<1>3. Moved(R, plan.to) = {}
  BY <1>2, HereType DEF Moved
<1>4. Total(Sizes, {}) = 0 /\ Cardinality({}) = 0
  BY TotalEmpty, FS_EmptySet
<1>5. Allowed(R, req, plan)
  BY <1>2, <1>3, <1>4 DEF Allowed
<1>6. AtEdge(R, lo, plan.to, plan.cursor)
  BY <1>2 DEF AtEdge
<1>7. Need(req) # 0 => plan.met = FALSE
  BY <1>2
<1>8. Roomy(R, lo, hi, req, plan)
  BY <1>2, <1>6, <1>7 DEF Roomy
<1>9. QED BY <1>1, <1>5, <1>8

LEMMA PassFrugal ==
  ASSUME TypeOK, NEW R \in SUBSET Objects, NEW lo \in Nat, NEW hi \in Nat, lo <= hi,
         Placement(Here(R), lo, hi), NEW req, req.budget \in Nat, req.cap \in Nat, Need(req) \in Nat,
         NEW N \in Nat, NEW seq \in [1 .. N -> R], seq = ByAddress(R), InOrder(R, N, seq),
         NEW plan, plan = CompactPlan(R, lo, hi, req)
  PROVE  Allowed(R, req, plan) /\ Roomy(R, lo, hi, req, plan)
<1>1. \E run \in [0 .. N -> PlanRecord(R)] :
        /\ run[0] = FirstPlan(R, lo, req)
        /\ \A k \in 1 .. N : run[k] = CompactStep(R, lo, hi, req, run[k - 1], seq[k])
        /\ run[N] = plan
  BY CompactRuns
<1>2. PICK run \in [0 .. N -> PlanRecord(R)] :
        /\ run[0] = FirstPlan(R, lo, req)
        /\ \A k \in 1 .. N : run[k] = CompactStep(R, lo, hi, req, run[k - 1], seq[k])
        /\ run[N] = plan
  BY <1>1
<1>3. \A i, j \in 1 .. N : i < j => obj[seq[i]].start < obj[seq[j]].start
  BY DEF InOrder
<1> DEFINE Good == {k \in 0 .. N : /\ Packed(R, lo, seq, N, run[k], k)
                                   /\ Allowed(R, req, run[k]) /\ Roomy(R, lo, hi, req, run[k])}
<1>4. 0 \in Good
  <2>1. Packed(R, lo, seq, N, run[0], 0)
    BY <1>2, <1>3, PackStart
  <2>2. Allowed(R, req, run[0]) /\ Roomy(R, lo, hi, req, run[0])
    BY <1>2, FrugalStart
  <2>3. QED BY <2>1, <2>2
<1>5. ASSUME NEW k \in 0 .. N - 1, k \in Good
      PROVE  k + 1 \in Good
  <2>1. k + 1 \in 1 .. N /\ (k + 1) - 1 = k /\ k \in 0 .. N /\ k + 1 \in 0 .. N
    OBVIOUS
  <2>2. PICK o \in R : o = seq[k + 1]
    BY <2>1
  <2>3. /\ run[k] \in PlanRecord(R) /\ Packed(R, lo, seq, N, run[k], k)
        /\ Allowed(R, req, run[k]) /\ Roomy(R, lo, hi, req, run[k])
        /\ run[k + 1] = CompactStep(R, lo, hi, req, run[k], o)
    BY <1>2, <1>5, <2>1, <2>2
  <2> HIDE DEF Good
  <2>4. Packed(R, lo, seq, N, run[k + 1], k + 1)
    BY <1>3, <2>2, <2>3, PackStep
  <2>5. run[k].verdict = "plan" => NextUp(R, lo, hi, run[k].to, run[k].cursor, o)
    BY <2>2, <2>3, PassStands
  <2>6. Allowed(R, req, run[k + 1]) /\ Roomy(R, lo, hi, req, run[k + 1])
    BY <2>3, <2>5, FrugalStep
  <2>7. QED BY <2>1, <2>4, <2>6 DEF Good
<1> HIDE DEF Good
<1>6. \A k \in 0 .. N : k \in Good
  BY <1>4, <1>5, UpTo
<1>7. N \in 0 .. N
  OBVIOUS
<1>8. QED BY <1>2, <1>6, <1>7 DEF Good

LEMMA CompactFrugal ==
  ASSUME TypeOK, NEW R \in SUBSET Objects, NEW lo \in Nat, NEW hi \in Nat, lo <= hi,
         Placement(Here(R), lo, hi), NEW req, req.budget \in Nat, req.cap \in Nat, Need(req) \in Nat,
         NEW plan, plan = CompactPlan(R, lo, hi, req)
  PROVE  Allowed(R, req, plan) /\ Roomy(R, lo, hi, req, plan)
<1>1. \A o, q \in R : obj[o].start = obj[q].start => o = q
  BY PlacedOrder
<1>2. PICK N \in Nat : N = Cardinality(R)
  BY <1>1, AddressOrder
<1>3. PICK seq \in [1 .. N -> R] : seq = ByAddress(R)
  BY <1>1, <1>2, AddressOrder
<1>4. InOrder(R, N, seq)
  BY <1>1, <1>2, <1>3, AddressOrder DEF InOrder
<1>5. QED BY <1>3, <1>4, PassFrugal

(* A plan leaves a free block at least as large as any there was.          *)
LEMMA LargestStays ==
  ASSUME TypeOK, NEW R \in SUBSET Objects, NEW lo \in Nat, NEW hi \in Nat, lo <= hi,
         Placement(Here(R), lo, hi), NEW req, req.budget \in Nat, req.cap \in Nat, Need(req) \in Nat,
         NEW plan, plan = CompactPlan(R, lo, hi, req),
         NEW big \in Nat, big = 0 \/ (big >= 2 /\ Room(Here(R), lo, hi, big))
  PROVE  LargestOf(FreeRuns(plan.to, lo, hi)) >= big
<1>1. Placement(plan.to, lo, hi)
  BY CompactPacks
<1>2. CASE big = 0
  <2>1. \A h \in FreeRuns(plan.to, lo, hi) : h.len \in Nat /\ h.len <= hi
    BY <1>1, HolesBounded DEF FreeRuns
  <2>2. LargestOf(FreeRuns(plan.to, lo, hi)) \in Nat
    BY <2>1, LargestIs
  <2>3. QED BY <1>2, <2>2
<1>3. CASE big >= 2 /\ Room(Here(R), lo, hi, big)
  <2>1. Roomy(R, lo, hi, req, plan)
    BY CompactFrugal
  <2>2. Room(plan.to, lo, hi, big)
    BY <1>3, <2>1 DEF Roomy
  <2>3. QED BY <1>1, <1>3, <2>2, RoomIsBlock
<1>4. QED BY <1>2, <1>3

-----------------------------------------------------------------------------
(* Requests *)

LEMMA RequestType ==
  ASSUME NEW req \in Requests
  PROVE  /\ req.budget \in Nat /\ req.cap \in Nat /\ req.target \in Nat /\ Need(req) \in Nat
         /\ req # NoRequest => req \in Partial
<1>1. /\ req \in Partial \/ req = NoRequest
      /\ WordSpan % 8 = 0 /\ \A r \in Partial : r \in [full : {FALSE}, target : 0 .. WordSpan - 1,
                                                       budget : Nat, cap : Nat]
  BY HeapAssumption DEF Requests
<1>2. req.budget \in Nat /\ req.cap \in Nat /\ req.target \in Nat
  <2>1. CASE req = NoRequest
    BY <2>1 DEF NoRequest
  <2>2. CASE req \in Partial
    <3>1. req \in [full : {FALSE}, target : 0 .. WordSpan - 1, budget : Nat, cap : Nat]
      BY <1>1, <2>2
    <3>2. WordSpan \in Int
      BY HeapAssumption
    <3>3. QED BY <3>1, <3>2
  <2>3. QED BY <1>1, <2>1, <2>2
<1>3. WordSpan \in Nat /\ WordSpan > 0
  <2>1. /\ WordSpan \in Nat /\ WordSpan > (8 * Segments) * SegUnits
        /\ Segments \in Nat /\ SegUnits \in Nat
    BY HeapAssumption
  <2>2. PICK n \in Nat : n = 8 * Segments
    BY <2>1
  <2>3. n * SegUnits \in Nat
    BY <2>1, NatTimes
  <2>4. QED BY <2>1, <2>2, <2>3
<1>4. Need(req) \in Nat
  <2>1. PICK r \in Int : r = (req.target + 15) % WordSpan
    BY <1>2, <1>3
  <2>2. 0 <= r
    BY <1>2, <1>3, <2>1
  <2>3. r \div 8 \in Nat
    BY <2>2
  <2>4. QED BY <2>1, <2>3 DEF Need
<1>5. QED BY <1>1, <1>2, <1>4

(* need_run of a target, in units, holds the target and its block header,  *)
(* unless the sum wraps.                                                   *)
LEMMA NeedIs ==
  ASSUME NEW req \in Requests, req.target > 0, req.target + 15 < WordSpan
  PROVE  Need(req) \in Nat /\ Need(req) >= 2 /\ 8 * Need(req) >= req.target + 8
<1>1. req.target \in Nat /\ WordSpan \in Nat
  BY RequestType, HeapAssumption
<1>2. PICK t \in Nat : t = req.target
  BY <1>1
<1>3. (t + 15) % WordSpan = t + 15
  BY <1>1, <1>2, Remainder
<1>4. Need(req) = (t + 15) \div 8
  BY <1>2, <1>3 DEF Need
<1>5. PICK n \in Nat : n = (t + 15) \div 8
  OBVIOUS
<1>6. 8 * n >= t + 8
  BY <1>5
<1>7. n >= 2
  BY <1>2, <1>5
<1>8. QED BY <1>2, <1>4, <1>5, <1>6, <1>7

-----------------------------------------------------------------------------
(* Free blocks of a pool *)

LEMMA BinsHaveRoom ==
  ASSUME HeapInv, NEW p \in Pools, Exists(p), NEW b \in pool[p].bins
  PROVE  /\ SizeAt(b) \in Nat /\ SizeAt(b) >= 2 /\ SizeAt(b) <= Hi(pool[p])
         /\ Room(Here(Residents(p)), Lo(pool[p]), Hi(pool[p]), SizeAt(b))
<1>1. b \in Heads(p) /\ SizeAt(b) = SizeIn(mem, b)
  BY DEF Heads, SizeAt, SizeIn, IsFree
<1>2. /\ b \in Nat /\ SizeIn(mem, b) \in Nat /\ SizeIn(mem, b) >= 2
      /\ Lo(pool[p]) <= b /\ b + SizeIn(mem, b) <= Hi(pool[p])
      /\ b \in Units /\ mem[b].own < 0
  BY <1>1, HeadFacts, PoolWindow DEF PoolInv, IsFree
<1>3. PICK n \in Nat : n = SizeAt(b)
  BY <1>1, <1>2
<1>4. Lo(pool[p]) \in Nat /\ Hi(pool[p]) \in Nat
  BY PoolWindow
<1>5. \A o \in DOMAIN Here(Residents(p)) :
        EndIn(Here(Residents(p)), o) <= b \/ b + n <= Here(Residents(p))[o]
  <2>1. SUFFICES ASSUME NEW o \in Residents(p)
                 PROVE  obj[o].start + obj[o].size <= b \/ b + n <= obj[o].start
    BY DEF Here, EndIn
  <2>2. /\ obj[o].start \in Heads(p) /\ obj[o].start \in Nat /\ obj[o].size \in Nat
        /\ mem[obj[o].start].own = obj[o].size /\ SizeIn(mem, obj[o].start) = obj[o].size
    BY BlockFacts
  <2>3. obj[o].start # b
    BY <1>2, <2>2
  <2>4. CASE obj[o].start < b
    <3>1. obj[o].start + SizeIn(mem, obj[o].start) <= b
      BY <1>1, <2>2, <2>4, HeadFacts
    <3>2. QED BY <2>2, <3>1
  <2>5. CASE b < obj[o].start
    <3>1. b + SizeIn(mem, b) <= obj[o].start
      BY <1>1, <2>2, <2>5, HeadFacts
    <3>2. QED BY <1>1, <1>3, <3>1
  <2>6. QED BY <1>2, <2>2, <2>3, <2>4, <2>5
<1>6. Lo(pool[p]) <= b /\ b + n <= Hi(pool[p])
  BY <1>1, <1>2, <1>3
<1>7. Room(Here(Residents(p)), Lo(pool[p]), Hi(pool[p]), n)
  BY <1>2, <1>5, <1>6 DEF Room
<1>8. n >= 2 /\ n <= Hi(pool[p])
  BY <1>1, <1>2, <1>3, <1>4, <1>6
<1>9. QED BY <1>3, <1>7, <1>8

Largest(p) == Max({SizeAt(b) : b \in pool[p].bins} \cup {0})

LEMMA LargestBin ==
  ASSUME HeapInv, NEW p \in Pools, Exists(p)
  PROVE  /\ Largest(p) \in Nat
         /\ \/ Largest(p) = 0
            \/ /\ Largest(p) >= 2
               /\ Room(Here(Residents(p)), Lo(pool[p]), Hi(pool[p]), Largest(p))
<1>1. PICK S : S = {SizeAt(b) : b \in pool[p].bins} \cup {0}
  OBVIOUS
<1>2. PICK hi \in Nat : hi = Hi(pool[p])
  BY PoolWindow
<1>3. \A b \in pool[p].bins : SizeAt(b) \in Nat /\ SizeAt(b) <= hi
  BY <1>2, BinsHaveRoom
<1>4. S \in SUBSET (0 .. hi) /\ S # {}
  BY <1>1, <1>3
<1>5. PICK top : top = Largest(p)
  OBVIOUS
<1>6. top = Max(S)
  BY <1>1, <1>5 DEF Largest
<1>7. top \in S
  BY <1>4, <1>6, MaxOfIndices
<1>8. CASE top = 0
  BY <1>5, <1>8
<1>9. CASE top # 0
  <2>1. PICK b \in pool[p].bins : top = SizeAt(b)
    BY <1>1, <1>7, <1>9
  <2>2. /\ SizeAt(b) \in Nat /\ SizeAt(b) >= 2
        /\ Room(Here(Residents(p)), Lo(pool[p]), Hi(pool[p]), SizeAt(b))
    BY BinsHaveRoom
  <2>3. QED BY <1>5, <2>1, <2>2
<1>10. QED BY <1>8, <1>9

-----------------------------------------------------------------------------
(* What a compaction or a merge costs *)

LEMMA CompactCosts ==
  ASSUME HeapInv, NEW p \in Pools, Exists(p), NEW req \in Requests,
         NEW plan, plan = PlanOf(p, req), NEW moved, moved = Moved(Residents(p), plan.to)
  PROVE  /\ req.budget # 0 => UnitsOf(moved) <= req.budget
         /\ req.cap # 0 => Cardinality(moved) <= req.cap
         /\ LargestOf(FreeRuns(plan.to, Lo(pool[p]), Hi(pool[p]))) >= Largest(p)
<1>1. PICK R, lo, hi : R = Residents(p) /\ lo = Lo(pool[p]) /\ hi = Hi(pool[p])
  OBVIOUS
<1>2. /\ TypeOK /\ lo \in Nat /\ hi \in Nat /\ lo <= hi /\ R \in SUBSET Objects
      /\ Placement(Here(R), lo, hi)
  BY <1>1, PoolWindow, PlacedHere DEF Residents
<1>3. plan = CompactPlan(R, lo, hi, req)
  BY <1>1 DEF PlanOf
<1>4. req.budget \in Nat /\ req.cap \in Nat /\ Need(req) \in Nat
  BY RequestType
<1>5. Allowed(R, req, plan)
  BY <1>2, <1>3, <1>4, CompactFrugal
<1>6. moved = Moved(R, plan.to) /\ moved \in SUBSET Objects
  BY <1>1, <1>2 DEF Moved
<1>7. UnitsOf(moved) = plan.bytes /\ Cardinality(moved) = plan.moves
  <2>1. UnitsOf(moved) = Total(Sizes, moved)
    BY <1>2, <1>6, UnitsSum
  <2>2. QED BY <1>5, <1>6, <2>1 DEF Allowed
<1>8. /\ req.budget # 0 => plan.bytes <= req.budget
      /\ req.cap # 0 => plan.moves <= req.cap
  BY <1>5 DEF Allowed
<1>9. PICK big \in Nat : big = Largest(p)
  BY LargestBin
<1>10. big = 0 \/ (big >= 2 /\ Room(Here(R), lo, hi, big))
  BY <1>1, <1>9, LargestBin
<1>11. LargestOf(FreeRuns(plan.to, lo, hi)) >= big
  BY <1>2, <1>3, <1>4, <1>10, LargestStays
<1>12. QED BY <1>1, <1>7, <1>8, <1>9, <1>11

(* Free space of one pool is free in the window of the two.                *)
LEMMA RoomJoined ==
  ASSUME HeapInv, NEW s \in Pools, NEW t \in Pools, Adjacent(s, t),
         NEW J, J = Joined(s, t), NEW R, R = Residents(s) \cup Residents(t),
         NEW p \in {s, t}, NEW L \in Nat,
         Room(Here(Residents(p)), Lo(pool[p]), Hi(pool[p]), L)
  PROVE  Room(Here(R), Lo(J), Hi(J), L)
<1>1. PICK q \in {s, t} : {p, q} = {s, t} /\ q # p
  BY DEF Adjacent
<1>2. p \in Pools /\ q \in Pools /\ Exists(p) /\ Exists(q)
  BY <1>1 DEF Adjacent
<1>3. PICK lo \in Nat, hi \in Nat : lo = Lo(pool[p]) /\ hi = Hi(pool[p])
  BY <1>2, PoolWindow
<1>4. PICK a \in Nat, b \in Nat : a = Lo(pool[q]) /\ b = Hi(pool[q])
  BY <1>2, PoolWindow
<1>5. hi <= a \/ b <= lo
  <2>1. Apart(pool[p], pool[q])
    BY <1>1, <1>2 DEF HeapInv
  <2>2. /\ pool[p].first \in Nat /\ pool[p].count \in Nat
        /\ pool[q].first \in Nat /\ pool[q].count \in Nat
    BY <1>2, PoolWindow
  <2>3. Hi(pool[p]) <= Lo(pool[q]) \/ Hi(pool[q]) <= Lo(pool[p])
    BY <2>1, <2>2, WindowsApart
  <2>4. QED BY <1>3, <1>4, <2>3
<1>6. /\ Lo(J) \in Nat /\ Hi(J) \in Nat /\ Lo(J) <= lo /\ hi <= Hi(J)
  <2>1. /\ Lo(J) \in Nat /\ Hi(J) \in Nat
        /\ \A x \in {s, t} : Lo(J) <= Lo(pool[x]) /\ Hi(pool[x]) <= Hi(J)
    BY JoinedWindow
  <2>2. QED BY <1>3, <2>1
<1>7. PICK g \in Nat :
        /\ lo <= g /\ g + L <= hi
        /\ \A o \in Residents(p) : obj[o].start + obj[o].size <= g \/ g + L <= obj[o].start
  BY <1>3 DEF Room, Here, EndIn
<1>8. ASSUME NEW o \in R
      PROVE  obj[o].start + obj[o].size <= g \/ g + L <= obj[o].start
  <2>1. CASE o \in Residents(p)
    BY <1>7, <2>1
  <2>2. CASE o \notin Residents(p)
    <3>1. o \in Residents(q)
      BY <1>1, <2>2
    <3>2. /\ obj[o].start \in Nat /\ obj[o].size \in Nat
          /\ a <= obj[o].start /\ obj[o].start + obj[o].size <= b
      BY <1>2, <1>4, <3>1, BlockFacts
    <3>3. QED BY <1>5, <1>7, <3>2
  <2>3. QED BY <2>1, <2>2
<1>9. \A o \in DOMAIN Here(R) : EndIn(Here(R), o) <= g \/ g + L <= Here(R)[o]
  BY <1>8 DEF Here, EndIn
<1>10. Lo(J) <= g /\ g + L <= Hi(J)
  BY <1>6, <1>7
<1>11. QED BY <1>9, <1>10 DEF Room

LEMMA MergeCosts ==
  ASSUME HeapInv, NEW s \in Pools, NEW t \in Pools, Adjacent(s, t), NEW p \in {s, t}
  PROVE  LargestOf(FreeRuns(MergePlan(s, t).to, Lo(Joined(s, t)), Hi(Joined(s, t)))) >= Largest(p)
<1>1. PICK R, J : R = Residents(s) \cup Residents(t) /\ J = Joined(s, t)
  OBVIOUS
<1>2. PICK lo, hi : lo = Lo(J) /\ hi = Hi(J)
  OBVIOUS
<1>3. /\ lo \in Nat /\ hi \in Nat /\ lo <= hi /\ R \in SUBSET Objects
      /\ Placement(Here(R), lo, hi)
  BY <1>1, <1>2, JoinedWindow
<1>4. TypeOK /\ p \in Pools /\ Exists(p)
  BY DEF HeapInv, Adjacent
<1>5. PICK plan : plan = CompactPlan(R, lo, hi, NoRequest)
  OBVIOUS
<1>6. plan = MergePlan(s, t)
  BY <1>1, <1>2, <1>5 DEF MergePlan
<1>7. PICK req \in Requests : req = NoRequest
  BY DEF Requests
<1>8. req.budget \in Nat /\ req.cap \in Nat /\ Need(req) \in Nat
  BY RequestType
<1>9. PICK big \in Nat : big = Largest(p)
  BY <1>4, LargestBin
<1>10. big = 0 \/ (big >= 2 /\ Room(Here(R), lo, hi, big))
  <2>1. big = 0 \/ (big >= 2 /\ Room(Here(Residents(p)), Lo(pool[p]), Hi(pool[p]), big))
    BY <1>4, <1>9, LargestBin
  <2>2. QED BY <1>1, <1>2, <2>1, RoomJoined
<1>11. LargestOf(FreeRuns(plan.to, lo, hi)) >= big
  BY <1>3, <1>4, <1>5, <1>7, <1>8, <1>10, LargestStays
<1>12. QED BY <1>1, <1>2, <1>6, <1>9, <1>11

LEMMA CostsHold ==
  ASSUME HeapInv
  PROVE  CompactionNeverCosts
<1>1. \A p \in Pools : Max({SizeAt(b) : b \in pool[p].bins} \cup {0}) = Largest(p)
  BY DEF Largest
<1>2. ASSUME NEW p \in Pools, Exists(p), NEW req \in Requests, NEW plan, plan = PlanOf(p, req),
             NEW moved, moved = {o \in Residents(p) : plan.to[o] # obj[o].start}
      PROVE  /\ req.budget # 0 => UnitsOf(moved) <= req.budget
             /\ req.cap # 0 => Cardinality(moved) <= req.cap
             /\ LargestOf(FreeRuns(plan.to, Lo(pool[p]), Hi(pool[p]))) >= Largest(p)
  BY <1>2, CompactCosts DEF Moved
<1>3. ASSUME NEW s \in Pools, NEW t \in Pools, Adjacent(s, t)
      PROVE  LargestOf(FreeRuns(MergePlan(s, t).to, Lo(Joined(s, t)), Hi(Joined(s, t))))
               >= Max({Largest(s), Largest(t)})
  <2>1. PICK a \in Nat, b \in Nat : a = Largest(s) /\ b = Largest(t)
    BY <1>3, LargestBin DEF Adjacent
  <2>2. PICK top : top = LargestOf(FreeRuns(MergePlan(s, t).to, Lo(Joined(s, t)), Hi(Joined(s, t))))
    OBVIOUS
  <2>3. top >= a /\ top >= b
    BY <1>3, <2>1, <2>2, MergeCosts
  <2>4. Max({a, b}) \in {a, b}
    <3>1. {a, b} \in SUBSET (0 .. a + b) /\ {a, b} # {} /\ a + b \in Nat
      OBVIOUS
    <3>2. QED BY <3>1, MaxOfIndices
  <2>5. QED BY <2>1, <2>2, <2>3, <2>4
<1>4. QED BY <1>1, <1>2, <1>3 DEF CompactionNeverCosts

(* A compaction costs its caller no more than it asked for, and neither it *)
(* nor a merge loses the largest allocatable block: the packing pass       *)
(* leaves a gap where it takes one, whatever stops it.                     *)
THEOREM CostsBounded == Spec => []CompactionNeverCosts
BY HeapInvariant, CostsHold, PTL

(* target_met is never reported for a layout without room for the request, *)
(* when no target is so large that the planner's sum wraps.                *)
LEMMA TargetHolds ==
  ASSUME HeapInv, \A req \in Partial : req.target + 15 < WordSpan
  PROVE  TargetMetHonest
<1>1. SUFFICES ASSUME NEW p \in Pools, Exists(p), NEW req \in Requests \ {NoRequest},
                      NEW plan, plan = PlanOf(p, req), plan.met, req.target > 0
               PROVE  8 * LargestOf(FreeRuns(plan.to, Lo(pool[p]), Hi(pool[p]))) >= req.target + 8
  BY DEF TargetMetHonest
<1>2. PICK R, lo, hi : R = Residents(p) /\ lo = Lo(pool[p]) /\ hi = Hi(pool[p])
  OBVIOUS
<1>3. /\ TypeOK /\ lo \in Nat /\ hi \in Nat /\ lo <= hi /\ R \in SUBSET Objects
      /\ Placement(Here(R), lo, hi)
  BY <1>1, <1>2, PoolWindow, PlacedHere DEF Residents
<1>4. plan = CompactPlan(R, lo, hi, req)
  BY <1>1, <1>2 DEF PlanOf
<1>5. req \in Requests /\ req \in Partial /\ req.budget \in Nat /\ req.cap \in Nat /\ req.target \in Nat
  BY <1>1, RequestType
<1>6. PICK n \in Nat : n = Need(req) /\ n >= 2 /\ 8 * n >= req.target + 8
  BY <1>1, <1>5, NeedIs
<1>7. Placement(plan.to, lo, hi)
  BY <1>3, <1>4, CompactPacks
<1>8. Room(plan.to, lo, hi, n)
  <2>1. Roomy(R, lo, hi, req, plan)
    BY <1>3, <1>4, <1>5, <1>6, CompactFrugal
  <2>2. QED BY <1>1, <1>6, <2>1 DEF Roomy
<1>9. PICK top \in Nat : top = LargestOf(FreeRuns(plan.to, lo, hi)) /\ top >= n
  BY <1>3, <1>6, <1>7, <1>8, RoomIsBlock
<1>10. QED BY <1>2, <1>5, <1>6, <1>9

(* When compact reports target_met, the layout it leaves has a free block  *)
(* for the request, in any pool and for any budget and caps, as long as no *)
(* target comes within 15 bytes of the planner's word.                     *)
THEOREM TargetsHonest ==
  ASSUME \A req \in Partial : req.target + 15 < WordSpan
  PROVE  Spec => []TargetMetHonest
<1>1. HeapInv => TargetMetHonest
  BY TargetHolds
<1>2. QED BY <1>1, HeapInvariant, PTL

-----------------------------------------------------------------------------
(* What split refuses *)

(* The planner goes on past a block that fits somewhere at or above the    *)
(* cursor of its half and below the pinned blocks ahead of it.             *)
LEMMA SplitGoesOn ==
  ASSUME TypeOK, NEW R \in SUBSET Objects, NEW boundary \in Nat, NEW hi \in Nat,
         NEW plan \in SplitRecord(R), plan.verdict = "plan", NEW o \in R, NEW at \in Nat,
         IF Upper(o, boundary)
         THEN boundary <= at /\ plan.up <= at /\ at + obj[o].size <= hi
         ELSE plan.low <= at /\ at + obj[o].size <= boundary,
         obj[o].pinned => at = obj[o].start,
         \A b \in PinnedAbove(R, obj[o].start) : at + obj[o].size <= b
  PROVE  SplitStep(R, boundary, hi, plan, o).verdict = "plan"
<1>1. PICK start \in Nat, size \in Nat : start = obj[o].start /\ size = obj[o].size
  BY ObjTypes
<1>2. plan.low \in Nat /\ plan.up \in Nat /\ plan.to \in [R -> Nat]
  BY DEF SplitRecord
<1>3. PICK ahead \in SUBSET Nat : ahead = PinnedAbove(R, start)
  BY ObjTypes DEF PinnedAbove
<1>4. \A b \in ahead : at + size <= b
  BY <1>1, <1>3
<1>5. PICK next : next = SplitStep(R, boundary, hi, plan, o)
  OBVIOUS
<1>6. /\ \A a \in Nat : [plan EXCEPT !.low = a].verdict = "plan" /\ [plan EXCEPT !.up = a].verdict = "plan"
      /\ \A a \in Nat : /\ [plan EXCEPT !.low = a, !.to[o] = plan.low].verdict = "plan"
                        /\ [plan EXCEPT !.up = a, !.to[o] = plan.up].verdict = "plan"
  BY DEF SplitRecord
<1>7. CASE obj[o].pinned /\ Upper(o, boundary)
  <2>1. ~(start < boundary \/ plan.up > start)
    BY <1>1, <1>2, <1>7
  <2>2. next = IF start < boundary \/ plan.up > start THEN [plan EXCEPT !.verdict = "PinnedConflict"]
               ELSE [plan EXCEPT !.up = start + size]
    BY <1>1, <1>5, <1>7 DEF SplitStep
  <2>3. QED BY <1>5, <1>6, <2>1, <2>2
<1>8. CASE obj[o].pinned /\ ~Upper(o, boundary)
  <2>1. ~(plan.low > start)
    BY <1>1, <1>2, <1>8
  <2>2. next = IF plan.low > start THEN [plan EXCEPT !.verdict = "PinnedConflict"]
               ELSE [plan EXCEPT !.low = start + size]
    BY <1>1, <1>5, <1>8 DEF SplitStep
  <2>3. QED BY <1>5, <1>6, <2>1, <2>2
<1>9. CASE ~obj[o].pinned /\ Upper(o, boundary)
  <2>1. PICK barrier : barrier = Min(ahead \cup {hi})
    OBVIOUS
  <2>2. barrier \in ahead \cup {hi}
    <3>1. ahead \cup {hi} \in SUBSET Nat /\ ahead \cup {hi} # {}
      OBVIOUS
    <3>2. QED BY <2>1, <3>1, MinOfNumbers
  <2>3. ~(plan.up + size > barrier)
    BY <1>1, <1>2, <1>4, <1>9, <2>2
  <2>4. \E v : next = IF plan.up + size > barrier THEN [plan EXCEPT !.verdict = v]
                      ELSE [plan EXCEPT !.up = plan.up + size, !.to[o] = plan.up]
    BY <1>1, <1>3, <1>5, <1>9, <2>1 DEF SplitStep
  <2>5. plan.up + size \in Nat
    BY <1>2
  <2>6. QED BY <1>5, <1>6, <2>3, <2>4, <2>5
<1>10. CASE ~obj[o].pinned /\ ~Upper(o, boundary)
  <2>1. PICK bars \in SUBSET ahead : bars = {b \in ahead : b < boundary}
    OBVIOUS
  <2>2. PICK barrier : barrier = Min(bars \cup {boundary})
    OBVIOUS
  <2>3. barrier \in bars \cup {boundary}
    <3>1. bars \cup {boundary} \in SUBSET Nat /\ bars \cup {boundary} # {}
      BY <2>1
    <3>2. QED BY <2>2, <3>1, MinOfNumbers
  <2>4. ~(plan.low + size > barrier)
    BY <1>1, <1>2, <1>4, <1>10, <2>1, <2>3
  <2>5. \E v : next = IF plan.low + size > barrier THEN [plan EXCEPT !.verdict = v]
                      ELSE [plan EXCEPT !.low = plan.low + size, !.to[o] = plan.low]
    BY <1>1, <1>3, <1>5, <1>10, <2>1, <2>2 DEF SplitStep
  <2>6. plan.low + size \in Nat
    BY <1>2
  <2>7. QED BY <1>5, <1>6, <2>4, <2>5, <2>6
<1>11. QED BY <1>7, <1>8, <1>9, <1>10

(* Where the planner gives NoSpace, nothing pinned is ahead in that half.  *)
LEMMA NoSpaceIs ==
  ASSUME TypeOK, NEW R \in SUBSET Objects, NEW boundary \in Nat, NEW hi \in Nat,
         NEW plan \in SplitRecord(R), plan.verdict = "plan", NEW o \in R,
         SplitStep(R, boundary, hi, plan, o).verdict = "NoSpace"
  PROVE  IF Upper(o, boundary) THEN plan.up + obj[o].size > hi
                               ELSE plan.low + obj[o].size > boundary
<1>1. PICK start \in Nat, size \in Nat : start = obj[o].start /\ size = obj[o].size
  BY ObjTypes
<1>2. PICK next : next = SplitStep(R, boundary, hi, plan, o) /\ next.verdict = "NoSpace"
  OBVIOUS
<1>3. /\ [plan EXCEPT !.verdict = "PinnedConflict"].verdict # "NoSpace"
      /\ \A a \in Nat : /\ [plan EXCEPT !.low = a].verdict # "NoSpace"
                        /\ [plan EXCEPT !.up = a].verdict # "NoSpace"
                        /\ [plan EXCEPT !.low = a, !.to[o] = plan.low].verdict # "NoSpace"
                        /\ [plan EXCEPT !.up = a, !.to[o] = plan.up].verdict # "NoSpace"
  BY DEF SplitRecord
<1>4. plan.low \in Nat /\ plan.up \in Nat
  BY DEF SplitRecord
<1>5. Min({hi}) = hi /\ Min({boundary}) = boundary
  <2>1. {hi} \in SUBSET Nat /\ {hi} # {} /\ {boundary} \in SUBSET Nat /\ {boundary} # {}
    OBVIOUS
  <2>2. Min({hi}) \in {hi}
    BY <2>1, MinOfNumbers
  <2>3. Min({boundary}) \in {boundary}
    BY <2>1, MinOfNumbers
  <2>4. QED BY <2>2, <2>3
<1>6. CASE obj[o].pinned
  <2>1. \/ next = [plan EXCEPT !.verdict = "PinnedConflict"]
        \/ next = [plan EXCEPT !.up = start + size]
        \/ next = [plan EXCEPT !.low = start + size]
    BY <1>1, <1>2, <1>6 DEF SplitStep
  <2>2. start + size \in Nat
    OBVIOUS
  <2>3. QED BY <1>2, <1>3, <2>1, <2>2
<1>7. CASE ~obj[o].pinned /\ Upper(o, boundary)
  <2>1. PICK bars : bars = PinnedAbove(R, start)
    OBVIOUS
  <2>2. next = IF plan.up + size > Min(bars \cup {hi})
               THEN [plan EXCEPT !.verdict = IF bars # {} THEN "PinnedConflict" ELSE "NoSpace"]
               ELSE [plan EXCEPT !.up = plan.up + size, !.to[o] = plan.up]
    BY <1>1, <1>2, <1>7, <2>1 DEF SplitStep
  <2>3. plan.up + size \in Nat
    BY <1>4
  <2>4. plan.up + size > Min(bars \cup {hi}) /\ bars = {}
    BY <1>2, <1>3, <2>2, <2>3
  <2>5. bars \cup {hi} = {hi}
    BY <2>4
  <2>6. QED BY <1>1, <1>5, <1>7, <2>4, <2>5
<1>8. CASE ~obj[o].pinned /\ ~Upper(o, boundary)
  <2>1. PICK bars : bars = {b \in PinnedAbove(R, start) : b < boundary}
    OBVIOUS
  <2>2. next = IF plan.low + size > Min(bars \cup {boundary})
               THEN [plan EXCEPT !.verdict = IF bars # {} THEN "PinnedConflict" ELSE "NoSpace"]
               ELSE [plan EXCEPT !.low = plan.low + size, !.to[o] = plan.low]
    BY <1>1, <1>2, <1>8, <2>1 DEF SplitStep
  <2>3. plan.low + size \in Nat
    BY <1>4
  <2>4. plan.low + size > Min(bars \cup {boundary}) /\ bars = {}
    BY <1>2, <1>3, <2>2, <2>3
  <2>5. bars \cup {boundary} = {boundary}
    BY <2>4
  <2>6. QED BY <1>1, <1>5, <1>8, <2>4, <2>5
<1>9. QED BY <1>6, <1>7, <1>8

(* A layout of the two halves that keeps address order and pinned blocks.  *)
SplitFits(R, lo, boundary, hi, f) ==
  \A o \in R :
    /\ f[o] \in Nat
    /\ obj[o].pinned => f[o] = obj[o].start
    /\ IF Upper(o, boundary) THEN boundary <= f[o] /\ f[o] + obj[o].size <= hi
                             ELSE lo <= f[o] /\ f[o] + obj[o].size <= boundary
    /\ \A q \in R : obj[q].start < obj[o].start => f[q] + obj[q].size <= f[o]

(* After k blocks the planner still goes on, and the cursors are not past  *)
(* where the layout f has the others.                                      *)
Keeps(boundary, seq, N, f, plan, k) ==
  /\ plan.verdict = "plan"
  /\ \A i \in 1 .. N : k < i => IF Upper(seq[i], boundary) THEN plan.up <= f[seq[i]]
                                                           ELSE plan.low <= f[seq[i]]

LEMMA FitStep ==
  ASSUME TypeOK, NEW R \in SUBSET Objects, NEW lo \in Nat, NEW boundary \in Nat, NEW hi \in Nat,
         NEW N \in Nat, NEW seq \in [1 .. N -> R],
         \A i, j \in 1 .. N : i < j => obj[seq[i]].start < obj[seq[j]].start,
         NEW f, SplitFits(R, lo, boundary, hi, f),
         NEW k \in 0 .. N - 1, NEW plan \in SplitRecord(R), Keeps(boundary, seq, N, f, plan, k),
         NEW next, next = SplitStep(R, boundary, hi, plan, seq[k + 1])
  PROVE  Keeps(boundary, seq, N, f, next, k + 1)
<1>1. k + 1 \in 1 .. N /\ k < k + 1
  OBVIOUS
<1>2. PICK o \in R : o = seq[k + 1]
  BY <1>1
<1>3. PICK start \in Nat, size \in Nat : start = obj[o].start /\ size = obj[o].size
  BY ObjTypes
<1>4. PICK at \in Nat : at = f[o]
  BY DEF SplitFits
<1>5. plan.verdict = "plan" /\ plan.low \in Nat /\ plan.up \in Nat
  BY DEF Keeps, SplitRecord
<1>6. /\ obj[o].pinned => at = start
      /\ IF Upper(o, boundary) THEN boundary <= at /\ at + size <= hi ELSE at + size <= boundary
  BY <1>3, <1>4 DEF SplitFits
<1>7. IF Upper(o, boundary) THEN plan.up <= at ELSE plan.low <= at
  BY <1>1, <1>2, <1>4 DEF Keeps
<1>8. \A q \in R : start < obj[q].start => at + size <= f[q]
  BY <1>3, <1>4 DEF SplitFits
<1>9. \A b \in PinnedAbove(R, start) : at + size <= b
  <2>1. SUFFICES ASSUME NEW b \in PinnedAbove(R, start)
                 PROVE  at + size <= b
    OBVIOUS
  <2>2. PICK q \in R : obj[q].pinned /\ obj[q].start > start /\ b = obj[q].start
    BY DEF PinnedAbove
  <2>3. f[q] = obj[q].start
    BY <2>2 DEF SplitFits
  <2>4. start < obj[q].start
    BY <2>2, ObjTypes
  <2>5. QED BY <1>8, <2>2, <2>3, <2>4
<1>10. next = SplitStep(R, boundary, hi, plan, o)
  BY <1>2
<1>11. next.verdict = "plan"
  <2>1. IF Upper(o, boundary) THEN boundary <= at /\ plan.up <= at /\ at + obj[o].size <= hi
                              ELSE plan.low <= at /\ at + obj[o].size <= boundary
    BY <1>3, <1>6, <1>7
  <2>2. obj[o].pinned => at = obj[o].start
    BY <1>3, <1>6
  <2>3. \A b \in PinnedAbove(R, obj[o].start) : at + obj[o].size <= b
    BY <1>3, <1>9
  <2>4. SplitStep(R, boundary, hi, plan, o).verdict = "plan"
    BY <1>5, <2>1, <2>2, <2>3, SplitGoesOn
  <2>5. QED BY <1>10, <2>4
<1>12. StepsOn(R, boundary, hi, plan, o, next)
  BY <1>10, <1>11, SplitStepIs
<1>13. ASSUME NEW i \in 1 .. N, k + 1 < i
       PROVE  IF Upper(seq[i], boundary) THEN next.up <= f[seq[i]] ELSE next.low <= f[seq[i]]
  <2>1. PICK q \in R : q = seq[i]
    OBVIOUS
  <2>2. PICK there \in Nat : there = f[q]
    BY DEF SplitFits
  <2>3. start < obj[q].start
    BY <1>1, <1>2, <1>3, <1>13, <2>1
  <2>4. at + size <= there
    BY <1>8, <2>2, <2>3
  <2>5. IF Upper(q, boundary) THEN plan.up <= there ELSE plan.low <= there
    <3>1. k < i
      BY <1>13
    <3>2. QED BY <2>1, <2>2, <3>1 DEF Keeps
  <2>6. CASE Upper(o, boundary)
    <3>1. next.low = plan.low /\ ((next.up = start + size /\ at = start) \/ next.up = plan.up + size)
      BY <1>3, <1>6, <1>12, <2>6 DEF StepsOn
    <3>2. next.up <= there
      BY <1>5, <1>7, <2>4, <2>6, <3>1
    <3>3. QED BY <2>1, <2>2, <2>5, <3>1, <3>2
  <2>7. CASE ~Upper(o, boundary)
    <3>1. next.up = plan.up /\ ((next.low = start + size /\ at = start) \/ next.low = plan.low + size)
      BY <1>3, <1>6, <1>12, <2>7 DEF StepsOn
    <3>2. next.low <= there
      BY <1>5, <1>7, <2>4, <2>7, <3>1
    <3>3. QED BY <2>1, <2>2, <2>5, <3>1, <3>2
  <2>8. QED BY <2>6, <2>7
<1>14. QED BY <1>11, <1>13 DEF Keeps

(* The upper blocks among the first k.                                     *)
UpDone(boundary, seq, N, k) == {seq[i] : i \in {j \in 1 .. N : j <= k /\ Upper(seq[j], boundary)}}

Uppers(R, boundary) == {o \in R : Upper(o, boundary)}

UpAdds(R, boundary, seq, N, k, o) ==
  /\ UpDone(boundary, seq, N, k) \in SUBSET Uppers(R, boundary)
  /\ IF Upper(o, boundary)
     THEN /\ o \notin UpDone(boundary, seq, N, k)
          /\ UpDone(boundary, seq, N, k + 1) = UpDone(boundary, seq, N, k) \cup {o}
     ELSE UpDone(boundary, seq, N, k + 1) = UpDone(boundary, seq, N, k)

LEMMA UpGrows ==
  ASSUME TypeOK, NEW R \in SUBSET Objects, NEW boundary \in Nat, NEW N \in Nat,
         NEW seq \in [1 .. N -> R],
         \A i, j \in 1 .. N : i < j => obj[seq[i]].start < obj[seq[j]].start,
         NEW k \in 0 .. N - 1, NEW o \in R, o = seq[k + 1]
  PROVE  UpAdds(R, boundary, seq, N, k, o)
<1>1. k + 1 \in 1 .. N /\ \A j \in 1 .. N : j <= k + 1 <=> (j <= k \/ j = k + 1)
  OBVIOUS
<1>2. UpDone(boundary, seq, N, k) \in SUBSET Uppers(R, boundary)
  BY DEF UpDone, Uppers
<1>3. ASSUME Upper(o, boundary)
      PROVE  UpDone(boundary, seq, N, k + 1) = UpDone(boundary, seq, N, k) \cup {o}
  <2>1. \A j \in 1 .. N : j <= k + 1 /\ Upper(seq[j], boundary)
                          <=> (j <= k /\ Upper(seq[j], boundary)) \/ j = k + 1
    BY <1>1, <1>3
  <2>2. QED BY <1>1, <2>1 DEF UpDone
<1>4. ASSUME ~Upper(o, boundary)
      PROVE  UpDone(boundary, seq, N, k + 1) = UpDone(boundary, seq, N, k)
  <2>1. \A j \in 1 .. N : j <= k + 1 /\ Upper(seq[j], boundary)
                          <=> j <= k /\ Upper(seq[j], boundary)
    BY <1>1, <1>4
  <2>2. QED BY <2>1 DEF UpDone
<1>5. o \notin UpDone(boundary, seq, N, k)
  <2>1. SUFFICES ASSUME NEW i \in 1 .. N, i <= k, seq[i] = o
                 PROVE  FALSE
    BY DEF UpDone
  <2>2. i < k + 1
    BY <2>1
  <2>3. obj[o].start < obj[o].start /\ obj[o].start \in Nat
    BY <1>1, <2>1, <2>2, ObjTypes
  <2>4. QED BY <2>3
<1>6. QED BY <1>2, <1>3, <1>4, <1>5 DEF UpAdds

(* After k blocks the lower cursor is not past the others of its half; the *)
(* upper one is where those placed end when packed from the boundary, or   *)
(* not past the others; and NoSpace was given for too much of them.        *)
Counted(R, boundary, hi, seq, N, plan, k) ==
  /\ plan.verdict = "plan" =>
       /\ \A i \in 1 .. N : k < i /\ ~Upper(seq[i], boundary) => plan.low <= obj[seq[i]].start
       /\ \/ plan.up = boundary + Total(Sizes, UpDone(boundary, seq, N, k))
          \/ \A i \in 1 .. N : k < i /\ Upper(seq[i], boundary) => plan.up <= obj[seq[i]].start
  /\ plan.verdict = "NoSpace" => boundary + Total(Sizes, Uppers(R, boundary)) > hi

LEMMA CountStep ==
  ASSUME TypeOK, NEW R \in SUBSET Objects, NEW lo \in Nat, NEW boundary \in Nat, NEW hi \in Nat,
         lo <= hi, Placement(Here(R), lo, hi),
         NEW N \in Nat, NEW seq \in [1 .. N -> R],
         \A i, j \in 1 .. N : i < j => obj[seq[i]].start < obj[seq[j]].start,
         NEW k \in 0 .. N - 1, NEW plan \in SplitRecord(R),
         Counted(R, boundary, hi, seq, N, plan, k),
         NEW next, next = SplitStep(R, boundary, hi, plan, seq[k + 1])
  PROVE  Counted(R, boundary, hi, seq, N, next, k + 1)
<1>1. k + 1 \in 1 .. N /\ k < k + 1
  OBVIOUS
<1>2. PICK o \in R : o = seq[k + 1]
  BY <1>1
<1>3. PICK start \in Nat, size \in Nat : start = obj[o].start /\ size = obj[o].size
  BY ObjTypes
<1>4. next = SplitStep(R, boundary, hi, plan, o)
  BY <1>2
<1>5. plan.low \in Nat /\ plan.up \in Nat
      /\ plan.verdict \in {"plan", "PinnedConflict", "NoSpace"}
  BY DEF SplitRecord
<1>6. PICK done : done = UpDone(boundary, seq, N, k)
  OBVIOUS
<1>7. PICK ups : ups = Uppers(R, boundary)
  OBVIOUS
<1>8. /\ done \in SUBSET ups
      /\ IF Upper(o, boundary)
         THEN o \notin done /\ UpDone(boundary, seq, N, k + 1) = done \cup {o}
         ELSE UpDone(boundary, seq, N, k + 1) = done
  <2>1. UpAdds(R, boundary, seq, N, k, o)
    BY <1>2, UpGrows
  <2>2. QED BY <1>6, <1>7, <2>1 DEF UpAdds
<1>9. ups \in SUBSET Objects /\ (Upper(o, boundary) => done \cup {o} \in SUBSET ups)
  BY <1>7, <1>8 DEF Uppers
<1>10. PICK sum \in Nat : sum = Total(Sizes, done)
  BY <1>8, <1>9, SizesType
<1>11. PICK all \in Nat : all = Total(Sizes, ups)
  BY <1>9, SizesType
<1>12. Upper(o, boundary) => Total(Sizes, done \cup {o}) = sum + size /\ sum + size <= all
  <2>1. SUFFICES ASSUME Upper(o, boundary)
                 PROVE  Total(Sizes, done \cup {o}) = sum + size /\ sum + size <= all
    OBVIOUS
  <2>2. /\ done \in SUBSET Objects /\ done \cup {o} \in SUBSET Objects /\ o \notin done
        /\ done \cup {o} \in SUBSET ups
    BY <1>8, <1>9, <2>1
  <2>3. IsFiniteSet(done) /\ (\A x \in done \cup {o} : Sizes[x] \in Nat)
    BY <2>2, SizesType
  <2>4. Total(Sizes, done \cup {o}) = Total(Sizes, done) + Sizes[o]
    BY <2>2, <2>3, TotalAdd
  <2>5. Sizes[o] = size
    BY <1>3, SizesType
  <2>6. IsFiniteSet(ups) /\ \A x \in ups : Sizes[x] \in Nat
    BY <1>9, SizesType
  <2>7. \A x \in done \cup {o} : Sizes[x] \in Nat /\ (Sizes[x] # 0 => x \in ups /\ Sizes[x] <= Sizes[x])
    BY <2>2, <2>3
  <2>8. Total(Sizes, done \cup {o}) <= Total(Sizes, ups)
    BY <2>6, <2>7, TotalMonotone
  <2>9. QED BY <1>10, <1>11, <2>4, <2>5, <2>8
<1>13. /\ start + size <= hi
       /\ Upper(o, boundary) <=> start + size > boundary
  <2>1. start + size <= hi
    BY <1>3, PlacedOrder
  <2>2. QED BY <1>3, <2>1 DEF Upper
<1>14. CASE plan.verdict # "plan"
  <2>1. next = plan
    BY <1>4, <1>14 DEF SplitStep
  <2>2. QED BY <1>14, <2>1 DEF Counted
<1>15. CASE plan.verdict = "plan" /\ next.verdict = "NoSpace"
  <2>1. IF Upper(o, boundary) THEN plan.up + size > hi ELSE plan.low + size > boundary
    BY <1>3, <1>4, <1>15, NoSpaceIs
  <2>2. CASE ~Upper(o, boundary)
    <3>1. plan.low <= start
      BY <1>1, <1>2, <1>3, <1>15, <2>2 DEF Counted
    <3>2. FALSE
      BY <1>5, <1>13, <2>1, <2>2, <3>1
    <3>3. QED BY <3>2
  <2>3. CASE Upper(o, boundary)
    <3>1. plan.up = boundary + sum \/ plan.up <= start
      BY <1>1, <1>2, <1>3, <1>6, <1>10, <1>15, <2>3 DEF Counted
    <3>2. plan.up = boundary + sum
      BY <1>5, <1>13, <2>1, <2>3, <3>1
    <3>3. boundary + all > hi
      BY <1>12, <2>1, <2>3, <3>2
    <3>4. next.verdict # "plan"
      BY <1>15
    <3>5. QED BY <1>7, <1>11, <3>3, <3>4 DEF Counted
  <2>4. QED BY <2>2, <2>3
<1>16. CASE next.verdict \notin {"plan", "NoSpace"}
  BY <1>16 DEF Counted
<1>17. CASE plan.verdict = "plan" /\ next.verdict = "plan"
  <2>1. StepsOn(R, boundary, hi, plan, o, next)
    BY <1>4, <1>17, SplitStepIs
  <2>2. \A i \in 1 .. N : k + 1 < i => k < i /\ start + size <= obj[seq[i]].start
                                    /\ obj[seq[i]].start \in Nat
    <3>1. SUFFICES ASSUME NEW i \in 1 .. N, k + 1 < i
                   PROVE  k < i /\ start + size <= obj[seq[i]].start /\ obj[seq[i]].start \in Nat
      OBVIOUS
    <3>2. PICK q \in R : q = seq[i]
      OBVIOUS
    <3>3. obj[o].start < obj[q].start
      BY <1>1, <1>2, <3>1, <3>2
    <3>4. obj[o].start + obj[o].size <= obj[q].start /\ obj[q].start \in Nat
      BY <3>3, PlacedOrder
    <3>5. QED BY <1>3, <3>1, <3>2, <3>4
  <2>3. /\ \A i \in 1 .. N : k < i /\ ~Upper(seq[i], boundary) => plan.low <= obj[seq[i]].start
        /\ \/ plan.up = boundary + sum
           \/ \A i \in 1 .. N : k < i /\ Upper(seq[i], boundary) => plan.up <= obj[seq[i]].start
    BY <1>6, <1>10, <1>17 DEF Counted
  <2>4. CASE Upper(o, boundary)
    <3>1. next.low = plan.low /\ (next.up = start + size \/ next.up = plan.up + size)
      BY <1>3, <2>1, <2>4 DEF StepsOn
    <3>2. next.up = boundary + (sum + size) \/ next.up <= start + size
      <4>1. plan.up = boundary + sum \/ plan.up <= start
        BY <1>1, <1>2, <1>3, <2>3, <2>4
      <4>2. QED BY ONLY <1>5, <3>1, <4>1, start \in Nat, size \in Nat, sum \in Nat, boundary \in Nat
    <3>3. next.up \in Nat
      BY <1>5, <3>1
    <3>4. \/ next.up = boundary + Total(Sizes, UpDone(boundary, seq, N, k + 1))
          \/ \A i \in 1 .. N : k + 1 < i /\ Upper(seq[i], boundary) => next.up <= obj[seq[i]].start
      <4>1. CASE next.up = boundary + (sum + size)
        BY <1>8, <1>12, <2>4, <4>1
      <4>2. CASE next.up <= start + size
        BY <2>2, <3>3, <4>2
      <4>3. QED BY <3>2, <4>1, <4>2
    <3>5. \A i \in 1 .. N : k + 1 < i /\ ~Upper(seq[i], boundary) => next.low <= obj[seq[i]].start
      BY <2>2, <2>3, <3>1
    <3>6. next.verdict # "NoSpace"
      BY <1>17
    <3>7. QED BY <3>4, <3>5, <3>6 DEF Counted
  <2>5. CASE ~Upper(o, boundary)
    <3>1. next.up = plan.up /\ (next.low = start + size \/ next.low = plan.low + size)
      BY <1>3, <2>1, <2>5 DEF StepsOn
    <3>2. plan.low <= start
      BY <1>1, <1>2, <1>3, <2>3, <2>5
    <3>3. next.low \in Nat /\ next.low <= start + size
      BY <1>5, <3>1, <3>2
    <3>4. \A i \in 1 .. N : k + 1 < i /\ ~Upper(seq[i], boundary) => next.low <= obj[seq[i]].start
      BY <2>2, <3>3
    <3>5. \/ next.up = boundary + Total(Sizes, UpDone(boundary, seq, N, k + 1))
          \/ \A i \in 1 .. N : k + 1 < i /\ Upper(seq[i], boundary) => next.up <= obj[seq[i]].start
      <4>1. UpDone(boundary, seq, N, k + 1) = done
        BY <1>8, <2>5
      <4>2. QED BY <1>10, <2>2, <2>3, <3>1, <4>1
    <3>6. next.verdict # "NoSpace"
      BY <1>17
    <3>7. QED BY <3>4, <3>5, <3>6 DEF Counted
  <2>6. QED BY <2>4, <2>5
<1>18. QED BY <1>14, <1>15, <1>16, <1>17

(* The planner over all blocks: a layout that fits is never refused, and   *)
(* NoSpace is given only when the upper half is too small.                 *)
LEMMA SplitJudges ==
  ASSUME HeapInv, NEW p \in Pools, Exists(p), NEW boundary \in Nat,
         NEW R, R = Residents(p), NEW lo, lo = Lo(pool[p]), NEW hi, hi = Hi(pool[p]),
         lo <= boundary, boundary <= hi,
         NEW plan, plan = SplitPlan(p, boundary)
  PROVE  /\ \A f : SplitFits(R, lo, boundary, hi, f) => plan.verdict = "plan"
         /\ plan.verdict = "NoSpace" => boundary + Total(Sizes, Uppers(R, boundary)) > hi
<1>1. /\ TypeOK /\ lo \in Nat /\ hi \in Nat /\ lo <= hi /\ R \in SUBSET Objects
      /\ Placement(Here(R), lo, hi)
  BY PoolWindow, PlacedHere DEF Residents
<1>2. \A o, q \in R : obj[o].start = obj[q].start => o = q
  BY <1>1, PlacedOrder
<1>3. PICK N \in Nat : N = Cardinality(R)
  BY <1>1, <1>2, AddressOrder
<1>4. PICK seq \in [1 .. N -> R] : seq = ByAddress(R)
  BY <1>1, <1>2, <1>3, AddressOrder
<1>5. \A i, j \in 1 .. N : i < j => obj[seq[i]].start < obj[seq[j]].start
  <2>1. InOrder(R, N, seq)
    BY <1>1, <1>2, <1>3, <1>4, AddressOrder DEF InOrder
  <2>2. QED BY <2>1 DEF InOrder
<1>6. SplitRun(p, boundary, N, seq, plan)
  <2>1. seq \in [1 .. N -> Residents(p)] /\ seq = ByAddress(Residents(p))
    BY <1>4
  <2>2. Lo(pool[p]) \in Nat /\ Hi(pool[p]) \in Nat
    BY <1>1
  <2>3. QED BY <1>1, <2>1, <2>2, SplitRuns
<1>7. PICK run \in [0 .. N -> SplitRecord(R)] :
        /\ run[0] = FirstSplit(R, lo, boundary)
        /\ \A k \in 1 .. N : run[k] = SplitStep(R, boundary, hi, run[k - 1], seq[k])
        /\ run[N] = plan
  BY <1>6 DEF SplitRun
<1>8. \A i \in 1 .. N : seq[i] \in R
  OBVIOUS
<1>9. \A k \in 0 .. N - 1 : /\ k + 1 \in 1 .. N /\ k \in 0 .. N /\ k + 1 \in 0 .. N
                            /\ run[k] \in SplitRecord(R)
                            /\ run[k + 1] = SplitStep(R, boundary, hi, run[k], seq[k + 1])
  <2>1. SUFFICES ASSUME NEW k \in 0 .. N - 1
                 PROVE  /\ k + 1 \in 1 .. N /\ k \in 0 .. N /\ k + 1 \in 0 .. N
                        /\ run[k] \in SplitRecord(R)
                        /\ run[k + 1] = SplitStep(R, boundary, hi, run[k], seq[k + 1])
    OBVIOUS
  <2>2. k + 1 \in 1 .. N /\ k \in 0 .. N /\ k + 1 \in 0 .. N /\ (k + 1) - 1 = k
    OBVIOUS
  <2>3. run[k + 1] = SplitStep(R, boundary, hi, run[(k + 1) - 1], seq[k + 1])
    BY <1>7, <2>2
  <2>4. QED BY <2>2, <2>3
<1>10. run[0].verdict = "plan" /\ run[0].low = lo /\ run[0].up = boundary
  BY <1>7 DEF FirstSplit
<1>11. ASSUME NEW f, SplitFits(R, lo, boundary, hi, f)
       PROVE  plan.verdict = "plan"
  <2> DEFINE Good == {k \in 0 .. N : Keeps(boundary, seq, N, f, run[k], k)}
  <2>1. 0 \in Good
    <3>1. \A i \in 1 .. N : IF Upper(seq[i], boundary) THEN boundary <= f[seq[i]]
                                                       ELSE lo <= f[seq[i]]
      BY <1>8, <1>11 DEF SplitFits
    <3>2. Keeps(boundary, seq, N, f, run[0], 0)
      BY <1>10, <3>1 DEF Keeps
    <3>3. QED BY <3>2
  <2>2. ASSUME NEW k \in 0 .. N - 1, k \in Good
        PROVE  k + 1 \in Good
    <3>1. Keeps(boundary, seq, N, f, run[k], k)
      BY <2>2
    <3>2. run[k] \in SplitRecord(R) /\ run[k + 1] = SplitStep(R, boundary, hi, run[k], seq[k + 1])
      BY <1>9
    <3>3. Keeps(boundary, seq, N, f, run[k + 1], k + 1)
      BY <1>1, <1>5, <1>11, <3>1, <3>2, FitStep
    <3>4. QED BY <1>9, <3>3
  <2> HIDE DEF Good
  <2>3. \A k \in 0 .. N : k \in Good
    BY <2>1, <2>2, UpTo
  <2>4. N \in Good
    BY <2>3
  <2>5. QED BY <1>7, <2>4 DEF Good, Keeps
<1>12. plan.verdict = "NoSpace" => boundary + Total(Sizes, Uppers(R, boundary)) > hi
  <2> DEFINE Good == {k \in 0 .. N : Counted(R, boundary, hi, seq, N, run[k], k)}
  <2>1. 0 \in Good
    <3>1. \A i \in 1 .. N : lo <= obj[seq[i]].start
      BY <1>1, <1>8, PlacedOrder
    <3>2. UpDone(boundary, seq, N, 0) = {}
      BY DEF UpDone
    <3>3. boundary = boundary + Total(Sizes, UpDone(boundary, seq, N, 0))
      <4>1. Total(Sizes, UpDone(boundary, seq, N, 0)) = 0
        BY <3>2, TotalEmpty
      <4>2. QED BY <4>1
    <3>4. Counted(R, boundary, hi, seq, N, run[0], 0)
      BY <1>10, <3>1, <3>3 DEF Counted
    <3>5. QED BY <3>4
  <2>2. ASSUME NEW k \in 0 .. N - 1, k \in Good
        PROVE  k + 1 \in Good
    <3>1. Counted(R, boundary, hi, seq, N, run[k], k)
      BY <2>2
    <3>2. run[k] \in SplitRecord(R) /\ run[k + 1] = SplitStep(R, boundary, hi, run[k], seq[k + 1])
      BY <1>9
    <3>3. Counted(R, boundary, hi, seq, N, run[k + 1], k + 1)
      BY <1>1, <1>5, <3>1, <3>2, CountStep
    <3>4. QED BY <1>9, <3>3
  <2> HIDE DEF Good
  <2>3. \A k \in 0 .. N : k \in Good
    BY <2>1, <2>2, UpTo
  <2>4. N \in Good
    BY <2>3
  <2>5. QED BY <1>7, <2>4 DEF Good, Counted
<1>13. QED BY <1>11, <1>12

LEMMA BoundaryInside ==
  ASSUME HeapInv, NEW p \in Pools, NEW k \in 1 .. pool[p].count - 1
  PROVE  /\ Exists(p) /\ (pool[p].first + k) * SegUnits \in Nat
         /\ Lo(pool[p]) <= (pool[p].first + k) * SegUnits
         /\ (pool[p].first + k) * SegUnits <= Hi(pool[p])
<1>1. TypeOK
  BY DEF HeapInv
<1>2. PICK first \in Nat, count \in Nat : first = pool[p].first /\ count = pool[p].count
  BY <1>1, PoolTypes
<1>3. /\ k \in Nat /\ count > 0 /\ first + k \in Nat /\ first + count \in Nat
      /\ first <= first + k /\ first + k <= first + count
  BY <1>2
<1>4. first * SegUnits <= (first + k) * SegUnits /\ (first + k) * SegUnits \in Nat
  BY <1>3, Scaled
<1>5. (first + k) * SegUnits <= (first + count) * SegUnits
  BY <1>3, Scaled
<1>6. QED BY <1>2, <1>3, <1>4, <1>5 DEF Exists, Lo, Hi

(* What is to hold of one boundary.                                        *)
Refusable(R, lo, boundary, hi, verdict, movable) ==
  /\ verdict = "NoSpace" => UnitsOf(Crossing(R, boundary)) > hi - boundary
  /\ verdict # "plan" => \A g \in [movable -> lo .. hi - MinBlock] :
       ~FitsHalves(R, lo, boundary, hi,
                   [o \in R |-> IF o \in movable THEN g[o] ELSE obj[o].start])

LEMMA RefusalsHold ==
  ASSUME HeapInv
  PROVE  SplitRefusesOnlyImpossible
<1>0. (\A p \in Pools : \A k \in 1 .. pool[p].count - 1 :
         Refusable(Residents(p), Lo(pool[p]), (pool[p].first + k) * SegUnits, Hi(pool[p]),
                   SplitPlan(p, (pool[p].first + k) * SegUnits).verdict,
                   {o \in Residents(p) : ~obj[o].pinned}))
      => SplitRefusesOnlyImpossible
  BY DEF SplitRefusesOnlyImpossible, Refusable
<1>1. SUFFICES ASSUME NEW p \in Pools, NEW k \in 1 .. pool[p].count - 1,
                      NEW boundary, boundary = (pool[p].first + k) * SegUnits,
                      NEW R, R = Residents(p), NEW lo, lo = Lo(pool[p]), NEW hi, hi = Hi(pool[p]),
                      NEW verdict, verdict = SplitPlan(p, boundary).verdict,
                      NEW movable, movable = {o \in R : ~obj[o].pinned}
               PROVE  Refusable(R, lo, boundary, hi, verdict, movable)
  BY <1>0
<1>2. Exists(p) /\ boundary \in Nat /\ lo <= boundary /\ boundary <= hi
  BY <1>1, BoundaryInside
<1>3. /\ TypeOK /\ lo \in Nat /\ hi \in Nat /\ lo <= hi /\ R \in SUBSET Objects
  BY <1>1, <1>2, PoolWindow DEF Residents
<1>4. /\ \A f : SplitFits(R, lo, boundary, hi, f) => verdict = "plan"
      /\ verdict = "NoSpace" => boundary + Total(Sizes, Uppers(R, boundary)) > hi
  <2>1. PICK plan : plan = SplitPlan(p, boundary) /\ verdict = plan.verdict
    BY <1>1
  <2>2. /\ \A f : SplitFits(R, lo, boundary, hi, f) => plan.verdict = "plan"
        /\ plan.verdict = "NoSpace" => boundary + Total(Sizes, Uppers(R, boundary)) > hi
    BY <1>1, <1>2, <2>1, SplitJudges
  <2>3. QED BY <2>1, <2>2
<1>5. \A o \in R : obj[o].start \in Nat /\ obj[o].size \in Nat
  BY <1>3, ObjTypes
<1>6. PICK up : up = Crossing(R, boundary) /\ up = Uppers(R, boundary)
                /\ \A o \in R : Upper(o, boundary) <=> o \in up
  <2>1. Crossing(R, boundary) = Uppers(R, boundary)
    BY DEF Crossing, Uppers, Upper
  <2>2. \A o \in R : Upper(o, boundary) <=> o \in Uppers(R, boundary)
    BY DEF Uppers
  <2>3. QED BY <2>1, <2>2
<1>7. verdict = "NoSpace" => UnitsOf(up) > hi - boundary
  <2>1. up \in SUBSET Objects
    BY <1>3, <1>6 DEF Uppers
  <2>2. UnitsOf(up) = Total(Sizes, up) /\ Total(Sizes, up) \in Nat
    BY <1>3, <2>1, UnitsSum, SizesType
  <2>3. QED BY <1>2, <1>3, <1>4, <1>6, <2>2
<1>8. ASSUME NEW g \in [movable -> lo .. hi - MinBlock], NEW f,
             f = [o \in R |-> IF o \in movable THEN g[o] ELSE obj[o].start],
             FitsHalves(R, lo, boundary, hi, f)
      PROVE  verdict = "plan"
  <2>1. \A o \in R : f[o] \in Nat /\ (obj[o].pinned => f[o] = obj[o].start)
    <3>1. \A o \in movable : g[o] \in Nat
      BY <1>3 DEF MinBlock
    <3>2. \A o \in R : f[o] = IF o \in movable THEN g[o] ELSE obj[o].start
      BY <1>8
    <3>3. \A o \in R : obj[o].pinned => o \notin movable
      BY <1>1
    <3>4. QED BY <1>5, <3>1, <3>2, <3>3
  <2>2. \A o \in R : /\ IF Upper(o, boundary) THEN boundary <= f[o] /\ f[o] + obj[o].size <= hi
                                              ELSE lo <= f[o] /\ f[o] + obj[o].size <= boundary
                     /\ \A q \in R : obj[q].start < obj[o].start => f[q] + obj[q].size <= f[o]
    BY <1>6, <1>8 DEF FitsHalves, EndIn
  <2>3. SplitFits(R, lo, boundary, hi, f)
    BY <2>1, <2>2 DEF SplitFits
  <2>4. QED BY <1>4, <2>3
<1>9. ASSUME verdict # "plan", NEW g \in [movable -> lo .. hi - MinBlock]
      PROVE  ~FitsHalves(R, lo, boundary, hi,
                         [o \in R |-> IF o \in movable THEN g[o] ELSE obj[o].start])
  <2>1. PICK f : f = [o \in R |-> IF o \in movable THEN g[o] ELSE obj[o].start]
    OBVIOUS
  <2>2. ~FitsHalves(R, lo, boundary, hi, f)
    BY <1>8, <1>9, <2>1
  <2>3. QED BY <2>1, <2>2
<1>10. QED BY <1>6, <1>7, <1>9 DEF Refusable

(* Split refuses a pool only when no placement that keeps the order of the *)
(* blocks and the pinned ones would fit the two halves, and reports        *)
(* NoSpace only when the upper blocks exceed their half.                   *)
THEOREM SplitRefusals == Spec => []SplitRefusesOnlyImpossible
BY HeapInvariant, RefusalsHold, PTL

-----------------------------------------------------------------------------
(* The advice's simulation of a compaction *)

EstimateRecord == [cursor : Nat, moves : Nat, bytes : Nat]
FirstEstimate(lo) == [cursor |-> lo, moves |-> 0, bytes |-> 0]

EstimateStep(e, o) ==
  IF obj[o].pinned THEN [e EXCEPT !.cursor = obj[o].start + obj[o].size]
  ELSE [cursor |-> e.cursor + obj[o].size,
        moves  |-> e.moves + (IF obj[o].start # e.cursor THEN 1 ELSE 0),
        bytes  |-> e.bytes + (IF obj[o].start # e.cursor THEN obj[o].size ELSE 0)]

LEMMA EstimateType ==
  ASSUME TypeOK, NEW o \in Objects, NEW e \in EstimateRecord
  PROVE  EstimateStep(e, o) \in EstimateRecord
<1>1. obj[o].start \in Nat /\ obj[o].size \in Nat
  BY ObjTypes
<1>2. e.cursor \in Nat /\ e.moves \in Nat /\ e.bytes \in Nat
  BY DEF EstimateRecord
<1>3. [e EXCEPT !.cursor = obj[o].start + obj[o].size] \in EstimateRecord
  BY <1>1 DEF EstimateRecord
<1>4. /\ e.cursor + obj[o].size \in Nat
      /\ e.moves + (IF obj[o].start # e.cursor THEN 1 ELSE 0) \in Nat
      /\ e.bytes + (IF obj[o].start # e.cursor THEN obj[o].size ELSE 0) \in Nat
  BY <1>1, <1>2
<1>5. QED BY <1>3, <1>4 DEF EstimateStep, EstimateRecord

(* The simulation, as the values it takes block by block.                  *)
LEMMA EstimateRuns ==
  ASSUME TypeOK, NEW p \in Pools, NEW R, R = Residents(p), NEW lo \in Nat, lo = Lo(pool[p]),
         NEW N \in Nat, NEW seq \in [1 .. N -> R], seq = ByAddress(R),
         NEW est, est = Estimate(p)
  PROVE  \E run \in [0 .. N -> EstimateRecord] :
           /\ run[0] = FirstEstimate(lo)
           /\ \A k \in 1 .. N : run[k] = EstimateStep(run[k - 1], seq[k])
           /\ run[N] = est
<1> DEFINE Step(x, o) == EstimateStep(x, o)
           V == EstimateRecord
           base == FirstEstimate(lo)
           step == [x \in V \X R |-> Step(x[1], x[2])]
           Eq(g) == g = [s \in SUBSET (1 .. N) |->
                           IF s = {} THEN base ELSE Step(g[s \ {Max(s)}], seq[Max(s)])]
           h == CHOOSE g : Eq(g)
<1>0. R \in SUBSET Objects
  BY DEF Residents
<1>1. Estimate(p) = h[1 .. N]
  <2>1. DOMAIN seq = 1 .. N
    OBVIOUS
  <2>2. QED BY <2>1 DEF Estimate, FoldLeft, MapThenFoldSet, FirstEstimate, EstimateStep
<1>2. base \in V
  BY DEF FirstEstimate, EstimateRecord
<1>3. step \in [V \X R -> V] /\ \A x \in V, o \in R : step[<<x, o>>] = Step(x, o)
  <2>1. \A x \in V, o \in R : Step(x, o) \in V
    BY <1>0, EstimateType
  <2> HIDE DEF V, Step
  <2>2. QED BY <2>1
<1>4. \A s \in SUBSET (1 .. N) : s # {} => s \ {Max(s)} \in SUBSET (1 .. N) /\ Max(s) \in 1 .. N
  <2>1. SUFFICES ASSUME NEW s \in SUBSET (1 .. N), s # {} PROVE Max(s) \in 1 .. N
    OBVIOUS
  <2>2. s \in SUBSET (0 .. N)
    OBVIOUS
  <2>3. Max(s) \in s
    BY <2>1, <2>2, MaxOfIndices
  <2>4. QED BY <2>3
<1> HIDE DEF step, base, V, Step
<1>5. PICK g \in [SUBSET (1 .. N) -> V] : FoldsTo(g, base, step, seq, N)
  BY <1>2, <1>3, FoldExists
<1>6. \A s \in SUBSET (1 .. N) :
        s # {} => step[<<g[s \ {Max(s)}], seq[Max(s)]>>] = Step(g[s \ {Max(s)}], seq[Max(s)])
  BY <1>3, <1>4
<1>7. Eq(g)
  <2>1. g = [s \in SUBSET (1 .. N) |->
               IF s = {} THEN base ELSE step[<<g[s \ {Max(s)}], seq[Max(s)]>>]]
    BY <1>5 DEF FoldsTo
  <2>2. [s \in SUBSET (1 .. N) |->
               IF s = {} THEN base ELSE step[<<g[s \ {Max(s)}], seq[Max(s)]>>]]
        = [s \in SUBSET (1 .. N) |->
               IF s = {} THEN base ELSE Step(g[s \ {Max(s)}], seq[Max(s)])]
    BY <1>6
  <2>3. QED BY <2>1, <2>2
<1>8. Eq(h)
  BY <1>7
<1> HIDE DEF h
<1> DEFINE W == {h[s] : s \in SUBSET (1 .. N)}
           walk == [x \in W \X R |-> Step(x[1], x[2])]
<1>9. \A s \in SUBSET (1 .. N), o \in R : walk[<<h[s], o>>] = Step(h[s], o)
  OBVIOUS
<1> HIDE DEF walk
<1>10. FoldsTo(h, base, walk, seq, N)
  <2>1. [s \in SUBSET (1 .. N) |->
               IF s = {} THEN base ELSE walk[<<h[s \ {Max(s)}], seq[Max(s)]>>]]
        = [s \in SUBSET (1 .. N) |->
               IF s = {} THEN base ELSE Step(h[s \ {Max(s)}], seq[Max(s)])]
    BY <1>4, <1>9
  <2>2. QED BY <1>8, <2>1 DEF FoldsTo
<1>11. h[1 .. 0] = base /\ \A k \in 1 .. N : h[1 .. k] = walk[<<h[1 .. k - 1], seq[k]>>]
  <2>1. N \in Nat
    OBVIOUS
  <2>2. QED BY ONLY <1>10, <2>1, FoldRuns
<1>12. \A k \in 1 .. N : h[1 .. k] = Step(h[1 .. k - 1], seq[k])
  <2>1. \A k \in 1 .. N : 1 .. k - 1 \in SUBSET (1 .. N)
    OBVIOUS
  <2>2. QED BY <1>9, <1>11, <2>1
<1> DEFINE run == [k \in 0 .. N |-> h[1 .. k]]
<1>13. /\ run[0] = base /\ run[N] = Estimate(p)
       /\ \A k \in 1 .. N : run[k] = Step(run[k - 1], seq[k])
  <2>1. 0 \in 0 .. N /\ N \in 0 .. N /\ \A k \in 1 .. N : k \in 0 .. N /\ k - 1 \in 0 .. N
    OBVIOUS
  <2>2. QED BY <1>1, <1>11, <1>12, <2>1
<1>14. \A k \in 0 .. N : run[k] \in V
  <2> DEFINE Typed == {k \in 0 .. N : run[k] \in V}
  <2>1. 0 \in Typed
    BY <1>2, <1>13
  <2>2. ASSUME NEW k \in 0 .. N - 1, k \in Typed
        PROVE  k + 1 \in Typed
    <3>1. k + 1 \in 1 .. N /\ (k + 1) - 1 = k /\ k + 1 \in 0 .. N
      OBVIOUS
    <3>2. run[k + 1] = Step(run[k], seq[k + 1])
      BY <1>13, <3>1
    <3>3. run[k] \in V /\ seq[k + 1] \in Objects
      BY <1>0, <2>2, <3>1
    <3> HIDE DEF run
    <3>4. run[k + 1] \in V
      BY <3>2, <3>3, EstimateType DEF Step, V
    <3>5. QED BY <3>1, <3>4
  <2> HIDE DEF Typed, run
  <2>3. \A k \in 0 .. N : k \in Typed
    BY <2>1, <2>2, UpTo
  <2>4. QED BY <2>3 DEF Typed
<1>15. run \in [0 .. N -> V]
  BY <1>14
<1> HIDE DEF run
<1>16. QED BY <1>13, <1>15 DEF Step, V, base

(* The simulation keeps step with the plan of a full compaction.           *)
Matches(e, plan) ==
  /\ plan.verdict = "plan"
  /\ e.cursor = plan.cursor /\ e.moves = plan.moves /\ e.bytes = plan.bytes

LEMMA FullStep ==
  ASSUME TypeOK, NEW R \in SUBSET Objects, NEW lo, NEW hi,
         NEW plan \in PlanRecord(R), NEW o \in R, plan.verdict = "plan",
         NEW next, next = CompactStep(R, lo, hi, NoRequest, plan, o),
         next.verdict \in {"plan", "cut"}
  PROVE  \/ PassedBy(plan, next, o) /\ (obj[o].pinned \/ obj[o].start = plan.cursor)
         \/ SlidDown(plan, next, o) /\ ~obj[o].pinned /\ obj[o].start # plan.cursor
<1> DEFINE barrier == Barrier(R, obj[o].start, hi)
           A == plan.cursor > obj[o].start
           B == plan.cursor + obj[o].size > barrier
           v == IF barrier < hi THEN "PinnedConflict" ELSE "NoSpace"
           kept == [plan EXCEPT !.cursor = obj[o].start + obj[o].size]
           slid == [plan EXCEPT !.cursor = plan.cursor + obj[o].size, !.to[o] = plan.cursor,
                                !.bytes = @ + obj[o].size, !.moves = @ + 1]
<1>1. Need(NoRequest) = 0 /\ ~Spent(plan, NoRequest, obj[o].size) /\ NoRequest.full
  BY DEF Need, Spent, NoRequest
<1>2. next =
        IF obj[o].pinned THEN
          IF A THEN [plan EXCEPT !.verdict = "PinnedConflict"] ELSE kept
        ELSE IF B THEN [plan EXCEPT !.verdict = v]
        ELSE IF obj[o].start = plan.cursor THEN kept
        ELSE slid
  BY <1>1 DEF CompactStep
<1>3. PassedBy(plan, kept, o) /\ SlidDown(plan, slid, o)
  BY DEF PlanRecord, PassedBy, SlidDown
<1>4. \A w \in {"PinnedConflict", "NoSpace"} : [plan EXCEPT !.verdict = w].verdict = w
  BY DEF PlanRecord
<1>5. v \in {"PinnedConflict", "NoSpace"}
  OBVIOUS
<1> HIDE DEF A, B, v, kept, slid
<1>6. QED BY <1>2, <1>3, <1>4, <1>5

LEMMA MatchStep ==
  ASSUME TypeOK, NEW R \in SUBSET Objects, NEW lo, NEW hi,
         NEW plan \in PlanRecord(R), NEW o \in R, NEW e \in EstimateRecord, Matches(e, plan),
         NEW next, next = CompactStep(R, lo, hi, NoRequest, plan, o),
         next.verdict \in {"plan", "cut"}
  PROVE  Matches(EstimateStep(e, o), next)
<1>1. plan.verdict = "plan" /\ e.cursor = plan.cursor /\ e.moves = plan.moves /\ e.bytes = plan.bytes
  BY DEF Matches
<1>2. \/ PassedBy(plan, next, o) /\ (obj[o].pinned \/ obj[o].start = plan.cursor)
      \/ SlidDown(plan, next, o) /\ ~obj[o].pinned /\ obj[o].start # plan.cursor
  BY <1>1, FullStep
<1>3. e.cursor \in Nat /\ e.moves \in Nat /\ e.bytes \in Nat
  BY DEF EstimateRecord
<1>4. CASE obj[o].pinned
  <2>1. EstimateStep(e, o) = [e EXCEPT !.cursor = obj[o].start + obj[o].size]
    BY <1>4 DEF EstimateStep
  <2>2. /\ EstimateStep(e, o).cursor = obj[o].start + obj[o].size
        /\ EstimateStep(e, o).moves = e.moves /\ EstimateStep(e, o).bytes = e.bytes
    BY <2>1 DEF EstimateRecord
  <2>3. PassedBy(plan, next, o)
    BY <1>2, <1>4
  <2>4. QED BY <1>1, <2>2, <2>3 DEF PassedBy, Matches
<1>5. CASE ~obj[o].pinned /\ obj[o].start = plan.cursor
  <2>1. /\ EstimateStep(e, o).cursor = e.cursor + obj[o].size
        /\ EstimateStep(e, o).moves = e.moves + 0 /\ EstimateStep(e, o).bytes = e.bytes + 0
    BY <1>1, <1>5 DEF EstimateStep
  <2>2. PassedBy(plan, next, o)
    BY <1>2, <1>5
  <2>3. QED BY <1>1, <1>3, <1>5, <2>1, <2>2 DEF PassedBy, Matches
<1>6. CASE ~obj[o].pinned /\ obj[o].start # plan.cursor
  <2>1. /\ EstimateStep(e, o).cursor = e.cursor + obj[o].size
        /\ EstimateStep(e, o).moves = e.moves + 1 /\ EstimateStep(e, o).bytes = e.bytes + obj[o].size
    BY <1>1, <1>6 DEF EstimateStep
  <2>2. SlidDown(plan, next, o)
    BY <1>2, <1>6
  <2>3. QED BY <1>1, <2>1, <2>2 DEF SlidDown, Matches
<1>7. QED BY <1>4, <1>5, <1>6

(* The first k blocks, and where a pass without pinned ones has put them.  *)
FirstOf(seq, k) == {seq[i] : i \in 1 .. k}
CursorAt(lo, seq, k) == lo + Total(Sizes, FirstOf(seq, k))

LEMMA FirstGrows ==
  ASSUME TypeOK, NEW R \in SUBSET Objects, NEW N \in Nat, NEW seq \in [1 .. N -> R],
         InOrder(R, N, seq), NEW k \in 0 .. N - 1, NEW lo \in Nat
  PROVE  /\ CursorAt(lo, seq, k + 1) = CursorAt(lo, seq, k) + obj[seq[k + 1]].size
         /\ CursorAt(lo, seq, k) \in Nat
<1>1. k \in Nat /\ k + 1 \in 1 .. N /\ \A i \in 1 .. k : i \in 1 .. N /\ i < k + 1
  OBVIOUS
<1>2. PICK o \in R : o = seq[k + 1]
  BY <1>1
<1>3. PICK D : D = FirstOf(seq, k)
  OBVIOUS
<1>4. FirstOf(seq, k + 1) = D \cup {o}
  <2>1. 1 .. k + 1 = (1 .. k) \cup {k + 1}
    BY <1>1
  <2>2. QED BY <1>2, <1>3, <2>1 DEF FirstOf
<1>5. D \in SUBSET R
  BY <1>1, <1>3 DEF FirstOf
<1>6. o \notin D
  <2>1. SUFFICES ASSUME NEW i \in 1 .. k, seq[i] = o
                 PROVE  FALSE
    BY <1>3 DEF FirstOf
  <2>2. obj[o].start < obj[o].start
    BY <1>1, <1>2, <2>1 DEF InOrder
  <2>3. obj[o].start \in Nat
    BY ObjTypes
  <2>4. QED BY <2>2, <2>3
<1>7. IsFiniteSet(D) /\ \A x \in D \cup {o} : Sizes[x] \in Nat
  <2>1. D \in SUBSET Objects
    BY <1>5
  <2>2. QED BY <2>1, SizesType
<1>8. Total(Sizes, D \cup {o}) = Total(Sizes, D) + Sizes[o]
  BY <1>6, <1>7, TotalAdd
<1>9. Total(Sizes, D) \in Nat
  <2>1. \A x \in D : Sizes[x] \in Nat
    BY <1>7
  <2>2. QED BY <1>7, <2>1, TotalType
<1>10. Sizes[o] = obj[o].size /\ obj[o].size \in Nat
  BY ObjTypes, SizesType
<1>11. PICK t \in Nat, n \in Nat : t = Total(Sizes, D) /\ n = obj[o].size
  BY <1>9, <1>10
<1>12. Total(Sizes, FirstOf(seq, k + 1)) = t + n
  BY <1>4, <1>8, <1>10, <1>11
<1>13. CursorAt(lo, seq, k) = lo + t /\ CursorAt(lo, seq, k + 1) = lo + (t + n)
  BY <1>3, <1>11, <1>12 DEF CursorAt
<1>14. QED BY <1>2, <1>11, <1>13

(* How far a full pass over R has come after k blocks.                     *)
FullPass(R, lo, seq, N, e, plan, k) ==
  /\ Packed(R, lo, seq, N, plan, k)
  /\ Matches(e, plan)
  /\ (\A x \in R : ~obj[x].pinned) => plan.cursor = CursorAt(lo, seq, k)

LEMMA FullPassStep ==
  ASSUME TypeOK, NEW R \in SUBSET Objects, NEW lo \in Nat, NEW hi \in Nat, lo <= hi,
         Placement(Here(R), lo, hi), NEW N \in Nat, NEW seq \in [1 .. N -> R], InOrder(R, N, seq),
         NEW k \in 0 .. N - 1, NEW o \in R, o = seq[k + 1],
         NEW plan \in PlanRecord(R), NEW e \in EstimateRecord, FullPass(R, lo, seq, N, e, plan, k),
         NEW next, next = CompactStep(R, lo, hi, NoRequest, plan, o)
  PROVE  FullPass(R, lo, seq, N, EstimateStep(e, o), next, k + 1)
<1>1. /\ Packed(R, lo, seq, N, plan, k) /\ Matches(e, plan) /\ plan.verdict = "plan"
      /\ (\A x \in R : ~obj[x].pinned) => plan.cursor = CursorAt(lo, seq, k)
  BY DEF FullPass, Matches
<1>2. Packed(R, lo, seq, N, next, k + 1)
  <2>1. \A i, j \in 1 .. N : i < j => obj[seq[i]].start < obj[seq[j]].start
    BY DEF InOrder
  <2>2. QED BY <1>1, <2>1, PackStep
<1>3. next.verdict \in {"plan", "cut"}
  BY <1>2 DEF Packed
<1>4. Matches(EstimateStep(e, o), next)
  BY <1>1, <1>3, MatchStep
<1>5. ASSUME \A x \in R : ~obj[x].pinned
      PROVE  next.cursor = CursorAt(lo, seq, k + 1)
  <2>1. \/ PassedBy(plan, next, o) /\ (obj[o].pinned \/ obj[o].start = plan.cursor)
        \/ SlidDown(plan, next, o) /\ ~obj[o].pinned /\ obj[o].start # plan.cursor
    BY <1>1, <1>3, FullStep
  <2>2. next.cursor = plan.cursor + obj[o].size
    BY <1>5, <2>1 DEF PassedBy, SlidDown
  <2>3. plan.cursor = CursorAt(lo, seq, k)
    BY <1>1, <1>5
  <2>4. CursorAt(lo, seq, k + 1) = CursorAt(lo, seq, k) + obj[o].size
    BY FirstGrows
  <2>5. QED BY <2>2, <2>3, <2>4
<1>6. QED BY <1>2, <1>4, <1>5 DEF FullPass

LEMMA FullPassEnds ==
  ASSUME HeapInv, NEW p \in Pools, Exists(p), NEW R, R = Residents(p),
         NEW lo \in Nat, lo = Lo(pool[p]), NEW hi \in Nat, hi = Hi(pool[p]),
         NEW N \in Nat, NEW seq \in [1 .. N -> R], seq = ByAddress(R), InOrder(R, N, seq),
         NEW plan, plan = PlanOf(p, NoRequest)
  PROVE  /\ plan \in PlanRecord(R) /\ Estimate(p) \in EstimateRecord
         /\ FullPass(R, lo, seq, N, Estimate(p), plan, N)
<1>1. /\ TypeOK /\ lo <= hi /\ R \in SUBSET Objects /\ Placement(Here(R), lo, hi)
  BY PoolWindow, PlacedHere DEF Residents
<1>2. plan = CompactPlan(R, lo, hi, NoRequest)
  BY DEF PlanOf
<1>3. \E run \in [0 .. N -> PlanRecord(R)] :
        /\ run[0] = FirstPlan(R, lo, NoRequest)
        /\ \A k \in 1 .. N : run[k] = CompactStep(R, lo, hi, NoRequest, run[k - 1], seq[k])
        /\ run[N] = plan
  BY <1>1, <1>2, CompactRuns
<1>4. PICK run \in [0 .. N -> PlanRecord(R)] :
        /\ run[0] = FirstPlan(R, lo, NoRequest)
        /\ \A k \in 1 .. N : run[k] = CompactStep(R, lo, hi, NoRequest, run[k - 1], seq[k])
        /\ run[N] = plan
  BY <1>3
<1>0. PICK last : last = Estimate(p)
  OBVIOUS
<1>5. \E est \in [0 .. N -> EstimateRecord] :
        /\ est[0] = FirstEstimate(lo)
        /\ \A k \in 1 .. N : est[k] = EstimateStep(est[k - 1], seq[k])
        /\ est[N] = last
  BY <1>0, <1>1, EstimateRuns
<1>6. PICK est \in [0 .. N -> EstimateRecord] :
        /\ est[0] = FirstEstimate(lo)
        /\ \A k \in 1 .. N : est[k] = EstimateStep(est[k - 1], seq[k])
        /\ est[N] = last
  BY <1>5
<1> DEFINE Good == {k \in 0 .. N : FullPass(R, lo, seq, N, est[k], run[k], k)}
<1>7. 0 \in Good
  <2>1. Packed(R, lo, seq, N, run[0], 0)
    <3>1. \A i, j \in 1 .. N : i < j => obj[seq[i]].start < obj[seq[j]].start
      BY DEF InOrder
    <3>2. QED BY <1>1, <1>4, <3>1, PackStart
  <2>2. Matches(est[0], run[0])
    BY <1>4, <1>6 DEF FirstPlan, FirstEstimate, Matches
  <2>3. run[0].cursor = CursorAt(lo, seq, 0)
    <3>1. FirstOf(seq, 0) = {}
      BY DEF FirstOf
    <3>2. CursorAt(lo, seq, 0) = lo
      <4>1. Total(Sizes, FirstOf(seq, 0)) = 0
        BY <3>1, TotalEmpty
      <4>2. QED BY <4>1 DEF CursorAt
    <3>3. QED BY <1>4, <3>2 DEF FirstPlan
  <2>4. QED BY <2>1, <2>2, <2>3 DEF FullPass
<1>8. ASSUME NEW k \in 0 .. N - 1, k \in Good
      PROVE  k + 1 \in Good
  <2>1. k + 1 \in 1 .. N /\ (k + 1) - 1 = k /\ k \in 0 .. N /\ k + 1 \in 0 .. N
    OBVIOUS
  <2>2. PICK o \in R : o = seq[k + 1]
    BY <2>1
  <2>3. /\ run[k] \in PlanRecord(R) /\ est[k] \in EstimateRecord
        /\ FullPass(R, lo, seq, N, est[k], run[k], k)
        /\ run[k + 1] = CompactStep(R, lo, hi, NoRequest, run[k], o)
        /\ est[k + 1] = EstimateStep(est[k], o)
    BY <1>4, <1>6, <1>8, <2>1, <2>2
  <2> HIDE DEF Good
  <2>4. FullPass(R, lo, seq, N, EstimateStep(est[k], o), run[k + 1], k + 1)
    BY <1>1, <2>2, <2>3, FullPassStep
  <2>5. QED BY <2>1, <2>3, <2>4 DEF Good
<1> HIDE DEF Good
<1>9. \A k \in 0 .. N : k \in Good
  BY <1>7, <1>8, UpTo
<1>10. N \in 0 .. N
  OBVIOUS
<1>11. QED BY <1>0, <1>4, <1>6, <1>9, <1>10 DEF Good

(* What a full compaction of a pool does, as the advice foresees it; the   *)
(* blocks of a pool without pinned ones end up behind its start in a row.  *)
LEMMA FullCompaction ==
  ASSUME HeapInv, NEW p \in Pools, Exists(p), NEW plan, plan = PlanOf(p, NoRequest)
  PROVE  /\ Estimate(p).moves = plan.moves /\ Estimate(p).bytes = plan.bytes
         /\ plan.moves \in Nat /\ plan.bytes \in Nat
         /\ (\A o \in Residents(p) : ~obj[o].pinned) =>
              \A o \in Residents(p) : EndIn(plan.to, o) <= Lo(pool[p]) + pool[p].used
<1>1. PICK R, lo, hi : R = Residents(p) /\ lo = Lo(pool[p]) /\ hi = Hi(pool[p])
  OBVIOUS
<1>2. /\ TypeOK /\ lo \in Nat /\ hi \in Nat /\ lo <= hi /\ R \in SUBSET Objects
      /\ Placement(Here(R), lo, hi)
  BY <1>1, PoolWindow, PlacedHere DEF Residents
<1>3. \A o, q \in R : obj[o].start = obj[q].start => o = q
  BY <1>2, PlacedOrder
<1>4. PICK N \in Nat : N = Cardinality(R)
  BY <1>2, <1>3, AddressOrder
<1>5. PICK seq \in [1 .. N -> R] : seq = ByAddress(R)
  BY <1>2, <1>3, <1>4, AddressOrder
<1>6. InOrder(R, N, seq)
  BY <1>2, <1>3, <1>4, <1>5, AddressOrder DEF InOrder
<1>7. plan \in PlanRecord(R) /\ FullPass(R, lo, seq, N, Estimate(p), plan, N)
  BY <1>1, <1>2, <1>5, <1>6, FullPassEnds
<1>8. plan.moves \in Nat /\ plan.bytes \in Nat /\ plan.cursor \in Nat /\ plan.to \in [R -> Nat]
  BY <1>7 DEF PlanRecord
<1>9. Estimate(p).moves = plan.moves /\ Estimate(p).bytes = plan.bytes /\ plan.verdict = "plan"
  BY <1>7 DEF FullPass, Matches
<1>10. ASSUME \A o \in R : ~obj[o].pinned, NEW o \in R
       PROVE  EndIn(plan.to, o) <= lo + pool[p].used
  <2>1. plan.cursor = lo + Total(Sizes, FirstOf(seq, N))
    BY <1>7, <1>10 DEF FullPass, CursorAt
  <2>2. FirstOf(seq, N) = R
    <3>1. FirstOf(seq, N) \in SUBSET R
      BY DEF FirstOf
    <3>2. \A x \in R : x \in FirstOf(seq, N)
      BY <1>6 DEF InOrder, FirstOf
    <3>3. QED BY <3>1, <3>2
  <2>3. pool[p].used = Total(Sizes, R)
    BY <1>1 DEF HeapInv, PoolInv
  <2>4. PICK i \in 1 .. N : seq[i] = o
    BY <1>6, <1>10 DEF InOrder
  <2>5. plan.to[o] + obj[o].size <= plan.cursor
    <3>1. Packed(R, lo, seq, N, plan, N)
      BY <1>7 DEF FullPass
    <3>2. i <= N
      OBVIOUS
    <3>3. QED BY <1>9, <2>4, <3>1, <3>2 DEF Packed
  <2>6. QED BY <2>1, <2>2, <2>3, <2>5 DEF EndIn
<1>11. QED BY <1>1, <1>8, <1>9, <1>10

(* The move estimate of an advice is what a full compaction moves.         *)
LEMMA EstimateHolds ==
  ASSUME HeapInv
  PROVE  EstimateExact
<1>1. SUFFICES ASSUME NEW p \in Pools, Exists(p), NEW plan, plan = PlanOf(p, NoRequest)
               PROVE  Estimate(p).moves = plan.moves /\ Estimate(p).bytes = plan.bytes
  BY DEF EstimateExact
<1>2. QED BY <1>1, FullCompaction

-----------------------------------------------------------------------------
(* What the counters of a pool say about its free space *)

(* A hole and the blocks around it fit the window.                         *)
LEMMA HoleFits ==
  ASSUME TypeOK, NEW f, NEW lo \in Nat, NEW hi \in Nat, lo <= hi, Placement(f, lo, hi),
         NEW h \in Holes(f, lo, hi)
  PROVE  Total(Sizes, DOMAIN f) + h.len <= hi - lo
<1>1. PICK a \in Nat, n \in Nat :
        /\ a = h.from /\ n = h.len /\ lo <= a /\ a + n <= hi
        /\ \A o \in DOMAIN f : EndIn(f, o) <= a \/ a + n <= f[o]
  <2>1. /\ h.from \in Nat /\ h.len \in Nat /\ lo <= h.from /\ h.from + h.len <= hi
        /\ \A o \in DOMAIN f : EndIn(f, o) <= h.from \/ h.from + h.len <= f[o]
    BY HoleShape
  <2>2. QED BY <2>1
<1>2. PICK R \in SUBSET Objects : R = DOMAIN f
  BY DEF Placement
<1>3. IsFiniteSet(R) /\ \A o \in R : Sizes[o] = obj[o].size
  BY SizesType
<1>4. \A o \in R : /\ Sizes[o] \in Nat /\ f[o] \in Nat /\ f[o] + Sizes[o] = EndIn(f, o)
                   /\ lo <= f[o] /\ f[o] + Sizes[o] <= hi /\ Sizes[o] >= 2
  <2>1. \A o \in R : /\ obj[o].size \in Nat /\ f[o] \in Nat /\ EndIn(f, o) = f[o] + obj[o].size
                     /\ lo <= f[o] /\ EndIn(f, o) <= hi /\ obj[o].size >= 2
    BY <1>2, PlacedNumbers
  <2>2. QED BY <1>3, <2>1
<1>5. \A o, q \in R : o # q => f[o] + Sizes[o] <= f[q] \/ f[q] + Sizes[q] <= f[o]
  BY <1>2, <1>4 DEF Placement
<1>6. PICK A, Z : /\ A = {o \in R : f[o] + Sizes[o] <= a}
                  /\ Z = {o \in R : ~(f[o] + Sizes[o] <= a)}
  OBVIOUS
<1>7. R = A \cup Z /\ A \cap Z = {} /\ A \in SUBSET R /\ Z \in SUBSET R
  BY <1>6
<1>8. IsFiniteSet(A) /\ IsFiniteSet(Z)
  BY <1>3, <1>7, FS_Subset
<1>9. Total(Sizes, R) = Total(Sizes, A) + Total(Sizes, Z)
  <2>1. \A o \in A \cup Z : Sizes[o] \in Nat
    BY <1>4, <1>7
  <2>2. QED BY <1>7, <1>8, <2>1, TotalUnion
<1>10. Total(Sizes, A) <= a - lo /\ Total(Sizes, A) \in Nat
  <2>1. \A o \in A : Sizes[o] \in Nat /\ f[o] \in Nat /\ lo <= f[o] /\ f[o] + Sizes[o] <= a
    BY <1>4, <1>6
  <2>2. \A o, q \in A : o # q => f[o] + Sizes[o] <= f[q] \/ f[q] + Sizes[q] <= f[o]
    BY <1>5, <1>7
  <2>3. QED BY <1>1, <1>8, <2>1, <2>2, TotalFits, TotalType
<1>11. Total(Sizes, Z) <= hi - (a + n) /\ Total(Sizes, Z) \in Nat
  <2>1. PICK b \in Nat : b = a + n /\ b <= hi
    BY <1>1
  <2>2. \A o \in Z : Sizes[o] \in Nat /\ f[o] \in Nat /\ b <= f[o] /\ f[o] + Sizes[o] <= hi
    <3>1. SUFFICES ASSUME NEW o \in Z PROVE b <= f[o]
      BY <1>4, <1>7
    <3>2. o \in R /\ ~(EndIn(f, o) <= a)
      BY <1>4, <1>6
    <3>3. QED BY <1>1, <1>2, <2>1, <3>2
  <2>3. \A o, q \in Z : o # q => f[o] + Sizes[o] <= f[q] \/ f[q] + Sizes[q] <= f[o]
    BY <1>5, <1>7
  <2>4. Total(Sizes, Z) <= hi - b /\ Total(Sizes, Z) \in Nat
    BY <1>8, <2>1, <2>2, <2>3, TotalFits, TotalType
  <2>5. QED BY <2>1, <2>4
<1>12. PICK x \in Nat, y \in Nat : x = Total(Sizes, A) /\ y = Total(Sizes, Z)
  BY <1>10, <1>11
<1>13. (x + y) + n <= hi - lo
  BY <1>1, <1>10, <1>11, <1>12
<1>14. QED BY <1>1, <1>2, <1>9, <1>12, <1>13

(* The largest free block is one of the bins' blocks, if there are any.    *)
LEMMA LargestIsABin ==
  ASSUME HeapInv, NEW p \in Pools, Exists(p)
  PROVE  /\ LargestFree(p) \in Nat
         /\ \A b \in pool[p].bins : SizeAt(b) \in Nat /\ 2 <= SizeAt(b) /\ SizeAt(b) <= LargestFree(p)
         /\ LargestFree(p) # 0 => \E b \in pool[p].bins : SizeAt(b) = LargestFree(p)
<1>1. PICK S : S = {SizeAt(b) : b \in pool[p].bins} \cup {0}
  OBVIOUS
<1>2. PICK hi \in Nat : hi = Hi(pool[p])
  BY PoolWindow
<1>3. \A b \in pool[p].bins : SizeAt(b) \in Nat /\ SizeAt(b) >= 2 /\ SizeAt(b) <= hi
  BY <1>2, BinsHaveRoom
<1>4. S \in SUBSET (0 .. hi) /\ S # {}
  BY <1>1, <1>3
<1>5. PICK top : top = LargestFree(p)
  OBVIOUS
<1>6. top = Max(S)
  BY <1>1, <1>5 DEF LargestFree
<1>7. top \in S /\ \A y \in S : y <= top
  BY <1>4, <1>6, MaxOfIndices
<1>8. top \in Nat
  BY <1>4, <1>7
<1>9. \A b \in pool[p].bins : SizeAt(b) \in Nat /\ 2 <= SizeAt(b) /\ SizeAt(b) <= top
  BY <1>1, <1>3, <1>7
<1>10. top # 0 => \E b \in pool[p].bins : SizeAt(b) = top
  BY <1>1, <1>7
<1>11. QED BY <1>5, <1>8, <1>9, <1>10

(* The free units are those in the bins and the slack.                     *)
LEMMA FreeUnitsAre ==
  ASSUME HeapInv, NEW p \in Pools, Exists(p)
  PROVE  /\ pool[p].used \in 0 .. Zone /\ pool[p].fragment \in 0 .. Zone
         /\ Hi(pool[p]) - Lo(pool[p]) \in 1 .. Zone /\ FreeUnits(p) \in 0 .. Zone
         /\ pool[p].used <= Hi(pool[p]) - Lo(pool[p])
         /\ LargestFree(p) + pool[p].fragment <= FreeUnits(p)
         /\ LargestFree(p) = 0 => FreeUnits(p) = pool[p].fragment
<1>1. PICK B, len : B = pool[p].bins /\ len = Lens(mem, B)
  OBVIOUS
<1>2. PICK lo \in Nat, hi \in Nat : /\ lo = Lo(pool[p]) /\ hi = Hi(pool[p])
                                    /\ lo + 2 <= hi /\ hi <= Zone
  BY PoolWindow
<1>3. PICK used \in Nat, slack \in 0 .. Zone : used = pool[p].used /\ slack = pool[p].fragment
  BY PoolTypes DEF HeapInv
<1>4. PICK t \in Nat : t = Total(len, B) /\ used + t + slack = hi - lo
  BY <1>1, <1>2, <1>3, WindowAdds
<1>5. PICK top \in Nat : top = LargestFree(p)
  BY LargestIsABin
<1>6. \A b \in B : len[b] \in Nat /\ len[b] = SizeAt(b)
  <2>1. SUFFICES ASSUME NEW b \in B PROVE SizeAt(b) \in Nat /\ len[b] = SizeAt(b)
    OBVIOUS
  <2>2. SizeAt(b) \in Nat
    BY <1>1, LargestIsABin
  <2>3. QED BY <1>1, <2>2 DEF Lens, SizeAt, SizeIn, IsFree
<1>7. IsFiniteSet(B)
  <2>1. IsFiniteSet(Units)
    BY ZoneType, FS_Interval
  <2>2. B \in SUBSET Units
    BY <1>1, PoolTypes DEF HeapInv
  <2>3. QED BY <2>1, <2>2, FS_Subset
<1>8. top <= t
  <2>1. CASE top = 0
    BY <2>1
  <2>2. CASE top # 0
    <3>1. PICK b \in B : SizeAt(b) = top
      BY <1>1, <1>5, <2>2, LargestIsABin
    <3>2. Total(len, B) = Total(len, B \ {b}) + len[b]
      BY <1>6, <1>7, TotalRemove
    <3>3. Total(len, B \ {b}) \in Nat
      <4>1. IsFiniteSet(B \ {b})
        BY <1>7, FS_RemoveElement
      <4>2. \A x \in B \ {b} : len[x] \in Nat
        BY <1>6
      <4>3. QED BY <4>1, <4>2, TotalType
    <3>4. len[b] = top
      BY <1>6, <3>1
    <3>5. QED BY <1>4, <3>2, <3>3, <3>4
  <2>3. QED BY <2>1, <2>2
<1>9. top = 0 => t = 0
  <2>1. SUFFICES ASSUME top = 0 PROVE t = 0
    OBVIOUS
  <2>2. \A b \in B : FALSE
    <3>1. SUFFICES ASSUME NEW b \in B PROVE FALSE
      OBVIOUS
    <3>2. SizeAt(b) \in Nat /\ 2 <= SizeAt(b) /\ SizeAt(b) <= top
      BY <1>1, <1>5, LargestIsABin
    <3>3. QED BY <2>1, <3>2
  <2>3. B = {}
    BY <2>2
  <2>4. QED BY <1>4, <2>3, TotalEmpty
<1>10. PICK free \in Int : free = FreeUnits(p) /\ free = (hi - lo) - used
  BY <1>2, <1>3 DEF FreeUnits
<1>11. Zone \in Nat
  BY ZoneType
<1>12. /\ used \in 0 .. Zone /\ hi - lo \in 1 .. Zone /\ free \in 0 .. Zone /\ used <= hi - lo
       /\ top + slack <= free /\ (top = 0 => free = slack)
  BY <1>2, <1>3, <1>4, <1>8, <1>9, <1>10, <1>11
<1>13. QED BY <1>2, <1>3, <1>5, <1>10, <1>12

(* The counter audit of an analysis passes.                                *)
LEMMA CountersHold ==
  ASSUME HeapInv, NEW p \in Pools, Exists(p)
  PROVE  CountersOk(p)
<1>1. PICK used \in Nat, slack \in Nat, free \in Nat, top \in Nat :
        /\ used = pool[p].used /\ slack = pool[p].fragment /\ free = FreeUnits(p)
        /\ top = LargestFree(p) /\ top + slack <= free
  <2>1. Zone \in Nat
    BY ZoneType
  <2>2. QED BY <2>1, FreeUnitsAre, LargestIsABin
<1>2. slack <= free /\ top <= free - slack
  BY <1>1
<1>3. pool[p].used <= Hi(pool[p]) - Lo(pool[p])
  BY FreeUnitsAre
<1>4. Cardinality(Residents(p)) = pool[p].live
  BY DEF HeapInv, PoolInv
<1>5. QED BY <1>1, <1>2, <1>3, <1>4 DEF CountersOk

-----------------------------------------------------------------------------
(* What a verdict promises *)

(* alloc finds a block when the largest one is large enough.               *)
LEMMA LargeIsFound ==
  ASSUME HeapInv, NEW p \in Pools, Exists(p), NEW need \in Nat, need >= 2,
         LargestFree(p) >= need
  PROVE  BinsFind(p, need) # {}
<1>1. PICK fits : fits = {b \in pool[p].bins : SizeAt(b) >= need}
  OBVIOUS
<1>2. PICK S : S = {SizeAt(c) : c \in fits}
  OBVIOUS
<1>3. \A b \in pool[p].bins : SizeAt(b) \in Nat
  BY LargestIsABin
<1>4. S \in SUBSET Nat /\ S # {}
  <2>1. LargestFree(p) \in Nat /\ LargestFree(p) # 0
    BY LargestIsABin
  <2>2. PICK b \in pool[p].bins : SizeAt(b) = LargestFree(p)
    BY <2>1, LargestIsABin
  <2>3. b \in fits
    BY <1>1, <2>2
  <2>4. QED BY <1>1, <1>2, <1>3, <2>3
<1>5. Min(S) \in S
  BY <1>4, MinOfNumbers
<1>6. PICK b \in fits : SizeAt(b) = Min(S)
  BY <1>2, <1>5
<1>7. BinsFind(p, need) = {x \in fits : SizeClass(SizeAt(x)) = SizeClass(Min(S))}
  BY <1>1, <1>2 DEF BinsFind
<1>8. b \in BinsFind(p, need)
  BY <1>6, <1>7
<1>9. QED BY <1>8

(* The largest free block that a full compaction leaves: no larger than    *)
(* all free units together, and that large if nothing is pinned.           *)
LEMMA PackedLargest ==
  ASSUME HeapInv, NEW p \in Pools, Exists(p), NEW plan, plan = PlanOf(p, NoRequest),
         NEW top, top = LargestOf(FreeRuns(plan.to, Lo(pool[p]), Hi(pool[p])))
  PROVE  /\ top \in Nat /\ top <= FreeUnits(p)
         /\ (\A o \in Residents(p) : ~obj[o].pinned) /\ FreeUnits(p) >= 2 => top >= FreeUnits(p)
<1>1. PICK R, lo, hi : R = Residents(p) /\ lo = Lo(pool[p]) /\ hi = Hi(pool[p])
  OBVIOUS
<1>2. /\ TypeOK /\ lo \in Nat /\ hi \in Nat /\ lo <= hi /\ R \in SUBSET Objects
      /\ Placement(Here(R), lo, hi)
  BY <1>1, PoolWindow, PlacedHere DEF Residents
<1>3. plan = CompactPlan(R, lo, hi, NoRequest)
  BY <1>1 DEF PlanOf
<1>4. DOMAIN plan.to = R /\ Placement(plan.to, lo, hi) /\ \A o \in R : plan.to[o] \in Nat
  BY <1>2, <1>3, CompactPacks
<1>5. PICK free \in Nat, used \in Nat :
        free = FreeUnits(p) /\ used = pool[p].used /\ used + free = hi - lo
  <2>1. FreeUnits(p) = (hi - lo) - pool[p].used
    BY <1>1 DEF FreeUnits
  <2>2. pool[p].used \in Nat /\ FreeUnits(p) \in Nat
    <3>1. Zone \in Nat
      BY ZoneType
    <3>2. QED BY <3>1, FreeUnitsAre
  <2>3. QED BY <1>2, <2>1, <2>2
<1>6. used = Total(Sizes, R)
  BY <1>1, <1>5 DEF HeapInv, PoolInv
<1>7. \A h \in FreeRuns(plan.to, lo, hi) : h.len \in Nat /\ h.len <= free
  <2>1. SUFFICES ASSUME NEW h \in FreeRuns(plan.to, lo, hi)
                 PROVE  h.len \in Nat /\ h.len <= free
    OBVIOUS
  <2>2. h \in Holes(plan.to, lo, hi)
    BY DEF FreeRuns
  <2>3. h.len \in Nat
    BY <1>2, <1>4, <2>2, HoleShape
  <2>4. Total(Sizes, R) + h.len <= hi - lo
    BY <1>2, <1>4, <2>2, HoleFits
  <2>5. QED BY <1>2, <1>5, <1>6, <2>3, <2>4
<1>8. /\ top \in Nat /\ \A h \in FreeRuns(plan.to, lo, hi) : h.len <= top
      /\ top # 0 => \E h \in FreeRuns(plan.to, lo, hi) : h.len = top
  <2>1. top = LargestOf(FreeRuns(plan.to, lo, hi))
    BY <1>1
  <2>2. QED BY <1>7, <2>1, LargestIs
<1>9. top <= free
  BY <1>7, <1>8
<1>10. ASSUME \A o \in R : ~obj[o].pinned, free >= 2
       PROVE  top >= free
  <2>1. \A o \in R : EndIn(plan.to, o) <= lo + used
    BY <1>1, <1>5, <1>10, FullCompaction
  <2>2. PICK g \in Nat : g = lo + used
    BY <1>2, <1>5
  <2>3. lo <= g /\ g + free <= hi
    BY <1>2, <1>5, <2>2
  <2>4. Room(plan.to, lo, hi, free)
    BY <1>4, <2>1, <2>2, <2>3 DEF Room
  <2>5. LargestOf(FreeRuns(plan.to, lo, hi)) >= free
    BY <1>2, <1>4, <1>10, <2>4, RoomIsBlock
  <2>6. QED BY <1>1, <2>5
<1>11. QED BY <1>1, <1>5, <1>8, <1>9, <1>10

LEMMA VerdictHolds ==
  ASSUME HeapInv, thresholds \in Thresholds
  PROVE  VerdictHonest
<1>1. SUFFICES ASSUME NEW p \in Pools, Exists(p), NEW req \in Queries, ~Malformed(req),
                      NEW a, a = Sampled(p, req), NEW verdict, verdict = Verdict(p, a),
                      NEW need, need = Max({req + 1, MinBlock}),
                      NEW after, after = LargestOf(FreeRuns(PlanOf(p, NoRequest).to,
                                                            Lo(pool[p]), Hi(pool[p])))
               PROVE  /\ verdict # "INVALID_METADATA"
                      /\ verdict = "NO_ACTION" /\ req # NoAdvice => BinsFind(p, need) # {}
                      /\ verdict = "COMPACT_RECOMMENDED" /\ ~a.pinned =>
                           IF req # NoAdvice THEN after >= need
                           ELSE thresholds # [ratio |-> 0, min |-> 0] => after > a.largest
                      /\ verdict = "COMPACT_UNLIKELY_TO_HELP" /\ a.fragment = 0 => after < need
  BY DEF VerdictHonest
<1>2. /\ a.req = req /\ a.largest = LargestFree(p) /\ a.free = FreeUnits(p)
      /\ a.fragment = pool[p].fragment
      /\ a.pinned = (\E o \in Residents(p) : obj[o].pinned)
  BY <1>1 DEF Sampled
<1>3. PICK slack \in Nat, free \in Nat, largest \in Nat :
        /\ slack = pool[p].fragment /\ free = FreeUnits(p) /\ largest = LargestFree(p)
        /\ largest + slack <= free /\ (largest = 0 => free = slack)
  <2>1. Zone \in Nat
    BY ZoneType
  <2>2. QED BY <1>1, <2>1, FreeUnitsAre, LargestIsABin
<1>4. after \in Nat /\ after <= free
  BY <1>1, <1>3, PackedLargest
<1>5. ~a.pinned /\ free >= 2 => after >= free
  BY <1>1, <1>2, <1>3, PackedLargest
<1>6. verdict = IF borrow_count(p) # 0 THEN "COMPACT_BLOCKED"
                ELSE IF req = NoAdvice THEN IF Fragmented(p) THEN "COMPACT_RECOMMENDED" ELSE "NO_ACTION"
                ELSE IF largest >= Wants(req) THEN "NO_ACTION"
                ELSE IF free - slack >= Wants(req) THEN "COMPACT_RECOMMENDED"
                ELSE "COMPACT_UNLIKELY_TO_HELP"
  <2>1. CountersOk(p)
    BY <1>1, CountersHold
  <2>2. QED BY <1>1, <1>2, <1>3, <2>1 DEF Verdict
<1>7. CASE req = NoAdvice
  <2>1. verdict \in {"COMPACT_BLOCKED", "COMPACT_RECOMMENDED", "NO_ACTION"}
    BY <1>6, <1>7
  <2>2. verdict = "COMPACT_RECOMMENDED" => Fragmented(p)
    BY <1>6, <1>7
  <2>3. ASSUME Fragmented(p), ~a.pinned, thresholds # [ratio |-> 0, min |-> 0]
        PROVE  after > largest
    <3>1. Stranded(p) = free - slack - largest
      BY <1>3 DEF Stranded
    <3>2. PICK ratio \in Nat, min \in Nat, room \in Nat :
            /\ ratio = thresholds.ratio /\ min = thresholds.min /\ room = Hi(pool[p]) - Lo(pool[p])
            /\ ratio # 0 \/ min # 0
            /\ room # 0
      <4>1. thresholds \in [ratio : Nat, min : Nat]
        BY AdviceAssumption
      <4>2. thresholds.ratio # 0 \/ thresholds.min # 0
        BY <4>1, <2>3
      <4>3. Hi(pool[p]) - Lo(pool[p]) \in Nat /\ Hi(pool[p]) - Lo(pool[p]) # 0
        <5>1. /\ Lo(pool[p]) \in Nat /\ Hi(pool[p]) \in Nat
              /\ Lo(pool[p]) + 2 <= Hi(pool[p])
          BY <1>1, PoolWindow
        <5>2. QED BY <5>1
      <4>4. QED BY <4>1, <4>2, <4>3
    <3>3. free - slack - largest >= 1
      <4>1. PICK gain \in Nat : gain = free - slack - largest
        BY <1>3
      <4>2. gain >= min /\ gain * 1000 >= ratio * room
        BY <2>3, <3>1, <3>2, <4>1 DEF Fragmented
      <4>3. ratio # 0 => ratio * room # 0
        BY <3>2
      <4>4. ratio * room \in Nat
        BY <3>2
      <4>5. gain # 0
        BY <3>2, <4>2, <4>3, <4>4
      <4>6. QED BY <4>1, <4>5
    <3>4. largest # 0
      BY <1>3, <3>3
    <3>5. largest >= 1 /\ free >= 2 /\ free > largest
      BY <1>3, <3>3, <3>4
    <3>6. after >= free
      BY <1>5, <2>3, <3>5
    <3>7. QED BY <1>4, <3>5, <3>6
  <2>4. QED BY <1>2, <1>3, <1>7, <2>1, <2>2, <2>3
<1>8. CASE req # NoAdvice
  <2>1. req \in Nat
    BY <1>8, AdviceAssumption
  <2>2. need \in Nat /\ need >= 2
    <3>1. PICK n \in Nat : n = req + 1
      BY <2>1
    <3>2. Max({n, 2}) \in Nat /\ Max({n, 2}) >= 2
      BY <3>1, MaxOfTwo
    <3>3. QED BY <1>1, <3>1, <3>2 DEF MinBlock
  <2>3. Wants(req) = need
    BY <1>1, <1>8 DEF Wants
  <2>4. verdict = IF borrow_count(p) # 0 THEN "COMPACT_BLOCKED"
                  ELSE IF largest >= need THEN "NO_ACTION"
                  ELSE IF free - slack >= need THEN "COMPACT_RECOMMENDED"
                  ELSE "COMPACT_UNLIKELY_TO_HELP"
    BY <1>6, <1>8, <2>3
  <2>5. verdict # "INVALID_METADATA"
    BY <2>4
  <2>6. ASSUME verdict = "NO_ACTION"
        PROVE  BinsFind(p, need) # {}
    <3>1. largest >= need
      BY <2>4, <2>6
    <3>2. QED BY <1>1, <1>3, <2>2, <3>1, LargeIsFound
  <2>7. ASSUME verdict = "COMPACT_RECOMMENDED", ~a.pinned
        PROVE  after >= need
    <3>1. free - slack >= need
      BY <2>4, <2>7
    <3>2. free >= need /\ free >= 2
      BY <1>3, <2>2, <3>1
    <3>3. after >= free
      BY <1>5, <2>7, <3>2
    <3>4. QED BY <1>4, <2>2, <3>2, <3>3
  <2>8. ASSUME verdict = "COMPACT_UNLIKELY_TO_HELP", a.fragment = 0
        PROVE  after < need
    <3>1. ~(free - slack >= need) /\ slack = 0
      BY <1>2, <1>3, <2>4, <2>8
    <3>2. QED BY <1>3, <1>4, <2>2, <3>1
  <2>9. QED BY <1>8, <2>5, <2>6, <2>7, <2>8
<1>9. QED BY <1>7, <1>8

-----------------------------------------------------------------------------
(* The heap under advice *)

LEMMA AdviceStepsHeap ==
  ASSUME [AdviceNext]_allvars
  PROVE  [Next]_vars
<1>1. CASE UNCHANGED vars
  BY <1>1
<1>2. CASE \E t \in Thresholds \ {thresholds} : set_compaction_thresholds(t)
  BY <1>2 DEF set_compaction_thresholds
<1>3. CASE \E p \in Watched, req \in Queries : Analyze(p, req)
  BY <1>3 DEF Analyze
<1>4. CASE Answer
  BY <1>4 DEF Answer
<1>5. CASE \E o \in Objects : Borrow(o) \/ EndBorrow(o)
  BY <1>5 DEF Borrow, EndBorrow
<1>6. CASE \E p \in Watched : Pause(p) \/ Resume(p)
  BY <1>6 DEF Pause, Resume
<1>7. CASE \E n \in 1 .. Segments : HeapCreate(n)
  BY <1>7 DEF HeapCreate, Next
<1>8. CASE \E p \in Pools : HeapDestroy(p)
  BY <1>8 DEF HeapDestroy, Next
<1>9. CASE \E p \in Pools, o \in Objects, payload \in Payloads, pinned \in BOOLEAN :
             HeapAlloc(p, o, payload, pinned)
  BY <1>9 DEF HeapAlloc, Next
<1>10. CASE \E o \in Objects : HeapFree(o)
  BY <1>10 DEF HeapFree, Next
<1>11. CASE \E p \in Pools, req \in Requests : HeapCompact(p, req)
  BY <1>11 DEF HeapCompact, Next
<1>12. CASE \E p \in Watched : CompactRefused(p)
  BY <1>12 DEF CompactRefused
<1>13. CASE \E s, t \in Pools : HeapMerge(s, t)
  BY <1>13 DEF HeapMerge, Next
<1>14. CASE \E p \in Pools, n \in 1 .. Segments : HeapSplit(p, n)
  BY <1>14 DEF HeapSplit, Next
<1>15. CASE UNCHANGED allvars
  BY <1>15 DEF allvars
<1>16. QED BY <1>2, <1>3, <1>4, <1>5, <1>6, <1>7, <1>8, <1>9, <1>10, <1>11, <1>12, <1>13,
              <1>14, <1>15 DEF AdviceNext

(* What the heap's operations leave alone: every pool but `gone` stays,    *)
(* and every object but `freed`.                                           *)
PoolsStay(gone)    == \A q \in Pools \ gone : Exists(q) => pool'[q].count > 0
ObjectsStay(freed) == \A x \in Objects \ freed : obj[x].size > 0 => obj'[x].size > 0

LEMMA CreateStays ==
  ASSUME TypeOK, NEW n \in 1 .. Segments, CreatePool(n)
  PROVE  PoolsStay({}) /\ ObjectsStay({})
<1>1. PICK p \in Pools :
        /\ ~Exists(p) /\ obj' = obj
        /\ \E P : pool' = [pool EXCEPT ![p] = P]
  BY DEF CreatePool, FirstEmpty
<1>2. obj' = obj
  BY <1>1
<1>3. \A q \in Pools : q # p => pool'[q] = pool[q]
  BY <1>1 DEF TypeOK
<1>4. QED BY <1>1, <1>2, <1>3 DEF PoolsStay, ObjectsStay, Exists

LEMMA DestroyStays ==
  ASSUME TypeOK, NEW p \in Pools, DestroyPool(p)
  PROVE  PoolsStay({p}) /\ ObjectsStay({})
<1>1. pool' = [pool EXCEPT ![p] = EmptyPool] /\ obj' = obj
  BY DEF DestroyPool
<1>2. QED BY <1>1 DEF PoolsStay, ObjectsStay, Exists, TypeOK

LEMMA AllocStays ==
  ASSUME TypeOK, NEW p \in Pools, NEW o \in Objects, NEW payload \in Payloads,
         NEW pinned \in BOOLEAN, Alloc(p, o, payload, pinned)
  PROVE  PoolsStay({}) /\ ObjectsStay({})
<1>1. obj[o].size = 0 /\ \E d : obj' = [obj EXCEPT ![o] = d]
  BY DEF Alloc
<1> DEFINE need == Max({payload + 1, MinBlock})
<1> HIDE DEF need
<1>3. PICK b \in BinsFind(p, need) :
       LET whole == SizeAt(b)
           size  == IF whole - need >= MinBlock THEN need ELSE whole
       IN /\ mem' = AllocMem(b, whole, size, Hi(pool[p]))
          /\ obj' = [obj EXCEPT ![o] = [pool |-> p, start |-> b, size |-> size,
                                        pinned |-> pinned]]
          /\ pool' = [pool EXCEPT ![p].used = @ + size, ![p].live = @ + 1,
                        ![p].bins = (@ \ {b}) \cup (IF size < whole THEN {b + size} ELSE {})]
  BY ZenonT(60) DEF Alloc, need
<1>4. \A q \in Pools : pool'[q].count = pool[q].count
  <2>1. PICK u, l, B : pool' = [pool EXCEPT ![p].used = u, ![p].live = l, ![p].bins = B]
    BY <1>3, Zenon
  <2>2. QED BY <2>1 DEF TypeOK
<1>5. \A x \in Objects : x # o => obj'[x] = obj[x]
  BY <1>1 DEF TypeOK
<1>6. \A x \in Objects : obj[x].size > 0 => obj'[x].size > 0
  <2>1. ~(obj[o].size > 0)
    BY <1>1
  <2>2. QED BY <1>5, <2>1
<1>7. QED BY <1>4, <1>6 DEF PoolsStay, ObjectsStay, Exists

LEMMA FreeStays ==
  ASSUME TypeOK, NEW o \in Objects, Free(o)
  PROVE  PoolsStay({}) /\ ObjectsStay({o})
<1>1. obj' = [obj EXCEPT ![o] = FreeDesc]
  BY DEF Free
<1>2. PICK p \in Pools : p = obj[o].pool
  BY ObjTypes
<1>3. PICK head, end : head = MergedHead(o) /\ end = MergedEnd(o)
  OBVIOUS
<1>4. pool' = [pool EXCEPT ![p].used = @ - obj[o].size, ![p].live = @ - 1,
                           ![p].bins = (@ \ (head + 1 .. end - 1)) \cup {head}]
  BY <1>2, <1>3 DEF Free
<1>5. \A q \in Pools : pool'[q].count = pool[q].count
  BY <1>4 DEF TypeOK
<1>6. \A x \in Objects : x # o => obj'[x] = obj[x]
  BY <1>1 DEF TypeOK
<1>7. QED BY <1>5, <1>6 DEF PoolsStay, ObjectsStay, Exists

LEMMA PlacedSizes ==
  ASSUME TypeOK, NEW f, NEW x \in Objects
  PROVE  Placed(f)[x].size = obj[x].size
<1>1. Placed(f)[x] = IF x \in DOMAIN f THEN [obj[x] EXCEPT !.start = f[x]] ELSE obj[x]
  BY DEF Placed
<1>2. [obj[x] EXCEPT !.start = f[x]].size = obj[x].size
  BY DEF TypeOK
<1>3. QED BY <1>1, <1>2

LEMMA CompactStays ==
  ASSUME TypeOK, NEW p \in Pools, NEW req, Compact(p, req)
  PROVE  PoolsStay({p}) /\ ObjectsStay({})
<1>1. PICK f, P : obj' = Placed(f) /\ pool' = [pool EXCEPT ![p] = P]
  BY DEF Compact
<1>2. \A x \in Objects : obj'[x].size = obj[x].size
  BY <1>1, PlacedSizes
<1>3. \A q \in Pools : q # p => pool'[q] = pool[q]
  BY <1>1 DEF TypeOK
<1>4. QED BY <1>2, <1>3 DEF PoolsStay, ObjectsStay, Exists

LEMMA MergeStays ==
  ASSUME TypeOK, NEW s \in Pools, NEW t \in Pools, Merge(s, t)
  PROVE  PoolsStay({s, t}) /\ ObjectsStay({})
<1>1. PICK f, P : /\ obj' = [o \in Objects |-> IF o \in DOMAIN f
                                               THEN [Placed(f)[o] EXCEPT !.pool = t] ELSE obj[o]]
                  /\ pool' = [pool EXCEPT ![t] = P, ![s] = EmptyPool]
  BY DEF Merge
<1>2. ASSUME NEW x \in Objects
      PROVE  obj'[x].size = obj[x].size
  <2>1. obj'[x] = IF x \in DOMAIN f THEN [Placed(f)[x] EXCEPT !.pool = t] ELSE obj[x]
    BY <1>1
  <2>2. CASE x \notin DOMAIN f
    BY <2>1, <2>2
  <2>3. CASE x \in DOMAIN f
    <3>1. Placed(f)[x] = [obj[x] EXCEPT !.start = f[x]]
      BY <2>3 DEF Placed
    <3>2. obj'[x] = [[obj[x] EXCEPT !.start = f[x]] EXCEPT !.pool = t]
      BY <2>1, <2>3, <3>1
    <3>3. QED BY <3>2 DEF TypeOK
  <2>4. QED BY <2>2, <2>3
<1>3. \A q \in Pools : q # s /\ q # t => pool'[q] = pool[q]
  BY <1>1 DEF TypeOK
<1>4. QED BY <1>2, <1>3 DEF PoolsStay, ObjectsStay, Exists

LEMMA SplitStays ==
  ASSUME TypeOK, NEW p \in Pools, NEW n, Split(p, n)
  PROVE  PoolsStay({p}) /\ ObjectsStay({})
<1>1. PICK new \in Pools :
        /\ FirstEmpty(new)
        /\ LET S        == [pool[p] EXCEPT !.count = @ - n]
               N        == [EmptyPool EXCEPT !.first = S.first + S.count, !.count = n]
               boundary == Hi(S)
               plan     == SplitPlan(p, boundary)
               low      == Within(plan.to, Lo(S), boundary)
               up       == Within(plan.to, boundary, Hi(N))
               above    == {o \in DOMAIN plan.to : plan.to[o] + 1 >= boundary}
           IN /\ obj'  = [o \in Objects |-> IF o \in above
                                            THEN [Placed(plan.to)[o] EXCEPT !.pool = new]
                                            ELSE Placed(plan.to)[o]]
              /\ pool' = [pool EXCEPT
                            ![p]   = [FinalPool(S, low) EXCEPT
                                        !.live = pool[p].live - Cardinality(above)],
                            ![new] = [FinalPool(N, up) EXCEPT !.live = Cardinality(above)]]
  BY DEF Split
<1>2. PICK f, A, P, N :
        /\ obj' = [o \in Objects |-> IF o \in A THEN [Placed(f)[o] EXCEPT !.pool = new]
                                     ELSE Placed(f)[o]]
        /\ pool' = [pool EXCEPT ![p] = P, ![new] = N]
  BY <1>1, Zenon
<1>3. ASSUME NEW x \in Objects
      PROVE  obj'[x].size = obj[x].size
  <2>1. obj'[x] = IF x \in A THEN [Placed(f)[x] EXCEPT !.pool = new] ELSE Placed(f)[x]
    BY <1>2
  <2>2. Placed(f)[x] = IF x \in DOMAIN f THEN [obj[x] EXCEPT !.start = f[x]] ELSE obj[x]
    BY DEF Placed
  <2>3. PICK d \in Descriptor : d = obj[x]
    BY DEF TypeOK, Descriptor
  <2>4. [d EXCEPT !.start = f[x]].size = d.size
    BY DEF Descriptor
  <2>5. /\ [d EXCEPT !.pool = new].size = d.size
        /\ [[d EXCEPT !.start = f[x]] EXCEPT !.pool = new].size = d.size
    BY DEF Descriptor
  <2>6. QED BY <2>1, <2>2, <2>3, <2>4, <2>5
<1>4. \A q \in Pools : q # p /\ q # new => pool'[q] = pool[q]
  BY <1>2 DEF TypeOK
<1>5. ~Exists(new)
  BY <1>1 DEF FirstEmpty
<1>6. QED BY <1>3, <1>4, <1>5 DEF PoolsStay, ObjectsStay, Exists

-----------------------------------------------------------------------------
(* The advice's own state *)

PausedExist == paused \subseteq {p \in Pools : Exists(p)}
HeldLive    == held \subseteq {o \in Objects : obj[o].size > 0}
EpochsOK    == epoch \in [Pools -> 0 .. EpochBound] /\ age \in 0 .. AgeBound
AnswersOK ==
  /\ thresholds \in Thresholds
  /\ cache \in [Pools -> AdviceCache \cup {NoAdvice}]
  /\ told \in [Pools -> CompactionAdvice \cup {NoAdvice}]
  /\ call \in Analysis \cup {NoAdvice}

LEMMA AdviceParts == AdviceTypeOK <=> TypeOK /\ PausedExist /\ HeldLive /\ EpochsOK /\ AnswersOK
  BY DEF AdviceTypeOK, PausedExist, HeldLive, EpochsOK, AnswersOK


LEMMA PausedKept ==
  ASSUME TypeOK, PausedExist, [AdviceNext]_allvars
  PROVE  PausedExist'
<1>1. \A q \in paused : q \in Pools /\ Exists(q)
  BY DEF PausedExist
<1>2. ASSUME NEW gone, PoolsStay(gone), paused' \subseteq paused \ gone
      PROVE  PausedExist'
  <2>1. SUFFICES ASSUME NEW q \in paused' PROVE q \in Pools /\ pool'[q].count > 0
    BY DEF PausedExist, Exists
  <2>2. QED BY <1>1, <1>2, <2>1 DEF PoolsStay
<1>3. CASE UNCHANGED vars /\ \A q \in paused' \ paused : q \in Pools /\ Exists(q)
  <2>1. SUFFICES ASSUME NEW q \in paused' PROVE q \in Pools /\ pool'[q].count > 0
    BY DEF PausedExist, Exists
  <2>2. q \in Pools /\ Exists(q) /\ pool' = pool
    BY <1>1, <1>3, <2>1 DEF vars
  <2>3. QED BY <2>2 DEF Exists
<1>4. CASE \E t \in Thresholds \ {thresholds} : set_compaction_thresholds(t)
  BY <1>3, <1>4 DEF set_compaction_thresholds
<1>5. CASE \E p \in Watched, req \in Queries : Analyze(p, req)
  BY <1>3, <1>5 DEF Analyze
<1>6. CASE Answer
  BY <1>3, <1>6 DEF Answer
<1>7. CASE \E o \in Objects : Borrow(o) \/ EndBorrow(o)
  BY <1>3, <1>7 DEF Borrow, EndBorrow
<1>8. CASE \E p \in Watched : Pause(p) \/ Resume(p)
  BY <1>3, <1>8, AdviceAssumption DEF Pause, Resume
<1>9. CASE \E n \in 1 .. Segments : HeapCreate(n)
  <2>1. PICK n \in 1 .. Segments : CreatePool(n) /\ paused' = paused
    BY <1>9 DEF HeapCreate
  <2>2. PoolsStay({})
    BY <2>1, CreateStays
  <2>3. QED BY <1>2, <2>1, <2>2
<1>10. CASE \E p \in Pools : HeapDestroy(p)
  <2>1. PICK p \in Pools : DestroyPool(p) /\ paused' = paused \ {p}
    BY <1>10 DEF HeapDestroy
  <2>2. PoolsStay({p})
    BY <2>1, DestroyStays
  <2>3. QED BY <1>2, <2>1, <2>2
<1>11. CASE \E p \in Pools, o \in Objects, payload \in Payloads, pinned \in BOOLEAN :
              HeapAlloc(p, o, payload, pinned)
  <2>1. PICK p \in Pools, o \in Objects, payload \in Payloads, pinned \in BOOLEAN :
          Alloc(p, o, payload, pinned) /\ paused' = paused
    BY <1>11 DEF HeapAlloc
  <2>2. PoolsStay({})
    BY <2>1, AllocStays
  <2>3. QED BY <1>2, <2>1, <2>2
<1>12. CASE \E o \in Objects : HeapFree(o)
  <2>1. PICK o \in Objects : Free(o) /\ paused' = paused
    BY <1>12 DEF HeapFree
  <2>2. PoolsStay({})
    BY <2>1, FreeStays
  <2>3. QED BY <1>2, <2>1, <2>2
<1>13. CASE \E p \in Pools, req \in Requests : HeapCompact(p, req)
  <2>1. PICK p \in Pools, req \in Requests : Compact(p, req) /\ paused' = paused \ {p}
    BY <1>13 DEF HeapCompact
  <2>2. PoolsStay({p})
    BY <2>1, CompactStays
  <2>3. QED BY <1>2, <2>1, <2>2
<1>14. CASE \E p \in Watched : CompactRefused(p)
  BY <1>3, <1>14, AdviceAssumption DEF CompactRefused
<1>15. CASE \E s, t \in Pools : HeapMerge(s, t)
  <2>1. PICK s \in Pools, t \in Pools : Merge(s, t) /\ paused' = paused \ {s, t}
    BY <1>15 DEF HeapMerge
  <2>2. PoolsStay({s, t})
    BY <2>1, MergeStays
  <2>3. QED BY <1>2, <2>1, <2>2
<1>16. CASE \E p \in Pools, n \in 1 .. Segments : HeapSplit(p, n)
  <2>1. PICK p \in Pools, n \in 1 .. Segments : Split(p, n) /\ paused' = paused \ {p}
    BY <1>16 DEF HeapSplit
  <2>2. PoolsStay({p})
    BY <2>1, SplitStays
  <2>3. QED BY <1>2, <2>1, <2>2
<1>17. CASE UNCHANGED allvars
  BY <1>3, <1>17 DEF allvars, side
<1>18. QED BY <1>4, <1>5, <1>6, <1>7, <1>8, <1>9, <1>10, <1>11, <1>12, <1>13, <1>14, <1>15,
              <1>16, <1>17 DEF AdviceNext

LEMMA HeldKept ==
  ASSUME TypeOK, HeldLive, [AdviceNext]_allvars
  PROVE  HeldLive'
<1>1. \A x \in held : x \in Objects /\ obj[x].size > 0
  BY DEF HeldLive
<1>2. ASSUME NEW freed, ObjectsStay(freed), held' \subseteq held, held \cap freed = {}
      PROVE  HeldLive'
  <2>1. SUFFICES ASSUME NEW x \in held' PROVE x \in Objects /\ obj'[x].size > 0
    BY DEF HeldLive
  <2>2. QED BY <1>1, <1>2, <2>1 DEF ObjectsStay
<1>3. CASE UNCHANGED vars /\ \A x \in held' \ held : x \in Objects /\ obj[x].size > 0
  <2>1. SUFFICES ASSUME NEW x \in held' PROVE x \in Objects /\ obj'[x].size > 0
    BY DEF HeldLive
  <2>2. obj' = obj
    BY <1>3 DEF vars
  <2>3. QED BY <1>1, <1>3, <2>1, <2>2
<1>4. CASE \E t \in Thresholds \ {thresholds} : set_compaction_thresholds(t)
  BY <1>3, <1>4 DEF set_compaction_thresholds
<1>5. CASE \E p \in Watched, req \in Queries : Analyze(p, req)
  BY <1>3, <1>5 DEF Analyze
<1>6. CASE Answer
  BY <1>3, <1>6 DEF Answer
<1>7. CASE \E o \in Objects : Borrow(o) \/ EndBorrow(o)
  BY <1>3, <1>7 DEF Borrow, EndBorrow
<1>8. CASE \E p \in Watched : Pause(p) \/ Resume(p)
  BY <1>3, <1>8 DEF Pause, Resume
<1>9. CASE \E n \in 1 .. Segments : HeapCreate(n)
  <2>1. PICK n \in 1 .. Segments : CreatePool(n) /\ held' = held
    BY <1>9 DEF HeapCreate
  <2>2. ObjectsStay({})
    BY <2>1, CreateStays
  <2>3. QED BY <1>2, <2>1, <2>2
<1>10. CASE \E p \in Pools : HeapDestroy(p)
  <2>1. PICK p \in Pools : DestroyPool(p) /\ held' = held
    BY <1>10 DEF HeapDestroy
  <2>2. ObjectsStay({})
    BY <2>1, DestroyStays
  <2>3. QED BY <1>2, <2>1, <2>2
<1>11. CASE \E p \in Pools, o \in Objects, payload \in Payloads, pinned \in BOOLEAN :
              HeapAlloc(p, o, payload, pinned)
  <2>1. PICK p \in Pools, o \in Objects, payload \in Payloads, pinned \in BOOLEAN :
          Alloc(p, o, payload, pinned) /\ held' = held
    BY <1>11 DEF HeapAlloc
  <2>2. ObjectsStay({})
    BY <2>1, AllocStays
  <2>3. QED BY <1>2, <2>1, <2>2
<1>12. CASE \E o \in Objects : HeapFree(o)
  <2>1. PICK o \in Objects : Free(o) /\ o \notin held /\ held' = held
    BY <1>12 DEF HeapFree
  <2>2. ObjectsStay({o})
    BY <2>1, FreeStays
  <2>3. QED BY <1>2, <2>1, <2>2
<1>13. CASE \E p \in Pools, req \in Requests : HeapCompact(p, req)
  <2>1. PICK p \in Pools, req \in Requests : Compact(p, req) /\ held' = held
    BY <1>13 DEF HeapCompact
  <2>2. ObjectsStay({})
    BY <2>1, CompactStays
  <2>3. QED BY <1>2, <2>1, <2>2
<1>14. CASE \E p \in Watched : CompactRefused(p)
  BY <1>3, <1>14 DEF CompactRefused
<1>15. CASE \E s, t \in Pools : HeapMerge(s, t)
  <2>1. PICK s \in Pools, t \in Pools : Merge(s, t) /\ held' = held
    BY <1>15 DEF HeapMerge
  <2>2. ObjectsStay({})
    BY <2>1, MergeStays
  <2>3. QED BY <1>2, <2>1, <2>2
<1>16. CASE \E p \in Pools, n \in 1 .. Segments : HeapSplit(p, n)
  <2>1. PICK p \in Pools, n \in 1 .. Segments : Split(p, n) /\ held' = held
    BY <1>16 DEF HeapSplit
  <2>2. ObjectsStay({})
    BY <2>1, SplitStays
  <2>3. QED BY <1>2, <2>1, <2>2
<1>17. CASE UNCHANGED allvars
  BY <1>3, <1>17 DEF allvars, side
<1>18. QED BY <1>4, <1>5, <1>6, <1>7, <1>8, <1>9, <1>10, <1>11, <1>12, <1>13, <1>14, <1>15,
              <1>16, <1>17 DEF AdviceNext

(* The epochs, and the steps of the owner since the last answer. *)
LEMMA EpochsKept ==
  ASSUME EpochsOK, [AdviceNext]_allvars
  PROVE  EpochsOK'
<1>1. /\ \A q \in Pools : epoch[q] \in 0 .. EpochBound
      /\ age \in 0 .. AgeBound /\ AgeBound \in Nat /\ EpochBound \in Nat /\ EpochBound >= 1
      /\ epoch \in [Pools -> 0 .. EpochBound]
  BY AdviceAssumption DEF EpochsOK
<1>2. 0 \in 0 .. EpochBound /\ 1 \in 0 .. EpochBound /\ 0 \in 0 .. AgeBound
  BY <1>1
<1>3. \A q \in Pools : epoch[q] < EpochBound => epoch[q] + 1 \in 0 .. EpochBound
  BY <1>1
<1>4. Tick => age' \in 0 .. AgeBound
  BY <1>1 DEF Tick
<1>5. CASE epoch' = epoch /\ (age' = age \/ age' = 0 \/ Tick)
  BY <1>1, <1>2, <1>4, <1>5 DEF EpochsOK
<1>6. CASE \E t \in Thresholds \ {thresholds} : set_compaction_thresholds(t)
  BY <1>5, <1>6 DEF set_compaction_thresholds
<1>7. CASE \E p \in Watched, req \in Queries : Analyze(p, req)
  BY <1>5, <1>7 DEF Analyze
<1>8. CASE Answer
  BY <1>5, <1>8 DEF Answer
<1>9. CASE \E o \in Objects : Borrow(o) \/ EndBorrow(o)
  BY <1>5, <1>9 DEF Borrow, EndBorrow
<1>10. CASE \E p \in Watched : Pause(p) \/ Resume(p)
  BY <1>5, <1>10 DEF Pause, Resume
<1>11. CASE \E n \in 1 .. Segments : HeapCreate(n)
  <2>1. PICK n \in 1 .. Segments : HeapCreate(n)
    BY <1>11
  <2>2. Tick /\ epoch' = [p \in Pools |-> IF ~Exists(p) /\ pool'[p].count > 0 THEN 1 ELSE epoch[p]]
    BY <2>1 DEF HeapCreate
  <2>3. QED BY <1>1, <1>2, <1>4, <2>2 DEF EpochsOK
<1>12. CASE \E p \in Pools : HeapDestroy(p)
  <2>1. PICK p \in Pools : Tick /\ epoch' = [epoch EXCEPT ![p] = 0]
    BY <1>12 DEF HeapDestroy
  <2>2. QED BY <1>1, <1>2, <1>4, <2>1 DEF EpochsOK
<1>13. CASE \E p \in Pools, o \in Objects, payload \in Payloads, pinned \in BOOLEAN :
              HeapAlloc(p, o, payload, pinned)
  BY <1>5, <1>13 DEF HeapAlloc
<1>14. CASE \E o \in Objects : HeapFree(o)
  BY <1>5, <1>14 DEF HeapFree
<1>15. CASE \E p \in Pools, req \in Requests : HeapCompact(p, req)
  <2>1. PICK p \in Pools : Tick /\ epoch[p] < EpochBound /\ epoch' = [epoch EXCEPT ![p] = @ + 1]
    BY <1>15 DEF HeapCompact
  <2>2. QED BY <1>1, <1>3, <1>4, <2>1 DEF EpochsOK
<1>16. CASE \E p \in Watched : CompactRefused(p)
  BY <1>5, <1>16 DEF CompactRefused
<1>17. CASE \E s, t \in Pools : HeapMerge(s, t)
  <2>1. PICK s \in Pools, t \in Pools :
          Tick /\ epoch[t] < EpochBound /\ epoch' = [epoch EXCEPT ![t] = @ + 1, ![s] = 0]
    BY <1>17 DEF HeapMerge
  <2>2. QED BY <1>1, <1>2, <1>3, <1>4, <2>1 DEF EpochsOK
<1>18. CASE \E p \in Pools, n \in 1 .. Segments : HeapSplit(p, n)
  <2>1. PICK p \in Pools, n \in 1 .. Segments : HeapSplit(p, n)
    BY <1>18
  <2>2. /\ Tick /\ epoch[p] < EpochBound
        /\ epoch' = [q \in Pools |-> IF q = p THEN epoch[p] + 1
                                     ELSE IF ~Exists(q) /\ pool'[q].count > 0 THEN 1 ELSE epoch[q]]
    BY <2>1 DEF HeapSplit
  <2>3. QED BY <1>1, <1>2, <1>3, <1>4, <2>2 DEF EpochsOK
<1>19. CASE UNCHANGED allvars
  BY <1>5, <1>19 DEF allvars, side
<1>20. QED BY <1>6, <1>7, <1>8, <1>9, <1>10, <1>11, <1>12, <1>13, <1>14, <1>15, <1>16, <1>17,
              <1>18, <1>19 DEF AdviceNext

(* What an analysis copies is an advice, and its bytes add up. *)
Balanced(a) == a.capacity = a.used + a.free

LEMMA SampledType ==
  ASSUME HeapInv, NEW p \in Pools, Exists(p), NEW req \in Queries
  PROVE  Sampled(p, req) \in CompactionAdvice /\ Balanced(Sampled(p, req))
<1>1. PICK s \in PoolStates : s = state(p)
  BY DEF state, PoolStates
<1>2. PICK cap \in 0 .. Zone, used \in 0 .. Zone, free \in 0 .. Zone, slack \in 0 .. Zone :
        /\ cap = Hi(pool[p]) - Lo(pool[p]) /\ used = pool[p].used /\ free = FreeUnits(p)
        /\ slack = pool[p].fragment
  <2>1. \A x \in 1 .. Zone : x \in 0 .. Zone
    BY ZoneType
  <2>2. QED BY <2>1, FreeUnitsAre
<1>3. cap = used + free
  <2>1. free = cap - used
    BY <1>2 DEF FreeUnits
  <2>2. Zone \in Nat
    BY ZoneType
  <2>3. QED BY ONLY <2>1, <2>2, <1>2
<1>4. PICK largest \in 0 .. Zone : largest = LargestFree(p)
  <2>1. PICK top \in Nat : top = LargestFree(p)
    BY LargestIsABin
  <2>2. top + slack <= free /\ Zone \in Nat
    BY <1>2, <2>1, FreeUnitsAre, ZoneType
  <2>3. top \in 0 .. Zone
    BY ONLY <1>2, <2>1, <2>2
  <2>4. QED BY <2>1, <2>3
<1>5. PICK live \in Nat : live = pool[p].live
  BY PoolTypes DEF HeapInv
<1>6. PICK borrows \in Nat : borrows = borrow_count(p)
  <2>1. held \cap Residents(p) \in SUBSET Objects /\ Cardinality(Objects) \in Nat
    BY HeapAssumption, FS_CardinalityType DEF Residents
  <2>2. QED BY <2>1, CountType DEF borrow_count
<1>7. PICK pinned \in BOOLEAN : pinned = \E o \in Residents(p) : obj[o].pinned
  OBVIOUS
<1>8. PICK moves \in Nat \cup {-1}, bytes \in Nat \cup {-1} :
        moves = Estimate(p).moves /\ bytes = Estimate(p).bytes
  BY FullCompaction
<1>9. Sampled(p, req) =
        [req |-> req, verdict |-> "INVALID_METADATA", state |-> s, capacity |-> cap,
         used |-> used, free |-> free, live |-> live, borrows |-> borrows, fragment |-> slack,
         largest |-> largest, pinned |-> pinned, moves |-> moves, bytes |-> bytes]
  BY <1>1, <1>2, <1>4, <1>5, <1>6, <1>7, <1>8 DEF Sampled
<1>10. "INVALID_METADATA" \in Verdicts
  BY DEF Verdicts
<1>11. QED BY <1>3, <1>9, <1>10 DEF CompactionAdvice, Balanced

LEMMA UnknownType ==
  ASSUME NEW req \in Queries
  PROVE  Unknown(req) \in CompactionAdvice /\ Balanced(Unknown(req))
<1>1. 0 \in 0 .. Zone
  BY ZoneType
<1>2. "INVALID_METADATA" \in Verdicts /\ "Empty" \in PoolStates
  BY DEF Verdicts, PoolStates
<1>3. QED BY <1>1, <1>2 DEF Unknown, CompactionAdvice, Balanced

LEMMA AdviceType ==
  ASSUME NEW p, NEW a \in CompactionAdvice, Balanced(a), NEW b, b = Advice(p, a)
  PROVE  b \in CompactionAdvice /\ Balanced(b)
<1>1. PICK v \in Verdicts : v = Verdict(p, a)
  BY DEF Verdict, Verdicts
<1>2. [a EXCEPT !.verdict = v] \in CompactionAdvice /\ Balanced([a EXCEPT !.verdict = v])
  BY DEF CompactionAdvice, Balanced
<1>3. b = IF Exists(p) THEN [a EXCEPT !.verdict = v] ELSE a
  BY <1>1 DEF Advice
<1>4. QED BY <1>2, <1>3

LEMMA KeyType ==
  ASSUME EpochsOK, thresholds \in Thresholds, NEW p \in Pools, NEW a \in CompactionAdvice
  PROVE  Key(p, a) \in AdviceCache
<1>1. PICK e \in 0 .. EpochBound : e = IF Exists(p) THEN epoch[p] ELSE 0
  BY AdviceAssumption DEF EpochsOK
<1>2. Key(p, a) =
        [verdict |-> a.verdict, state |-> a.state, epoch |-> e,
         borrows |-> a.borrows, used |-> a.used, free |-> a.free, live |-> a.live,
         largest |-> a.largest, fragment |-> a.fragment, pinned |-> a.pinned, req |-> a.req,
         thresholds |-> thresholds]
  BY <1>1 DEF Key
<1>3. QED BY <1>2 DEF CompactionAdvice, AdviceCache

LEMMA VisibleType ==
  ASSUME NEW a \in CompactionAdvice, NEW v, v = Visible(a)
  PROVE  /\ v \in CompactionAdvice
         /\ v = [req |-> a.req, verdict |-> a.verdict, state |-> a.state, capacity |-> a.capacity,
                 used |-> a.used, free |-> a.free, live |-> a.live, borrows |-> a.borrows,
                 fragment |-> a.fragment, largest |-> a.largest, pinned |-> a.pinned,
                 moves |-> 0, bytes |-> 0]
  BY DEF Visible, CompactionAdvice

(* The cache entry behind what the caller was told, field by field: what   *)
(* makes the change key as good as the whole advice.                       *)
Agree(c, t) ==
  /\ c.verdict = t.verdict /\ c.state = t.state /\ c.borrows = t.borrows
  /\ c.used = t.used /\ c.free = t.free /\ c.live = t.live
  /\ c.largest = t.largest /\ c.fragment = t.fragment /\ c.pinned = t.pinned /\ c.req = t.req
  /\ Balanced(t) /\ t.moves = 0 /\ t.bytes = 0

ToldIs(p) == told[p] # NoAdvice => cache[p] # NoAdvice /\ Agree(cache[p], told[p])
Recalls   == \A p \in Pools : ToldIs(p)
CallAdds  == call # NoAdvice => Balanced(call.seen)

AdviceInv == HeapInv /\ PausedExist /\ HeldLive /\ EpochsOK /\ AnswersOK /\ Recalls /\ CallAdds

LEMMA AnswerIs ==
  ASSUME EpochsOK, AnswersOK, CallAdds, Answer
  PROVE  \E p \in Pools : \E a \in CompactionAdvice :
           /\ p = call.pool /\ a = Advice(p, call.seen) /\ Balanced(a)
           /\ Key(p, a) \in AdviceCache /\ Visible(a) \in CompactionAdvice
           /\ Agree(Key(p, a), Visible(a))
           /\ cache' = [cache EXCEPT ![p] = Key(p, a)]
           /\ told'  = [told EXCEPT ![p] = Visible(a)]
<1>1. call \in Analysis /\ Balanced(call.seen)
  BY DEF Answer, Idle, AnswersOK, CallAdds
<1>2. PICK p \in Pools : p = call.pool
  BY <1>1, AdviceAssumption DEF Analysis
<1>3. PICK seen \in CompactionAdvice : seen = call.seen
  BY <1>1 DEF Analysis
<1>4. PICK a : a = Advice(p, seen)
  OBVIOUS
<1>5. a \in CompactionAdvice /\ Balanced(a)
  BY <1>1, <1>3, <1>4, AdviceType
<1>6. thresholds \in Thresholds
  BY DEF AnswersOK
<1>7. Key(p, a) \in AdviceCache
  BY <1>5, <1>6, KeyType
<1>8. PICK v : v = Visible(a)
  OBVIOUS
<1>9. /\ v \in CompactionAdvice
      /\ v = [req |-> a.req, verdict |-> a.verdict, state |-> a.state, capacity |-> a.capacity,
              used |-> a.used, free |-> a.free, live |-> a.live, borrows |-> a.borrows,
              fragment |-> a.fragment, largest |-> a.largest, pinned |-> a.pinned,
              moves |-> 0, bytes |-> 0]
  BY <1>5, <1>8, VisibleType
<1>10. Agree(Key(p, a), v)
  BY <1>5, <1>9 DEF Key, Agree, Balanced
<1>11. cache' = [cache EXCEPT ![p] = Key(p, a)] /\ told' = [told EXCEPT ![p] = Visible(a)]
  BY <1>2, <1>3, <1>4 DEF Answer
<1>12. QED BY <1>2, <1>3, <1>4, <1>5, <1>7, <1>8, <1>9, <1>10, <1>11

(* A step that answers nothing may only forget what callers were told. *)
Forgets == \A p \in Pools : told'[p] = told[p] \/ told'[p] = NoAdvice

LEMMA AnswersKept ==
  ASSUME HeapInv, EpochsOK, AnswersOK, Recalls, CallAdds, [AdviceNext]_allvars
  PROVE  AnswersOK' /\ Recalls' /\ CallAdds'
<1>1. /\ thresholds \in Thresholds
      /\ cache \in [Pools -> AdviceCache \cup {NoAdvice}]
      /\ told \in [Pools -> CompactionAdvice \cup {NoAdvice}]
      /\ call \in Analysis \cup {NoAdvice}
  BY DEF AnswersOK
<1>2. ASSUME cache' = cache, told' \in [Pools -> CompactionAdvice \cup {NoAdvice}], Forgets
      PROVE  Recalls'
  BY <1>2 DEF Recalls, ToldIs, Forgets
<1>3. ASSUME thresholds' \in Thresholds, UNCHANGED <<cache, told, call>>
      PROVE  AnswersOK' /\ Recalls' /\ CallAdds'
  <2>1. AnswersOK'
    BY <1>1, <1>3 DEF AnswersOK
  <2>2. Recalls'
    BY <1>1, <1>2, <1>3 DEF Forgets
  <2>3. CallAdds'
    BY <1>3 DEF CallAdds
  <2>4. QED BY <2>1, <2>2, <2>3
<1>4. ASSUME UNCHANGED <<thresholds, cache, call>>, NEW new,
             told' = [q \in Pools |-> IF q \in new THEN NoAdvice ELSE told[q]]
      PROVE  AnswersOK' /\ Recalls' /\ CallAdds'
  <2>1. told' \in [Pools -> CompactionAdvice \cup {NoAdvice}] /\ Forgets
    BY <1>1, <1>4 DEF Forgets
  <2>2. AnswersOK'
    BY <1>1, <1>4, <2>1 DEF AnswersOK
  <2>3. Recalls'
    BY <1>2, <1>4, <2>1
  <2>4. CallAdds'
    BY <1>4 DEF CallAdds
  <2>5. QED BY <2>2, <2>3, <2>4
<1>5. CASE \E t \in Thresholds \ {thresholds} : set_compaction_thresholds(t)
  BY <1>3, <1>5 DEF set_compaction_thresholds
<1>6. CASE \E p \in Watched, req \in Queries : Analyze(p, req)
  <2>1. PICK p \in Watched, req \in Queries :
          /\ call' = [pool |-> p, seen |-> IF Exists(p) THEN Sampled(p, req) ELSE Unknown(req)]
          /\ UNCHANGED <<thresholds, cache, told>>
    BY <1>6 DEF Analyze
  <2>2. PICK seen : seen = IF Exists(p) THEN Sampled(p, req) ELSE Unknown(req)
    OBVIOUS
  <2>3. seen \in CompactionAdvice /\ Balanced(seen)
    <3>1. p \in Pools
      BY AdviceAssumption
    <3>2. CASE Exists(p)
      BY <2>2, <3>1, <3>2, SampledType
    <3>3. CASE ~Exists(p)
      BY <2>2, <3>3, UnknownType
    <3>4. QED BY <3>2, <3>3
  <2>4. call' = [pool |-> p, seen |-> seen] /\ call' \in Analysis
    BY <2>1, <2>2, <2>3 DEF Analysis
  <2>5. AnswersOK'
    BY <1>1, <2>1, <2>4 DEF AnswersOK
  <2>6. Recalls'
    BY <1>1, <1>2, <2>1 DEF Forgets
  <2>7. CallAdds'
    BY <2>3, <2>4 DEF CallAdds, Balanced
  <2>8. QED BY <2>5, <2>6, <2>7
<1>7. CASE Answer
  <2>1. PICK p \in Pools, a \in CompactionAdvice :
          /\ Key(p, a) \in AdviceCache /\ Visible(a) \in CompactionAdvice
          /\ Agree(Key(p, a), Visible(a))
          /\ cache' = [cache EXCEPT ![p] = Key(p, a)]
          /\ told'  = [told EXCEPT ![p] = Visible(a)]
    BY <1>7, AnswerIs
  <2>2. PICK k \in AdviceCache, v \in CompactionAdvice :
          /\ Agree(k, v)
          /\ cache' = [cache EXCEPT ![p] = k] /\ told'  = [told EXCEPT ![p] = v]
    BY <2>1
  <2>3. call' = NoAdvice /\ thresholds' = thresholds
    BY <1>7 DEF Answer
  <2>4. AnswersOK'
    BY <1>1, <2>2, <2>3 DEF AnswersOK
  <2>5. Recalls'
    <3>1. k # NoAdvice
      BY NoAdviceAssumption
    <3>2. SUFFICES ASSUME NEW q \in Pools, told'[q] # NoAdvice
                   PROVE  cache'[q] # NoAdvice /\ Agree(cache'[q], told'[q])
      BY DEF Recalls, ToldIs, Agree, Balanced
    <3>3. CASE q = p
      <4>1. cache'[q] = k /\ told'[q] = v
        BY <1>1, <2>2, <3>3
      <4>2. QED BY <2>2, <3>1, <4>1
    <3>4. CASE q # p
      <4>1. cache'[q] = cache[q] /\ told'[q] = told[q]
        BY <1>1, <2>2, <3>4
      <4>2. QED BY <3>2, <4>1 DEF Recalls, ToldIs
    <3>5. QED BY <3>3, <3>4
  <2>6. CallAdds'
    BY <2>3 DEF CallAdds
  <2>7. QED BY <2>4, <2>5, <2>6
<1>8. CASE \E o \in Objects : Borrow(o) \/ EndBorrow(o)
  BY <1>1, <1>3, <1>8 DEF Borrow, EndBorrow
<1>9. CASE \E p \in Watched : Pause(p) \/ Resume(p)
  BY <1>1, <1>3, <1>9 DEF Pause, Resume
<1>10. CASE \E n \in 1 .. Segments : HeapCreate(n)
  <2>1. PICK n \in 1 .. Segments : HeapCreate(n)
    BY <1>10
  <2>2. PICK new : new = {p \in Pools : ~Exists(p) /\ pool'[p].count > 0}
    OBVIOUS
  <2>3. /\ UNCHANGED <<thresholds, cache, call>>
        /\ told' = [q \in Pools |-> IF q \in new THEN NoAdvice ELSE told[q]]
    BY <2>1, <2>2 DEF HeapCreate
  <2>4. QED BY <1>4, <2>3
<1>11. CASE \E p \in Pools : HeapDestroy(p)
  BY <1>1, <1>3, <1>11 DEF HeapDestroy
<1>12. CASE \E p \in Pools, o \in Objects, payload \in Payloads, pinned \in BOOLEAN :
              HeapAlloc(p, o, payload, pinned)
  BY <1>1, <1>3, <1>12 DEF HeapAlloc
<1>13. CASE \E o \in Objects : HeapFree(o)
  BY <1>1, <1>3, <1>13 DEF HeapFree
<1>14. CASE \E p \in Pools, req \in Requests : HeapCompact(p, req)
  BY <1>1, <1>3, <1>14 DEF HeapCompact
<1>15. CASE \E p \in Watched : CompactRefused(p)
  BY <1>1, <1>3, <1>15 DEF CompactRefused
<1>16. CASE \E s, t \in Pools : HeapMerge(s, t)
  BY <1>1, <1>3, <1>16 DEF HeapMerge
<1>17. CASE \E p \in Pools, n \in 1 .. Segments : HeapSplit(p, n)
  <2>1. PICK p \in Pools, n \in 1 .. Segments : HeapSplit(p, n)
    BY <1>17
  <2>2. PICK new : new = {q \in Pools : ~Exists(q) /\ pool'[q].count > 0}
    OBVIOUS
  <2>3. /\ UNCHANGED <<thresholds, cache, call>>
        /\ told' = [q \in Pools |-> IF q \in new THEN NoAdvice ELSE told[q]]
    BY <2>1, <2>2 DEF HeapSplit
  <2>4. QED BY <1>4, <2>3
<1>18. CASE UNCHANGED allvars
  BY <1>1, <1>3, <1>18 DEF allvars, side
<1>19. QED BY <1>5, <1>6, <1>7, <1>8, <1>9, <1>10, <1>11, <1>12, <1>13, <1>14, <1>15, <1>16,
              <1>17, <1>18 DEF AdviceNext

LEMMA AdviceStarts ==
  ASSUME AdviceInit
  PROVE  AdviceInv
<1>1. HeapInv
  BY HeapStarts DEF AdviceInit
<1>2. PausedExist /\ HeldLive
  BY DEF AdviceInit, PausedExist, HeldLive
<1>3. EpochsOK
  BY AdviceAssumption DEF AdviceInit, EpochsOK
<1>4. AnswersOK
  BY DEF AdviceInit, AnswersOK
<1>5. Recalls /\ CallAdds
  BY DEF AdviceInit, Recalls, ToldIs, CallAdds
<1>6. QED BY <1>1, <1>2, <1>3, <1>4, <1>5 DEF AdviceInv

LEMMA AdviceSteps ==
  ASSUME AdviceInv, [AdviceNext]_allvars
  PROVE  AdviceInv'
<1>1. HeapInv /\ TypeOK /\ PausedExist /\ HeldLive /\ EpochsOK /\ AnswersOK /\ Recalls /\ CallAdds
  BY DEF AdviceInv, HeapInv
<1>2. HeapInv'
  BY <1>1, AdviceStepsHeap, HeapSteps
<1>3. PausedExist'
  BY <1>1, PausedKept
<1>4. HeldLive'
  BY <1>1, HeldKept
<1>5. EpochsOK'
  BY <1>1, EpochsKept
<1>6. AnswersOK' /\ Recalls' /\ CallAdds'
  BY <1>1, AnswersKept
<1>7. QED BY <1>2, <1>3, <1>4, <1>5, <1>6 DEF AdviceInv

(* An advice that agrees with the cache is the one told. *)
LEMMA UnchangedIsTold ==
  ASSUME AdviceInv, Answer, NEW p, p = call.pool, NEW a, a = Advice(p, call.seen),
         ~changed(p, a), told[p] # NoAdvice
  PROVE  Visible(a) = told[p]
<1>1. EpochsOK /\ AnswersOK /\ Recalls /\ CallAdds
  BY DEF AdviceInv
<1>2. p \in Pools /\ a \in CompactionAdvice /\ Balanced(a)
  BY <1>1, AnswerIs
<1>3. PICK t \in CompactionAdvice : t = told[p]
  BY <1>1, <1>2 DEF AnswersOK
<1>4. PICK k : k = Key(p, a) /\ Agree(k, t)
  <2>1. Agree(cache[p], told[p]) /\ cache[p] = Key(p, a)
    BY <1>1, <1>2 DEF changed, Recalls, ToldIs
  <2>2. QED BY <1>3, <2>1
<1>5. Visible(a) =
        [req |-> a.req, verdict |-> a.verdict, state |-> a.state, capacity |-> a.capacity,
         used |-> a.used, free |-> a.free, live |-> a.live, borrows |-> a.borrows,
         fragment |-> a.fragment, largest |-> a.largest, pinned |-> a.pinned,
         moves |-> 0, bytes |-> 0]
  BY <1>2, VisibleType
<1>6. t = [req |-> t.req, verdict |-> t.verdict, state |-> t.state, capacity |-> t.capacity,
           used |-> t.used, free |-> t.free, live |-> t.live, borrows |-> t.borrows,
           fragment |-> t.fragment, largest |-> t.largest, pinned |-> t.pinned,
           moves |-> t.moves, bytes |-> t.bytes]
  BY <1>3 DEF CompactionAdvice
<1>7. /\ t.req = a.req /\ t.verdict = a.verdict /\ t.state = a.state /\ t.used = a.used
      /\ t.free = a.free /\ t.live = a.live /\ t.borrows = a.borrows /\ t.fragment = a.fragment
      /\ t.largest = a.largest /\ t.pinned = a.pinned /\ t.moves = 0 /\ t.bytes = 0
  BY <1>4 DEF Key, Agree
<1>8. t.capacity = a.capacity
  BY <1>2, <1>4, <1>7 DEF Agree, Balanced
<1>9. QED BY <1>3, <1>5, <1>6, <1>7, <1>8

LEMMA AdviceInvariant == AdviceSpec => []AdviceInv
<1>1. AdviceInit => AdviceInv
  BY AdviceStarts
<1>2. AdviceInv /\ [AdviceNext]_allvars => AdviceInv'
  BY AdviceSteps
<1>3. QED BY <1>1, <1>2, PTL DEF AdviceSpec

(* Whatever other contexts borrow, pause and resume between the owner's    *)
(* calls and inside its analyses (analyze_compaction), the advice's        *)
(* variables keep their types: paused pools exist, borrowed objects live,  *)
(* and every advice and cache entry is one the structs can hold.           *)
THEOREM AdviceTypes == AdviceSpec => []AdviceTypeOK
<1>1. AdviceInv => AdviceTypeOK
  BY AdviceParts DEF AdviceInv, HeapInv
<1>2. QED BY <1>1, AdviceInvariant, PTL

(* estimated_move_count and estimated_move_bytes are exactly what a full   *)
(* compact_pool would move at that moment, in every state the heap and its *)
(* advice reach.                                                           *)
THEOREM EstimatesExact == AdviceSpec => []EstimateExact
<1>1. AdviceInv => EstimateExact
  BY EstimateHolds DEF AdviceInv
<1>2. QED BY <1>1, AdviceInvariant, PTL

(* The verdict of analyze_compaction keeps its promises to an owner that   *)
(* acts on it at once: no false damage, NO_ACTION is an alloc that finds a *)
(* block, COMPACT_RECOMMENDED a compaction that pays in a pool without     *)
(* pinned objects, unless both thresholds are 0 and nothing is requested,  *)
(* COMPACT_UNLIKELY_TO_HELP one that could not, without slack.             *)
THEOREM VerdictsHonest == AdviceSpec => []VerdictHonest
<1>1. AdviceInv => VerdictHonest
  BY VerdictHolds DEF AdviceInv, AnswersOK
<1>2. QED BY <1>1, AdviceInvariant, PTL

(* poll_compaction_advice suppresses an answer only when all of it but the *)
(* move estimates is what the caller was last told about this pool.        *)
THEOREM SuppressionLosesNothing == AdviceSpec => SuppressionSound
<1>1. AdviceInv =>
        [Answer => LET p == call.pool
                       a == Advice(p, call.seen)
                   IN ~changed(p, a) /\ told[p] # NoAdvice => Visible(a) = told[p]]_allvars
  BY UnchangedIsTold
<1>2. QED BY <1>1, AdviceInvariant, PTL DEF SuppressionSound

===============================================================================
