---------------------------- MODULE PondHeapProofs ----------------------------
(***************************************************************************)
(* The block layer of PondHeap, for every zone, every set of pools and     *)
(* descriptors, all payloads and requests: the headers always describe the *)
(* blocks, so free() finds its neighbours, the audits before maintenance   *)
(* pass, every packing plan fits, and validate's sweep finds every byte    *)
(* accounted for.                                                          *)
(***************************************************************************)
EXTENDS PondHeap, PondFolds

-----------------------------------------------------------------------------
(* The inductive invariant *)

SizeIn(m, u) == IF m[u].own < 0 THEN -m[u].own ELSE m[u].own
Heads(p)     == pool[p].bins \cup {obj[o].start : o \in Residents(p)}

(* The blocks of a window, by the headers m at the heads S: each lies in   *)
(* the window, none overlaps the next, the word behind one is its          *)
(* successor's header with the link back, or the head of poisoned slack,   *)
(* or the window's end, and a link back leads to a block that ends here.   *)
Chained(m, S, lo, hi) ==
  \A u \in S :
    /\ lo <= u /\ SizeIn(m, u) >= MinBlock /\ u + SizeIn(m, u) <= hi
    /\ \A v \in S : u < v => u + SizeIn(m, u) <= v
    /\ u + SizeIn(m, u) < hi =>
         \/ u + SizeIn(m, u) \in S /\ m[u + SizeIn(m, u)].prev = SizeIn(m, u)
         \/ m[u + SizeIn(m, u)].own = 0
    /\ m[u].prev # 0 => u - m[u].prev \in S /\ SizeIn(m, u - m[u].prev) = m[u].prev

(* The units of the window that no block covers.                           *)
Bare(m, S, lo, hi) == {x \in lo .. hi - 1 : \A u \in S : x < u \/ u + SizeIn(m, u) <= x}

(* With free blocks at B and n units of slack: a block, one bare unit or   *)
(* nothing comes before the next block or the window's end, no free block  *)
(* ends where another starts, and the slack is what is bare.               *)
Spaced(m, S, B, n, lo, hi) ==
  /\ \A e \in {lo} \cup {u + SizeIn(m, u) : u \in S} :
       e < hi => e \in S \/ e + 1 \in S \/ e + 1 = hi
  /\ \A b, c \in B : b + SizeIn(m, b) # c
  /\ n = Cardinality(Bare(m, S, lo, hi))

Sizes == [o \in Objects |-> obj[o].size]

PoolInv(p) ==
  /\ pool[p].first + pool[p].count <= Segments
  /\ Chained(mem, Heads(p), Lo(pool[p]), Hi(pool[p]))
  /\ Spaced(mem, Heads(p), pool[p].bins, pool[p].fragment, Lo(pool[p]), Hi(pool[p]))
  /\ \A b \in pool[p].bins : IsFree(b)
  /\ \A o \in Residents(p) : mem[obj[o].start].own = obj[o].size
  /\ \A o, q \in Residents(p) : obj[o].start = obj[q].start => o = q
  /\ pool[p].live = Cardinality(Residents(p))
  /\ pool[p].used = Total(Sizes, Residents(p))

Apart(P, Q) == P.first + P.count <= Q.first \/ Q.first + Q.count <= P.first

HeapInv ==
  /\ TypeOK
  /\ \A p, q \in Pools : p # q /\ Exists(p) /\ Exists(q) => Apart(pool[p], pool[q])
  /\ \A p \in Pools : Exists(p) => PoolInv(p)
  /\ \A o \in Objects : obj[o].size > 0 => Exists(obj[o].pool)

-----------------------------------------------------------------------------
(* Segments and units *)

LEMMA Scaled ==
  ASSUME NEW a \in Nat, NEW b \in Nat, a <= b
  PROVE  a * SegUnits \in Nat /\ b * SegUnits \in Nat /\ a * SegUnits <= b * SegUnits
<1>1. SegUnits \in Nat /\ b - a \in Nat
  BY HeapAssumption
<1>2. (b - a) * SegUnits \in Nat /\ b * SegUnits = a * SegUnits + (b - a) * SegUnits
  BY <1>1
<1>3. a * SegUnits \in Nat /\ b * SegUnits \in Nat
  BY <1>1
<1>4. QED BY <1>2, <1>3

LEMMA ScaledUp ==
  ASSUME NEW a \in Nat, NEW b \in Nat, a < b
  PROVE  a * SegUnits + 2 <= b * SegUnits
<1>1. SegUnits \in Nat /\ SegUnits >= 2 /\ a + 1 <= b /\ a + 1 \in Nat
  BY HeapAssumption
<1>2. (a + 1) * SegUnits <= b * SegUnits
  BY <1>1, Scaled
<1>3. (a + 1) * SegUnits = a * SegUnits + SegUnits
  BY <1>1
<1>4. a * SegUnits \in Nat /\ b * SegUnits \in Nat
  BY <1>1
<1>5. QED BY <1>1, <1>2, <1>3, <1>4

LEMMA ZoneType == Zone \in Nat /\ Junk = Zone + 1 /\ Units = 0 .. Zone - 1
  BY HeapAssumption DEF Zone, Junk, Units

LEMMA Windowed ==
  ASSUME NEW P, P.first \in Nat, P.count \in Nat, P.first + P.count <= Segments
  PROVE  /\ Lo(P) \in Nat /\ Hi(P) \in Nat /\ Lo(P) <= Hi(P) /\ Hi(P) <= Zone
         /\ P.count > 0 => Lo(P) + 2 <= Hi(P)
<1>1. Segments \in Nat /\ P.first + P.count \in Nat /\ P.first <= P.first + P.count
  BY HeapAssumption
<1>2. Lo(P) \in Nat /\ Hi(P) \in Nat /\ Lo(P) <= Hi(P)
  BY <1>1, Scaled DEF Lo, Hi
<1>3. Hi(P) <= Zone
  BY <1>1, Scaled DEF Hi, Zone
<1>4. P.count > 0 => Lo(P) + 2 <= Hi(P)
  BY <1>1, ScaledUp DEF Lo, Hi
<1>5. QED BY <1>2, <1>3, <1>4

LEMMA WindowsApart ==
  ASSUME NEW P, NEW Q, P.first \in Nat, P.count \in Nat, Q.first \in Nat, Q.count \in Nat,
         Apart(P, Q)
  PROVE  Hi(P) <= Lo(Q) \/ Hi(Q) <= Lo(P)
<1>1. P.first + P.count \in Nat /\ Q.first + Q.count \in Nat
  OBVIOUS
<1>2. QED BY <1>1, Scaled DEF Apart, Lo, Hi

LEMMA PoolTypes ==
  ASSUME TypeOK, NEW p \in Pools
  PROVE  /\ pool[p].first \in Nat /\ pool[p].count \in Nat /\ pool[p].used \in Nat
         /\ pool[p].fragment \in 0 .. Zone /\ pool[p].live \in Nat /\ pool[p].bins \in SUBSET Units
         /\ pool[p] = [first |-> pool[p].first, count |-> pool[p].count, used |-> pool[p].used,
                       fragment |-> pool[p].fragment, live |-> pool[p].live, bins |-> pool[p].bins]
  BY DEF TypeOK

LEMMA ObjTypes ==
  ASSUME TypeOK, NEW o \in Objects
  PROVE  /\ obj[o].pool \in Pools /\ obj[o].start \in Nat /\ obj[o].start < Zone
         /\ obj[o].size \in Nat /\ obj[o].size <= Zone /\ obj[o].pinned \in BOOLEAN
  BY ZoneType DEF TypeOK

LEMMA MemTypes ==
  ASSUME TypeOK, NEW u \in Units
  PROVE  /\ u \in Nat /\ mem[u] \in Header
         /\ mem[u].own \in -Zone .. Junk /\ mem[u].prev \in 0 .. Junk
         /\ mem[u].own \in Int /\ mem[u].prev \in Nat /\ SizeIn(mem, u) \in Int
         /\ mem[u] = [own |-> mem[u].own, prev |-> mem[u].prev]
<1>1. /\ mem[u] \in Header /\ mem[u].own \in -Zone .. Junk /\ mem[u].prev \in 0 .. Junk
      /\ mem[u] = [own |-> mem[u].own, prev |-> mem[u].prev]
  BY DEF TypeOK, Header
<1>2. Zone \in Nat /\ u \in Nat
  BY ZoneType
<1>3. mem[u].own \in Int /\ mem[u].prev \in Nat
  BY <1>1, <1>2, ZoneType
<1>4. QED BY <1>1, <1>2, <1>3 DEF SizeIn

-----------------------------------------------------------------------------
(* Placements and their holes *)

(* A placement of live objects in a window. *)
Placement(f, lo, hi) ==
  /\ DOMAIN f \in SUBSET Objects
  /\ \A o \in DOMAIN f : /\ f[o] \in Nat /\ obj[o].size >= MinBlock
                         /\ lo <= f[o] /\ EndIn(f, o) <= hi
  /\ \A o, q \in DOMAIN f : o # q => EndIn(f, o) <= f[q] \/ EndIn(f, q) <= f[o]

Opens(f, lo) == {EndIn(f, o) : o \in DOMAIN f} \cup {lo}
Closes(f, hi) == {f[o] : o \in DOMAIN f} \cup {hi}
NextIn(f, hi, a) == Min({b \in Closes(f, hi) : b >= a})

LEMMA HolesAre ==
  ASSUME NEW f, NEW lo, NEW hi
  PROVE  Holes(f, lo, hi) = {[from |-> a, len |-> NextIn(f, hi, a) - a] :
                               a \in {e \in Opens(f, lo) : NextIn(f, hi, e) > e}}
  BY DEF Holes, NextIn, Opens, Closes

LEMMA PlacedNumbers ==
  ASSUME TypeOK, NEW f, NEW lo \in Nat, NEW hi \in Nat, lo <= hi, Placement(f, lo, hi)
  PROVE  /\ \A o \in DOMAIN f : /\ o \in Objects /\ f[o] \in Nat /\ obj[o].size \in Nat
                                /\ obj[o].size >= 2
                                /\ EndIn(f, o) \in Nat /\ EndIn(f, o) = f[o] + obj[o].size
                                /\ f[o] + 2 <= EndIn(f, o) /\ lo <= f[o] /\ EndIn(f, o) <= hi
         /\ Opens(f, lo) \in SUBSET Nat /\ Closes(f, hi) \in SUBSET Nat
         /\ \A e \in Opens(f, lo) : lo <= e /\ e <= hi
<1>1. \A o \in DOMAIN f : o \in Objects /\ f[o] \in Nat /\ obj[o].size \in Nat /\ obj[o].size >= 2
                          /\ lo <= f[o] /\ EndIn(f, o) <= hi
  BY ObjTypes DEF Placement, MinBlock
<1>2. \A o \in DOMAIN f : EndIn(f, o) \in Nat /\ EndIn(f, o) = f[o] + obj[o].size
  BY <1>1 DEF EndIn
<1>3. Opens(f, lo) \in SUBSET Nat /\ Closes(f, hi) \in SUBSET Nat
  BY <1>1, <1>2 DEF Opens, Closes
<1>4. \A e \in Opens(f, lo) : lo <= e /\ e <= hi
  BY <1>1, <1>2 DEF Opens
<1>5. QED BY <1>1, <1>2, <1>3, <1>4

LEMMA NextIs ==
  ASSUME TypeOK, NEW f, NEW lo \in Nat, NEW hi \in Nat, lo <= hi, Placement(f, lo, hi),
         NEW a \in Nat, a <= hi
  PROVE  /\ NextIn(f, hi, a) \in Closes(f, hi) /\ NextIn(f, hi, a) \in Nat
         /\ a <= NextIn(f, hi, a) /\ NextIn(f, hi, a) <= hi
         /\ \A b \in Closes(f, hi) : a <= b => NextIn(f, hi, a) <= b
<1> DEFINE B == {b \in Closes(f, hi) : b >= a}
<1>1. Closes(f, hi) \in SUBSET Nat
  BY PlacedNumbers
<1>2. hi \in Closes(f, hi)
  BY DEF Closes
<1>3. B \in SUBSET Nat /\ B # {}
  BY <1>1, <1>2
<1>4. Min(B) \in B /\ \A b \in B : Min(B) <= b
  <2> HIDE DEF B
  <2> QED BY <1>3, MinOfNumbers
<1>5. NextIn(f, hi, a) = Min(B)
  BY DEF NextIn
<1>6. NextIn(f, hi, a) \in B /\ \A b \in B : NextIn(f, hi, a) <= b
  BY <1>4, <1>5
<1>7. QED BY <1>1, <1>2, <1>6

(* A hole begins where a block or nothing ends, ends where a block or      *)
(* nothing begins, and no block meets it.                                  *)
LEMMA HoleShape ==
  ASSUME TypeOK, NEW f, NEW lo \in Nat, NEW hi \in Nat, lo <= hi, Placement(f, lo, hi),
         NEW h \in Holes(f, lo, hi)
  PROVE  /\ h = [from |-> h.from, len |-> h.len]
         /\ h.from \in Nat /\ h.len \in Nat /\ h.len > 0 /\ lo <= h.from /\ h.from + h.len <= hi
         /\ h.from \in Opens(f, lo) /\ h.from + h.len \in Closes(f, hi)
         /\ h.len = NextIn(f, hi, h.from) - h.from
         /\ \A o \in DOMAIN f : EndIn(f, o) <= h.from \/ h.from + h.len <= f[o]
<1>1. PICK a \in Opens(f, lo) : /\ NextIn(f, hi, a) > a
                                /\ h = [from |-> a, len |-> NextIn(f, hi, a) - a]
  BY HolesAre
<1>2. a \in Nat /\ lo <= a /\ a <= hi
  BY PlacedNumbers
<1>3. /\ NextIn(f, hi, a) \in Closes(f, hi) /\ NextIn(f, hi, a) \in Nat
      /\ a <= NextIn(f, hi, a) /\ NextIn(f, hi, a) <= hi
      /\ \A b \in Closes(f, hi) : a <= b => NextIn(f, hi, a) <= b
  BY <1>2, NextIs
<1>4. h.from = a /\ h.len = NextIn(f, hi, a) - a
  BY <1>1
<1>5. h.len \in Nat /\ h.len > 0 /\ h.from + h.len = NextIn(f, hi, a)
  BY <1>1, <1>2, <1>3, <1>4
<1>6. ASSUME NEW o \in DOMAIN f
      PROVE  EndIn(f, o) <= h.from \/ h.from + h.len <= f[o]
  <2>1. f[o] \in Closes(f, hi) /\ f[o] \in Nat /\ EndIn(f, o) \in Nat /\ lo <= f[o]
        /\ f[o] + 2 <= EndIn(f, o)
    BY PlacedNumbers DEF Closes
  <2>2. CASE a <= f[o]
    BY <1>3, <1>4, <1>5, <2>1, <2>2
  <2>3. CASE f[o] < a
    <3>1. a # lo
      BY <2>1, <2>3
    <3>2. PICK q \in DOMAIN f : a = EndIn(f, q)
      BY <1>1, <3>1 DEF Opens
    <3>3. f[q] \in Nat
      BY PlacedNumbers
    <3>4. q = o \/ EndIn(f, o) <= f[q] \/ EndIn(f, q) <= f[o]
      BY DEF Placement
    <3>5. f[q] <= a
      BY <3>2, PlacedNumbers
    <3>6. QED BY <1>2, <1>4, <2>1, <2>3, <3>2, <3>3, <3>4, <3>5
  <2>4. QED BY <1>2, <2>1, <2>2, <2>3
<1>7. QED BY <1>1, <1>2, <1>3, <1>4, <1>5, <1>6

LEMMA HoleFound ==
  ASSUME TypeOK, NEW f, NEW lo \in Nat, NEW hi \in Nat, lo <= hi, Placement(f, lo, hi),
         NEW e \in Opens(f, lo)
  PROVE  e \in Closes(f, hi) \/ \E h \in Holes(f, lo, hi) : h.from = e
<1>1. e \in Nat /\ e <= hi
  BY PlacedNumbers
<1>2. NextIn(f, hi, e) \in Closes(f, hi) /\ NextIn(f, hi, e) \in Nat /\ e <= NextIn(f, hi, e)
  BY <1>1, NextIs
<1>3. CASE NextIn(f, hi, e) = e
  BY <1>2, <1>3
<1>4. CASE NextIn(f, hi, e) > e
  <2>1. [from |-> e, len |-> NextIn(f, hi, e) - e] \in Holes(f, lo, hi)
    BY <1>4, HolesAre
  <2>2. QED BY <2>1
<1>5. QED BY <1>1, <1>2, <1>3, <1>4

LEMMA HolesApart ==
  ASSUME TypeOK, NEW f, NEW lo \in Nat, NEW hi \in Nat, lo <= hi, Placement(f, lo, hi),
         NEW h \in Holes(f, lo, hi), NEW k \in Holes(f, lo, hi), h # k
  PROVE  h.from + h.len < k.from \/ k.from + k.len < h.from
<1>1. h.from # k.from
  <2>1. PICK a \in Opens(f, lo) : h = [from |-> a, len |-> NextIn(f, hi, a) - a]
    BY HolesAre
  <2>2. PICK b \in Opens(f, lo) : k = [from |-> b, len |-> NextIn(f, hi, b) - b]
    BY HolesAre
  <2>3. a # b /\ h.from = a /\ k.from = b
    BY <2>1, <2>2
  <2>4. QED BY <2>3
<1>2. ASSUME NEW x \in Holes(f, lo, hi), NEW y \in Holes(f, lo, hi), x.from < y.from
      PROVE  x.from + x.len < y.from
  <2>1. /\ x.from \in Nat /\ y.from \in Nat /\ lo <= x.from /\ y.from \in Opens(f, lo)
        /\ x.len \in Nat
    BY HoleShape
  <2>2. PICK q \in DOMAIN f : y.from = EndIn(f, q)
    BY <1>2, <2>1 DEF Opens
  <2>3. EndIn(f, q) <= x.from \/ x.from + x.len <= f[q]
    BY HoleShape
  <2>4. f[q] \in Nat /\ EndIn(f, q) \in Nat /\ f[q] + 2 <= EndIn(f, q)
    BY PlacedNumbers
  <2>5. QED BY <1>2, <2>1, <2>2, <2>3, <2>4
<1>3. h.from \in Nat /\ k.from \in Nat
  BY HoleShape
<1>4. QED BY <1>1, <1>2, <1>3

-----------------------------------------------------------------------------
(* finalize_layout: the tiles of a placement, and the headers it writes *)

BlockTile(f, o) == [from |-> f[o], len |-> obj[o].size, own |-> obj[o].size]
HoleTile(h) == [from |-> h.from, len |-> h.len, own |-> IF h.len >= MinBlock THEN -h.len ELSE 0]

LEMMA TilesAre ==
  ASSUME TypeOK, NEW f, NEW lo \in Nat, NEW hi \in Nat, lo <= hi, Placement(f, lo, hi)
  PROVE  Tiles(f, lo, hi) = {BlockTile(f, o) : o \in DOMAIN f}
                            \cup {HoleTile(h) : h \in Holes(f, lo, hi)}
<1> DEFINE H == Holes(f, lo, hi)
<1>1. {HoleTile(h) : h \in H} =
        {[from |-> h.from, len |-> h.len, own |-> -h.len] : h \in {x \in H : x.len >= MinBlock}}
        \cup {[from |-> h.from, len |-> h.len, own |-> 0] : h \in {x \in H : ~(x.len >= MinBlock)}}
  BY DEF HoleTile
<1>2. {x \in H : x.len < MinBlock} = {x \in H : ~(x.len >= MinBlock)}
  <2>1. \A x \in H : x.len \in Nat
    BY HoleShape
  <2> HIDE DEF H
  <2>2. QED BY <2>1 DEF MinBlock
<1> HIDE DEF H
<1>3. QED BY <1>1, <1>2 DEF Tiles, FreeRuns, Slack, BlockTile, H

LEMMA TileShape ==
  ASSUME TypeOK, NEW f, NEW lo \in Nat, NEW hi \in Nat, lo <= hi, Placement(f, lo, hi),
         NEW t \in Tiles(f, lo, hi)
  PROVE  /\ t.from \in Nat /\ t.len \in Nat /\ t.len > 0 /\ lo <= t.from /\ t.from + t.len <= hi
         /\ t.own \in Int
         /\ t.own = 0 \/ ((t.own = t.len \/ t.own = -t.len) /\ t.len >= MinBlock)
<1>1. CASE \E o \in DOMAIN f : t = BlockTile(f, o)
  <2>1. PICK o \in DOMAIN f : t = BlockTile(f, o)
    BY <1>1
  <2>2. t.from = f[o] /\ t.len = obj[o].size /\ t.own = obj[o].size
    BY <2>1 DEF BlockTile
  <2>3. /\ f[o] \in Nat /\ obj[o].size \in Nat /\ EndIn(f, o) = f[o] + obj[o].size
        /\ f[o] + 2 <= EndIn(f, o) /\ lo <= f[o] /\ EndIn(f, o) <= hi
    BY PlacedNumbers
  <2>4. QED BY <2>2, <2>3 DEF MinBlock
<1>2. CASE \E h \in Holes(f, lo, hi) : t = HoleTile(h)
  <2>1. PICK h \in Holes(f, lo, hi) : t = HoleTile(h)
    BY <1>2
  <2>2. t.from = h.from /\ t.len = h.len /\ t.own = IF h.len >= MinBlock THEN -h.len ELSE 0
    BY <2>1 DEF HoleTile
  <2>3. h.from \in Nat /\ h.len \in Nat /\ h.len > 0 /\ lo <= h.from /\ h.from + h.len <= hi
    BY HoleShape
  <2>4. QED BY <2>2, <2>3 DEF MinBlock
<1>3. QED BY <1>1, <1>2, TilesAre

LEMMA TilesApart ==
  ASSUME TypeOK, NEW f, NEW lo \in Nat, NEW hi \in Nat, lo <= hi, Placement(f, lo, hi),
         NEW t \in Tiles(f, lo, hi), NEW s \in Tiles(f, lo, hi), t # s
  PROVE  t.from + t.len <= s.from \/ s.from + s.len <= t.from
<1>1. \A o \in DOMAIN f : BlockTile(f, o).from = f[o] /\ BlockTile(f, o).len = obj[o].size
  BY DEF BlockTile
<1>2. \A h \in Holes(f, lo, hi) : HoleTile(h).from = h.from /\ HoleTile(h).len = h.len
  BY DEF HoleTile
<1>3. \A o \in DOMAIN f : f[o] + obj[o].size = EndIn(f, o)
  BY PlacedNumbers
<1>4. ASSUME NEW o \in DOMAIN f, NEW q \in DOMAIN f, t = BlockTile(f, o), s = BlockTile(f, q)
      PROVE  t.from + t.len <= s.from \/ s.from + s.len <= t.from
  <2>1. o # q
    BY <1>4
  <2>2. EndIn(f, o) <= f[q] \/ EndIn(f, q) <= f[o]
    BY <2>1 DEF Placement
  <2>3. QED BY <1>1, <1>3, <1>4, <2>2
<1>5. ASSUME NEW x \in {t, s}, NEW y \in {t, s}, NEW o \in DOMAIN f,
             NEW h \in Holes(f, lo, hi), x = BlockTile(f, o), y = HoleTile(h)
      PROVE  x.from + x.len <= y.from \/ y.from + y.len <= x.from
  <2>1. EndIn(f, o) <= h.from \/ h.from + h.len <= f[o]
    BY HoleShape
  <2>2. QED BY <1>1, <1>2, <1>3, <1>5, <2>1
<1>6. ASSUME NEW h \in Holes(f, lo, hi), NEW k \in Holes(f, lo, hi),
             t = HoleTile(h), s = HoleTile(k)
      PROVE  t.from + t.len <= s.from \/ s.from + s.len <= t.from
  <2>1. h # k
    BY <1>6
  <2>2. h.from + h.len < k.from \/ k.from + k.len < h.from
    BY <2>1, HolesApart
  <2>3. /\ h.from \in Nat /\ h.len \in Nat /\ k.from \in Nat /\ k.len \in Nat
    BY HoleShape
  <2>4. QED BY <1>2, <1>6, <2>2, <2>3
<1>7. QED BY <1>4, <1>5, <1>6, TilesAre

LEMMA TilesFollow ==
  ASSUME TypeOK, NEW f, NEW lo \in Nat, NEW hi \in Nat, lo <= hi, Placement(f, lo, hi),
         NEW t \in Tiles(f, lo, hi)
  PROVE  t.from + t.len = hi \/ \E s \in Tiles(f, lo, hi) : s.from = t.from + t.len
<1> DEFINE e == t.from + t.len
<1>1. \A o \in DOMAIN f : BlockTile(f, o).from = f[o] /\ BlockTile(f, o).len = obj[o].size
                          /\ BlockTile(f, o) \in Tiles(f, lo, hi)
  BY TilesAre DEF BlockTile
<1>2. \A h \in Holes(f, lo, hi) : HoleTile(h).from = h.from /\ HoleTile(h).len = h.len
                                  /\ HoleTile(h) \in Tiles(f, lo, hi)
  <2>1. \A h \in Holes(f, lo, hi) : HoleTile(h) \in Tiles(f, lo, hi)
    BY TilesAre
  <2>2. QED BY <2>1 DEF HoleTile
<1>3. e \in Closes(f, hi) => e = hi \/ \E s \in Tiles(f, lo, hi) : s.from = e
  BY <1>1 DEF Closes
<1>4. CASE \E o \in DOMAIN f : t = BlockTile(f, o)
  <2>1. PICK o \in DOMAIN f : t = BlockTile(f, o)
    BY <1>4
  <2>2. e = EndIn(f, o) /\ e \in Opens(f, lo)
    BY <1>1, <2>1, PlacedNumbers DEF Opens
  <2>3. e \in Closes(f, hi) \/ \E h \in Holes(f, lo, hi) : h.from = e
    BY <2>2, HoleFound
  <2>4. QED BY <1>2, <1>3, <2>3
<1>5. CASE \E h \in Holes(f, lo, hi) : t = HoleTile(h)
  <2>1. PICK h \in Holes(f, lo, hi) : t = HoleTile(h)
    BY <1>5
  <2>2. h.from + h.len \in Closes(f, hi)
    BY HoleShape
  <2>3. e = h.from + h.len
    BY <1>2, <2>1
  <2>4. QED BY <1>3, <2>2, <2>3
<1>6. Tiles(f, lo, hi) = {BlockTile(f, o) : o \in DOMAIN f} \cup {HoleTile(h) : h \in Holes(f, lo, hi)}
  BY TilesAre
<1>7. QED BY <1>4, <1>5, <1>6

LEMMA TileUnique ==
  ASSUME TypeOK, NEW f, NEW lo \in Nat, NEW hi \in Nat, lo <= hi, Placement(f, lo, hi),
         NEW t \in Tiles(f, lo, hi), NEW s \in Tiles(f, lo, hi),
         t.from = s.from \/ t.from + t.len = s.from + s.len
  PROVE  t = s
<1>1. SUFFICES ASSUME t # s PROVE FALSE
  OBVIOUS
<1>2. t.from \in Nat /\ t.len \in Nat /\ t.len > 0
  BY TileShape
<1>3. s.from \in Nat /\ s.len \in Nat /\ s.len > 0
  BY TileShape
<1>4. t.from + t.len <= s.from \/ s.from + s.len <= t.from
  BY <1>1, TilesApart
<1>5. QED BY <1>2, <1>3, <1>4

(* prev_size of the tile at u: the length of the block that ends there.    *)
LEMMA PrevIs ==
  ASSUME TypeOK, NEW f, NEW lo \in Nat, NEW hi \in Nat, lo <= hi, Placement(f, lo, hi),
         NEW u
  PROVE  LET T == Tiles(f, lo, hi) IN
         /\ \A t \in T : t.own # 0 /\ t.from + t.len = u => PrevWord(T, u) = t.len
         /\ \/ PrevWord(T, u) = 0
            \/ \E t \in T : t.own # 0 /\ t.from + t.len = u /\ PrevWord(T, u) = t.len
<1> DEFINE T == Tiles(f, lo, hi)
           Ends(t) == t.from + t.len = u /\ t.own # 0
<1>1. CASE \E t \in T : Ends(t)
  <2> DEFINE x == CHOOSE t \in T : Ends(t)
  <2>1. x \in T /\ Ends(x)
    BY <1>1
  <2>2. PrevWord(T, u) = x.len
    BY <1>1 DEF PrevWord
  <2> HIDE DEF x
  <2>3. \A t \in T : t.from + t.len = u => t = x
    BY <2>1, TileUnique
  <2>4. QED BY <2>1, <2>2, <2>3
<1>2. CASE ~\E t \in T : Ends(t)
  BY <1>2 DEF PrevWord
<1>3. QED BY <1>1, <1>2

LEMMA FinalAt ==
  ASSUME TypeOK, NEW f, NEW lo \in Nat, NEW hi \in Nat, lo <= hi, hi <= Zone,
         Placement(f, lo, hi), NEW m, NEW t \in Tiles(f, lo, hi)
  PROVE  /\ t.from \in Units
         /\ FinalMem(m, f, lo, hi)[t.from].own = t.own
         /\ FinalMem(m, f, lo, hi)[t.from].prev =
              IF t.own = 0 THEN Junk ELSE PrevWord(Tiles(f, lo, hi), t.from)
<1> DEFINE T == Tiles(f, lo, hi)
           u == t.from
           x == CHOOSE y \in T : y.from = u
<1>1. u \in Nat /\ lo <= u /\ u < hi /\ u \in Units
  BY TileShape, ZoneType
<1>2. x \in T /\ x.from = u
  OBVIOUS
<1> HIDE DEF x
<1>3. x = t
  BY <1>2, TileUnique
<1>4. ~(u < lo \/ hi <= u) /\ ~(\A y \in T : y.from # u)
  BY <1>1
<1>5. FinalMem(m, f, lo, hi)[u] =
        [own |-> x.own, prev |-> IF x.own = 0 THEN Junk ELSE PrevWord(T, u)]
  BY <1>1, <1>4 DEF FinalMem, x
<1>6. QED BY <1>1, <1>3, <1>5

LEMMA FinalOutside ==
  ASSUME NEW m, NEW f, NEW lo \in Nat, NEW hi \in Nat, NEW u \in Units, u < lo \/ hi <= u
  PROVE  FinalMem(m, f, lo, hi)[u] = m[u]
  BY DEF FinalMem

LEMMA FinalType ==
  ASSUME TypeOK, NEW f, NEW lo \in Nat, NEW hi \in Nat, lo <= hi, hi <= Zone,
         Placement(f, lo, hi), NEW m \in [Units -> Header]
  PROVE  FinalMem(m, f, lo, hi) \in [Units -> Header]
<1> DEFINE T == Tiles(f, lo, hi)
           M == FinalMem(m, f, lo, hi)
<1>1. M = [u \in Units |-> M[u]]
  BY DEF FinalMem
<1>2. ASSUME NEW u \in Units
      PROVE  M[u] \in Header
  <2>1. CASE u < lo \/ hi <= u
    BY <2>1, FinalOutside
  <2>2. CASE ~(u < lo \/ hi <= u) /\ \A t \in T : t.from # u
    <3>1. M[u] = Stale
      BY <2>2 DEF FinalMem
    <3>2. QED BY <3>1, ZoneType DEF Stale, Header
  <2>3. CASE ~(u < lo \/ hi <= u) /\ \E t \in T : t.from = u
    <3>1. PICK t \in T : t.from = u
      BY <2>3
    <3> DEFINE x == CHOOSE y \in T : y.from = u
               prev == IF x.own = 0 THEN Junk ELSE PrevWord(T, u)
    <3>2. x \in T
      BY <3>1
    <3>3. M[u] = [own |-> x.own, prev |-> prev]
      BY <2>3 DEF FinalMem
    <3> HIDE DEF x
    <3>4. /\ x.from \in Nat /\ x.len \in Nat /\ x.from + x.len <= hi /\ x.own \in Int
          /\ x.own = 0 \/ x.own = x.len \/ x.own = -x.len
      BY <3>2, TileShape
    <3>5. x.own \in -Zone .. Junk
      BY <3>4, ZoneType
    <3>6. prev \in 0 .. Junk
      <4>1. PrevWord(T, u) = 0 \/ \E y \in T : PrevWord(T, u) = y.len
        BY PrevIs
      <4>2. \A y \in T : y.from \in Nat /\ y.len \in Nat /\ y.from + y.len <= hi
        BY TileShape
      <4>3. \A y \in T : y.len \in 0 .. Junk
        BY <4>2, ZoneType
      <4>4. QED BY <4>1, <4>3, ZoneType
    <3>7. QED BY <3>3, <3>5, <3>6 DEF Header
  <2>4. QED BY <2>1, <2>2, <2>3
<1> HIDE DEF M
<1>3. QED BY <1>1, <1>2 DEF M

FinalHeads(f, lo, hi) == {f[o] : o \in DOMAIN f} \cup {h.from : h \in FreeRuns(f, lo, hi)}

LEMMA HeadsAreTiles ==
  ASSUME TypeOK, NEW f, NEW lo \in Nat, NEW hi \in Nat, lo <= hi, Placement(f, lo, hi)
  PROVE  FinalHeads(f, lo, hi) = {t.from : t \in {x \in Tiles(f, lo, hi) : x.own # 0}}
<1> DEFINE T == Tiles(f, lo, hi)
<1>0. T = {BlockTile(f, o) : o \in DOMAIN f} \cup {HoleTile(h) : h \in Holes(f, lo, hi)}
  BY TilesAre
<1>1. \A o \in DOMAIN f : /\ BlockTile(f, o).from = f[o] /\ BlockTile(f, o).own # 0
                          /\ BlockTile(f, o) \in T
  <2>1. \A o \in DOMAIN f : obj[o].size \in Nat /\ obj[o].size >= 2
    BY PlacedNumbers
  <2>2. QED BY <1>0, <2>1 DEF BlockTile
<1>2. \A h \in Holes(f, lo, hi) : /\ HoleTile(h).from = h.from /\ HoleTile(h) \in T
                                  /\ HoleTile(h).own # 0 <=> h \in FreeRuns(f, lo, hi)
  <2>1. \A h \in Holes(f, lo, hi) : h.len \in Nat
    BY HoleShape
  <2>2. \A h \in Holes(f, lo, hi) : HoleTile(h) \in T
    BY <1>0
  <2>3. ASSUME NEW h \in Holes(f, lo, hi)
        PROVE  /\ HoleTile(h).from = h.from
               /\ HoleTile(h).own # 0 <=> h \in FreeRuns(f, lo, hi)
    <3>1. h.len \in Nat
      BY <2>1
    <3>2. HoleTile(h).from = h.from /\ HoleTile(h).own = IF h.len >= 2 THEN -h.len ELSE 0
      BY DEF HoleTile, MinBlock
    <3>3. h \in FreeRuns(f, lo, hi) <=> h.len >= 2
      BY DEF FreeRuns, MinBlock
    <3>4. QED BY <3>1, <3>2, <3>3
  <2>4. QED BY <2>2, <2>3
<1>3. FreeRuns(f, lo, hi) \subseteq Holes(f, lo, hi)
  BY DEF FreeRuns
<1> HIDE DEF T
<1>4. ASSUME NEW u \in FinalHeads(f, lo, hi)
      PROVE  \E t \in T : t.own # 0 /\ t.from = u
  BY <1>1, <1>2, <1>3 DEF FinalHeads
<1>5. ASSUME NEW t \in T, t.own # 0
      PROVE  t.from \in FinalHeads(f, lo, hi)
  <2>1. CASE \E o \in DOMAIN f : t = BlockTile(f, o)
    BY <1>1, <2>1 DEF FinalHeads
  <2>2. CASE \E h \in Holes(f, lo, hi) : t = HoleTile(h)
    BY <1>2, <1>5, <2>2 DEF FinalHeads
  <2>3. QED BY <1>0, <2>1, <2>2
<1>6. FinalHeads(f, lo, hi) = {t.from : t \in {x \in T : x.own # 0}}
  <2>1. FinalHeads(f, lo, hi) \subseteq {t.from : t \in {x \in T : x.own # 0}}
    BY <1>4
  <2>2. {t.from : t \in {x \in T : x.own # 0}} \subseteq FinalHeads(f, lo, hi)
    BY <1>5
  <2>3. QED BY <2>1, <2>2
<1>7. QED BY <1>6 DEF T

(* What finalize_layout writes is a chain of its blocks. *)
LEMMA FinalChained ==
  ASSUME TypeOK, NEW f, NEW lo \in Nat, NEW hi \in Nat, lo <= hi, hi <= Zone,
         Placement(f, lo, hi), NEW m
  PROVE  /\ Chained(FinalMem(m, f, lo, hi), FinalHeads(f, lo, hi), lo, hi)
         /\ \A h \in FreeRuns(f, lo, hi) : FinalMem(m, f, lo, hi)[h.from].own < 0
         /\ \A o \in DOMAIN f : FinalMem(m, f, lo, hi)[f[o]].own = obj[o].size
<1> DEFINE T == Tiles(f, lo, hi)
           M == FinalMem(m, f, lo, hi)
           S == FinalHeads(f, lo, hi)
<1>1. \A t \in T : M[t.from].own = t.own /\ (t.own # 0 => M[t.from].prev = PrevWord(T, t.from))
  BY FinalAt
<1>2. \A t \in T : /\ t.from \in Nat /\ t.len \in Nat /\ t.len > 0
                   /\ lo <= t.from /\ t.from + t.len <= hi /\ t.own \in Int
                   /\ t.own = 0 \/ ((t.own = t.len \/ t.own = -t.len) /\ t.len >= MinBlock)
  BY TileShape
<1>3. S = {t.from : t \in {x \in T : x.own # 0}}
  BY HeadsAreTiles
<1>4. \A t \in T, s \in T : t = s \/ t.from + t.len <= s.from \/ s.from + s.len <= t.from
  BY TilesApart
<1>5. \A t \in T : t.from + t.len = hi \/ \E s \in T : s.from = t.from + t.len
  BY TilesFollow
<1>6. /\ \A s \in T, t \in T : t.own # 0 /\ t.from + t.len = s.from => PrevWord(T, s.from) = t.len
      /\ \A s \in T : \/ PrevWord(T, s.from) = 0
                      \/ \E t \in T : /\ t.own # 0 /\ t.from + t.len = s.from
                                      /\ PrevWord(T, s.from) = t.len
  BY PrevIs
<1>7. \A o \in DOMAIN f : M[f[o]].own = obj[o].size
  <2>1. ASSUME NEW o \in DOMAIN f
        PROVE  M[f[o]].own = obj[o].size
    <3>1. BlockTile(f, o) \in T
      BY TilesAre
    <3>2. BlockTile(f, o).from = f[o] /\ BlockTile(f, o).own = obj[o].size
      BY DEF BlockTile
    <3> HIDE DEF T, M
    <3>3. QED BY <1>1, <3>1, <3>2
  <2>2. QED BY <2>1
<1>8. \A h \in FreeRuns(f, lo, hi) : M[h.from].own < 0
  <2>1. ASSUME NEW h \in FreeRuns(f, lo, hi)
        PROVE  M[h.from].own < 0
    <3>1. h \in Holes(f, lo, hi) /\ h.len >= 2
      BY DEF FreeRuns, MinBlock
    <3>2. HoleTile(h) \in T
      BY <3>1, TilesAre
    <3>3. h.len \in Nat
      BY <3>1, HoleShape
    <3>4. HoleTile(h).from = h.from /\ HoleTile(h).own = -h.len
      BY <3>1 DEF HoleTile, MinBlock
    <3> HIDE DEF T, M
    <3>5. QED BY <1>1, <3>1, <3>2, <3>3, <3>4
  <2>2. QED BY <2>1
<1> HIDE DEF T, M, S
<1>9. \A t \in T : t.own # 0 => SizeIn(M, t.from) = t.len /\ t.len >= 2 /\ t.from \in S
  BY <1>1, <1>2, <1>3 DEF SizeIn, MinBlock
<1>10. \A u \in S : \E t \in T : t.own # 0 /\ t.from = u
  BY <1>3
<1>11. ASSUME NEW u \in S
       PROVE  /\ lo <= u /\ SizeIn(M, u) >= MinBlock /\ u + SizeIn(M, u) <= hi
              /\ \A v \in S : u < v => u + SizeIn(M, u) <= v
              /\ u + SizeIn(M, u) < hi =>
                   \/ u + SizeIn(M, u) \in S /\ M[u + SizeIn(M, u)].prev = SizeIn(M, u)
                   \/ M[u + SizeIn(M, u)].own = 0
              /\ M[u].prev # 0 => u - M[u].prev \in S /\ SizeIn(M, u - M[u].prev) = M[u].prev
  <2>1. PICK t \in T : t.own # 0 /\ t.from = u
    BY <1>10
  <2>2. SizeIn(M, u) = t.len /\ t.len >= 2 /\ t.len \in Nat /\ u \in Nat /\ lo <= u /\ u + t.len <= hi
    BY <1>2, <1>9, <2>1
  <2>3. ASSUME NEW v \in S, u < v
        PROVE  u + t.len <= v
    <3>1. PICK s \in T : s.own # 0 /\ s.from = v
      BY <1>10
    <3>2. s.from \in Nat /\ s.len \in Nat /\ s # t
      BY <1>2, <2>1, <2>3, <3>1
    <3>3. QED BY <1>4, <2>1, <2>2, <2>3, <3>1, <3>2
  <2>4. u + t.len < hi => (u + t.len \in S /\ M[u + t.len].prev = t.len) \/ M[u + t.len].own = 0
    <3>1. SUFFICES ASSUME u + t.len < hi
                   PROVE  (u + t.len \in S /\ M[u + t.len].prev = t.len) \/ M[u + t.len].own = 0
      OBVIOUS
    <3>2. PICK s \in T : s.from = t.from + t.len
      BY <1>5, <2>1, <2>2, <3>1
    <3>3. CASE s.own = 0
      BY <1>1, <2>1, <3>2, <3>3
    <3>4. CASE s.own # 0
      <4>1. PrevWord(T, s.from) = t.len
        BY <1>6, <2>1, <3>2
      <4>2. M[s.from].prev = t.len /\ s.from \in S
        BY <1>1, <1>9, <3>4, <4>1
      <4>3. QED BY <2>1, <3>2, <4>2
    <3>5. QED BY <3>3, <3>4
  <2>5. M[u].prev # 0 => u - M[u].prev \in S /\ SizeIn(M, u - M[u].prev) = M[u].prev
    <3>1. SUFFICES ASSUME M[u].prev # 0
                   PROVE  u - M[u].prev \in S /\ SizeIn(M, u - M[u].prev) = M[u].prev
      OBVIOUS
    <3>2. M[u].prev = PrevWord(T, u)
      BY <1>1, <2>1
    <3>3. PICK s \in T : s.own # 0 /\ s.from + s.len = u /\ PrevWord(T, u) = s.len
      BY <1>6, <2>1, <3>1, <3>2
    <3>4. u - s.len = s.from
      BY <1>2, <3>3
    <3>5. QED BY <1>9, <3>2, <3>3, <3>4
  <2>6. QED BY <2>2, <2>3, <2>4, <2>5 DEF MinBlock
<1>12. Chained(M, S, lo, hi)
  BY <1>11 DEF Chained
<1>13. QED BY <1>7, <1>8, <1>12 DEF M, S

-----------------------------------------------------------------------------
(* finalize_layout: the byte statistics *)

LEMMA SizesType ==
  ASSUME TypeOK, NEW R \in SUBSET Objects
  PROVE  /\ IsFiniteSet(R)
         /\ \A o \in R : Sizes[o] \in Nat /\ Sizes[o] = obj[o].size
         /\ Total(Sizes, R) \in Nat
<1>1. IsFiniteSet(R)
  BY HeapAssumption, FS_Subset
<1>2. \A o \in R : Sizes[o] \in Nat /\ Sizes[o] = obj[o].size
  BY ObjTypes DEF Sizes
<1>3. QED BY <1>1, <1>2, TotalType

LEMMA UnitsSum ==
  ASSUME TypeOK, NEW R \in SUBSET Objects
  PROVE  UnitsOf(R) = Total(Sizes, R)
<1> DEFINE Eq(g) == g = [s \in SUBSET R |->
                           IF s = {} THEN 0
                           ELSE obj[CHOOSE x \in s : TRUE].size + g[s \ {CHOOSE x \in s : TRUE}]]
           h == CHOOSE g : Eq(g)
<1>1. IsFiniteSet(R) /\ \A o \in R : Sizes[o] \in Nat /\ Sizes[o] = obj[o].size
  BY SizesType
<1>2. UnitsOf(R) = h[R]
  BY DEF UnitsOf, MapThenSumSet, MapThenFoldSet
<1>3. \A s \in SUBSET R : s # {} => Sizes[AnyOf(s)] = obj[AnyOf(s)].size
  BY <1>1 DEF AnyOf
<1>4. Eq(Totals(Sizes, R))
  <2>1. Totals(Sizes, R) =
          [s \in SUBSET R |-> IF s = {} THEN 0
                              ELSE Sizes[AnyOf(s)] + Totals(Sizes, R)[s \ {AnyOf(s)}]]
    BY <1>1, TotalsSolve
  <2>2. QED BY <1>3, <2>1 DEF AnyOf
<1>5. Eq(h)
  BY <1>4
<1>6. \A s \in SUBSET R : h[s] = IF s = {} THEN 0 ELSE Sizes[AnyOf(s)] + h[s \ {AnyOf(s)}]
  <2> HIDE DEF h
  <2> QED BY <1>3, <1>5 DEF AnyOf
<1> HIDE DEF h, Eq
<1>7. h[R] = Total(Sizes, R)
  BY <1>1, <1>6, FoldIsTotal
<1>8. QED BY <1>2, <1>7

Lengths(H) == [h \in H |-> h.len]

LEMMA LengthsSum ==
  ASSUME NEW H, IsFiniteSet(H), \A h \in H : h.len \in Nat
  PROVE  MapThenSumSet(LAMBDA h : h.len, H) = Total(Lengths(H), H)
<1> DEFINE Eq(g) == g = [s \in SUBSET H |->
                           IF s = {} THEN 0
                           ELSE (CHOOSE x \in s : TRUE).len + g[s \ {CHOOSE x \in s : TRUE}]]
           sum == CHOOSE g : Eq(g)
<1>1. \A h \in H : Lengths(H)[h] \in Nat /\ Lengths(H)[h] = h.len
  BY DEF Lengths
<1>2. MapThenSumSet(LAMBDA h : h.len, H) = sum[H]
  BY DEF MapThenSumSet, MapThenFoldSet
<1>3. \A s \in SUBSET H : s # {} => Lengths(H)[AnyOf(s)] = AnyOf(s).len
  BY <1>1 DEF AnyOf
<1>4. Eq(Totals(Lengths(H), H))
  <2>1. Totals(Lengths(H), H) =
          [s \in SUBSET H |-> IF s = {} THEN 0
                              ELSE Lengths(H)[AnyOf(s)] + Totals(Lengths(H), H)[s \ {AnyOf(s)}]]
    BY <1>1, TotalsSolve
  <2>2. QED BY <1>3, <2>1 DEF AnyOf
<1>5. Eq(sum)
  BY <1>4
<1>6. \A s \in SUBSET H :
        sum[s] = IF s = {} THEN 0 ELSE Lengths(H)[AnyOf(s)] + sum[s \ {AnyOf(s)}]
  <2> HIDE DEF sum
  <2> QED BY <1>3, <1>5 DEF AnyOf
<1> HIDE DEF sum, Eq
<1>7. sum[H] = Total(Lengths(H), H)
  BY <1>1, <1>6, FoldIsTotal
<1>8. QED BY <1>2, <1>7

LEMMA HolesFinite ==
  ASSUME NEW f, IsFiniteSet(DOMAIN f), NEW lo, NEW hi
  PROVE  IsFiniteSet(Holes(f, lo, hi))
<1> DEFINE hole == [a \in Opens(f, lo) |-> [from |-> a, len |-> NextIn(f, hi, a) - a]]
           end == [o \in DOMAIN f |-> EndIn(f, o)]
           E == {EndIn(f, o) : o \in DOMAIN f}
           A == {hole[a] : a \in Opens(f, lo)}
<1>1. end \in Surjection(DOMAIN f, E)
  BY DEF Surjection
<1>2. IsFiniteSet(E)
  <2> HIDE DEF end, E
  <2> QED BY <1>1, FS_Surjection
<1>3. IsFiniteSet(Opens(f, lo))
  <2>1. Opens(f, lo) = E \cup {lo}
    BY DEF Opens
  <2> HIDE DEF E
  <2>2. QED BY <1>2, <2>1, FS_AddElement
<1>4. hole \in Surjection(Opens(f, lo), A)
  BY DEF Surjection
<1>5. IsFiniteSet(A)
  <2> HIDE DEF hole, A
  <2> QED BY <1>3, <1>4, FS_Surjection
<1>6. Holes(f, lo, hi) \subseteq A
  BY HolesAre
<1>7. QED BY <1>5, <1>6, FS_Subset

(* Blocks of a placement, and its slack, are not longer than the window.   *)
LEMMA PlacedFits ==
  ASSUME TypeOK, NEW f, NEW lo \in Nat, NEW hi \in Nat, lo <= hi, Placement(f, lo, hi)
  PROVE  Total(Sizes, DOMAIN f) <= hi - lo
<1>1. DOMAIN f \in SUBSET Objects
  BY DEF Placement
<1>2. IsFiniteSet(DOMAIN f) /\ \A o \in DOMAIN f : Sizes[o] = obj[o].size
  BY <1>1, SizesType
<1>3. \A o \in DOMAIN f : /\ Sizes[o] \in Nat /\ f[o] \in Nat /\ f[o] + Sizes[o] = EndIn(f, o)
                          /\ lo <= f[o] /\ f[o] + Sizes[o] <= hi
  <2>1. \A o \in DOMAIN f : /\ obj[o].size \in Nat /\ f[o] \in Nat /\ EndIn(f, o) = f[o] + obj[o].size
                            /\ lo <= f[o] /\ EndIn(f, o) <= hi
    BY PlacedNumbers
  <2>2. QED BY <1>2, <2>1
<1>4. \A o, q \in DOMAIN f : o # q => f[o] + Sizes[o] <= f[q] \/ f[q] + Sizes[q] <= f[o]
  BY <1>3 DEF Placement
<1>5. QED BY <1>2, <1>3, <1>4, TotalFits

LEMMA SlackFits ==
  ASSUME TypeOK, NEW f, NEW lo \in Nat, NEW hi \in Nat, lo <= hi, hi <= Zone, Placement(f, lo, hi)
  PROVE  MapThenSumSet(LAMBDA h : h.len, Slack(f, lo, hi)) \in 0 .. Zone
<1> DEFINE H == Slack(f, lo, hi)
           at == [h \in H |-> h.from]
<1>1. IsFiniteSet(DOMAIN f)
  BY SizesType DEF Placement
<1>2. IsFiniteSet(H)
  BY <1>1, HolesFinite, FS_Subset DEF Slack
<1>3. H \subseteq Holes(f, lo, hi)
  BY DEF Slack
<1>4. \A h \in H : h.from \in Nat /\ h.len \in Nat /\ lo <= h.from /\ h.from + h.len <= hi
  BY <1>3, HoleShape
<1>5. \A h, k \in H : h # k => h.from + h.len <= k.from \/ k.from + k.len <= h.from
  <2>1. \A h, k \in H : h # k => h.from + h.len < k.from \/ k.from + k.len < h.from
    BY <1>3, HolesApart
  <2>2. QED BY <1>4, <2>1
<1> HIDE DEF H
<1>6. \A h \in H : at[h] = h.from /\ Lengths(H)[h] = h.len
  BY DEF Lengths
<1>7. Total(Lengths(H), H) <= hi - lo /\ Total(Lengths(H), H) \in Nat
  <2> HIDE DEF at
  <2>1. \A h \in H : /\ Lengths(H)[h] \in Nat /\ at[h] \in Nat
                     /\ lo <= at[h] /\ at[h] + Lengths(H)[h] <= hi
    BY <1>4, <1>6
  <2>2. \A h, k \in H : h # k => \/ at[h] + Lengths(H)[h] <= at[k]
                                 \/ at[k] + Lengths(H)[k] <= at[h]
    BY <1>5, <1>6
  <2>3. QED BY <1>2, <2>1, <2>2, TotalFits, TotalType
<1>8. MapThenSumSet(LAMBDA h : h.len, H) = Total(Lengths(H), H)
  BY <1>2, <1>4, LengthsSum
<1>9. Total(Lengths(H), H) \in 0 .. Zone
  BY <1>7, ZoneType
<1>10. QED BY <1>8, <1>9, Zenon DEF H

-----------------------------------------------------------------------------
(* Space between blocks *)

LEMMA SpacedSame ==
  ASSUME NEW S, NEW B \in SUBSET S, NEW k, NEW lo, NEW hi, NEW m, NEW n,
         Spaced(m, S, B, k, lo, hi), \A u \in S : SizeIn(n, u) = SizeIn(m, u)
  PROVE  Spaced(n, S, B, k, lo, hi)
<1>1. {u + SizeIn(n, u) : u \in S} = {u + SizeIn(m, u) : u \in S}
  OBVIOUS
<1>2. Bare(n, S, lo, hi) = Bare(m, S, lo, hi)
  BY DEF Bare
<1>3. \A b, c \in B : b + SizeIn(n, b) # c
  BY DEF Spaced
<1>4. QED BY <1>1, <1>2, <1>3 DEF Spaced

(* The headers' numbers, as far as the space between blocks needs them.    *)
Laid(m, S, lo, hi) ==
  /\ \A u \in S : /\ u \in Nat /\ SizeIn(m, u) \in Nat /\ SizeIn(m, u) >= 2
                  /\ lo <= u /\ u + SizeIn(m, u) <= hi
  /\ \A u, v \in S : u < v => u + SizeIn(m, u) <= v

(* The first `size` units of a free block are taken. *)
LEMMA SpacedCut ==
  ASSUME NEW S, NEW lo \in Nat, NEW hi \in Nat, NEW m, NEW n, NEW k, Laid(m, S, lo, hi),
         NEW B \in SUBSET S, NEW b \in B, NEW whole, whole = SizeIn(m, b), NEW size \in Nat,
         size >= 2, size = whole \/ size + 2 <= whole,
         NEW rest, rest = IF size < whole THEN {b + size} ELSE {},
         SizeIn(n, b) = size, size < whole => SizeIn(n, b + size) = whole - size,
         \A u \in S : u # b => SizeIn(n, u) = SizeIn(m, u),
         Spaced(m, S, B, k, lo, hi)
  PROVE  Spaced(n, S \cup rest, (B \ {b}) \cup rest, k, lo, hi)
<1>1. /\ whole \in Nat /\ b \in Nat /\ b + whole <= hi /\ b \in S /\ size <= whole
      /\ \A u \in S : u \in Nat /\ SizeIn(m, u) \in Nat /\ SizeIn(m, u) >= 2
      /\ \A u, v \in S : u < v => u + SizeIn(m, u) <= v
  BY DEF Laid
<1>2. \A u \in S : u # b => u + SizeIn(m, u) <= b \/ b + whole <= u
  BY <1>1
<1>3. \A u \in rest : u = b + size /\ size < whole /\ SizeIn(n, u) = whole - size
  OBVIOUS
<1>4. ASSUME NEW e \in {lo} \cup {u + SizeIn(n, u) : u \in S \cup rest}, e \notin rest
      PROVE  e \in {lo} \cup {u + SizeIn(m, u) : u \in S}
  <2>1. CASE e = lo
    BY <2>1
  <2>2. ASSUME NEW u \in S \cup rest, e = u + SizeIn(n, u)
        PROVE  e \in {v + SizeIn(m, v) : v \in S}
    <3>1. CASE u \in rest
      <4>1. e = b + whole
        BY <1>1, <1>3, <2>2, <3>1
      <4>2. QED BY <1>1, <4>1
    <3>2. CASE u = b /\ u \notin rest
      <4>1. size = whole
        BY <1>1, <1>4, <2>2, <3>2
      <4>2. QED BY <1>1, <2>2, <3>2, <4>1
    <3>3. CASE u \in S /\ u # b
      BY <2>2, <3>3
    <3>4. QED BY <3>1, <3>2, <3>3
  <2>3. QED BY <2>1, <2>2
<1>5. \A e \in {lo} \cup {u + SizeIn(n, u) : u \in S \cup rest} :
        e < hi => e \in S \cup rest \/ e + 1 \in S \cup rest \/ e + 1 = hi
  BY <1>4 DEF Spaced
<1>6. \A c, d \in (B \ {b}) \cup rest : c + SizeIn(n, c) # d
  <2>1. SUFFICES ASSUME NEW c \in (B \ {b}) \cup rest, NEW d \in (B \ {b}) \cup rest
                 PROVE  c + SizeIn(n, c) # d
    OBVIOUS
  <2>2. \A x, y \in B : x + SizeIn(m, x) # y
    BY DEF Spaced
  <2>3. CASE c \in B \ {b} /\ d \in B \ {b}
    BY <2>2, <2>3
  <2>4. CASE c \in rest /\ d \in B \ {b}
    <3>1. c + SizeIn(n, c) = b + whole
      BY <1>1, <1>3, <2>4
    <3>2. QED BY <2>2, <2>4, <3>1
  <2>5. CASE c \in rest /\ d \in rest
    BY <1>1, <1>3, <2>5
  <2>6. CASE c \in B \ {b} /\ d \in rest
    <3>1. c \in S /\ c # b /\ SizeIn(n, c) = SizeIn(m, c) /\ d = b + size /\ size < whole
      BY <1>3, <2>6
    <3>2. QED BY <1>1, <1>2, <3>1
  <2>7. QED BY <2>3, <2>4, <2>5, <2>6
<1>7. Bare(n, S \cup rest, lo, hi) = Bare(m, S, lo, hi)
  <2>1. ASSUME NEW x \in lo .. hi - 1
        PROVE  (\A u \in S \cup rest : x < u \/ u + SizeIn(n, u) <= x)
                 <=> (\A u \in S : x < u \/ u + SizeIn(m, u) <= x)
    <3>1. x \in Nat
      OBVIOUS
    <3>2. (x < b \/ b + whole <= x)
            <=> (x < b \/ b + size <= x) /\ \A u \in rest : x < u \/ u + SizeIn(n, u) <= x
      <4>1. CASE size < whole
        <5>1. rest = {b + size} /\ SizeIn(n, b + size) = whole - size
          BY <4>1
        <5>2. (b + size) + (whole - size) = b + whole
          BY <1>1
        <5>3. QED BY <1>1, <3>1, <4>1, <5>1, <5>2
      <4>2. CASE ~(size < whole)
        BY <1>1, <3>1, <4>2
      <4>3. QED BY <4>1, <4>2
    <3>3. QED BY <1>1, <3>2
  <2>2. QED BY <2>1 DEF Bare
<1>8. QED BY <1>5, <1>6, <1>7 DEF Spaced

(* Blocks leave nothing bare from a to z. *)
Filled(m, S, a, z) ==
  \A y \in Nat : a <= y /\ y < z => \E u \in S : u <= y /\ y < u + SizeIn(m, u)

(* The blocks from head to end become one free block. *)
LEMMA SpacedJoin ==
  ASSUME NEW S, NEW lo \in Nat, NEW hi \in Nat, NEW m, NEW n, NEW k, Laid(m, S, lo, hi),
         NEW B \in SUBSET S, NEW head \in S, NEW end \in Nat, head < end,
         NEW x \in S, head <= x, end = x + SizeIn(m, x),
         Filled(m, S, head, end), \A c \in B : c + SizeIn(m, c) # head, end \notin B,
         NEW inside, inside = head + 1 .. end - 1,
         SizeIn(n, head) = end - head,
         \A u \in S : u # head /\ u \notin inside => SizeIn(n, u) = SizeIn(m, u),
         Spaced(m, S, B, k, lo, hi)
  PROVE  Spaced(n, S \ inside, (B \ inside) \cup {head}, k, lo, hi)
<1>1. /\ \A u \in S : u \in Nat /\ SizeIn(m, u) \in Nat /\ SizeIn(m, u) >= 2 /\ lo <= u
      /\ \A u, v \in S : u < v => u + SizeIn(m, u) <= v
      /\ end \in Nat /\ head \in S /\ x \in S /\ head <= x /\ end = x + SizeIn(m, x) /\ head < end
  BY DEF Laid
<1>2. /\ \A u \in S : u \in inside <=> head < u /\ u < end
      /\ head \notin inside /\ head + (end - head) = end
  <2>1. head \in Nat /\ \A u \in S : u \in Nat
    BY <1>1
  <2>2. \A u \in Nat : u \in head + 1 .. end - 1 <=> head < u /\ u < end
    BY ONLY end \in Nat, <2>1
  <2>3. head + (end - head) = end /\ head \notin head + 1 .. end - 1
    BY ONLY end \in Nat, <2>1
  <2>4. QED BY ONLY <2>1, <2>2, <2>3, inside = head + 1 .. end - 1
<1>3. \A u \in S : u < head => u + SizeIn(m, u) <= head
  BY ONLY <1>1
<1>4. \A u \in S : u < end => u + SizeIn(m, u) <= end
  BY ONLY <1>1
<1>5. ASSUME NEW e \in {lo} \cup {u + SizeIn(n, u) : u \in S \ inside}
      PROVE  e \in {lo} \cup {u + SizeIn(m, u) : u \in S} /\ e \in Nat /\ (e <= head \/ end <= e)
  <2>1. CASE e = lo
    BY <1>1, <2>1
  <2>2. ASSUME NEW u \in S \ inside, e = u + SizeIn(n, u)
        PROVE  e \in {v + SizeIn(m, v) : v \in S} /\ e \in Nat /\ (e <= head \/ end <= e)
    <3>1. CASE u = head
      <4>1. e = end
        BY <1>2, <2>2, <3>1
      <4>2. QED BY ONLY <1>1, <4>1
    <3>2. CASE u # head
      <4>1. u \in S /\ u \notin inside /\ e = u + SizeIn(m, u)
        BY <2>2, <3>2
      <4>2. u < head \/ end <= u
        BY ONLY <1>1, <1>2, <3>2, <4>1
      <4>3. e \in Nat /\ (e <= head \/ end <= e)
        BY ONLY <1>1, <1>3, <4>1, <4>2
      <4>4. QED BY <4>1, <4>3
    <3>3. QED BY <3>1, <3>2
  <2>3. QED BY <2>1, <2>2
<1>6. \A e \in {lo} \cup {u + SizeIn(n, u) : u \in S \ inside} :
        e < hi => e \in S \ inside \/ e + 1 \in S \ inside \/ e + 1 = hi
  <2>1. SUFFICES ASSUME NEW e \in {lo} \cup {u + SizeIn(n, u) : u \in S \ inside}, e < hi
                 PROVE  e \in S \ inside \/ e + 1 \in S \ inside \/ e + 1 = hi
    OBVIOUS
  <2>2. e \in S \/ e + 1 \in S \/ e + 1 = hi
    BY <1>5, <2>1 DEF Spaced
  <2>3. e \in Nat /\ (e <= head \/ end <= e) /\ head \in Nat
    BY <1>1, <1>5, <2>1
  <2>4. e \in S => e \in S \ inside
    BY <1>2, <2>3
  <2>5. e + 1 \in S => e + 1 \in S \ inside \/ e = head
    BY <1>2, <2>3
  <2>6. QED BY <1>2, <2>2, <2>4, <2>5
<1>7. \A c, d \in (B \ inside) \cup {head} : c + SizeIn(n, c) # d
  <2>1. SUFFICES ASSUME NEW c \in (B \ inside) \cup {head}, NEW d \in (B \ inside) \cup {head}
                 PROVE  c + SizeIn(n, c) # d
    OBVIOUS
  <2>2. CASE c = head
    <3>1. c + SizeIn(n, c) = end /\ end # head
      BY <1>1, <1>2, <2>2
    <3>2. QED BY <2>1, <3>1
  <2>3. CASE c # head
    <3>1. c \in B /\ SizeIn(n, c) = SizeIn(m, c)
      BY <2>1, <2>3
    <3>2. \A y \in B : c + SizeIn(m, c) # y
      BY <3>1 DEF Spaced
    <3>3. QED BY <2>1, <3>1, <3>2
  <2>4. QED BY <2>2, <2>3
<1>8. Bare(n, S \ inside, lo, hi) = Bare(m, S, lo, hi)
  <2>1. ASSUME NEW y \in lo .. hi - 1
        PROVE  (\A u \in S \ inside : y < u \/ u + SizeIn(n, u) <= y)
                 <=> (\A u \in S : y < u \/ u + SizeIn(m, u) <= y)
    <3>1. y \in Nat /\ head \in Nat
      BY <1>1
    <3>2. ASSUME \A u \in S \ inside : y < u \/ u + SizeIn(n, u) <= y, NEW u \in S
          PROVE  y < u \/ u + SizeIn(m, u) <= y
      <4>1. y < head \/ end <= y
        BY <1>2, <3>2
      <4>2. CASE u = head \/ u \in inside
        <5>1. head <= u /\ u + SizeIn(m, u) <= end /\ u \in Nat /\ SizeIn(m, u) \in Nat
          BY ONLY u \in S, <1>1, <1>2, <1>4, <4>2
        <5>2. QED BY <3>1, <4>1, <5>1
      <4>3. CASE u # head /\ u \notin inside
        BY <3>2, <4>3
      <4>4. QED BY <4>2, <4>3
    <3>3. ASSUME \A u \in S : y < u \/ u + SizeIn(m, u) <= y, NEW u \in S \ inside
          PROVE  y < u \/ u + SizeIn(n, u) <= y
      <4>1. CASE u = head
        <5>1. ~(head <= y /\ y < end)
          <6>1. SUFFICES ASSUME head <= y, y < end PROVE FALSE
            OBVIOUS
          <6>2. PICK v \in S : v <= y /\ y < v + SizeIn(m, v)
            BY <3>1, <6>1 DEF Filled
          <6>3. v \in Nat /\ SizeIn(m, v) \in Nat
            BY <1>1
          <6>4. QED BY <3>1, <3>3, <6>2, <6>3
        <5>2. QED BY <1>2, <3>1, <4>1, <5>1
      <4>2. CASE u # head
        BY <3>3, <4>2
      <4>3. QED BY <4>1, <4>2
    <3>4. QED BY <3>2, <3>3
  <2>2. QED BY <2>1 DEF Bare
<1>9. QED BY <1>6, <1>7, <1>8 DEF Spaced

(* Every unit of the window lies in a tile. *)
LEMMA TileOver ==
  ASSUME TypeOK, NEW f, NEW lo \in Nat, NEW hi \in Nat, lo <= hi, Placement(f, lo, hi),
         NEW x \in lo .. hi - 1
  PROVE  \E t \in Tiles(f, lo, hi) : t.from <= x /\ x < t.from + t.len
<1> DEFINE T == Tiles(f, lo, hi)
           E == {y \in 0 .. x : \E t \in T : t.from = y}
<1>1. \A t \in T : t.from \in Nat /\ t.len \in Nat /\ t.len > 0 /\ t.from + t.len <= hi
  BY TileShape
<1>2. \A t \in T : t.from + t.len = hi \/ \E s \in T : s.from = t.from + t.len
  BY TilesFollow
<1>3. \E t \in T : t.from = lo
  <2>1. T = {BlockTile(f, o) : o \in DOMAIN f} \cup {HoleTile(h) : h \in Holes(f, lo, hi)}
    BY TilesAre
  <2>2. lo \in Opens(f, lo) /\ lo # hi
    BY DEF Opens
  <2>3. CASE lo \in Closes(f, hi)
    <3>1. PICK o \in DOMAIN f : lo = f[o]
      BY <2>2, <2>3 DEF Closes
    <3>2. BlockTile(f, o).from = lo
      BY <3>1 DEF BlockTile
    <3>3. QED BY <2>1, <3>2
  <2>4. CASE \E h \in Holes(f, lo, hi) : h.from = lo
    <3>1. PICK h \in Holes(f, lo, hi) : h.from = lo
      BY <2>4
    <3>2. HoleTile(h).from = lo
      BY <3>1 DEF HoleTile
    <3>3. QED BY <2>1, <3>2
  <2>5. QED BY <2>2, <2>3, <2>4, HoleFound
<1> HIDE DEF T
<1>4. x \in Nat /\ lo <= x /\ x < hi
  OBVIOUS
<1>5. E \in SUBSET (0 .. x) /\ E # {}
  BY <1>3, <1>4
<1>6. Max(E) \in E /\ \A y \in E : y <= Max(E)
  BY <1>4, <1>5, MaxOfIndices
<1>7. PICK t \in T : t.from = Max(E) /\ t.from <= x
  BY <1>4, <1>6
<1>8. x < t.from + t.len
  <2>1. SUFFICES ASSUME t.from + t.len <= x PROVE FALSE
    BY <1>1, <1>4
  <2>2. PICK s \in T : s.from = t.from + t.len
    BY <1>1, <1>2, <1>4, <2>1
  <2>3. s.from \in E
    BY <1>1, <1>4, <2>1, <2>2
  <2>4. QED BY <1>1, <1>6, <1>7, <2>2, <2>3
<1>9. QED BY <1>7, <1>8 DEF T

SlackLength(f, lo, hi) == MapThenSumSet(LAMBDA h : h.len, Slack(f, lo, hi))

(* What finalize_layout leaves bare is the slack it counts. *)
LEMMA SpacedFinal ==
  ASSUME TypeOK, NEW f, NEW lo \in Nat, NEW hi \in Nat, lo <= hi, hi <= Zone,
         Placement(f, lo, hi), NEW m
  PROVE  Spaced(FinalMem(m, f, lo, hi), FinalHeads(f, lo, hi), {h.from : h \in FreeRuns(f, lo, hi)},
                SlackLength(f, lo, hi), lo, hi)
<1> DEFINE M == FinalMem(m, f, lo, hi)
           S == FinalHeads(f, lo, hi)
           T == Tiles(f, lo, hi)
           H == Slack(f, lo, hi)
           at == [h \in H |-> h.from]
<1>1. \A t \in T : t.from \in Nat /\ t.len \in Nat /\ t.len > 0 /\ lo <= t.from
                   /\ t.from + t.len <= hi
  BY TileShape
<1>2. ASSUME NEW t \in T, t.own # 0
      PROVE  t.from \in S /\ SizeIn(M, t.from) = t.len
  <2>1. t.from \in S
    BY <1>2, HeadsAreTiles
  <2>2. M[t.from].own = t.own
    BY FinalAt
  <2>3. t.own \in Int /\ t.len \in Nat /\ t.len > 0 /\ (t.own = t.len \/ t.own = -t.len)
    BY <1>2, TileShape
  <2> HIDE DEF M
  <2>4. SizeIn(M, t.from) = t.len
    BY <2>2, <2>3 DEF SizeIn
  <2>5. QED BY <2>1, <2>4
<1>3. \A u \in S : \E t \in T : t.own # 0 /\ t.from = u
  <2>1. S = {t.from : t \in {y \in T : y.own # 0}}
    BY HeadsAreTiles
  <2> HIDE DEF S, T
  <2>2. QED BY <2>1
<1>4. T = {BlockTile(f, o) : o \in DOMAIN f} \cup {HoleTile(h) : h \in Holes(f, lo, hi)}
  BY TilesAre
<1>5. ASSUME NEW h \in Holes(f, lo, hi)
      PROVE  /\ HoleTile(h) \in T /\ HoleTile(h).from = h.from /\ HoleTile(h).len = h.len
             /\ h \in H => h.len = 1 /\ HoleTile(h).own = 0
             /\ h \notin H => h \in FreeRuns(f, lo, hi) /\ HoleTile(h).own # 0
             /\ h \in FreeRuns(f, lo, hi) => HoleTile(h).own # 0
             /\ h.from \in Nat /\ h.len \in Nat /\ h.len > 0
  <2>1. h.from \in Nat /\ h.len \in Nat /\ h.len > 0
    BY HoleShape
  <2>2. h \in H <=> h.len < 2
    BY DEF Slack, MinBlock
  <2>3. h \in FreeRuns(f, lo, hi) <=> h.len >= 2
    BY DEF FreeRuns, MinBlock
  <2>4. /\ HoleTile(h).from = h.from /\ HoleTile(h).len = h.len
        /\ HoleTile(h).own = IF h.len >= 2 THEN -h.len ELSE 0
    BY DEF HoleTile, MinBlock
  <2>5. HoleTile(h) \in T
    BY <1>4
  <2> HIDE DEF H, T
  <2>6. QED BY <2>1, <2>2, <2>3, <2>4, <2>5
<1>6. ASSUME NEW t \in T, t.own = 0
      PROVE  \E h \in H : h \in Holes(f, lo, hi) /\ t = HoleTile(h)
  <2>1. \A o \in DOMAIN f : BlockTile(f, o).own # 0
    <3>1. \A o \in DOMAIN f : obj[o].size \in Nat /\ obj[o].size >= 2
      BY PlacedNumbers
    <3>2. QED BY <3>1 DEF BlockTile
  <2>2. PICK h \in Holes(f, lo, hi) : t = HoleTile(h)
    BY <1>4, <1>6, <2>1
  <2>3. QED BY <1>5, <1>6, <2>2
<1>7. H \subseteq Holes(f, lo, hi)
  BY DEF Slack
<1>8. \A h \in H : h.from + 1 = hi \/ h.from + 1 \in S
  <2>1. SUFFICES ASSUME NEW h \in H PROVE h.from + 1 = hi \/ h.from + 1 \in S
    OBVIOUS
  <2>2. h.from + h.len \in Closes(f, hi) /\ h.len = 1
    BY <1>5, <1>7, HoleShape
  <2>3. h.from + 1 \in Closes(f, hi)
    BY <2>2
  <2>4. QED BY <2>3 DEF Closes, FinalHeads
<1>9. \A t \in T : t.from \in S \/ t.from + 1 = hi \/ t.from + 1 \in S
  BY <1>2, <1>5, <1>6, <1>7, <1>8
<1>10. \A x \in lo .. hi - 1 : \E t \in T : t.from <= x /\ x < t.from + t.len
  BY TileOver
<1>11. \A t, s \in T : t # s => t.from + t.len <= s.from \/ s.from + s.len <= t.from
  BY TilesApart
<1>12. \A t \in T : t.from + t.len = hi \/ \E s \in T : s.from = t.from + t.len
  BY TilesFollow
<1> HIDE DEF M, S, T, H
<1>13. ASSUME NEW e \in {lo} \cup {u + SizeIn(M, u) : u \in S}, e < hi
       PROVE  e \in S \/ e + 1 \in S \/ e + 1 = hi
  <2>1. CASE e = lo
    <3>1. PICK t \in T : t.from <= lo /\ lo < t.from + t.len
      BY <1>10, <1>13, <2>1
    <3>2. t.from = lo
      BY <1>1, <3>1
    <3>3. QED BY <1>9, <2>1, <3>2
  <2>2. ASSUME NEW u \in S, e = u + SizeIn(M, u)
        PROVE  e \in S \/ e + 1 \in S \/ e + 1 = hi
    <3>1. PICK t \in T : t.own # 0 /\ t.from = u
      BY <1>3
    <3>2. e = t.from + t.len
      BY <1>2, <2>2, <3>1
    <3>3. e # hi
      BY <1>1, <1>13, <3>2
    <3>4. PICK s \in T : s.from = e
      BY <1>12, <3>2, <3>3
    <3>5. QED BY <1>9, <3>4
  <2>3. QED BY <1>13, <2>1, <2>2
<1>14. \A h \in FreeRuns(f, lo, hi) : h \in Holes(f, lo, hi) /\ SizeIn(M, h.from) = h.len
  <2>1. SUFFICES ASSUME NEW h \in FreeRuns(f, lo, hi)
                 PROVE  h \in Holes(f, lo, hi) /\ SizeIn(M, h.from) = h.len
    OBVIOUS
  <2>2. h \in Holes(f, lo, hi)
    BY DEF FreeRuns
  <2>3. QED BY <1>2, <1>5, <2>2
<1>15. \A b, c \in {h.from : h \in FreeRuns(f, lo, hi)} : b + SizeIn(M, b) # c
  <2>1. SUFFICES ASSUME NEW h \in FreeRuns(f, lo, hi), NEW k \in FreeRuns(f, lo, hi)
                 PROVE  h.from + h.len # k.from
    BY <1>14
  <2>2. h \in Holes(f, lo, hi) /\ k \in Holes(f, lo, hi)
    BY <1>14
  <2>3. /\ h.from \in Nat /\ h.len \in Nat /\ h.len > 0
        /\ k.from \in Nat /\ k.len \in Nat /\ k.len > 0
    BY <1>5, <2>2
  <2>4. CASE h = k
    BY <2>3, <2>4
  <2>5. CASE h # k
    <3>1. h.from + h.len < k.from \/ k.from + k.len < h.from
      BY <2>2, <2>5, HolesApart
    <3>2. QED BY <2>3, <3>1
  <2>6. QED BY <2>4, <2>5
<1>16. \A h \in H : h.from \in Nat /\ h.len = 1 /\ lo <= h.from /\ h.from < hi
  <2>1. SUFFICES ASSUME NEW h \in H
                 PROVE  h.from \in Nat /\ h.len = 1 /\ lo <= h.from /\ h.from < hi
    OBVIOUS
  <2>2. /\ HoleTile(h) \in T /\ HoleTile(h).from = h.from /\ HoleTile(h).len = h.len /\ h.len = 1
        /\ h.from \in Nat
    BY <1>5, <1>7
  <2>3. QED BY <1>1, <2>2
<1>17. Bare(M, S, lo, hi) = {h.from : h \in H}
  <2>1. ASSUME NEW h \in H
        PROVE  h.from \in Bare(M, S, lo, hi)
    <3>1. /\ HoleTile(h) \in T /\ HoleTile(h).from = h.from /\ HoleTile(h).len = 1
          /\ HoleTile(h).own = 0
      BY <1>5, <1>7
    <3>2. ASSUME NEW u \in S
          PROVE  h.from < u \/ u + SizeIn(M, u) <= h.from
      <4>1. PICK t \in T : t.own # 0 /\ t.from = u /\ SizeIn(M, u) = t.len
        BY <1>2, <1>3
      <4>2. t.from + t.len <= h.from \/ h.from + 1 <= t.from
        BY <1>11, <3>1, <4>1
      <4>3. QED BY <1>1, <1>16, <4>1, <4>2
    <3>3. h.from \in lo .. hi - 1
      BY <1>16
    <3>4. QED BY <3>2, <3>3 DEF Bare
  <2>2. ASSUME NEW x \in Bare(M, S, lo, hi)
        PROVE  \E h \in H : x = h.from
    <3>1. x \in lo .. hi - 1 /\ \A u \in S : x < u \/ u + SizeIn(M, u) <= x
      BY DEF Bare
    <3>2. PICK t \in T : t.from <= x /\ x < t.from + t.len
      BY <1>10, <3>1
    <3>3. t.own = 0
      <4>1. SUFFICES ASSUME t.own # 0 PROVE FALSE
        OBVIOUS
      <4>2. t.from \in S /\ SizeIn(M, t.from) = t.len /\ t.from \in Nat /\ t.len \in Nat
        BY <1>1, <1>2, <4>1
      <4>3. QED BY <3>1, <3>2, <4>2
    <3>4. PICK h \in H : h \in Holes(f, lo, hi) /\ t = HoleTile(h)
      BY <1>6, <3>3
    <3>5. t.from = h.from /\ t.len = 1 /\ h.from \in Nat
      BY <1>5, <3>4
    <3>6. QED BY <3>1, <3>2, <3>5
  <2>3. QED BY <2>1, <2>2
<1>18. MapThenSumSet(LAMBDA h : h.len, H) = Cardinality({h.from : h \in H})
  <2>1. IsFiniteSet(H)
    <3>1. IsFiniteSet(DOMAIN f)
      BY SizesType DEF Placement
    <3>2. IsFiniteSet(Holes(f, lo, hi))
      BY <3>1, HolesFinite
    <3>3. QED BY <1>7, <3>2, FS_Subset
  <2>2. \A h \in H : at[h] = h.from /\ Lengths(H)[h] = 1
    BY <1>16 DEF Lengths
  <2>3. \A h, k \in H : h # k => h.from + 1 <= k.from \/ k.from + 1 <= h.from
    <3>1. SUFFICES ASSUME NEW h \in H, NEW k \in H, h # k
                   PROVE  h.from + 1 <= k.from \/ k.from + 1 <= h.from
      OBVIOUS
    <3>2. h.from + h.len < k.from \/ k.from + k.len < h.from
      BY <1>7, <3>1, HolesApart
    <3>3. QED BY <1>16, <3>2
  <2> HIDE DEF at
  <2>4. Cardinality(Covered(at, Lengths(H), H)) = Total(Lengths(H), H)
    <3>1. \A h \in H : Lengths(H)[h] \in Nat /\ at[h] \in Nat
      BY <1>16, <2>2
    <3>2. \A h, k \in H : h # k => \/ at[h] + Lengths(H)[h] <= at[k]
                                   \/ at[k] + Lengths(H)[k] <= at[h]
      BY <2>2, <2>3
    <3>3. QED BY <2>1, <3>1, <3>2, TotalCovers
  <2>5. Covered(at, Lengths(H), H) = {h.from : h \in H}
    BY <1>16, <2>2 DEF Covered
  <2>6. MapThenSumSet(LAMBDA h : h.len, H) = Total(Lengths(H), H)
    BY <1>16, <2>1, LengthsSum
  <2>7. QED BY <2>4, <2>5, <2>6
<1>19. MapThenSumSet(LAMBDA h : h.len, H) = Cardinality(Bare(M, S, lo, hi))
  BY <1>17, <1>18
<1>20. SlackLength(f, lo, hi) = Cardinality(Bare(M, S, lo, hi))
  BY <1>19, Zenon DEF SlackLength, H
<1>21. Spaced(M, S, {h.from : h \in FreeRuns(f, lo, hi)}, SlackLength(f, lo, hi), lo, hi)
  BY <1>13, <1>15, <1>20, Zenon DEF Spaced
<1>22. QED BY <1>21, Zenon DEF M, S

-----------------------------------------------------------------------------
(* Pools before and after a step *)

PoolRecord ==
  [first : 0 .. Segments, count : 0 .. Segments, used : 0 .. Zone, fragment : 0 .. Zone,
   live : 0 .. Cardinality(Objects), bins : SUBSET Units]

LEMMA CountType ==
  ASSUME NEW R \in SUBSET Objects
  PROVE  Cardinality(R) \in 0 .. Cardinality(Objects)
<1>1. Cardinality(R) \in Nat /\ Cardinality(Objects) \in Nat /\ Cardinality(R) <= Cardinality(Objects)
  BY HeapAssumption, FS_Subset, FS_CardinalityType
<1>2. QED BY <1>1

LEMMA FinalPoolIs ==
  ASSUME TypeOK, NEW P \in PoolRecord, P.first + P.count <= Segments,
         NEW f, Placement(f, Lo(P), Hi(P))
  PROVE  LET F == FinalPool(P, f) IN
         /\ F \in PoolRecord
         /\ F.first = P.first /\ F.count = P.count
         /\ F.used = Total(Sizes, DOMAIN f) /\ F.live = Cardinality(DOMAIN f)
         /\ F.bins = {h.from : h \in FreeRuns(f, Lo(P), Hi(P))}
         /\ F.fragment = SlackLength(f, Lo(P), Hi(P))
<1> DEFINE fragment == MapThenSumSet(LAMBDA h : h.len, Slack(f, Lo(P), Hi(P)))
           bins == {h.from : h \in FreeRuns(f, Lo(P), Hi(P))}
           F == FinalPool(P, f)
<1>1. /\ P.first \in Nat /\ P.count \in Nat /\ P.first \in 0 .. Segments /\ P.count \in 0 .. Segments
      /\ Lo(P) \in Nat /\ Hi(P) \in Nat /\ Lo(P) <= Hi(P) /\ Hi(P) <= Zone
  <2>1. P.first \in 0 .. Segments /\ P.count \in 0 .. Segments /\ Segments \in Nat
    BY HeapAssumption DEF PoolRecord
  <2>2. QED BY <2>1, Windowed
<1>2. DOMAIN f \in SUBSET Objects
  BY DEF Placement
<1>3. UnitsOf(DOMAIN f) = Total(Sizes, DOMAIN f)
  BY <1>2, UnitsSum
<1>4. Total(Sizes, DOMAIN f) \in 0 .. Zone
  <2>1. Total(Sizes, DOMAIN f) <= Hi(P) - Lo(P)
    BY <1>1, PlacedFits
  <2>2. Total(Sizes, DOMAIN f) \in Nat
    BY <1>2, SizesType
  <2>3. QED BY <1>1, <2>1, <2>2, ZoneType
<1>5. fragment \in 0 .. Zone
  BY <1>1, SlackFits
<1>6. bins \in SUBSET Units
  <2>1. \A h \in FreeRuns(f, Lo(P), Hi(P)) : h \in Holes(f, Lo(P), Hi(P))
    BY DEF FreeRuns
  <2>2. \A h \in Holes(f, Lo(P), Hi(P)) : h.from \in Nat /\ h.len \in Nat /\ h.len > 0
                                          /\ h.from + h.len <= Hi(P)
    BY <1>1, HoleShape
  <2>3. \A h \in Holes(f, Lo(P), Hi(P)) : h.from \in Units
    BY <1>1, <2>2, ZoneType
  <2>4. QED BY <2>1, <2>3
<1>7. Cardinality(DOMAIN f) \in 0 .. Cardinality(Objects)
  BY <1>2, CountType
<1>8. F = [P EXCEPT !.used = Total(Sizes, DOMAIN f), !.live = Cardinality(DOMAIN f),
                    !.fragment = fragment, !.bins = bins]
  BY <1>3 DEF FinalPool
<1> HIDE DEF fragment, bins, F
<1>9. /\ F.first = P.first /\ F.count = P.count /\ F.used = Total(Sizes, DOMAIN f)
      /\ F.live = Cardinality(DOMAIN f) /\ F.bins = bins /\ F.fragment = fragment
  BY <1>8 DEF PoolRecord
<1>10. F \in PoolRecord
  BY <1>4, <1>5, <1>6, <1>7, <1>8 DEF PoolRecord
<1>11. fragment = SlackLength(f, Lo(P), Hi(P))
  BY DEF fragment, SlackLength
<1>12. QED BY <1>9, <1>10, <1>11 DEF F, bins

(* A chain is what its window's words say. *)
LEMMA ChainKept ==
  ASSUME NEW S \in SUBSET Units, NEW lo \in Nat, NEW hi \in Nat, hi <= Zone,
         NEW m \in [Units -> Header], NEW n, Chained(m, S, lo, hi),
         \A u \in Units : lo <= u /\ u < hi => n[u] = m[u]
  PROVE  Chained(n, S, lo, hi)
<1>1. \A u \in Units : m[u].own \in Int /\ m[u].prev \in Int /\ u \in Nat
  BY ZoneType DEF Header
<1>2. \A u \in Units : SizeIn(m, u) \in Int
  BY <1>1 DEF SizeIn
<1>3. \A u \in S : /\ lo <= u /\ SizeIn(m, u) >= 2 /\ u + SizeIn(m, u) <= hi
                   /\ u < hi /\ n[u] = m[u] /\ SizeIn(n, u) = SizeIn(m, u)
  <2>1. SUFFICES ASSUME NEW u \in S
        PROVE  /\ lo <= u /\ SizeIn(m, u) >= 2 /\ u + SizeIn(m, u) <= hi
               /\ u < hi /\ n[u] = m[u] /\ SizeIn(n, u) = SizeIn(m, u)
    OBVIOUS
  <2>2. lo <= u /\ SizeIn(m, u) >= 2 /\ u + SizeIn(m, u) <= hi
    BY DEF Chained, MinBlock
  <2>3. u < hi
    BY <1>1, <1>2, <2>2
  <2>4. n[u] = m[u]
    BY <2>2, <2>3
  <2>5. QED BY <2>2, <2>3, <2>4 DEF SizeIn
<1>4. ASSUME NEW u \in S
      PROVE  u + SizeIn(m, u) < hi => n[u + SizeIn(m, u)] = m[u + SizeIn(m, u)]
  <2>1. SUFFICES ASSUME u + SizeIn(m, u) < hi
                 PROVE  n[u + SizeIn(m, u)] = m[u + SizeIn(m, u)]
    OBVIOUS
  <2>2. lo <= u /\ SizeIn(m, u) >= 2 /\ SizeIn(m, u) \in Int /\ u \in Nat
    BY <1>1, <1>2, <1>3
  <2>3. lo <= u + SizeIn(m, u) /\ u + SizeIn(m, u) \in Units
    BY <2>1, <2>2, ZoneType
  <2>4. QED BY <2>1, <2>3
<1>5. ASSUME NEW u \in S
      PROVE  /\ lo <= u /\ SizeIn(n, u) >= MinBlock /\ u + SizeIn(n, u) <= hi
             /\ \A v \in S : u < v => u + SizeIn(n, u) <= v
             /\ u + SizeIn(n, u) < hi =>
                  \/ u + SizeIn(n, u) \in S /\ n[u + SizeIn(n, u)].prev = SizeIn(n, u)
                  \/ n[u + SizeIn(n, u)].own = 0
             /\ n[u].prev # 0 => u - n[u].prev \in S /\ SizeIn(n, u - n[u].prev) = n[u].prev
  <2>1. /\ \A v \in S : u < v => u + SizeIn(m, u) <= v
        /\ u + SizeIn(m, u) < hi =>
             \/ u + SizeIn(m, u) \in S /\ m[u + SizeIn(m, u)].prev = SizeIn(m, u)
             \/ m[u + SizeIn(m, u)].own = 0
        /\ m[u].prev # 0 => u - m[u].prev \in S /\ SizeIn(m, u - m[u].prev) = m[u].prev
    BY DEF Chained
  <2>2. n[u] = m[u] /\ SizeIn(n, u) = SizeIn(m, u)
    BY <1>3
  <2>3. n[u].prev # 0 => u - n[u].prev \in S /\ SizeIn(n, u - n[u].prev) = n[u].prev
    <3>1. SUFFICES ASSUME n[u].prev # 0
                   PROVE  u - n[u].prev \in S /\ SizeIn(n, u - n[u].prev) = n[u].prev
      OBVIOUS
    <3> DEFINE v == u - n[u].prev
    <3>2. v \in S /\ SizeIn(m, v) = n[u].prev
      BY <2>1, <2>2, <3>1
    <3> HIDE DEF v
    <3>3. SizeIn(n, v) = SizeIn(m, v)
      BY <1>3, <3>2
    <3>4. QED BY <3>2, <3>3 DEF v
  <2>4. QED BY <1>3, <1>4, <2>1, <2>2, <2>3 DEF MinBlock
<1>6. QED BY <1>5 DEF Chained

LEMMA HeadsType ==
  ASSUME TypeOK, NEW p \in Pools
  PROVE  Heads(p) \in SUBSET Units /\ Residents(p) \in SUBSET Objects
  BY DEF TypeOK, Heads, Residents

(* A pool after finalize_layout. *)
LEMMA Settles ==
  ASSUME TypeOK, NEW P \in PoolRecord, P.first + P.count <= Segments,
         NEW f, Placement(f, Lo(P), Hi(P)), NEW m \in [Units -> Header], NEW p \in Pools,
         pool'[p].first = P.first, pool'[p].count = P.count,
         pool'[p].used = Total(Sizes, DOMAIN f), pool'[p].live = Cardinality(DOMAIN f),
         pool'[p].bins = {h.from : h \in FreeRuns(f, Lo(P), Hi(P))},
         pool'[p].fragment = SlackLength(f, Lo(P), Hi(P)),
         Residents(p)' = DOMAIN f,
         \A o \in DOMAIN f : obj'[o].start = f[o] /\ obj'[o].size = obj[o].size,
         \A u \in Units : Lo(P) <= u /\ u < Hi(P) => mem'[u] = FinalMem(m, f, Lo(P), Hi(P))[u]
  PROVE  PoolInv(p)'
<1> DEFINE lo == Lo(P)
           hi == Hi(P)
           M == FinalMem(m, f, Lo(P), Hi(P))
           S == FinalHeads(f, Lo(P), Hi(P))
<1>1. lo \in Nat /\ hi \in Nat /\ lo <= hi /\ hi <= Zone
  <2>1. P.first \in Nat /\ P.count \in Nat
    BY HeapAssumption DEF PoolRecord
  <2>2. QED BY <2>1, Windowed
<1>2. /\ Chained(M, S, lo, hi) /\ M \in [Units -> Header]
      /\ \A h \in FreeRuns(f, lo, hi) : M[h.from].own < 0
      /\ \A o \in DOMAIN f : M[f[o]].own = obj[o].size
  <2>1. M \in [Units -> Header]
    BY <1>1, FinalType
  <2>2. Chained(M, S, lo, hi)
    BY <1>1, FinalChained
  <2>3. \A h \in FreeRuns(f, lo, hi) : M[h.from].own < 0
    BY <1>1, FinalChained
  <2>4. \A o \in DOMAIN f : M[f[o]].own = obj[o].size
    BY <1>1, FinalChained
  <2>5. QED BY <2>1, <2>2, <2>3, <2>4
<1>3. \A t \in Tiles(f, lo, hi) : t.from \in Nat /\ t.len \in Nat /\ t.len > 0 /\ t.from + t.len <= hi
                                  /\ lo <= t.from
  BY <1>1, TileShape
<1>4. \A u \in S : u \in Units /\ lo <= u /\ u < hi
  <2>1. S = {t.from : t \in {x \in Tiles(f, lo, hi) : x.own # 0}}
    BY <1>1, HeadsAreTiles
  <2> HIDE DEF S, lo, hi
  <2>2. QED BY <1>1, <1>3, <2>1, ZoneType
<1>5. \A h \in FreeRuns(f, lo, hi) : h.from \in S
  BY DEF FinalHeads
<1>6. \A o \in DOMAIN f : f[o] \in S
  BY DEF FinalHeads
<1>7. Heads(p)' = S
  BY DEF Heads, FinalHeads
<1>8. Lo(pool'[p]) = lo /\ Hi(pool'[p]) = hi
  BY DEF Lo, Hi
<1> HIDE DEF S, lo, hi, M
<1>9. \A u \in Units : lo <= u /\ u < hi => mem'[u] = M[u]
  BY DEF lo, hi, M
<1>10. Chained(mem', S, lo, hi)
  <2>1. S \in SUBSET Units
    BY <1>4
  <2>2. QED BY <1>1, <1>2, <1>9, <2>1, ChainKept
<1>11. \A b \in pool'[p].bins : mem'[b].own < 0
  <2>1. pool'[p].bins = {h.from : h \in FreeRuns(f, lo, hi)}
    BY DEF lo, hi
  <2>2. QED BY <1>2, <1>4, <1>5, <1>9, <2>1
<1>12. \A o \in DOMAIN f : mem'[f[o]].own = obj[o].size
  BY <1>2, <1>4, <1>6, <1>9
<1>13. \A o, q \in DOMAIN f : f[o] = f[q] => o = q
  <2>1. \A o, q \in DOMAIN f : o # q => EndIn(f, o) <= f[q] \/ EndIn(f, q) <= f[o]
    BY DEF Placement
  <2>2. \A o \in DOMAIN f : f[o] \in Nat /\ EndIn(f, o) \in Nat /\ f[o] + 2 <= EndIn(f, o)
    <3>1. Placement(f, lo, hi)
      BY DEF lo, hi
    <3>2. QED BY <1>1, <3>1, PlacedNumbers
  <2>3. QED BY <2>1, <2>2
<1>14. Total(Sizes, DOMAIN f) = Total(Sizes', DOMAIN f)
  <2>1. DOMAIN f \in SUBSET Objects
    BY DEF Placement
  <2>2. \A o \in DOMAIN f : Sizes[o] = Sizes'[o]
    BY <2>1 DEF Sizes
  <2>3. QED BY <2>2, TotalSame
<1>15. Chained(mem, Heads(p), Lo(pool[p]), Hi(pool[p]))'
  BY <1>7, <1>8, <1>10
<1>16. \A b \in pool'[p].bins : IsFree(b)'
  BY <1>11 DEF IsFree
<1>17. \A o \in Residents(p)' : mem'[obj'[o].start].own = obj'[o].size
  BY <1>12
<1>18. \A o, q \in Residents(p)' : obj'[o].start = obj'[q].start => o = q
  BY <1>13
<1>19. Total(Sizes, Residents(p))' = Total(Sizes', DOMAIN f)
  OBVIOUS
<1>20. Spaced(mem', S, pool'[p].bins, pool'[p].fragment, lo, hi)
  <2>1. pool'[p].bins = {h.from : h \in FreeRuns(f, lo, hi)} /\ pool'[p].bins \in SUBSET S
    BY <1>5 DEF lo, hi
  <2>2. pool'[p].fragment = SlackLength(f, lo, hi)
    BY DEF lo, hi
  <2>3. Spaced(M, S, pool'[p].bins, pool'[p].fragment, lo, hi)
    <3>1. Spaced(M, S, {h.from : h \in FreeRuns(f, lo, hi)}, SlackLength(f, lo, hi), lo, hi)
      <4>1. Placement(f, lo, hi)
        BY DEF lo, hi
      <4>2. Spaced(FinalMem(m, f, lo, hi), FinalHeads(f, lo, hi),
                   {h.from : h \in FreeRuns(f, lo, hi)}, SlackLength(f, lo, hi), lo, hi)
        BY <1>1, <4>1, SpacedFinal
      <4>3. QED BY <4>2 DEF M, S, lo, hi
    <3>2. QED BY <2>1, <2>2, <3>1
  <2>4. \A u \in S : SizeIn(mem', u) = SizeIn(M, u)
    BY <1>4, <1>9 DEF SizeIn
  <2>5. QED BY <2>1, <2>3, <2>4, SpacedSame
<1>21. Spaced(mem, Heads(p), pool[p].bins, pool[p].fragment, Lo(pool[p]), Hi(pool[p]))'
  BY <1>7, <1>8, <1>20
<1>22. QED BY <1>14, <1>15, <1>16, <1>17, <1>18, <1>19, <1>21 DEF PoolInv

(* A pool that a step leaves alone. *)
LEMMA FrameKept ==
  ASSUME TypeOK, NEW q \in Pools, PoolInv(q), pool'[q] = pool[q], Residents(q)' = Residents(q),
         \A o \in Residents(q) : obj'[o].start = obj[o].start /\ obj'[o].size = obj[o].size,
         \A u \in Units : Lo(pool[q]) <= u /\ u < Hi(pool[q]) => mem'[u] = mem[u]
  PROVE  PoolInv(q)'
<1> DEFINE S == Heads(q)
           lo == Lo(pool[q])
           hi == Hi(pool[q])
<1>1. /\ pool[q].first + pool[q].count <= Segments
      /\ Chained(mem, S, lo, hi) /\ Spaced(mem, S, pool[q].bins, pool[q].fragment, lo, hi)
      /\ \A b \in pool[q].bins : mem[b].own < 0
      /\ \A o \in Residents(q) : mem[obj[o].start].own = obj[o].size
      /\ \A o, r \in Residents(q) : obj[o].start = obj[r].start => o = r
      /\ pool[q].live = Cardinality(Residents(q))
      /\ pool[q].used = Total(Sizes, Residents(q))
  BY DEF PoolInv, IsFree
<1>2. lo \in Nat /\ hi \in Nat /\ hi <= Zone
  <2>1. pool[q].first \in Nat /\ pool[q].count \in Nat
    BY PoolTypes
  <2>2. QED BY <1>1, <2>1, Windowed
<1>3. S \in SUBSET Units /\ Residents(q) \in SUBSET Objects
  BY HeadsType
<1>4. Heads(q)' = S
  BY DEF Heads
<1>5. Lo(pool'[q]) = lo /\ Hi(pool'[q]) = hi
  OBVIOUS
<1>6. \A b \in pool[q].bins : b \in S
  BY DEF Heads
<1>7. \A o \in Residents(q) : obj[o].start \in S
  BY DEF Heads
<1> HIDE DEF S, lo, hi
<1>8. \A u \in Units : lo <= u /\ u < hi => mem'[u] = mem[u]
  BY DEF lo, hi
<1>9. mem \in [Units -> Header]
  BY DEF TypeOK, Header
<1>10. Chained(mem', S, lo, hi)
  BY <1>1, <1>2, <1>3, <1>8, <1>9, ChainKept
<1>11. \A u \in S : mem'[u] = mem[u]
  <2>1. ASSUME NEW u \in S
        PROVE  lo <= u /\ u < hi
    <3>1. lo <= u /\ SizeIn(mem, u) >= 2 /\ u + SizeIn(mem, u) <= hi
      BY <1>1 DEF Chained, MinBlock
    <3>2. u \in Units /\ u \in Nat
      BY <1>3, ZoneType
    <3>3. SizeIn(mem, u) \in Int
      BY <3>2, MemTypes
    <3>4. QED BY <1>2, <3>1, <3>2, <3>3
  <2>2. QED BY <1>3, <1>8, <2>1
<1>12. \A b \in pool'[q].bins : IsFree(b)'
  BY <1>1, <1>6, <1>11 DEF IsFree
<1>13. \A o \in Residents(q)' : mem'[obj'[o].start].own = obj'[o].size
  BY <1>1, <1>7, <1>11
<1>14. \A o, r \in Residents(q)' : obj'[o].start = obj'[r].start => o = r
  BY <1>1
<1>15. Total(Sizes', Residents(q)) = Total(Sizes, Residents(q))
  <2>1. \A o \in Residents(q) : Sizes'[o] = Sizes[o]
    BY <1>3 DEF Sizes
  <2>2. QED BY <2>1, TotalSame
<1>16. Chained(mem, Heads(q), Lo(pool[q]), Hi(pool[q]))'
  BY <1>4, <1>5, <1>10
<1>17. Spaced(mem', S, pool'[q].bins, pool'[q].fragment, lo, hi)
  <2>1. \A u \in S : SizeIn(mem', u) = SizeIn(mem, u)
    BY <1>11 DEF SizeIn
  <2>2. pool[q].bins \in SUBSET S
    BY <1>6
  <2>3. Spaced(mem', S, pool[q].bins, pool[q].fragment, lo, hi)
    BY <1>1, <2>1, <2>2, SpacedSame
  <2>4. QED BY <2>3
<1>18. Spaced(mem, Heads(q), pool[q].bins, pool[q].fragment, Lo(pool[q]), Hi(pool[q]))'
  BY <1>4, <1>5, <1>17
<1>19. QED BY <1>1, <1>12, <1>13, <1>14, <1>15, <1>16, <1>18 DEF PoolInv

(* A step that touches the pools of D only. *)
LEMMA HeapKept ==
  ASSUME HeapInv, TypeOK', NEW D \in SUBSET Pools,
         \A q \in Pools \ D : /\ pool'[q] = pool[q] /\ Residents(q)' = Residents(q)
                              /\ \A o \in Residents(q) : /\ obj'[o].start = obj[o].start
                                                         /\ obj'[o].size = obj[o].size,
         \A q \in Pools \ D : Exists(q) =>
           \A u \in Units : Lo(pool[q]) <= u /\ u < Hi(pool[q]) => mem'[u] = mem[u],
         \A p \in D : Exists(p)' => PoolInv(p)',
         \A p \in D, q \in Pools :
           p # q /\ Exists(p)' /\ Exists(q)' => Apart(pool'[p], pool'[q]),
         \A o \in Objects : obj'[o].size > 0 => pool'[obj'[o].pool].count > 0
  PROVE  HeapInv'
<1>1. ASSUME NEW q \in Pools, Exists(q)'
      PROVE  PoolInv(q)'
  <2>1. CASE q \in D
    BY <1>1, <2>1
  <2>2. CASE q \notin D
    <3>1. Exists(q) /\ PoolInv(q) /\ TypeOK
      BY <1>1, <2>2 DEF Exists, HeapInv
    <3>2. QED BY <2>2, <3>1, FrameKept
  <2>3. QED BY <2>1, <2>2
<1>2. ASSUME NEW p \in Pools, NEW q \in Pools, p # q, Exists(p)', Exists(q)'
      PROVE  Apart(pool'[p], pool'[q])
  <2>1. CASE p \in D
    BY <1>2, <2>1
  <2>2. CASE q \in D
    <3>1. Apart(pool'[q], pool'[p])
      BY <1>2, <2>2
    <3>2. QED BY <3>1 DEF Apart
  <2>3. CASE p \notin D /\ q \notin D
    <3>1. Exists(p) /\ Exists(q) /\ pool'[p] = pool[p] /\ pool'[q] = pool[q]
      BY <1>2, <2>3 DEF Exists
    <3>2. QED BY <1>2, <3>1 DEF HeapInv
  <2>4. QED BY <2>1, <2>2, <2>3
<1>3. (\A o \in Objects : obj[o].size > 0 => Exists(obj[o].pool))'
  BY DEF Exists
<1>4. QED BY <1>1, <1>2, <1>3 DEF HeapInv

LEMMA ChainFits ==
  ASSUME NEW S \in SUBSET Units, NEW lo \in Nat, NEW hi \in Nat, lo <= hi,
         NEW m \in [Units -> Header], Chained(m, S, lo, hi),
         NEW R, IsFiniteSet(R), NEW at, NEW len,
         \A x \in R : at[x] \in S /\ len[x] = SizeIn(m, at[x]),
         \A x, y \in R : at[x] = at[y] => x = y
  PROVE  Total(len, R) <= hi - lo
<1>1. \A u \in S : u \in Nat /\ m[u].own \in Int
  BY ZoneType DEF Header
<1>2. \A u \in S : SizeIn(m, u) \in Int /\ SizeIn(m, u) >= 2 /\ lo <= u /\ u + SizeIn(m, u) <= hi
  BY <1>1 DEF Chained, SizeIn, MinBlock
<1>3. \A u, v \in S : u < v => u + SizeIn(m, u) <= v
  BY DEF Chained
<1>4. \A x \in R : /\ len[x] \in Nat /\ at[x] \in Nat
                   /\ lo <= at[x] /\ at[x] + len[x] <= hi
  BY <1>1, <1>2
<1>5. \A x, y \in R : x # y => at[x] + len[x] <= at[y] \/ at[y] + len[y] <= at[x]
  <2>1. SUFFICES ASSUME NEW x \in R, NEW y \in R, x # y
                 PROVE  at[x] + len[x] <= at[y] \/ at[y] + len[y] <= at[x]
    OBVIOUS
  <2>2. at[x] \in Nat /\ at[y] \in Nat /\ at[x] # at[y]
    BY <1>4, <2>1
  <2>3. at[x] \in S /\ at[y] \in S /\ len[x] = SizeIn(m, at[x]) /\ len[y] = SizeIn(m, at[y])
    OBVIOUS
  <2>4. QED BY <1>3, <2>2, <2>3
<1>6. QED BY <1>4, <1>5, TotalFits

-----------------------------------------------------------------------------
(* Chains under alloc and free *)

LEMMA ChainFacts ==
  ASSUME NEW S \in SUBSET Units, NEW lo \in Nat, NEW hi \in Nat,
         NEW m \in [Units -> Header], Chained(m, S, lo, hi)
  PROVE  /\ \A u \in S : /\ u \in Nat /\ SizeIn(m, u) \in Nat /\ SizeIn(m, u) >= 2
                         /\ lo <= u /\ u + SizeIn(m, u) <= hi /\ m[u].own # 0
                         /\ m[u].own \in Int /\ m[u].prev \in Nat
                         /\ u + SizeIn(m, u) < hi =>
                              \/ /\ u + SizeIn(m, u) \in S
                                 /\ m[u + SizeIn(m, u)].prev = SizeIn(m, u)
                              \/ m[u + SizeIn(m, u)].own = 0
                         /\ m[u].prev # 0 =>
                              u - m[u].prev \in S /\ SizeIn(m, u - m[u].prev) = m[u].prev
         /\ \A u, v \in S : u < v => u + SizeIn(m, u) <= v
<1>1. \A u \in S : u \in Nat /\ m[u].own \in Int /\ m[u].prev \in Nat
  BY ZoneType DEF Header
<1>2. \A u \in S : SizeIn(m, u) \in Int /\ SizeIn(m, u) >= 2
  BY <1>1 DEF Chained, SizeIn, MinBlock
<1>3. \A u \in S : m[u].own # 0
  BY <1>1, <1>2 DEF SizeIn
<1>4. QED BY <1>1, <1>2, <1>3 DEF Chained

LEMMA ChainNumbers ==
  ASSUME NEW S \in SUBSET Units, NEW lo \in Nat, NEW hi \in Nat,
         NEW m \in [Units -> Header], Chained(m, S, lo, hi)
  PROVE  /\ \A u \in S : /\ u \in Nat /\ SizeIn(m, u) \in Nat /\ SizeIn(m, u) >= 2
                         /\ lo <= u /\ u + SizeIn(m, u) <= hi /\ m[u].own # 0
                         /\ m[u].own \in Int /\ m[u].prev \in Nat
         /\ \A u, v \in S : u < v => u + SizeIn(m, u) <= v
<1>1. \A u \in S : u \in Nat /\ m[u].own \in Int /\ m[u].prev \in Nat
  BY ZoneType DEF Header
<1>2. \A u \in S : SizeIn(m, u) \in Int /\ SizeIn(m, u) >= 2
  BY <1>1 DEF Chained, SizeIn, MinBlock
<1>3. \A u \in S : m[u].own # 0
  BY <1>1, <1>2 DEF SizeIn
<1>4. QED BY <1>1, <1>2, <1>3 DEF Chained

(* alloc takes size units of the block at b and leaves the rest, if any.   *)
LEMMA ChainCut ==
  ASSUME NEW S \in SUBSET Units, NEW lo \in Nat, NEW hi \in Nat, hi <= Zone,
         NEW m \in [Units -> Header], Chained(m, S, lo, hi),
         NEW b \in S, NEW whole, whole = SizeIn(m, b), NEW size \in Nat, size >= 2,
         size = whole \/ size + 2 <= whole, NEW n,
         n[b].own = size /\ n[b].prev = m[b].prev,
         size < whole => n[b + size].own = size - whole /\ n[b + size].prev = size,
         b + whole < hi => /\ n[b + whole].own = m[b + whole].own
                           /\ n[b + whole].prev = IF size < whole THEN whole - size ELSE size,
         \A u \in Units : u # b /\ u # b + size /\ u # b + whole => n[u] = m[u]
  PROVE  Chained(n, S \cup (IF size < whole THEN {b + size} ELSE {}), lo, hi)
<1> DEFINE rest == IF size < whole THEN {b + size} ELSE {}
           T == S \cup rest
<1>1. /\ \A u \in S : /\ u \in Nat /\ SizeIn(m, u) \in Nat /\ SizeIn(m, u) >= 2
                      /\ lo <= u /\ u + SizeIn(m, u) <= hi /\ m[u].own # 0
                      /\ m[u].own \in Int /\ m[u].prev \in Nat
      /\ \A u, v \in S : u < v => u + SizeIn(m, u) <= v
  <2> HIDE DEF T, rest
  <2>1. QED BY ONLY HeapAssumption, S \in SUBSET Units, lo \in Nat, hi \in Nat,
                    m \in [Units -> Header], Chained(m, S, lo, hi), ChainNumbers
<1>2. \A u \in S : u + SizeIn(m, u) < hi =>
        \/ u + SizeIn(m, u) \in S /\ m[u + SizeIn(m, u)].prev = SizeIn(m, u)
        \/ m[u + SizeIn(m, u)].own = 0
  BY ChainFacts
<1>3. \A u \in S : m[u].prev # 0 => u - m[u].prev \in S /\ SizeIn(m, u - m[u].prev) = m[u].prev
  BY DEF Chained
<1>4. b \in Nat /\ whole \in Nat /\ size <= whole /\ b + whole <= hi /\ b + size <= hi
  BY <1>1
<1>5. \A u \in S : u # b => (u < b /\ u + SizeIn(m, u) <= b) \/ b + whole <= u
  BY <1>1, <1>4
<1>6. \A u \in Nat : u < hi => u \in Units
  BY ZoneType
<1>7. \A u \in S : u # b => SizeIn(n, u) = SizeIn(m, u) /\ n[u].own = m[u].own
  <2>1. ASSUME NEW u \in S, u # b
        PROVE  n[u].own = m[u].own
    <3>1. u \in Units /\ u < hi /\ u \in Nat
      BY <1>1
    <3>2. CASE u = b + whole
      BY <3>1, <3>2
    <3>3. CASE u # b + whole
      <4>1. u # b + size
        BY <1>1, <1>4, <1>5, <2>1, <3>3
      <4>2. QED BY <2>1, <3>1, <3>3, <4>1
    <3>4. QED BY <3>2, <3>3
  <2>2. QED BY <2>1 DEF SizeIn
<1>8. SizeIn(n, b) = size
  BY DEF SizeIn
<1>9. size < whole => SizeIn(n, b + size) = whole - size
  BY <1>4 DEF SizeIn
<1>10. b + whole < hi =>
         \/ b + whole \in S /\ n[b + whole].prev = IF size < whole THEN whole - size ELSE size
         \/ n[b + whole].own = 0
  BY <1>2
<1>11. ASSUME NEW u \in S, u # b
       PROVE  /\ u + SizeIn(n, u) < hi =>
                   \/ u + SizeIn(n, u) \in S /\ n[u + SizeIn(n, u)].prev = SizeIn(n, u)
                   \/ n[u + SizeIn(n, u)].own = 0
              /\ n[u].prev # 0 => u - n[u].prev \in T /\ SizeIn(n, u - n[u].prev) = n[u].prev
  <2> DEFINE e == u + SizeIn(m, u)
  <2>1. SizeIn(n, u) = SizeIn(m, u)
    BY <1>7, <1>11
  <2>2. u \in Nat /\ e \in Nat /\ u + 2 <= e /\ e <= hi /\ u \in Units
    BY <1>1
  <2>3. e <= b \/ b + whole + 2 <= e
    BY <1>1, <1>4, <1>5, <1>11
  <2>4. e < hi => (e \in S /\ n[e].prev = SizeIn(m, u)) \/ n[e].own = 0
    <3>1. SUFFICES ASSUME e < hi PROVE (e \in S /\ n[e].prev = SizeIn(m, u)) \/ n[e].own = 0
      OBVIOUS
    <3>2. e \in Units
      BY <1>6, <2>2, <3>1
    <3>3. (e \in S /\ m[e].prev = SizeIn(m, u)) \/ m[e].own = 0
      BY <1>2, <3>1
    <3>4. CASE e = b
      BY <1>1, <3>3, <3>4
    <3>5. CASE e # b
      <4>1. e # b + size /\ e # b + whole
        BY <1>4, <2>2, <2>3, <3>5
      <4>2. n[e] = m[e]
        BY <3>2, <3>5, <4>1
      <4>3. QED BY <3>3, <4>2
    <3>6. QED BY <3>4, <3>5
  <2>5. CASE u = b + whole
    <3>1. n[u].prev = IF size < whole THEN whole - size ELSE size
      BY <1>1, <2>5, <2>2
    <3>2. CASE size < whole
      <4>1. u - n[u].prev = b + size
        BY <1>4, <2>5, <3>1, <3>2
      <4>2. QED BY <1>9, <2>1, <2>4, <3>1, <3>2, <4>1
    <3>3. CASE ~(size < whole)
      <4>1. u - n[u].prev = b
        BY <1>4, <2>5, <3>1, <3>3
      <4>2. QED BY <1>8, <2>1, <2>4, <3>1, <3>3, <4>1
    <3>4. QED BY <3>2, <3>3
  <2>6. CASE u # b + whole
    <3>1. u # b + size
      BY <1>4, <1>5, <1>11, <2>2, <2>6
    <3>2. n[u] = m[u]
      BY <1>11, <2>2, <2>6, <3>1
    <3>3. m[u].prev # 0 => u - m[u].prev \in S /\ SizeIn(m, u - m[u].prev) = m[u].prev
      BY <1>3
    <3>4. ASSUME m[u].prev # 0
          PROVE  SizeIn(n, u - m[u].prev) = m[u].prev
      <4> DEFINE v == u - m[u].prev
      <4>1. v \in S /\ SizeIn(m, v) = m[u].prev
        BY <3>3, <3>4
      <4>2. v # b
        BY <1>1, <1>4, <2>2, <2>6, <4>1
      <4> HIDE DEF v
      <4>3. SizeIn(n, v) = m[u].prev
        BY <1>7, <4>1, <4>2
      <4>4. QED BY <4>3 DEF v
    <3>5. QED BY <2>1, <2>4, <3>2, <3>3, <3>4
  <2>7. QED BY <2>5, <2>6
<1>12. n[b].prev # 0 => b - n[b].prev \in T /\ SizeIn(n, b - n[b].prev) = n[b].prev
  <2>1. SUFFICES ASSUME m[b].prev # 0
                 PROVE  b - m[b].prev \in S /\ SizeIn(n, b - m[b].prev) = m[b].prev
    OBVIOUS
  <2> DEFINE v == b - m[b].prev
  <2>2. v \in S /\ SizeIn(m, v) = m[b].prev
    BY <1>3, <2>1
  <2>3. v # b
    BY <1>1, <2>1
  <2> HIDE DEF v
  <2>4. v \in S /\ SizeIn(n, v) = m[b].prev
    BY <1>7, <2>2, <2>3
  <2>5. QED BY <2>4 DEF v
<1>13. /\ lo <= b /\ b + size <= hi
       /\ b + size < hi => (b + size \in T /\ n[b + size].prev = size) \/ n[b + size].own = 0
  <2>1. lo <= b
    BY <1>1
  <2>2. CASE size = whole
    BY <1>4, <1>10, <2>1, <2>2
  <2>3. CASE size < whole
    BY <1>4, <2>1, <2>3
  <2>4. QED BY <1>4, <2>2, <2>3
<1>14. size < whole =>
         /\ lo <= b + size /\ whole - size >= 2 /\ b + size + (whole - size) <= hi
         /\ b + size + (whole - size) < hi =>
              \/ /\ b + size + (whole - size) \in T
                 /\ n[b + size + (whole - size)].prev = whole - size
              \/ n[b + size + (whole - size)].own = 0
         /\ b + size - n[b + size].prev = b /\ SizeIn(n, b) = n[b + size].prev
  <2>1. SUFFICES ASSUME size < whole
        PROVE  /\ lo <= b + size /\ whole - size >= 2 /\ b + size + (whole - size) <= hi
               /\ b + size + (whole - size) < hi =>
                    \/ /\ b + size + (whole - size) \in T
                       /\ n[b + size + (whole - size)].prev = whole - size
                    \/ n[b + size + (whole - size)].own = 0
               /\ b + size - n[b + size].prev = b /\ SizeIn(n, b) = n[b + size].prev
    OBVIOUS
  <2>2. b + size + (whole - size) = b + whole
    BY <1>4
  <2>3. lo <= b + size /\ whole - size >= 2 /\ b + size - n[b + size].prev = b
    BY <1>1, <1>4, <2>1
  <2>4. QED BY <1>4, <1>8, <1>10, <2>1, <2>2, <2>3
<1>15. \A u \in T : \/ u \in S /\ u # b
                    \/ u = b
                    \/ u = b + size /\ size < whole
  OBVIOUS
<1>16. ASSUME NEW u \in T, NEW v \in T, u < v
       PROVE  u + SizeIn(n, u) <= v
  <2>1. u \in Nat /\ v \in Nat
    BY <1>1, <1>4, <1>15
  <2>2. CASE u = b
    <3>1. v = b + size \/ b + whole <= v
      BY <1>5, <1>15, <1>16, <2>1, <2>2, <1>4
    <3>2. QED BY <1>4, <1>8, <2>1, <2>2, <3>1
  <2>3. CASE u = b + size /\ size < whole
    <3>1. v \in S /\ v # b
      BY <1>4, <1>15, <1>16, <2>1, <2>3
    <3>2. b + whole <= v
      BY <1>4, <1>5, <1>16, <2>1, <2>3, <3>1
    <3>3. QED BY <1>4, <1>9, <2>1, <2>3, <3>2
  <2>4. CASE u \in S /\ u # b
    <3>1. SizeIn(n, u) = SizeIn(m, u) /\ SizeIn(m, u) \in Nat
      BY <1>1, <1>7, <2>4
    <3>2. v \in S => u + SizeIn(m, u) <= v
      BY <1>1, <1>16, <2>4
    <3>3. CASE v = b + size /\ size < whole
      <4>1. u + SizeIn(m, u) <= b
        BY <1>4, <1>5, <1>16, <2>1, <2>4, <3>3
      <4>2. QED BY <1>4, <2>1, <3>1, <3>3, <4>1
    <3>4. QED BY <1>15, <3>1, <3>2, <3>3
  <2>5. QED BY <1>15, <2>2, <2>3, <2>4
<1>17. ASSUME NEW u \in T
       PROVE  /\ lo <= u /\ SizeIn(n, u) >= MinBlock /\ u + SizeIn(n, u) <= hi
              /\ u + SizeIn(n, u) < hi =>
                   \/ u + SizeIn(n, u) \in T /\ n[u + SizeIn(n, u)].prev = SizeIn(n, u)
                   \/ n[u + SizeIn(n, u)].own = 0
              /\ n[u].prev # 0 => u - n[u].prev \in T /\ SizeIn(n, u - n[u].prev) = n[u].prev
  <2>1. CASE u = b
    <3> HIDE DEF T
    <3>1. QED BY <1>8, <1>12, <1>13, <2>1 DEF MinBlock
  <2>2. CASE u = b + size /\ size < whole
    <3>1. b \in T
      OBVIOUS
    <3> HIDE DEF T
    <3>2. QED BY <1>9, <1>14, <2>2, <3>1 DEF MinBlock
  <2>3. CASE u \in S /\ u # b
    <3>1. SizeIn(n, u) = SizeIn(m, u) /\ lo <= u /\ SizeIn(m, u) >= 2 /\ u + SizeIn(m, u) <= hi
      BY <1>1, <1>7, <2>3
    <3>2. S \subseteq T
      OBVIOUS
    <3> HIDE DEF T
    <3>3. QED BY <1>11, <2>3, <3>1, <3>2 DEF MinBlock
  <2>4. QED BY <1>15, <2>1, <2>2, <2>3
<1> HIDE DEF T
<1>18. Chained(n, T, lo, hi)
  BY <1>16, <1>17 DEF Chained
<1>19. QED BY <1>18 DEF T

(* free joins the blocks between head and end into one.                    *)
LEMMA ChainJoin ==
  ASSUME NEW S \in SUBSET Units, NEW lo \in Nat, NEW hi \in Nat, hi <= Zone,
         NEW m \in [Units -> Header], Chained(m, S, lo, hi),
         NEW head \in S, NEW x \in S, head <= x, NEW end, end = x + SizeIn(m, x), NEW n,
         n[head].own = head - end /\ n[head].prev = m[head].prev,
         end < hi => n[end].own = m[end].own /\ n[end].prev = end - head,
         \A u \in Units : (u < head \/ end < u) => n[u] = m[u]
  PROVE  Chained(n, S \ (head + 1 .. end - 1), lo, hi)
<1> DEFINE T == S \ (head + 1 .. end - 1)
<1>1. /\ \A u \in S : /\ u \in Nat /\ SizeIn(m, u) \in Nat /\ SizeIn(m, u) >= 2
                      /\ lo <= u /\ u + SizeIn(m, u) <= hi /\ m[u].own # 0
                      /\ m[u].own \in Int /\ m[u].prev \in Nat
      /\ \A u, v \in S : u < v => u + SizeIn(m, u) <= v
  <2> HIDE DEF T
  <2>1. QED BY ONLY HeapAssumption, S \in SUBSET Units, lo \in Nat, hi \in Nat,
                    m \in [Units -> Header], Chained(m, S, lo, hi), ChainNumbers
<1>2. \A u \in S : u + SizeIn(m, u) < hi =>
        \/ u + SizeIn(m, u) \in S /\ m[u + SizeIn(m, u)].prev = SizeIn(m, u)
        \/ m[u + SizeIn(m, u)].own = 0
  BY DEF Chained
<1>3. \A u \in S : m[u].prev # 0 => u - m[u].prev \in S /\ SizeIn(m, u - m[u].prev) = m[u].prev
  BY DEF Chained
<1>4. head \in Nat /\ x \in Nat /\ end \in Nat /\ head + 2 <= end /\ end <= hi /\ lo <= head
  <2>1. x \in Nat /\ SizeIn(m, x) \in Nat /\ SizeIn(m, x) >= 2 /\ x + SizeIn(m, x) <= hi
    BY <1>1
  <2>2. head \in Nat /\ lo <= head
    BY <1>1
  <2>3. QED BY ONLY <2>1, <2>2, head <= x, end = x + SizeIn(m, x), hi \in Nat
<1>5. \A u \in S : u < end => u + SizeIn(m, u) <= end
  <2>1. SUFFICES ASSUME NEW u \in S, u < end PROVE u + SizeIn(m, u) <= end
    OBVIOUS
  <2>2. u \in Nat /\ SizeIn(m, u) \in Nat /\ x + SizeIn(m, x) = end
    BY <1>1
  <2>3. (u < x => u + SizeIn(m, u) <= x) /\ (x < u => end <= u)
    BY <1>1
  <2>4. x <= end
    BY <1>1, <1>4
  <2>5. QED BY <1>4, <2>1, <2>2, <2>3, <2>4
<1>6. SizeIn(n, head) = end - head
  BY <1>4 DEF SizeIn
<1>7. \A u \in T : u \in S /\ (u < head \/ u = head \/ u = end \/ end < u)
  BY <1>1, <1>4
<1>8. \A u \in S : (u < head \/ end <= u) => SizeIn(n, u) = SizeIn(m, u)
  <2>1. ASSUME NEW u \in S, u < head \/ end <= u
        PROVE  n[u].own = m[u].own
    <3>1. u \in Nat /\ u < hi /\ u \in Units
      BY <1>1
    <3>2. QED BY <1>4, <2>1, <3>1
  <2>2. QED BY <2>1 DEF SizeIn
<1>9. head \in T /\ (end \in S => end \in T)
  BY <1>4
<1>10. end < hi => (end \in S \/ m[end].own = 0)
  BY <1>2
<1>11. ASSUME NEW u \in T, u < head \/ end <= u
       PROVE  /\ u + SizeIn(n, u) < hi =>
                   \/ u + SizeIn(n, u) \in T /\ n[u + SizeIn(n, u)].prev = SizeIn(n, u)
                   \/ n[u + SizeIn(n, u)].own = 0
              /\ n[u].prev # 0 => u - n[u].prev \in T /\ SizeIn(n, u - n[u].prev) = n[u].prev
  <2> DEFINE e == u + SizeIn(m, u)
  <2>1. SizeIn(n, u) = SizeIn(m, u) /\ u \in S
    BY <1>7, <1>8, <1>11
  <2>2. u \in Nat /\ e \in Nat /\ u + 2 <= e /\ e <= hi /\ u \in Units
    BY <1>1, <2>1
  <2>3. e <= head \/ end + 2 <= e
    BY <1>1, <1>4, <1>11, <2>1, <2>2
  <2>4. e < hi => (e \in T /\ n[e].prev = SizeIn(m, u)) \/ n[e].own = 0
    <3>1. SUFFICES ASSUME e < hi PROVE (e \in T /\ n[e].prev = SizeIn(m, u)) \/ n[e].own = 0
      OBVIOUS
    <3>2. e \in Units
      BY <2>2, <3>1, ZoneType
    <3>3. (e \in S /\ m[e].prev = SizeIn(m, u)) \/ m[e].own = 0
      BY <1>2, <2>1, <3>1
    <3>4. CASE e = head
      BY <1>1, <1>9, <3>3, <3>4
    <3>5. CASE e # head
      <4>1. e < head \/ end < e
        BY <1>4, <2>2, <2>3, <3>5
      <4>2. n[e] = m[e] /\ e \notin head + 1 .. end - 1
        BY <1>4, <2>2, <3>2, <4>1
      <4>3. QED BY <3>3, <4>2
    <3>6. QED BY <3>4, <3>5
  <2>5. CASE u = end
    <3>1. n[u].prev = end - head /\ u - n[u].prev = head
      BY <1>1, <1>4, <2>1, <2>2, <2>5
    <3>2. QED BY <1>6, <1>9, <2>1, <2>4, <3>1
  <2>6. CASE u # end
    <3>1. n[u] = m[u]
      BY <1>4, <1>11, <2>2, <2>6
    <3>2. ASSUME m[u].prev # 0
          PROVE  u - m[u].prev \in T /\ SizeIn(n, u - m[u].prev) = m[u].prev
      <4> DEFINE v == u - m[u].prev
      <4>1. v \in S /\ SizeIn(m, v) = m[u].prev
        BY <1>3, <2>1, <3>2
      <4>2. v \in Nat /\ v + SizeIn(m, v) = u /\ SizeIn(m, v) \in Nat
        BY <1>1, <2>1, <2>2, <4>1
      <4> HIDE DEF v
      <4>3. v < head \/ end <= v
        BY <1>1, <1>4, <1>5, <1>11, <2>2, <2>6, <4>1, <4>2
      <4>4. v \in T
        BY <1>4, <4>1, <4>2, <4>3
      <4>5. SizeIn(n, v) = m[u].prev
        BY <1>8, <4>1, <4>3
      <4>6. QED BY <4>4, <4>5 DEF v
    <3>3. QED BY <2>1, <2>4, <3>1, <3>2
  <2>7. QED BY <2>5, <2>6
<1>12. n[head].prev # 0 => head - n[head].prev \in T /\ SizeIn(n, head - n[head].prev) = n[head].prev
  <2>1. SUFFICES ASSUME m[head].prev # 0
                 PROVE  head - m[head].prev \in T /\ SizeIn(n, head - m[head].prev) = m[head].prev
    OBVIOUS
  <2> DEFINE v == head - m[head].prev
  <2>2. v \in S /\ SizeIn(m, v) = m[head].prev
    BY <1>3, <2>1
  <2>3. v < head /\ v \in Nat
    BY <1>1, <1>4, <2>1, <2>2
  <2> HIDE DEF v
  <2>4. v \in T /\ SizeIn(n, v) = m[head].prev
    BY <1>4, <1>8, <2>2, <2>3
  <2>5. QED BY <2>4 DEF v
<1>13. /\ lo <= head /\ SizeIn(n, head) >= 2 /\ head + SizeIn(n, head) <= hi
       /\ head + SizeIn(n, head) < hi =>
            \/ head + SizeIn(n, head) \in T /\ n[head + SizeIn(n, head)].prev = SizeIn(n, head)
            \/ n[head + SizeIn(n, head)].own = 0
  <2>1. head + (end - head) = end /\ end - head >= 2
    BY <1>4
  <2>2. QED BY <1>4, <1>6, <1>9, <1>10, <2>1
<1>14. ASSUME NEW u \in T, NEW v \in T, u < v
       PROVE  u + SizeIn(n, u) <= v
  <2>1. u \in Nat /\ v \in Nat /\ u \in S /\ v \in S
    BY <1>1, <1>7
  <2>2. CASE u = head
    BY <1>4, <1>6, <1>7, <1>14, <2>1, <2>2
  <2>3. CASE u # head
    BY <1>1, <1>4, <1>7, <1>8, <2>1, <2>3, <1>14
  <2>4. QED BY <2>2, <2>3
<1>15. ASSUME NEW u \in T
       PROVE  /\ lo <= u /\ SizeIn(n, u) >= MinBlock /\ u + SizeIn(n, u) <= hi
              /\ u + SizeIn(n, u) < hi =>
                   \/ u + SizeIn(n, u) \in T /\ n[u + SizeIn(n, u)].prev = SizeIn(n, u)
                   \/ n[u + SizeIn(n, u)].own = 0
              /\ n[u].prev # 0 => u - n[u].prev \in T /\ SizeIn(n, u - n[u].prev) = n[u].prev
  <2>1. CASE u = head
    <3> HIDE DEF T
    <3>1. QED BY <1>12, <1>13, <2>1 DEF MinBlock
  <2>2. CASE u # head
    <3>1. u < head \/ end <= u
      BY <1>1, <1>4, <1>7, <2>2
    <3>2. SizeIn(n, u) = SizeIn(m, u) /\ lo <= u /\ SizeIn(m, u) >= 2 /\ u + SizeIn(m, u) <= hi
      BY <1>1, <1>7, <1>8, <3>1
    <3> HIDE DEF T
    <3>3. QED BY <1>11, <3>1, <3>2 DEF MinBlock
  <2>3. QED BY <2>1, <2>2
<1> HIDE DEF T
<1>16. Chained(n, T, lo, hi)
  BY <1>14, <1>15 DEF Chained
<1>17. QED BY <1>16 DEF T

-----------------------------------------------------------------------------
(* The live blocks of a pool *)

(* Where the residents are is a placement, and it stays one of any window  *)
(* around the pool.                                                        *)
LEMMA PoolWindow ==
  ASSUME HeapInv, NEW p \in Pools, Exists(p)
  PROVE  /\ TypeOK /\ PoolInv(p) /\ pool[p].first \in Nat /\ pool[p].count \in Nat
         /\ pool[p].first + pool[p].count <= Segments /\ pool[p].count > 0
         /\ Lo(pool[p]) \in Nat /\ Hi(pool[p]) \in Nat /\ Lo(pool[p]) + 2 <= Hi(pool[p])
         /\ Lo(pool[p]) <= Hi(pool[p]) /\ Hi(pool[p]) <= Zone
<1>1. TypeOK /\ PoolInv(p) /\ pool[p].first + pool[p].count <= Segments
  BY DEF HeapInv, PoolInv
<1>2. pool[p].first \in Nat /\ pool[p].count \in Nat /\ pool[p].count > 0
  BY <1>1, PoolTypes DEF Exists
<1>3. QED BY <1>1, <1>2, Windowed

LEMMA HeadFacts ==
  ASSUME HeapInv, NEW p \in Pools, Exists(p)
  PROVE  /\ \A u \in Heads(p) : /\ u \in Units /\ u \in Nat /\ SizeIn(mem, u) \in Nat
                                /\ SizeIn(mem, u) >= 2
                                /\ Lo(pool[p]) <= u /\ u + SizeIn(mem, u) <= Hi(pool[p])
                                /\ mem[u].own # 0
         /\ \A u, v \in Heads(p) : u < v => u + SizeIn(mem, u) <= v
<1>1. /\ Heads(p) \in SUBSET Units /\ Lo(pool[p]) \in Nat /\ Hi(pool[p]) \in Nat
      /\ mem \in [Units -> Header] /\ Chained(mem, Heads(p), Lo(pool[p]), Hi(pool[p]))
  BY PoolWindow, HeadsType DEF TypeOK, Header, PoolInv
<1>2. QED BY ONLY HeapAssumption, <1>1, ChainNumbers

LEMMA BlockFacts ==
  ASSUME HeapInv, NEW p \in Pools, Exists(p), NEW o \in Residents(p)
  PROVE  /\ o \in Objects /\ obj[o].pool = p /\ obj[o].start \in Heads(p)
         /\ obj[o].start \in Nat /\ obj[o].size \in Nat /\ obj[o].size >= 2
         /\ mem[obj[o].start].own = obj[o].size /\ SizeIn(mem, obj[o].start) = obj[o].size
         /\ Lo(pool[p]) <= obj[o].start /\ obj[o].start + obj[o].size <= Hi(pool[p])
<1>1. o \in Objects /\ obj[o].pool = p /\ obj[o].size > 0 /\ TypeOK
  BY DEF Residents, HeapInv
<1>2. obj[o].size \in Nat /\ obj[o].start \in Nat
  BY <1>1, ObjTypes
<1>3. obj[o].start \in Heads(p)
  BY DEF Heads
<1>4. mem[obj[o].start].own = obj[o].size
  BY DEF HeapInv, PoolInv
<1>5. SizeIn(mem, obj[o].start) = obj[o].size
  BY <1>1, <1>2, <1>4 DEF SizeIn
<1>6. /\ SizeIn(mem, obj[o].start) >= 2 /\ Lo(pool[p]) <= obj[o].start
      /\ obj[o].start + SizeIn(mem, obj[o].start) <= Hi(pool[p])
  BY <1>3, HeadFacts
<1>7. QED BY <1>1, <1>2, <1>3, <1>4, <1>5, <1>6

LEMMA BlocksApart ==
  ASSUME HeapInv, NEW p \in Pools, Exists(p), NEW o \in Residents(p), NEW q \in Residents(p),
         obj[q].start < obj[o].start
  PROVE  obj[q].start + obj[q].size <= obj[o].start
<1>1. obj[o].start \in Heads(p)
  BY BlockFacts
<1>2. obj[q].start \in Heads(p) /\ SizeIn(mem, obj[q].start) = obj[q].size
  BY BlockFacts
<1>3. QED BY <1>1, <1>2, HeadFacts

LEMMA PlacedHere ==
  ASSUME HeapInv, NEW p \in Pools, Exists(p)
  PROVE  Placement(Here(Residents(p)), Lo(pool[p]), Hi(pool[p]))
<1> DEFINE R == Residents(p)
<1>1. DOMAIN Here(R) = R /\ R \in SUBSET Objects
  BY DEF Here, Residents
<1>2. \A o \in R : /\ Here(R)[o] = obj[o].start /\ EndIn(Here(R), o) = obj[o].start + obj[o].size
  BY DEF Here, EndIn
<1>3. \A o \in R : /\ obj[o].start \in Nat /\ obj[o].size \in Nat /\ obj[o].size >= 2
                   /\ Lo(pool[p]) <= obj[o].start /\ obj[o].start + obj[o].size <= Hi(pool[p])
  BY BlockFacts
<1>4. \A o, q \in R : o # q =>
        \/ obj[o].start + obj[o].size <= obj[q].start
        \/ obj[q].start + obj[q].size <= obj[o].start
  <2>1. SUFFICES ASSUME NEW o \in R, NEW q \in R, o # q
                 PROVE  \/ obj[o].start + obj[o].size <= obj[q].start
                        \/ obj[q].start + obj[q].size <= obj[o].start
    OBVIOUS
  <2>2. obj[o].start # obj[q].start
    BY <2>1 DEF HeapInv, PoolInv
  <2>3. CASE obj[q].start < obj[o].start
    BY <2>3, BlocksApart
  <2>4. CASE obj[o].start < obj[q].start
    BY <2>4, BlocksApart
  <2>5. QED BY <1>3, <2>2, <2>3, <2>4
<1> HIDE DEF R
<1>5. QED BY <1>1, <1>2, <1>3, <1>4 DEF Placement, MinBlock, R

-----------------------------------------------------------------------------
(* What the audits and free() read *)

LEMMA LinkFacts ==
  ASSUME HeapInv, NEW p \in Pools, Exists(p), NEW u \in Heads(p)
  PROVE  /\ mem[u].prev \in Nat
         /\ mem[u].prev # 0 =>
              /\ u - mem[u].prev \in Heads(p) /\ SizeIn(mem, u - mem[u].prev) = mem[u].prev
              /\ mem[u].prev >= 2 /\ mem[u].prev <= u - Lo(pool[p])
         /\ u + SizeIn(mem, u) < Hi(pool[p]) =>
              \/ /\ u + SizeIn(mem, u) \in Heads(p)
                 /\ mem[u + SizeIn(mem, u)].prev = SizeIn(mem, u)
              \/ mem[u + SizeIn(mem, u)].own = 0
<1>1. TypeOK /\ Chained(mem, Heads(p), Lo(pool[p]), Hi(pool[p])) /\ Lo(pool[p]) \in Nat
  BY PoolWindow DEF PoolInv
<1>2. u \in Nat /\ u \in Units
  BY HeadFacts
<1>3. mem[u].prev \in Nat
  BY <1>1, <1>2, MemTypes
<1>4. mem[u].prev # 0 =>
        u - mem[u].prev \in Heads(p) /\ SizeIn(mem, u - mem[u].prev) = mem[u].prev
  BY <1>1 DEF Chained
<1>5. u + SizeIn(mem, u) < Hi(pool[p]) =>
        \/ u + SizeIn(mem, u) \in Heads(p) /\ mem[u + SizeIn(mem, u)].prev = SizeIn(mem, u)
        \/ mem[u + SizeIn(mem, u)].own = 0
  BY <1>1 DEF Chained
<1>6. mem[u].prev # 0 => mem[u].prev >= 2 /\ mem[u].prev <= u - Lo(pool[p])
  <2>1. SUFFICES ASSUME mem[u].prev # 0
                 PROVE  mem[u].prev >= 2 /\ mem[u].prev <= u - Lo(pool[p])
    OBVIOUS
  <2> DEFINE v == u - mem[u].prev
  <2>2. v \in Heads(p) /\ SizeIn(mem, v) = mem[u].prev
    BY <1>4, <2>1
  <2> HIDE DEF v
  <2>3. SizeIn(mem, v) >= 2 /\ Lo(pool[p]) <= v
    BY <2>2, HeadFacts
  <2>4. QED BY <1>1, <1>2, <1>3, <2>2, <2>3 DEF v
<1>7. QED BY <1>3, <1>4, <1>5, <1>6

LEMMA AuditsPass ==
  ASSUME HeapInv, NEW p \in Pools, Exists(p)
  PROVE  Precheck(p) /\ AuditBins(p)
<1>1. TypeOK /\ PoolInv(p) /\ Residents(p) \in SUBSET Objects
  BY PoolWindow, HeadsType
<1>2. Precheck(p)
  <2>1. \A o \in Residents(p) :
          /\ obj[o].size >= 2 /\ Lo(pool[p]) <= obj[o].start
          /\ obj[o].start + obj[o].size <= Hi(pool[p])
          /\ mem[obj[o].start].own = obj[o].size
    BY BlockFacts
  <2>2. \A o, q \in Residents(p) :
          obj[q].start < obj[o].start => obj[q].start + obj[q].size <= obj[o].start
    BY BlocksApart
  <2>3. Cardinality(Residents(p)) = pool[p].live
    BY <1>1 DEF PoolInv
  <2>4. UnitsOf(Residents(p)) = pool[p].used
    BY <1>1, UnitsSum DEF PoolInv
  <2>5. QED BY <2>1, <2>2, <2>3, <2>4 DEF Precheck, MinBlock
<1>3. AuditBins(p)
  <2>1. ASSUME NEW b \in pool[p].bins
        PROVE  /\ IsFree(b) /\ SizeAt(b) >= MinBlock /\ Lo(pool[p]) <= b
               /\ b + SizeAt(b) <= Hi(pool[p]) /\ PrevLinkOk(b, Lo(pool[p]))
    <3>1. b \in Heads(p) /\ IsFree(b)
      BY <1>1 DEF Heads, PoolInv
    <3>2. SizeAt(b) = SizeIn(mem, b)
      BY DEF SizeAt, SizeIn, IsFree
    <3>3. SizeIn(mem, b) >= 2 /\ Lo(pool[p]) <= b /\ b + SizeIn(mem, b) <= Hi(pool[p])
      BY <3>1, HeadFacts
    <3>4. /\ mem[b].prev # 0 =>
               /\ SizeIn(mem, b - mem[b].prev) = mem[b].prev
               /\ mem[b].prev >= 2 /\ mem[b].prev <= b - Lo(pool[p])
      BY <3>1, LinkFacts
    <3>5. PrevLinkOk(b, Lo(pool[p]))
      BY <3>4 DEF PrevLinkOk, SizeAt, SizeIn, IsFree, MinBlock
    <3>6. QED BY <3>1, <3>2, <3>3, <3>5 DEF MinBlock
  <2>2. QED BY <2>1 DEF AuditBins
<1>4. QED BY <1>2, <1>3

(* A head is binned exactly when its header says free. *)
LEMMA FreeHead ==
  ASSUME HeapInv, NEW p \in Pools, Exists(p), NEW u \in Heads(p)
  PROVE  IsFree(u) <=> u \in pool[p].bins
<1>1. u \in pool[p].bins => IsFree(u)
  BY DEF HeapInv, PoolInv
<1>2. u \in pool[p].bins \/ \E o \in Residents(p) : u = obj[o].start
  BY DEF Heads
<1>3. \A o \in Residents(p) : mem[obj[o].start].own = obj[o].size /\ obj[o].size \in Nat
  BY BlockFacts
<1>4. QED BY <1>1, <1>2, <1>3 DEF IsFree

LEMMA NeighboursHold ==
  ASSUME HeapInv
  PROVE  FreeFindsNeighbours
<1>1. ASSUME NEW o \in Objects, obj[o].size > 0
      PROVE  VerifyNeighbours(o)
  <2> DEFINE p == obj[o].pool
             b == obj[o].start
             back == mem[b].prev
             fwd == b + obj[o].size
  <2>1. p \in Pools /\ Exists(p) /\ o \in Residents(p) /\ TypeOK
    <3>1. TypeOK /\ Exists(p)
      BY <1>1 DEF HeapInv
    <3>2. QED BY <1>1, <3>1, ObjTypes DEF Residents
  <2>2. /\ b \in Heads(p) /\ b \in Nat /\ mem[b].own = obj[o].size
        /\ SizeIn(mem, b) = obj[o].size
    BY <2>1, BlockFacts
  <2>3. \/ back = 0
        \/ /\ back >= 2 /\ back <= b - Lo(pool[p])
           /\ SizeIn(mem, b - back) = back /\ b - back \in Heads(p)
    BY <2>1, <2>2, LinkFacts
  <2>4. b - back \in Heads(p) => (IsFree(b - back) => b - back \in pool[p].bins)
    BY <2>1, FreeHead
  <2>5. SizeAt(b - back) = SizeIn(mem, b - back)
    BY DEF SizeAt, SizeIn, IsFree
  <2>6. ASSUME fwd < Hi(pool[p]), IsFree(fwd)
        PROVE  SizeAt(fwd) >= 2 /\ SizeAt(fwd) <= Hi(pool[p]) - fwd /\ fwd \in pool[p].bins
    <3>1. fwd \in Heads(p) \/ mem[fwd].own = 0
      BY <2>1, <2>2, <2>6, LinkFacts
    <3>2. mem[fwd].own # 0
      BY <2>6 DEF IsFree
    <3>3. fwd \in Heads(p) /\ SizeAt(fwd) = SizeIn(mem, fwd)
      BY <3>1, <3>2 DEF SizeAt, SizeIn, IsFree
    <3> HIDE DEF fwd
    <3>4. /\ SizeIn(mem, fwd) >= 2 /\ fwd + SizeIn(mem, fwd) <= Hi(pool[p]) /\ fwd \in Nat
          /\ SizeIn(mem, fwd) \in Nat
      BY <2>1, <3>3, HeadFacts
    <3>5. fwd \in pool[p].bins
      BY <2>1, <2>6, <3>3, FreeHead
    <3>6. Hi(pool[p]) \in Nat
      BY <2>1, PoolWindow
    <3>7. QED BY <3>3, <3>4, <3>5, <3>6
  <2> HIDE DEF p, b, back, fwd
  <2>7. QED BY <2>2, <2>3, <2>4, <2>5, <2>6 DEF VerifyNeighbours, MinBlock, p, b, back, fwd
<1>2. ASSUME NEW p \in Pools, Exists(p),
             NEW b \in pool[p].bins \cup {obj[o].start : o \in Residents(p)},
             b + SizeAt(b) < Hi(pool[p])
      PROVE  /\ mem[b + SizeAt(b)].own # Junk
             /\ mem[b + SizeAt(b)].own # 0 => mem[b + SizeAt(b)].prev = SizeAt(b)
  <2> DEFINE next == b + SizeAt(b)
  <2>1. b \in Heads(p) /\ SizeAt(b) = SizeIn(mem, b)
    BY DEF Heads, SizeAt, SizeIn, IsFree
  <2>2. (next \in Heads(p) /\ mem[next].prev = SizeAt(b)) \/ mem[next].own = 0
    BY <1>2, <2>1, LinkFacts
  <2>3. Zone \in Nat /\ Junk = Zone + 1
    BY ZoneType
  <2> HIDE DEF next
  <2>4. CASE next \in Heads(p)
    <3>1. SizeIn(mem, next) \in Nat /\ next + SizeIn(mem, next) <= Hi(pool[p]) /\ next \in Nat
      BY <1>2, <2>4, HeadFacts
    <3>2. Hi(pool[p]) <= Zone /\ Hi(pool[p]) \in Nat
      BY <1>2, PoolWindow
    <3>3. mem[next].own # Junk
      BY <2>3, <3>1, <3>2 DEF SizeIn
    <3>4. QED BY <2>2, <3>3 DEF next
  <2>5. CASE mem[next].own = 0
    BY <2>3, <2>5 DEF next
  <2>6. QED BY <2>2, <2>4, <2>5
<1>3. QED BY <1>1, <1>2 DEF FreeFindsNeighbours

-----------------------------------------------------------------------------
(* Each operation keeps the invariant *)

Descriptor == [pool : Pools, start : Units, size : 0 .. Zone, pinned : BOOLEAN]

LEMMA TypeParts ==
  TypeOK <=> /\ pool \in [Pools -> PoolRecord]
             /\ obj \in [Objects -> Descriptor]
             /\ mem \in [Units -> Header]
  BY DEF TypeOK, PoolRecord, Descriptor

LEMMA NoBlocksPlaced ==
  ASSUME NEW lo, NEW hi
  PROVE  Placement(NoBlocks, lo, hi) /\ DOMAIN NoBlocks = {}
  BY DEF Placement, NoBlocks

LEMMA OtherWindow ==
  ASSUME TypeOK, NEW q \in Pools, pool[q].first + pool[q].count <= Segments,
         NEW P, P.first \in Nat, P.count \in Nat, P.first + P.count <= Segments, Apart(P, pool[q]),
         NEW u \in Units, Lo(pool[q]) <= u, u < Hi(pool[q])
  PROVE  u < Lo(P) \/ Hi(P) <= u
<1>1. pool[q].first \in Nat /\ pool[q].count \in Nat /\ u \in Nat
  <2>1. pool[q].first \in Nat /\ pool[q].count \in Nat
    BY PoolTypes
  <2>2. u \in Nat
    BY ZoneType
  <2>3. QED BY <2>1, <2>2
<1>2. Lo(P) \in Nat /\ Hi(P) \in Nat
  BY Windowed
<1>3. Lo(pool[q]) \in Nat /\ Hi(pool[q]) \in Nat
  BY <1>1, Windowed
<1>4. Hi(P) <= Lo(pool[q]) \/ Hi(pool[q]) <= Lo(P)
  BY <1>1, WindowsApart
<1>5. QED BY <1>1, <1>2, <1>3, <1>4

LEMMA CreateKeeps ==
  ASSUME HeapInv, NEW n \in 1 .. Segments, CreatePool(n)
  PROVE  HeapInv'
<1>1. PICK p \in Pools, base \in 0 .. Segments - n :
        /\ FirstEmpty(p)
        /\ FreeSegments(base, n)
        /\ LET P == [EmptyPool EXCEPT !.first = base, !.count = n] IN
           /\ pool' = [pool EXCEPT ![p] = FinalPool(P, NoBlocks)]
           /\ mem'  = FinalMem(mem, NoBlocks, Lo(P), Hi(P))
        /\ UNCHANGED obj
  BY DEF CreatePool
<1> DEFINE P == [EmptyPool EXCEPT !.first = base, !.count = n]
<1>2. TypeOK /\ pool \in [Pools -> PoolRecord] /\ obj \in [Objects -> Descriptor]
      /\ mem \in [Units -> Header] /\ ~Exists(p)
  BY <1>1, TypeParts DEF HeapInv, FirstEmpty
<1>3. /\ Segments \in Nat /\ n \in Nat /\ base \in Nat /\ n > 0 /\ base + n <= Segments
      /\ P.first = base /\ P.count = n /\ P \in PoolRecord
  <2>1. Segments \in Nat /\ n \in Nat /\ base \in Nat /\ n > 0 /\ base + n <= Segments
        /\ base \in 0 .. Segments /\ n \in 0 .. Segments
    BY HeapAssumption
  <2>2. 0 \in 0 .. Zone /\ 0 \in 0 .. Cardinality(Objects)
    BY ZoneType, HeapAssumption, FS_CardinalityType
  <2>3. QED BY <2>1, <2>2 DEF PoolRecord, EmptyPool
<1> HIDE DEF P
<1>4. Lo(P) \in Nat /\ Hi(P) \in Nat /\ Lo(P) <= Hi(P) /\ Hi(P) <= Zone
  BY <1>3, Windowed
<1>5. Placement(NoBlocks, Lo(P), Hi(P)) /\ DOMAIN NoBlocks = {}
  BY NoBlocksPlaced
<1> DEFINE F == FinalPool(P, NoBlocks)
           M == FinalMem(mem, NoBlocks, Lo(P), Hi(P))
<1>6. pool' = [pool EXCEPT ![p] = F] /\ mem' = M /\ obj' = obj
  BY <1>1 DEF P
<1>7. /\ F \in PoolRecord /\ F.first = base /\ F.count = n
      /\ F.used = Total(Sizes, DOMAIN NoBlocks) /\ F.live = Cardinality(DOMAIN NoBlocks)
      /\ F.bins = {h.from : h \in FreeRuns(NoBlocks, Lo(P), Hi(P))}
      /\ F.fragment = SlackLength(NoBlocks, Lo(P), Hi(P))
  BY <1>2, <1>3, <1>5, FinalPoolIs
<1>8. M \in [Units -> Header]
  BY <1>2, <1>4, <1>5, FinalType
<1>9. \A q \in Pools \ {p} : pool'[q] = pool[q]
  BY <1>2, <1>6
<1>10. pool'[p] = F
  BY <1>2, <1>6
<1> HIDE DEF F, M
<1>11. TypeOK'
  <2>1. pool' \in [Pools -> PoolRecord]
    BY <1>2, <1>6, <1>7
  <2>2. obj' \in [Objects -> Descriptor] /\ mem' \in [Units -> Header]
    BY <1>2, <1>6, <1>8
  <2>3. QED BY <2>1, <2>2 DEF TypeOK, PoolRecord, Descriptor, Header
<1>12. ASSUME NEW q \in Pools, q # p, Exists(q)
       PROVE  Apart(P, pool[q])
  <2>1. /\ pool[q].first \in Nat /\ pool[q].count \in Nat /\ pool[q].count > 0
    BY <1>2, <1>12, PoolTypes DEF Exists
  <2>2. \A s \in base .. base + n - 1 : ~(s \in pool[q].first .. pool[q].first + pool[q].count - 1)
    BY <1>1, <1>12 DEF FreeSegments, SegmentUsed
  <2>3. base \notin pool[q].first .. pool[q].first + pool[q].count - 1
    BY <1>3, <2>2
  <2>4. pool[q].first \notin base .. base + n - 1
    BY <2>1, <2>2
  <2>5. QED BY <1>3, <2>1, <2>3, <2>4 DEF Apart
<1>13. \A q \in Pools \ {p} :
         /\ pool'[q] = pool[q] /\ Residents(q)' = Residents(q)
         /\ \A o \in Residents(q) : obj'[o].start = obj[o].start /\ obj'[o].size = obj[o].size
  BY <1>6, <1>9 DEF Residents
<1>14. \A q \in Pools \ {p} : Exists(q) =>
         \A u \in Units : Lo(pool[q]) <= u /\ u < Hi(pool[q]) => mem'[u] = mem[u]
  <2>1. SUFFICES ASSUME NEW q \in Pools \ {p}, Exists(q), NEW u \in Units,
                        Lo(pool[q]) <= u, u < Hi(pool[q])
                 PROVE  mem'[u] = mem[u]
    OBVIOUS
  <2>2. pool[q].first + pool[q].count <= Segments
    BY <2>1 DEF HeapInv, PoolInv
  <2>3. u < Lo(P) \/ Hi(P) <= u
    BY <1>2, <1>3, <1>12, <2>1, <2>2, OtherWindow
  <2>4. QED BY <1>4, <1>6, <2>3, FinalOutside DEF M
<1>15. PoolInv(p)'
  <2>1. Residents(p)' = DOMAIN NoBlocks
    <3>1. \A o \in Objects : obj[o].size > 0 => obj[o].pool # p
      BY <1>2 DEF HeapInv
    <3>2. QED BY <1>5, <1>6, <3>1 DEF Residents
  <2>2. /\ pool'[p].first = P.first /\ pool'[p].count = P.count
        /\ pool'[p].used = Total(Sizes, DOMAIN NoBlocks)
        /\ pool'[p].live = Cardinality(DOMAIN NoBlocks)
        /\ pool'[p].bins = {h.from : h \in FreeRuns(NoBlocks, Lo(P), Hi(P))}
        /\ pool'[p].fragment = SlackLength(NoBlocks, Lo(P), Hi(P))
    BY <1>3, <1>7, <1>10
  <2>3. \A o \in DOMAIN NoBlocks : obj'[o].start = NoBlocks[o] /\ obj'[o].size = obj[o].size
    BY <1>5
  <2>4. \A u \in Units : Lo(P) <= u /\ u < Hi(P) => mem'[u] = FinalMem(mem, NoBlocks, Lo(P), Hi(P))[u]
    BY <1>6 DEF M
  <2>5. P.first + P.count <= Segments
    BY <1>3
  <2>6. TypeOK /\ P \in PoolRecord /\ Placement(NoBlocks, Lo(P), Hi(P)) /\ mem \in [Units -> Header]
    BY <1>2, <1>3, <1>5
  <2>7. QED BY ONLY p \in Pools, <2>1, <2>2, <2>3, <2>4, <2>5, <2>6, Settles
<1>16. \A r \in {p}, q \in Pools : r # q /\ Exists(r)' /\ Exists(q)' => Apart(pool'[r], pool'[q])
  <2>1. ASSUME NEW q \in Pools, q # p, Exists(q)'
        PROVE  Apart(pool'[p], pool'[q])
    <3>1. pool'[q] = pool[q] /\ Exists(q)
      BY <1>9, <2>1 DEF Exists
    <3>2. QED BY <1>3, <1>7, <1>10, <1>12, <2>1, <3>1 DEF Apart
  <2>2. QED BY <2>1
<1>17. \A o \in Objects : obj'[o].size > 0 => pool'[obj'[o].pool].count > 0
  <2>1. SUFFICES ASSUME NEW o \in Objects, obj[o].size > 0 PROVE pool'[obj[o].pool].count > 0
    BY <1>6
  <2>2. pool[obj[o].pool].count > 0 /\ obj[o].pool \in Pools
    BY <1>2, <2>1, ObjTypes DEF HeapInv, Exists
  <2>3. QED BY <1>2, <1>9, <2>2 DEF Exists
<1>18. QED
  <2>1. {p} \in SUBSET Pools
    OBVIOUS
  <2>2. \A r \in {p} : Exists(r)' => PoolInv(r)'
    BY <1>15
  <2>3. QED BY <1>11, <1>13, <1>14, <1>16, <1>17, <2>1, <2>2, HeapKept

LEMMA EmptyTypes ==
  /\ EmptyPool \in PoolRecord /\ EmptyPool.count = 0 /\ EmptyPool.first = 0
  /\ Stale \in Header
<1>1. 0 \in 0 .. Zone /\ 0 \in 0 .. Segments /\ Junk \in 0 .. Junk /\ Junk \in -Zone .. Junk
  BY ZoneType, HeapAssumption
<1>2. 0 \in 0 .. Cardinality(Objects)
  BY HeapAssumption, FS_CardinalityType
<1>3. QED BY <1>1, <1>2 DEF EmptyPool, PoolRecord, Stale, Header

LEMMA DestroyKeeps ==
  ASSUME HeapInv, NEW p \in Pools, DestroyPool(p)
  PROVE  HeapInv'
<1>1. /\ Exists(p) /\ pool[p].live = 0
      /\ pool' = [pool EXCEPT ![p] = EmptyPool]
      /\ mem'  = [u \in Units |-> IF u \in Lo(pool[p]) .. Hi(pool[p]) - 1 THEN Stale ELSE mem[u]]
      /\ obj' = obj
  BY DEF DestroyPool
<1>2. TypeOK /\ pool \in [Pools -> PoolRecord] /\ obj \in [Objects -> Descriptor]
      /\ mem \in [Units -> Header]
  BY TypeParts DEF HeapInv
<1>3. TypeOK'
  <2>1. pool' \in [Pools -> PoolRecord] /\ mem' \in [Units -> Header]
    BY <1>1, <1>2, EmptyTypes
  <2>2. QED BY <1>1, <1>2, <2>1 DEF TypeOK, PoolRecord, Descriptor, Header
<1>4. pool'[p].count = 0 /\ \A q \in Pools \ {p} : pool'[q] = pool[q]
  BY <1>1, <1>2, EmptyTypes
<1>5. ~Exists(p)'
  BY <1>4 DEF Exists
<1>6. \A o \in Objects : obj[o].size > 0 => obj[o].pool # p
  <2>1. Residents(p) \in SUBSET Objects
    BY DEF Residents
  <2>2. Cardinality(Residents(p)) = 0
    BY <1>1 DEF HeapInv, PoolInv
  <2>3. Residents(p) = {}
    BY <1>2, <2>1, <2>2, SizesType, FS_EmptySet
  <2>4. QED BY <2>3 DEF Residents
<1>7. \A q \in Pools \ {p} :
         /\ pool'[q] = pool[q] /\ Residents(q)' = Residents(q)
         /\ \A o \in Residents(q) : obj'[o].start = obj[o].start /\ obj'[o].size = obj[o].size
  BY <1>1, <1>4 DEF Residents
<1>8. \A q \in Pools \ {p} : Exists(q) =>
         \A u \in Units : Lo(pool[q]) <= u /\ u < Hi(pool[q]) => mem'[u] = mem[u]
  <2>1. SUFFICES ASSUME NEW q \in Pools \ {p}, Exists(q), NEW u \in Units,
                        Lo(pool[q]) <= u, u < Hi(pool[q])
                 PROVE  mem'[u] = mem[u]
    OBVIOUS
  <2>2. pool[q].first + pool[q].count <= Segments
    BY <2>1 DEF HeapInv, PoolInv
  <2>3. /\ pool[p].first \in Nat /\ pool[p].count \in Nat /\ pool[p].first + pool[p].count <= Segments
        /\ Lo(pool[p]) \in Nat /\ Hi(pool[p]) \in Nat
    BY <1>1, PoolWindow
  <2>4. Apart(pool[p], pool[q])
    BY <1>1, <2>1 DEF HeapInv
  <2>5. u < Lo(pool[p]) \/ Hi(pool[p]) <= u
    BY <1>2, <2>1, <2>2, <2>3, <2>4, OtherWindow
  <2>6. u \in Nat
    BY ZoneType
  <2>7. QED BY <1>1, <2>3, <2>5, <2>6
<1>9. \A o \in Objects : obj'[o].size > 0 => pool'[obj'[o].pool].count > 0
  <2>1. SUFFICES ASSUME NEW o \in Objects, obj[o].size > 0 PROVE pool'[obj[o].pool].count > 0
    BY <1>1
  <2>2. pool[obj[o].pool].count > 0 /\ obj[o].pool \in Pools
    BY <1>2, <2>1, ObjTypes DEF HeapInv, Exists
  <2>3. QED BY <1>4, <1>6, <2>1, <2>2
<1>10. QED
  <2>1. {p} \in SUBSET Pools
    OBVIOUS
  <2>2. \A r \in {p} : Exists(r)' => PoolInv(r)'
    BY <1>5
  <2>3. \A r \in {p}, q \in Pools : r # q /\ Exists(r)' /\ Exists(q)' => Apart(pool'[r], pool'[q])
    BY <1>5
  <2>4. QED BY <1>3, <1>7, <1>8, <1>9, <2>1, <2>2, <2>3, HeapKept

(* A step inside the window of one pool. *)
LEMMA InPlace ==
  ASSUME HeapInv, TypeOK', NEW p \in Pools, Exists(p),
         \A q \in Pools : q # p => pool'[q] = pool[q],
         pool'[p].first = pool[p].first, pool'[p].count = pool[p].count,
         \A u \in Units : u < Lo(pool[p]) \/ Hi(pool[p]) <= u => mem'[u] = mem[u],
         \A o \in Objects : \/ obj'[o] = obj[o]
                            \/ /\ obj[o].size = 0 \/ obj[o].pool = p
                               /\ obj'[o].size = 0 \/ obj'[o].pool = p,
         PoolInv(p)'
  PROVE  HeapInv'
<1>1. TypeOK /\ pool'[p].count > 0 /\ pool[p].count > 0
  BY DEF HeapInv, Exists
<1>2. \A q \in Pools \ {p} :
         /\ pool'[q] = pool[q] /\ Residents(q)' = Residents(q)
         /\ \A o \in Residents(q) : obj'[o].start = obj[o].start /\ obj'[o].size = obj[o].size
  <2>1. SUFFICES ASSUME NEW q \in Pools \ {p}
                 PROVE  /\ Residents(q)' = Residents(q)
                        /\ \A o \in Residents(q) : obj'[o] = obj[o]
    OBVIOUS
  <2>2. \A o \in Residents(q) : obj'[o] = obj[o]
    BY DEF Residents
  <2>3. \A o \in Residents(q)' : obj'[o] = obj[o]
    BY DEF Residents
  <2>4. QED BY <2>2, <2>3 DEF Residents
<1>3. \A q \in Pools \ {p} : Exists(q) =>
         \A u \in Units : Lo(pool[q]) <= u /\ u < Hi(pool[q]) => mem'[u] = mem[u]
  <2>1. SUFFICES ASSUME NEW q \in Pools \ {p}, Exists(q), NEW u \in Units,
                        Lo(pool[q]) <= u, u < Hi(pool[q])
                 PROVE  mem'[u] = mem[u]
    OBVIOUS
  <2>2. pool[q].first + pool[q].count <= Segments
    BY <2>1 DEF HeapInv, PoolInv
  <2>3. /\ pool[p].first \in Nat /\ pool[p].count \in Nat
        /\ pool[p].first + pool[p].count <= Segments
    BY PoolWindow
  <2>4. Apart(pool[p], pool[q])
    BY <2>1 DEF HeapInv
  <2>5. u < Lo(pool[p]) \/ Hi(pool[p]) <= u
    BY <1>1, <2>1, <2>2, <2>3, <2>4, OtherWindow
  <2>6. QED BY <2>5
<1>4. \A r \in {p}, q \in Pools : r # q /\ Exists(r)' /\ Exists(q)' => Apart(pool'[r], pool'[q])
  <2>1. ASSUME NEW q \in Pools, q # p, Exists(q)'
        PROVE  Apart(pool'[p], pool'[q])
    <3>1. pool'[q] = pool[q] /\ Exists(q)
      BY <2>1 DEF Exists
    <3>2. Apart(pool[p], pool[q])
      BY <2>1, <3>1 DEF HeapInv
    <3>3. QED BY <3>1, <3>2 DEF Apart
  <2>2. QED BY <2>1
<1>5. \A o \in Objects : obj'[o].size > 0 => pool'[obj'[o].pool].count > 0
  <2>1. SUFFICES ASSUME NEW o \in Objects, obj'[o].size > 0 PROVE pool'[obj'[o].pool].count > 0
    OBVIOUS
  <2>2. CASE obj'[o] = obj[o]
    <3>1. pool[obj[o].pool].count > 0 /\ obj[o].pool \in Pools
      BY <1>1, <2>1, <2>2, ObjTypes DEF HeapInv, Exists
    <3>2. QED BY <1>1, <2>2, <3>1
  <2>3. CASE obj'[o].size = 0 \/ obj'[o].pool = p
    BY <1>1, <2>1, <2>3
  <2>4. QED BY <2>2, <2>3
<1>6. QED
  <2>1. {p} \in SUBSET Pools
    OBVIOUS
  <2>2. \A r \in {p} : Exists(r)' => PoolInv(r)'
    OBVIOUS
  <2>3. QED BY <1>2, <1>3, <1>4, <1>5, <2>1, <2>2, HeapKept

LEMMA MaxOfTwo ==
  ASSUME NEW a \in Nat, NEW b \in Nat
  PROVE  Max({a, b}) \in Nat /\ Max({a, b}) >= a /\ Max({a, b}) >= b
<1>1. \E x \in {a, b} : \A y \in {a, b} : x >= y
  <2>1. CASE a >= b
    BY <2>1
  <2>2. CASE ~(a >= b)
    BY <2>2
  <2>3. QED BY <2>1, <2>2
<1>2. Max({a, b}) \in {a, b} /\ \A y \in {a, b} : Max({a, b}) >= y
  BY <1>1 DEF Max
<1>3. QED BY <1>2

LEMMA AllocKeeps ==
  ASSUME HeapInv, NEW p \in Pools, NEW o \in Objects, NEW payload \in Payloads,
         NEW pinned \in BOOLEAN, Alloc(p, o, payload, pinned)
  PROVE  HeapInv'
<1>1. Exists(p) /\ obj[o].size = 0
  BY DEF Alloc
<1>2. PICK b \in pool[p].bins, size \in Nat :
        LET whole == SizeIn(mem, b) IN
        /\ b \in Heads(p) /\ mem[b].own < 0
        /\ size >= 2 /\ (size = whole \/ size + 2 <= whole)
        /\ mem' = AllocMem(b, whole, size, Hi(pool[p]))
        /\ obj' = [obj EXCEPT ![o] = [pool |-> p, start |-> b, size |-> size,
                                      pinned |-> pinned]]
        /\ pool' = [pool EXCEPT
                      ![p].used = @ + size, ![p].live = @ + 1,
                      ![p].bins = (@ \ {b}) \cup (IF size < whole THEN {b + size} ELSE {})]
  <2> DEFINE need == Max({payload + 1, MinBlock})
  <2>1. need \in Nat /\ need >= 2
    <3>1. payload + 1 \in Nat /\ MinBlock \in Nat /\ MinBlock = 2
      BY HeapAssumption DEF MinBlock
    <3>2. QED BY <3>1, MaxOfTwo
  <2> HIDE DEF need
  <2>2. Exists(p) /\ obj[o].size = 0
    BY DEF Alloc
  <2>3. PICK b \in BinsFind(p, need) :
         LET whole == SizeAt(b)
             size  == IF whole - need >= MinBlock THEN need ELSE whole
         IN /\ mem' = AllocMem(b, whole, size, Hi(pool[p]))
            /\ obj' = [obj EXCEPT ![o] = [pool |-> p, start |-> b, size |-> size,
                                          pinned |-> pinned]]
            /\ pool' = [pool EXCEPT ![p].used = @ + size, ![p].live = @ + 1,
                          ![p].bins = (@ \ {b}) \cup (IF size < whole THEN {b + size} ELSE {})]
    BY DEF Alloc, need
  <2>4. b \in pool[p].bins /\ SizeAt(b) >= need /\ b \in Heads(p)
    BY DEF BinsFind, Heads
  <2>5. SizeAt(b) = SizeIn(mem, b) /\ mem[b].own < 0
    BY <2>2, <2>4 DEF SizeAt, SizeIn, IsFree, HeapInv, PoolInv
  <2>6. SizeIn(mem, b) \in Nat
    BY <2>2, <2>4, HeadFacts
  <2> DEFINE whole == SizeIn(mem, b)
             size  == IF whole - need >= MinBlock THEN need ELSE whole
  <2>7. size \in Nat /\ size >= 2 /\ (size = whole \/ size + 2 <= whole)
    BY <2>1, <2>4, <2>5, <2>6 DEF MinBlock
  <2>8. /\ mem' = AllocMem(b, whole, size, Hi(pool[p]))
        /\ obj' = [obj EXCEPT ![o] = [pool |-> p, start |-> b, size |-> size,
                                      pinned |-> pinned]]
        /\ pool' = [pool EXCEPT ![p].used = @ + size, ![p].live = @ + 1,
                      ![p].bins = (@ \ {b}) \cup (IF size < whole THEN {b + size} ELSE {})]
    BY <2>3, <2>5
  <2> HIDE DEF size
  <2>9. QED BY <2>2, <2>4, <2>5, <2>7, <2>8
<1> DEFINE whole == SizeIn(mem, b)
           lo == Lo(pool[p])
           hi == Hi(pool[p])
           rest == IF size < whole THEN {b + size} ELSE {}
           S == Heads(p)
           R == Residents(p)
<1>3. TypeOK /\ pool \in [Pools -> PoolRecord] /\ obj \in [Objects -> Descriptor]
      /\ mem \in [Units -> Header]
  BY TypeParts DEF HeapInv
<1>4. /\ lo \in Nat /\ hi \in Nat /\ hi <= Zone /\ lo <= hi
      /\ Chained(mem, S, lo, hi)
      /\ pool[p].live = Cardinality(R) /\ pool[p].used = Total(Sizes, R)
      /\ \A c \in pool[p].bins : mem[c].own < 0
      /\ pool[p].first \in Nat /\ pool[p].count \in Nat /\ pool[p].first + pool[p].count <= Segments
  <2>1. /\ PoolInv(p) /\ Lo(pool[p]) \in Nat /\ Hi(pool[p]) \in Nat /\ Hi(pool[p]) <= Zone
        /\ Lo(pool[p]) <= Hi(pool[p])
        /\ pool[p].first \in Nat /\ pool[p].count \in Nat
    BY <1>1, PoolWindow
  <2>2. QED BY <2>1 DEF PoolInv, IsFree
<1>5. \A u \in S : /\ u \in Units /\ u \in Nat /\ SizeIn(mem, u) \in Nat /\ SizeIn(mem, u) >= 2
                   /\ lo <= u /\ u + SizeIn(mem, u) <= hi
  BY <1>1, HeadFacts
<1>6. \A u, v \in S : u < v => u + SizeIn(mem, u) <= v
  BY <1>1, HeadFacts
<1>7. /\ b \in S /\ b \in Nat /\ b \in Units /\ whole \in Nat /\ b + whole <= hi /\ lo <= b
      /\ size >= 2 /\ size <= whole /\ (size = whole \/ size + 2 <= whole)
  BY <1>2, <1>5
<1>8. S \in SUBSET Units /\ R \in SUBSET Objects
  BY <1>3, HeadsType
<1>9. mem' = AllocMem(b, whole, size, hi)
  BY <1>2
<1>10. /\ obj' = [obj EXCEPT ![o] = [pool |-> p, start |-> b, size |-> size, pinned |-> pinned]]
       /\ pool' = [pool EXCEPT ![p].used = @ + size, ![p].live = @ + 1,
                               ![p].bins = (@ \ {b}) \cup rest]
  BY <1>2
<1>11. \A c \in R : obj[c].start \in S /\ mem[obj[c].start].own = obj[c].size /\ obj[c].size \in Nat
  BY <1>1, BlockFacts
<1>12. \A c, d \in R : obj[c].start = obj[d].start => c = d
  BY <1>1 DEF HeapInv, PoolInv
<1>13. mem[b].own < 0 /\ pool[p].bins \subseteq S
  BY <1>2 DEF Heads
<1>14. S = pool[p].bins \cup {obj[c].start : c \in R}
  BY DEF Heads
<1>15. o \notin R
  BY <1>1 DEF Residents
<1>16. \A c \in Objects : c \in R <=> obj[c].size > 0 /\ obj[c].pool = p
  BY DEF Residents
<1> HIDE DEF whole, lo, hi, S, R
<1>17. /\ mem'[b].own = size /\ mem'[b].prev = mem[b].prev
       /\ size < whole => mem'[b + size].own = size - whole /\ mem'[b + size].prev = size
       /\ b + whole < hi => /\ mem'[b + whole].own = mem[b + whole].own
                            /\ mem'[b + whole].prev = IF size < whole THEN whole - size ELSE size
       /\ \A u \in Units : u # b /\ u # b + size /\ u # b + whole => mem'[u] = mem[u]
  <2>1. \A u \in Nat : u < hi => u \in Units
    BY <1>4, ZoneType
  <2>2. mem'[b].own = size /\ mem'[b].prev = mem[b].prev
    BY <1>7, <1>9 DEF AllocMem
  <2>3. ASSUME size < whole
        PROVE  mem'[b + size].own = size - whole /\ mem'[b + size].prev = size
    <3>1. b + size \in Units /\ b + size # b
      BY <1>4, <1>7, <2>1, <2>3
    <3>2. mem'[b + size] = [own |-> size - whole, prev |-> size]
      BY <1>9, <2>3, <3>1 DEF AllocMem
    <3>3. QED BY <3>2
  <2>4. ASSUME b + whole < hi
        PROVE  /\ mem'[b + whole].own = mem[b + whole].own
               /\ mem'[b + whole].prev = IF size < whole THEN whole - size ELSE size
    <3>1. b + whole \in Units /\ b + whole # b /\ (size < whole => b + whole # b + size)
      BY <1>4, <1>7, <2>1, <2>4
    <3>2. mem'[b + whole] = [mem[b + whole] EXCEPT !.prev = IF size < whole THEN whole - size ELSE size]
      BY <1>9, <2>4, <3>1 DEF AllocMem
    <3>3. mem[b + whole] \in Header
      BY <1>3, <3>1
    <3>4. QED BY <3>2, <3>3 DEF Header
  <2>5. \A u \in Units : u # b /\ u # b + size /\ u # b + whole => mem'[u] = mem[u]
    BY <1>9 DEF AllocMem
  <2>6. QED BY <2>2, <2>3, <2>4, <2>5
<1>18. Chained(mem', S \cup rest, lo, hi)
  <2>1. whole = SizeIn(mem, b)
    BY DEF whole
  <2>2. Chained(mem', S \cup (IF size < whole THEN {b + size} ELSE {}), lo, hi)
    <3> HIDE DEF rest
    <3>1. mem \in [Units -> Header] /\ b \in S /\ size \in Nat
          /\ S \in SUBSET Units /\ lo \in Nat /\ hi \in Nat /\ hi <= Zone
          /\ Chained(mem, S, lo, hi) /\ size >= 2 /\ (size = whole \/ size + 2 <= whole)
      BY <1>3, <1>4, <1>7, <1>8
    <3>2. QED BY ONLY <1>17, <2>1, <3>1, ChainCut
  <2>3. QED BY <2>2
<1>19. mem' \in [Units -> Header]
  <2>1. Zone \in Nat /\ Junk = Zone + 1
    BY ZoneType
  <2>2. size \in -Zone .. Junk /\ size - whole \in -Zone .. Junk /\ size \in 0 .. Junk
        /\ whole - size \in 0 .. Junk
    BY <1>4, <1>7, <2>1
  <2>3. mem[b].prev \in 0 .. Junk
    BY <1>3, <1>7 DEF Header
  <2>4. ASSUME NEW u \in Units
        PROVE  AllocMem(b, whole, size, hi)[u] \in Header
    <3>1. mem[u] \in Header
      BY <1>3
    <3>2. [own |-> size, prev |-> mem[b].prev] \in Header
          /\ [own |-> size - whole, prev |-> size] \in Header
      BY <2>2, <2>3 DEF Header
    <3>3. [mem[u] EXCEPT !.prev = IF size < whole THEN whole - size ELSE size] \in Header
      BY <2>2, <3>1 DEF Header
    <3>4. AllocMem(b, whole, size, hi)[u] \in
            {[own |-> size, prev |-> mem[b].prev], [own |-> size - whole, prev |-> size],
             [mem[u] EXCEPT !.prev = IF size < whole THEN whole - size ELSE size], mem[u]}
      BY DEF AllocMem
    <3>5. QED BY <3>1, <3>2, <3>3, <3>4
  <2>5. AllocMem(b, whole, size, hi) = [u \in Units |-> AllocMem(b, whole, size, hi)[u]]
    BY DEF AllocMem
  <2>6. QED BY <1>9, <2>4, <2>5
<1>20. Residents(p)' = R \cup {o} /\ \A c \in R : obj'[c] = obj[c]
  <2>1. obj'[o].size = size /\ obj'[o].pool = p /\ \A c \in Objects : c # o => obj'[c] = obj[c]
    BY <1>3, <1>10
  <2>2. \A c \in Objects : c \in R \cup {o} <=> obj'[c].size > 0 /\ obj'[c].pool = p
    BY <1>7, <1>15, <1>16, <2>1
  <2>3. Residents(p)' = {c \in Objects : obj'[c].size > 0 /\ obj'[c].pool = p}
    BY DEF Residents
  <2>4. QED BY <1>8, <1>15, <2>1, <2>2, <2>3
<1>21. obj'[o] = [pool |-> p, start |-> b, size |-> size, pinned |-> pinned]
  BY <1>3, <1>10
<1>22. /\ pool'[p].used = pool[p].used + size /\ pool'[p].live = pool[p].live + 1
       /\ pool'[p].bins = (pool[p].bins \ {b}) \cup rest
       /\ pool'[p].first = pool[p].first /\ pool'[p].count = pool[p].count
       /\ pool'[p].fragment = pool[p].fragment
       /\ \A q \in Pools : q # p => pool'[q] = pool[q]
  BY <1>3, <1>10 DEF PoolRecord
<1>23. Heads(p)' = S \cup rest
  <2>1. Heads(p)' = pool'[p].bins \cup {obj'[c].start : c \in Residents(p)'}
    BY DEF Heads
  <2>2. {obj'[c].start : c \in Residents(p)'} = {obj[c].start : c \in R} \cup {b}
    BY <1>20, <1>21
  <2> HIDE DEF rest
  <2>3. QED BY <1>14, <1>22, <2>1, <2>2
<1>24. \A u \in S : u # b => mem'[u].own = mem[u].own
  <2>1. SUFFICES ASSUME NEW u \in S, u # b PROVE mem'[u].own = mem[u].own
    OBVIOUS
  <2>2. u \in Units /\ u \in Nat /\ u < hi
    BY <1>4, <1>5
  <2>3. u < b \/ b + whole <= u
    BY <1>6, <1>7, <2>1, <2>2 DEF whole
  <2>4. CASE u = b + whole
    BY <1>17, <2>2, <2>4
  <2>5. CASE u # b + whole
    <3>1. u # b + size
      BY <1>7, <2>2, <2>3, <2>5
    <3>2. QED BY <1>17, <2>1, <2>2, <2>5, <3>1
  <2>6. QED BY <2>4, <2>5
<1>25. \A c \in pool'[p].bins : mem'[c].own < 0
  <2>1. size < whole => mem'[b + size].own < 0
    BY <1>7, <1>17
  <2>2. \A c \in pool[p].bins \ {b} : mem'[c].own < 0
    BY <1>4, <1>13, <1>24
  <2>3. QED BY <1>22, <2>1, <2>2
<1>26. \A c \in R : obj[c].start # b
  BY <1>7, <1>11, <1>13
<1>27. \A c \in Residents(p)' : mem'[obj'[c].start].own = obj'[c].size
  <2>1. \A c \in R : mem'[obj[c].start].own = obj[c].size
    BY <1>11, <1>24, <1>26
  <2>2. mem'[b].own = size
    BY <1>17
  <2>3. QED BY <1>20, <1>21, <2>1, <2>2
<1>28. \A c, d \in Residents(p)' : obj'[c].start = obj'[d].start => c = d
  BY <1>12, <1>20, <1>21, <1>26
<1>29. pool'[p].live = Cardinality(Residents(p)')
  <2>1. IsFiniteSet(R)
    BY <1>3, <1>8, SizesType
  <2>2. Cardinality(R \cup {o}) = Cardinality(R) + 1
    BY <1>15, <2>1, FS_AddElement
  <2>3. QED BY <1>4, <1>20, <1>22, <2>2
<1>30. /\ IsFiniteSet(R \cup {o})
       /\ \A c \in R \cup {o} : Sizes'[c] = obj'[c].size /\ Sizes'[c] \in Nat
       /\ \A c \in R : Sizes'[c] = Sizes[c]
  <2>1. IsFiniteSet(R)
    BY <1>3, <1>8, SizesType
  <2>2. IsFiniteSet(R \cup {o})
    BY <2>1, FS_AddElement
  <2>3. \A c \in R \cup {o} : Sizes'[c] = obj'[c].size
    BY <1>8 DEF Sizes
  <2>4. \A c \in R : Sizes[c] = obj[c].size
    BY <1>8 DEF Sizes
  <2>5. \A c \in R \cup {o} : obj'[c].size \in Nat
    BY <1>11, <1>20, <1>21
  <2>6. QED BY <1>20, <2>2, <2>3, <2>4, <2>5
<1>31. pool'[p].used = Total(Sizes', R \cup {o})
  <2> DEFINE s2 == Sizes'
  <2>0. IsFiniteSet(R) /\ \A c \in R \cup {o} : s2[c] \in Nat
    BY <1>3, <1>8, <1>30, SizesType
  <2>1. s2[o] = size
    BY <1>21, <1>30
  <2>2. Total(s2, R) = Total(Sizes, R)
    <3>1. \A c \in R : s2[c] = Sizes[c]
      BY <1>30
    <3> HIDE DEF s2
    <3>2. QED BY <3>1, TotalSame
  <2> HIDE DEF s2
  <2>3. Total(s2, R \cup {o}) = Total(s2, R) + s2[o]
    BY <1>15, <2>0, TotalAdd
  <2>4. QED BY <1>4, <1>22, <2>1, <2>2, <2>3 DEF s2
<1>s. Spaced(mem, Heads(p), pool[p].bins, pool[p].fragment, Lo(pool[p]), Hi(pool[p]))'
  <2>1. Laid(mem, S, lo, hi)
    BY <1>5, <1>6 DEF Laid
  <2>2. Spaced(mem, S, pool[p].bins, pool[p].fragment, lo, hi) /\ pool[p].bins \in SUBSET S
    BY <1>1, <1>13 DEF HeapInv, PoolInv, S, lo, hi
  <2>3. /\ SizeIn(mem', b) = size
        /\ size < whole => SizeIn(mem', b + size) = whole - size
        /\ \A u \in S : u # b => SizeIn(mem', u) = SizeIn(mem, u)
    <3>1. SizeIn(mem', b) = size
      BY <1>7, <1>17 DEF SizeIn
    <3>2. size < whole => SizeIn(mem', b + size) = whole - size
      BY <1>7, <1>17 DEF SizeIn
    <3>3. \A u \in S : u # b => SizeIn(mem', u) = SizeIn(mem, u)
      BY <1>24 DEF SizeIn
    <3>4. QED BY <3>1, <3>2, <3>3
  <2>4. Spaced(mem', S \cup rest, (pool[p].bins \ {b}) \cup rest, pool[p].fragment, lo, hi)
    <3>1. PICK r : r = rest
      OBVIOUS
    <3>2. r = IF size < whole THEN {b + size} ELSE {}
      BY <3>1
    <3>3. whole = SizeIn(mem, b) /\ b \in pool[p].bins /\ lo \in Nat /\ hi \in Nat /\ size \in Nat
          /\ size >= 2 /\ (size = whole \/ size + 2 <= whole)
      BY <1>2, <1>4, <1>7 DEF whole
    <3>4. Spaced(mem', S \cup r, (pool[p].bins \ {b}) \cup r, pool[p].fragment, lo, hi)
      BY ONLY <2>1, <2>2, <2>3, <3>2, <3>3, SpacedCut
    <3>5. QED BY <3>1, <3>4
  <2>5. Spaced(mem', Heads(p)', pool'[p].bins, pool'[p].fragment, Lo(pool'[p]), Hi(pool'[p]))
    BY <1>22, <1>23, <2>4 DEF lo, hi, Lo, Hi
  <2>6. QED BY <2>5
<1>32. PoolInv(p)'
  <2>1. Chained(mem, Heads(p), Lo(pool[p]), Hi(pool[p]))'
    BY <1>18, <1>22, <1>23 DEF lo, hi, Lo, Hi
  <2>2. \A c \in pool'[p].bins : IsFree(c)'
    BY <1>25 DEF IsFree
  <2>3. Total(Sizes, Residents(p))' = Total(Sizes', R \cup {o})
    BY <1>20
  <2>4. pool'[p].first + pool'[p].count <= Segments
    BY <1>4, <1>22
  <2>5. QED BY <1>27, <1>28, <1>29, <1>31, <1>s, <2>1, <2>2, <2>3, <2>4 DEF PoolInv
<1>33. S \cup rest \in SUBSET Units
  <2>1. size < whole => b + size \in Units
    BY <1>4, <1>7, ZoneType
  <2>2. QED BY <1>8, <2>1
<1>34. pool'[p].used \in 0 .. Zone
  <2> DEFINE s2 == Sizes'
             at == [c \in R \cup {o} |-> obj'[c].start]
             T == S \cup rest
  <2>1. \A c \in R \cup {o} : at[c] \in T /\ s2[c] = SizeIn(mem', at[c])
    <3>1. \A c \in R \cup {o} : obj'[c].start \in Heads(p)'
      BY <1>20 DEF Heads
    <3>2. \A c \in R \cup {o} : obj'[c].size \in Nat /\ mem'[obj'[c].start].own = obj'[c].size
      BY <1>20, <1>27, <1>30
    <3>3. \A c \in R \cup {o} : SizeIn(mem', obj'[c].start) = obj'[c].size
      BY <3>2 DEF SizeIn
    <3>4. QED BY <1>23, <1>30, <3>1, <3>3
  <2>2. \A c, d \in R \cup {o} : at[c] = at[d] => c = d
    BY <1>20, <1>28
  <2>3. T \in SUBSET Units /\ Chained(mem', T, lo, hi)
    BY <1>18, <1>33
  <2>4. Total(s2, R \cup {o}) \in Nat
    <3>1. \A c \in R \cup {o} : s2[c] \in Nat
      BY <1>30
    <3> HIDE DEF s2
    <3>2. QED BY <1>30, <3>1, TotalType
  <2> HIDE DEF s2, at, T
  <2>5. Total(s2, R \cup {o}) <= hi - lo
    BY <1>4, <1>19, <1>30, <2>1, <2>2, <2>3, ChainFits
  <2>6. QED BY <1>4, <1>31, <2>4, <2>5, ZoneType DEF s2
<1>35. TypeOK'
  <2>1. pool'[p].live \in 0 .. Cardinality(Objects)
    BY <1>8, <1>20, <1>29, CountType
  <2>2. pool'[p].bins \in SUBSET Units
    <3>1. pool[p].bins \subseteq Units
      BY <1>8, <1>13
    <3>2. QED BY <1>22, <1>33, <3>1
  <2>3. pool' \in [Pools -> PoolRecord]
    <3>1. pool'[p] = [pool[p] EXCEPT !.used = pool'[p].used, !.live = pool'[p].live,
                                     !.bins = pool'[p].bins]
      BY <1>3, <1>10 DEF PoolRecord
    <3>2. pool'[p] \in PoolRecord
      <4>1. pool[p] \in PoolRecord
        BY <1>3
      <4>2. PICK used \in 0 .. Zone, live \in 0 .. Cardinality(Objects), bins \in SUBSET Units :
              used = pool'[p].used /\ live = pool'[p].live /\ bins = pool'[p].bins
        BY <1>34, <2>1, <2>2
      <4>3. [pool[p] EXCEPT !.used = used, !.live = live, !.bins = bins] \in PoolRecord
        BY <4>1 DEF PoolRecord
      <4>4. QED BY <3>1, <4>2, <4>3
    <3>3. pool' = [pool EXCEPT ![p] = pool'[p]]
      BY <1>3, <1>10
    <3>4. QED BY <1>3, <3>2, <3>3
  <2>4. obj' \in [Objects -> Descriptor]
    <3>1. size \in 0 .. Zone
      BY <1>4, <1>7, ZoneType
    <3>2. [pool |-> p, start |-> b, size |-> size, pinned |-> pinned] \in Descriptor
      BY <1>7, <3>1 DEF Descriptor
    <3>3. QED BY <1>3, <1>10, <3>2
  <2>5. QED BY <1>19, <2>3, <2>4 DEF TypeOK, PoolRecord, Descriptor, Header
<1>36. \A u \in Units : u < lo \/ hi <= u => mem'[u] = mem[u]
  <2>1. SUFFICES ASSUME NEW u \in Units, u < lo \/ hi <= u PROVE mem'[u] = mem[u]
    OBVIOUS
  <2>2. u \in Nat
    BY ZoneType
  <2>3. u # b /\ (u = b + size => ~(size < whole)) /\ (u = b + whole => ~(u < hi))
    BY <1>4, <1>7, <2>1, <2>2
  <2>4. QED BY <1>9, <2>3 DEF AllocMem
<1>37. \A c \in Objects : \/ obj'[c] = obj[c]
                          \/ /\ obj[c].size = 0 \/ obj[c].pool = p
                             /\ obj'[c].size = 0 \/ obj'[c].pool = p
  <2>1. \A c \in Objects : c # o => obj'[c] = obj[c]
    BY <1>3, <1>10
  <2>2. obj'[o].pool = p
    BY <1>21
  <2>3. QED BY <1>1, <2>1, <2>2
<1>38. QED
  <2>1. \A u \in Units : u < Lo(pool[p]) \/ Hi(pool[p]) <= u => mem'[u] = mem[u]
    BY <1>36 DEF lo, hi
  <2>2. QED BY <1>1, <1>22, <1>32, <1>35, <1>37, <2>1, InPlace

(* The blocks that free joins. *)
LEMMA FreeJoins ==
  ASSUME HeapInv, NEW o \in Objects, obj[o].size > 0,
         NEW p \in Pools, p = obj[o].pool, NEW b, b = obj[o].start,
         NEW head, head = MergedHead(o), NEW end, end = MergedEnd(o)
  PROVE  /\ Exists(p) /\ o \in Residents(p) /\ b \in Heads(p)
         /\ head \in Heads(p) /\ head <= b /\ head \in Nat /\ end \in Nat /\ b < end
         /\ head = b \/ head \in pool[p].bins
         /\ \E x \in Heads(p) : head <= x /\ end = x + SizeIn(mem, x)
         /\ \A u \in Heads(p) : head < u /\ u < end => u = b \/ u \in pool[p].bins
         /\ Filled(mem, Heads(p), head, end)
         /\ \A c \in pool[p].bins : c + SizeIn(mem, c) # head
         /\ end \notin pool[p].bins
<1> DEFINE back == mem[b].prev
           fwd == b + obj[o].size
<1>1. Exists(p) /\ o \in Residents(p) /\ TypeOK
  BY DEF HeapInv, Residents
<1>2. /\ b \in Heads(p) /\ b \in Nat /\ obj[o].size \in Nat /\ obj[o].size >= 2
      /\ SizeIn(mem, b) = obj[o].size
  BY <1>1, BlockFacts
<1>3. /\ back \in Nat
      /\ back # 0 => b - back \in Heads(p) /\ SizeIn(mem, b - back) = back
      /\ fwd < Hi(pool[p]) => fwd \in Heads(p) \/ mem[fwd].own = 0
  <2>1. /\ mem[b].prev \in Nat
        /\ mem[b].prev # 0 =>
             b - mem[b].prev \in Heads(p) /\ SizeIn(mem, b - mem[b].prev) = mem[b].prev
        /\ b + SizeIn(mem, b) < Hi(pool[p]) =>
             b + SizeIn(mem, b) \in Heads(p) \/ mem[b + SizeIn(mem, b)].own = 0
    BY <1>1, <1>2, LinkFacts
  <2>2. QED BY <1>2, <2>1
<1>4. head = IF back # 0 /\ IsFree(b - back) THEN b - back ELSE b
  BY DEF MergedHead
<1>5. end = IF fwd < Hi(pool[p]) /\ IsFree(fwd) THEN fwd + SizeAt(fwd) ELSE fwd
  BY DEF MergedEnd
<1>6. \A u, v \in Heads(p) : u < v => u + SizeIn(mem, u) <= v
  BY <1>1, HeadFacts
<1>7. \A u \in Heads(p) : u \in Nat /\ SizeIn(mem, u) \in Nat /\ SizeIn(mem, u) >= 2
  BY <1>1, HeadFacts
<1>8. \A u \in Heads(p) : IsFree(u) <=> u \in pool[p].bins
  BY <1>1, FreeHead
<1> HIDE DEF back, fwd
<1>9. /\ head \in Heads(p) /\ head <= b /\ head \in Nat
      /\ head = b \/ (head \in pool[p].bins /\ head + SizeIn(mem, head) = b)
  <2>1. CASE back # 0 /\ IsFree(b - back)
    <3>1. head = b - back /\ head \in Heads(p) /\ SizeIn(mem, head) = back
      BY <1>3, <1>4, <2>1
    <3>2. head \in Nat /\ head \in pool[p].bins
      BY <1>7, <1>8, <2>1, <3>1
    <3>3. QED BY <1>2, <1>3, <3>1, <3>2
  <2>2. CASE ~(back # 0 /\ IsFree(b - back))
    BY <1>2, <1>4, <2>2
  <2>3. QED BY <2>1, <2>2
<1>10. \/ end = fwd
       \/ fwd \in Heads(p) /\ fwd \in pool[p].bins /\ end = fwd + SizeIn(mem, fwd)
  <2>1. CASE fwd < Hi(pool[p]) /\ IsFree(fwd)
    <3>1. mem[fwd].own # 0
      BY <2>1 DEF IsFree
    <3>2. fwd \in Heads(p)
      BY <1>3, <2>1, <3>1
    <3>3. SizeAt(fwd) = SizeIn(mem, fwd)
      BY DEF SizeAt, SizeIn, IsFree
    <3>4. QED BY <1>5, <1>8, <2>1, <3>2, <3>3
  <2>2. CASE ~(fwd < Hi(pool[p]) /\ IsFree(fwd))
    BY <1>5, <2>2
  <2>3. QED BY <2>1, <2>2
<1>11. fwd = b + SizeIn(mem, b) /\ fwd \in Nat /\ b < fwd
  BY <1>2 DEF fwd
<1>12. end \in Nat /\ b < end /\ fwd <= end
  BY <1>2, <1>7, <1>10, <1>11
<1>13. \E x \in Heads(p) : head <= x /\ end = x + SizeIn(mem, x)
  <2>1. CASE end = fwd
    BY <1>2, <1>9, <1>11, <2>1
  <2>2. CASE fwd \in Heads(p) /\ end = fwd + SizeIn(mem, fwd)
    <3>1. head <= fwd
      BY <1>2, <1>9, <1>11
    <3>2. QED BY <2>2, <3>1
  <2>3. QED BY <1>10, <2>1, <2>2
<1>14. ASSUME NEW u \in Heads(p), head < u, u < end
       PROVE  u = b \/ u \in pool[p].bins
  <2>1. u \in Nat /\ SizeIn(mem, u) \in Nat /\ SizeIn(mem, u) >= 2
    BY <1>7
  <2>2. ~(u < b)
    <3>1. head + SizeIn(mem, head) <= u
      BY <1>6, <1>9, <1>14
    <3>2. QED BY <1>2, <1>9, <1>14, <2>1, <3>1
  <2>3. b < u => fwd <= u
    BY <1>2, <1>6, <1>11
  <2>4. CASE end = fwd
    BY <1>2, <1>11, <1>14, <2>1, <2>2, <2>3, <2>4
  <2>5. CASE fwd \in Heads(p) /\ fwd \in pool[p].bins /\ end = fwd + SizeIn(mem, fwd)
    <3>1. fwd < u => end <= u
      BY <1>6, <2>5
    <3>2. QED BY <1>2, <1>11, <1>12, <1>14, <2>1, <2>2, <2>3, <2>5, <3>1
  <2>6. QED BY <1>10, <2>4, <2>5
<1>15. Filled(mem, Heads(p), head, end)
  <2>1. SUFFICES ASSUME NEW y \in Nat, head <= y, y < end
                 PROVE  \E u \in Heads(p) : u <= y /\ y < u + SizeIn(mem, u)
    BY DEF Filled
  <2>2. CASE y < b
    BY <1>9, <2>1, <2>2
  <2>3. CASE b <= y /\ y < fwd
    BY <1>2, <1>11, <2>1, <2>3
  <2>4. CASE fwd <= y
    <3>1. end # fwd
      BY <1>11, <2>1, <2>4
    <3>2. QED BY <1>10, <2>1, <2>4, <3>1
  <2>5. QED BY <1>2, <1>11, <2>1, <2>2, <2>3, <2>4
<1>16. \A c, d \in pool[p].bins : c + SizeIn(mem, c) # d
  BY <1>1 DEF HeapInv, PoolInv, Spaced
<1>17. pool[p].bins \subseteq Heads(p)
  BY DEF Heads
<1>18. ASSUME NEW c \in pool[p].bins, c + SizeIn(mem, c) = head
       PROVE  FALSE
  <2>1. c \in Heads(p) /\ c \in Nat /\ SizeIn(mem, c) \in Nat /\ SizeIn(mem, c) >= 2 /\ IsFree(c)
    BY <1>7, <1>8, <1>17
  <2>2. head = b
    BY <1>9, <1>16, <1>18
  <2>3. b < Hi(pool[p]) /\ mem[b].own # 0
    <3>1. b + SizeIn(mem, b) <= Hi(pool[p]) /\ Hi(pool[p]) \in Nat
      BY <1>1, <1>2, HeadFacts, PoolWindow
    <3>2. mem[b].own = obj[o].size
      BY <1>1, BlockFacts
    <3>3. QED BY <1>2, <3>1, <3>2
  <2>4. mem[b].prev = SizeIn(mem, c)
    BY <1>1, <1>18, <2>1, <2>2, <2>3, LinkFacts
  <2>5. b - mem[b].prev = c /\ mem[b].prev # 0 /\ c # b
    BY <1>2, <1>18, <2>1, <2>2, <2>4
  <2>6. QED BY <1>4, <2>1, <2>2, <2>5 DEF back
<1>19. ASSUME end \in pool[p].bins
       PROVE  FALSE
  <2>1. end = fwd
    BY <1>10, <1>16, <1>19
  <2>2. fwd \in Heads(p) /\ IsFree(fwd)
    BY <1>8, <1>17, <1>19, <2>1
  <2>3. SizeIn(mem, fwd) \in Nat /\ SizeIn(mem, fwd) >= 2 /\ fwd + SizeIn(mem, fwd) <= Hi(pool[p])
        /\ Hi(pool[p]) \in Nat
    BY <1>1, <2>2, HeadFacts, PoolWindow
  <2>4. fwd < Hi(pool[p])
    BY <1>11, <2>3
  <2>5. SizeAt(fwd) = SizeIn(mem, fwd)
    BY <2>2 DEF SizeAt, SizeIn, IsFree
  <2>6. QED BY <1>5, <1>11, <2>1, <2>2, <2>3, <2>4, <2>5
<1>20. QED BY <1>1, <1>2, <1>9, <1>12, <1>13, <1>14, <1>15, <1>18, <1>19

LEMMA FreeKeeps ==
  ASSUME HeapInv, NEW o \in Objects, Free(o)
  PROVE  HeapInv'
<1>a. PICK p : p = obj[o].pool
  OBVIOUS
<1>b. PICK b : b = obj[o].start
  OBVIOUS
<1>c. PICK head : head = MergedHead(o)
  OBVIOUS
<1>d. PICK end : end = MergedEnd(o)
  OBVIOUS
<1> DEFINE inside == head + 1 .. end - 1
           lo == Lo(pool[p])
           hi == Hi(pool[p])
           S == Heads(p)
           R == Residents(p)
<1>1. /\ obj[o].size > 0
      /\ mem' = [u \in Units |->
                   IF u = head THEN [own |-> head - end, prev |-> mem[head].prev]
                   ELSE IF u \in inside THEN Stale
                   ELSE IF u = end /\ end < hi THEN [mem[u] EXCEPT !.prev = end - head]
                   ELSE mem[u]]
      /\ pool' = [pool EXCEPT ![p].used = @ - obj[o].size, ![p].live = @ - 1,
                              ![p].bins = (@ \ inside) \cup {head}]
      /\ obj'  = [obj EXCEPT ![o] = FreeDesc]
  BY <1>a, <1>c, <1>d DEF Free
<1>2. TypeOK /\ pool \in [Pools -> PoolRecord] /\ obj \in [Objects -> Descriptor]
      /\ mem \in [Units -> Header]
  BY TypeParts DEF HeapInv
<1>3. p \in Pools
  BY <1>2, <1>a DEF Descriptor
<1>4. /\ Exists(p) /\ o \in R /\ b \in S
      /\ head \in S /\ head <= b /\ head \in Nat /\ end \in Nat /\ b < end
      /\ head = b \/ head \in pool[p].bins
      /\ \E x \in S : head <= x /\ end = x + SizeIn(mem, x)
      /\ \A u \in S : head < u /\ u < end => u = b \/ u \in pool[p].bins
      /\ Filled(mem, S, head, end) /\ \A c \in pool[p].bins : c + SizeIn(mem, c) # head
      /\ end \notin pool[p].bins
  <2>1. obj[o].size > 0 /\ p \in Pools
    BY <1>1, <1>3
  <2>2. QED BY <2>1, <1>a, <1>b, <1>c, <1>d, FreeJoins
<1>5. /\ lo \in Nat /\ hi \in Nat /\ hi <= Zone /\ lo + 2 <= hi
      /\ Chained(mem, S, lo, hi)
      /\ pool[p].live = Cardinality(R) /\ pool[p].used = Total(Sizes, R)
      /\ \A c \in pool[p].bins : mem[c].own < 0
      /\ pool[p].first \in Nat /\ pool[p].count \in Nat /\ pool[p].first + pool[p].count <= Segments
  <2>1. /\ PoolInv(p) /\ Lo(pool[p]) \in Nat /\ Hi(pool[p]) \in Nat /\ Hi(pool[p]) <= Zone
        /\ Lo(pool[p]) + 2 <= Hi(pool[p])
        /\ pool[p].first \in Nat /\ pool[p].count \in Nat
    BY <1>3, <1>4, PoolWindow
  <2>2. QED BY <2>1 DEF PoolInv, IsFree
<1>6. \A u \in S : /\ u \in Units /\ u \in Nat /\ SizeIn(mem, u) \in Nat /\ SizeIn(mem, u) >= 2
                   /\ lo <= u /\ u + SizeIn(mem, u) <= hi
  BY <1>3, <1>4, HeadFacts
<1>7. S \in SUBSET Units /\ R \in SUBSET Objects
  BY <1>2, <1>3, HeadsType
<1>8. \A c \in R : obj[c].start \in S /\ mem[obj[c].start].own = obj[c].size /\ obj[c].size \in Nat
  BY <1>3, <1>4, BlockFacts
<1>9. \A c, d \in R : obj[c].start = obj[d].start => c = d
  BY <1>3, <1>4 DEF HeapInv, PoolInv
<1>10. S = pool[p].bins \cup {obj[c].start : c \in R}
  BY DEF Heads
<1>11. \A c \in Objects : c \in R <=> obj[c].size > 0 /\ obj[c].pool = p
  BY DEF Residents
<1>12. /\ obj[o].start = b /\ obj[o].pool = p
       /\ inside = head + 1 .. end - 1
  BY <1>a, <1>b
<1> HIDE DEF lo, hi, S, R
<1>13. PICK x \in S : head <= x /\ end = x + SizeIn(mem, x)
  BY <1>4
<1>14. end <= hi /\ head < end /\ head \in Units /\ (end < hi => end \in Units) /\ lo <= head
  <2>1. x + SizeIn(mem, x) <= hi /\ head \in Units /\ b \in Nat /\ lo <= head
    BY <1>4, <1>6
  <2>2. QED BY <1>4, <1>5, <1>13, <2>1, ZoneType
<1>15. /\ mem'[head] = [own |-> head - end, prev |-> mem[head].prev]
       /\ end < hi => mem'[end].own = mem[end].own /\ mem'[end].prev = end - head
       /\ \A u \in Units : u < head \/ end < u => mem'[u] = mem[u]
       /\ \A u \in Units : u # head /\ u \notin inside => mem'[u].own = mem[u].own
  <2>1. mem'[head] = [own |-> head - end, prev |-> mem[head].prev]
    BY <1>1, <1>14
  <2>2. \A u \in Units : u # head /\ u \notin inside /\ ~(u = end /\ end < hi) => mem'[u] = mem[u]
    BY <1>1
  <2>3. ASSUME end < hi
        PROVE  mem'[end].own = mem[end].own /\ mem'[end].prev = end - head
    <3>1. end \in Units /\ end # head /\ end \notin inside
      BY <1>4, <1>14, <2>3
    <3>2. mem'[end] = [mem[end] EXCEPT !.prev = end - head]
      BY <1>1, <2>3, <3>1
    <3>3. mem[end] \in Header
      BY <1>2, <3>1
    <3>4. QED BY <3>2, <3>3 DEF Header
  <2>4. \A u \in Units : u < head \/ end < u => mem'[u] = mem[u]
    <3>1. \A u \in Units : u \in Nat
      BY ZoneType
    <3>2. \A u \in Units : u < head \/ end < u => u # head /\ u \notin inside /\ u # end
      BY <1>4, <1>14, <3>1
    <3>3. QED BY <2>2, <3>2
  <2>5. \A u \in Units : u # head /\ u \notin inside => mem'[u].own = mem[u].own
    BY <2>2, <2>3
  <2>6. QED BY <2>1, <2>3, <2>4, <2>5
<1>16. Chained(mem', S \ inside, lo, hi)
  <2>1. mem'[head].own = head - end /\ mem'[head].prev = mem[head].prev
    BY <1>15
  <2>2. mem \in [Units -> Header] /\ head \in S /\ S \in SUBSET Units /\ lo \in Nat /\ hi \in Nat
        /\ hi <= Zone /\ Chained(mem, S, lo, hi)
    BY <1>2, <1>4, <1>5, <1>7
  <2>3. Chained(mem', S \ (head + 1 .. end - 1), lo, hi)
    BY ONLY <1>13, <1>15, <2>1, <2>2, x \in S, ChainJoin
  <2>4. QED BY <2>3
<1> HIDE DEF inside
<1>17. /\ \A u \in inside : u \in Nat /\ head < u /\ u < end
       /\ \A u \in Nat : head < u /\ u < end => u \in inside
  BY <1>4 DEF inside
<1>18. /\ pool'[p].used = pool[p].used - obj[o].size /\ pool'[p].live = pool[p].live - 1
       /\ pool'[p].bins = (pool[p].bins \ inside) \cup {head}
       /\ pool'[p].first = pool[p].first /\ pool'[p].count = pool[p].count
       /\ pool'[p].fragment = pool[p].fragment
       /\ \A q \in Pools : q # p => pool'[q] = pool[q]
  BY <1>1, <1>2, <1>3 DEF PoolRecord
<1>19. obj'[o] = FreeDesc /\ obj'[o].size = 0 /\ \A c \in Objects : c # o => obj'[c] = obj[c]
  BY <1>1, <1>2 DEF FreeDesc
<1>20. Residents(p)' = R \ {o} /\ \A c \in R \ {o} : obj'[c] = obj[c]
  <2>1. \A c \in Objects : c \in R \ {o} <=> obj'[c].size > 0 /\ obj'[c].pool = p
    BY <1>11, <1>19
  <2>2. Residents(p)' = {c \in Objects : obj'[c].size > 0 /\ obj'[c].pool = p}
    BY DEF Residents
  <2>3. QED BY <1>7, <1>19, <2>1, <2>2
<1>21. \A c \in R \ {o} : obj[c].start # b /\ obj[c].start # head /\ obj[c].start \notin inside
  <2>1. SUFFICES ASSUME NEW c \in R \ {o}
                 PROVE  obj[c].start # b /\ obj[c].start # head /\ obj[c].start \notin inside
    OBVIOUS
  <2>2. obj[c].start # b
    BY <1>4, <1>9, <1>12
  <2>3. obj[c].start \notin pool[p].bins
    BY <1>5, <1>8
  <2>4. obj[c].start \in S /\ obj[c].start \in Nat
    BY <1>6, <1>8
  <2>5. obj[c].start # head
    BY <1>4, <2>2, <2>3
  <2>6. ~(head < obj[c].start /\ obj[c].start < end)
    BY <1>4, <2>2, <2>3, <2>4
  <2>7. QED BY <1>17, <2>2, <2>5, <2>6
<1>22. Heads(p)' = S \ inside
  <2>1. Heads(p)' = pool'[p].bins \cup {obj'[c].start : c \in Residents(p)'}
    BY DEF Heads
  <2>2. {obj'[c].start : c \in Residents(p)'} = {obj[c].start : c \in R \ {o}}
    BY <1>20
  <2>3. Heads(p)' = (pool[p].bins \ inside) \cup {head} \cup {obj[c].start : c \in R \ {o}}
    BY <1>18, <2>1, <2>2
  <2>4. head \notin inside /\ (b = head \/ b \in inside)
    <3>1. b \in Nat
      BY <1>4, <1>6
    <3>2. QED BY <1>4, <1>17, <3>1
  <2>5. ASSUME NEW u \in S \ inside
        PROVE  u \in Heads(p)'
    <3>1. u \in pool[p].bins \/ \E c \in R : u = obj[c].start
      BY <1>10
    <3>2. CASE \E c \in R : u = obj[c].start
      <4>1. PICK c \in R : u = obj[c].start
        BY <3>2
      <4>2. c = o => u = head
        BY <1>12, <2>4, <4>1
      <4>3. QED BY <2>3, <4>1, <4>2
    <3>3. QED BY <2>3, <3>1, <3>2
  <2>6. ASSUME NEW u \in Heads(p)'
        PROVE  u \in S \ inside
    <3>1. CASE u \in pool[p].bins \ inside
      BY <1>10, <3>1
    <3>2. CASE u = head
      BY <1>4, <2>4, <3>2
    <3>3. CASE \E c \in R \ {o} : u = obj[c].start
      BY <1>8, <1>21, <3>3
    <3>4. QED BY <2>3, <3>1, <3>2, <3>3
  <2>7. QED BY <2>5, <2>6
<1>23. \A c \in pool'[p].bins : mem'[c].own < 0
  <2>1. mem'[head].own < 0
    BY <1>4, <1>14, <1>15
  <2>2. \A c \in pool[p].bins \ inside : c # head => mem'[c].own < 0
    BY <1>5, <1>7, <1>10, <1>15
  <2>3. QED BY <1>18, <2>1, <2>2
<1>24. \A c \in Residents(p)' : mem'[obj'[c].start].own = obj'[c].size
  <2>1. \A c \in R \ {o} : mem'[obj[c].start].own = obj[c].size
    BY <1>7, <1>8, <1>15, <1>21
  <2>2. QED BY <1>20, <2>1
<1>25. \A c, d \in Residents(p)' : obj'[c].start = obj'[d].start => c = d
  BY <1>9, <1>20
<1>26. IsFiniteSet(R) /\ IsFiniteSet(R \ {o}) /\ \A c \in R : Sizes[c] = obj[c].size
  BY <1>2, <1>7, SizesType, FS_Subset
<1>27. pool'[p].live = Cardinality(Residents(p)')
  <2>1. Cardinality(R \ {o}) = Cardinality(R) - 1
    BY <1>4, <1>26, FS_RemoveElement
  <2>2. QED BY <1>5, <1>18, <1>20, <2>1
<1>28. /\ pool'[p].used = Total(Sizes', R \ {o}) /\ pool'[p].used \in 0 .. Zone
  <2>1. Total(Sizes, R) = Total(Sizes, R \ {o}) + Sizes[o]
    <3>1. \A c \in R : Sizes[c] \in Nat
      BY <1>8, <1>26
    <3>2. QED BY <1>4, <1>26, <3>1, TotalRemove
  <2>2. Total(Sizes', R \ {o}) = Total(Sizes, R \ {o})
    <3>1. \A c \in R \ {o} : Sizes'[c] = Sizes[c]
      BY <1>7, <1>20 DEF Sizes
    <3>2. QED BY <3>1, TotalSame
  <2>3. Total(Sizes, R \ {o}) \in Nat
    BY <1>2, <1>7, SizesType
  <2>4. Sizes[o] = obj[o].size /\ obj[o].size \in Nat
    BY <1>4, <1>8, <1>26
  <2>5. pool[p].used \in 0 .. Zone /\ Zone \in Nat
    BY <1>2, <1>3, ZoneType DEF PoolRecord
  <2>6. pool'[p].used = Total(Sizes, R \ {o}) /\ pool'[p].used <= pool[p].used
    BY <1>5, <1>18, <2>1, <2>3, <2>4, <2>5
  <2>7. QED BY <2>2, <2>3, <2>5, <2>6
<1>s. Spaced(mem', Heads(p)', pool'[p].bins, pool'[p].fragment, Lo(pool'[p]), Hi(pool'[p]))
  <2>1. Laid(mem, S, lo, hi)
    <3>1. \A u, v \in S : u < v => u + SizeIn(mem, u) <= v
      BY <1>3, <1>4, HeadFacts DEF S
    <3>2. QED BY <1>6, <3>1 DEF Laid
  <2>2. Spaced(mem, S, pool[p].bins, pool[p].fragment, lo, hi) /\ pool[p].bins \in SUBSET S
    <3>1. PoolInv(p)
      BY <1>3, <1>4 DEF HeapInv
    <3>2. QED BY <1>10, <3>1 DEF PoolInv, S, lo, hi
  <2>3. SizeIn(mem', head) = end - head
    BY <1>4, <1>14, <1>15 DEF SizeIn
  <2>4. \A u \in S : u # head /\ u \notin inside => SizeIn(mem', u) = SizeIn(mem, u)
    BY <1>7, <1>15 DEF SizeIn
  <2>5. /\ lo \in Nat /\ hi \in Nat /\ head \in S /\ end \in Nat /\ head < end
        /\ x \in S /\ head <= x /\ end = x + SizeIn(mem, x)
        /\ Filled(mem, S, head, end) /\ \A c \in pool[p].bins : c + SizeIn(mem, c) # head
        /\ end \notin pool[p].bins /\ inside = head + 1 .. end - 1
    BY <1>4, <1>5, <1>13, <1>14 DEF inside
  <2>6. Spaced(mem', S \ inside, (pool[p].bins \ inside) \cup {head}, pool[p].fragment, lo, hi)
    BY ONLY <2>1, <2>2, <2>3, <2>4, <2>5, SpacedJoin
  <2>7. QED BY <1>18, <1>22, <2>6 DEF lo, hi, Lo, Hi
<1>29. PoolInv(p)'
  <2>1. Chained(mem', Heads(p)', Lo(pool'[p]), Hi(pool'[p]))
    BY <1>16, <1>18, <1>22 DEF lo, hi, Lo, Hi
  <2>2. \A c \in pool'[p].bins : mem'[c].own < 0
    BY <1>23
  <2>3. Total(Sizes', Residents(p)') = Total(Sizes', R \ {o})
    BY <1>20
  <2>4. pool'[p].first + pool'[p].count <= Segments
    BY <1>5, <1>18
  <2>5. pool'[p].used = Total(Sizes', Residents(p)')
    BY <1>28, <2>3
  <2>6. QED BY <1>24, <1>25, <1>27, <1>s, <2>1, <2>2, <2>4, <2>5 DEF PoolInv, IsFree
<1>30. TypeOK'
  <2>1. pool'[p].live \in 0 .. Cardinality(Objects)
    BY <1>7, <1>20, <1>27, CountType
  <2>2. pool'[p].bins \in SUBSET Units
    BY <1>7, <1>10, <1>14, <1>18
  <2>3. pool' \in [Pools -> PoolRecord]
    <3>1. pool'[p] = [pool[p] EXCEPT !.used = pool'[p].used, !.live = pool'[p].live,
                                     !.bins = pool'[p].bins]
      BY <1>1, <1>2, <1>3 DEF PoolRecord
    <3>2. pool'[p] \in PoolRecord
      BY <1>2, <1>3, <1>28, <2>1, <2>2, <3>1 DEF PoolRecord
    <3>3. pool' = [pool EXCEPT ![p] = pool'[p]]
      BY <1>1, <1>2, <1>3
    <3>4. QED BY <1>2, <3>2, <3>3
  <2>4. obj' \in [Objects -> Descriptor]
    <3>1. 0 \in Units /\ 0 \in 0 .. Zone
      BY <1>5, ZoneType
    <3>2. AnyPool \in Pools
      BY <1>3 DEF AnyPool
    <3>3. FreeDesc \in Descriptor
      BY <3>1, <3>2 DEF Descriptor, FreeDesc
    <3>4. QED BY <1>1, <1>2, <3>3
  <2>5. mem' \in [Units -> Header]
    <3>0. /\ head \in Nat /\ end \in Nat /\ head < end /\ end <= hi /\ hi <= Zone /\ hi \in Nat
          /\ Zone \in Nat /\ Junk = Zone + 1
      BY <1>4, <1>5, <1>14, ZoneType
    <3>1. head - end \in -Zone .. Junk /\ end - head \in 0 .. Junk
      BY ONLY <3>0
    <3>2. mem[head].prev \in 0 .. Junk
      BY <1>2, <1>14 DEF Header
    <3>3. [own |-> head - end, prev |-> mem[head].prev] \in Header
      BY <3>1, <3>2 DEF Header
    <3>4. \A u \in Units : mem[u] \in Header /\ [mem[u] EXCEPT !.prev = end - head] \in Header
      BY <1>2, <3>1 DEF Header
    <3>5. QED BY <1>1, <3>3, <3>4, EmptyTypes
  <2>6. QED BY <2>3, <2>4, <2>5 DEF TypeOK, PoolRecord, Descriptor, Header
<1>31. \A u \in Units : u < lo \/ hi <= u => mem'[u] = mem[u]
  <2>1. SUFFICES ASSUME NEW u \in Units, u < lo \/ hi <= u PROVE mem'[u] = mem[u]
    OBVIOUS
  <2>2. u \in Nat
    BY ZoneType
  <2>3. u # head /\ u \notin inside /\ ~(u = end /\ end < hi)
    BY <1>4, <1>5, <1>14, <1>17, <2>1, <2>2
  <2>4. QED BY <1>1, <2>3
<1>32. \A c \in Objects : \/ obj'[c] = obj[c]
                          \/ /\ obj[c].size = 0 \/ obj[c].pool = p
                             /\ obj'[c].size = 0 \/ obj'[c].pool = p
  BY <1>12, <1>19
<1>33. QED
  <2>1. \A u \in Units : u < Lo(pool[p]) \/ Hi(pool[p]) <= u => mem'[u] = mem[u]
    BY <1>31 DEF lo, hi
  <2>2. QED BY <1>3, <1>4, <1>18, <1>29, <1>30, <1>32, <2>1, InPlace

-----------------------------------------------------------------------------
(* Address order and the planners' folds *)

Below(R, o) == {q \in R : obj[q].start < obj[o].start}

LEMMA RankType ==
  ASSUME TypeOK, NEW R \in SUBSET Objects, NEW o \in R
  PROVE  Cardinality(Below(R, o)) \in 0 .. Cardinality(R) - 1 /\ IsFiniteSet(Below(R, o))
<1>1. IsFiniteSet(R)
  BY SizesType
<1>2. IsFiniteSet(R \ {o}) /\ Cardinality(R \ {o}) = Cardinality(R) - 1
  BY <1>1, FS_RemoveElement
<1>3. obj[o].start \in Nat
  BY ObjTypes
<1>4. Below(R, o) \in SUBSET (R \ {o})
  BY <1>3 DEF Below
<1>5. IsFiniteSet(Below(R, o)) /\ Cardinality(Below(R, o)) <= Cardinality(R \ {o})
  BY <1>2, <1>4, FS_Subset
<1>6. Cardinality(Below(R, o)) \in Nat /\ Cardinality(R) \in Nat
  BY <1>1, <1>5, FS_CardinalityType
<1>7. QED BY <1>2, <1>5, <1>6

LEMMA RankGrows ==
  ASSUME TypeOK, NEW R \in SUBSET Objects, NEW o \in R, NEW q \in R, obj[q].start < obj[o].start
  PROVE  Cardinality(Below(R, q)) < Cardinality(Below(R, o))
<1>1. \A x \in R : obj[x].start \in Nat
  BY ObjTypes
<1>2. q \notin Below(R, q) /\ Below(R, q) \cup {q} \in SUBSET Below(R, o)
  BY <1>1 DEF Below
<1>3. IsFiniteSet(Below(R, q)) /\ IsFiniteSet(Below(R, o))
  BY RankType
<1>4. Cardinality(Below(R, q) \cup {q}) = Cardinality(Below(R, q)) + 1
  BY <1>2, <1>3, FS_AddElement
<1>5. Cardinality(Below(R, q) \cup {q}) <= Cardinality(Below(R, o))
  BY <1>2, <1>3, FS_Subset
<1>6. Cardinality(Below(R, q)) \in Nat /\ Cardinality(Below(R, o)) \in Nat
  BY <1>3, FS_CardinalityType
<1>7. QED BY <1>4, <1>5, <1>6

(* ByAddress lists a set of blocks once each, in ascending order.          *)
LEMMA AddressOrder ==
  ASSUME TypeOK, NEW R \in SUBSET Objects,
         \A o, q \in R : obj[o].start = obj[q].start => o = q
  PROVE  /\ Cardinality(R) \in Nat
         /\ ByAddress(R) \in [1 .. Cardinality(R) -> R]
         /\ \A i, j \in 1 .. Cardinality(R) :
              i < j => obj[ByAddress(R)[i]].start < obj[ByAddress(R)[j]].start
         /\ \A o \in R : \E i \in 1 .. Cardinality(R) : ByAddress(R)[i] = o
<1> DEFINE N == Cardinality(R)
           rank == [o \in R |-> Cardinality(Below(R, o))]
<1>1. N \in Nat /\ IsFiniteSet(R)
  BY SizesType, FS_CardinalityType
<1>2. rank \in [R -> 0 .. N - 1] /\ \A o \in R : rank[o] = Cardinality(Below(R, o))
  BY RankType
<1>3. \A o \in R : obj[o].start \in Nat
  BY ObjTypes
<1> HIDE DEF N, rank
<1>4. \A o, q \in R : obj[q].start < obj[o].start => rank[q] < rank[o]
  BY <1>2, RankGrows
<1>5. \A o, q \in R : rank[o] = rank[q] => o = q
  BY <1>1, <1>2, <1>3, <1>4
<1>6. rank \in Injection(R, 0 .. N - 1)
  BY <1>2, <1>5 DEF Injection, IsInjective
<1>7. IsFiniteSet(0 .. N - 1) /\ Cardinality(0 .. N - 1) = N
  BY <1>1, FS_Interval
<1>8. rank \in Surjection(R, 0 .. N - 1)
  BY <1>6, <1>7, FS_Injection DEF N
<1>9. \A i \in 1 .. N : \E o \in R : rank[o] = i - 1
  <2>1. \A i \in 1 .. N : i - 1 \in 0 .. N - 1
    BY <1>1
  <2>2. QED BY <1>8, <2>1 DEF Surjection
<1>10. /\ ByAddress(R) = [i \in 1 .. N |-> CHOOSE o \in R : Cardinality(Below(R, o)) = i - 1]
  BY DEF ByAddress, Below, N
<1>11. \A i \in 1 .. N : ByAddress(R)[i] \in R /\ rank[ByAddress(R)[i]] = i - 1
  <2>1. SUFFICES ASSUME NEW i \in 1 .. N
                 PROVE  ByAddress(R)[i] \in R /\ rank[ByAddress(R)[i]] = i - 1
    OBVIOUS
  <2>2. ByAddress(R)[i] = CHOOSE o \in R : Cardinality(Below(R, o)) = i - 1
    BY <1>10
  <2>3. \E o \in R : Cardinality(Below(R, o)) = i - 1
    BY <1>2, <1>9
  <2>4. /\ ByAddress(R)[i] \in R
        /\ Cardinality(Below(R, ByAddress(R)[i])) = i - 1
    BY <2>2, <2>3
  <2>5. QED BY <1>2, <2>4
<1>12. ByAddress(R) \in [1 .. N -> R]
  BY <1>10, <1>11
<1>13. \A i, j \in 1 .. N : i < j => obj[ByAddress(R)[i]].start < obj[ByAddress(R)[j]].start
  <2>1. SUFFICES ASSUME NEW i \in 1 .. N, NEW j \in 1 .. N, i < j
                 PROVE  obj[ByAddress(R)[i]].start < obj[ByAddress(R)[j]].start
    OBVIOUS
  <2> DEFINE x == ByAddress(R)[i]
             y == ByAddress(R)[j]
  <2>2. x \in R /\ y \in R /\ rank[x] = i - 1 /\ rank[y] = j - 1
    BY <1>11
  <2> HIDE DEF x, y
  <2>3. obj[x].start \in Nat /\ obj[y].start \in Nat /\ rank[x] < rank[y]
    BY <1>1, <1>3, <2>1, <2>2
  <2>4. ~(obj[y].start < obj[x].start)
    BY <1>1, <1>4, <2>1, <2>2
  <2>5. obj[x].start # obj[y].start
    BY <1>1, <2>1, <2>2
  <2>6. QED BY <2>3, <2>4, <2>5 DEF x, y
<1>14. \A o \in R : \E i \in 1 .. N : ByAddress(R)[i] = o
  <2>1. SUFFICES ASSUME NEW o \in R PROVE \E i \in 1 .. N : ByAddress(R)[i] = o
    OBVIOUS
  <2>2. rank[o] \in 0 .. N - 1
    BY <1>2
  <2>3. rank[o] + 1 \in 1 .. N /\ (rank[o] + 1) - 1 = rank[o]
    BY <1>1, <2>2
  <2>4. ByAddress(R)[rank[o] + 1] \in R /\ rank[ByAddress(R)[rank[o] + 1]] = rank[o]
    BY <1>11, <2>3
  <2>5. QED BY <1>5, <2>3, <2>4
<1>15. QED BY <1>1, <1>12, <1>13, <1>14 DEF N

PlanRecord(R) ==
  [cursor : Nat, to : [R -> Nat], bytes : Nat, moves : Nat, met : BOOLEAN,
   verdict : {"plan", "cut", "PinnedConflict", "NoSpace"}]

FirstPlan(R, lo, req) ==
  [cursor |-> lo, to |-> Here(R), bytes |-> 0, moves |-> 0,
   met |-> Need(req) = 0, verdict |-> "plan"]

LEMMA HereType ==
  ASSUME TypeOK, NEW R \in SUBSET Objects
  PROVE  Here(R) \in [R -> Nat] /\ \A o \in R : Here(R)[o] = obj[o].start
<1>1. \A o \in R : obj[o].start \in Nat
  BY ObjTypes
<1>2. QED BY <1>1 DEF Here

LEMMA StepType ==
  ASSUME TypeOK, NEW R \in SUBSET Objects, NEW lo, NEW hi, NEW req,
         NEW plan \in PlanRecord(R), NEW o \in R
  PROVE  CompactStep(R, lo, hi, req, plan, o) \in PlanRecord(R)
<1>1. /\ obj[o].start \in Nat /\ obj[o].size \in Nat
  BY ObjTypes
<1>2. plan.cursor \in Nat /\ plan.bytes \in Nat /\ plan.moves \in Nat /\ plan.to \in [R -> Nat]
  BY DEF PlanRecord
<1>3. [plan EXCEPT !.cursor = obj[o].start + obj[o].size] \in PlanRecord(R)
  BY <1>1 DEF PlanRecord
<1>4. \A v \in {"plan", "cut", "PinnedConflict", "NoSpace"} : [plan EXCEPT !.verdict = v] \in PlanRecord(R)
  BY DEF PlanRecord
<1>5. [plan EXCEPT !.verdict = "cut", !.met = TRUE] \in PlanRecord(R)
  BY DEF PlanRecord
<1>6. [plan EXCEPT !.cursor = plan.cursor + obj[o].size, !.to[o] = plan.cursor,
                   !.bytes = @ + obj[o].size, !.moves = @ + 1] \in PlanRecord(R)
  <2>1. [plan.to EXCEPT ![o] = plan.cursor] \in [R -> Nat]
    BY <1>2
  <2>2. plan.cursor + obj[o].size \in Nat /\ plan.bytes + obj[o].size \in Nat /\ plan.moves + 1 \in Nat
    BY <1>1, <1>2
  <2>3. QED BY <2>1, <2>2 DEF PlanRecord
<1> DEFINE barrier == Barrier(R, obj[o].start, hi)
           A == plan.cursor > obj[o].start
           B == plan.cursor + obj[o].size > barrier
           C == Need(req) # 0 /\ Reachable(R, lo, hi, plan.cursor, o) >= Need(req)
           D == Spent(plan, req, obj[o].size)
           E == obj[o].start = plan.cursor
           v == IF ~req.full THEN "cut" ELSE IF barrier < hi THEN "PinnedConflict" ELSE "NoSpace"
<1>7. CompactStep(R, lo, hi, req, plan, o) =
        IF plan.verdict # "plan" THEN plan
        ELSE IF obj[o].pinned THEN
          IF A THEN [plan EXCEPT !.verdict = "PinnedConflict"]
          ELSE [plan EXCEPT !.cursor = obj[o].start + obj[o].size]
        ELSE IF B THEN [plan EXCEPT !.verdict = v]
        ELSE IF C THEN [plan EXCEPT !.verdict = "cut", !.met = TRUE]
        ELSE IF D THEN [plan EXCEPT !.verdict = "cut"]
        ELSE IF E THEN [plan EXCEPT !.cursor = obj[o].start + obj[o].size]
        ELSE [plan EXCEPT !.cursor = plan.cursor + obj[o].size, !.to[o] = plan.cursor,
                          !.bytes = @ + obj[o].size, !.moves = @ + 1]
  BY DEF CompactStep
<1>8. v \in {"cut", "PinnedConflict", "NoSpace"}
  OBVIOUS
<1> HIDE DEF A, B, C, D, E, v
<1>9. QED BY <1>3, <1>4, <1>5, <1>6, <1>7, <1>8

(* The planner's fold, as the values it takes block by block.              *)
LEMMA CompactRuns ==
  ASSUME TypeOK, NEW R \in SUBSET Objects, NEW lo \in Nat, NEW hi, NEW req, NEW N \in Nat,
         NEW seq \in [1 .. N -> R], seq = ByAddress(R),
         NEW plan, plan = CompactPlan(R, lo, hi, req)
  PROVE  \E run \in [0 .. N -> PlanRecord(R)] :
           /\ run[0] = FirstPlan(R, lo, req)
           /\ \A k \in 1 .. N : run[k] = CompactStep(R, lo, hi, req, run[k - 1], seq[k])
           /\ run[N] = plan
<1> DEFINE Step(x, o) == CompactStep(R, lo, hi, req, x, o)
           V == PlanRecord(R)
           base == FirstPlan(R, lo, req)
           step == [x \in V \X R |-> Step(x[1], x[2])]
           Eq(g) == g = [s \in SUBSET (1 .. N) |->
                           IF s = {} THEN base ELSE Step(g[s \ {Max(s)}], seq[Max(s)])]
           h == CHOOSE g : Eq(g)
<1>1. CompactPlan(R, lo, hi, req) = h[1 .. N]
  <2>1. DOMAIN seq = 1 .. N
    OBVIOUS
  <2>2. QED BY <2>1 DEF CompactPlan, FoldLeft, MapThenFoldSet, FirstPlan
<1>2. base \in V
  BY HereType DEF FirstPlan, PlanRecord
<1>3. step \in [V \X R -> V] /\ \A x \in V, o \in R : step[<<x, o>>] = Step(x, o)
  <2>1. \A x \in V, o \in R : Step(x, o) \in V
    BY StepType
  <2> HIDE DEF V, Step
  <2>2. QED BY <2>1
<1>4. \A s \in SUBSET (1 .. N) : s # {} => s \ {Max(s)} \in SUBSET (1 .. N) /\ Max(s) \in 1 .. N
  <2>1. SUFFICES ASSUME NEW s \in SUBSET (1 .. N), s # {} PROVE Max(s) \in 1 .. N
    OBVIOUS
  <2>2. s \in SUBSET (0 .. N)
    OBVIOUS
  <2>3. Max(s) \in s
    BY <2>1, <2>2, MaxOfIndices
  <2>4. QED BY <2>3
<1> HIDE DEF step, base, V, Step
<1>5. PICK g \in [SUBSET (1 .. N) -> V] : FoldsTo(g, base, step, seq, N)
  BY <1>2, <1>3, FoldExists
<1>6. \A s \in SUBSET (1 .. N) :
        s # {} => step[<<g[s \ {Max(s)}], seq[Max(s)]>>] = Step(g[s \ {Max(s)}], seq[Max(s)])
  BY <1>3, <1>4
<1>7. Eq(g)
  <2>1. g = [s \in SUBSET (1 .. N) |->
               IF s = {} THEN base ELSE step[<<g[s \ {Max(s)}], seq[Max(s)]>>]]
    BY <1>5 DEF FoldsTo
  <2>2. [s \in SUBSET (1 .. N) |->
               IF s = {} THEN base ELSE step[<<g[s \ {Max(s)}], seq[Max(s)]>>]]
        = [s \in SUBSET (1 .. N) |->
               IF s = {} THEN base ELSE Step(g[s \ {Max(s)}], seq[Max(s)])]
    BY <1>6
  <2>3. QED BY <2>1, <2>2
<1>8. Eq(h)
  BY <1>7
<1> HIDE DEF h
<1> DEFINE W == {h[s] : s \in SUBSET (1 .. N)}
           walk == [x \in W \X R |-> Step(x[1], x[2])]
<1>9. \A s \in SUBSET (1 .. N), o \in R : walk[<<h[s], o>>] = Step(h[s], o)
  OBVIOUS
<1> HIDE DEF walk
<1>10. FoldsTo(h, base, walk, seq, N)
  <2>1. [s \in SUBSET (1 .. N) |->
               IF s = {} THEN base ELSE walk[<<h[s \ {Max(s)}], seq[Max(s)]>>]]
        = [s \in SUBSET (1 .. N) |->
               IF s = {} THEN base ELSE Step(h[s \ {Max(s)}], seq[Max(s)])]
    BY <1>4, <1>9
  <2>2. QED BY <1>8, <2>1 DEF FoldsTo
<1>11. h[1 .. 0] = base /\ \A k \in 1 .. N : h[1 .. k] = walk[<<h[1 .. k - 1], seq[k]>>]
  BY <1>10, FoldRuns
<1>12. \A k \in 1 .. N : h[1 .. k] = Step(h[1 .. k - 1], seq[k])
  <2>1. \A k \in 1 .. N : 1 .. k - 1 \in SUBSET (1 .. N)
    OBVIOUS
  <2>2. QED BY <1>9, <1>11, <2>1
<1> DEFINE run == [k \in 0 .. N |-> h[1 .. k]]
<1>13. /\ run[0] = base /\ run[N] = CompactPlan(R, lo, hi, req)
       /\ \A k \in 1 .. N : run[k] = Step(run[k - 1], seq[k])
  <2>1. 0 \in 0 .. N /\ N \in 0 .. N /\ \A k \in 1 .. N : k \in 0 .. N /\ k - 1 \in 0 .. N
    OBVIOUS
  <2>2. QED BY <1>1, <1>11, <1>12, <2>1
<1>14. \A k \in 0 .. N : run[k] \in V
  <2> DEFINE Typed == {k \in 0 .. N : run[k] \in V}
  <2>1. 0 \in Typed
    BY <1>2, <1>13
  <2>2. ASSUME NEW k \in 0 .. N - 1, k \in Typed
        PROVE  k + 1 \in Typed
    <3>1. k + 1 \in 1 .. N /\ (k + 1) - 1 = k /\ k + 1 \in 0 .. N
      OBVIOUS
    <3>2. run[k + 1] = Step(run[k], seq[k + 1])
      BY <1>13, <3>1
    <3>3. run[k] \in V /\ seq[k + 1] \in R
      BY <2>2, <3>1
    <3> HIDE DEF run
    <3>4. run[k + 1] \in V
      BY <3>2, <3>3, StepType DEF Step, V
    <3>5. QED BY <3>1, <3>4
  <2> HIDE DEF Typed, run
  <2>3. \A k \in 0 .. N : k \in Typed
    BY <2>1, <2>2, UpTo
  <2>4. QED BY <2>3 DEF Typed
<1>15. run \in [0 .. N -> V]
  BY <1>14
<1> HIDE DEF run
<1>16. QED BY <1>13, <1>15 DEF Step, V, base

(* What a pass over the blocks keeps: nothing moves up or onto another     *)
(* block, pinned blocks stay, and while the pass runs the cursor lies      *)
(* behind what has been placed and before what has not.                    *)
Packed(R, lo, seq, N, plan, k) ==
  /\ plan.verdict \in {"plan", "cut"}
  /\ \A o \in R : /\ lo <= plan.to[o] /\ plan.to[o] <= obj[o].start
                  /\ obj[o].pinned => plan.to[o] = obj[o].start
  /\ \A i, j \in 1 .. N : i < j => plan.to[seq[i]] + obj[seq[i]].size <= plan.to[seq[j]]
  /\ plan.verdict = "plan" =>
       /\ lo <= plan.cursor
       /\ \A i \in 1 .. N : i <= k => plan.to[seq[i]] + obj[seq[i]].size <= plan.cursor
       /\ \A i \in 1 .. N : k < i => /\ plan.cursor <= obj[seq[i]].start
                                     /\ plan.to[seq[i]] = obj[seq[i]].start

LEMMA PlacedOrder ==
  ASSUME TypeOK, NEW R \in SUBSET Objects, NEW lo \in Nat, NEW hi \in Nat, lo <= hi,
         Placement(Here(R), lo, hi)
  PROVE  /\ \A o \in R : /\ obj[o].start \in Nat /\ obj[o].size \in Nat /\ obj[o].size >= 2
                         /\ lo <= obj[o].start /\ obj[o].start + obj[o].size <= hi
         /\ \A o, q \in R : obj[o].start < obj[q].start => obj[o].start + obj[o].size <= obj[q].start
         /\ \A o, q \in R : obj[o].start = obj[q].start => o = q
<1>1. DOMAIN Here(R) = R /\ \A o \in R : Here(R)[o] = obj[o].start
                                         /\ EndIn(Here(R), o) = obj[o].start + obj[o].size
  BY DEF Here, EndIn
<1>2. \A o \in R : /\ obj[o].start \in Nat /\ obj[o].size \in Nat /\ obj[o].size >= 2
                   /\ lo <= obj[o].start /\ obj[o].start + obj[o].size <= hi
  <2>1. \A o \in DOMAIN Here(R) :
          /\ Here(R)[o] \in Nat /\ obj[o].size \in Nat /\ obj[o].size >= 2
          /\ lo <= Here(R)[o] /\ EndIn(Here(R), o) <= hi
    BY PlacedNumbers
  <2>2. QED BY <1>1, <2>1
<1>3. \A o, q \in R : o # q => \/ obj[o].start + obj[o].size <= obj[q].start
                               \/ obj[q].start + obj[q].size <= obj[o].start
  BY <1>1 DEF Placement
<1>4. \A o, q \in R : obj[o].start < obj[q].start => obj[o].start + obj[o].size <= obj[q].start
  <2>1. SUFFICES ASSUME NEW o \in R, NEW q \in R, obj[o].start < obj[q].start
                 PROVE  obj[o].start + obj[o].size <= obj[q].start
    OBVIOUS
  <2>2. o # q
    BY <1>2, <2>1
  <2>3. QED BY <1>2, <1>3, <2>1, <2>2
<1>5. \A o, q \in R : obj[o].start = obj[q].start => o = q
  <2>1. SUFFICES ASSUME NEW o \in R, NEW q \in R, obj[o].start = obj[q].start, o # q
                 PROVE  FALSE
    OBVIOUS
  <2>2. QED BY <1>2, <1>3, <2>1
<1>6. QED BY <1>2, <1>4, <1>5

LEMMA BarrierAhead ==
  ASSUME TypeOK, NEW R \in SUBSET Objects, NEW lo \in Nat, NEW hi \in Nat, lo <= hi,
         Placement(Here(R), lo, hi), NEW o \in R
  PROVE  /\ Barrier(R, obj[o].start, hi) \in Nat
         /\ obj[o].start + obj[o].size <= Barrier(R, obj[o].start, hi)
<1> DEFINE B == PinnedAbove(R, obj[o].start) \cup {hi}
<1>1. /\ \A q \in R : /\ obj[q].start \in Nat /\ obj[q].size \in Nat
                      /\ obj[q].start + obj[q].size <= hi
      /\ \A q \in R : obj[o].start < obj[q].start => obj[o].start + obj[o].size <= obj[q].start
  BY PlacedOrder
<1>2. \A b \in B : b \in Nat /\ obj[o].start + obj[o].size <= b
  BY <1>1 DEF PinnedAbove
<1>3. B # {}
  OBVIOUS
<1>4. Barrier(R, obj[o].start, hi) = Min(B)
  BY DEF Barrier
<1> HIDE DEF B
<1>5. Min(B) \in B
  BY <1>2, <1>3, MinOfNumbers
<1>6. QED BY <1>2, <1>4, <1>5

LEMMA PackStep ==
  ASSUME TypeOK, NEW R \in SUBSET Objects, NEW lo \in Nat, NEW hi \in Nat, lo <= hi,
         Placement(Here(R), lo, hi), NEW req, NEW N \in Nat, NEW seq \in [1 .. N -> R],
         \A i, j \in 1 .. N : i < j => obj[seq[i]].start < obj[seq[j]].start,
         NEW k \in 0 .. N - 1, NEW plan \in PlanRecord(R), Packed(R, lo, seq, N, plan, k)
  PROVE  Packed(R, lo, seq, N, CompactStep(R, lo, hi, req, plan, seq[k + 1]), k + 1)
<1> DEFINE o == seq[k + 1]
           start == obj[o].start
           size == obj[o].size
           cursor == plan.cursor
           moved == [plan EXCEPT !.cursor = cursor + size, !.to[o] = cursor,
                                 !.bytes = @ + size, !.moves = @ + 1]
           kept == [plan EXCEPT !.cursor = start + size]
           done == CompactStep(R, lo, hi, req, plan, o)
<1>1. k + 1 \in 1 .. N /\ o \in R /\ k \in Nat
  OBVIOUS
<1>2. /\ \A x \in R : /\ obj[x].start \in Nat /\ obj[x].size \in Nat /\ obj[x].size >= 2
                      /\ lo <= obj[x].start /\ obj[x].start + obj[x].size <= hi
      /\ \A x, y \in R : obj[x].start < obj[y].start => obj[x].start + obj[x].size <= obj[y].start
  BY PlacedOrder
<1>3. /\ plan.cursor \in Nat /\ plan.to \in [R -> Nat]
  BY DEF PlanRecord
<1>4. CASE plan.verdict # "plan"
  <2>1. done = plan
    BY <1>4 DEF CompactStep
  <2>2. QED BY <1>4, <2>1 DEF Packed
<1>5. CASE plan.verdict = "plan"
  <2>1. /\ cursor <= start /\ plan.to[o] = start /\ lo <= cursor
        /\ \A i \in 1 .. N : i <= k => plan.to[seq[i]] + obj[seq[i]].size <= cursor
        /\ \A i \in 1 .. N : k < i => cursor <= obj[seq[i]].start /\ plan.to[seq[i]] = obj[seq[i]].start
        /\ \A x \in R : /\ lo <= plan.to[x] /\ plan.to[x] <= obj[x].start
                        /\ obj[x].pinned => plan.to[x] = obj[x].start
        /\ \A i, j \in 1 .. N : i < j => plan.to[seq[i]] + obj[seq[i]].size <= plan.to[seq[j]]
    BY <1>1, <1>5 DEF Packed
  <2>2. \A i \in 1 .. N : k + 1 < i => start + size <= obj[seq[i]].start
    BY <1>1, <1>2
  <2>3. /\ start \in Nat /\ size \in Nat /\ size >= 2 /\ cursor \in Nat
        /\ cursor <= start /\ lo <= cursor
    BY <1>1, <1>2, <1>3, <2>1
  <2>0. /\ lo <= start + size /\ lo <= cursor + size
        /\ \A x, y \in Nat : x + y <= cursor => x + y <= start + size /\ x + y <= cursor + size
        /\ \A x \in Nat : start + size <= x => cursor + size <= x
    <3> HIDE DEF start, size, cursor
    <3>1. QED BY ONLY <2>3, lo \in Nat
  <2>4. Packed(R, lo, seq, N, kept, k + 1)
    <3>1. kept.verdict = "plan" /\ kept.cursor = start + size /\ kept.to = plan.to
      BY <1>5 DEF PlanRecord
    <3>2. \A i \in 1 .. N : i <= k + 1 => plan.to[seq[i]] + obj[seq[i]].size <= start + size
      <4>1. SUFFICES ASSUME NEW i \in 1 .. N, i <= k + 1
                     PROVE  plan.to[seq[i]] + obj[seq[i]].size <= start + size
        OBVIOUS
      <4>2. CASE i = k + 1
        BY <2>1, <2>3, <4>2
      <4>3. CASE i <= k
        <5>1. plan.to[seq[i]] + obj[seq[i]].size <= cursor
          BY <2>1, <4>3
        <5>2. plan.to[seq[i]] \in Nat /\ obj[seq[i]].size \in Nat
          BY <1>2, <1>3
        <5>3. QED BY <2>0, <5>1, <5>2
      <4>4. QED BY <4>1, <4>2, <4>3
    <3>3. \A i \in 1 .. N : k + 1 < i => start + size <= obj[seq[i]].start
                                         /\ plan.to[seq[i]] = obj[seq[i]].start
      BY <2>1, <2>2
    <3>4. lo <= start + size
      BY <2>0
    <3> HIDE DEF kept
    <3>5. QED BY <2>1, <3>1, <3>2, <3>3, <3>4 DEF Packed
  <2>5. \A p \in PlanRecord(R) : p.to = plan.to /\ p.verdict = "cut" => Packed(R, lo, seq, N, p, k + 1)
    BY <2>1 DEF Packed
  <2>6. ASSUME ~obj[o].pinned
        PROVE  Packed(R, lo, seq, N, moved, k + 1)
    <3> DEFINE f == [plan.to EXCEPT ![o] = cursor]
    <3>1. moved.verdict = "plan" /\ moved.cursor = cursor + size /\ moved.to = f
      BY <1>5 DEF PlanRecord
    <3>2. f[o] = cursor /\ \A x \in R : x # o => f[x] = plan.to[x]
      BY <1>1, <1>3
    <3>3. \A x \in R : /\ lo <= f[x] /\ f[x] <= obj[x].start
                       /\ obj[x].pinned => f[x] = obj[x].start
      BY <2>1, <2>6, <3>2
    <3>4. \A i \in 1 .. N : i # k + 1 => seq[i] # o
      BY <1>1, <1>2
    <3> HIDE DEF moved, f
    <3>5. \A i \in 1 .. N : i <= k + 1 => f[seq[i]] + obj[seq[i]].size <= cursor + size
      <4>1. SUFFICES ASSUME NEW i \in 1 .. N, i <= k + 1
                     PROVE  f[seq[i]] + obj[seq[i]].size <= cursor + size
        OBVIOUS
      <4>2. CASE i = k + 1
        BY <1>3, <2>3, <3>2, <4>2
      <4>3. CASE i <= k
        <5>0. i # k + 1 /\ seq[i] \in R
          BY <1>1, <4>3
        <5>1. f[seq[i]] = plan.to[seq[i]] /\ plan.to[seq[i]] + obj[seq[i]].size <= cursor
          BY <2>1, <3>2, <3>4, <4>3, <5>0
        <5>2. plan.to[seq[i]] \in Nat /\ obj[seq[i]].size \in Nat
          BY <1>2, <1>3
        <5>3. QED BY <2>0, <5>1, <5>2
      <4>4. QED BY <1>1, <4>1, <4>2, <4>3
    <3>6. \A i \in 1 .. N : k + 1 < i => cursor + size <= obj[seq[i]].start
                                         /\ f[seq[i]] = obj[seq[i]].start
      <4>1. SUFFICES ASSUME NEW i \in 1 .. N, k + 1 < i
                     PROVE  cursor + size <= obj[seq[i]].start /\ f[seq[i]] = obj[seq[i]].start
        OBVIOUS
      <4>2. seq[i] # o /\ k < i
        BY <1>1, <3>4, <4>1
      <4>3. f[seq[i]] = obj[seq[i]].start
        BY <2>1, <3>2, <4>2
      <4>4. start + size <= obj[seq[i]].start /\ obj[seq[i]].start \in Nat
        BY <1>2, <2>2, <4>1
      <4>5. QED BY <2>0, <4>3, <4>4
    <3>7. \A i, j \in 1 .. N : i < j => f[seq[i]] + obj[seq[i]].size <= f[seq[j]]
      <4>1. SUFFICES ASSUME NEW i \in 1 .. N, NEW j \in 1 .. N, i < j
                     PROVE  f[seq[i]] + obj[seq[i]].size <= f[seq[j]]
        OBVIOUS
      <4>2. plan.to[seq[i]] \in Nat /\ obj[seq[i]].size \in Nat /\ plan.to[seq[j]] \in Nat
        BY <1>2, <1>3
      <4>3. CASE i = k + 1
        <5>1. cursor + size <= obj[seq[j]].start /\ f[seq[j]] = obj[seq[j]].start
          BY <3>6, <4>1, <4>3
        <5>2. QED BY <3>2, <4>3, <5>1
      <4>4. CASE j = k + 1
        <5>1. i <= k /\ i # k + 1
          BY <1>1, <4>1, <4>4
        <5>2. f[seq[i]] = plan.to[seq[i]] /\ plan.to[seq[i]] + obj[seq[i]].size <= cursor
          BY <2>1, <3>2, <3>4, <5>1
        <5>3. QED BY <3>2, <4>4, <5>2
      <4>5. CASE i # k + 1 /\ j # k + 1
        <5>1. f[seq[i]] = plan.to[seq[i]] /\ f[seq[j]] = plan.to[seq[j]]
          BY <3>2, <3>4, <4>5
        <5>2. QED BY <2>1, <4>1, <5>1
      <4>6. QED BY <4>3, <4>4, <4>5
    <3>8. lo <= cursor + size
      BY <2>0
    <3>9. QED BY <3>1, <3>3, <3>5, <3>6, <3>7, <3>8 DEF Packed
  <2>7. CASE obj[o].pinned
    <3>1. ~(cursor > start)
      BY <1>3, <2>1, <2>3
    <3>2. done = kept
      BY <1>5, <2>7, <3>1 DEF CompactStep
    <3>3. QED BY <2>4, <3>2
  <2>8. CASE ~obj[o].pinned
    <3>1. ~(cursor + size > Barrier(R, start, hi))
      <4>1. Barrier(R, start, hi) \in Nat /\ start + size <= Barrier(R, start, hi)
        BY <1>1, BarrierAhead
      <4>2. QED BY <1>3, <2>1, <2>3, <4>1
    <3> DEFINE C == Need(req) # 0 /\ Reachable(R, lo, hi, cursor, o) >= Need(req)
               D == Spent(plan, req, size)
    <3>2. done = IF C THEN [plan EXCEPT !.verdict = "cut", !.met = TRUE]
                 ELSE IF D THEN [plan EXCEPT !.verdict = "cut"]
                 ELSE IF start = cursor THEN kept ELSE moved
      BY <1>5, <2>8, <3>1 DEF CompactStep
    <3>3. LET p == [plan EXCEPT !.verdict = "cut", !.met = TRUE] IN
          p \in PlanRecord(R) /\ p.to = plan.to /\ p.verdict = "cut"
      BY DEF PlanRecord
    <3>4. LET p == [plan EXCEPT !.verdict = "cut"] IN
          p \in PlanRecord(R) /\ p.to = plan.to /\ p.verdict = "cut"
      BY DEF PlanRecord
    <3> HIDE DEF C, D, done, kept, moved
    <3>5. QED BY <2>4, <2>5, <2>6, <2>8, <3>2, <3>3, <3>4 DEF done
  <2>9. QED BY <2>7, <2>8
<1>6. QED BY <1>4, <1>5

LEMMA PackStart ==
  ASSUME TypeOK, NEW R \in SUBSET Objects, NEW lo \in Nat, NEW hi \in Nat, lo <= hi,
         Placement(Here(R), lo, hi), NEW req, NEW N \in Nat, NEW seq \in [1 .. N -> R],
         \A i, j \in 1 .. N : i < j => obj[seq[i]].start < obj[seq[j]].start
  PROVE  Packed(R, lo, seq, N, FirstPlan(R, lo, req), 0)
<1> DEFINE plan == FirstPlan(R, lo, req)
<1>1. plan.verdict = "plan" /\ plan.cursor = lo /\ \A o \in R : plan.to[o] = obj[o].start
  BY HereType DEF FirstPlan
<1>2. /\ \A x \in R : /\ obj[x].start \in Nat /\ obj[x].size \in Nat /\ lo <= obj[x].start
      /\ \A x, y \in R : obj[x].start < obj[y].start => obj[x].start + obj[x].size <= obj[y].start
  BY PlacedOrder
<1> HIDE DEF plan
<1>3. \A o \in R : lo <= plan.to[o] /\ plan.to[o] <= obj[o].start
                   /\ (obj[o].pinned => plan.to[o] = obj[o].start)
  BY <1>1, <1>2
<1>4. \A i, j \in 1 .. N : i < j => plan.to[seq[i]] + obj[seq[i]].size <= plan.to[seq[j]]
  <2>1. \A i, j \in 1 .. N : i < j => obj[seq[i]].start + obj[seq[i]].size <= obj[seq[j]].start
    BY <1>2
  <2>2. \A i \in 1 .. N : plan.to[seq[i]] = obj[seq[i]].start
    BY <1>1
  <2>3. QED BY <2>1, <2>2
<1>5. \A i \in 1 .. N : ~(i <= 0) /\ plan.cursor <= obj[seq[i]].start
                        /\ plan.to[seq[i]] = obj[seq[i]].start
  BY <1>1, <1>2
<1>6. lo <= plan.cursor
  BY <1>1
<1>7. QED BY <1>1, <1>3, <1>4, <1>5, <1>6 DEF Packed, plan

(* The first N numbers list the blocks of R in address order.               *)
InOrder(R, N, seq) ==
  /\ \A i, j \in 1 .. N : i < j => obj[seq[i]].start < obj[seq[j]].start
  /\ \A o \in R : \E i \in 1 .. N : seq[i] = o

(* A packing pass, run over the blocks in address order, ends in a          *)
(* placement in the window, in the old order; pinned blocks stay, none     *)
(* moves up.                                                                *)
LEMMA PassPacks ==
  ASSUME TypeOK, NEW R \in SUBSET Objects, NEW lo \in Nat, NEW hi \in Nat, NEW req, NEW N \in Nat,
         NEW seq \in [1 .. N -> R], seq = ByAddress(R), lo <= hi, Placement(Here(R), lo, hi),
         InOrder(R, N, seq), NEW plan, plan = CompactPlan(R, lo, hi, req)
  PROVE  /\ ~Refused(plan) /\ DOMAIN plan.to = R /\ Placement(plan.to, lo, hi)
         /\ \A o \in R : /\ plan.to[o] \in Nat /\ plan.to[o] <= obj[o].start
                         /\ obj[o].pinned => plan.to[o] = obj[o].start
         /\ \A o, q \in R : obj[o].start < obj[q].start => plan.to[o] + obj[o].size <= plan.to[q]
<1>1. \A o, q \in R : obj[o].start = obj[q].start => o = q
  BY PlacedOrder
<1>2. /\ N \in Nat /\ seq \in [1 .. N -> R]
      /\ \A i, j \in 1 .. N : i < j => obj[seq[i]].start < obj[seq[j]].start
      /\ \A o \in R : \E i \in 1 .. N : seq[i] = o
  BY DEF InOrder
<1>3. \E run \in [0 .. N -> PlanRecord(R)] :
        /\ run[0] = FirstPlan(R, lo, req)
        /\ \A k \in 1 .. N : run[k] = CompactStep(R, lo, hi, req, run[k - 1], seq[k])
        /\ run[N] = plan
  BY CompactRuns
<1>4. PICK run \in [0 .. N -> PlanRecord(R)] :
        /\ run[0] = FirstPlan(R, lo, req)
        /\ \A k \in 1 .. N : run[k] = CompactStep(R, lo, hi, req, run[k - 1], seq[k])
        /\ run[N] = plan
  BY <1>3
<1> DEFINE Good == {k \in 0 .. N : Packed(R, lo, seq, N, run[k], k)}
<1>5. 0 \in Good
  <2>1. Packed(R, lo, seq, N, FirstPlan(R, lo, req), 0)
    BY <1>2, PackStart
  <2>2. QED BY <1>2, <1>4, <2>1
<1>6. ASSUME NEW k \in 0 .. N - 1, k \in Good
      PROVE  k + 1 \in Good
  <2>1. k + 1 \in 1 .. N /\ (k + 1) - 1 = k /\ k \in 0 .. N /\ k + 1 \in 0 .. N
    BY <1>2
  <2>2. run[k] \in PlanRecord(R) /\ Packed(R, lo, seq, N, run[k], k)
    BY <1>4, <1>6, <2>1
  <2>3. Packed(R, lo, seq, N, CompactStep(R, lo, hi, req, run[k], seq[k + 1]), k + 1)
    BY <1>2, <2>2, PackStep
  <2>4. run[k + 1] = CompactStep(R, lo, hi, req, run[k], seq[k + 1])
    BY <1>4, <2>1
  <2>5. QED BY <2>1, <2>3, <2>4
<1> HIDE DEF Good
<1>7. N \in Good
  <2>1. \A k \in 0 .. N : k \in Good
    BY <1>2, <1>5, <1>6, UpTo
  <2>2. QED BY <1>2, <2>1
<1>8. Packed(R, lo, seq, N, plan, N) /\ plan \in PlanRecord(R)
  BY <1>2, <1>4, <1>7 DEF Good
<1>9. plan.to \in [R -> Nat] /\ plan.verdict \in {"plan", "cut"}
  BY <1>8 DEF PlanRecord, Packed
<1>10. /\ \A o \in R : /\ lo <= plan.to[o] /\ plan.to[o] <= obj[o].start
                       /\ obj[o].pinned => plan.to[o] = obj[o].start
       /\ \A i, j \in 1 .. N : i < j => plan.to[seq[i]] + obj[seq[i]].size <= plan.to[seq[j]]
  BY <1>8 DEF Packed
<1>11. \A o \in R : /\ obj[o].start \in Nat /\ obj[o].size \in Nat /\ obj[o].size >= 2
                    /\ obj[o].start + obj[o].size <= hi
  BY PlacedOrder
<1>12. \A o, q \in R : obj[o].start < obj[q].start => plan.to[o] + obj[o].size <= plan.to[q]
  <2>1. SUFFICES ASSUME NEW o \in R, NEW q \in R, obj[o].start < obj[q].start
                 PROVE  plan.to[o] + obj[o].size <= plan.to[q]
    OBVIOUS
  <2>2. PICK i \in 1 .. N : seq[i] = o
    BY <1>2
  <2>3. PICK j \in 1 .. N : seq[j] = q
    BY <1>2
  <2>4. i < j
    <3>1. ~(j < i)
      <4>1. j < i => obj[q].start < obj[o].start
        BY <1>2, <2>2, <2>3
      <4>2. obj[q].start \in Nat /\ obj[o].start \in Nat
        BY <1>11
      <4>3. QED BY <2>1, <4>1, <4>2
    <3>2. i # j
      <4>1. obj[o].start \in Nat
        BY <1>11
      <4>2. o # q
        BY <2>1, <4>1
      <4>3. QED BY <2>2, <2>3, <4>2
    <3>3. QED BY <1>2, <3>1, <3>2
  <2>5. QED BY <1>10, <2>2, <2>3, <2>4
<1>13. Placement(plan.to, lo, hi)
  <2>1. DOMAIN plan.to = R /\ \A o \in R : plan.to[o] \in Nat
    BY <1>9
  <2>2. \A o \in R : EndIn(plan.to, o) = plan.to[o] + obj[o].size
    BY DEF EndIn
  <2>3. \A o \in R : plan.to[o] + obj[o].size <= hi
    BY <1>10, <1>11, <2>1
  <2>4. \A o, q \in R : o # q => \/ plan.to[o] + obj[o].size <= plan.to[q]
                                 \/ plan.to[q] + obj[q].size <= plan.to[o]
    <3>1. SUFFICES ASSUME NEW o \in R, NEW q \in R, o # q
                   PROVE  \/ plan.to[o] + obj[o].size <= plan.to[q]
                          \/ plan.to[q] + obj[q].size <= plan.to[o]
      OBVIOUS
    <3>2. obj[o].start < obj[q].start \/ obj[q].start < obj[o].start
      BY <1>1, <1>11, <3>1
    <3>3. QED BY <1>12, <3>2
  <2>5. QED BY <1>10, <1>11, <2>1, <2>2, <2>3, <2>4 DEF Placement, MinBlock
<1>14. QED BY <1>9, <1>10, <1>12, <1>13 DEF Refused

(* The same, of the plan itself.                                            *)
LEMMA CompactPacks ==
  ASSUME TypeOK, NEW R \in SUBSET Objects, NEW lo \in Nat, NEW hi \in Nat, lo <= hi,
         Placement(Here(R), lo, hi), NEW req, NEW plan, plan = CompactPlan(R, lo, hi, req)
  PROVE  /\ ~Refused(plan) /\ DOMAIN plan.to = R /\ Placement(plan.to, lo, hi)
         /\ \A o \in R : /\ plan.to[o] \in Nat /\ plan.to[o] <= obj[o].start
                         /\ obj[o].pinned => plan.to[o] = obj[o].start
         /\ \A o, q \in R : obj[o].start < obj[q].start => plan.to[o] + obj[o].size <= plan.to[q]
<1>1. \A o, q \in R : obj[o].start = obj[q].start => o = q
  BY PlacedOrder
<1>2. PICK N \in Nat : N = Cardinality(R)
  BY <1>1, AddressOrder
<1>3. PICK seq \in [1 .. N -> R] : seq = ByAddress(R)
  BY <1>1, <1>2, AddressOrder
<1>4. InOrder(R, N, seq)
  BY <1>1, <1>2, <1>3, AddressOrder DEF InOrder
<1>5. QED BY <1>3, <1>4, PassPacks

(* Descriptors after a placement: the starts move, nothing else changes.   *)
LEMMA PlacedType ==
  ASSUME TypeOK, NEW f, NEW lo \in Nat, NEW hi \in Nat, lo <= hi, hi <= Zone,
         Placement(f, lo, hi)
  PROVE  /\ Placed(f) \in [Objects -> Descriptor]
         /\ \A o \in DOMAIN f : /\ Placed(f)[o].start = f[o] /\ Placed(f)[o].size = obj[o].size
                                /\ Placed(f)[o].pool = obj[o].pool
                                /\ Placed(f)[o].pinned = obj[o].pinned
         /\ \A o \in Objects : o \notin DOMAIN f => Placed(f)[o] = obj[o]
<1>1. DOMAIN f \in SUBSET Objects
  BY DEF Placement
<1>2. \A o \in DOMAIN f : f[o] \in Units
  <2>1. SUFFICES ASSUME NEW o \in DOMAIN f PROVE f[o] \in Units
    OBVIOUS
  <2>2. f[o] \in Nat /\ EndIn(f, o) \in Nat /\ f[o] + 2 <= EndIn(f, o) /\ EndIn(f, o) <= hi
    BY <2>1, PlacedNumbers
  <2>3. QED BY <2>2, ZoneType
<1>3. obj \in [Objects -> Descriptor]
  BY TypeParts
<1>4. \A o \in DOMAIN f : [obj[o] EXCEPT !.start = f[o]] \in Descriptor
  BY <1>1, <1>2, <1>3 DEF Descriptor
<1>5. \A o \in Objects :
        Placed(f)[o] = IF o \in DOMAIN f THEN [obj[o] EXCEPT !.start = f[o]] ELSE obj[o]
  BY DEF Placed
<1>6. Placed(f) \in [Objects -> Descriptor]
  BY <1>3, <1>4 DEF Placed
<1>7. \A o \in DOMAIN f : /\ Placed(f)[o].start = f[o] /\ Placed(f)[o].size = obj[o].size
                          /\ Placed(f)[o].pool = obj[o].pool
                          /\ Placed(f)[o].pinned = obj[o].pinned
  BY <1>1, <1>3, <1>5 DEF Descriptor
<1>8. QED BY <1>5, <1>6, <1>7

(* compact *)
LEMMA CompactKeeps ==
  ASSUME HeapInv, NEW p \in Pools, NEW req, Compact(p, req)
  PROVE  HeapInv'
<1>1. PICK R, P, lo, hi : R = Residents(p) /\ P = pool[p] /\ lo = Lo(pool[p]) /\ hi = Hi(pool[p])
  OBVIOUS
<1>2. PICK plan : plan = CompactPlan(R, lo, hi, req)
  OBVIOUS
<1>3. /\ Exists(p) /\ obj' = Placed(plan.to) /\ mem' = FinalMem(mem, plan.to, lo, hi)
      /\ pool' = [pool EXCEPT ![p] = FinalPool(P, plan.to)]
  BY <1>1, <1>2 DEF Compact, PlanOf
<1>4. PICK f : f = plan.to
  OBVIOUS
<1>5. /\ TypeOK /\ lo \in Nat /\ hi \in Nat /\ lo <= hi /\ hi <= Zone
      /\ P.first + P.count <= Segments /\ lo = Lo(P) /\ hi = Hi(P)
  BY <1>1, <1>3, PoolWindow
<1>6. R \in SUBSET Objects /\ Placement(Here(R), lo, hi)
  BY <1>1, <1>3, PlacedHere DEF Residents
<1>7. DOMAIN f = R /\ Placement(f, lo, hi)
  BY <1>2, <1>4, <1>5, <1>6, CompactPacks
<1>8. /\ pool \in [Pools -> PoolRecord] /\ P \in PoolRecord /\ mem \in [Units -> Header]
  BY <1>1, <1>5, TypeParts
<1>9. PICK F : F = FinalPool(P, f)
  OBVIOUS
<1>10. /\ F \in PoolRecord /\ F.first = P.first /\ F.count = P.count
       /\ F.used = Total(Sizes, DOMAIN f) /\ F.live = Cardinality(DOMAIN f)
       /\ F.bins = {h.from : h \in FreeRuns(f, lo, hi)}
       /\ F.fragment = SlackLength(f, lo, hi)
  BY <1>5, <1>7, <1>8, <1>9, FinalPoolIs
<1>11. PICK M : M = FinalMem(mem, f, lo, hi)
  OBVIOUS
<1>12. M \in [Units -> Header]
  BY <1>5, <1>7, <1>8, <1>11, FinalType
<1>13. /\ Placed(f) \in [Objects -> Descriptor]
       /\ \A o \in R : /\ Placed(f)[o].start = f[o] /\ Placed(f)[o].size = obj[o].size
                       /\ Placed(f)[o].pool = obj[o].pool
       /\ \A o \in Objects : o \notin R => Placed(f)[o] = obj[o]
  BY <1>5, <1>7, PlacedType
<1>14. obj' = Placed(f) /\ mem' = M /\ pool' = [pool EXCEPT ![p] = F]
  BY <1>3, <1>4, <1>9, <1>11
<1>15. pool'[p] = F /\ \A q \in Pools : q # p => pool'[q] = pool[q]
  BY <1>8, <1>14
<1>16. TypeOK'
  <2>1. pool' \in [Pools -> PoolRecord] /\ obj' \in [Objects -> Descriptor]
        /\ mem' \in [Units -> Header]
    BY <1>8, <1>10, <1>12, <1>13, <1>14
  <2>2. QED BY <2>1 DEF TypeOK, PoolRecord, Descriptor, Header
<1>17. \A u \in Units : u < lo \/ hi <= u => mem'[u] = mem[u]
  BY <1>5, <1>11, <1>14, FinalOutside
<1>18. \A o \in Objects : \/ obj'[o] = obj[o]
                          \/ obj[o].pool = p /\ obj'[o].pool = p
  BY <1>1, <1>13, <1>14 DEF Residents
<1>19. PoolInv(p)'
  <2>1. Residents(p)' = DOMAIN f
    <3>1. \A o \in Objects : obj'[o].size > 0 /\ obj'[o].pool = p <=> o \in R
      BY <1>1, <1>13, <1>14 DEF Residents
    <3>2. QED BY <1>6, <1>7, <3>1 DEF Residents
  <2>2. /\ pool'[p].first = P.first /\ pool'[p].count = P.count
        /\ pool'[p].used = Total(Sizes, DOMAIN f) /\ pool'[p].live = Cardinality(DOMAIN f)
        /\ pool'[p].bins = {h.from : h \in FreeRuns(f, Lo(P), Hi(P))}
        /\ pool'[p].fragment = SlackLength(f, Lo(P), Hi(P))
    BY <1>5, <1>10, <1>15
  <2>3. \A o \in DOMAIN f : obj'[o].start = f[o] /\ obj'[o].size = obj[o].size
    BY <1>7, <1>13, <1>14
  <2>4. \A u \in Units : Lo(P) <= u /\ u < Hi(P) => mem'[u] = FinalMem(mem, f, Lo(P), Hi(P))[u]
    BY <1>5, <1>11, <1>14
  <2>5. TypeOK /\ P \in PoolRecord /\ P.first + P.count <= Segments
        /\ Placement(f, Lo(P), Hi(P)) /\ mem \in [Units -> Header]
    BY <1>5, <1>7, <1>8
  <2>6. QED BY ONLY p \in Pools, <2>1, <2>2, <2>3, <2>4, <2>5, Settles
<1>20. pool'[p].first = pool[p].first /\ pool'[p].count = pool[p].count
  BY <1>1, <1>10, <1>15
<1>21. QED BY <1>1, <1>3, <1>15, <1>16, <1>17, <1>18, <1>19, <1>20, InPlace

(* The window of two adjacent pools holds the blocks of both, apart from   *)
(* every other pool.                                                        *)
LEMMA JoinedWindow ==
  ASSUME HeapInv, NEW s \in Pools, NEW t \in Pools, Adjacent(s, t),
         NEW J, J = Joined(s, t), NEW R, R = Residents(s) \cup Residents(t)
  PROVE  /\ J \in PoolRecord /\ J.first + J.count <= Segments /\ J.count > 0
         /\ Lo(J) \in Nat /\ Hi(J) \in Nat /\ Lo(J) <= Hi(J) /\ Hi(J) <= Zone
         /\ R \in SUBSET Objects /\ Placement(Here(R), Lo(J), Hi(J))
         /\ \A q \in Pools : q # s /\ q # t /\ Exists(q) => Apart(J, pool[q])
         /\ \A p \in {s, t} : Lo(J) <= Lo(pool[p]) /\ Hi(pool[p]) <= Hi(J)
<1>1. /\ TypeOK /\ s # t /\ Exists(s) /\ Exists(t)
      /\ pool[s].first \in Nat /\ pool[s].count \in Nat /\ pool[s].count > 0
      /\ pool[t].first \in Nat /\ pool[t].count \in Nat /\ pool[t].count > 0
      /\ pool[s].first + pool[s].count <= Segments /\ pool[t].first + pool[t].count <= Segments
  BY PoolWindow DEF Adjacent
<1>2. PICK low \in Pools, up \in Pools :
        /\ {low, up} = {s, t} /\ low # up
        /\ pool[up].first = pool[low].first + pool[low].count
        /\ low = Lower(s, t)
  <2>1. CASE JustBelow(s, t)
    <3>1. pool[t].first = pool[s].first + pool[s].count
      BY <2>1 DEF JustBelow
    <3>2. s = Lower(s, t)
      BY <1>1, <3>1 DEF Lower
    <3>3. QED BY <1>1, <3>1, <3>2
  <2>2. CASE JustBelow(t, s)
    <3>1. pool[s].first = pool[t].first + pool[t].count
      BY <2>2 DEF JustBelow
    <3>2. t = Lower(s, t)
      BY <1>1, <3>1 DEF Lower
    <3>3. QED BY <1>1, <3>1, <3>2
  <2>3. QED BY <2>1, <2>2 DEF Adjacent
<1>3. /\ pool[low].first \in Nat /\ pool[low].count \in Nat /\ pool[low].count > 0
      /\ pool[up].first \in Nat /\ pool[up].count \in Nat /\ pool[up].count > 0
      /\ pool[up].first + pool[up].count <= Segments
      /\ Exists(low) /\ Exists(up)
  BY <1>1, <1>2
<1>4. pool \in [Pools -> PoolRecord] /\ Segments \in Nat
  BY <1>1, TypeParts, HeapAssumption
<1>5. J.first = pool[low].first /\ J.count = pool[s].count + pool[t].count
  BY <1>2, <1>4 DEF Joined, PoolRecord
<1>6. J.count = pool[low].count + pool[up].count
  <2>1. (low = s /\ up = t) \/ (low = t /\ up = s)
    BY <1>2
  <2>2. QED BY <1>1, <1>5, <2>1
<1>7. /\ J.first \in Nat /\ J.count \in Nat /\ J.count > 0 /\ J.first + J.count <= Segments
      /\ J.first + J.count = pool[up].first + pool[up].count
  BY <1>2, <1>3, <1>4, <1>5, <1>6
<1>8. J \in PoolRecord
  <2>1. J.first \in 0 .. Segments /\ J.count \in 0 .. Segments
    BY <1>4, <1>7
  <2>3. PICK P \in PoolRecord, a \in 0 .. Segments, n \in 0 .. Segments :
          P = pool[t] /\ a = pool[low].first /\ n = pool[s].count + pool[t].count
    BY <1>4, <1>5, <2>1
  <2>4. J = [P EXCEPT !.first = a, !.count = n]
    BY <1>2, <2>3 DEF Joined
  <2>5. [P EXCEPT !.first = a, !.count = n] \in PoolRecord
    BY DEF PoolRecord
  <2>6. QED BY <2>4, <2>5
<1>9. Lo(J) = Lo(pool[low]) /\ Hi(J) = Hi(pool[up]) /\ Hi(pool[low]) = Lo(pool[up])
  BY <1>2, <1>5, <1>7 DEF Lo, Hi
<1>10. /\ Lo(pool[low]) \in Nat /\ Hi(pool[low]) \in Nat /\ Lo(pool[low]) <= Hi(pool[low])
       /\ Lo(pool[up]) \in Nat /\ Hi(pool[up]) \in Nat /\ Lo(pool[up]) <= Hi(pool[up])
       /\ Hi(pool[up]) <= Zone
  BY <1>3, PoolWindow
<1>11. /\ Lo(J) \in Nat /\ Hi(J) \in Nat /\ Lo(J) <= Hi(J) /\ Hi(J) <= Zone
       /\ \A p \in {low, up} : Lo(J) <= Lo(pool[p]) /\ Hi(pool[p]) <= Hi(J)
  BY <1>9, <1>10
<1>12. R = Residents(low) \cup Residents(up) /\ R \in SUBSET Objects
  BY <1>2 DEF Residents
<1>13. Placement(Here(R), Lo(J), Hi(J))
  <2>1. /\ \A o \in R : o \in Objects /\ obj[o].start \in Nat /\ obj[o].size \in Nat
                        /\ obj[o].size >= 2
        /\ \A o \in Residents(low) : /\ Lo(J) <= obj[o].start
                                     /\ obj[o].start + obj[o].size <= Hi(pool[low])
        /\ \A o \in Residents(up) : /\ Hi(pool[low]) <= obj[o].start
                                    /\ obj[o].start + obj[o].size <= Hi(J)
    <3>1. \A p \in {low, up} : \A o \in Residents(p) :
            /\ o \in Objects /\ obj[o].start \in Nat /\ obj[o].size \in Nat /\ obj[o].size >= 2
            /\ Lo(pool[p]) <= obj[o].start /\ obj[o].start + obj[o].size <= Hi(pool[p])
      BY <1>3, BlockFacts
    <3>2. QED BY <1>9, <1>12, <3>1
  <2>2. \A o \in R : Lo(J) <= obj[o].start /\ obj[o].start + obj[o].size <= Hi(J)
    BY <1>10, <1>9, <1>12, <2>1
  <2>3. \A p \in {low, up} : \A o, q \in Residents(p) :
          o # q => \/ obj[o].start + obj[o].size <= obj[q].start
                   \/ obj[q].start + obj[q].size <= obj[o].start
    <3>1. SUFFICES ASSUME NEW p \in {low, up}, NEW o \in Residents(p), NEW q \in Residents(p), o # q
                   PROVE  \/ obj[o].start + obj[o].size <= obj[q].start
                          \/ obj[q].start + obj[q].size <= obj[o].start
      OBVIOUS
    <3>2. p \in Pools /\ Exists(p) /\ obj[o].start \in Nat /\ obj[q].start \in Nat
      BY <1>3, <1>12, <2>1, <3>1
    <3>3. obj[o].start # obj[q].start
      BY <3>1, <3>2 DEF HeapInv, PoolInv
    <3>4. obj[o].start < obj[q].start \/ obj[q].start < obj[o].start
      BY <3>2, <3>3
    <3>5. obj[o].start < obj[q].start => obj[o].start + obj[o].size <= obj[q].start
      BY <3>2, BlocksApart
    <3>6. obj[q].start < obj[o].start => obj[q].start + obj[q].size <= obj[o].start
      BY <3>2, BlocksApart
    <3>7. QED BY <3>4, <3>5, <3>6
  <2>4. \A o \in Residents(low), q \in Residents(up) : obj[o].start + obj[o].size <= obj[q].start
    BY <1>10, <1>12, <2>1
  <2>5. \A o, q \in R : o # q => \/ obj[o].start + obj[o].size <= obj[q].start
                                 \/ obj[q].start + obj[q].size <= obj[o].start
    BY <1>12, <2>3, <2>4
  <2>6. DOMAIN Here(R) = R /\ \A o \in R : Here(R)[o] = obj[o].start
    BY DEF Here
  <2>7. QED BY <1>12, <2>1, <2>2, <2>5, <2>6 DEF Placement, EndIn, MinBlock
<1>14. ASSUME NEW q \in Pools, q # s, q # t, Exists(q)
       PROVE  Apart(J, pool[q])
  <2>1. Apart(pool[low], pool[q]) /\ Apart(pool[up], pool[q])
    BY <1>2, <1>3, <1>14 DEF HeapInv
  <2>2. pool[q].first \in Nat /\ pool[q].count \in Nat /\ pool[q].count > 0
    BY <1>1, <1>14, PoolTypes DEF Exists
  <2>3. QED BY <1>2, <1>3, <1>5, <1>6, <2>1, <2>2 DEF Apart
<1>15. \A p \in {s, t} : Lo(J) <= Lo(pool[p]) /\ Hi(pool[p]) <= Hi(J)
  BY <1>2, <1>11
<1>16. QED BY <1>7, <1>8, <1>11, <1>12, <1>13, <1>14, <1>15

(* PackingNeverRefused from the invariant *)
LEMMA PackingHolds ==
  ASSUME HeapInv
  PROVE  PackingNeverRefused
<1>1. ASSUME NEW p \in Pools, Exists(p)
      PROVE  ~Refused(PlanOf(p, NoRequest))
  <2>1. PICK R, lo, hi : R = Residents(p) /\ lo = Lo(pool[p]) /\ hi = Hi(pool[p])
    OBVIOUS
  <2>2. PICK plan : plan = CompactPlan(R, lo, hi, NoRequest)
    OBVIOUS
  <2>3. TypeOK /\ lo \in Nat /\ hi \in Nat /\ lo <= hi
    BY <1>1, <2>1, PoolWindow
  <2>4. R \in SUBSET Objects /\ Placement(Here(R), lo, hi)
    BY <1>1, <2>1, PlacedHere DEF Residents
  <2>5. ~Refused(plan)
    BY <2>2, <2>3, <2>4, CompactPacks
  <2>6. QED BY <2>1, <2>2, <2>5 DEF PlanOf
<1>2. ASSUME NEW s \in Pools, NEW t \in Pools, Adjacent(s, t)
      PROVE  ~Refused(MergePlan(s, t))
  <2>1. PICK R, J : R = Residents(s) \cup Residents(t) /\ J = Joined(s, t)
    OBVIOUS
  <2>2. PICK lo, hi : lo = Lo(J) /\ hi = Hi(J)
    OBVIOUS
  <2>3. PICK plan : plan = CompactPlan(R, lo, hi, NoRequest)
    OBVIOUS
  <2>4. /\ lo \in Nat /\ hi \in Nat /\ lo <= hi /\ R \in SUBSET Objects
        /\ Placement(Here(R), lo, hi)
    BY <1>2, <2>1, <2>2, JoinedWindow
  <2>5. TypeOK
    BY DEF HeapInv
  <2>6. ~Refused(plan)
    BY <2>3, <2>4, <2>5, CompactPacks
  <2>7. QED BY <2>1, <2>2, <2>3, <2>6 DEF MergePlan
<1>3. QED BY <1>1, <1>2 DEF PackingNeverRefused

(* merge *)
LEMMA MergeKeeps ==
  ASSUME HeapInv, NEW s \in Pools, NEW t \in Pools, Merge(s, t)
  PROVE  HeapInv'
<1>1. PICK R, J : R = Residents(s) \cup Residents(t) /\ J = Joined(s, t)
  OBVIOUS
<1>2. PICK lo, hi : lo = Lo(J) /\ hi = Hi(J)
  OBVIOUS
<1>3. PICK plan : plan = CompactPlan(R, lo, hi, NoRequest)
  OBVIOUS
<1>4. PICK f : f = plan.to
  OBVIOUS
<1>5. /\ Adjacent(s, t) /\ s # t
      /\ obj' = [o \in Objects |-> IF o \in DOMAIN f
                                   THEN [Placed(f)[o] EXCEPT !.pool = t] ELSE obj[o]]
      /\ mem' = FinalMem(mem, f, lo, hi)
      /\ pool' = [pool EXCEPT ![t] = FinalPool(J, f), ![s] = EmptyPool]
  BY <1>1, <1>2, <1>3, <1>4 DEF Merge, MergePlan, Adjacent
<1>6. /\ TypeOK /\ lo \in Nat /\ hi \in Nat /\ lo <= hi /\ hi <= Zone
      /\ J \in PoolRecord /\ J.first + J.count <= Segments /\ J.count > 0
      /\ R \in SUBSET Objects /\ Placement(Here(R), lo, hi)
      /\ \A q \in Pools : q # s /\ q # t /\ Exists(q) => Apart(J, pool[q])
  <2>1. TypeOK
    BY DEF HeapInv
  <2>0. Adjacent(s, t)
    BY <1>5
  <2>2. /\ J \in PoolRecord /\ J.first + J.count <= Segments /\ J.count > 0
        /\ Lo(J) \in Nat /\ Hi(J) \in Nat /\ Lo(J) <= Hi(J) /\ Hi(J) <= Zone
        /\ R \in SUBSET Objects /\ Placement(Here(R), Lo(J), Hi(J))
        /\ \A q \in Pools : q # s /\ q # t /\ Exists(q) => Apart(J, pool[q])
    <3>1. J = Joined(s, t) /\ R = Residents(s) \cup Residents(t)
      BY <1>1
    <3>2. QED BY <2>0, <3>1, JoinedWindow
  <2>3. lo \in Nat /\ hi \in Nat /\ lo <= hi /\ hi <= Zone
    BY <1>2, <2>2
  <2>4. Placement(Here(R), lo, hi)
    BY <1>2, <2>2
  <2>5. QED BY ONLY <2>1, <2>2, <2>3, <2>4
<1>7. DOMAIN f = R /\ Placement(f, lo, hi)
  BY <1>3, <1>4, <1>6, CompactPacks
<1>8. /\ pool \in [Pools -> PoolRecord] /\ mem \in [Units -> Header]
      /\ obj \in [Objects -> Descriptor] /\ EmptyPool \in PoolRecord /\ EmptyPool.count = 0
  BY <1>6, TypeParts, EmptyTypes
<1>9. PICK F : F = FinalPool(J, f)
  OBVIOUS
<1>10. /\ F \in PoolRecord /\ F.first = J.first /\ F.count = J.count
       /\ F.used = Total(Sizes, DOMAIN f) /\ F.live = Cardinality(DOMAIN f)
       /\ F.bins = {h.from : h \in FreeRuns(f, lo, hi)}
       /\ F.fragment = SlackLength(f, lo, hi)
  BY <1>2, <1>6, <1>7, <1>9, FinalPoolIs
<1>11. PICK M : M = FinalMem(mem, f, lo, hi)
  OBVIOUS
<1>12. M \in [Units -> Header]
  BY <1>6, <1>7, <1>8, <1>11, FinalType
<1>13. PICK g : g = Placed(f)
  OBVIOUS
<1>14. /\ g \in [Objects -> Descriptor]
       /\ \A o \in R : g[o].start = f[o] /\ g[o].size = obj[o].size
  BY <1>6, <1>7, <1>13, PlacedType
<1>15. /\ mem' = M /\ pool' = [pool EXCEPT ![t] = F, ![s] = EmptyPool]
       /\ obj' = [o \in Objects |-> IF o \in R THEN [g[o] EXCEPT !.pool = t] ELSE obj[o]]
  BY <1>5, <1>7, <1>9, <1>11, <1>13
<1>16. /\ pool'[t] = F /\ pool'[s] = EmptyPool
       /\ \A q \in Pools : q # s /\ q # t => pool'[q] = pool[q]
  BY <1>5, <1>8, <1>15
<1>17. /\ \A o \in R : /\ obj'[o].start = f[o] /\ obj'[o].size = obj[o].size
                       /\ obj'[o].pool = t
       /\ \A o \in Objects : o \notin R => obj'[o] = obj[o]
  BY <1>6, <1>14, <1>15 DEF Descriptor
<1>18. TypeOK'
  <2>1. pool' \in [Pools -> PoolRecord]
    BY <1>8, <1>10, <1>15
  <2>2. obj' \in [Objects -> Descriptor]
    BY <1>8, <1>14, <1>15 DEF Descriptor
  <2>3. mem' \in [Units -> Header]
    BY <1>12, <1>15
  <2>4. QED BY <2>1, <2>2, <2>3 DEF TypeOK, PoolRecord, Descriptor, Header
<1>19. ASSUME NEW q \in Pools, q # s, q # t
       PROVE  /\ pool'[q] = pool[q] /\ Residents(q)' = Residents(q)
              /\ \A o \in Residents(q) : obj'[o].start = obj[o].start /\ obj'[o].size = obj[o].size
  <2>1. \A o \in Residents(q) : o \in Objects /\ o \notin R
    BY <1>1, <1>19 DEF Residents
  <2>2. \A o \in Residents(q) : obj'[o] = obj[o]
    BY <1>17, <2>1
  <2>3. \A o \in Objects : obj'[o].size > 0 /\ obj'[o].pool = q => obj'[o] = obj[o]
    BY <1>17, <1>19
  <2>4. QED BY <1>16, <1>19, <2>2, <2>3 DEF Residents
<1>20. ASSUME NEW q \in Pools, q # s, q # t, Exists(q), NEW u \in Units,
              Lo(pool[q]) <= u, u < Hi(pool[q])
       PROVE  mem'[u] = mem[u]
  <2>1. pool[q].first + pool[q].count <= Segments
    BY <1>20 DEF HeapInv, PoolInv
  <2>2. J.first \in Nat /\ J.count \in Nat
    BY <1>6 DEF PoolRecord
  <2>3. Apart(J, pool[q])
    BY <1>6, <1>20
  <2>4. u < lo \/ hi <= u
    BY <1>2, <1>6, <1>20, <2>1, <2>2, <2>3, OtherWindow
  <2>5. QED BY <1>6, <1>11, <1>15, <2>4, FinalOutside
<1>21. PoolInv(t)'
  <2>1. Residents(t)' = DOMAIN f
    <3>1. \A o \in Objects : obj'[o].size > 0 /\ obj'[o].pool = t <=> o \in R
      BY <1>1, <1>17 DEF Residents
    <3>2. QED BY <1>6, <1>7, <3>1 DEF Residents
  <2>2. /\ pool'[t].first = J.first /\ pool'[t].count = J.count
        /\ pool'[t].used = Total(Sizes, DOMAIN f) /\ pool'[t].live = Cardinality(DOMAIN f)
        /\ pool'[t].bins = {h.from : h \in FreeRuns(f, Lo(J), Hi(J))}
        /\ pool'[t].fragment = SlackLength(f, Lo(J), Hi(J))
    BY <1>2, <1>10, <1>16
  <2>3. \A o \in DOMAIN f : obj'[o].start = f[o] /\ obj'[o].size = obj[o].size
    BY <1>7, <1>17
  <2>4. \A u \in Units : Lo(J) <= u /\ u < Hi(J) => mem'[u] = FinalMem(mem, f, Lo(J), Hi(J))[u]
    BY <1>2, <1>11, <1>15
  <2>5. TypeOK /\ J \in PoolRecord /\ J.first + J.count <= Segments
        /\ Placement(f, Lo(J), Hi(J)) /\ mem \in [Units -> Header]
    BY <1>2, <1>6, <1>7, <1>8
  <2>6. QED BY ONLY t \in Pools, <2>1, <2>2, <2>3, <2>4, <2>5, Settles
<1>22. \A o \in Objects : obj'[o].size > 0 => pool'[obj'[o].pool].count > 0
  <2>1. SUFFICES ASSUME NEW o \in Objects, obj'[o].size > 0 PROVE pool'[obj'[o].pool].count > 0
    OBVIOUS
  <2>2. CASE o \in R
    BY <1>6, <1>10, <1>16, <1>17, <2>2
  <2>3. CASE o \notin R
    <3>1. obj'[o] = obj[o] /\ obj[o].size > 0
      BY <1>17, <2>1, <2>3
    <3>2. pool[obj[o].pool].count > 0 /\ obj[o].pool \in Pools
      BY <1>6, <3>1, ObjTypes DEF HeapInv, Exists
    <3>3. obj[o].pool # s /\ obj[o].pool # t
      BY <1>1, <2>3, <3>1 DEF Residents
    <3>4. QED BY <1>16, <3>1, <3>2, <3>3
  <2>4. QED BY <2>2, <2>3
<1>23. ASSUME NEW r \in {s, t}, NEW q \in Pools, r # q, Exists(r)', Exists(q)'
       PROVE  Apart(pool'[r], pool'[q])
  <2>1. r = t
    BY <1>8, <1>16, <1>23 DEF Exists
  <2>2. q # s /\ q # t
    BY <1>8, <1>16, <1>23, <2>1 DEF Exists
  <2>3. pool'[q] = pool[q] /\ Exists(q)
    BY <1>16, <1>23, <2>2 DEF Exists
  <2>4. QED BY <1>6, <1>10, <1>16, <2>1, <2>2, <2>3 DEF Apart
<1>24. QED
  <2>1. {s, t} \in SUBSET Pools
    OBVIOUS
  <2>2. \A r \in {s, t} : Exists(r)' => PoolInv(r)'
    BY <1>8, <1>16, <1>21 DEF Exists
  <2>3. \A q \in Pools \ {s, t} :
          /\ pool'[q] = pool[q] /\ Residents(q)' = Residents(q)
          /\ \A o \in Residents(q) : obj'[o].start = obj[o].start /\ obj'[o].size = obj[o].size
    BY <1>19
  <2>4. \A q \in Pools \ {s, t} : Exists(q) =>
          \A u \in Units : Lo(pool[q]) <= u /\ u < Hi(pool[q]) => mem'[u] = mem[u]
    BY <1>20
  <2>5. QED BY <1>18, <1>22, <1>23, <2>1, <2>2, <2>3, <2>4, HeapKept

-----------------------------------------------------------------------------
(* split *)

SplitRecord(R) ==
  [low : Nat, up : Nat, to : [R -> Nat], verdict : {"plan", "PinnedConflict", "NoSpace"}]

FirstSplit(R, lo, boundary) ==
  [low |-> lo, up |-> boundary, to |-> Here(R), verdict |-> "plan"]

(* What one step of the split planner does to a plan that goes on: the     *)
(* block is put at the cursor of its side and below that side's end, or    *)
(* stays when it is pinned.                                                 *)
StepsOn(R, boundary, hi, plan, o, next) ==
  LET start == obj[o].start  size == obj[o].size IN
  /\ plan.verdict = "plan"
  /\ Upper(o, boundary) =>
       /\ next.low = plan.low
       /\ \/ /\ obj[o].pinned /\ boundary <= start /\ plan.up <= start
             /\ next.up = start + size /\ next.to = plan.to
          \/ /\ ~obj[o].pinned /\ plan.up + size <= hi
             /\ next.up = plan.up + size /\ next.to = [plan.to EXCEPT ![o] = plan.up]
  /\ ~Upper(o, boundary) =>
       /\ next.up = plan.up
       /\ \/ /\ obj[o].pinned /\ plan.low <= start
             /\ next.low = start + size /\ next.to = plan.to
          \/ /\ ~obj[o].pinned /\ plan.low + size <= boundary
             /\ next.low = plan.low + size /\ next.to = [plan.to EXCEPT ![o] = plan.low]

LEMMA SplitStepIs ==
  ASSUME TypeOK, NEW R \in SUBSET Objects, NEW boundary \in Nat, NEW hi \in Nat,
         NEW plan \in SplitRecord(R), NEW o \in R,
         NEW next, next = SplitStep(R, boundary, hi, plan, o)
  PROVE  /\ next \in SplitRecord(R)
         /\ next.verdict = "plan" => StepsOn(R, boundary, hi, plan, o, next)
<1>1. PICK start \in Nat, size \in Nat : start = obj[o].start /\ size = obj[o].size
  BY ObjTypes
<1>2. /\ plan.low \in Nat /\ plan.up \in Nat /\ plan.to \in [R -> Nat]
      /\ plan.verdict \in {"plan", "PinnedConflict", "NoSpace"}
  BY DEF SplitRecord
<1>3. /\ \A v \in {"plan", "PinnedConflict", "NoSpace"} :
           /\ [plan EXCEPT !.verdict = v] \in SplitRecord(R)
           /\ [plan EXCEPT !.verdict = v].verdict = v
      /\ \A a \in Nat : /\ [plan EXCEPT !.low = a] \in SplitRecord(R)
                        /\ [plan EXCEPT !.up = a] \in SplitRecord(R)
  BY DEF SplitRecord
<1>4. \A u \in Nat : PinnedAbove(R, u) \in SUBSET Nat
  BY ObjTypes DEF PinnedAbove
<1>5. CASE plan.verdict # "plan"
  BY <1>5 DEF SplitStep
<1>6. CASE plan.verdict = "plan" /\ obj[o].pinned
  <2>1. CASE Upper(o, boundary)
    <3> DEFINE A == start < boundary \/ plan.up > start
    <3>1. next = IF A THEN [plan EXCEPT !.verdict = "PinnedConflict"]
                 ELSE [plan EXCEPT !.up = start + size]
      BY <1>1, <1>6, <2>1 DEF SplitStep
    <3>2. CASE A
      BY <1>3, <3>1, <3>2
    <3>3. CASE ~A
      <4>1. /\ next = [plan EXCEPT !.up = start + size] /\ start + size \in Nat
            /\ boundary <= start /\ plan.up <= start
        BY <1>1, <1>2, <3>1, <3>3
      <4>2. next \in SplitRecord(R)
        BY <1>3, <4>1
      <4>3. next.low = plan.low /\ next.up = start + size /\ next.to = plan.to
        BY <4>1 DEF SplitRecord
      <4>4. QED BY <1>1, <1>6, <2>1, <4>1, <4>2, <4>3 DEF StepsOn
    <3>4. QED BY <3>2, <3>3
  <2>2. CASE ~Upper(o, boundary)
    <3>1. next = IF plan.low > start THEN [plan EXCEPT !.verdict = "PinnedConflict"]
                 ELSE [plan EXCEPT !.low = start + size]
      BY <1>1, <1>6, <2>2 DEF SplitStep
    <3>2. CASE plan.low > start
      BY <1>3, <3>1, <3>2
    <3>3. CASE ~(plan.low > start)
      <4>1. /\ next = [plan EXCEPT !.low = start + size] /\ start + size \in Nat
            /\ plan.low <= start
        BY <1>1, <1>2, <3>1, <3>3
      <4>2. next \in SplitRecord(R)
        BY <1>3, <4>1
      <4>3. next.up = plan.up /\ next.low = start + size /\ next.to = plan.to
        BY <4>1 DEF SplitRecord
      <4>4. QED BY <1>1, <1>6, <2>2, <4>1, <4>2, <4>3 DEF StepsOn
    <3>4. QED BY <3>2, <3>3
  <2>3. QED BY <2>1, <2>2
<1>7. CASE plan.verdict = "plan" /\ ~obj[o].pinned
  <2>1. CASE Upper(o, boundary)
    <3> DEFINE bars == PinnedAbove(R, start)
               v == IF bars # {} THEN "PinnedConflict" ELSE "NoSpace"
    <3>1. next = IF plan.up + size > Min(bars \cup {hi}) THEN [plan EXCEPT !.verdict = v]
                 ELSE [plan EXCEPT !.up = plan.up + size, !.to[o] = plan.up]
      BY <1>1, <1>7, <2>1 DEF SplitStep
    <3>2. Min(bars \cup {hi}) \in Nat /\ Min(bars \cup {hi}) <= hi
      <4>1. bars \cup {hi} \in SUBSET Nat /\ bars \cup {hi} # {}
        BY <1>4
      <4> HIDE DEF bars
      <4>2. QED BY <4>1, MinOfNumbers
    <3>3. v \in {"PinnedConflict", "NoSpace"}
      OBVIOUS
    <3> HIDE DEF bars, v
    <3>4. CASE plan.up + size > Min(bars \cup {hi})
      BY <1>3, <3>1, <3>3, <3>4
    <3>5. CASE ~(plan.up + size > Min(bars \cup {hi}))
      <4>0. plan.up + size \in Nat /\ plan.up + size <= hi
        BY <1>1, <1>2, <3>2, <3>5
      <4>1. next = [plan EXCEPT !.up = plan.up + size, !.to[o] = plan.up]
        BY <3>1, <3>5
      <4>2. next \in SplitRecord(R)
        <5>1. [plan.to EXCEPT ![o] = plan.up] \in [R -> Nat]
          BY <1>2
        <5>2. [plan EXCEPT !.up = plan.up + size, !.to[o] = plan.up] \in SplitRecord(R)
          BY <4>0, <5>1 DEF SplitRecord
        <5>3. QED BY <4>1, <5>2
      <4>3. /\ next.low = plan.low /\ next.up = plan.up + size
            /\ next.to = [plan.to EXCEPT ![o] = plan.up]
        BY <4>1 DEF SplitRecord
      <4>4. QED BY <1>1, <1>7, <2>1, <4>0, <4>2, <4>3 DEF StepsOn
    <3>6. QED BY <3>4, <3>5
  <2>2. CASE ~Upper(o, boundary)
    <3> DEFINE bars == {b \in PinnedAbove(R, start) : b < boundary}
               v == IF bars # {} THEN "PinnedConflict" ELSE "NoSpace"
    <3>1. next = IF plan.low + size > Min(bars \cup {boundary}) THEN [plan EXCEPT !.verdict = v]
                 ELSE [plan EXCEPT !.low = plan.low + size, !.to[o] = plan.low]
      BY <1>1, <1>7, <2>2 DEF SplitStep
    <3>2. Min(bars \cup {boundary}) \in Nat /\ Min(bars \cup {boundary}) <= boundary
      <4>1. bars \cup {boundary} \in SUBSET Nat /\ bars \cup {boundary} # {}
        BY <1>4
      <4> HIDE DEF bars
      <4>2. QED BY <4>1, MinOfNumbers
    <3>3. v \in {"PinnedConflict", "NoSpace"}
      OBVIOUS
    <3> HIDE DEF bars, v
    <3>4. CASE plan.low + size > Min(bars \cup {boundary})
      BY <1>3, <3>1, <3>3, <3>4
    <3>5. CASE ~(plan.low + size > Min(bars \cup {boundary}))
      <4>0. plan.low + size \in Nat /\ plan.low + size <= boundary
        BY <1>1, <1>2, <3>2, <3>5
      <4>1. next = [plan EXCEPT !.low = plan.low + size, !.to[o] = plan.low]
        BY <3>1, <3>5
      <4>2. next \in SplitRecord(R)
        <5>1. [plan.to EXCEPT ![o] = plan.low] \in [R -> Nat]
          BY <1>2
        <5>2. [plan EXCEPT !.low = plan.low + size, !.to[o] = plan.low] \in SplitRecord(R)
          BY <4>0, <5>1 DEF SplitRecord
        <5>3. QED BY <4>1, <5>2
      <4>3. /\ next.up = plan.up /\ next.low = plan.low + size
            /\ next.to = [plan.to EXCEPT ![o] = plan.low]
        BY <4>1 DEF SplitRecord
      <4>4. QED BY <1>1, <1>7, <2>2, <4>0, <4>2, <4>3 DEF StepsOn
    <3>6. QED BY <3>4, <3>5
  <2>3. QED BY <2>1, <2>2
<1>8. QED BY <1>2, <1>5, <1>6, <1>7

(* The planner's fold, as the values it takes block by block.              *)
SplitRun(p, boundary, N, seq, plan) ==
  \E run \in [0 .. N -> SplitRecord(Residents(p))] :
    /\ run[0] = FirstSplit(Residents(p), Lo(pool[p]), boundary)
    /\ \A k \in 1 .. N :
         run[k] = SplitStep(Residents(p), boundary, Hi(pool[p]), run[k - 1], seq[k])
    /\ run[N] = plan

LEMMA SplitRuns ==
  ASSUME TypeOK, NEW p \in Pools, Lo(pool[p]) \in Nat, Hi(pool[p]) \in Nat, NEW boundary \in Nat,
         NEW N \in Nat, NEW seq \in [1 .. N -> Residents(p)], seq = ByAddress(Residents(p)),
         NEW plan, plan = SplitPlan(p, boundary)
  PROVE  SplitRun(p, boundary, N, seq, plan)
<1> DEFINE R == Residents(p)
           Step(x, o) == SplitStep(R, boundary, Hi(pool[p]), x, o)
           V == SplitRecord(R)
           base == FirstSplit(R, Lo(pool[p]), boundary)
           step == [x \in V \X R |-> Step(x[1], x[2])]
           Eq(g) == g = [s \in SUBSET (1 .. N) |->
                           IF s = {} THEN base ELSE Step(g[s \ {Max(s)}], seq[Max(s)])]
           h == CHOOSE g : Eq(g)
<1>1. plan = h[1 .. N]
  <2>1. DOMAIN seq = 1 .. N
    OBVIOUS
  <2>2. QED BY <2>1 DEF SplitPlan, FoldLeft, MapThenFoldSet, FirstSplit
<1>2. R \in SUBSET Objects /\ \A x \in V, o \in R : Step(x, o) \in V
  <2>1. R \in SUBSET Objects
    BY DEF Residents
  <2> HIDE DEF R
  <2>2. QED BY <2>1, SplitStepIs
<1>3. base \in V /\ seq \in [1 .. N -> R]
  <2>1. Here(R) \in [R -> Nat] /\ seq \in [1 .. N -> R]
    BY <1>2, HereType
  <2> HIDE DEF R
  <2>2. QED BY <2>1 DEF FirstSplit, SplitRecord
<1> HIDE DEF R
<1>4. step \in [V \X R -> V] /\ \A x \in V, o \in R : step[<<x, o>>] = Step(x, o)
  <2> HIDE DEF V, Step
  <2>1. QED BY <1>2
<1>5. \A s \in SUBSET (1 .. N) : s # {} => s \ {Max(s)} \in SUBSET (1 .. N) /\ Max(s) \in 1 .. N
  <2>1. SUFFICES ASSUME NEW s \in SUBSET (1 .. N), s # {} PROVE Max(s) \in 1 .. N
    OBVIOUS
  <2>2. s \in SUBSET (0 .. N)
    OBVIOUS
  <2>3. Max(s) \in s
    BY <2>1, <2>2, MaxOfIndices
  <2>4. QED BY <2>3
<1> HIDE DEF step, base, V, Step
<1>6. PICK g \in [SUBSET (1 .. N) -> V] : FoldsTo(g, base, step, seq, N)
  BY <1>3, <1>4, FoldExists
<1>7. \A s \in SUBSET (1 .. N) :
        s # {} => step[<<g[s \ {Max(s)}], seq[Max(s)]>>] = Step(g[s \ {Max(s)}], seq[Max(s)])
  BY <1>3, <1>4, <1>5
<1>8. Eq(g)
  <2>1. g = [s \in SUBSET (1 .. N) |->
               IF s = {} THEN base ELSE step[<<g[s \ {Max(s)}], seq[Max(s)]>>]]
    BY <1>6 DEF FoldsTo
  <2>2. [s \in SUBSET (1 .. N) |->
               IF s = {} THEN base ELSE step[<<g[s \ {Max(s)}], seq[Max(s)]>>]]
        = [s \in SUBSET (1 .. N) |->
               IF s = {} THEN base ELSE Step(g[s \ {Max(s)}], seq[Max(s)])]
    BY <1>7
  <2>3. QED BY <2>1, <2>2
<1>9. Eq(h)
  BY <1>8
<1> HIDE DEF h
<1> DEFINE W == {h[s] : s \in SUBSET (1 .. N)}
           walk == [x \in W \X R |-> Step(x[1], x[2])]
<1>10. \A s \in SUBSET (1 .. N), o \in R : walk[<<h[s], o>>] = Step(h[s], o)
  OBVIOUS
<1> HIDE DEF walk
<1>11. FoldsTo(h, base, walk, seq, N)
  <2>1. [s \in SUBSET (1 .. N) |->
               IF s = {} THEN base ELSE walk[<<h[s \ {Max(s)}], seq[Max(s)]>>]]
        = [s \in SUBSET (1 .. N) |->
               IF s = {} THEN base ELSE Step(h[s \ {Max(s)}], seq[Max(s)])]
    BY <1>3, <1>5, <1>10
  <2>2. QED BY <1>9, <2>1 DEF FoldsTo
<1>12. h[1 .. 0] = base /\ \A k \in 1 .. N : h[1 .. k] = walk[<<h[1 .. k - 1], seq[k]>>]
  BY <1>11, FoldRuns
<1>13. \A k \in 1 .. N : h[1 .. k] = Step(h[1 .. k - 1], seq[k])
  <2>1. \A k \in 1 .. N : 1 .. k - 1 \in SUBSET (1 .. N)
    OBVIOUS
  <2>2. QED BY <1>3, <1>10, <1>12, <2>1
<1> DEFINE run == [k \in 0 .. N |-> h[1 .. k]]
<1>14. /\ run[0] = base /\ run[N] = plan
       /\ \A k \in 1 .. N : run[k] = Step(run[k - 1], seq[k])
  <2>1. 0 \in 0 .. N /\ N \in 0 .. N /\ \A k \in 1 .. N : k \in 0 .. N /\ k - 1 \in 0 .. N
    OBVIOUS
  <2>2. QED BY <1>1, <1>12, <1>13, <2>1
<1>15. \A k \in 0 .. N : run[k] \in V
  <2> DEFINE Typed == {k \in 0 .. N : run[k] \in V}
  <2>1. 0 \in Typed
    BY <1>3, <1>14
  <2>2. ASSUME NEW k \in 0 .. N - 1, k \in Typed
        PROVE  k + 1 \in Typed
    <3>1. k + 1 \in 1 .. N /\ (k + 1) - 1 = k /\ k + 1 \in 0 .. N
      OBVIOUS
    <3>2. run[k + 1] = Step(run[k], seq[k + 1])
      BY <1>14, <3>1
    <3>3. run[k] \in V /\ seq[k + 1] \in R
      BY <1>3, <2>2, <3>1
    <3> HIDE DEF run
    <3>4. run[k + 1] \in V
      BY <1>2, <3>2, <3>3
    <3>5. QED BY <3>1, <3>4
  <2> HIDE DEF Typed, run
  <2>3. \A k \in 0 .. N : k \in Typed
    BY <2>1, <2>2, UpTo
  <2>4. QED BY <2>3 DEF Typed
<1>16. run \in [0 .. N -> V]
  BY <1>15
<1> HIDE DEF run
<1>17. QED BY <1>14, <1>16 DEF Step, V, base, R, SplitRun

(* What a pass of the split planner keeps: the blocks placed so far lie in *)
(* their half behind its cursor, in address order; the others have not     *)
(* moved.                                                                   *)
Halved(R, lo, boundary, hi, seq, N, plan, k) ==
  plan.verdict = "plan" =>
    /\ lo <= plan.low /\ plan.low <= boundary /\ boundary <= plan.up /\ plan.up <= hi
    /\ \A i \in 1 .. N : i <= k =>
         /\ obj[seq[i]].pinned => plan.to[seq[i]] = obj[seq[i]].start
         /\ IF Upper(seq[i], boundary)
            THEN boundary <= plan.to[seq[i]] /\ plan.to[seq[i]] + obj[seq[i]].size <= plan.up
            ELSE lo <= plan.to[seq[i]] /\ plan.to[seq[i]] + obj[seq[i]].size <= plan.low
    /\ \A i, j \in 1 .. N : i < j /\ j <= k =>
         plan.to[seq[i]] + obj[seq[i]].size <= plan.to[seq[j]]
    /\ \A i \in 1 .. N : k < i => plan.to[seq[i]] = obj[seq[i]].start

(* Where one step puts its block.                                           *)
LEMMA SplitPuts ==
  ASSUME TypeOK, NEW R \in SUBSET Objects, NEW lo \in Nat, NEW boundary \in Nat, NEW hi \in Nat,
         Placement(Here(R), lo, hi), lo <= boundary, boundary <= hi,
         NEW plan \in SplitRecord(R), NEW o \in R, plan.to[o] = obj[o].start,
         lo <= plan.low, boundary <= plan.up,
         NEW next \in SplitRecord(R), StepsOn(R, boundary, hi, plan, o, next)
  PROVE  /\ \A q \in R : q # o => next.to[q] = plan.to[q]
         /\ obj[o].pinned => next.to[o] = obj[o].start
         /\ IF Upper(o, boundary)
            THEN /\ next.low = plan.low /\ next.up = next.to[o] + obj[o].size
                 /\ plan.up <= next.to[o] /\ next.up <= hi
            ELSE /\ next.up = plan.up /\ next.low = next.to[o] + obj[o].size
                 /\ plan.low <= next.to[o] /\ next.low <= boundary
<1>1. PICK start \in Nat, size \in Nat : start = obj[o].start /\ size = obj[o].size
  BY ObjTypes
<1>2. /\ plan.low \in Nat /\ plan.up \in Nat /\ plan.to \in [R -> Nat]
  BY DEF SplitRecord
<1>3. start + size <= hi
  BY <1>1, PlacedOrder
<1>4. CASE Upper(o, boundary)
  <2>1. CASE obj[o].pinned
    <3>1. /\ boundary <= start /\ plan.up <= start
          /\ next.low = plan.low /\ next.up = start + size /\ next.to = plan.to
      BY <1>1, <1>4, <2>1 DEF StepsOn
    <3>2. QED BY <1>1, <1>3, <1>4, <3>1
  <2>2. CASE ~obj[o].pinned
    <3>1. /\ plan.up + size <= hi /\ next.low = plan.low /\ next.up = plan.up + size
          /\ next.to = [plan.to EXCEPT ![o] = plan.up]
      BY <1>1, <1>4, <2>2 DEF StepsOn
    <3>2. next.to[o] = plan.up /\ \A q \in R : q # o => next.to[q] = plan.to[q]
      BY <1>2, <3>1
    <3>3. QED BY <1>1, <1>2, <1>4, <2>2, <3>1, <3>2
  <2>3. QED BY <2>1, <2>2
<1>5. CASE ~Upper(o, boundary)
  <2>1. CASE obj[o].pinned
    <3>1. /\ plan.low <= start
          /\ next.up = plan.up /\ next.low = start + size /\ next.to = plan.to
      BY <1>1, <1>5, <2>1 DEF StepsOn
    <3>2. start + size <= boundary
      BY <1>1, <1>5 DEF Upper
    <3>3. QED BY <1>1, <1>5, <3>1, <3>2
  <2>2. CASE ~obj[o].pinned
    <3>1. /\ plan.low + size <= boundary /\ next.up = plan.up /\ next.low = plan.low + size
          /\ next.to = [plan.to EXCEPT ![o] = plan.low]
      BY <1>1, <1>5, <2>2 DEF StepsOn
    <3>2. next.to[o] = plan.low /\ \A q \in R : q # o => next.to[q] = plan.to[q]
      BY <1>2, <3>1
    <3>3. QED BY <1>1, <1>2, <1>5, <2>2, <3>1, <3>2
  <2>3. QED BY <2>1, <2>2
<1>6. QED BY <1>4, <1>5

LEMMA SplitPackStep ==
  ASSUME TypeOK, NEW R \in SUBSET Objects, NEW lo \in Nat, NEW boundary \in Nat, NEW hi \in Nat,
         lo <= boundary, boundary <= hi, Placement(Here(R), lo, hi),
         NEW N \in Nat, NEW seq \in [1 .. N -> R],
         \A i, j \in 1 .. N : i < j => obj[seq[i]].start < obj[seq[j]].start,
         NEW k \in 0 .. N - 1, NEW plan \in SplitRecord(R),
         Halved(R, lo, boundary, hi, seq, N, plan, k),
         NEW next, next = SplitStep(R, boundary, hi, plan, seq[k + 1])
  PROVE  Halved(R, lo, boundary, hi, seq, N, next, k + 1)
<1>1. SUFFICES ASSUME next.verdict = "plan"
               PROVE  Halved(R, lo, boundary, hi, seq, N, next, k + 1)
  BY DEF Halved
<1>2. PICK o \in R : o = seq[k + 1]
  OBVIOUS
<1>3. next \in SplitRecord(R) /\ StepsOn(R, boundary, hi, plan, o, next)
  BY <1>1, <1>2, SplitStepIs
<1>4. plan.verdict = "plan"
  BY <1>3 DEF StepsOn
<1>5. /\ lo <= plan.low /\ plan.low <= boundary /\ boundary <= plan.up /\ plan.up <= hi
      /\ \A i \in 1 .. N : i <= k =>
           /\ obj[seq[i]].pinned => plan.to[seq[i]] = obj[seq[i]].start
           /\ IF Upper(seq[i], boundary)
              THEN boundary <= plan.to[seq[i]] /\ plan.to[seq[i]] + obj[seq[i]].size <= plan.up
              ELSE lo <= plan.to[seq[i]] /\ plan.to[seq[i]] + obj[seq[i]].size <= plan.low
      /\ \A i, j \in 1 .. N : i < j /\ j <= k =>
           plan.to[seq[i]] + obj[seq[i]].size <= plan.to[seq[j]]
      /\ \A i \in 1 .. N : k < i => plan.to[seq[i]] = obj[seq[i]].start
  BY <1>4 DEF Halved
<1>6. /\ plan.low \in Nat /\ plan.up \in Nat /\ plan.to \in [R -> Nat]
      /\ next.low \in Nat /\ next.up \in Nat /\ next.to \in [R -> Nat]
  BY <1>3 DEF SplitRecord
<1>7. /\ \A q \in R : q # o => next.to[q] = plan.to[q]
      /\ obj[o].pinned => next.to[o] = obj[o].start
      /\ IF Upper(o, boundary)
         THEN /\ next.low = plan.low /\ next.up = next.to[o] + obj[o].size
              /\ plan.up <= next.to[o] /\ next.up <= hi
         ELSE /\ next.up = plan.up /\ next.low = next.to[o] + obj[o].size
              /\ plan.low <= next.to[o] /\ next.low <= boundary
  <2>1. plan.to[o] = obj[o].start
    BY <1>2, <1>5
  <2>2. QED BY <1>3, <1>5, <2>1, SplitPuts
<1>8. /\ \A q \in R : /\ obj[q].start \in Nat /\ obj[q].size \in Nat /\ obj[q].size >= 2
      /\ \A x, y \in R : obj[x].start < obj[y].start => obj[x].start + obj[x].size <= obj[y].start
  BY PlacedOrder
<1>9. \A i \in 1 .. N : i # k + 1 => seq[i] \in R /\ seq[i] # o
  <2>1. SUFFICES ASSUME NEW i \in 1 .. N, i # k + 1 PROVE seq[i] # o
    OBVIOUS
  <2>2. k + 1 \in 1 .. N /\ seq[i] \in R
    OBVIOUS
  <2>3. obj[seq[i]].start < obj[o].start \/ obj[o].start < obj[seq[i]].start
    BY <1>2, <2>1, <2>2
  <2>4. obj[o].start \in Nat
    BY <1>8
  <2>5. QED BY <2>3, <2>4
<1>10. \A i \in 1 .. N : i # k + 1 => next.to[seq[i]] = plan.to[seq[i]]
  BY <1>7, <1>9
<1>11. \A i \in 1 .. N : i <= k /\ Upper(seq[i], boundary) => Upper(o, boundary)
  <2>1. SUFFICES ASSUME NEW i \in 1 .. N, i <= k, Upper(seq[i], boundary)
                 PROVE  Upper(o, boundary)
    OBVIOUS
  <2>2. k + 1 \in 1 .. N /\ i < k + 1 /\ seq[i] \in R
    BY <2>1
  <2>3. obj[seq[i]].start < obj[o].start
    BY <1>2, <2>2
  <2>4. obj[seq[i]].start + obj[seq[i]].size <= obj[o].start
    BY <1>8, <2>2, <2>3
  <2>5. obj[seq[i]].start + obj[seq[i]].size > boundary
    BY <2>1 DEF Upper
  <2>6. PICK a \in Nat, b \in Nat, n \in Nat, m \in Nat :
          /\ a = obj[seq[i]].start /\ n = obj[seq[i]].size
          /\ b = obj[o].start /\ m = obj[o].size
    BY <1>8, <2>2
  <2>7. a + n <= b /\ a + n > boundary
    BY <2>4, <2>5, <2>6
  <2>8. b + m > boundary
    BY ONLY a \in Nat, b \in Nat, n \in Nat, m \in Nat, boundary \in Nat, <2>7
  <2>9. obj[o].start + obj[o].size > boundary
    BY <2>6, <2>8
  <2>10. QED BY <2>9 DEF Upper
<1>12. /\ lo <= next.low /\ next.low <= boundary /\ boundary <= next.up /\ next.up <= hi
       /\ plan.low <= next.low /\ plan.up <= next.up
  <2>1. PICK a \in Nat, n \in Nat : a = next.to[o] /\ n = obj[o].size
    BY <1>6, <1>8
  <2>2. lo <= plan.low /\ plan.low <= boundary /\ boundary <= plan.up /\ plan.up <= hi
    BY <1>5
  <2>3. CASE Upper(o, boundary)
    <3>1. next.low = plan.low /\ next.up = a + n /\ plan.up <= a /\ next.up <= hi
      BY <1>7, <2>1, <2>3
    <3>2. plan.up <= next.up
      BY ONLY a \in Nat, n \in Nat, <1>6, <3>1
    <3>3. QED BY ONLY lo \in Nat, hi \in Nat, boundary \in Nat, <1>6, <2>2, <3>1, <3>2
  <2>4. CASE ~Upper(o, boundary)
    <3>1. next.up = plan.up /\ next.low = a + n /\ plan.low <= a /\ next.low <= boundary
      BY <1>7, <2>1, <2>4
    <3>2. plan.low <= next.low
      BY ONLY a \in Nat, n \in Nat, <1>6, <3>1
    <3>3. QED BY ONLY lo \in Nat, hi \in Nat, boundary \in Nat, <1>6, <2>2, <3>1, <3>2
  <2>5. QED BY <2>3, <2>4
<1>13. ASSUME NEW i \in 1 .. N, i <= k + 1
       PROVE  /\ obj[seq[i]].pinned => next.to[seq[i]] = obj[seq[i]].start
              /\ IF Upper(seq[i], boundary)
                 THEN boundary <= next.to[seq[i]] /\ next.to[seq[i]] + obj[seq[i]].size <= next.up
                 ELSE lo <= next.to[seq[i]] /\ next.to[seq[i]] + obj[seq[i]].size <= next.low
  <2>1. CASE i = k + 1
    <3>1. next.to[o] \in Nat /\ obj[o].size \in Nat
      BY <1>6, <1>8
    <3>2. QED BY <1>2, <1>5, <1>6, <1>7, <2>1, <3>1
  <2>2. CASE i <= k
    <3>0. i # k + 1 /\ seq[i] \in R
      BY <2>2
    <3>1. next.to[seq[i]] = plan.to[seq[i]] /\ next.to[seq[i]] \in Nat /\ obj[seq[i]].size \in Nat
      <4>1. next.to[seq[i]] = plan.to[seq[i]]
        BY <1>10, <3>0
      <4>2. next.to[seq[i]] \in Nat
        BY <1>6, <3>0
      <4>3. obj[seq[i]].size \in Nat
        BY <1>8, <3>0
      <4>4. QED BY <4>1, <4>2, <4>3
    <3>2. obj[seq[i]].pinned => next.to[seq[i]] = obj[seq[i]].start
      BY <1>5, <2>2, <3>1
    <3>3. PICK a \in Nat, n \in Nat : a = next.to[seq[i]] /\ n = obj[seq[i]].size
      BY <3>1
    <3>4. CASE Upper(seq[i], boundary)
      <4>1. boundary <= a /\ a + n <= plan.up
        BY <1>5, <2>2, <3>1, <3>3, <3>4
      <4>2. boundary <= a /\ a + n <= next.up
        BY <1>6, <1>12, <4>1
      <4>3. QED BY <3>2, <3>3, <3>4, <4>2
    <3>5. CASE ~Upper(seq[i], boundary)
      <4>1. lo <= a /\ a + n <= plan.low
        BY <1>5, <2>2, <3>1, <3>3, <3>5
      <4>2. lo <= a /\ a + n <= next.low
        BY <1>6, <1>12, <4>1
      <4>3. QED BY <3>2, <3>3, <3>5, <4>2
    <3>6. QED BY <3>4, <3>5
  <2>3. QED BY <1>13, <2>1, <2>2
<1>14. ASSUME NEW i \in 1 .. N, NEW j \in 1 .. N, i < j, j <= k + 1
       PROVE  next.to[seq[i]] + obj[seq[i]].size <= next.to[seq[j]]
  <2>1. i <= k /\ i # k + 1 /\ next.to[seq[i]] = plan.to[seq[i]]
    BY <1>10, <1>14
  <2>2. CASE j <= k
    <3>1. next.to[seq[j]] = plan.to[seq[j]]
      BY <1>10, <2>2
    <3>2. QED BY <1>5, <1>14, <2>1, <2>2, <3>1
  <2>3. CASE j = k + 1
    <3>1. seq[j] = o /\ next.to[o] \in Nat
      BY <1>2, <1>6, <2>3
    <3>2. PICK a \in Nat, n \in Nat, b \in Nat :
            a = plan.to[seq[i]] /\ n = obj[seq[i]].size /\ b = next.to[o]
      BY <1>6, <1>8, <3>1
    <3>3. a + n <= b
      <4>1. CASE Upper(seq[i], boundary)
        <5>1. a + n <= plan.up /\ plan.up <= b
          BY <1>5, <1>7, <1>11, <2>1, <3>2, <4>1
        <5>2. QED BY <1>6, <5>1
      <4>2. CASE ~Upper(seq[i], boundary)
        <5>1. a + n <= plan.low
          BY <1>5, <2>1, <3>2, <4>2
        <5>2. plan.low <= b
          <6>1. plan.up <= b \/ plan.low <= b
            BY <1>7, <3>2
          <6>2. plan.low <= boundary /\ boundary <= plan.up
            BY <1>5
          <6>3. QED BY ONLY b \in Nat, boundary \in Nat, <1>6, <6>1, <6>2
        <5>3. QED BY <1>6, <5>1, <5>2
      <4>3. QED BY <4>1, <4>2
    <3>4. QED BY <2>1, <3>1, <3>2, <3>3
  <2>4. QED BY <1>14, <2>2, <2>3
<1>15. \A i \in 1 .. N : k + 1 < i => next.to[seq[i]] = obj[seq[i]].start
  BY <1>5, <1>10
<1>16. QED BY <1>12, <1>13, <1>14, <1>15 DEF Halved

LEMMA SplitPackStart ==
  ASSUME TypeOK, NEW R \in SUBSET Objects, NEW lo \in Nat, NEW boundary \in Nat, NEW hi \in Nat,
         lo <= boundary, boundary <= hi, NEW N \in Nat, NEW seq \in [1 .. N -> R]
  PROVE  Halved(R, lo, boundary, hi, seq, N, FirstSplit(R, lo, boundary), 0)
<1>1. PICK plan : plan = FirstSplit(R, lo, boundary)
  OBVIOUS
<1>2. plan.low = lo /\ plan.up = boundary /\ \A o \in R : plan.to[o] = obj[o].start
  BY <1>1, HereType DEF FirstSplit
<1>3. \A i \in 1 .. N : ~(i <= 0) /\ plan.to[seq[i]] = obj[seq[i]].start
  BY <1>2
<1>4. Halved(R, lo, boundary, hi, seq, N, plan, 0)
  BY <1>2, <1>3 DEF Halved
<1>5. QED BY <1>1, <1>4

(* A split plan that is not refused puts every block into its half.        *)
HalvesHold(R, lo, boundary, hi, to) ==
  /\ to \in [R -> Nat]
  /\ \A o \in R : /\ obj[o].pinned => to[o] = obj[o].start
                  /\ IF Upper(o, boundary)
                     THEN boundary <= to[o] /\ to[o] + obj[o].size <= hi
                     ELSE lo <= to[o] /\ to[o] + obj[o].size <= boundary
  /\ \A o, q \in R : obj[o].start < obj[q].start => to[o] + obj[o].size <= to[q]

LEMMA SplitPassHalves ==
  ASSUME HeapInv, NEW p \in Pools, Exists(p), NEW boundary \in Nat,
         Lo(pool[p]) <= boundary, boundary <= Hi(pool[p]),
         NEW N \in Nat, NEW seq \in [1 .. N -> Residents(p)], seq = ByAddress(Residents(p)),
         InOrder(Residents(p), N, seq),
         NEW plan, plan = SplitPlan(p, boundary), ~Refused(plan)
  PROVE  HalvesHold(Residents(p), Lo(pool[p]), boundary, Hi(pool[p]), plan.to)
<1>1. TypeOK /\ Lo(pool[p]) \in Nat /\ Hi(pool[p]) \in Nat /\ Lo(pool[p]) <= Hi(pool[p])
      /\ Residents(p) \in SUBSET Objects
      /\ Placement(Here(Residents(p)), Lo(pool[p]), Hi(pool[p]))
  BY PoolWindow, PlacedHere DEF Residents
<1>2. SplitRun(p, boundary, N, seq, plan)
  BY <1>1, SplitRuns
<1>3. PICK R, lo, hi : R = Residents(p) /\ lo = Lo(pool[p]) /\ hi = Hi(pool[p])
  OBVIOUS
<1>4. PICK run \in [0 .. N -> SplitRecord(R)] :
        /\ run[0] = FirstSplit(R, lo, boundary)
        /\ \A k \in 1 .. N : run[k] = SplitStep(R, boundary, hi, run[k - 1], seq[k])
        /\ run[N] = plan
  BY <1>2, <1>3 DEF SplitRun
<1>5. /\ TypeOK /\ lo \in Nat /\ hi \in Nat /\ lo <= boundary /\ boundary <= hi /\ lo <= hi
      /\ R \in SUBSET Objects /\ Placement(Here(R), lo, hi) /\ seq \in [1 .. N -> R]
      /\ InOrder(R, N, seq)
  BY <1>1, <1>3
<1> DEFINE Good == {k \in 0 .. N : Halved(R, lo, boundary, hi, seq, N, run[k], k)}
<1>6. 0 \in Good
  <2>1. Halved(R, lo, boundary, hi, seq, N, FirstSplit(R, lo, boundary), 0)
    BY <1>5, SplitPackStart
  <2>2. QED BY <1>4, <2>1
<1>7. ASSUME NEW k \in 0 .. N - 1, k \in Good
      PROVE  k + 1 \in Good
  <2>1. k + 1 \in 1 .. N /\ (k + 1) - 1 = k /\ k \in 0 .. N /\ k + 1 \in 0 .. N
    OBVIOUS
  <2>2. run[k] \in SplitRecord(R) /\ Halved(R, lo, boundary, hi, seq, N, run[k], k)
    BY <1>4, <1>7, <2>1
  <2>3. run[k + 1] = SplitStep(R, boundary, hi, run[k], seq[k + 1])
    BY <1>4, <2>1
  <2>4. \A i, j \in 1 .. N : i < j => obj[seq[i]].start < obj[seq[j]].start
    BY <1>5 DEF InOrder
  <2>5. Halved(R, lo, boundary, hi, seq, N, run[k + 1], k + 1)
    BY <1>5, <2>2, <2>3, <2>4, SplitPackStep
  <2>6. QED BY <2>1, <2>5
<1> HIDE DEF Good
<1>8. N \in Good
  <2>1. \A k \in 0 .. N : k \in Good
    BY <1>6, <1>7, UpTo
  <2>2. QED BY <2>1
<1>9. Halved(R, lo, boundary, hi, seq, N, plan, N) /\ plan \in SplitRecord(R)
  BY <1>4, <1>8 DEF Good
<1>10. plan.verdict = "plan" /\ plan.to \in [R -> Nat] /\ plan.low \in Nat /\ plan.up \in Nat
  BY <1>9 DEF SplitRecord, Refused
<1>11. /\ lo <= plan.low /\ plan.low <= boundary /\ boundary <= plan.up /\ plan.up <= hi
       /\ \A i \in 1 .. N :
            /\ obj[seq[i]].pinned => plan.to[seq[i]] = obj[seq[i]].start
            /\ IF Upper(seq[i], boundary)
               THEN boundary <= plan.to[seq[i]] /\ plan.to[seq[i]] + obj[seq[i]].size <= plan.up
               ELSE lo <= plan.to[seq[i]] /\ plan.to[seq[i]] + obj[seq[i]].size <= plan.low
       /\ \A i, j \in 1 .. N : i < j =>
            plan.to[seq[i]] + obj[seq[i]].size <= plan.to[seq[j]]
  BY <1>9, <1>10 DEF Halved
<1>12. \A o \in R : obj[o].start \in Nat /\ obj[o].size \in Nat
  BY <1>5, PlacedOrder
<1>13. ASSUME NEW o \in R
       PROVE  /\ obj[o].pinned => plan.to[o] = obj[o].start
              /\ IF Upper(o, boundary)
                 THEN boundary <= plan.to[o] /\ plan.to[o] + obj[o].size <= hi
                 ELSE lo <= plan.to[o] /\ plan.to[o] + obj[o].size <= boundary
  <2>1. PICK i \in 1 .. N : seq[i] = o
    BY <1>5, <1>13 DEF InOrder
  <2>2. /\ obj[o].pinned => plan.to[o] = obj[o].start
        /\ IF Upper(o, boundary)
           THEN boundary <= plan.to[o] /\ plan.to[o] + obj[o].size <= plan.up
           ELSE lo <= plan.to[o] /\ plan.to[o] + obj[o].size <= plan.low
    BY <1>11, <2>1
  <2>3. PICK e \in Nat : e = plan.to[o] + obj[o].size
    BY <1>10, <1>12, <1>13
  <2>4. (e <= plan.up => e <= hi) /\ (e <= plan.low => e <= boundary)
    <3>1. plan.low <= boundary /\ plan.up <= hi
      BY <1>11
    <3>2. QED BY ONLY e \in Nat, boundary \in Nat, <1>5, <1>10, <3>1
  <2>5. QED BY <2>2, <2>3, <2>4
<1>14. ASSUME NEW o \in R, NEW q \in R, obj[o].start < obj[q].start
       PROVE  plan.to[o] + obj[o].size <= plan.to[q]
  <2>1. PICK i \in 1 .. N : seq[i] = o
    BY <1>5, <1>14 DEF InOrder
  <2>2. PICK j \in 1 .. N : seq[j] = q
    BY <1>5, <1>14 DEF InOrder
  <2>3. i < j
    <3>1. j < i => obj[q].start < obj[o].start
      BY <1>5, <2>1, <2>2 DEF InOrder
    <3>2. obj[q].start \in Nat /\ obj[o].start \in Nat
      BY <1>12, <1>14
    <3>3. ~(j < i) /\ i # j
      BY <1>14, <2>1, <2>2, <3>1, <3>2
    <3>4. QED BY <3>3
  <2>4. QED BY <1>11, <2>1, <2>2, <2>3
<1>15. HalvesHold(R, lo, boundary, hi, plan.to)
  BY <1>10, <1>13, <1>14 DEF HalvesHold
<1>16. QED BY <1>3, <1>15

LEMMA SplitHalves ==
  ASSUME HeapInv, NEW p \in Pools, Exists(p), NEW boundary \in Nat,
         Lo(pool[p]) <= boundary, boundary <= Hi(pool[p]),
         NEW plan, plan = SplitPlan(p, boundary), ~Refused(plan)
  PROVE  HalvesHold(Residents(p), Lo(pool[p]), boundary, Hi(pool[p]), plan.to)
<1>1. PICK R \in SUBSET Objects : R = Residents(p)
  BY DEF Residents
<1>2. TypeOK /\ \A o, q \in R : obj[o].start = obj[q].start => o = q
  BY <1>1 DEF HeapInv, PoolInv
<1>3. PICK N \in Nat : N = Cardinality(R)
  BY <1>2, AddressOrder
<1>4. PICK seq \in [1 .. N -> R] : seq = ByAddress(R)
  BY <1>2, <1>3, AddressOrder
<1>5. InOrder(R, N, seq)
  BY <1>2, <1>3, <1>4, AddressOrder DEF InOrder
<1>6. /\ seq \in [1 .. N -> Residents(p)] /\ seq = ByAddress(Residents(p))
      /\ InOrder(Residents(p), N, seq)
  BY <1>1, <1>4, <1>5
<1>7. QED BY <1>6, SplitPassHalves

(* The two halves of such a placement, as Split cuts them.                 *)
SidesAre(R, lo, boundary, hi, to, U, low, up) ==
  /\ U = {o \in R : Upper(o, boundary)}
  /\ low = Within(to, lo, boundary) /\ up = Within(to, boundary, hi)

SidesHold(R, lo, boundary, hi, to, U, low, up) ==
  /\ DOMAIN to = R /\ Placement(to, lo, hi)
  /\ DOMAIN low = R \ U /\ Placement(low, lo, boundary)
  /\ DOMAIN up = U /\ Placement(up, boundary, hi)
  /\ \A o \in R \ U : low[o] = to[o]
  /\ \A o \in U : up[o] = to[o]
  /\ {o \in DOMAIN to : to[o] + 1 >= boundary} = U

LEMMA SplitSides ==
  ASSUME TypeOK, NEW R \in SUBSET Objects, NEW lo \in Nat, NEW boundary \in Nat, NEW hi \in Nat,
         lo <= boundary, boundary <= hi, Placement(Here(R), lo, hi),
         NEW to, HalvesHold(R, lo, boundary, hi, to),
         NEW U, NEW low, NEW up, SidesAre(R, lo, boundary, hi, to, U, low, up)
  PROVE  SidesHold(R, lo, boundary, hi, to, U, low, up)
<1>1. /\ to \in [R -> Nat] /\ DOMAIN to = R
      /\ \A o \in R : /\ o \in Objects /\ to[o] \in Nat /\ obj[o].start \in Nat
                      /\ obj[o].size \in Nat /\ obj[o].size >= 2
      /\ \A o, q \in R : obj[o].start = obj[q].start => o = q
  BY PlacedOrder DEF HalvesHold
<1>2. \A o \in R : EndIn(to, o) = to[o] + obj[o].size /\ EndIn(to, o) \in Nat
  BY <1>1 DEF EndIn
<1>3. /\ \A o \in U : o \in R /\ boundary <= to[o] /\ to[o] + obj[o].size <= hi
      /\ \A o \in R \ U : lo <= to[o] /\ to[o] + obj[o].size <= boundary
      /\ U \subseteq R
  BY DEF HalvesHold, SidesAre
<1>4. \A o, q \in R : o # q => \/ to[o] + obj[o].size <= to[q]
                               \/ to[q] + obj[q].size <= to[o]
  <2>1. SUFFICES ASSUME NEW o \in R, NEW q \in R, o # q
                 PROVE  to[o] + obj[o].size <= to[q] \/ to[q] + obj[q].size <= to[o]
    OBVIOUS
  <2>2. obj[o].start < obj[q].start \/ obj[q].start < obj[o].start
    BY <1>1, <2>1
  <2>3. QED BY <2>2 DEF HalvesHold
<1>5. \A n, m \in Nat : /\ n + m <= boundary => n + m <= hi
                        /\ boundary <= n => lo <= n
                        /\ m >= 2 /\ n + m <= boundary => ~(n + 1 >= boundary) /\ ~(boundary <= n)
                        /\ m >= 2 /\ boundary <= n => n + 1 >= boundary /\ ~(n + m <= boundary)
  BY ONLY lo \in Nat, boundary \in Nat, hi \in Nat, lo <= boundary, boundary <= hi
<1>6. Placement(to, lo, hi)
  <2>1. \A o \in R : lo <= to[o] /\ to[o] + obj[o].size <= hi
    <3>1. \A o \in U : lo <= to[o]
      BY <1>1, <1>3, <1>5
    <3>2. \A o \in R \ U : to[o] + obj[o].size <= hi
      BY <1>1, <1>3, <1>5
    <3>3. QED BY <1>3, <3>1, <3>2
  <2>2. QED BY <1>1, <1>2, <1>4, <2>1 DEF Placement, MinBlock
<1>7. {o \in R : lo <= to[o] /\ EndIn(to, o) <= boundary} = R \ U
  <2>1. \A o \in U : ~(to[o] + obj[o].size <= boundary)
    BY <1>1, <1>3, <1>5
  <2>2. QED BY <1>2, <1>3, <2>1
<1>8. {o \in R : boundary <= to[o] /\ EndIn(to, o) <= hi} = U
  <2>1. \A o \in R \ U : ~(boundary <= to[o])
    BY <1>1, <1>3, <1>5
  <2>2. QED BY <1>2, <1>3, <2>1
<1>9. low = [o \in R \ U |-> to[o]] /\ up = [o \in U |-> to[o]]
  BY <1>1, <1>7, <1>8 DEF Within, SidesAre
<1>10. DOMAIN low = R \ U /\ DOMAIN up = U
       /\ (\A o \in R \ U : low[o] = to[o]) /\ (\A o \in U : up[o] = to[o])
  BY <1>9
<1>11. Placement(low, lo, boundary)
  <2>1. \A o \in DOMAIN low : /\ o \in R \ U /\ low[o] = to[o]
                              /\ EndIn(low, o) = to[o] + obj[o].size
    BY <1>10 DEF EndIn
  <2>2. QED BY <1>1, <1>3, <1>4, <1>10, <2>1 DEF Placement, MinBlock
<1>12. Placement(up, boundary, hi)
  <2>1. \A o \in DOMAIN up : /\ o \in R /\ o \in U /\ up[o] = to[o]
                             /\ EndIn(up, o) = to[o] + obj[o].size
    BY <1>3, <1>10 DEF EndIn
  <2>2. QED BY <1>1, <1>3, <1>4, <1>10, <2>1 DEF Placement, MinBlock
<1>13. {o \in DOMAIN to : to[o] + 1 >= boundary} = U
  <2>1. \A o \in R \ U : ~(to[o] + 1 >= boundary)
    BY <1>1, <1>3, <1>5
  <2>2. \A o \in U : to[o] + 1 >= boundary
    BY <1>1, <1>3, <1>5
  <2>3. QED BY <1>1, <1>3, <2>1, <2>2
<1>14. QED BY <1>1, <1>6, <1>10, <1>11, <1>12, <1>13 DEF SidesHold

(* The two windows split leaves.                                            *)
CutAt(p, n, S, N) ==
  /\ S = [pool[p] EXCEPT !.count = @ - n]
  /\ N = [EmptyPool EXCEPT !.first = S.first + S.count, !.count = n]

LEMMA SplitWindows ==
  ASSUME HeapInv, NEW p \in Pools, NEW n \in 1 .. Segments, n < pool[p].count,
         NEW S, NEW N, CutAt(p, n, S, N)
  PROVE  /\ Exists(p) /\ S \in PoolRecord /\ N \in PoolRecord
         /\ S.count > 0 /\ N.count > 0 /\ N.first = S.first + S.count
         /\ S.first + S.count <= Segments /\ N.first + N.count <= Segments
         /\ Lo(S) = Lo(pool[p]) /\ Lo(N) = Hi(S) /\ Hi(N) = Hi(pool[p])
         /\ Hi(S) \in Nat /\ Lo(S) <= Hi(S) /\ Hi(S) <= Hi(N)
         /\ Apart(S, N)
         /\ \A q \in Pools : q # p /\ Exists(q) => Apart(S, pool[q]) /\ Apart(N, pool[q])
<1>1. TypeOK /\ pool \in [Pools -> PoolRecord] /\ EmptyPool \in PoolRecord
  BY TypeParts, EmptyTypes DEF HeapInv
<1>2. /\ Segments \in Nat /\ n \in Nat /\ n > 0 /\ n <= Segments
      /\ pool[p].first \in Nat /\ pool[p].count \in Nat
  BY <1>1, HeapAssumption, PoolTypes
<1>3. Exists(p)
  BY <1>2 DEF Exists
<1>4. pool[p].first + pool[p].count <= Segments
  BY <1>3, PoolWindow
<1>5. PICK a \in Nat, k \in Nat : a = pool[p].first /\ k = pool[p].count - n
  <2>1. PICK c \in Nat : c = pool[p].count /\ n < c
    BY <1>2
  <2>2. c - n \in Nat
    BY <1>2, <2>1
  <2>3. QED BY <1>2, <2>1, <2>2
<1>6. /\ k > 0 /\ a + k + n <= Segments /\ a + k + n = pool[p].first + pool[p].count
      /\ k \in 0 .. Segments /\ n \in 0 .. Segments /\ a + k \in 0 .. Segments
  BY <1>2, <1>4, <1>5
<1>7. S = [pool[p] EXCEPT !.count = k]
  BY <1>5 DEF CutAt
<1>8. S \in PoolRecord /\ S.first = a /\ S.count = k
  BY <1>1, <1>5, <1>6, <1>7 DEF PoolRecord
<1>9. N = [EmptyPool EXCEPT !.first = a + k, !.count = n]
  BY <1>8 DEF CutAt
<1>10. N.first = a + k /\ N.count = n
  BY <1>9 DEF EmptyPool
<1>11. N \in PoolRecord
  <2>1. PICK P \in PoolRecord, b \in 0 .. Segments, m \in 0 .. Segments :
          P = EmptyPool /\ b = a + k /\ m = n
    BY <1>1, <1>6
  <2>2. N = [P EXCEPT !.first = b, !.count = m]
    BY <1>9, <2>1
  <2>3. [P EXCEPT !.first = b, !.count = m] \in PoolRecord
    BY DEF PoolRecord
  <2>4. QED BY <2>2, <2>3
<1>12. Lo(S) = Lo(pool[p]) /\ Lo(N) = Hi(S) /\ Hi(N) = Hi(pool[p])
  BY <1>5, <1>6, <1>8, <1>10 DEF Lo, Hi
<1>13. Hi(S) \in Nat /\ Lo(S) <= Hi(S)
  <2>1. S.first \in Nat /\ S.count \in Nat /\ S.first + S.count <= Segments
    BY <1>2, <1>6, <1>8
  <2>2. QED BY <2>1, Windowed
<1>14. Hi(S) <= Hi(N)
  <2>1. N.first \in Nat /\ N.count \in Nat /\ N.first + N.count <= Segments
    BY <1>2, <1>6, <1>10
  <2>2. Lo(N) <= Hi(N)
    BY <2>1, Windowed
  <2>3. QED BY <1>12, <2>2
<1>15. ASSUME NEW q \in Pools, q # p, Exists(q)
       PROVE  Apart(S, pool[q]) /\ Apart(N, pool[q])
  <2>1. Apart(pool[p], pool[q])
    BY <1>3, <1>15 DEF HeapInv
  <2>2. pool[q].first \in Nat /\ pool[q].count \in Nat
    BY <1>1, <1>15, PoolTypes
  <2>3. a + k + n <= pool[q].first \/ pool[q].first + pool[q].count <= a
    BY <1>5, <1>6, <2>1 DEF Apart
  <2>4. \/ a + k <= pool[q].first /\ (a + k) + n <= pool[q].first
        \/ pool[q].first + pool[q].count <= a /\ pool[q].first + pool[q].count <= a + k
    BY <1>2, <2>2, <2>3
  <2>5. QED BY <1>8, <1>10, <2>4 DEF Apart
<1>16. Apart(S, N)
  BY <1>6, <1>8, <1>10 DEF Apart
<1>17. QED BY <1>2, <1>3, <1>6, <1>8, <1>10, <1>11, <1>12, <1>13, <1>14, <1>15, <1>16

(* split *)
LEMMA SplitKeeps ==
  ASSUME HeapInv, NEW p \in Pools, NEW n \in 1 .. Segments, Split(p, n)
  PROVE  HeapInv'
<1>1. PICK new \in Pools :
        /\ n < pool[p].count
        /\ FirstEmpty(new)
        /\ LET S        == [pool[p] EXCEPT !.count = @ - n]
               N        == [EmptyPool EXCEPT !.first = S.first + S.count, !.count = n]
               boundary == Hi(S)
               plan     == SplitPlan(p, boundary)
               low      == Within(plan.to, Lo(S), boundary)
               up       == Within(plan.to, boundary, Hi(N))
               above    == {o \in DOMAIN plan.to : plan.to[o] + 1 >= boundary}
           IN /\ ~Refused(plan)
              /\ obj'  = [o \in Objects |-> IF o \in above
                                            THEN [Placed(plan.to)[o] EXCEPT !.pool = new]
                                            ELSE Placed(plan.to)[o]]
              /\ mem'  = FinalMem(FinalMem(mem, low, Lo(S), boundary), up, boundary, Hi(N))
              /\ pool' = [pool EXCEPT
                            ![p]   = [FinalPool(S, low) EXCEPT
                                        !.live = pool[p].live - Cardinality(above)],
                            ![new] = [FinalPool(N, up) EXCEPT !.live = Cardinality(above)]]
  BY DEF Split
<1>2. PICK S : S = [pool[p] EXCEPT !.count = @ - n]
  OBVIOUS
<1>3. PICK N : N = [EmptyPool EXCEPT !.first = S.first + S.count, !.count = n]
  OBVIOUS
<1>4. /\ Exists(p) /\ S \in PoolRecord /\ N \in PoolRecord
      /\ S.count > 0 /\ N.count > 0 /\ N.first = S.first + S.count
      /\ S.first + S.count <= Segments /\ N.first + N.count <= Segments
      /\ Lo(S) = Lo(pool[p]) /\ Lo(N) = Hi(S) /\ Hi(N) = Hi(pool[p])
      /\ Hi(S) \in Nat /\ Lo(S) <= Hi(S) /\ Hi(S) <= Hi(N) /\ Apart(S, N)
      /\ \A q \in Pools : q # p /\ Exists(q) => Apart(S, pool[q]) /\ Apart(N, pool[q])
  <2>1. n < pool[p].count
    BY <1>1
  <2>2. CutAt(p, n, S, N)
    BY <1>2, <1>3 DEF CutAt
  <2>3. QED BY <2>1, <2>2, SplitWindows
<1>5. PICK lo, boundary, hi : lo = Lo(S) /\ boundary = Hi(S) /\ hi = Hi(N)
  OBVIOUS
<1>6. /\ TypeOK /\ lo \in Nat /\ boundary \in Nat /\ hi \in Nat
      /\ lo <= boundary /\ boundary <= hi /\ lo <= hi /\ hi <= Zone /\ boundary <= Zone
      /\ lo = Lo(pool[p]) /\ hi = Hi(pool[p]) /\ boundary = Lo(N)
  <2>1. TypeOK /\ lo \in Nat /\ hi \in Nat /\ hi <= Zone
        /\ lo = Lo(pool[p]) /\ hi = Hi(pool[p])
    BY <1>4, <1>5, PoolWindow
  <2>2. boundary \in Nat /\ lo <= boundary /\ boundary <= hi /\ boundary = Lo(N)
    BY <1>4, <1>5
  <2>3. Zone \in Nat
    BY ZoneType
  <2>4. QED BY <2>1, <2>2, <2>3
<1>7. PICK plan : plan = SplitPlan(p, boundary)
  OBVIOUS
<1>8. PICK to, R : to = plan.to /\ R = Residents(p)
  OBVIOUS
<1>9. PICK low, up : low = Within(to, lo, boundary) /\ up = Within(to, boundary, hi)
  OBVIOUS
<1>10. PICK U : U = {o \in R : Upper(o, boundary)}
  OBVIOUS
<1>11. /\ new \in Pools /\ FirstEmpty(new) /\ ~Refused(plan)
       /\ LET above == {o \in DOMAIN to : to[o] + 1 >= boundary} IN
          /\ obj'  = [o \in Objects |-> IF o \in above THEN [Placed(to)[o] EXCEPT !.pool = new]
                                        ELSE Placed(to)[o]]
          /\ mem'  = FinalMem(FinalMem(mem, low, lo, boundary), up, boundary, hi)
          /\ pool' = [pool EXCEPT
                        ![p]   = [FinalPool(S, low) EXCEPT
                                    !.live = pool[p].live - Cardinality(above)],
                        ![new] = [FinalPool(N, up) EXCEPT !.live = Cardinality(above)]]
  BY <1>1, <1>2, <1>3, <1>5, <1>7, <1>8, <1>9, Zenon
<1>12. HalvesHold(R, lo, boundary, hi, to)
  <2>1. HalvesHold(Residents(p), Lo(pool[p]), boundary, Hi(pool[p]), plan.to)
    BY <1>4, <1>6, <1>7, <1>11, SplitHalves
  <2>2. QED BY <1>6, <1>8, <2>1
<1>13. R \in SUBSET Objects /\ Placement(Here(R), lo, hi)
  BY <1>4, <1>6, <1>8, PlacedHere DEF Residents
<1>14. /\ DOMAIN to = R /\ Placement(to, lo, hi)
       /\ DOMAIN low = R \ U /\ Placement(low, lo, boundary)
       /\ DOMAIN up = U /\ Placement(up, boundary, hi)
       /\ \A o \in R \ U : low[o] = to[o]
       /\ \A o \in U : up[o] = to[o]
       /\ {o \in DOMAIN to : to[o] + 1 >= boundary} = U
  <2>1. SidesAre(R, lo, boundary, hi, to, U, low, up)
    BY <1>9, <1>10 DEF SidesAre
  <2>2. SidesHold(R, lo, boundary, hi, to, U, low, up)
    BY <1>6, <1>12, <1>13, <2>1, SplitSides
  <2>3. QED BY <2>2 DEF SidesHold
<1>15. /\ pool \in [Pools -> PoolRecord] /\ mem \in [Units -> Header]
       /\ obj \in [Objects -> Descriptor]
  BY <1>6, TypeParts
<1>16. p # new /\ ~Exists(new)
  BY <1>4, <1>11 DEF FirstEmpty
<1>17. PICK F, G : F = [FinalPool(S, low) EXCEPT !.live = pool[p].live - Cardinality(U)]
                   /\ G = [FinalPool(N, up) EXCEPT !.live = Cardinality(U)]
  OBVIOUS
<1>18. PICK M, W : M = FinalMem(mem, low, lo, boundary) /\ W = FinalMem(M, up, boundary, hi)
  OBVIOUS
<1>19. PICK g : g = Placed(to)
  OBVIOUS
<1>20. /\ obj' = [o \in Objects |-> IF o \in U THEN [g[o] EXCEPT !.pool = new] ELSE g[o]]
       /\ mem' = W
       /\ pool' = [pool EXCEPT ![p] = F, ![new] = G]
  BY <1>11, <1>14, <1>17, <1>18, <1>19, Zenon
<1>21. M \in [Units -> Header] /\ W \in [Units -> Header]
  <2>1. M \in [Units -> Header]
    BY <1>6, <1>14, <1>15, <1>18, FinalType
  <2>2. W \in [Units -> Header]
    BY <1>6, <1>14, <1>18, <2>1, FinalType
  <2>3. QED BY <2>1, <2>2
<1>22. Cardinality(U) = Cardinality(DOMAIN up)
       /\ pool[p].live - Cardinality(U) = Cardinality(DOMAIN low)
  <2>1. IsFiniteSet(R) /\ U \subseteq R
    BY <1>6, <1>10, <1>13, SizesType
  <2>2. /\ Cardinality(R) \in Nat /\ Cardinality(U) \in Nat
        /\ Cardinality(R \ U) = Cardinality(R) - Cardinality(R \cap U)
    BY <2>1, FS_Difference, FS_CardinalityType, FS_Subset
  <2>3. R \cap U = U
    BY <2>1
  <2>4. pool[p].live = Cardinality(R)
    BY <1>4, <1>8 DEF HeapInv, PoolInv
  <2>5. QED BY <1>14, <2>2, <2>3, <2>4
<1>23. /\ F \in PoolRecord /\ F.first = S.first /\ F.count = S.count
       /\ F.used = Total(Sizes, DOMAIN low) /\ F.live = Cardinality(DOMAIN low)
       /\ F.bins = {h.from : h \in FreeRuns(low, lo, boundary)}
       /\ F.fragment = SlackLength(low, lo, boundary)
  <2>1. PICK H : H = FinalPool(S, low)
    OBVIOUS
  <2>2. /\ H \in PoolRecord /\ H.first = S.first /\ H.count = S.count
        /\ H.used = Total(Sizes, DOMAIN low) /\ H.live = Cardinality(DOMAIN low)
        /\ H.bins = {h.from : h \in FreeRuns(low, lo, boundary)}
        /\ H.fragment = SlackLength(low, lo, boundary)
    BY <1>4, <1>5, <1>6, <1>14, <2>1, FinalPoolIs
  <2>3. F = [H EXCEPT !.live = H.live]
    BY <1>17, <1>22, <2>1, <2>2
  <2>4. [H EXCEPT !.live = H.live] = H
    BY <2>2 DEF PoolRecord
  <2>5. QED BY <2>2, <2>3, <2>4
<1>24. /\ G \in PoolRecord /\ G.first = N.first /\ G.count = N.count
       /\ G.used = Total(Sizes, DOMAIN up) /\ G.live = Cardinality(DOMAIN up)
       /\ G.bins = {h.from : h \in FreeRuns(up, boundary, hi)}
       /\ G.fragment = SlackLength(up, boundary, hi)
  <2>1. PICK H : H = FinalPool(N, up)
    OBVIOUS
  <2>2. /\ H \in PoolRecord /\ H.first = N.first /\ H.count = N.count
        /\ H.used = Total(Sizes, DOMAIN up) /\ H.live = Cardinality(DOMAIN up)
        /\ H.bins = {h.from : h \in FreeRuns(up, boundary, hi)}
        /\ H.fragment = SlackLength(up, boundary, hi)
    BY <1>4, <1>5, <1>6, <1>14, <2>1, FinalPoolIs
  <2>3. G = [H EXCEPT !.live = H.live]
    BY <1>17, <1>22, <2>1, <2>2
  <2>4. [H EXCEPT !.live = H.live] = H
    BY <2>2 DEF PoolRecord
  <2>5. QED BY <2>2, <2>3, <2>4
<1>25. /\ pool'[p] = F /\ pool'[new] = G
       /\ \A q \in Pools : q # p /\ q # new => pool'[q] = pool[q]
  BY <1>15, <1>16, <1>20
<1>26. /\ g \in [Objects -> Descriptor]
       /\ \A o \in R : /\ g[o].start = to[o] /\ g[o].size = obj[o].size
                       /\ g[o].pool = obj[o].pool
       /\ \A o \in Objects : o \notin R => g[o] = obj[o]
  BY <1>6, <1>14, <1>19, PlacedType
<1>27. /\ \A o \in R : obj'[o].start = to[o] /\ obj'[o].size = obj[o].size
       /\ \A o \in U : obj'[o].pool = new
       /\ \A o \in R \ U : obj'[o].pool = p
       /\ \A o \in Objects : o \notin R => obj'[o] = obj[o]
  <2>1. \A o \in U : /\ o \in R /\ o \in Objects /\ obj'[o] = [g[o] EXCEPT !.pool = new]
                     /\ g[o] \in Descriptor
    BY <1>10, <1>13, <1>20, <1>26
  <2>2. \A o \in U : /\ obj'[o].start = g[o].start /\ obj'[o].size = g[o].size
                     /\ obj'[o].pool = new
    BY <2>1 DEF Descriptor
  <2>3. \A o \in Objects : o \notin U => obj'[o] = g[o]
    BY <1>20
  <2>4. \A o \in R : o \in Objects /\ obj[o].pool = p
    BY <1>8 DEF Residents
  <2>5. \A o \in Objects : o \notin R => o \notin U
    BY <1>10
  <2>6. QED BY <1>26, <2>1, <2>2, <2>3, <2>4, <2>5
<1>28. TypeOK'
  <2>1. pool' \in [Pools -> PoolRecord]
    BY <1>15, <1>20, <1>23, <1>24
  <2>2. obj' \in [Objects -> Descriptor]
    BY <1>20, <1>26 DEF Descriptor
  <2>3. mem' \in [Units -> Header]
    BY <1>20, <1>21
  <2>4. QED BY <2>1, <2>2, <2>3 DEF TypeOK, PoolRecord, Descriptor, Header
<1>29. \A o \in R : obj[o].size > 0 /\ o \in Objects
  BY <1>8 DEF Residents
<1>30. \A o \in Objects : obj[o].size > 0 => obj[o].pool # new
  BY <1>16 DEF HeapInv
<1>31. Residents(p)' = R \ U /\ Residents(new)' = U
  <2>1. \A o \in Objects : obj'[o].size > 0 /\ obj'[o].pool = p <=> o \in R \ U
    <3>1. \A o \in Objects : o \notin R => ~(obj'[o].size > 0 /\ obj'[o].pool = p)
      BY <1>8, <1>27 DEF Residents
    <3>2. \A o \in U : obj'[o].pool # p
      BY <1>16, <1>27
    <3>3. \A o \in R \ U : obj'[o].size > 0 /\ obj'[o].pool = p
      BY <1>27, <1>29
    <3>4. QED BY <3>1, <3>2, <3>3
  <2>2. \A o \in Objects : obj'[o].size > 0 /\ obj'[o].pool = new <=> o \in U
    <3>1. \A o \in Objects : o \notin R => ~(obj'[o].size > 0 /\ obj'[o].pool = new)
      BY <1>27, <1>30
    <3>2. \A o \in R \ U : obj'[o].pool # new
      BY <1>16, <1>27
    <3>3. \A o \in U : obj'[o].size > 0 /\ obj'[o].pool = new /\ o \in R
      BY <1>10, <1>27, <1>29
    <3>4. QED BY <3>1, <3>2, <3>3
  <2>3. R \subseteq Objects /\ U \subseteq Objects
    BY <1>10, <1>13
  <2>4. QED BY <2>1, <2>2, <2>3 DEF Residents
<1>32. \A u \in Units : /\ u < boundary => mem'[u] = M[u]
                        /\ u < lo \/ hi <= u => mem'[u] = mem[u]
  <2>1. SUFFICES ASSUME NEW u \in Units
                 PROVE  /\ u < boundary => mem'[u] = M[u]
                        /\ u < lo \/ hi <= u => mem'[u] = mem[u]
    OBVIOUS
  <2>2. u \in Nat
    BY ZoneType
  <2>3. u < boundary \/ hi <= u => W[u] = M[u]
    BY <1>6, <1>18, FinalOutside
  <2>4. u < lo \/ boundary <= u => M[u] = mem[u]
    BY <1>6, <1>18, FinalOutside
  <2>5. /\ u < lo => u < boundary
        /\ hi <= u => boundary <= u
    BY <1>6, <2>2
  <2>6. QED BY <1>20, <2>3, <2>4, <2>5
<1>33. PoolInv(p)'
  <2>1. Residents(p)' = DOMAIN low
    BY <1>14, <1>31
  <2>2. /\ pool'[p].first = S.first /\ pool'[p].count = S.count
        /\ pool'[p].used = Total(Sizes, DOMAIN low) /\ pool'[p].live = Cardinality(DOMAIN low)
        /\ pool'[p].bins = {h.from : h \in FreeRuns(low, Lo(S), Hi(S))}
        /\ pool'[p].fragment = SlackLength(low, Lo(S), Hi(S))
    BY <1>5, <1>23, <1>25
  <2>3. \A o \in DOMAIN low : obj'[o].start = low[o] /\ obj'[o].size = obj[o].size
    BY <1>14, <1>27
  <2>4. \A u \in Units : Lo(S) <= u /\ u < Hi(S) => mem'[u] = FinalMem(mem, low, Lo(S), Hi(S))[u]
    BY <1>5, <1>18, <1>32
  <2>5. TypeOK /\ S \in PoolRecord /\ S.first + S.count <= Segments
        /\ Placement(low, Lo(S), Hi(S)) /\ mem \in [Units -> Header]
    BY <1>4, <1>5, <1>6, <1>14, <1>15
  <2>6. QED BY ONLY p \in Pools, <2>1, <2>2, <2>3, <2>4, <2>5, Settles
<1>34. PoolInv(new)'
  <2>1. Residents(new)' = DOMAIN up
    BY <1>14, <1>31
  <2>2. /\ pool'[new].first = N.first /\ pool'[new].count = N.count
        /\ pool'[new].used = Total(Sizes, DOMAIN up) /\ pool'[new].live = Cardinality(DOMAIN up)
        /\ pool'[new].bins = {h.from : h \in FreeRuns(up, Lo(N), Hi(N))}
        /\ pool'[new].fragment = SlackLength(up, Lo(N), Hi(N))
    BY <1>5, <1>6, <1>24, <1>25
  <2>3. \A o \in DOMAIN up : obj'[o].start = up[o] /\ obj'[o].size = obj[o].size
    BY <1>10, <1>14, <1>27
  <2>4. \A u \in Units : Lo(N) <= u /\ u < Hi(N) => mem'[u] = FinalMem(M, up, Lo(N), Hi(N))[u]
    BY <1>5, <1>6, <1>18, <1>20
  <2>5. TypeOK /\ N \in PoolRecord /\ N.first + N.count <= Segments
        /\ Placement(up, Lo(N), Hi(N)) /\ M \in [Units -> Header]
    BY <1>4, <1>5, <1>6, <1>14, <1>21
  <2>6. QED BY ONLY new \in Pools, <2>1, <2>2, <2>3, <2>4, <2>5, Settles
<1>35. ASSUME NEW q \in Pools, q # p, q # new
       PROVE  /\ pool'[q] = pool[q] /\ Residents(q)' = Residents(q)
              /\ \A o \in Residents(q) : obj'[o].start = obj[o].start /\ obj'[o].size = obj[o].size
  <2>1. \A o \in Residents(q) : o \in Objects /\ o \notin R
    BY <1>8, <1>35 DEF Residents
  <2>2. \A o \in Residents(q) : obj'[o] = obj[o]
    BY <1>27, <2>1
  <2>3. \A o \in Objects : obj'[o].size > 0 /\ obj'[o].pool = q => obj'[o] = obj[o]
    BY <1>27, <1>35
  <2>4. QED BY <1>25, <1>35, <2>2, <2>3 DEF Residents
<1>36. ASSUME NEW q \in Pools, q # p, q # new, Exists(q), NEW u \in Units,
              Lo(pool[q]) <= u, u < Hi(pool[q])
       PROVE  mem'[u] = mem[u]
  <2>1. pool[q].first + pool[q].count <= Segments
    BY <1>36 DEF HeapInv, PoolInv
  <2>2. /\ pool[p].first \in Nat /\ pool[p].count \in Nat
        /\ pool[p].first + pool[p].count <= Segments
    BY <1>4, PoolWindow
  <2>3. Apart(pool[p], pool[q])
    BY <1>4, <1>36 DEF HeapInv
  <2>4. u < Lo(pool[p]) \/ Hi(pool[p]) <= u
    BY <1>6, <1>36, <2>1, <2>2, <2>3, OtherWindow
  <2>5. QED BY <1>6, <1>32, <2>4
<1>37. \A o \in Objects : obj'[o].size > 0 => pool'[obj'[o].pool].count > 0
  <2>1. SUFFICES ASSUME NEW o \in Objects, obj'[o].size > 0 PROVE pool'[obj'[o].pool].count > 0
    OBVIOUS
  <2>2. pool'[p].count > 0 /\ pool'[new].count > 0
    BY <1>4, <1>23, <1>24, <1>25
  <2>3. CASE o \in R
    BY <1>27, <2>2, <2>3
  <2>4. CASE o \notin R
    <3>1. obj'[o] = obj[o] /\ obj[o].size > 0
      BY <1>27, <2>1, <2>4
    <3>2. pool[obj[o].pool].count > 0 /\ obj[o].pool \in Pools
      BY <1>6, <3>1, ObjTypes DEF HeapInv, Exists
    <3>3. obj[o].pool # p /\ obj[o].pool # new
      BY <1>8, <1>30, <2>4, <3>1 DEF Residents
    <3>4. QED BY <1>25, <3>1, <3>2, <3>3
  <2>5. QED BY <2>3, <2>4
<1>38. ASSUME NEW r \in {p, new}, NEW q \in Pools, r # q, Exists(r)', Exists(q)'
       PROVE  Apart(pool'[r], pool'[q])
  <2>1. CASE q \in {p, new}
    <3>1. (r = p /\ q = new) \/ (r = new /\ q = p)
      BY <1>38, <2>1
    <3>2. Apart(F, G) /\ Apart(G, F)
      BY <1>4, <1>23, <1>24 DEF Apart
    <3>3. QED BY <1>25, <3>1, <3>2
  <2>2. CASE q \notin {p, new}
    <3>1. pool'[q] = pool[q] /\ Exists(q)
      BY <1>25, <1>38, <2>2 DEF Exists
    <3>2. Apart(S, pool[q]) /\ Apart(N, pool[q])
      BY <1>4, <2>2, <3>1
    <3>3. Apart(F, pool[q]) /\ Apart(G, pool[q])
      BY <1>23, <1>24, <3>2 DEF Apart
    <3>4. QED BY <1>25, <3>1, <3>3
  <2>3. QED BY <2>1, <2>2
<1>39. QED
  <2>1. {p, new} \in SUBSET Pools
    OBVIOUS
  <2>2. \A r \in {p, new} : Exists(r)' => PoolInv(r)'
    BY <1>33, <1>34
  <2>3. \A q \in Pools \ {p, new} :
          /\ pool'[q] = pool[q] /\ Residents(q)' = Residents(q)
          /\ \A o \in Residents(q) : obj'[o].start = obj[o].start /\ obj'[o].size = obj[o].size
    BY <1>35
  <2>4. \A q \in Pools \ {p, new} : Exists(q) =>
          \A u \in Units : Lo(pool[q]) <= u /\ u < Hi(pool[q]) => mem'[u] = mem[u]
    BY <1>36
  <2>5. QED BY <1>28, <1>37, <1>38, <2>1, <2>2, <2>3, <2>4, HeapKept

-----------------------------------------------------------------------------
(* validate's sweep *)

(* Where the unused units below u start: behind the last block there.      *)
BareFrom(m, S, lo, u) == Max({v + SizeIn(m, v) : v \in {x \in S : x < u}} \cup {lo})

(* The unused units below u may start at e. *)
Clear(m, S, lo, u, e) ==
  /\ e = lo \/ \E v \in S : v < u /\ e = v + SizeIn(m, v)
  /\ e \in Nat /\ lo <= e /\ e <= u
  /\ \A v \in S : v < u => v + SizeIn(m, v) <= e

LEMMA SweepAt ==
  ASSUME NEW S, NEW lo \in Nat, NEW hi \in Nat, lo <= hi, NEW m, Laid(m, S, lo, hi),
         NEW u \in S \cup {hi}
  PROVE  Clear(m, S, lo, u, BareFrom(m, S, lo, u))
<1> DEFINE E == {v + SizeIn(m, v) : v \in {x \in S : x < u}} \cup {lo}
<1>1. /\ \A v \in S : /\ v \in Nat /\ SizeIn(m, v) \in Nat /\ SizeIn(m, v) >= 2
                      /\ lo <= v /\ v + SizeIn(m, v) <= hi
      /\ \A v, w \in S : v < w => v + SizeIn(m, v) <= w
  BY DEF Laid
<1>2. u \in Nat /\ lo <= u
  BY <1>1
<1>3. \A v \in S : v < u => v + SizeIn(m, v) \in Nat /\ v + SizeIn(m, v) <= u
  BY <1>1
<1>4. E \in SUBSET (0 .. u) /\ E # {} /\ lo \in E
  BY <1>2, <1>3
<1>5. Max(E) \in E /\ \A y \in E : y <= Max(E)
  BY <1>2, <1>4, MaxOfIndices
<1>6. \A v \in S : v < u => v + SizeIn(m, v) \in E
  OBVIOUS
<1>7. BareFrom(m, S, lo, u) = Max(E)
  BY DEF BareFrom
<1>8. Max(E) = lo \/ \E v \in S : v < u /\ Max(E) = v + SizeIn(m, v)
  BY <1>5
<1>9. Max(E) \in 0 .. u
  BY <1>4, <1>5
<1>10. \A v \in S : v < u => v + SizeIn(m, v) <= Max(E)
  BY <1>5, <1>6
<1>11. lo <= Max(E) /\ Max(E) \in Nat /\ Max(E) <= u
  BY <1>2, <1>4, <1>5, <1>9
<1> HIDE DEF E
<1>12. QED BY <1>7, <1>8, <1>10, <1>11 DEF Clear

(* At most one unit is bare in front of a block or of the window's end.    *)
LEMMA SweepGap ==
  ASSUME NEW S, NEW lo \in Nat, NEW hi \in Nat, lo <= hi, NEW m, Laid(m, S, lo, hi),
         NEW B, NEW n, Spaced(m, S, B, n, lo, hi), NEW u \in S \cup {hi}
  PROVE  u - BareFrom(m, S, lo, u) \in {0, 1}
<1>1. PICK e : e = BareFrom(m, S, lo, u)
  OBVIOUS
<1>2. /\ e = lo \/ \E v \in S : v < u /\ e = v + SizeIn(m, v)
      /\ e \in Nat /\ e <= u /\ \A v \in S : v < u => v + SizeIn(m, v) <= e
  <2>1. Clear(m, S, lo, u, e)
    BY <1>1, SweepAt
  <2>2. QED BY <2>1 DEF Clear
<1>3. \A v \in S : /\ v \in Nat /\ SizeIn(m, v) \in Nat /\ SizeIn(m, v) >= 2
                   /\ v + SizeIn(m, v) <= hi
  BY DEF Laid
<1>4. u \in Nat /\ u <= hi
  <2>1. \A v \in S : v \in Nat /\ v <= hi
    BY <1>3
  <2>2. QED BY <2>1
<1>5. SUFFICES ASSUME e + 2 <= u PROVE FALSE
  <2>1. u - e \in Nat /\ (u - e < 2 => u - e \in {0, 1}) /\ (~(u - e < 2) => e + 2 <= u)
    BY ONLY <1>2, <1>4
  <2>2. QED BY <1>1, <2>1
<1>6. e \in S \/ e + 1 \in S \/ e + 1 = hi
  BY <1>2, <1>4, <1>5 DEF Spaced
<1>7. e \notin S
  BY <1>2, <1>3, <1>4, <1>5
<1>8. e + 1 \notin S
  BY <1>2, <1>3, <1>4, <1>5
<1>9. QED BY <1>2, <1>4, <1>5, <1>6, <1>7, <1>8

(* Those units are the bare ones of the window. *)
LEMMA SweepFinds ==
  ASSUME NEW S, NEW lo \in Nat, NEW hi \in Nat, lo <= hi, NEW m, Laid(m, S, lo, hi)
  PROVE  \A x : x \in Bare(m, S, lo, hi)
                  <=> x \in Nat /\ \E u \in S \cup {hi} : BareFrom(m, S, lo, u) <= x /\ x < u
<1>1. /\ \A v \in S : /\ v \in Nat /\ SizeIn(m, v) \in Nat /\ SizeIn(m, v) >= 2
                      /\ lo <= v /\ v + SizeIn(m, v) <= hi
      /\ \A v, w \in S : v < w => v + SizeIn(m, v) <= w
  BY DEF Laid
<1>2. \A u \in S \cup {hi} : u \in Nat /\ u <= hi
  BY <1>1
<1>3. ASSUME NEW x \in Nat, NEW u \in S \cup {hi}, BareFrom(m, S, lo, u) <= x, x < u
      PROVE  x \in Bare(m, S, lo, hi)
  <2>1. /\ BareFrom(m, S, lo, u) \in Nat /\ lo <= BareFrom(m, S, lo, u)
        /\ \A v \in S : v < u => v + SizeIn(m, v) <= BareFrom(m, S, lo, u)
    BY SweepAt DEF Clear
  <2>2. x \in lo .. hi - 1
    BY <1>2, <1>3, <2>1
  <2>3. ASSUME NEW v \in S
        PROVE  x < v \/ v + SizeIn(m, v) <= x
    BY <1>1, <1>2, <1>3, <2>1
  <2>4. QED BY <2>2, <2>3 DEF Bare
<1>4. ASSUME NEW x \in Bare(m, S, lo, hi)
      PROVE  x \in Nat /\ \E u \in S \cup {hi} : BareFrom(m, S, lo, u) <= x /\ x < u
  <2>1. x \in Nat /\ lo <= x /\ x < hi /\ \A v \in S : x < v \/ v + SizeIn(m, v) <= x
    BY DEF Bare
  <2>2. PICK u \in {v \in S \cup {hi} : x < v} : \A v \in {w \in S \cup {hi} : x < w} : u <= v
    <3> DEFINE N == {v \in S \cup {hi} : x < v}
    <3>1. N \in SUBSET Nat /\ N # {}
      BY <1>2, <2>1
    <3>2. PICK y \in N : \A v \in N : y <= v
      <4> HIDE DEF N
      <4>1. QED BY <3>1, LeastNumber
    <3>3. QED BY <3>2
  <2>3. u \in S \cup {hi} /\ x < u
    OBVIOUS
  <2>4. ASSUME NEW v \in S, v < u
        PROVE  v + SizeIn(m, v) <= x
    <3>1. ~(x < v)
      <4>1. v \in Nat /\ u \in Nat
        BY <1>2
      <4>2. x < v => u <= v
        BY <2>2
      <4>3. QED BY <2>1, <2>4, <4>1, <4>2
    <3>2. QED BY <2>1, <3>1
  <2>5. \/ BareFrom(m, S, lo, u) = lo
        \/ \E v \in S : v < u /\ BareFrom(m, S, lo, u) = v + SizeIn(m, v)
    <3>1. Clear(m, S, lo, u, BareFrom(m, S, lo, u))
      BY <2>3, SweepAt
    <3>2. QED BY <3>1 DEF Clear
  <2>6. BareFrom(m, S, lo, u) <= x
    BY <2>1, <2>4, <2>5
  <2>7. QED BY <2>1, <2>3, <2>6
<1>5. QED BY <1>3, <1>4

(* A pool's window is its blocks in use, its free blocks and its slack.    *)
Lens(m, B) == [b \in B |-> SizeIn(m, b)]

LEMMA WindowAdds ==
  ASSUME HeapInv, NEW p \in Pools, Exists(p)
  PROVE  /\ pool[p].used + Total(Lens(mem, pool[p].bins), pool[p].bins) + pool[p].fragment
              = Hi(pool[p]) - Lo(pool[p])
         /\ Total(Lens(mem, pool[p].bins), pool[p].bins) \in Nat
<1>1. PICK R, B, S, lo, hi : /\ R = Residents(p) /\ B = pool[p].bins /\ S = Heads(p)
                             /\ lo = Lo(pool[p]) /\ hi = Hi(pool[p])
  OBVIOUS
<1>2. /\ TypeOK /\ PoolInv(p) /\ lo \in Nat /\ hi \in Nat /\ lo <= hi
      /\ pool[p].used \in Nat /\ pool[p].fragment \in Nat
  <2>1. TypeOK /\ PoolInv(p) /\ lo \in Nat /\ hi \in Nat /\ lo <= hi
    BY <1>1, PoolWindow
  <2>2. pool[p].used \in Nat /\ pool[p].fragment \in 0 .. Zone
    BY <2>1, PoolTypes
  <2>3. QED BY <2>1, <2>2, ZoneType
<1>3. R \in SUBSET Objects /\ S \in SUBSET Units /\ IsFiniteSet(R) /\ IsFiniteSet(B)
  <2>1. IsFiniteSet(Units)
    BY ZoneType, FS_Interval
  <2>2. R \in SUBSET Objects /\ S \in SUBSET Units /\ B \subseteq S
    BY <1>1, <1>2, HeadsType DEF Heads
  <2>3. QED BY <1>2, <2>1, <2>2, SizesType, FS_Subset
<1>4. /\ \A u \in S : /\ u \in Nat /\ SizeIn(mem, u) \in Nat /\ SizeIn(mem, u) >= 2
                      /\ lo <= u /\ u + SizeIn(mem, u) <= hi
      /\ \A u, v \in S : u < v => u + SizeIn(mem, u) <= v
  BY <1>1, HeadFacts
<1> DEFINE at == Here(R)
           id == [b \in B |-> b]
           used == Covered(at, Sizes, R)
           free == Covered(id, Lens(mem, B), B)
           bare == Bare(mem, S, lo, hi)
<1>5. \A o \in R : /\ at[o] = obj[o].start /\ at[o] \in S /\ at[o] \in Nat
                   /\ Sizes[o] = SizeIn(mem, at[o]) /\ Sizes[o] \in Nat /\ at[o] \notin B
  <2>1. SUFFICES ASSUME NEW o \in R
                 PROVE  /\ at[o] = obj[o].start /\ at[o] \in S /\ at[o] \in Nat
                        /\ Sizes[o] = SizeIn(mem, at[o]) /\ Sizes[o] \in Nat /\ at[o] \notin B
    OBVIOUS
  <2>2. /\ o \in Objects /\ obj[o].start \in S /\ obj[o].start \in Nat /\ obj[o].size \in Nat
        /\ mem[obj[o].start].own = obj[o].size /\ SizeIn(mem, obj[o].start) = obj[o].size
    BY <1>1, BlockFacts
  <2>3. at[o] = obj[o].start /\ Sizes[o] = obj[o].size
    BY <2>2 DEF Here, Sizes
  <2>4. obj[o].start \notin B
    BY <1>1, <1>2, <2>2 DEF PoolInv, IsFree
  <2>5. QED BY <2>2, <2>3, <2>4
<1>6. \A b \in B : b \in S /\ id[b] = b /\ Lens(mem, B)[b] = SizeIn(mem, b)
  BY <1>1 DEF Heads, Lens
<1>7. \A u \in S : u \in B \/ \E o \in R : u = at[o]
  BY <1>1, <1>5 DEF Heads
<1>8. \A o, q \in R : o # q => at[o] + Sizes[o] <= at[q] \/ at[q] + Sizes[q] <= at[o]
  <2>1. \A o, q \in R : at[o] = at[q] => o = q
    BY <1>1, <1>2, <1>5 DEF PoolInv
  <2>2. QED BY <1>4, <1>5, <2>1
<1>9. \A b, c \in B : b # c => \/ id[b] + Lens(mem, B)[b] <= id[c]
                               \/ id[c] + Lens(mem, B)[c] <= id[b]
  BY <1>4, <1>6
<1> HIDE DEF at, id
<1>10. IsFiniteSet(used) /\ Cardinality(used) = Total(Sizes, R)
  BY <1>3, <1>5, <1>8, TotalCovers
<1>11. /\ IsFiniteSet(free) /\ Cardinality(free) = Total(Lens(mem, B), B)
       /\ Total(Lens(mem, B), B) \in Nat
  <2>1. \A b \in B : Lens(mem, B)[b] \in Nat /\ id[b] \in Nat
    BY <1>4, <1>6
  <2>2. QED BY <1>3, <1>9, <2>1, TotalCovers, TotalType
<1>12. \A x \in used : \E u \in S \ B : u <= x /\ x < u + SizeIn(mem, u)
  BY <1>5 DEF Covered
<1>13. \A x \in free : \E u \in B : u \in S /\ u <= x /\ x < u + SizeIn(mem, u)
  BY <1>6 DEF Covered
<1>14. ASSUME NEW x \in used
       PROVE  x \notin free
  <2>1. PICK u \in S \ B : u <= x /\ x < u + SizeIn(mem, u)
    BY <1>12
  <2>2. x \in Nat
    BY DEF Covered
  <2>3. ASSUME NEW v \in B, v \in S, v <= x, x < v + SizeIn(mem, v)
        PROVE  FALSE
    <3>1. u # v /\ u \in Nat /\ v \in Nat
      BY <1>4, <2>1, <2>3
    <3>2. QED BY <1>4, <2>1, <2>2, <2>3, <3>1
  <2>4. QED BY <1>13, <2>3
<1>15. \A x \in bare : x \notin used /\ x \notin free
  <2>1. SUFFICES ASSUME NEW x \in bare, NEW u \in S, u <= x, x < u + SizeIn(mem, u)
                 PROVE  FALSE
    BY <1>12, <1>13
  <2>2. x < u \/ u + SizeIn(mem, u) <= x
    BY <2>1 DEF Bare
  <2>3. x \in Nat /\ u \in Nat /\ SizeIn(mem, u) \in Nat
    BY <1>2, <1>4 DEF Bare
  <2>4. QED BY <2>1, <2>2, <2>3
<1>16. lo .. hi - 1 = used \cup free \cup bare
  <2>1. ASSUME NEW x \in lo .. hi - 1, x \notin bare
        PROVE  x \in used \/ x \in free
    <3>1. PICK u \in S : ~(x < u \/ u + SizeIn(mem, u) <= x)
      BY <2>1 DEF Bare
    <3>2. x \in Nat /\ u <= x /\ x < u + SizeIn(mem, u)
      BY <1>2, <1>4, <3>1
    <3>3. CASE u \in B
      BY <1>6, <3>2, <3>3 DEF Covered
    <3>4. CASE \E o \in R : u = at[o]
      BY <1>5, <3>2, <3>4 DEF Covered
    <3>5. QED BY <1>7, <3>3, <3>4
  <2>2. \A x \in used \cup free : x \in lo .. hi - 1
    <3>1. SUFFICES ASSUME NEW x \in used \cup free PROVE x \in lo .. hi - 1
      OBVIOUS
    <3>2. PICK u \in S : u <= x /\ x < u + SizeIn(mem, u)
      BY <1>12, <1>13
    <3>3. x \in Nat
      BY DEF Covered
    <3>4. QED BY <1>2, <1>4, <3>2, <3>3
  <2>3. \A x \in bare : x \in lo .. hi - 1
    BY DEF Bare
  <2>4. QED BY <2>1, <2>2, <2>3
<1>17. pool[p].fragment = Cardinality(bare) /\ pool[p].used = Total(Sizes, R)
  BY <1>1, <1>2 DEF PoolInv, Spaced
<1> HIDE DEF used, free, bare
<1>18. IsFiniteSet(lo .. hi - 1) /\ Cardinality(lo .. hi - 1) = hi - lo
  <2>1. lo \in Nat /\ hi \in Nat /\ lo <= hi
    BY <1>2
  <2>2. PICK z \in Int : z = hi - 1
    BY <2>1
  <2>3. IsFiniteSet(lo .. z) /\ Cardinality(lo .. z) = IF lo > z THEN 0 ELSE z - lo + 1
    BY ONLY <2>1, z \in Int, FS_Interval
  <2>4. (IF lo > z THEN 0 ELSE z - lo + 1) = hi - lo
    BY ONLY <2>1, <2>2
  <2>5. QED BY <2>2, <2>3, <2>4
<1>19. IsFiniteSet(bare)
  BY <1>16, <1>18, FS_Subset
<1>20. used \cap free = {} /\ (used \cup free) \cap bare = {}
  BY <1>14, <1>15
<1>21. IsFiniteSet(used \cup free) /\ Cardinality(used \cup free) = Cardinality(used) + Cardinality(free)
  <2>1. /\ IsFiniteSet(used \cup free)
        /\ Cardinality(used \cup free)
             = Cardinality(used) + Cardinality(free) - Cardinality(used \cap free)
    BY <1>10, <1>11, FS_Union
  <2>2. Cardinality(used \cap free) = 0
    BY <1>20, FS_EmptySet
  <2>3. Cardinality(used) \in Nat /\ Cardinality(free) \in Nat
    BY <1>10, <1>11, FS_CardinalityType
  <2>4. QED BY <2>1, <2>2, <2>3
<1>22. hi - lo = Cardinality(used \cup free) + Cardinality(bare)
  <2>1. Cardinality(lo .. hi - 1)
          = Cardinality(used \cup free) + Cardinality(bare) - Cardinality((used \cup free) \cap bare)
    BY <1>16, <1>19, <1>21, FS_Union
  <2>2. Cardinality((used \cup free) \cap bare) = 0
    BY <1>20, FS_EmptySet
  <2>3. Cardinality(used \cup free) \in Nat /\ Cardinality(bare) \in Nat
    BY <1>19, <1>21, FS_CardinalityType
  <2>4. QED BY ONLY <1>18, <2>1, <2>2, <2>3
<1>23. QED BY <1>1, <1>10, <1>11, <1>17, <1>21, <1>22

Gaps(m, S, lo, hi) == [u \in S \cup {hi} |-> u - BareFrom(m, S, lo, u)]

(* The gaps in front of the blocks and of the window's end are what is     *)
(* bare.                                                                    *)
LEMMA GapsAdd ==
  ASSUME NEW S, IsFiniteSet(S), NEW lo \in Nat, NEW hi \in Nat, lo <= hi, NEW m,
         Laid(m, S, lo, hi)
  PROVE  /\ \A u \in S : Gaps(m, S, lo, hi)[u] \in Nat
         /\ Total(Gaps(m, S, lo, hi), S) + (hi - BareFrom(m, S, lo, hi))
              = Cardinality(Bare(m, S, lo, hi))
<1> DEFINE T == S \cup {hi}
           len == Gaps(m, S, lo, hi)
           at == [u \in T |-> BareFrom(m, S, lo, u)]
<1>1. /\ \A v \in S : /\ v \in Nat /\ SizeIn(m, v) \in Nat /\ SizeIn(m, v) >= 2
                      /\ v + SizeIn(m, v) <= hi
      /\ \A v, w \in S : v < w => v + SizeIn(m, v) <= w
  BY DEF Laid
<1>2. hi \notin S /\ \A u \in S : u < hi
  BY <1>1
<1>3. IsFiniteSet(T)
  BY FS_AddElement
<1>4. ASSUME NEW u \in T
      PROVE  /\ u \in Nat /\ at[u] = BareFrom(m, S, lo, u) /\ at[u] \in Nat /\ at[u] <= u
             /\ len[u] = u - at[u] /\ len[u] \in Nat /\ at[u] + len[u] = u
             /\ \A v \in S : v < u => v + SizeIn(m, v) <= at[u]
  <2>1. Clear(m, S, lo, u, BareFrom(m, S, lo, u))
    BY SweepAt
  <2>2. at[u] = BareFrom(m, S, lo, u) /\ len[u] = u - BareFrom(m, S, lo, u)
    BY DEF Gaps
  <2>3. u \in Nat
    BY <1>1
  <2>4. at[u] \in Nat /\ at[u] <= u /\ \A v \in S : v < u => v + SizeIn(m, v) <= at[u]
    BY <2>1, <2>2 DEF Clear
  <2> HIDE DEF at, len
  <2>5. u - at[u] \in Nat /\ at[u] + (u - at[u]) = u
    BY ONLY <2>3, <2>4
  <2>6. QED BY <2>2, <2>3, <2>4, <2>5
<1> HIDE DEF at
<1>5. \A u, v \in T : u # v => at[u] + len[u] <= at[v] \/ at[v] + len[v] <= at[u]
  <2>1. ASSUME NEW u \in T, NEW v \in T, u < v
        PROVE  at[u] + len[u] <= at[v]
    <3>1. u \in S
      BY <1>1, <1>2, <2>1
    <3>2. u + SizeIn(m, u) <= at[v]
      BY <1>4, <2>1, <3>1
    <3>3. QED BY <1>1, <1>4, <3>1, <3>2
  <2>2. \A u, v \in T : u # v => u < v \/ v < u
    <3>1. \A u \in T : u \in Nat
      BY <1>4
    <3>2. QED BY <3>1
  <2>3. QED BY <2>1, <2>2
<1>6. Covered(at, len, T) = Bare(m, S, lo, hi)
  <2>1. \A x : x \in Bare(m, S, lo, hi)
                 <=> x \in Nat /\ \E u \in S \cup {hi} : BareFrom(m, S, lo, u) <= x /\ x < u
    BY SweepFinds
  <2>2. \A u \in T : BareFrom(m, S, lo, u) = at[u] /\ u = at[u] + len[u]
    BY <1>4
  <2> HIDE DEF len
  <2>3. \A x : x \in Bare(m, S, lo, hi) <=> x \in Nat /\ \E u \in T : at[u] <= x /\ x < at[u] + len[u]
    BY <2>1, <2>2
  <2> HIDE DEF T
  <2>4. QED BY <2>3 DEF Covered
<1>7. \A u \in T : len[u] \in Nat /\ at[u] \in Nat
  BY <1>4
<1> HIDE DEF len
<1>8. Total(len, T) = Cardinality(Bare(m, S, lo, hi))
  <2> HIDE DEF T
  <2>1. QED BY <1>3, <1>5, <1>6, <1>7, TotalCovers
<1>9. Total(len, T) = Total(len, S) + len[hi]
  BY <1>2, <1>7, TotalAdd
<1>10. len[hi] = hi - BareFrom(m, S, lo, hi)
  BY <1>4
<1>11. QED BY <1>7, <1>8, <1>9, <1>10 DEF len

(* validate's sweep over the live and the binned blocks. *)
Record(from, len, free) == [from |-> from, len |-> len, free |-> free]
Sheet(p) == {Record(obj[o].start, obj[o].size, FALSE) : o \in Residents(p)}
              \cup {Record(b, SizeAt(b), TRUE) : b \in pool[p].bins}

LEMMA SheetIs ==
  ASSUME HeapInv, NEW p \in Pools, Exists(p)
  PROVE  /\ \A b \in Sheet(p) : /\ b.from \in Heads(p) /\ b.len = SizeIn(mem, b.from)
                                /\ b.free <=> b.from \in pool[p].bins
         /\ \A u \in Heads(p) : \E b \in Sheet(p) : b.from = u
         /\ \A b, c \in Sheet(p) : b.from = c.from => b = c
<1>1. \A o \in Residents(p) :
        /\ obj[o].start \in Heads(p) /\ SizeIn(mem, obj[o].start) = obj[o].size
        /\ obj[o].start \notin pool[p].bins
  <2>1. SUFFICES ASSUME NEW o \in Residents(p)
                 PROVE  /\ obj[o].start \in Heads(p) /\ SizeIn(mem, obj[o].start) = obj[o].size
                        /\ obj[o].start \notin pool[p].bins
    OBVIOUS
  <2>2. /\ obj[o].start \in Heads(p) /\ SizeIn(mem, obj[o].start) = obj[o].size
        /\ mem[obj[o].start].own = obj[o].size /\ obj[o].size \in Nat
    BY BlockFacts
  <2>3. ~IsFree(obj[o].start)
    BY <2>2 DEF IsFree
  <2>4. QED BY <2>2, <2>3, FreeHead
<1>2. \A b \in pool[p].bins : b \in Heads(p) /\ SizeAt(b) = SizeIn(mem, b)
  <2>1. SUFFICES ASSUME NEW b \in pool[p].bins PROVE b \in Heads(p) /\ SizeAt(b) = SizeIn(mem, b)
    OBVIOUS
  <2>2. b \in Heads(p)
    BY DEF Heads
  <2>3. IsFree(b)
    BY <2>2, FreeHead
  <2>4. QED BY <2>2, <2>3 DEF SizeAt, SizeIn, IsFree
<1>3. \A b \in Sheet(p) : \/ \E o \in Residents(p) : b = Record(obj[o].start, obj[o].size, FALSE)
                          \/ \E u \in pool[p].bins : b = Record(u, SizeAt(u), TRUE)
  BY DEF Sheet
<1>4. \A b \in Sheet(p) : /\ b.from \in Heads(p) /\ b.len = SizeIn(mem, b.from)
                          /\ b.free <=> b.from \in pool[p].bins
                          /\ b.free \in BOOLEAN /\ b = Record(b.from, b.len, b.free)
  <2>1. SUFFICES ASSUME NEW b \in Sheet(p)
                 PROVE  /\ b.from \in Heads(p) /\ b.len = SizeIn(mem, b.from)
                        /\ b.free <=> b.from \in pool[p].bins
                        /\ b.free \in BOOLEAN /\ b = Record(b.from, b.len, b.free)
    OBVIOUS
  <2>2. CASE \E o \in Residents(p) : b = Record(obj[o].start, obj[o].size, FALSE)
    <3>1. PICK o \in Residents(p) : b = Record(obj[o].start, obj[o].size, FALSE)
      BY <2>2
    <3>2. b.from = obj[o].start /\ b.len = obj[o].size /\ b.free = FALSE
      BY <3>1 DEF Record
    <3>3. QED BY <1>1, <3>1, <3>2
  <2>3. CASE \E u \in pool[p].bins : b = Record(u, SizeAt(u), TRUE)
    <3>1. PICK u \in pool[p].bins : b = Record(u, SizeAt(u), TRUE)
      BY <2>3
    <3>2. b.from = u /\ b.len = SizeAt(u) /\ b.free = TRUE
      BY <3>1 DEF Record
    <3>3. QED BY <1>2, <3>1, <3>2
  <2>4. QED BY <1>3, <2>2, <2>3
<1>5. \A u \in Heads(p) : \E b \in Sheet(p) : b.from = u
  <2>1. SUFFICES ASSUME NEW u \in Heads(p) PROVE \E b \in Sheet(p) : b.from = u
    OBVIOUS
  <2>2. CASE u \in pool[p].bins
    <3>1. Record(u, SizeAt(u), TRUE) \in Sheet(p)
      BY <2>2 DEF Sheet
    <3>2. QED BY <3>1 DEF Record
  <2>3. CASE \E o \in Residents(p) : u = obj[o].start
    <3>1. PICK o \in Residents(p) : u = obj[o].start
      BY <2>3
    <3>2. Record(obj[o].start, obj[o].size, FALSE) \in Sheet(p)
      BY DEF Sheet
    <3>3. QED BY <3>1, <3>2 DEF Record
  <2>4. QED BY <2>2, <2>3 DEF Heads
<1>6. ASSUME NEW b \in Sheet(p), NEW c \in Sheet(p), b.from = c.from
      PROVE  b = c
  <2>1. b.len = c.len /\ b.free = c.free
    <3>1. b.len = c.len
      BY <1>4, <1>6
    <3>2. (b.free <=> c.free) /\ b.free \in BOOLEAN /\ c.free \in BOOLEAN
      BY <1>4, <1>6
    <3>3. QED BY <3>1, <3>2
  <2>2. b = Record(b.from, b.len, b.free) /\ c = Record(c.from, c.len, c.free)
    BY <1>4
  <2>3. QED BY <1>6, <2>1, <2>2
<1>7. QED BY <1>4, <1>5, <1>6

EndBefore(p, u) == Max({b.from + b.len : b \in {x \in Sheet(p) : x.from < u}} \cup {Lo(pool[p])})

GapBefore(p, b) == b.from - EndBefore(p, b.from)

LEMMA CoverageIs ==
  ASSUME NEW p,
         Cardinality(pool[p].bins) <= Cardinality(Objects) + 1,
         \A b \in Sheet(p) : 0 <= GapBefore(p, b) /\ GapBefore(p, b) < MinBlock,
         \A b, c \in Sheet(p) : b.free /\ c.free => b.from + b.len # c.from,
         0 <= Hi(pool[p]) - EndBefore(p, Hi(pool[p])),
         Hi(pool[p]) - EndBefore(p, Hi(pool[p])) < MinBlock,
         pool[p].used + MapThenSumSet(LAMBDA b : SizeAt(b), pool[p].bins)
           + MapThenSumSet(LAMBDA b : GapBefore(p, b), Sheet(p))
           + (Hi(pool[p]) - EndBefore(p, Hi(pool[p]))) = Hi(pool[p]) - Lo(pool[p]),
         MapThenSumSet(LAMBDA b : SizeAt(b), pool[p].bins)
           = (Hi(pool[p]) - Lo(pool[p]) - pool[p].used) - pool[p].fragment
  PROVE  Coverage(p)
  BY Zenon DEF Coverage, Sheet, Record, EndBefore, GapBefore

LEMMA EndBeforeIs ==
  ASSUME HeapInv, NEW p \in Pools, Exists(p), NEW u
  PROVE  EndBefore(p, u) = BareFrom(mem, Heads(p), Lo(pool[p]), u)
<1> DEFINE E == {b.from + b.len : b \in {x \in Sheet(p) : x.from < u}}
           N == {v + SizeIn(mem, v) : v \in {x \in Heads(p) : x < u}}
<1>1. /\ \A b \in Sheet(p) : b.from \in Heads(p) /\ b.len = SizeIn(mem, b.from)
      /\ \A v \in Heads(p) : \E b \in Sheet(p) : b.from = v
  BY SheetIs
<1>2. ASSUME NEW y \in E
      PROVE  y \in N
  <2>1. PICK b \in Sheet(p) : b.from < u /\ y = b.from + b.len
    OBVIOUS
  <2>2. b.from \in {x \in Heads(p) : x < u} /\ y = b.from + SizeIn(mem, b.from)
    BY <1>1, <2>1
  <2>3. QED BY <2>2
<1>3. ASSUME NEW y \in N
      PROVE  y \in E
  <2>1. PICK v \in Heads(p) : v < u /\ y = v + SizeIn(mem, v)
    OBVIOUS
  <2>2. PICK b \in Sheet(p) : b.from = v
    BY <1>1
  <2>3. b \in {x \in Sheet(p) : x.from < u} /\ y = b.from + b.len
    BY <1>1, <2>1, <2>2
  <2>4. QED BY <2>3
<1>4. E = N
  BY <1>2, <1>3
<1>5. EndBefore(p, u) = Max(E \cup {Lo(pool[p])})
  BY DEF EndBefore
<1>6. BareFrom(mem, Heads(p), Lo(pool[p]), u) = Max(N \cup {Lo(pool[p])})
  BY DEF BareFrom
<1> HIDE DEF E, N
<1>7. QED BY <1>4, <1>5, <1>6

LEMMA BinnedSum ==
  ASSUME HeapInv, NEW p \in Pools, Exists(p)
  PROVE  MapThenSumSet(LAMBDA b : SizeAt(b), pool[p].bins)
           = Total(Lens(mem, pool[p].bins), pool[p].bins)
<1> DEFINE B == pool[p].bins
           len == Lens(mem, B)
           Eq(g) == g = [s \in SUBSET B |->
                           IF s = {} THEN 0
                           ELSE SizeAt(CHOOSE x \in s : TRUE) + g[s \ {CHOOSE x \in s : TRUE}]]
           sum == CHOOSE g : Eq(g)
<1>1. \A b \in B : len[b] = SizeAt(b) /\ len[b] \in Nat
  <2>1. SUFFICES ASSUME NEW b \in B PROVE len[b] = SizeAt(b) /\ len[b] \in Nat
    OBVIOUS
  <2>2. b \in Heads(p) /\ SizeIn(mem, b) \in Nat /\ IsFree(b)
    <3>1. b \in Heads(p)
      BY DEF Heads
    <3>2. QED BY <3>1, FreeHead, HeadFacts
  <2>3. SizeAt(b) = SizeIn(mem, b)
    BY <2>2 DEF SizeAt, SizeIn, IsFree
  <2>4. QED BY <2>2, <2>3 DEF Lens
<1>2. IsFiniteSet(B)
  <2>1. IsFiniteSet(Units)
    BY ZoneType, FS_Interval
  <2>3. B \in SUBSET Units
    BY PoolTypes DEF HeapInv
  <2>2. QED BY <2>1, <2>3, FS_Subset
<1>3. MapThenSumSet(LAMBDA b : SizeAt(b), B) = sum[B]
  BY DEF MapThenSumSet, MapThenFoldSet
<1> HIDE DEF len
<1>4. \A s \in SUBSET B : s # {} => len[AnyOf(s)] = SizeAt(AnyOf(s))
  BY <1>1 DEF AnyOf
<1>5. Eq(Totals(len, B))
  <2>1. Totals(len, B) =
          [s \in SUBSET B |-> IF s = {} THEN 0
                              ELSE len[AnyOf(s)] + Totals(len, B)[s \ {AnyOf(s)}]]
    BY <1>1, <1>2, TotalsSolve
  <2>2. QED BY <1>4, <2>1 DEF AnyOf
<1>6. Eq(sum)
  BY <1>5
<1>7. \A s \in SUBSET B : sum[s] = IF s = {} THEN 0 ELSE len[AnyOf(s)] + sum[s \ {AnyOf(s)}]
  <2> HIDE DEF sum
  <2> QED BY <1>4, <1>6 DEF AnyOf
<1> HIDE DEF sum, Eq
<1>8. sum[B] = Total(len, B)
  <2> HIDE DEF B
  <2>1. QED BY <1>1, <1>2, <1>7, FoldIsTotal
<1>9. QED BY <1>3, <1>8 DEF len

LEMMA GapSum ==
  ASSUME NEW p, IsFiniteSet(Sheet(p)), NEW len,
         \A b \in Sheet(p) : len[b] = GapBefore(p, b) /\ len[b] \in Nat
  PROVE  MapThenSumSet(LAMBDA b : GapBefore(p, b), Sheet(p)) = Total(len, Sheet(p))
<1> DEFINE Eq(g) == g = [s \in SUBSET Sheet(p) |->
                           IF s = {} THEN 0
                           ELSE GapBefore(p, CHOOSE x \in s : TRUE)
                                  + g[s \ {CHOOSE x \in s : TRUE}]]
           sum == CHOOSE g : Eq(g)
<1>1. MapThenSumSet(LAMBDA b : GapBefore(p, b), Sheet(p)) = sum[Sheet(p)]
  BY DEF MapThenSumSet, MapThenFoldSet
<1>2. \A s \in SUBSET Sheet(p) : s # {} => len[AnyOf(s)] = GapBefore(p, AnyOf(s))
  BY DEF AnyOf
<1>3. Eq(Totals(len, Sheet(p)))
  <2>1. Totals(len, Sheet(p)) =
          [s \in SUBSET Sheet(p) |->
             IF s = {} THEN 0
             ELSE len[AnyOf(s)] + Totals(len, Sheet(p))[s \ {AnyOf(s)}]]
    BY TotalsSolve
  <2>2. QED BY <1>2, <2>1 DEF AnyOf
<1>4. Eq(sum)
  <2>1. PICK g : Eq(g)
    BY <1>3
  <2> HIDE DEF Eq
  <2>2. QED BY <2>1
<1>5. \A s \in SUBSET Sheet(p) :
        sum[s] = IF s = {} THEN 0 ELSE len[AnyOf(s)] + sum[s \ {AnyOf(s)}]
  <2> HIDE DEF sum
  <2> QED BY <1>2, <1>4 DEF AnyOf
<1> HIDE DEF sum, Eq
<1>6. sum[Sheet(p)] = Total(len, Sheet(p))
  <2>1. PICK S : S = Sheet(p)
    OBVIOUS
  <2>2. PICK g : g = sum
    OBVIOUS
  <2>3. \A s \in SUBSET S : g[s] = IF s = {} THEN 0 ELSE len[AnyOf(s)] + g[s \ {AnyOf(s)}]
    BY <1>5, <2>1, <2>2
  <2>4. IsFiniteSet(S) /\ \A b \in S : len[b] \in Nat
    BY <2>1
  <2>5. g[S] = Total(len, S)
    BY ONLY <2>3, <2>4, FoldIsTotal
  <2>6. QED BY <2>1, <2>2, <2>5
<1>7. QED BY <1>1, <1>6

LEMMA CoverageHolds ==
  ASSUME HeapInv, NEW p \in Pools, Exists(p),
         Cardinality(pool[p].bins) <= Cardinality(Objects) + 1
  PROVE  Coverage(p)
<1>1. PICK S, lo, hi, B : /\ S = Heads(p) /\ lo = Lo(pool[p]) /\ hi = Hi(pool[p])
                          /\ B = pool[p].bins
  OBVIOUS
<1>2. /\ lo \in Nat /\ hi \in Nat /\ lo <= hi /\ IsFiniteSet(S)
      /\ Laid(mem, S, lo, hi) /\ Spaced(mem, S, B, pool[p].fragment, lo, hi)
  <2>1. TypeOK /\ PoolInv(p) /\ lo \in Nat /\ hi \in Nat /\ lo <= hi
    BY <1>1, PoolWindow
  <2>2. Spaced(mem, S, B, pool[p].fragment, lo, hi)
    BY <1>1, <2>1 DEF PoolInv
  <2>3. Laid(mem, S, lo, hi)
    BY <1>1, HeadFacts DEF Laid
  <2>4. IsFiniteSet(S)
    <3>1. IsFiniteSet(Units)
      BY ZoneType, FS_Interval
    <3>2. S \in SUBSET Units
      BY <1>1, <2>1, HeadsType
    <3>3. QED BY <3>1, <3>2, FS_Subset
  <2>5. QED BY <2>1, <2>2, <2>3, <2>4
<1>3. /\ \A b \in Sheet(p) : /\ b.from \in S /\ b.len = SizeIn(mem, b.from)
                             /\ b.free <=> b.from \in B
      /\ \A u \in S : \E b \in Sheet(p) : b.from = u
      /\ \A b, c \in Sheet(p) : b.from = c.from => b = c
  BY <1>1, SheetIs
<1>4. \A u : EndBefore(p, u) = BareFrom(mem, S, lo, u)
  BY <1>1, EndBeforeIs
<1>5. \A u \in S \cup {hi} : u - BareFrom(mem, S, lo, u) \in {0, 1}
  BY <1>2, SweepGap
<1>6. \A b \in Sheet(p) : GapBefore(p, b) \in {0, 1}
  BY <1>3, <1>4, <1>5 DEF GapBefore
<1>7. hi - EndBefore(p, hi) \in {0, 1}
  BY <1>4, <1>5
<1>8. \A b, c \in Sheet(p) : b.free /\ c.free => b.from + b.len # c.from
  <2>1. \A u, v \in B : u + SizeIn(mem, u) # v
    BY <1>2 DEF Spaced
  <2>2. QED BY <1>3, <2>1
<1>9. PICK gap : gap = Gaps(mem, S, lo, hi)
  OBVIOUS
<1>10. /\ \A u \in S : gap[u] \in Nat
       /\ Total(gap, S) + (hi - BareFrom(mem, S, lo, hi)) = Cardinality(Bare(mem, S, lo, hi))
  BY <1>2, <1>9, GapsAdd
<1>11. /\ IsFiniteSet(Sheet(p))
       /\ MapThenSumSet(LAMBDA b : GapBefore(p, b), Sheet(p)) = Total(gap, S)
  <2> DEFINE rec == [u \in S |-> CHOOSE b \in Sheet(p) : b.from = u]
             len == [b \in Sheet(p) |-> gap[b.from]]
  <2>1. \A u \in S : rec[u] \in Sheet(p) /\ rec[u].from = u
    BY <1>3
  <2>2. \A b \in Sheet(p) : b.from \in S /\ rec[b.from] = b
    BY <1>3, <2>1
  <2>3. \A b \in Sheet(p) : len[b] = gap[b.from]
    OBVIOUS
  <2> HIDE DEF rec, len
  <2>4. /\ \A u \in S : gap[u] \in Nat /\ rec[u] \in Sheet(p) /\ len[rec[u]] = gap[u]
        /\ \A u, v \in S : rec[u] = rec[v] => u = v
        /\ \A b \in Sheet(p) : \E u \in S : rec[u] = b
    BY <1>10, <2>1, <2>2, <2>3
  <2>5. IsFiniteSet(Sheet(p)) /\ Total(len, Sheet(p)) = Total(gap, S)
    BY <1>2, <2>4, TotalRenamed
  <2>6. \A b \in Sheet(p) : len[b] = GapBefore(p, b) /\ len[b] \in Nat
    <3>1. \A u \in S : gap[u] = u - BareFrom(mem, S, lo, u)
      BY <1>9 DEF Gaps
    <3>2. QED BY <1>3, <1>4, <1>10, <2>3, <3>1 DEF GapBefore
  <2>7. QED BY <2>5, <2>6, GapSum
<1>12. PICK binned : binned = MapThenSumSet(LAMBDA b : SizeAt(b), pool[p].bins)
  OBVIOUS
<1>13. /\ pool[p].used + binned + pool[p].fragment = hi - lo
       /\ binned \in Nat /\ pool[p].used \in Nat /\ pool[p].fragment \in Nat
  <2>1. binned = Total(Lens(mem, pool[p].bins), pool[p].bins)
    BY <1>12, BinnedSum
  <2>2. pool[p].used \in Nat /\ pool[p].fragment \in 0 .. Zone
    BY PoolTypes DEF HeapInv
  <2>3. QED BY <1>1, <2>1, <2>2, WindowAdds, ZoneType
<1>14. pool[p].fragment = Cardinality(Bare(mem, S, lo, hi))
  BY <1>2 DEF Spaced
<1>15. PICK gaps : gaps = MapThenSumSet(LAMBDA b : GapBefore(p, b), Sheet(p))
  OBVIOUS
<1>16. /\ gaps + (hi - EndBefore(p, hi)) = pool[p].fragment /\ gaps \in Nat
  <2>1. Total(gap, S) \in Nat
    BY <1>2, <1>10, TotalType
  <2>2. QED BY <1>4, <1>10, <1>11, <1>14, <1>15, <2>1
<1>17. pool[p].used + binned + gaps + (hi - EndBefore(p, hi)) = hi - lo
  <2>1. PICK tail : tail = hi - EndBefore(p, hi) /\ tail \in Nat
    BY <1>7
  <2>2. QED BY <1>13, <1>16, <2>1
<1>18. binned = (hi - lo - pool[p].used) - pool[p].fragment
  BY <1>2, <1>13
<1>19. /\ \A b \in Sheet(p) : 0 <= GapBefore(p, b) /\ GapBefore(p, b) < MinBlock
       /\ 0 <= hi - EndBefore(p, hi) /\ hi - EndBefore(p, hi) < MinBlock
  <2>1. \A n \in {0, 1} : 0 <= n /\ n < MinBlock
    BY DEF MinBlock
  <2>2. QED BY <1>6, <1>7, <2>1
<1>20. QED BY <1>1, <1>8, <1>12, <1>15, <1>17, <1>18, <1>19, CoverageIs

(* With the audits and the links of the blocks in use, validate accepts.   *)
LEMMA ValidateHeap ==
  ASSUME HeapInv, FreeRunsCapped
  PROVE  ValidateAccepts
<1>1. SUFFICES ASSUME NEW p \in Pools, Exists(p) PROVE Validates(p)
  BY DEF ValidateAccepts
<1>2. Precheck(p) /\ AuditBins(p)
  BY <1>1, AuditsPass
<1>3. ASSUME NEW o \in Residents(p)
      PROVE  PrevLinkOk(obj[o].start, Lo(pool[p]))
  <2>1. PICK b : b = obj[o].start /\ b \in Heads(p)
    BY <1>1, <1>3, BlockFacts
  <2>2. mem[b].prev # 0 =>
          /\ SizeIn(mem, b - mem[b].prev) = mem[b].prev
          /\ mem[b].prev >= 2 /\ mem[b].prev <= b - Lo(pool[p])
    BY <1>1, <2>1, LinkFacts
  <2>3. PrevLinkOk(b, Lo(pool[p]))
    BY <2>2 DEF PrevLinkOk, SizeAt, SizeIn, IsFree, MinBlock
  <2>4. QED BY <2>1, <2>3
<1>4. Coverage(p)
  BY <1>1, CoverageHolds DEF FreeRunsCapped
<1>5. QED BY <1>2, <1>3, <1>4 DEF Validates

(* Behind every free block but the last comes a block in use or a bare     *)
(* unit, so a pool has no more free blocks than those and one.             *)
LEMMA FreeRunsCounted ==
  ASSUME HeapInv, NEW p \in Pools, Exists(p)
  PROVE  Cardinality(pool[p].bins) <= pool[p].live + pool[p].fragment + 1
<1>1. PICK S, lo, hi, B, R : /\ S = Heads(p) /\ lo = Lo(pool[p]) /\ hi = Hi(pool[p])
                             /\ B = pool[p].bins /\ R = Residents(p)
  OBVIOUS
<1>2. /\ \A u \in S : /\ u \in Nat /\ SizeIn(mem, u) \in Nat /\ SizeIn(mem, u) >= 2
                      /\ lo <= u /\ u + SizeIn(mem, u) <= hi
      /\ \A u, v \in S : u < v => u + SizeIn(mem, u) <= v
      /\ lo \in Nat /\ hi \in Nat
  BY <1>1, HeadFacts, PoolWindow
<1> DEFINE bare == Bare(mem, S, lo, hi)
           starts == {obj[o].start : o \in R}
           begin == [o \in R |-> obj[o].start]
           behind == [b \in B |-> b + SizeIn(mem, b)]
<1>3. B \subseteq S /\ S = B \cup starts
  BY <1>1 DEF Heads
<1>4. /\ pool[p].live = Cardinality(R) /\ pool[p].fragment = Cardinality(bare)
      /\ \A b, c \in B : b + SizeIn(mem, b) # c
  BY <1>1, PoolWindow DEF PoolInv, Spaced
<1>5. IsFiniteSet(R) /\ IsFiniteSet(starts) /\ Cardinality(starts) <= Cardinality(R)
  <2>1. IsFiniteSet(R)
    <3>1. R \in SUBSET Objects
      BY <1>1 DEF Residents
    <3>2. QED BY <3>1, HeapAssumption, FS_Subset
  <2>2. begin \in Surjection(R, starts)
    BY DEF Surjection
  <2> HIDE DEF begin, starts
  <2>3. QED BY <2>1, <2>2, FS_Surjection
<1>6. IsFiniteSet(bare)
  <2>1. bare \subseteq 0 .. hi /\ IsFiniteSet(0 .. hi)
    <3>1. IsFiniteSet(0 .. hi)
      BY <1>2, FS_Interval
    <3>2. bare \subseteq 0 .. hi
      BY <1>2 DEF Bare
    <3>3. QED BY <3>1, <3>2
  <2>2. QED BY <2>1, FS_Subset
<1>7. ASSUME NEW b \in B
      PROVE  behind[b] \in starts \/ behind[b] \in bare \/ behind[b] = hi
  <2>1. PICK e : e = b + SizeIn(mem, b)
    OBVIOUS
  <2>2. behind[b] = e /\ b \in S /\ b \in Nat /\ SizeIn(mem, b) \in Nat /\ e \in Nat /\ e <= hi
        /\ lo <= e /\ b < e
    BY <1>2, <1>3, <2>1
  <2>3. CASE e \in S
    BY <1>3, <1>4, <2>1, <2>2, <2>3
  <2>4. CASE e \notin S /\ e # hi
    <3>1. ASSUME NEW v \in S
          PROVE  e < v \/ v + SizeIn(mem, v) <= e
      <4>1. v \in Nat /\ SizeIn(mem, v) \in Nat /\ v # e
        BY <1>2, <2>4
      <4>2. /\ b < v => e <= v
            /\ v < b => v + SizeIn(mem, v) <= b
        BY <1>2, <2>1, <2>2
      <4>3. CASE v = b
        BY <2>1, <2>2, <4>3
      <4>4. CASE v # b
        BY <2>2, <4>1, <4>2, <4>4
      <4>5. QED BY <4>3, <4>4
    <3>2. e \in lo .. hi - 1
      BY <1>2, <2>2, <2>4
    <3>3. QED BY <2>2, <3>1, <3>2 DEF Bare
  <2>5. QED BY <2>2, <2>3, <2>4
<1>8. ASSUME NEW b \in B, NEW c \in B, behind[b] = behind[c]
      PROVE  b = c
  <2>1. /\ b \in Nat /\ c \in Nat /\ SizeIn(mem, b) \in Nat /\ SizeIn(mem, b) >= 2
        /\ SizeIn(mem, c) \in Nat /\ SizeIn(mem, c) >= 2
        /\ b < c => b + SizeIn(mem, b) <= c
        /\ c < b => c + SizeIn(mem, c) <= b
        /\ b + SizeIn(mem, b) = c + SizeIn(mem, c)
    BY <1>2, <1>3, <1>8
  <2>2. QED BY ONLY <2>1
<1> DEFINE T == (starts \cup bare) \cup {hi}
<1>9. behind \in Injection(B, T)
  BY <1>7, <1>8 DEF Injection, IsInjective
<1> HIDE DEF bare, starts, behind
<1>10. /\ IsFiniteSet(starts \cup bare)
       /\ Cardinality(starts \cup bare) <= Cardinality(starts) + Cardinality(bare)
       /\ Cardinality(starts \cup bare) \in Nat
  <2>1. /\ IsFiniteSet(starts \cup bare)
        /\ Cardinality(starts \cup bare)
             = Cardinality(starts) + Cardinality(bare) - Cardinality(starts \cap bare)
    BY <1>5, <1>6, FS_Union
  <2>2. /\ Cardinality(starts \cap bare) \in Nat /\ Cardinality(starts) \in Nat
        /\ Cardinality(bare) \in Nat /\ Cardinality(starts \cup bare) \in Nat
    <3>1. IsFiniteSet(starts \cap bare)
      <4>1. starts \cap bare \subseteq bare
        OBVIOUS
      <4>2. QED BY <1>6, <4>1, FS_Subset
    <3>2. QED BY <1>5, <1>6, <2>1, <3>1, FS_CardinalityType
  <2>3. QED BY <2>1, <2>2
<1>11. IsFiniteSet(T) /\ Cardinality(T) <= Cardinality(starts \cup bare) + 1
  <2>1. /\ IsFiniteSet(T)
        /\ Cardinality(T) = IF hi \in starts \cup bare THEN Cardinality(starts \cup bare)
                            ELSE Cardinality(starts \cup bare) + 1
    BY <1>10, FS_AddElement
  <2>2. QED BY <1>10, <2>1
<1> HIDE DEF T
<1>12. IsFiniteSet(B) /\ Cardinality(B) <= Cardinality(T)
  BY <1>9, <1>11, FS_Injection
<1>13. /\ Cardinality(B) \in Nat /\ Cardinality(T) \in Nat /\ Cardinality(starts) \in Nat
       /\ Cardinality(bare) \in Nat /\ Cardinality(R) \in Nat
  BY <1>5, <1>6, <1>11, <1>12, FS_CardinalityType
<1>14. Cardinality(B) <= Cardinality(R) + Cardinality(bare) + 1
  BY ONLY <1>5, <1>10, <1>11, <1>12, <1>13
<1>15. QED BY <1>1, <1>4, <1>14

-----------------------------------------------------------------------------
(* The theorems *)

LEMMA HeapStarts ==
  ASSUME Init
  PROVE  HeapInv
<1>1. /\ EmptyPool \in PoolRecord /\ EmptyPool.count = 0 /\ Stale \in Header
  BY EmptyTypes
<1>2. pool \in [Pools -> PoolRecord] /\ \A p \in Pools : pool[p].count = 0
  BY <1>1 DEF Init
<1>3. mem \in [Units -> Header]
  BY <1>1 DEF Init
<1>4. obj \in [Objects -> Descriptor] /\ \A o \in Objects : obj[o].size = 0
  <2>1. AnyPool \in Pools
    BY HeapAssumption DEF AnyPool
  <2>2. 0 \in Units /\ 0 \in 0 .. Zone
    BY HeapAssumption, ScaledUp, ZoneType DEF Zone
  <2>3. FreeDesc \in Descriptor /\ FreeDesc.size = 0
    BY <2>1, <2>2 DEF FreeDesc, Descriptor
  <2>4. QED BY <2>3 DEF Init
<1>5. TypeOK
  BY <1>2, <1>3, <1>4, TypeParts
<1>6. QED BY <1>2, <1>4, <1>5 DEF HeapInv, Exists

LEMMA HeapSteps ==
  ASSUME HeapInv, [Next]_vars
  PROVE  HeapInv'
<1>1. CASE \E n \in 1 .. Segments : CreatePool(n)
  BY <1>1, CreateKeeps
<1>2. CASE \E p \in Pools : DestroyPool(p)
  BY <1>2, DestroyKeeps
<1>3. CASE \E p \in Pools, o \in Objects, payload \in Payloads, pinned \in BOOLEAN :
             Alloc(p, o, payload, pinned)
  BY <1>3, AllocKeeps
<1>4. CASE \E o \in Objects : Free(o)
  BY <1>4, FreeKeeps
<1>5. CASE \E p \in Pools, req \in Requests : Compact(p, req)
  BY <1>5, CompactKeeps
<1>6. CASE \E s, t \in Pools : Merge(s, t)
  BY <1>6, MergeKeeps
<1>7. CASE \E p \in Pools, n \in 1 .. Segments : Split(p, n)
  BY <1>7, SplitKeeps
<1>8. CASE UNCHANGED vars
  <2>1. pool' = pool /\ obj' = obj /\ mem' = mem
    BY <1>8 DEF vars
  <2>2. TypeOK' /\ \A q \in Pools : Residents(q)' = Residents(q)
    BY <2>1 DEF HeapInv, TypeOK, Residents
  <2>3. \A o \in Objects : obj'[o].size > 0 => pool'[obj'[o].pool].count > 0
    BY <2>1 DEF HeapInv, Exists
  <2>4. {} \in SUBSET Pools
    OBVIOUS
  <2>5. QED BY <2>1, <2>2, <2>3, <2>4, HeapKept
<1>9. QED BY <1>1, <1>2, <1>3, <1>4, <1>5, <1>6, <1>7, <1>8 DEF Next

(* The invariant of the block layer holds in every state: the headers of   *)
(* every pool form one chain over its window, the bins hold its free       *)
(* blocks, the descriptors its used ones, and the counters agree.          *)
THEOREM HeapInvariant == Spec => []HeapInv
<1>1. Init => HeapInv
  BY HeapStarts
<1>2. HeapInv /\ [Next]_vars => HeapInv'
  BY HeapSteps
<1>3. QED BY <1>1, <1>2, PTL DEF Spec

(* Every word of a pool record, a descriptor and a header stays in range.  *)
THEOREM HeapTypes == Spec => []TypeOK
<1>1. HeapInv => TypeOK
  BY DEF HeapInv
<1>2. QED BY <1>1, HeapInvariant, PTL

(* free() never takes the headers around a live object for damage: every   *)
(* neighbour is linked both ways.                                           *)
THEOREM NeighboursFound == Spec => []FreeFindsNeighbours
BY HeapInvariant, NeighboursHold, PTL

(* A pool can always be packed in full, alone or merged with a neighbour:  *)
(* the refusals in compact's and merge's packing loops never fire.         *)
THEOREM PackingFits == Spec => []PackingNeverRefused
BY HeapInvariant, PackingHolds, PTL

(* The audits that gate compact, merge and split pass in every pool.       *)
GatesOpen == \A p \in Pools : Exists(p) => Precheck(p) /\ AuditBins(p)

(* precheck_pool and audit_pool_bins accept every pool that legal calls    *)
(* produce, so no maintenance operation is refused for CorruptMetadata.    *)
THEOREM AuditsOpen == Spec => []GatesOpen
<1>1. HeapInv => GatesOpen
  BY AuditsPass DEF GatesOpen
<1>2. QED BY <1>1, HeapInvariant, PTL

(* validate accepts every pool that legal calls produce as long as the     *)
(* pools' free blocks fit its scratch array: no other check of it fails.   *)
THEOREM ValidateHolds == Spec => [](FreeRunsCapped => ValidateAccepts)
<1>1. HeapInv => (FreeRunsCapped => ValidateAccepts)
  BY ValidateHeap
<1>2. QED BY <1>1, HeapInvariant, PTL

(* A pool's free blocks outnumber its blocks in use by its slack and one   *)
(* at most, so that only slack lets them outgrow the scratch array.        *)
FreeRunsBounded ==
  \A p \in Pools : Exists(p) => Cardinality(pool[p].bins) <= pool[p].live + pool[p].fragment + 1

(* Coalescing in free and the layouts of compact, merge and split never    *)
(* leave two free blocks with nothing between them.                        *)
THEOREM FreeRunsFew == Spec => []FreeRunsBounded
<1>1. HeapInv => FreeRunsBounded
  BY FreeRunsCounted DEF FreeRunsBounded
<1>2. QED BY <1>1, HeapInvariant, PTL
=============================================================================
