------------------------------- MODULE PondBins -------------------------------
(***************************************************************************)
(* The free-block index of one pool (TlsfBins, src/src/core.cpp): a first- *)
(* and a second-level bitmap, a list head per class, and doubly linked     *)
(* lists threaded through the free blocks themselves.  PondHeap knows the  *)
(* index as a set of free blocks and a contract for bins_find; here are    *)
(* the words that have to keep that contract.                              *)
(*                                                                         *)
(* The clients are alloc (find, remove, insert the remainder), free        *)
(* (remove the free neighbours, insert the merged block) and the           *)
(* finalize_layout of a compaction (reset, then one insert per hole).      *)
(* Neighbours are found by geometry: that the boundary tags agree with it  *)
(* is PondHeap's business, and so are pinned blocks and slack.             *)
(*                                                                         *)
(* A unit is PM_ALIGNMENT = 8 bytes, offsets are units from the pool's     *)
(* start, and `own` is the header word: the size of a used block, minus    *)
(* the size of a free one, 0 where no block starts.                        *)
(***************************************************************************)
EXTENDS Integers, FiniteSets, Sequences, FiniteSetsExt, SequencesExt

CONSTANTS
  Zone,     (* units of the pool, here the whole Auto Zone                  *)
  SlCount,  (* PM_SL_COUNT: second levels per power of two                  *)
  FlMax     (* PM_FL_MAX in units: init() refuses a zone of 2^FlMax units   *)

Pow2[f \in 0 .. FlMax] == IF f = 0 THEN 1 ELSE 2 * Pow2[f - 1]

ASSUME BinsAssumption ==
  /\ SlCount \in Nat \ {0}
  /\ FlMax \in Nat /\ FlMax >= 2
  /\ Zone \in Nat /\ Zone >= 2 /\ Zone < Pow2[FlMax]

MinBlock == 2
Units    == 0 .. Zone - 1
Null     == Zone        \* NULL_OFF
Junk     == Zone + 1    \* an offset outside the zone, as user bytes may spell
Offsets  == Units \cup {Null, Junk}
Levels   == 1 .. FlMax - 1
Seconds  == 0 .. SlCount - 1
Classes  == Levels \X Seconds

VARIABLES
  own,   (* header words                                                    *)
  bins,  (* heads, bitmaps, and the next and prev words of every free block *)
  todo   (* holes finalize_layout has yet to insert                         *)

vars == <<own, bins, todo>>

-----------------------------------------------------------------------------
(* Size classes *)

fl_index(n) == CHOOSE f \in Levels : Pow2[f] <= n /\ (n < Pow2[f + 1] \/ f = FlMax - 1)
sl_index(n) == LET f == fl_index(n)
                   s == ((n - Pow2[f]) * SlCount) \div Pow2[f]
               IN IF s < SlCount THEN s ELSE SlCount - 1
ClassOf(n)  == <<fl_index(n), sl_index(n)>>

IsFree(u) == own[u] < 0
SizeAt(u) == IF IsFree(u) THEN -own[u] ELSE own[u]
Class(u)  == ClassOf(SizeAt(u))
FreeBlocks == {u \in Units : IsFree(u)}

-----------------------------------------------------------------------------
(* The index *)

reset ==
  [head |-> [c \in Classes |-> Null], sl |-> [f \in Levels |-> {}], fl |-> {},
   next |-> [u \in Units |-> Junk], prev |-> [u \in Units |-> Junk]]

(* Mutant: the old head keeps its prev word. *)
InsertOneWay(b, c, u) ==
  [head |-> [b.head EXCEPT ![c] = u],
   sl   |-> [b.sl EXCEPT ![c[1]] = @ \cup {c[2]}],
   fl   |-> b.fl \cup {c[1]},
   next |-> [b.next EXCEPT ![u] = b.head[c]],
   prev |-> [b.prev EXCEPT ![u] = Null]]

bins_insert(b, c, u) ==
  [head |-> [b.head EXCEPT ![c] = u],
   sl   |-> [b.sl EXCEPT ![c[1]] = @ \cup {c[2]}],
   fl   |-> b.fl \cup {c[1]},
   next |-> [b.next EXCEPT ![u] = b.head[c]],
   prev |-> [x \in Units |-> IF x = u THEN Null ELSE IF x = b.head[c] THEN u ELSE b.prev[x]]]

(* Mutant: a first level whose bins are not all empty loses its bit. *)
RemoveClearsLevel(b, c, u) ==
  LET p    == b.prev[u]
      n    == b.next[u]
      head == IF p = Null THEN [b.head EXCEPT ![c] = n] ELSE b.head
      sl   == IF head[c] = Null THEN [b.sl EXCEPT ![c[1]] = @ \ {c[2]}] ELSE b.sl
  IN [head |-> head, sl |-> sl,
      fl   |-> IF head[c] = Null THEN b.fl \ {c[1]} ELSE b.fl,
      next |-> [x \in Units |-> IF x = u THEN Null ELSE IF x = p THEN n ELSE b.next[x]],
      prev |-> [x \in Units |-> IF x = u THEN Null ELSE IF x = n THEN p ELSE b.prev[x]]]

bins_remove(b, c, u) ==
  LET p    == b.prev[u]
      n    == b.next[u]
      head == IF p = Null THEN [b.head EXCEPT ![c] = n] ELSE b.head
      sl   == IF head[c] = Null THEN [b.sl EXCEPT ![c[1]] = @ \ {c[2]}] ELSE b.sl
  IN [head |-> head, sl |-> sl,
      fl   |-> IF head[c] = Null /\ sl[c[1]] = {} THEN b.fl \ {c[1]} ELSE b.fl,
      next |-> [x \in Units |-> IF x = u THEN Null ELSE IF x = p THEN n ELSE b.next[x]],
      prev |-> [x \in Units |-> IF x = u THEN Null ELSE IF x = n THEN p ELSE b.prev[x]]]

(* A removed block belongs to the user, who may write over its links.      *)
Scribbled(b, u) == [b EXCEPT !.next[u] = Junk, !.prev[u] = Junk]

(* The offsets a walk reads from a head: it stops at Null and at an offset *)
(* it may not follow, and after MaxSteps + 1 hops.                         *)
MaxSteps == Zone \div MinBlock + 1
Chain(b, c) ==
  LET walk[i \in 0 .. MaxSteps] ==
        IF i = 0 THEN b.head[c]
        ELSE LET x == walk[i - 1] IN IF x \in Units THEN b.next[x] ELSE Null
  IN [i \in 1 .. Cardinality({i \in 0 .. MaxSteps : walk[i] # Null}) |-> walk[i - 1]]

(* The bins bins_find visits: those of the first level of `need` from its  *)
(* own second level on, then every higher level.                           *)
VisitedBins(b, need) ==
  LET f    == fl_index(need)
      open == {c \in Classes : c[2] \in b.sl[c[1]]}
  IN {c \in open : \/ c[1] = f /\ c[2] >= sl_index(need)
                   \/ c[1] > f /\ c[1] \in b.fl}

(* The order of the visits: the lowest bit first.                          *)
Rank(c) == c[1] * SlCount + c[2]

(* Mutant: only the head of a bin is looked at. *)
FindHeadOnly(b, need) ==
  LET fits == {c \in VisitedBins(b, need) : SizeAt(b.head[c]) >= need}
  IN IF fits = {} THEN Null
     ELSE b.head[CHOOSE c \in fits : \A d \in fits : Rank(c) <= Rank(d)]

(* The hops of a search: a bin it visits and a place in that bin's list.   *)
Hops(b, need) == UNION {{c} \X DOMAIN Chain(b, c) : c \in VisitedBins(b, need)}
NoLater(g, h) == Rank(g[1]) < Rank(h[1]) \/ (g[1] = h[1] /\ g[2] <= h[2])

(* A search ends at a hop over the cap, at an offset it may not follow, or *)
(* at a fit.                                                               *)
OffAt(b, h) == Chain(b, h[1])[h[2]]
Over(hops, h) == Cardinality({g \in hops : NoLater(g, h)}) > MaxSteps
Stops(b, need) ==
  LET hops == Hops(b, need)
  IN {h \in hops : Over(hops, h) \/ OffAt(b, h) \notin Units \/ SizeAt(OffAt(b, h)) >= need}
FirstOf(stops) == CHOOSE h \in stops : \A g \in stops : NoLater(h, g)

bins_find(b, need) ==
  LET stops == Stops(b, need)
      first == FirstOf(stops)
  IN IF \/ need >= Pow2[FlMax] \/ stops = {}
        \/ Over(Hops(b, need), first) \/ OffAt(b, first) \notin Units
     THEN Null ELSE OffAt(b, first)

-----------------------------------------------------------------------------
(* The audits of the index *)

(* free_block_binned: the anchored proof free() asks of a free neighbour   *)
free_block_binned(b, u) ==
  LET head == b.head[Class(u)]  p == b.prev[u]  n == b.next[u] IN
  /\ head \in Units \cup {Null}
  /\ IF p = Null THEN head = u ELSE p \in Units /\ b.next[p] = u
  /\ n # Null => n \in Units /\ b.prev[n] = u

(* bins_bitmap_consistent: the screen of a refused alloc                   *)
bins_bitmap_consistent(b) ==
  /\ \A c \in Classes :
       /\ (b.head[c] # Null) = (c[2] \in b.sl[c[1]])
       /\ b.head[c] # Null =>
            b.head[c] \in Units /\ IsFree(b.head[c]) /\ Class(b.head[c]) = c
  /\ b.fl = {f \in Levels : b.sl[f] # {}}

(* Mutant: back links are not audited. *)
AuditForwardOnly(b) ==
  /\ \A c \in Classes :
       LET chain == Chain(b, c) IN
       /\ (chain # <<>>) = (c[2] \in b.sl[c[1]])
       /\ Len(chain) <= MaxSteps
       /\ \A i \in DOMAIN chain : chain[i] \in Units /\ IsFree(chain[i]) /\ Class(chain[i]) = c
  /\ b.fl = {f \in Levels : b.sl[f] # {}}

(* audit_pool_bins *)
audit_pool_bins(b) ==
  /\ \A c \in Classes :
       LET chain == Chain(b, c) IN
       /\ (chain # <<>>) = (c[2] \in b.sl[c[1]])
       /\ Len(chain) <= MaxSteps
       /\ \A i \in DOMAIN chain :
            LET u == chain[i] IN
            /\ u \in Units /\ IsFree(u) /\ SizeAt(u) >= MinBlock /\ Class(u) = c
            /\ b.next[u] # Null => b.next[u] \in Units /\ b.prev[b.next[u]] = u
            /\ b.prev[u] # Null => b.prev[u] \in Units /\ b.next[b.prev[u]] = u
  /\ b.fl = {f \in Levels : b.sl[f] # {}}

Chained(b) == UNION {ToSet(Chain(b, c)) : c \in Classes}

(* validate: the audit, and the bytes it counted are the free bytes        *)
validates(b) ==
  /\ audit_pool_bins(b)
  /\ MapThenSumSet(SizeAt, Chained(b)) = MapThenSumSet(SizeAt, FreeBlocks)

-----------------------------------------------------------------------------
(* The clients *)

Init ==
  /\ own  = [u \in Units |-> IF u = 0 THEN -Zone ELSE 0]
  /\ bins = bins_insert(reset, ClassOf(Zone), 0)
  /\ todo = {}

(* alloc: need is the block size a request rounds up to                    *)
Alloc(need) ==
  LET u     == bins_find(bins, need)
      whole == SizeAt(u)
      size  == IF whole - need >= MinBlock THEN need ELSE whole
      rest  == whole - size
      left  == Scribbled(bins_remove(bins, Class(u), u), u)
  IN /\ todo = {}
     /\ u # Null
     /\ own' = [x \in Units |-> IF x = u THEN size
                                ELSE IF x = u + size /\ rest > 0 THEN -rest ELSE own[x]]
     /\ bins' = IF rest > 0 THEN bins_insert(left, ClassOf(rest), u + size) ELSE left
     /\ UNCHANGED todo

(* Mutant: the merged block keeps the class of the block behind it. *)
FreedNotReclassed(b, u, back, ahead) ==
  LET b1 == IF back < u THEN bins_remove(b, Class(back), back) ELSE b
      b2 == IF ahead THEN bins_remove(b1, Class(u + own[u]), u + own[u]) ELSE b1
  IN bins_insert(b2, Class(back), back)

(* The index once the block u has been freed: the free neighbours leave    *)
(* their bins, the merged block enters its own.                            *)
Freed(b, u, back, ahead) ==
  LET end == u + own[u] + (IF ahead THEN SizeAt(u + own[u]) ELSE 0)
      b1  == IF back < u THEN Scribbled(bins_remove(b, Class(back), back), back) ELSE b
      b2  == IF ahead THEN Scribbled(bins_remove(b1, Class(u + own[u]), u + own[u]), u + own[u])
             ELSE b1
  IN bins_insert(b2, ClassOf(end - back), back)

Free(u) ==
  LET fwd   == u + own[u]
      ahead == fwd \in FreeBlocks
      prevs == {x \in FreeBlocks : x + SizeAt(x) = u}
      back  == IF prevs = {} THEN u ELSE CHOOSE x \in prevs : TRUE
      end   == fwd + (IF ahead THEN SizeAt(fwd) ELSE 0)
  IN /\ todo = {}
     /\ own[u] > 0
     /\ \A x \in prevs : free_block_binned(bins, x)
     /\ ahead => free_block_binned(bins, fwd)
     /\ bins' = Freed(bins, u, back, ahead)
     /\ own'  = [x \in Units |-> IF x = back THEN back - end
                                 ELSE IF x = u \/ (ahead /\ x = fwd) THEN 0 ELSE own[x]]
     /\ UNCHANGED todo

EndOfHole(a, heads) == Min({x \in heads : x >= a} \cup {Zone})

Holes(ends, heads) == {a \in ends : EndOfHole(a, heads) > a}

(* A compaction that its budget cuts after k blocks: they are packed       *)
(* toward the pool's start, the others stay.  finalize_layout starts from  *)
(* an empty index.                                                         *)
Compact(k) ==
  LET used   == {u \in Units : own[u] > 0}
      packed == {u \in used : Cardinality({x \in used : x < u}) < k}
      to(u)  == IF u \in packed THEN MapThenSumSet(SizeAt, {x \in packed : x < u}) ELSE u
      heads  == {to(u) : u \in used}
      ends   == {to(u) + own[u] : u \in used} \cup {0}
      holes  == Holes(ends, heads)
  IN /\ todo = {} /\ k <= Cardinality(used)
     /\ own' = [x \in Units |-> IF x \in holes THEN x - EndOfHole(x, heads)
                                ELSE IF x \in heads
                                THEN own[CHOOSE u \in used : to(u) = x] ELSE 0]
     /\ bins' = reset
     /\ todo' = holes

(* finalize_layout inserts the holes in address order.                     *)
InsertHole ==
  LET u == Min(todo) IN
  /\ todo # {}
  /\ bins' = bins_insert(bins, Class(u), u)
  /\ todo' = todo \ {u}
  /\ UNCHANGED own

Next ==
  \/ \E need \in MinBlock .. Zone : Alloc(need)
  \/ \E u \in Units : Free(u)
  \/ \E k \in 1 .. Zone : Compact(k)
  \/ InsertHole

Spec == Init /\ [][Next]_vars

-----------------------------------------------------------------------------
(* Properties *)

TypeOK ==
  /\ own \in [Units -> -Zone .. Zone]
  /\ bins \in [head : [Classes -> Offsets], sl : [Levels -> SUBSET Seconds],
               fl : SUBSET Levels, next : [Units -> Offsets], prev : [Units -> Offsets]]
  /\ todo \subseteq FreeBlocks

(* Every word keeps its type; the list of every class holds exactly the    *)
(* free blocks of that class, each once, linked both ways, and the two     *)
(* bitmaps say which lists are not empty: whatever the order in which      *)
(* alloc, free and compaction have unlinked blocks from the head, the      *)
(* middle or the tail of a list.                                           *)
IndexExact ==
  /\ TypeOK
  /\ \A c \in Classes :
       LET chain == Chain(bins, c) IN
       /\ ToSet(chain) = {u \in FreeBlocks \ todo : Class(u) = c}
       /\ IsInjective(chain)
       /\ \A i \in DOMAIN chain : bins.prev[chain[i]] = IF i = 1 THEN Null ELSE chain[i - 1]
       /\ c[2] \in bins.sl[c[1]] <=> chain # <<>>
  /\ bins.fl = {f \in Levels : bins.sl[f] # {}}

(* bins_find returns a block exactly when some free block fits, and then   *)
(* one of the lowest class that holds a fit: first fit inside a bin never  *)
(* hides a block behind a smaller head, no second or first level is        *)
(* skipped, and the cap on list hops never ends a search of a sound index. *)
FindKeepsContract ==
  todo = {} =>
    \A need \in MinBlock .. Zone :
      LET fits == {u \in FreeBlocks : SizeAt(u) >= need}
          u    == bins_find(bins, need)
      IN IF fits = {} THEN u = Null
         ELSE u \in fits /\ Class(u) = ClassOf(Min({SizeAt(x) : x \in fits}))

(* The three audits of different depth accept every index that alloc, free *)
(* and compaction leave behind: an alloc refused for want of a block is    *)
(* never reported as damage, and no legal free() is refused.               *)
AuditsAccept ==
  todo = {} =>
    /\ validates(bins)
    /\ bins_bitmap_consistent(bins)
    /\ \A u \in FreeBlocks : free_block_binned(bins, u)

(* The fault the audits exist for: one word of the index, a head, a link   *)
(* of a free block or a bit, has been overwritten.                         *)
Starts  == {u \in Units : own[u] # 0} \cup {Null, Junk}
Damaged ==
  {[bins EXCEPT !.head[c] = x] : c \in Classes, x \in Starts}
  \cup {[bins EXCEPT !.next[u] = x] : u \in FreeBlocks, x \in Starts}
  \cup {[bins EXCEPT !.prev[u] = x] : u \in FreeBlocks, x \in Starts}
  \cup {[bins EXCEPT !.sl[c[1]] = SymDiff(@, {c[2]})] : c \in Classes}
  \cup {[bins EXCEPT !.fl = SymDiff(@, {f})] : f \in Levels}

(* validate() finds any one damaged word of the index.  Its byte count is  *)
(* needed: a head moved down its own list passes audit_pool_bins.          *)
DamageFound == todo = {} => \A b \in Damaged \ {bins} : ~validates(b)

-----------------------------------------------------------------------------
(* What BlockPool sees of the words: blocks, read along the lists.         *)
InUse    == {<<u, own[u]>> : u \in {x \in Units : own[x] > 0}}
Indexed  == {<<u, SizeAt(u)>> : u \in Chained(bins) \cap Units}
Unlisted == {<<u, SizeAt(u)>> : u \in todo}

Pool == INSTANCE BlockPool WITH
  Bin <- [n \in MinBlock .. Zone |-> ClassOf(n)],
  used <- InUse, listed <- Indexed, pending <- Unlisted

(* Everything the allocator does is what BlockPool allows: in which words  *)
(* and lists the free blocks are kept, and in which order these are        *)
(* written, shows nowhere.                                                 *)
ImplementsBlockPool == Pool!PoolSpec
=============================================================================
