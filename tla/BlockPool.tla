------------------------------- MODULE BlockPool -------------------------------
(***************************************************************************)
(* What the allocator of a pool promises, with no headers, no bitmaps and  *)
(* no lists: blocks are intervals, and the index is a set of free ones.    *)
(* A request gets a block of the lowest class that holds a fitting one, a  *)
(* freed block grows by the free blocks it touches, and a compaction moves *)
(* blocks down without changing their order, their number or their sizes.  *)
(***************************************************************************)
EXTENDS Integers, FiniteSets

CONSTANTS
  Zone,      (* units of the pool                                           *)
  MinBlock,  (* the smallest block                                          *)
  Bin        (* the class of each size                                      *)

VARIABLES
  used,     (* blocks in use: pairs of an offset and a size                 *)
  listed,   (* free blocks a search can find                                *)
  pending   (* free blocks of a compaction that are not listed yet          *)

poolVars == <<used, listed, pending>>

Blocks == (0 .. Zone - 1) \X (1 .. Zone)
End(b) == b[1] + b[2]

PoolInit == used = {} /\ listed = {<<0, Zone>>} /\ pending = {}

(* No block below MinBlock is ever cut off.                                *)
Cut(b, need) == IF b[2] - need >= MinBlock THEN need ELSE b[2]
Remainder(b, size) == IF size < b[2] THEN {<<b[1] + size, b[2] - size>>} ELSE {}

Take(need) ==
  \E b \in listed :
    /\ pending = {}
    /\ b[2] >= need
    /\ \E small \in listed :
         /\ small[2] >= need /\ Bin[small[2]] = Bin[b[2]]
         /\ \A c \in listed : c[2] >= need => small[2] <= c[2]
    /\ used'   = used \cup {<<b[1], Cut(b, need)>>}
    /\ listed' = (listed \ {b}) \cup Remainder(b, Cut(b, need))
    /\ UNCHANGED pending

Touching(b) == {f \in listed : End(f) = b[1] \/ f[1] = End(b)}

Give(b) ==
  LET joined == {b} \cup Touching(b) IN
  /\ pending = {}
  /\ used' = used \ {b}
  /\ \E low, high \in joined :
       /\ \A f \in joined : low[1] <= f[1] /\ End(f) <= End(high)
       /\ listed' = (listed \ Touching(b)) \cup {<<low[1], End(high) - low[1]>>}
  /\ UNCHANGED pending

(* What lies between blocks, as far as it goes.                            *)
Gaps(S) ==
  {g \in Blocks : /\ g[1] = 0 \/ \E b \in S : End(b) = g[1]
                  /\ End(g) = Zone \/ \E b \in S : b[1] = End(g)
                  /\ \A b \in S : End(b) <= g[1] \/ End(g) <= b[1]}

Apart(S) == \A b, c \in S : b # c => End(b) <= c[1] \/ End(c) <= b[1]
Before(b, S) == Cardinality({c \in S : c[1] < b[1]})

(* The block that was the i-th still is, of the same size and no higher.   *)
Repack ==
  /\ pending = {}
  /\ used' \subseteq Blocks /\ Apart(used')
  /\ Cardinality(used') = Cardinality(used)
  /\ \A b \in used : \E c \in used' :
       c[2] = b[2] /\ c[1] <= b[1] /\ Before(c, used') = Before(b, used)
  /\ listed' = {}
  /\ pending' = Gaps(used')

List(b) == listed' = listed \cup {b} /\ pending' = pending \ {b} /\ UNCHANGED used

PoolNext ==
  \/ \E need \in MinBlock .. Zone : Take(need)
  \/ \E b \in used : Give(b)
  \/ Repack
  \/ \E b \in pending : List(b)

PoolSpec == PoolInit /\ [][PoolNext]_poolVars

=============================================================================
