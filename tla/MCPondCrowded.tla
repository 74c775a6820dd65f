---------------------------- MODULE MCPondCrowded ----------------------------
(* A sequence of legal calls of PondHeap after which a pool has more free  *)
(* blocks than the scratch array of validate() has room for.               *)
EXTENDS PondHeap

CONSTANTS o1, o2, o3
VARIABLE call

MCPools3    == {0, 1, 2}
MCPayloads  == {1, 2, 3}
MCNoPartial == {}

(* Blocks that cross a split leave a unit of slack below each boundary     *)
(* (calls 0 to 5) and pinned blocks keep it there through the merges (6 to *)
(* 11); what is allocated above is then freed so that two blocks and the   *)
(* slack separate five free ones.                                          *)
Call ==
  \/ call = 0 /\ CreatePool(6)
  \/ call = 1 /\ Alloc(0, o1, 2, FALSE)
  \/ call = 2 /\ Alloc(0, o2, 2, FALSE)
  \/ call = 3 /\ Alloc(0, o3, 1, FALSE)
  \/ call = 4 /\ Split(0, 5)
  \/ call = 5 /\ Split(1, 4)
  \/ call = 6 /\ Free(o2)
  \/ call = 7 /\ Free(o3)
  \/ call = 8 /\ Alloc(1, o2, 2, TRUE)
  \/ call = 9 /\ Alloc(2, o3, 1, TRUE)
  \/ call = 10 /\ Merge(1, 0)
  \/ call = 11 /\ Merge(2, 0)
  \/ call = 12 /\ Free(o1)
  \/ call = 13 /\ Alloc(0, o1, 3, FALSE)
  \/ call = 14 /\ Free(o3)
  \/ call = 15 /\ Alloc(0, o3, 3, FALSE)
  \/ call = 16 /\ Free(o2)
  \/ call = 17 /\ Alloc(0, o2, 3, FALSE)
  \/ call = 18 /\ Free(o3)

CallSpec == Init /\ call = 0 /\ [][Call /\ call' = call + 1]_<<vars, call>>

=============================================================================
