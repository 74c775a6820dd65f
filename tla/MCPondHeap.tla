------------------------------ MODULE MCPondHeap ------------------------------
(* Small instances of PondHeap for TLC. *)
EXTENDS PondHeap

MCPools2 == {0, 1}
MCPayloads123 == {1, 2, 3}
MCPayloads12 == {1, 2}
MCPayloads1235 == {1, 2, 3, 4, 5}

Request(target, budget, cap) ==
  [full |-> FALSE, target |-> target, budget |-> budget, cap |-> cap]

MCNoPartial == {}
MCPartial   == {Request(16, 0, 0), Request(16, 3, 0), Request(0, 3, 0), Request(0, 0, 1)}
MCTargets   == {Request(t, 0, 0) : t \in {0, 8, 16, 24}}
MCWrapping  == {Request(247, 0, 0)}
MCBudgets   == {Request(0, 3, c) : c \in {0, 1}}

(* Descriptor slots are interchangeable. *)
MCSymmetry == Permutations(Objects)

=============================================================================
