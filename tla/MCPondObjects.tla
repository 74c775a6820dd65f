----------------------------- MODULE MCPondObjects -----------------------------
(* Small instances of PondObjects for TLC. *)
EXTENDS PondObjects, TLC

MCPools2   == {0, 1}
MCOffsets1 == {1}

MCSymmetry == Permutations(Objects) \cup Permutations(Pointers) \cup Permutations(Accesses)
=============================================================================
