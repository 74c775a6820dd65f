-------------------------- MODULE MCPondMaintenance --------------------------
(* Small instances of PondMaintenance for TLC. *)
EXTENDS PondMaintenance, TLC

MCPools2 == {0, 1}
MCPools3 == {0, 1, 2}
MCSizes1 == {1}
MCSizes2 == {1, 2}
MCSizesBig == {2}

(* Descriptor slots and tasks are interchangeable: slots are never compared *)
(* except by the addresses of their blocks.                                 *)
MCSymmetry == Permutations(Objects) \cup Permutations(Tasks)

=============================================================================
