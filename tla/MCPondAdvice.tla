----------------------------- MODULE MCPondAdvice -----------------------------
(* Small instances of PondAdvice for TLC. *)
EXTENDS PondAdvice

MCPools2     == {0, 1}
MCPayloads   == {1}
MCQueries    == {NoAdvice, 2, 7}
MCNoPartial  == {}
MCThresholds == {[ratio |-> 0, min |-> 0], [ratio |-> 100, min |-> 1]}

MCSymmetry == Permutations(Objects)

=============================================================================
