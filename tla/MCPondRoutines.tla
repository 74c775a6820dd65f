---------------------------- MODULE MCPondRoutines ----------------------------
(* A small instance of PondRoutines for TLC: every byte different. *)
EXTENDS PondRoutines

MCValues    == Nat
MCContents  == {[c \in Cells |-> c]}
MCZoneSizes == {4, 6}
=============================================================================
