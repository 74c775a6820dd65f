----------------------------- MODULE PondRoutines -----------------------------
(***************************************************************************)
(* The two routines a maintenance operation runs on, one at a time: it     *)
(* first puts the pool's objects into address order and then moves blocks. *)
(***************************************************************************)
EXTENDS PondMove, PondSort

Init == MoveInit /\ SortInit

Next ==
  \/ sort.pc = "idle" /\ MoveNext /\ UNCHANGED sortvars
  \/ call.mode = "none" /\ SortNext /\ UNCHANGED movevars

Spec == Init /\ [][Next]_<<movevars, sortvars>>

(* The type invariants of both routines.                                   *)
TypeOK == MoveTypeOK /\ SortTypeOK
=============================================================================
