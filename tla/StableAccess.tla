----------------------------- MODULE StableAccess -----------------------------
(***************************************************************************)
(* What PondMerge promises to the tasks that borrow: an object that is in  *)
(* use does not move, does not change pool and does not disappear, and it  *)
(* is relocated only while a pool is held for maintenance, which nobody    *)
(* can enter.  Nothing is said about counters, steps or locks.             *)
(***************************************************************************)
EXTENDS Integers

CONSTANTS Pools, Objects

VARIABLES gate,   (* "absent", "open", "shut" or "held", per pool           *)
          where,  (* the pool and the address of each object, or Nowhere    *)
          users   (* number of accesses in progress, per object             *)

stableVars == <<gate, where, users>>

Gates   == {"absent", "open", "shut", "held"}
Nowhere == [pool |-> -1, at |-> -1]
Unused(p) == \A o \in Objects : where[o].pool = p => users[o] = 0

StableInit ==
  /\ gate  = [p \in Pools |-> "absent"]
  /\ where = [o \in Objects |-> Nowhere]
  /\ users = [o \in Objects |-> 0]

Enter(o) ==
  /\ where[o] # Nowhere
  /\ gate[where[o].pool] = "open"
  /\ users' = [users EXCEPT ![o] = @ + 1]
  /\ UNCHANGED <<gate, where>>

Leave(o) ==
  /\ users[o] > 0
  /\ users' = [users EXCEPT ![o] = @ - 1]
  /\ UNCHANGED <<gate, where>>

Appear(o) ==
  /\ where[o] = Nowhere
  /\ where'[o].pool \in Pools
  /\ gate[where'[o].pool] = "open"
  /\ where' = [where EXCEPT ![o] = where'[o]]
  /\ UNCHANGED <<gate, users>>

Vanish(o) ==
  /\ where[o] # Nowhere
  /\ users[o] = 0
  /\ where' = [where EXCEPT ![o] = Nowhere]
  /\ UNCHANGED <<gate, users>>

Relocate(o) ==
  /\ where[o] # Nowhere
  /\ gate[where[o].pool] = "held"
  /\ users[o] = 0
  /\ where'[o].pool \in Pools
  /\ gate[where'[o].pool] = "held"
  /\ where' = [where EXCEPT ![o] = where'[o]]
  /\ UNCHANGED <<gate, users>>

(* One publication changes the gates of one or two pools; a gate is shut   *)
(* on its users only by waiting for them.                                  *)
Regate ==
  /\ \A p \in Pools : gate'[p] # gate[p] =>
       /\ gate'[p] \in Gates
       /\ gate'[p] \in {"held", "absent"} => Unused(p)
  /\ gate' = [p \in Pools |-> gate'[p]]
  /\ UNCHANGED <<where, users>>

StableNext ==
  \/ \E o \in Objects : Enter(o) \/ Leave(o) \/ Appear(o) \/ Vanish(o) \/ Relocate(o)
  \/ Regate

StableSpec == StableInit /\ [][StableNext]_stableVars

=============================================================================
