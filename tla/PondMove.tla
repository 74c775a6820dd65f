------------------------------- MODULE PondMove -------------------------------
(***************************************************************************)
(* move_block (src/src/core.cpp), the copy that compact, merge and split   *)
(* relocate blocks with.  It promises what memmove does, and picks its own *)
(* primitive from the two addresses: memcpy when the ranges are disjoint,  *)
(* a loop over 4-byte words, upward or downward, when they overlap and are *)
(* aligned, memmove for the rest.                                          *)
(*                                                                         *)
(* Memory is modelled byte by byte.  memcpy and memmove belong to the C    *)
(* library: memcpy copies the bytes in any order, which shows when its     *)
(* ranges overlap; memmove copies as if through a buffer.                  *)
(***************************************************************************)
EXTENDS Integers, FiniteSets

CONSTANTS
  Bytes,     (* bytes of memory                                             *)
  Values,    (* what a byte may hold                                        *)
  Contents   (* what memory may hold when move_block is called              *)

ASSUME MoveAssumption ==
  /\ Bytes \in Nat
  /\ Contents \subseteq [0 .. Bytes - 1 -> Values] /\ Contents # {}

Cells     == 0 .. Bytes - 1
WordBytes == 4
Alignment == 8                      \* PM_ALIGNMENT

VARIABLES
  mem,   (* memory                                                          *)
  was,   (* history: memory at the call                                     *)
  call,  (* the arguments, and the primitive that is running                *)
  left,  (* memcpy: the offsets still to be copied                          *)
  i      (* the loops' counter                                              *)

movevars == <<mem, was, call, left, i>>

NoCall == [mode |-> "none", dst |-> 0, src |-> 0, size |-> 0]
words  == call.size \div WordBytes

-----------------------------------------------------------------------------
(* Memory m after the bytes at the offsets D have been copied.             *)
Moved(m, D) ==
  [x \in Cells |-> IF x - call.dst \in D THEN m[x - call.dst + call.src] ELSE m[x]]

Aligned(n) == n % Alignment = 0

(* Mutant: ranges that share one byte count as disjoint. *)
PrimitiveTouching(dst, src, size) ==
  IF dst = src \/ size = 0 THEN "returned"
  ELSE IF dst + size <= src + 1 \/ src + size <= dst + 1 THEN "memcpy"
  ELSE IF ~(Aligned(dst) /\ Aligned(src) /\ Aligned(size)) THEN "memmove"
  ELSE IF dst < src THEN "forward" ELSE "backward"

Primitive(dst, src, size) ==
  IF dst = src \/ size = 0 THEN "returned"
  ELSE IF dst + size <= src \/ src + size <= dst THEN "memcpy"
  ELSE IF ~(Aligned(dst) /\ Aligned(src) /\ Aligned(size)) THEN "memmove"
  ELSE IF dst < src THEN "forward" ELSE "backward"

-----------------------------------------------------------------------------
(* Mutant: the downward loop starts at the byte count. *)
move_blockInBytes(dst, src, size) ==
  /\ dst + size <= Bytes /\ src + size <= Bytes
  /\ LET mode == Primitive(dst, src, size) IN
     /\ call' = [mode |-> mode, dst |-> dst, src |-> src, size |-> size]
     /\ left' = IF mode = "memcpy" THEN 0 .. size - 1 ELSE {}
     /\ i'    = IF mode = "backward" THEN size ELSE 0
  /\ was' = mem
  /\ UNCHANGED mem

move_block(dst, src, size) ==
  /\ dst + size <= Bytes /\ src + size <= Bytes
  /\ LET mode == Primitive(dst, src, size) IN
     /\ call' = [mode |-> mode, dst |-> dst, src |-> src, size |-> size]
     /\ left' = IF mode = "memcpy" THEN 0 .. size - 1 ELSE {}
     /\ i'    = IF mode = "backward" THEN size \div WordBytes ELSE 0
  /\ was' = mem
  /\ UNCHANGED mem

memcpy_byte(x) ==
  /\ call.mode = "memcpy" /\ x \in left
  /\ mem'  = Moved(mem, {x})
  /\ left' = left \ {x}
  /\ UNCHANGED <<was, call, i>>

memmove ==
  /\ call.mode = "memmove"
  /\ mem'  = Moved(mem, 0 .. call.size - 1)
  /\ call' = [call EXCEPT !.mode = "returned"]
  /\ UNCHANGED <<was, left, i>>

(* dp[n] = sp[n] for the word number n *)
Word(n) == Moved(mem, WordBytes * n .. WordBytes * n + WordBytes - 1)

forward_word ==
  /\ call.mode = "forward" /\ i < words
  /\ mem' = Word(i)
  /\ i'   = i + 1
  /\ UNCHANGED <<was, call, left>>

backward_word ==
  /\ call.mode = "backward" /\ i > 0
  /\ mem' = Word(i - 1)
  /\ i'   = i - 1
  /\ UNCHANGED <<was, call, left>>

copy_ends ==
  /\ \/ call.mode = "memcpy" /\ left = {}
     \/ call.mode = "forward" /\ i = words
     \/ call.mode = "backward" /\ i = 0
  /\ call' = [call EXCEPT !.mode = "returned"]
  /\ UNCHANGED <<mem, was, left, i>>

(* Until the next call the program writes what it likes.                   *)
move_returns ==
  /\ call.mode = "returned"
  /\ call' = NoCall /\ left' = {} /\ i' = 0
  /\ mem' \in Contents
  /\ was' = mem'

MoveInit ==
  /\ mem \in Contents
  /\ was = mem /\ call = NoCall /\ left = {} /\ i = 0

MoveNext ==
  \/ /\ call.mode = "none"
     /\ \E dst, src \in Cells, size \in 0 .. Bytes : move_block(dst, src, size)
  \/ \E x \in left : memcpy_byte(x)
  \/ memmove \/ forward_word \/ backward_word \/ copy_ends \/ move_returns

MoveSpec == MoveInit /\ [][MoveNext]_movevars

-----------------------------------------------------------------------------
(* Properties *)

MoveTypeOK ==
  /\ mem \in [Cells -> Values] /\ was \in [Cells -> Values]
  /\ call \in [mode : {"none", "memcpy", "memmove", "forward", "backward", "returned"},
               dst : Nat, src : Nat, size : 0 .. Bytes]
  /\ call.dst + call.size <= Bytes /\ call.src + call.size <= Bytes
  /\ left \subseteq 0 .. call.size - 1
  /\ i \in 0 .. words

(* move_block is memmove: when it returns, the destination holds what the  *)
(* source held at the call, and no byte outside the destination has        *)
(* changed, however the ranges overlap.                                    *)
MoveExact == call.mode = "returned" => mem = Moved(was, 0 .. call.size - 1)
=============================================================================
