--------------------------- MODULE PondRoutineProofs --------------------------
(***************************************************************************)
(* move_block is memmove, for memory of any size and any two ranges in it; *)
(* and the heapsort of collect_live_sorted and validate sorts, for any     *)
(* number of keys.                                                         *)
(*                                                                         *)
(* The inductive invariant of move_block says what has been copied so far, *)
(* by offset: memcpy has copied what is not left, the upward loop the      *)
(* first 4 i bytes, the downward loop what lies from 4 i on.  A step reads *)
(* only offsets whose source still holds the byte of the call, because the *)
(* ranges are disjoint (memcpy), or the destination lies below the source  *)
(* (upward) or above it (downward).  That the loops end at the last byte   *)
(* is where the alignment test is needed.                                  *)
(*                                                                         *)
(* The invariant of the sort says which parents are in order with their    *)
(* children: from `next` to the end in the first loop, from 0 to `next` in *)
(* the second, while a sift runs all but the one at its root.  Behind      *)
(* `next` every key of the second loop is in its final place.  The array   *)
(* is at all times the given keys in some order, and a key gives back the  *)
(* address and the slot it was made of.                                    *)
(***************************************************************************)
EXTENDS PondRoutines, PondFolds

-----------------------------------------------------------------------------
(* The copy *)

(* The offsets copied so far. *)
Done ==
  CASE call.mode = "memcpy"   -> (0 .. call.size - 1) \ left
    [] call.mode = "forward"  -> 0 .. 4 * i - 1
    [] call.mode = "backward" -> 4 * i .. call.size - 1
    [] call.mode = "returned" -> 0 .. call.size - 1
    [] OTHER                  -> {}

(* What Primitive has established about the ranges. *)
Chosen ==
  /\ call.mode = "memcpy" =>
       call.dst + call.size <= call.src \/ call.src + call.size <= call.dst
  /\ call.mode \in {"forward", "backward"} => call.size % 8 = 0
  /\ call.mode = "forward"  => call.dst < call.src
  /\ call.mode = "backward" => call.src < call.dst

Copied == mem = Moved(was, Done)

MoveInv == MoveTypeOK /\ Chosen /\ Copied

-----------------------------------------------------------------------------
(* Copying the offsets D after the offsets E, when no source byte of D has *)
(* been written, copies both.                                              *)
LEMMA MovedTwice ==
  ASSUME MoveAssumption, MoveTypeOK, NEW D \in SUBSET (0 .. call.size - 1),
         NEW E \in SUBSET (0 .. call.size - 1),
         mem = Moved(was, E),
         \A d \in D : d + call.src - call.dst \notin E
  PROVE  Moved(mem, D) = Moved(was, D \cup E)
<1>1. ASSUME NEW x \in Cells
      PROVE  Moved(mem, D)[x] = Moved(was, D \cup E)[x]
  <2>. DEFINE d == x - call.dst
  <2>1. call.dst \in Nat /\ call.src \in Nat /\ call.size \in Nat /\ Bytes \in Nat
    BY DEF MoveAssumption, MoveTypeOK
  <2>2. CASE d \in D
    <3>1. d \in 0 .. call.size - 1
      BY <2>2
    <3>2. d + call.src \in Cells
      BY <2>1, <3>1 DEF Cells, MoveTypeOK
    <3>3. mem[d + call.src] = was[d + call.src]
      <4>1. (d + call.src) - call.dst \notin E
        BY <2>1, <2>2, <3>1
      <4>. QED BY <3>2, <4>1 DEF Moved
    <3>. QED BY <2>2, <3>3 DEF Moved
  <2>3. CASE d \notin D
    <3>1. Moved(mem, D)[x] = mem[x]
      BY <2>3 DEF Moved
    <3>2. mem[x] = IF d \in E THEN was[d + call.src] ELSE was[x]
      BY DEF Moved
    <3>. QED BY <2>3, <3>1, <3>2 DEF Moved
  <2>. QED BY <2>2, <2>3
<1>. QED BY <1>1 DEF Moved

(* Memory stays memory. *)
LEMMA MovedTyped ==
  ASSUME MoveAssumption, MoveTypeOK, NEW D \in SUBSET (0 .. call.size - 1),
         NEW m \in [Cells -> Values]
  PROVE  Moved(m, D) \in [Cells -> Values]
<1>1. ASSUME NEW x \in Cells, x - call.dst \in D
      PROVE  x - call.dst + call.src \in Cells
  <2>1. call.dst \in Nat /\ call.src \in Nat /\ call.size \in Nat /\ Bytes \in Nat
    BY DEF MoveAssumption, MoveTypeOK
  <2>. QED BY <1>1, <2>1 DEF MoveTypeOK, Cells
<1>. QED BY <1>1 DEF Moved

LEMMA MoveInitInv == ASSUME MoveAssumption PROVE MoveInit => MoveInv
<1>. SUFFICES ASSUME MoveInit PROVE MoveInv
  OBVIOUS
<1>1. mem \in [Cells -> Values] /\ was = mem /\ Bytes \in Nat
  BY DEF MoveInit, MoveAssumption, Cells
<1>2. MoveTypeOK
  BY <1>1 DEF MoveInit, NoCall, MoveTypeOK, words, WordBytes
<1>3. Chosen
  BY DEF MoveInit, NoCall, Chosen
<1>4. Copied
  BY <1>1 DEF MoveInit, NoCall, Copied, Moved, Done
<1>. QED BY <1>2, <1>3, <1>4 DEF MoveInv

(* The call picks its primitive. *)
LEMMA CallKeeps ==
  ASSUME MoveAssumption, MoveInv, call.mode = "none",
         NEW dst \in Cells, NEW src \in Cells, NEW size \in 0 .. Bytes,
         move_block(dst, src, size)
  PROVE  MoveInv'
<1>. DEFINE mode == Primitive(dst, src, size)
<1>1. /\ call' = [mode |-> mode, dst |-> dst, src |-> src, size |-> size]
      /\ left' = IF mode = "memcpy" THEN 0 .. size - 1 ELSE {}
      /\ i' = IF mode = "backward" THEN size \div 4 ELSE 0
      /\ mem' = mem /\ was' = mem
  BY DEF move_block, WordBytes
<1>2. /\ Bytes \in Nat /\ dst \in Nat /\ src \in Nat /\ size \in Nat
      /\ dst + size <= Bytes /\ src + size <= Bytes
  BY DEF MoveAssumption, Cells, move_block
<1>3. mode \in {"memcpy", "memmove", "forward", "backward", "returned"}
  BY DEF Primitive
<1>4. words' = size \div 4
  BY <1>1 DEF words, WordBytes
<1>5. MoveTypeOK'
  BY <1>1, <1>2, <1>3, <1>4 DEF MoveTypeOK, MoveInv
<1>6. Chosen'
  BY <1>1, <1>2 DEF Chosen, Primitive, Aligned, Alignment
<1>7. Copied'
  <2>1. ASSUME NEW x \in Cells PROVE mem'[x] = Moved(was, Done)'[x]
    <3>1. CASE mode = "returned"
      <4>1. dst = src \/ size = 0
        BY <3>1 DEF Primitive
      <4>2. Done' = 0 .. size - 1
        BY <1>1, <3>1 DEF Done
      <4>. QED BY <1>1, <1>2, <4>1, <4>2 DEF Moved, Cells
    <3>2. CASE mode # "returned"
      <4>1. CASE mode = "backward"
        <5>1. size % 8 = 0
          BY <4>1 DEF Primitive, Aligned, Alignment
        <5>2. Done' = 4 * (size \div 4) .. size - 1
          BY <1>1, <4>1 DEF Done
        <5>3. 4 * (size \div 4) = size
          BY <1>2, <5>1
        <5>4. Done' = {}
          BY <1>2, <5>2, <5>3
        <5>. QED BY <1>1, <5>4 DEF Moved
      <4>2. CASE mode # "backward"
        <5>1. Done' = {}
          BY <1>1, <1>2, <1>3, <3>2, <4>2 DEF Done
        <5>. QED BY <1>1, <5>1 DEF Moved
      <4>. QED BY <4>1, <4>2
    <3>. QED BY <3>1, <3>2
  <2>2. mem' \in [Cells -> Values]
    BY <1>1 DEF MoveInv, MoveTypeOK
  <2>. QED BY <2>1, <2>2 DEF Copied, Moved
<1>. QED BY <1>5, <1>6, <1>7 DEF MoveInv

(* A step of the primitive that copies the offsets D.                      *)
LEMMA StepKeeps ==
  ASSUME MoveAssumption, MoveInv, NEW D \in SUBSET (0 .. call.size - 1),
         mem' = Moved(mem, D), was' = was,
         call'.dst = call.dst, call'.src = call.src,
         Done \subseteq 0 .. call.size - 1,
         \A d \in D : d + call.src - call.dst \notin Done,
         Done' = D \cup Done
  PROVE  Copied' /\ mem' \in [Cells -> Values]
<1>1. mem' = Moved(was, D \cup Done)
  BY MovedTwice DEF MoveInv, Copied
<1>2. Moved(was, Done)' = Moved(was, D \cup Done)
  BY DEF Moved
<1>3. mem' \in [Cells -> Values]
  BY MovedTyped DEF MoveInv, MoveTypeOK
<1>. QED BY <1>1, <1>2, <1>3 DEF Copied

LEMMA MemcpyKeeps ==
  ASSUME MoveAssumption, MoveInv, NEW x \in left, memcpy_byte(x)
  PROVE  MoveInv'
<1>1. /\ call.mode = "memcpy" /\ x \in left
      /\ mem' = Moved(mem, {x}) /\ left' = left \ {x}
      /\ was' = was /\ call' = call /\ i' = i
  BY DEF memcpy_byte
<1>2. /\ left \subseteq 0 .. call.size - 1 /\ call.dst \in Nat /\ call.src \in Nat
      /\ call.size \in Nat /\ x \in 0 .. call.size - 1
      /\ call.dst + call.size <= call.src \/ call.src + call.size <= call.dst
  BY <1>1 DEF MoveInv, MoveTypeOK, Chosen, MoveAssumption
<1>3. Done = (0 .. call.size - 1) \ left /\ Done' = {x} \cup Done
  BY <1>1, <1>2 DEF Done
<1>4. x + call.src - call.dst \notin 0 .. call.size - 1
  BY <1>2
<1>5. Copied' /\ mem' \in [Cells -> Values]
  <2>1. {x} \in SUBSET (0 .. call.size - 1) /\ Done \subseteq 0 .. call.size - 1
    BY <1>2, <1>3
  <2>2. \A d \in {x} : d + call.src - call.dst \notin Done
    BY <1>4, <2>1
  <2>3. call'.dst = call.dst /\ call'.src = call.src
    BY <1>1
  <2>. QED BY <1>1, <1>3, <2>1, <2>2, <2>3, StepKeeps
<1>6. MoveTypeOK'
  BY <1>1, <1>5 DEF MoveInv, MoveTypeOK, words
<1>7. Chosen'
  BY <1>1 DEF MoveInv, Chosen
<1>. QED BY <1>5, <1>6, <1>7 DEF MoveInv

LEMMA MemmoveKeeps ==
  ASSUME MoveAssumption, MoveInv, memmove
  PROVE  MoveInv'
<1>1. /\ call.mode = "memmove" /\ call' = [call EXCEPT !.mode = "returned"]
      /\ mem' = Moved(mem, 0 .. call.size - 1)
      /\ was' = was /\ left' = left /\ i' = i
  BY DEF memmove
<1>2. call'.mode = "returned" /\ call'.dst = call.dst /\ call'.src = call.src
      /\ call'.size = call.size
  BY <1>1 DEF MoveInv, MoveTypeOK
<1>3. Done = {} /\ Done' = (0 .. call.size - 1) \cup Done
  BY <1>1, <1>2 DEF Done
<1>4. Copied' /\ mem' \in [Cells -> Values]
  BY <1>1, <1>2, <1>3, StepKeeps
<1>5. MoveTypeOK'
  BY <1>1, <1>4 DEF MoveInv, MoveTypeOK, words
<1>6. Chosen'
  BY <1>2 DEF Chosen
<1>. QED BY <1>4, <1>5, <1>6 DEF MoveInv

LEMMA ForwardKeeps ==
  ASSUME MoveAssumption, MoveInv, forward_word
  PROVE  MoveInv'
<1>. DEFINE D == 4 * i .. 4 * i + 3
<1>1. /\ call.mode = "forward" /\ i < words
      /\ mem' = Moved(mem, D) /\ i' = i + 1
      /\ was' = was /\ call' = call /\ left' = left
  BY DEF forward_word, Word, WordBytes, MoveInv, MoveTypeOK, words
<1>2. /\ call.dst \in Nat /\ call.src \in Nat /\ call.size \in Nat
      /\ i \in Nat /\ words = call.size \div 4
      /\ call.dst < call.src
  BY <1>1 DEF MoveInv, MoveTypeOK, Chosen, words, WordBytes, MoveAssumption
<1>3. 4 * i + 3 <= call.size - 1
  BY <1>1, <1>2
<1>4. Done = 0 .. 4 * i - 1
  BY <1>1 DEF Done
<1>5. Done' = 0 .. 4 * (i + 1) - 1
  BY <1>1 DEF Done
<1>6. Done' = D \cup Done /\ Done \subseteq 0 .. call.size - 1 /\ D \subseteq 0 .. call.size - 1
  BY <1>2, <1>3, <1>4, <1>5
<1>7. \A d \in D : d + call.src - call.dst \notin Done
  BY <1>2, <1>4
<1>8. Copied' /\ mem' \in [Cells -> Values]
  BY <1>1, <1>6, <1>7, StepKeeps
<1>9. MoveTypeOK'
  BY <1>1, <1>2, <1>8 DEF MoveInv, MoveTypeOK, words, WordBytes
<1>10. Chosen'
  BY <1>1 DEF MoveInv, Chosen
<1>. QED BY <1>8, <1>9, <1>10 DEF MoveInv

LEMMA BackwardKeeps ==
  ASSUME MoveAssumption, MoveInv, backward_word
  PROVE  MoveInv'
<1>. DEFINE D == 4 * (i - 1) .. 4 * (i - 1) + 3
<1>1. /\ call.mode = "backward" /\ i > 0
      /\ mem' = Moved(mem, D) /\ i' = i - 1
      /\ was' = was /\ call' = call /\ left' = left
  BY DEF backward_word, Word, WordBytes, MoveInv, MoveTypeOK, words
<1>2. /\ call.dst \in Nat /\ call.src \in Nat /\ call.size \in Nat
      /\ i \in Nat /\ words = call.size \div 4 /\ i <= words
      /\ call.src < call.dst
  BY <1>1 DEF MoveInv, MoveTypeOK, Chosen, words, WordBytes, MoveAssumption
<1>3. 4 * (i - 1) + 3 <= call.size - 1
  BY <1>1, <1>2
<1>4. Done = 4 * i .. call.size - 1
  BY <1>1 DEF Done
<1>5. Done' = 4 * (i - 1) .. call.size - 1
  BY <1>1 DEF Done
<1>6. Done' = D \cup Done /\ Done \subseteq 0 .. call.size - 1 /\ D \subseteq 0 .. call.size - 1
  <2>1. 4 * (i - 1) + 4 = 4 * i
    BY <1>2
  <2>2. \A d \in D : d \in Int /\ d < 4 * i /\ 4 * (i - 1) <= d /\ d <= call.size - 1
    BY <1>1, <1>2, <1>3
  <2>3. D \cup Done = 4 * (i - 1) .. call.size - 1
    BY <1>1, <1>2, <1>3, <1>4, <2>1, <2>2
  <2>4. D \subseteq 0 .. call.size - 1
    BY <1>1, <1>2, <2>2
  <2>5. QED BY <1>1, <1>2, <1>4, <1>5, <2>3, <2>4
<1>7. \A d \in D : d + call.src - call.dst \notin Done
  BY <1>2, <1>4
<1>8. Copied' /\ mem' \in [Cells -> Values]
  BY <1>1, <1>6, <1>7, StepKeeps
<1>9. MoveTypeOK'
  BY <1>1, <1>2, <1>8 DEF MoveInv, MoveTypeOK, words, WordBytes
<1>10. Chosen'
  BY <1>1 DEF MoveInv, Chosen
<1>. QED BY <1>8, <1>9, <1>10 DEF MoveInv

(* The loops end at the last byte, because the size is a multiple of 8.    *)
LEMMA EndKeeps ==
  ASSUME MoveAssumption, MoveInv, copy_ends
  PROVE  MoveInv'
<1>1. /\ call' = [call EXCEPT !.mode = "returned"]
      /\ mem' = mem /\ was' = was /\ left' = left /\ i' = i
  BY DEF copy_ends
<1>2. call'.mode = "returned" /\ call'.dst = call.dst /\ call'.src = call.src
      /\ call'.size = call.size /\ call.size \in Nat
  BY <1>1 DEF MoveInv, MoveTypeOK, MoveAssumption
<1>3. Done' = 0 .. call.size - 1
  BY <1>2 DEF Done
<1>4. Done = 0 .. call.size - 1
  <2>1. CASE call.mode = "memcpy" /\ left = {}
    BY <2>1 DEF Done
  <2>2. CASE call.mode = "forward" /\ i = words
    <3>a. Done = 0 .. 4 * i - 1
      BY <2>2 DEF Done, WordBytes
    <3>b. call.size % 8 = 0
      BY <2>2 DEF MoveInv, Chosen
    <3>c. i = call.size \div 4
      BY <2>2 DEF words, WordBytes
    <3>1. Done = 0 .. 4 * i - 1 /\ i = call.size \div 4 /\ call.size % 8 = 0
      BY <3>a, <3>b, <3>c
    <3>d. \A n \in Nat : n % 8 = 0 => 4 * (n \div 4) = n
      OBVIOUS
    <3>2. 4 * i = call.size
      BY <1>2, <3>1, <3>d
    <3>. QED BY <3>1, <3>2
  <2>3. CASE call.mode = "backward" /\ i = 0
    BY <2>3 DEF Done
  <2>. QED BY <2>1, <2>2, <2>3 DEF copy_ends
<1>5. Copied'
  BY <1>1, <1>2, <1>3, <1>4 DEF MoveInv, Copied, Moved
<1>6. MoveTypeOK'
  BY <1>1 DEF MoveInv, MoveTypeOK, words
<1>7. Chosen'
  BY <1>2 DEF Chosen
<1>. QED BY <1>5, <1>6, <1>7 DEF MoveInv

LEMMA ReturnKeeps ==
  ASSUME MoveAssumption, MoveInv, move_returns
  PROVE  MoveInv'
<1>1. /\ call' = NoCall /\ left' = {} /\ i' = 0 /\ mem' \in Contents /\ was' = mem'
  BY DEF move_returns
<1>2. mem' \in [Cells -> Values] /\ Bytes \in Nat
  BY <1>1 DEF MoveAssumption, Cells
<1>3. MoveTypeOK'
  BY <1>1, <1>2 DEF MoveTypeOK, NoCall, words, WordBytes
<1>4. Chosen'
  BY <1>1 DEF Chosen, NoCall
<1>5. Copied'
  BY <1>1, <1>2 DEF Copied, Moved, Done, NoCall
<1>. QED BY <1>3, <1>4, <1>5 DEF MoveInv

LEMMA StutterKeeps ==
  ASSUME MoveInv, UNCHANGED movevars
  PROVE  MoveInv'
<1>1. mem' = mem /\ was' = was /\ call' = call /\ left' = left /\ i' = i
  BY DEF movevars
<1>2. MoveTypeOK' /\ Chosen'
  BY <1>1 DEF MoveInv, MoveTypeOK, Chosen, words
<1>3. Copied'
  BY <1>1 DEF MoveInv, Copied, Moved, Done
<1>. QED BY <1>2, <1>3 DEF MoveInv

LEMMA MoveInvariant == MoveSpec => []MoveInv
<1>1. MoveInit => MoveInv
  BY MoveInitInv, MoveAssumption
<1>2. MoveInv /\ [MoveNext]_movevars => MoveInv'
  <2>. SUFFICES ASSUME MoveInv, [MoveNext]_movevars PROVE MoveInv'
    OBVIOUS
  <2>. USE MoveAssumption
  <2>1. ASSUME call.mode = "none", NEW dst \in Cells, NEW src \in Cells,
               NEW size \in 0 .. Bytes, move_block(dst, src, size)
        PROVE  MoveInv'
    BY <2>1, CallKeeps
  <2>2. ASSUME NEW x \in left, memcpy_byte(x) PROVE MoveInv'
    BY <2>2, MemcpyKeeps
  <2>3. CASE memmove
    BY <2>3, MemmoveKeeps
  <2>4. CASE forward_word
    BY <2>4, ForwardKeeps
  <2>5. CASE backward_word
    BY <2>5, BackwardKeeps
  <2>6. CASE copy_ends
    BY <2>6, EndKeeps
  <2>7. CASE move_returns
    BY <2>7, ReturnKeeps
  <2>8. CASE UNCHANGED movevars
    BY <2>8, StutterKeeps
  <2>. QED BY <2>1, <2>2, <2>3, <2>4, <2>5, <2>6, <2>7, <2>8 DEF MoveNext
<1>. QED BY <1>1, <1>2, PTL DEF MoveSpec

-----------------------------------------------------------------------------
(* The sorts.  Indices are the code's: v[k] is its a[k]. *)

Child(c, k) == c = 2 * k + 1 \/ c = 2 * k + 2

(* From `from` to `end`, a parent's key is not below its children's, but   *)
(* for the one at `hole`; its children's keys may take its place.          *)
Ordered(v, from, end, hole) ==
  \A k, c \in from .. end : Child(c, k) /\ k # hole => v[c] <= v[k]
Fillable(v, from, end, hole) ==
  \A p, c \in from .. end : Child(hole, p) /\ Child(c, hole) => v[c] <= v[p]

(* Behind `next` every key is in its final place. *)
Drained(v, n, next) ==
  \A j \in next + 1 .. n - 1 : \A k \in 0 .. j - 1 : v[k] <= v[j]

(* The larger of the children in reach. *)
Larger(v, end, r, m) ==
  /\ Child(m, r) /\ m <= end
  /\ \A c \in 0 .. end : Child(c, r) => v[c] <= v[m]

(* w is v with the keys at j and k exchanged. *)
Exchanged(v, w, n, j, k) ==
  /\ w[j] = v[k] /\ w[k] = v[j]
  /\ \A x \in 0 .. n - 1 : x # j /\ x # k => w[x] = v[x]

LEMMA LargerIs ==
  ASSUME NEW n \in Nat, NEW v \in [0 .. n - 1 -> Nat], NEW end \in Nat, end < n,
         NEW r \in Nat, NEW l \in Nat, l = 2 * r + 1, l <= end, NEW m,
         m = IF l + 1 <= end /\ v[l] < v[l + 1] THEN l + 1 ELSE l
  PROVE  m \in Nat /\ Larger(v, end, r, m)
<1>1. v[l] \in Nat /\ l \in 0 .. n - 1
  OBVIOUS
<1>2. \A c \in 0 .. end : Child(c, r) => c = l \/ c = l + 1
  BY DEF Child
<1>3. Child(l, r) /\ Child(l + 1, r)
  BY DEF Child
<1>4. CASE l + 1 <= end
  <2>1. v[l + 1] \in Nat
    BY <1>4
  <2>2. PICK x \in Nat, y \in Nat : x = v[l] /\ y = v[l + 1]
    BY <1>1, <2>1
  <2>3. CASE x < y
    <3>1. m = l + 1
      BY <1>4, <2>2, <2>3
    <3>2. x <= y /\ y <= y
      BY <2>3
    <3>3. v[l] <= v[m] /\ v[l + 1] <= v[m]
      BY <2>2, <3>1, <3>2
    <3>4. \A c \in 0 .. end : Child(c, r) => v[c] <= v[m]
      BY <1>2, <3>3
    <3>5. Child(m, r) /\ m <= end /\ m \in Nat
      BY <1>3, <1>4, <3>1
    <3>6. QED BY <3>4, <3>5 DEF Larger
  <2>4. CASE ~(x < y)
    <3>1. m = l
      BY <2>2, <2>4
    <3>2. x <= x /\ y <= x
      BY <2>4
    <3>3. v[l] <= v[m] /\ v[l + 1] <= v[m]
      BY <2>2, <3>1, <3>2
    <3>4. QED BY <1>2, <1>3, <1>4, <3>1, <3>3 DEF Larger
  <2>5. QED BY <2>3, <2>4
<1>5. CASE ~(l + 1 <= end)
  <2>1. m = l
    BY <1>5
  <2>2. \A c \in 0 .. end : Child(c, r) => c = l
    BY <1>2, <1>5
  <2>3. v[l] <= v[l]
    BY <1>1
  <2>4. QED BY <1>3, <2>1, <2>2, <2>3 DEF Larger
<1>6. QED BY <1>4, <1>5

LEMMA Family ==
  ASSUME NEW k \in Nat, NEW c \in Nat, Child(c, k)
  PROVE  k < c /\ \A p \in Nat : Child(c, p) => p = k
  BY DEF Child

(* One step of a sift: the larger child goes up. *)
LEMMA SiftSteps ==
  ASSUME NEW n \in Nat, NEW v \in [0 .. n - 1 -> Nat], NEW from \in Nat, NEW end \in Nat, end < n,
         NEW r \in Nat, r \in from .. end,
         Ordered(v, from, end, r), Fillable(v, from, end, r),
         NEW m \in Nat, Larger(v, end, r, m), v[r] <= v[m],
         NEW w, Exchanged(v, w, n, r, m)
  PROVE  m \in from .. end /\ Ordered(w, from, end, m) /\ Fillable(w, from, end, m)
<1>1. m <= end /\ Child(m, r) /\ r < m /\ m \in from .. end
  BY Family DEF Larger
<1>2. \A c \in from .. end : Child(c, r) => v[c] <= v[m]
  <2>1. \A c \in from .. end : c \in 0 .. end
    OBVIOUS
  <2>2. QED BY <2>1 DEF Larger
<1>3. /\ w[r] = v[m] /\ w[m] = v[r]
      /\ \A x \in from .. end : x # r /\ x # m => w[x] = v[x]
  <2>1. \A x \in from .. end : x \in 0 .. n - 1
    OBVIOUS
  <2>2. QED BY <2>1 DEF Exchanged
<1>4. ASSUME NEW k \in Nat, NEW c \in Nat, k \in from .. end, c \in from .. end,
             Child(c, k), k # m
      PROVE  w[c] <= w[k]
  <2>1. k < c
    BY <1>4, Family
  <2>2. CASE k = r
    <3>1. w[k] = v[m] /\ c # r
      BY <1>3, <2>1, <2>2
    <3>2. CASE c = m
      BY <1>3, <3>1, <3>2
    <3>3. CASE c # m
      <4>1. w[c] = v[c]
        BY <1>3, <1>4, <3>1, <3>3
      <4>2. QED BY <1>2, <1>4, <2>2, <3>1, <4>1
    <3>4. QED BY <3>2, <3>3
  <2>3. CASE k # r /\ c = r
    <3>1. v[m] <= v[k]
      BY <1>1, <1>4, <2>3 DEF Fillable
    <3>2. QED BY <1>3, <1>4, <2>3, <3>1
  <2>4. CASE k # r /\ c # r
    <3>1. c # m
      BY <1>1, <1>4, <2>4, Family
    <3>2. v[c] <= v[k]
      BY <1>4, <2>4 DEF Ordered
    <3>3. QED BY <1>3, <1>4, <2>4, <3>1, <3>2
  <2>5. QED BY <2>2, <2>3, <2>4
<1>5. ASSUME NEW p \in Nat, NEW c \in Nat, p \in from .. end, c \in from .. end,
             Child(m, p), Child(c, m)
      PROVE  w[c] <= w[p]
  <2>1. p = r
    BY <1>1, <1>5, Family
  <2>2. m < c
    BY <1>5, Family
  <2>3. v[c] <= v[m]
    <3>1. m # r
      BY <1>1
    <3>2. QED BY <1>1, <1>5, <3>1 DEF Ordered
  <2>4. c # r /\ c # m
    BY <1>1, <2>2
  <2>5. QED BY <1>3, <1>5, <2>1, <2>3, <2>4
<1>6. \A x \in from .. end : x \in Nat
  OBVIOUS
<1>7. QED BY <1>1, <1>4, <1>5, <1>6 DEF Ordered, Fillable

(* A sift that stops leaves no hole. *)
LEMMA SiftStops ==
  ASSUME NEW n \in Nat, NEW v \in [0 .. n - 1 -> Nat], NEW from \in Nat, NEW end \in Nat, end < n,
         NEW r \in Nat, r \in from .. end, Ordered(v, from, end, r),
         2 * r + 1 > end \/ \E m \in Nat : Larger(v, end, r, m) /\ v[m] <= v[r]
  PROVE  Ordered(v, from, end, -1)
<1>1. ASSUME NEW k \in from .. end, NEW c \in from .. end, Child(c, k), k = r
      PROVE  v[c] <= v[k]
  <2>1. c >= 2 * r + 1 /\ c <= end /\ c \in 0 .. end /\ c \in 0 .. n - 1 /\ r \in 0 .. n - 1
    BY <1>1 DEF Child
  <2>2. PICK m \in Nat : Larger(v, end, r, m) /\ v[m] <= v[r]
    BY <2>1
  <2>3. v[c] <= v[m]
    BY <1>1, <2>1, <2>2 DEF Larger
  <2>4. m \in 0 .. n - 1
    BY <2>2 DEF Larger
  <2>5. v[c] \in Nat /\ v[m] \in Nat /\ v[r] \in Nat
    BY <2>1, <2>4
  <2>6. v[c] <= v[r]
    <3>1. PICK x \in Nat, y \in Nat, z \in Nat : x = v[c] /\ y = v[m] /\ z = v[r]
      BY <2>5
    <3>2. x <= y /\ y <= z
      BY <2>2, <2>3, <3>1
    <3>3. x <= z
      BY ONLY <3>2, x \in Nat, y \in Nat, z \in Nat
    <3>4. QED BY <3>1, <3>3
  <2>7. QED BY <1>1, <2>6
<1>2. QED BY <1>1 DEF Ordered

(* The key on top of a heap is its greatest. *)
LEMMA TopIsGreatest ==
  ASSUME NEW n \in Nat, NEW v \in [0 .. n - 1 -> Nat], NEW end \in Nat, end < n,
         Ordered(v, 0, end, -1)
  PROVE  \A k \in 0 .. end : v[k] <= v[0]
<1> DEFINE Above == {k \in 0 .. end : ~(v[k] <= v[0])}
<1>1. SUFFICES ASSUME Above # {} PROVE FALSE
  OBVIOUS
<1>2. Above \in SUBSET Nat
  OBVIOUS
<1>3. PICK k \in Above : \A x \in Above : k <= x
  <2> HIDE DEF Above
  <2>1. QED BY <1>1, <1>2, LeastNumber
<1>4. k \in 0 .. end /\ v[0] \in Nat /\ v[k] \in Nat /\ k # 0
  <2>1. k \in 0 .. end /\ k \in 0 .. n - 1 /\ 0 \in 0 .. n - 1
    OBVIOUS
  <2>2. v[0] \in Nat /\ v[k] \in Nat
    BY <2>1
  <2>3. v[0] <= v[0]
    BY <2>2
  <2>4. ~(v[k] <= v[0])
    OBVIOUS
  <2>5. QED BY <2>1, <2>2, <2>3, <2>4
<1>5. PICK p \in 0 .. end : Child(k, p) /\ p < k
  <2>1. PICK p \in Nat : k = 2 * p + 1 \/ k = 2 * p + 2
    <3>1. k \in Nat /\ k >= 1
      BY <1>4
    <3>2. (k - 1) \div 2 \in Nat
      BY <3>1
    <3>3. k = 2 * ((k - 1) \div 2) + 1 \/ k = 2 * ((k - 1) \div 2) + 2
      BY <3>1
    <3>4. QED BY <3>2, <3>3
  <2>2. p < k /\ p \in 0 .. end
    <3>1. k \in Nat /\ k <= end
      BY <1>4
    <3>2. QED BY ONLY <2>1, <3>1, end \in Nat
  <2>3. QED BY <2>1, <2>2 DEF Child
<1>6. v[k] <= v[p] /\ v[p] <= v[0] /\ v[p] \in Nat
  <2>1. p \notin Above
    <3> HIDE DEF Above
    <3>1. k \in Nat /\ p \in Nat
      BY <1>4
    <3>2. ~(k <= p)
      BY ONLY <3>1, <1>5
    <3>3. QED BY <1>3, <3>2
  <2>2. v[p] <= v[0]
    BY <2>1
  <2>3. p # -1 /\ p \in 0 .. n - 1
    OBVIOUS
  <2>4. v[k] <= v[p]
    BY <1>4, <1>5, <2>3 DEF Ordered
  <2>5. QED BY <2>2, <2>3, <2>4
<1>7. v[k] <= v[0]
  BY <1>4, <1>6
<1>8. QED BY <1>7

(* The top key changes places with the last of the heap. *)
LEMMA DrainSteps ==
  ASSUME NEW n \in Nat, NEW v \in [0 .. n - 1 -> Nat], NEW next \in Nat, next \in 1 .. n - 1,
         Ordered(v, 0, next, -1), Drained(v, n, next),
         NEW w, Exchanged(v, w, n, 0, next)
  PROVE  /\ Ordered(w, 0, next - 1, 0) /\ Fillable(w, 0, next - 1, 0)
         /\ Drained(w, n, next - 1)
<1>1. /\ w[0] = v[next] /\ w[next] = v[0]
      /\ \A x \in 0 .. n - 1 : x # 0 /\ x # next => w[x] = v[x]
  BY DEF Exchanged
<1>2. ASSUME NEW k \in 0 .. next - 1, NEW c \in 0 .. next - 1, Child(c, k), k # 0
      PROVE  w[c] <= w[k]
  <2>1. c # 0 /\ c # next /\ k # next /\ c \in 0 .. n - 1 /\ k \in 0 .. n - 1
        /\ c \in 0 .. next /\ k \in 0 .. next /\ k # -1
    BY <1>2 DEF Child
  <2>2. w[c] = v[c] /\ w[k] = v[k]
    BY <1>1, <1>2, <2>1
  <2>3. QED BY <1>2, <2>1, <2>2 DEF Ordered
<1>3. \A p \in 0 .. next - 1 : ~Child(0, p)
  BY DEF Child
<1>4. \A k \in 0 .. next : v[k] <= v[0]
  <2>1. next < n
    OBVIOUS
  <2>2. QED BY <2>1, TopIsGreatest
<1>5. ASSUME NEW j \in next .. n - 1, NEW k \in 0 .. j - 1
      PROVE  w[k] <= w[j]
  <2>1. /\ j \in 0 .. n - 1 /\ k \in 0 .. n - 1 /\ k # j /\ j # 0
        /\ 0 \in 0 .. next /\ next \in 0 .. next
    OBVIOUS
  <2>2. CASE j = next
    <3>1. w[j] = v[0]
      BY <1>1, <2>2
    <3>2. CASE k = 0
      BY <1>1, <1>4, <2>1, <3>1, <3>2
    <3>3. CASE k # 0
      <4>1. w[k] = v[k] /\ k \in 0 .. next
        BY <1>1, <2>1, <2>2, <3>3
      <4>2. QED BY <1>4, <3>1, <4>1
    <3>4. QED BY <3>2, <3>3
  <2>3. CASE j # next
    <3>1. w[j] = v[j]
      BY <1>1, <2>1, <2>3
    <3>2. \A x \in 0 .. j - 1 : v[x] <= v[j]
      <4>1. j \in next + 1 .. n - 1
        BY <2>3
      <4>2. QED BY <4>1 DEF Drained
    <3>3. 0 \in 0 .. j - 1 /\ next \in 0 .. j - 1
      BY <2>3
    <3>4. CASE k = 0
      BY <1>1, <3>1, <3>2, <3>3, <3>4
    <3>5. CASE k = next
      BY <1>1, <3>1, <3>2, <3>3, <3>5
    <3>6. CASE k # 0 /\ k # next
      BY <1>1, <2>1, <3>1, <3>2, <3>6
    <3>7. QED BY <3>4, <3>5, <3>6
  <2>4. QED BY <2>2, <2>3
<1>6. Drained(w, n, next - 1)
  <2>1. next - 1 + 1 = next
    OBVIOUS
  <2>2. QED BY <1>5, <2>1 DEF Drained
<1>7. QED BY <1>2, <1>3, <1>6 DEF Ordered, Fillable

(* A swap in front of the drained keys leaves them so. *)
LEMMA DrainedSwap ==
  ASSUME NEW n \in Nat, NEW v \in [0 .. n - 1 -> Nat], NEW next \in Nat,
         next \in 0 .. n - 1, Drained(v, n, next),
         NEW h \in Nat, NEW j \in Nat, h <= next, j <= next,
         NEW w, Exchanged(v, w, n, h, j)
  PROVE  Drained(w, n, next)
<1>2. SUFFICES ASSUME NEW l \in next + 1 .. n - 1, NEW k \in 0 .. l - 1
               PROVE  w[k] <= w[l]
  BY DEF Drained
<1>3. /\ l \in 0 .. n - 1 /\ k \in 0 .. n - 1 /\ l # h /\ l # j
      /\ h \in 0 .. l - 1 /\ j \in 0 .. l - 1
  OBVIOUS
<1>4. w[l] = v[l] /\ \A x \in 0 .. l - 1 : v[x] <= v[l]
  BY <1>3 DEF Drained, Exchanged
<1>5. CASE k = h
  BY <1>3, <1>4, <1>5 DEF Exchanged
<1>6. CASE k = j
  BY <1>3, <1>4, <1>6 DEF Exchanged
<1>7. CASE k # h /\ k # j
  BY <1>3, <1>4, <1>7 DEF Exchanged
<1>8. QED BY <1>5, <1>6, <1>7

-----------------------------------------------------------------------------
(* The keys from index 0. *)
Zero(a) == [k \in 0 .. Len(a) - 1 |-> a[k + 1]]

LEMMA ZeroIs ==
  ASSUME NEW a \in Seq(Nat)
  PROVE  /\ Len(a) \in Nat /\ Zero(a) \in [0 .. Len(a) - 1 -> Nat]
         /\ \A k \in 0 .. Len(a) - 1 : Zero(a)[k] = a[k + 1]
<1>1. Len(a) \in Nat
  OBVIOUS
<1>2. ASSUME NEW k \in 0 .. Len(a) - 1 PROVE a[k + 1] \in Nat
  <2>1. k + 1 \in 1 .. Len(a)
    BY <1>1
  <2>2. QED BY <2>1
<1>3. QED BY <1>1, <1>2 DEF Zero

(* f maps every index of a to one of g that holds its key, each once. *)
Placing(f, a, g, n) ==
  /\ f \in [1 .. n -> 1 .. n]
  /\ \A j, k \in 1 .. n : f[j] = f[k] => j = k
  /\ \A k \in 1 .. n : \E j \in 1 .. n : f[j] = k
  /\ \A k \in 1 .. n : a[k] = g[f[k]]
Rearranged(a, g, n) == \E f \in [1 .. n -> 1 .. n] : Placing(f, a, g, n)

LEMMA NotMoved ==
  ASSUME NEW n \in Nat, NEW a
  PROVE  Rearranged(a, a, n)
<1> DEFINE f == [k \in 1 .. n |-> k]
<1>1. f \in [1 .. n -> 1 .. n] /\ \A k \in 1 .. n : f[k] = k
  OBVIOUS
<1> HIDE DEF f
<1>2. QED BY <1>1 DEF Rearranged, Placing

LEMMA SwapMoves ==
  ASSUME NEW a \in Seq(Nat), NEW n, n = Len(a), NEW j \in Nat, NEW k \in Nat, j < n, k < n,
         NEW b, b = Swapped(a, j + 1, k + 1), NEW g, Rearranged(a, g, n)
  PROVE  /\ b \in Seq(Nat) /\ Len(b) = n
         /\ Exchanged(Zero(a), Zero(b), n, j, k)
         /\ Rearranged(b, g, n)
<1>1. n \in Nat /\ a \in [1 .. n -> Nat] /\ DOMAIN a = 1 .. n
  OBVIOUS
<1>2. PICK J \in 1 .. n, K \in 1 .. n : J = j + 1 /\ K = k + 1
  <2>1. j + 1 \in 1 .. n /\ k + 1 \in 1 .. n
    BY <1>1
  <2>2. QED BY <2>1
<1>3. b = [a EXCEPT ![J] = a[K], ![K] = a[J]]
  BY <1>2 DEF Swapped
<1>4. /\ b \in [1 .. n -> Nat] /\ b[J] = a[K] /\ b[K] = a[J]
      /\ \A x \in 1 .. n : x # J /\ x # K => b[x] = a[x]
  BY <1>1, <1>3
<1>5. b \in Seq(Nat) /\ Len(b) = n
  <2>1. b \in [1 .. n -> Nat] /\ n \in Nat
    BY <1>1, <1>4
  <2>2. QED BY ONLY <2>1
<1>6. Exchanged(Zero(a), Zero(b), n, j, k)
  <2>1. /\ \A x \in 0 .. n - 1 : Zero(a)[x] = a[x + 1]
        /\ \A x \in 0 .. n - 1 : Zero(b)[x] = b[x + 1]
    BY <1>5, ZeroIs
  <2>2. j \in 0 .. n - 1 /\ k \in 0 .. n - 1
    BY <1>1
  <2>3. ASSUME NEW x \in 0 .. n - 1, x # j, x # k PROVE Zero(b)[x] = Zero(a)[x]
    <3>1. x + 1 \in 1 .. n /\ x + 1 # J /\ x + 1 # K
      BY <1>1, <1>2, <2>3
    <3>2. QED BY <1>4, <2>1, <3>1
  <2>4. QED BY <1>2, <1>4, <2>1, <2>2, <2>3 DEF Exchanged
<1>7. PICK f \in [1 .. n -> 1 .. n] : Placing(f, a, g, n)
  BY DEF Rearranged
<1> DEFINE h == [x \in 1 .. n |-> IF x = J THEN f[K] ELSE IF x = K THEN f[J] ELSE f[x]]
<1>8. /\ h \in [1 .. n -> 1 .. n] /\ h[J] = f[K] /\ h[K] = f[J]
      /\ \A x \in 1 .. n : x # J /\ x # K => h[x] = f[x]
  OBVIOUS
<1> HIDE DEF h
<1>9. \A x, y \in 1 .. n : h[x] = h[y] => x = y
  <2>1. \A x, y \in 1 .. n : f[x] = f[y] => x = y
    BY <1>7 DEF Placing
  <2>2. SUFFICES ASSUME NEW x \in 1 .. n, NEW y \in 1 .. n, h[x] = h[y] PROVE x = y
    OBVIOUS
  <2> DEFINE t(z) == IF z = J THEN K ELSE IF z = K THEN J ELSE z
  <2>3. h[x] = f[t(x)] /\ h[y] = f[t(y)] /\ t(x) \in 1 .. n /\ t(y) \in 1 .. n
    BY <1>8
  <2>4. t(x) = t(y)
    <3> HIDE DEF t
    <3>1. QED BY <2>1, <2>2, <2>3
  <2>5. QED BY <2>4
<1>10. ASSUME NEW y \in 1 .. n PROVE \E x \in 1 .. n : h[x] = y
  <2>1. PICK x \in 1 .. n : f[x] = y
    BY <1>7 DEF Placing
  <2>2. CASE x = J
    BY <1>8, <2>1, <2>2
  <2>3. CASE x = K
    BY <1>8, <2>1, <2>3
  <2>4. CASE x # J /\ x # K
    BY <1>8, <2>1, <2>4
  <2>5. QED BY <2>2, <2>3, <2>4
<1>11. ASSUME NEW x \in 1 .. n PROVE b[x] = g[h[x]]
  <2>1. a[x] = g[f[x]] /\ a[J] = g[f[J]] /\ a[K] = g[f[K]]
    BY <1>7 DEF Placing
  <2>2. CASE x = J
    BY <1>4, <1>8, <2>1, <2>2
  <2>3. CASE x = K
    BY <1>4, <1>8, <2>1, <2>3
  <2>4. CASE x # J /\ x # K
    BY <1>4, <1>8, <2>1, <2>4
  <2>5. QED BY <2>2, <2>3, <2>4
<1>12. Rearranged(b, g, n)
  BY <1>8, <1>9, <1>10, <1>11 DEF Rearranged, Placing
<1>13. QED BY <1>5, <1>6, <1>12

LEMMA ReversedMoves ==
  ASSUME NEW a \in Seq(Nat), NEW n, n = Len(a), NEW b, b = Reversed(a)
  PROVE  b \in Seq(Nat) /\ Len(b) = n /\ Rearranged(b, a, n)
<1>1. n \in Nat /\ a \in [1 .. n -> Nat] /\ DOMAIN a = 1 .. n
  OBVIOUS
<1>2. b = [k \in 1 .. n |-> a[n + 1 - k]]
  BY <1>1 DEF Reversed
<1>3. b \in [1 .. n -> Nat]
  <2>1. \A k \in 1 .. n : n + 1 - k \in 1 .. n
    BY <1>1
  <2>2. QED BY <1>1, <1>2, <2>1
<1>4. b \in Seq(Nat) /\ Len(b) = n
  <2>1. b \in Seq(Nat) /\ DOMAIN b = 1 .. n
    BY <1>1, <1>3
  <2>2. QED BY <1>1, <2>1
<1> DEFINE f == [k \in 1 .. n |-> n + 1 - k]
<1>5. /\ f \in [1 .. n -> 1 .. n] /\ \A k \in 1 .. n : f[k] = n + 1 - k
  BY <1>1
<1> HIDE DEF f
<1>6. \A j, k \in 1 .. n : f[j] = f[k] => j = k
  BY <1>1, <1>5
<1>7. ASSUME NEW k \in 1 .. n PROVE \E j \in 1 .. n : f[j] = k
  <2>1. n + 1 - k \in 1 .. n /\ n + 1 - (n + 1 - k) = k
    BY <1>1
  <2>2. QED BY <1>5, <2>1
<1>8. \A k \in 1 .. n : b[k] = a[f[k]]
  BY <1>2, <1>5
<1>9. QED BY <1>4, <1>5, <1>6, <1>7, <1>8 DEF Rearranged, Placing

LEMMA SameTimes ==
  ASSUME NEW n \in Nat, NEW a \in [1 .. n -> Nat], NEW g \in [1 .. n -> Nat],
         Rearranged(a, g, n), NEW x
  PROVE  Times(x, a) = Times(x, g)
<1>1. PICK f \in [1 .. n -> 1 .. n] : Placing(f, a, g, n)
  BY DEF Rearranged
<1> DEFINE A == {k \in 1 .. n : a[k] = x}
           G == {k \in 1 .. n : g[k] = x}
           h == [k \in A |-> f[k]]
<1>2. IsFiniteSet(A)
  <2>1. IsFiniteSet(1 .. n)
    BY FS_Interval
  <2>2. A \in SUBSET (1 .. n)
    OBVIOUS
  <2>3. QED BY <2>1, <2>2, FS_Subset
<1>3. h \in [A -> G]
  BY <1>1 DEF Placing
<1>4. \A j, k \in A : h[j] = h[k] => j = k
  BY <1>1 DEF Placing
<1>5. ASSUME NEW k \in G PROVE \E j \in A : h[j] = k
  <2>1. PICK j \in 1 .. n : f[j] = k
    BY <1>1 DEF Placing
  <2>2. j \in A
    BY <1>1, <2>1 DEF Placing
  <2>3. QED BY <2>1, <2>2
<1>6. h \in Bijection(A, G)
  BY <1>3, <1>4, <1>5 DEF Bijection, Injection, Surjection, IsInjective
<1>7. Cardinality(G) = Cardinality(A)
  BY <1>2, <1>6, FS_Bijection DEF ExistsBijection
<1>8. Times(x, a) = Cardinality(A) /\ Times(x, g) = Cardinality(G)
  <2>1. DOMAIN a = 1 .. n /\ DOMAIN g = 1 .. n
    OBVIOUS
  <2>2. QED BY <2>1 DEF Times
<1>9. QED BY <1>7, <1>8

-----------------------------------------------------------------------------
(* The invariant *)

SortStates == [pc : {"idle", "build", "build_sift", "drain", "drain_sift", "sorted"},
               by : {"none", "packed", "address"}, next : Nat, root : Nat, end : Nat]

(* What the loops have reached. *)
Stage(s, v, n) ==
  /\ s.pc = "build" => s.next < n /\ Ordered(v, s.next, n - 1, -1)
  /\ s.pc = "build_sift" =>
       /\ s.next <= s.root /\ s.root <= s.end /\ s.end = n - 1
       /\ Ordered(v, s.next, s.end, s.root) /\ Fillable(v, s.next, s.end, s.root)
  /\ s.pc = "drain" => s.next < n /\ Ordered(v, 0, s.next, -1) /\ Drained(v, n, s.next)
  /\ s.pc = "drain_sift" =>
       /\ s.root <= s.end /\ s.end = s.next /\ s.next < n /\ Drained(v, n, s.next)
       /\ Ordered(v, 0, s.end, s.root) /\ Fillable(v, 0, s.end, s.root)

Sorting(s, a, g) ==
  /\ a \in Seq(Nat) /\ g \in Seq(Nat) /\ Len(g) = Len(a)
  /\ s \in SortStates /\ s.next <= Len(a) /\ s.root <= Len(a) /\ s.end <= Len(a)
  /\ Rearranged(a, g, Len(a))
  /\ Stage(s, Zero(a), Len(a))
  /\ s.pc = "sorted" => Ascending(a)

(* A key is an address and a slot, and gives both back. *)
Span(by) == IF by = "packed" THEN SlotSpan ELSE MaxObjects

Keyed(by, g, addr) ==
  by # "none" =>
    /\ Len(g) <= Span(by) /\ addr \in [0 .. Len(g) - 1 -> Nat]
    /\ \A k \in 1 .. Len(g) : g[k] = addr[Len(g) - k] * Span(by) + (Len(g) - k)

SizeCap == IF MaxObjects > FreeCap THEN MaxObjects ELSE FreeCap

SortInv ==
  Sorting(sort, array, given) /\ Keyed(sort.by, given, address) /\ Len(array) <= SizeCap

LEMMA HeapifyStarts ==
  ASSUME NEW a \in Seq(Nat), Len(a) >= 2, NEW by \in {"none", "packed", "address"},
         NEW s, s = Heapify(Len(a), by)
  PROVE  Sorting(s, a, a)
<1>1. PICK n \in Nat : n = Len(a)
  OBVIOUS
<1>2. PICK h \in Nat : h = n \div 2 /\ h < n /\ n <= 2 * h + 1
  <2>1. n \div 2 \in Nat /\ n \div 2 < n /\ n <= 2 * (n \div 2) + 1
    BY <1>1
  <2>2. QED BY <2>1
<1>3. s = [pc |-> "build", by |-> by, next |-> h, root |-> 0, end |-> 0]
  BY <1>1, <1>2 DEF Heapify
<1>4. s \in SortStates /\ s.next <= Len(a) /\ s.root <= Len(a) /\ s.end <= Len(a)
  <2>1. s \in SortStates
    BY <1>3 DEF SortStates
  <2>2. s.next = h /\ s.root = 0 /\ s.end = 0 /\ h <= n /\ 0 <= n
    BY <1>2, <1>3
  <2>3. QED BY <1>1, <2>1, <2>2
<1>5. Rearranged(a, a, Len(a))
  BY <1>1, NotMoved
<1>6. Ordered(Zero(a), h, n - 1, -1)
  BY <1>1, <1>2 DEF Ordered, Child
<1>7. Stage(s, Zero(a), Len(a))
  BY <1>1, <1>2, <1>3, <1>6 DEF Stage
<1>8. s.pc # "sorted"
  BY <1>3
<1>9. QED BY <1>4, <1>5, <1>7, <1>8 DEF Sorting

LEMMA FastEnds ==
  ASSUME NEW a \in Seq(Nat), NEW g \in Seq(Nat), Len(g) = Len(a), Rearranged(a, g, Len(a)),
         Ascending(a), NEW by \in {"none", "packed", "address"},
         NEW s, s = [Quiet EXCEPT !.pc = "sorted", !.by = by]
  PROVE  Sorting(s, a, g)
<1>1. s = [pc |-> "sorted", by |-> by, next |-> 0, root |-> 0, end |-> 0]
  BY DEF Quiet
<1>2. s \in SortStates /\ s.next <= Len(a) /\ s.root <= Len(a) /\ s.end <= Len(a)
  <2>1. s \in SortStates
    BY <1>1 DEF SortStates
  <2>2. s.next = 0 /\ s.root = 0 /\ s.end = 0
    BY ONLY <1>1
  <2>3. PICK n \in Nat : n = Len(a)
    OBVIOUS
  <2>4. 0 <= n
    OBVIOUS
  <2>5. QED BY <2>1, <2>2, <2>3, <2>4
<1>3. Stage(s, Zero(a), Len(a))
  BY <1>1 DEF Stage
<1>4. QED BY <1>2, <1>3 DEF Sorting

(* The first loop takes the next parent, or ends with a heap. *)
Build(s, n) ==
  IF s.next > 0
  THEN [s EXCEPT !.pc = "build_sift", !.next = @ - 1, !.root = s.next - 1, !.end = n - 1]
  ELSE [s EXCEPT !.pc = "drain", !.next = n - 1]

LEMMA BuildKeeps ==
  ASSUME NEW s, NEW a, NEW g, Sorting(s, a, g), s.pc = "build", NEW t, t = Build(s, Len(a))
  PROVE  Sorting(t, a, g) /\ t.by = s.by
<1>1. PICK n \in Nat, next \in Nat : n = Len(a) /\ next = s.next /\ next < n
  BY DEF Sorting, SortStates, Stage
<1>2. s \in SortStates /\ Ordered(Zero(a), next, n - 1, -1)
  BY <1>1 DEF Sorting, Stage
<1>3. CASE next > 0
  <2>1. PICK m \in Nat, e \in Nat : m = next - 1 /\ e = n - 1 /\ m <= e
    <3>1. next - 1 \in Nat /\ n - 1 \in Nat /\ next - 1 <= n - 1
      BY <1>1, <1>3
    <3>2. QED BY <3>1
  <2>2. t = [s EXCEPT !.pc = "build_sift", !.next = m, !.root = m, !.end = e]
    BY <1>1, <1>3, <2>1 DEF Build
  <2>3. /\ t \in SortStates /\ t.pc = "build_sift" /\ t.next = m /\ t.root = m /\ t.end = e
        /\ t.by = s.by
    BY <1>2, <2>1, <2>2 DEF SortStates
  <2>4. Ordered(Zero(a), m, e, m)
    <3>1. \A k \in m .. e : k # m => k \in next .. n - 1 /\ k # -1
      BY <2>1
    <3>2. \A k \in m .. e : Child(m, k) => FALSE
      BY DEF Child
    <3>3. SUFFICES ASSUME NEW k \in m .. e, NEW c \in m .. e, Child(c, k), k # m
                   PROVE  Zero(a)[c] <= Zero(a)[k]
      BY DEF Ordered
    <3>4. c # m
      BY <3>2, <3>3
    <3>5. QED BY <1>2, <3>1, <3>3, <3>4 DEF Ordered
  <2>5. Fillable(Zero(a), m, e, m)
    BY DEF Fillable, Child
  <2>6. Stage(t, Zero(a), Len(a))
    BY <1>1, <2>1, <2>3, <2>4, <2>5 DEF Stage
  <2>7. t.next <= Len(a) /\ t.root <= Len(a) /\ t.end <= Len(a)
    BY <1>1, <2>1, <2>3
  <2>8. QED BY <2>3, <2>6, <2>7 DEF Sorting
<1>4. CASE ~(next > 0)
  <2>1. PICK e \in Nat : e = n - 1 /\ e < n
    <3>1. n - 1 \in Nat /\ n - 1 < n
      BY <1>1
    <3>2. QED BY <3>1
  <2>2. t = [s EXCEPT !.pc = "drain", !.next = e] /\ next = 0
    BY <1>1, <1>4, <2>1 DEF Build
  <2>3. /\ t \in SortStates /\ t.pc = "drain" /\ t.next = e /\ t.root = s.root /\ t.end = s.end
        /\ t.by = s.by
    BY <1>2, <2>1, <2>2 DEF SortStates
  <2>4. Ordered(Zero(a), 0, e, -1)
    BY <1>2, <2>1, <2>2
  <2>5. Drained(Zero(a), n, e)
    BY <2>1 DEF Drained
  <2>6. Stage(t, Zero(a), Len(a))
    BY <1>1, <2>1, <2>3, <2>4, <2>5 DEF Stage
  <2>7. t.next <= Len(a) /\ t.root <= Len(a) /\ t.end <= Len(a)
    BY <1>1, <2>1, <2>3 DEF Sorting
  <2>8. QED BY <2>3, <2>6, <2>7 DEF Sorting
<1>5. QED BY <1>3, <1>4

(* The second loop takes the greatest key out of the heap, or ends. *)
Drain(s) ==
  [s EXCEPT !.pc = "drain_sift", !.next = @ - 1, !.root = 0, !.end = s.next - 1]

LEMMA DrainKeeps ==
  ASSUME NEW s, NEW a, NEW g, Sorting(s, a, g), s.pc = "drain", s.next > 0,
         NEW b, b = Swapped(a, 1, s.next + 1), NEW t, t = Drain(s)
  PROVE  Sorting(t, b, g) /\ t.by = s.by /\ Len(b) = Len(a)
<1>1. /\ a \in Seq(Nat) /\ s \in SortStates /\ Rearranged(a, g, Len(a))
      /\ g \in Seq(Nat) /\ Len(g) = Len(a)
  BY DEF Sorting
<1>2. PICK n \in Nat, next \in Nat, e \in Nat :
        n = Len(a) /\ next = s.next /\ next < n /\ next > 0 /\ e = next - 1
  <2>1. PICK n \in Nat, next \in Nat : n = Len(a) /\ next = s.next /\ next < n /\ next > 0
    BY DEF Sorting, SortStates, Stage
  <2>2. next - 1 \in Nat
    BY <2>1
  <2>3. QED BY <2>1, <2>2
<1>3. Ordered(Zero(a), 0, next, -1) /\ Drained(Zero(a), n, next)
  BY <1>2 DEF Sorting, Stage
<1>4. /\ b \in Seq(Nat) /\ Len(b) = n /\ Exchanged(Zero(a), Zero(b), n, 0, next)
      /\ Rearranged(b, g, n)
  <2>1. PICK z \in Nat : z = 0 /\ z < n
    BY <1>2
  <2>2. b = Swapped(a, z + 1, next + 1)
    BY <1>2, <2>1
  <2>3. Exchanged(Zero(a), Zero(b), n, z, next) /\ b \in Seq(Nat) /\ Len(b) = n
        /\ Rearranged(b, g, n)
    <3>1. a \in Seq(Nat) /\ n = Len(a) /\ next < n /\ Rearranged(a, g, n)
      BY <1>1, <1>2
    <3>2. QED BY <2>1, <2>2, <3>1, SwapMoves
  <2>4. QED BY <2>1, <2>3
<1>5. Ordered(Zero(b), 0, e, 0) /\ Fillable(Zero(b), 0, e, 0) /\ Drained(Zero(b), n, e)
  <2>1. Zero(a) \in [0 .. n - 1 -> Nat]
    BY <1>1, <1>2, ZeroIs
  <2>2. next \in 1 .. n - 1
    BY <1>2
  <2>3. /\ Ordered(Zero(b), 0, next - 1, 0) /\ Fillable(Zero(b), 0, next - 1, 0)
        /\ Drained(Zero(b), n, next - 1)
    BY <1>3, <1>4, <2>1, <2>2, DrainSteps
  <2>4. QED BY <1>2, <2>3
<1>6. t = [s EXCEPT !.pc = "drain_sift", !.next = e, !.root = 0, !.end = e]
  BY <1>2 DEF Drain
<1>7. /\ t \in SortStates /\ t.pc = "drain_sift" /\ t.next = e /\ t.root = 0 /\ t.end = e
      /\ t.by = s.by
  <2>1. PICK z \in Nat : z = 0
    OBVIOUS
  <2>2. t = [s EXCEPT !.pc = "drain_sift", !.next = e, !.root = z, !.end = e]
    BY <1>6, <2>1
  <2>3. QED BY <1>1, <2>1, <2>2 DEF SortStates
<1>8. Stage(t, Zero(b), Len(b))
  BY <1>2, <1>4, <1>5, <1>7 DEF Stage
<1>9. t.next <= Len(b) /\ t.root <= Len(b) /\ t.end <= Len(b)
  BY <1>2, <1>4, <1>7
<1>10. QED BY <1>1, <1>2, <1>4, <1>7, <1>8, <1>9 DEF Sorting

LEMMA DrainEnds ==
  ASSUME NEW s, NEW a, NEW g, Sorting(s, a, g), s.pc = "drain", ~(s.next > 0),
         NEW t, t = [s EXCEPT !.pc = "sorted"]
  PROVE  Sorting(t, a, g) /\ t.by = s.by
<1>1. PICK n \in Nat : n = Len(a)
  BY DEF Sorting
<1>2. s.next = 0 /\ Drained(Zero(a), n, 0)
  <2>1. s.next \in Nat
    BY DEF Sorting, SortStates
  <2>2. s.next = 0
    BY <2>1
  <2>3. QED BY <1>1, <2>2 DEF Sorting, Stage
<1>3. /\ t \in SortStates /\ t.pc = "sorted" /\ t.next = s.next /\ t.root = s.root
      /\ t.end = s.end /\ t.by = s.by
  BY DEF Sorting, SortStates
<1>4. Ascending(a)
  <2>1. SUFFICES ASSUME NEW k \in 2 .. n PROVE a[k - 1] <= a[k]
    BY <1>1 DEF Ascending
  <2>2. PICK h \in Nat, j \in Nat : h = k - 2 /\ j = k - 1
    <3>1. k - 2 \in Nat /\ k - 1 \in Nat
      OBVIOUS
    <3>2. QED BY <3>1
  <2>3. Zero(a)[h] <= Zero(a)[j]
    <3>1. j \in 0 + 1 .. n - 1 /\ h \in 0 .. j - 1
      BY <2>2
    <3>2. QED BY <1>2, <3>1 DEF Drained
  <2>4. Zero(a)[h] = a[h + 1] /\ Zero(a)[j] = a[j + 1]
    <3>1. h \in 0 .. n - 1 /\ j \in 0 .. n - 1 /\ a \in Seq(Nat)
      BY <2>2 DEF Sorting
    <3>2. QED BY <1>1, <3>1, ZeroIs
  <2>5. h + 1 = k - 1 /\ j + 1 = k
    BY <2>2
  <2>6. QED BY <2>3, <2>4, <2>5
<1>5. Stage(t, Zero(a), Len(a))
  BY <1>3 DEF Stage
<1>6. QED BY <1>3, <1>4, <1>5 DEF Sorting

(* What a running sift may assume. *)
Sifting(s, v, n, from, end, r) ==
  /\ s.root = r /\ s.end = end /\ from <= r /\ r <= end /\ end < n
  /\ Ordered(v, from, end, r) /\ Fillable(v, from, end, r)
  /\ s.pc = "build_sift" => from = s.next /\ end = n - 1
  /\ s.pc = "drain_sift" => from = 0 /\ end = s.next /\ s.next < n /\ Drained(v, n, s.next)

LEMMA SiftingIs ==
  ASSUME NEW s, NEW a, NEW g, Sorting(s, a, g), s.pc \in {"build_sift", "drain_sift"}
  PROVE  /\ a \in Seq(Nat) /\ Len(a) \in Nat /\ s \in SortStates /\ Rearranged(a, g, Len(a))
         /\ g \in Seq(Nat) /\ Len(g) = Len(a)
         /\ \E from \in Nat, end \in Nat, r \in Nat : Sifting(s, Zero(a), Len(a), from, end, r)
<1>1. /\ a \in Seq(Nat) /\ s \in SortStates /\ Rearranged(a, g, Len(a)) /\ g \in Seq(Nat)
      /\ Len(g) = Len(a) /\ Stage(s, Zero(a), Len(a))
  BY DEF Sorting
<1>2. PICK n \in Nat, next \in Nat, r \in Nat, end \in Nat :
        n = Len(a) /\ next = s.next /\ r = s.root /\ end = s.end
  BY <1>1 DEF SortStates
<1>3. CASE s.pc = "build_sift"
  <2>1. /\ next <= r /\ r <= end /\ end = n - 1
        /\ Ordered(Zero(a), next, end, r) /\ Fillable(Zero(a), next, end, r)
    BY <1>1, <1>2, <1>3 DEF Stage
  <2>2. end < n
    BY <2>1
  <2>3. Sifting(s, Zero(a), n, next, end, r)
    BY <1>2, <1>3, <2>1, <2>2 DEF Sifting
  <2>4. QED BY <1>1, <1>2, <2>3
<1>4. CASE s.pc = "drain_sift"
  <2>1. /\ r <= end /\ end = next /\ next < n /\ Drained(Zero(a), n, next)
        /\ Ordered(Zero(a), 0, end, r) /\ Fillable(Zero(a), 0, end, r)
    BY <1>1, <1>2, <1>4 DEF Stage
  <2>2. PICK z \in Nat : z = 0 /\ z <= r
    OBVIOUS
  <2>3. Sifting(s, Zero(a), n, z, end, r)
    BY <1>2, <1>4, <2>1, <2>2 DEF Sifting
  <2>4. QED BY <1>1, <1>2, <2>3
<1>5. QED BY <1>3, <1>4

(* The child that LargerChild picks. *)
PickedChild(a, end, l) == IF l + 1 <= end /\ a[l + 1] < a[l + 2] THEN l + 1 ELSE l

Choosing(a, n, end, r, l, m) ==
  /\ a \in Seq(Nat) /\ n = Len(a) /\ end \in Nat /\ end < n /\ r \in Nat
  /\ l \in Nat /\ l = 2 * r + 1 /\ l <= end /\ m = PickedChild(a, end, l)

LEMMA ChildIs ==
  ASSUME NEW a, NEW n, NEW end, NEW r, NEW l, NEW m, Choosing(a, n, end, r, l, m)
  PROVE  m \in Nat /\ m < n /\ Larger(Zero(a), end, r, m) /\ Zero(a)[m] = a[m + 1]
<1>0. /\ a \in Seq(Nat) /\ n = Len(a) /\ end \in Nat /\ end < n /\ r \in Nat /\ n \in Nat
      /\ l \in Nat /\ l = 2 * r + 1 /\ l <= end /\ m = PickedChild(a, end, l)
  BY DEF Choosing
<1>1. Zero(a) \in [0 .. n - 1 -> Nat] /\ \A k \in 0 .. n - 1 : Zero(a)[k] = a[k + 1]
  BY <1>0, ZeroIs
<1>2. Zero(a)[l] = a[l + 1]
  BY <1>0, <1>1
<1>3. l + 1 <= end => Zero(a)[l + 1] = a[l + 2]
  <2>1. SUFFICES ASSUME l + 1 <= end PROVE Zero(a)[l + 1] = a[l + 2]
    OBVIOUS
  <2>2. l + 1 \in 0 .. n - 1 /\ (l + 1) + 1 = l + 2
    BY <1>0, <2>1
  <2>3. QED BY <1>1, <2>2
<1>4. m = IF l + 1 <= end /\ Zero(a)[l] < Zero(a)[l + 1] THEN l + 1 ELSE l
  BY <1>0, <1>2, <1>3 DEF PickedChild
<1>5. m \in Nat /\ Larger(Zero(a), end, r, m)
  BY <1>0, <1>1, <1>4, LargerIs
<1>6. m < n
  BY <1>0, <1>5 DEF Larger
<1>7. m \in 0 .. n - 1
  BY <1>0, <1>5, <1>6
<1>8. QED BY <1>1, <1>5, <1>6, <1>7

LEMMA SiftKeeps ==
  ASSUME NEW s, NEW a, NEW g, Sorting(s, a, g), s.pc \in {"build_sift", "drain_sift"},
         NEW l, l = 2 * s.root + 1, NEW m,
         m = PickedChild(a, s.end, l),
         ~(l > s.end), ~(a[s.root + 1] >= a[m + 1]),
         NEW b, b = Swapped(a, s.root + 1, m + 1), NEW t, t = [s EXCEPT !.root = m]
  PROVE  Sorting(t, b, g) /\ t.by = s.by /\ Len(b) = Len(a)
<1>1. PICK n \in Nat, from \in Nat, end \in Nat, r \in Nat :
        n = Len(a) /\ Sifting(s, Zero(a), n, from, end, r)
  BY SiftingIs
<1>2. /\ a \in Seq(Nat) /\ s \in SortStates /\ Rearranged(a, g, n)
      /\ g \in Seq(Nat) /\ Len(g) = n
  BY <1>1, SiftingIs
<1>3. s.root = r /\ s.end = end /\ from <= r /\ r <= end /\ end < n
  BY <1>1 DEF Sifting
<1>4. Ordered(Zero(a), from, end, r) /\ Fillable(Zero(a), from, end, r)
  BY <1>1 DEF Sifting
<1>5. l \in Nat /\ l = 2 * r + 1 /\ l <= end
  BY <1>3
<1>6. m \in Nat /\ m < n /\ Larger(Zero(a), end, r, m) /\ Zero(a)[m] = a[m + 1]
  <2>1. m = PickedChild(a, end, l)
    BY <1>3
  <2>2. a \in Seq(Nat) /\ n = Len(a) /\ end < n
    BY <1>1, <1>2, <1>3
  <2>3. Choosing(a, n, end, r, l, m)
    BY <1>5, <2>1, <2>2 DEF Choosing
  <2>4. QED BY <2>3, ChildIs
<1>7. Zero(a) \in [0 .. n - 1 -> Nat] /\ Zero(a)[r] = a[r + 1]
  <2>1. r \in 0 .. n - 1
    BY <1>3
  <2>2. QED BY <1>1, <1>2, <2>1, ZeroIs
<1>8. Zero(a)[r] <= Zero(a)[m]
  <2>1. Zero(a)[r] \in Nat /\ Zero(a)[m] \in Nat
    <3>1. r \in 0 .. n - 1 /\ m \in 0 .. n - 1
      BY <1>3, <1>6
    <3>2. QED BY <1>7, <3>1
  <2>2. PICK x \in Nat, y \in Nat : x = Zero(a)[r] /\ y = Zero(a)[m]
    BY <2>1
  <2>3. ~(x >= y)
    BY <1>3, <1>6, <1>7, <2>2
  <2>4. x <= y
    BY ONLY <2>3, x \in Nat, y \in Nat
  <2>5. QED BY <2>2, <2>4
<1>9. /\ b \in Seq(Nat) /\ Len(b) = n /\ Exchanged(Zero(a), Zero(b), n, r, m)
      /\ Rearranged(b, g, n)
  <2>1. b = Swapped(a, r + 1, m + 1) /\ r < n
    BY <1>3
  <2>2. QED BY <1>1, <1>2, <1>6, <2>1, SwapMoves
<1>10. m \in from .. end /\ Ordered(Zero(b), from, end, m) /\ Fillable(Zero(b), from, end, m)
  <2>1. r \in from .. end
    BY <1>3
  <2>2. QED BY <1>3, <1>4, <1>6, <1>7, <1>8, <1>9, <2>1, SiftSteps
<1>11. /\ t \in SortStates /\ t.pc = s.pc /\ t.next = s.next /\ t.root = m /\ t.end = end
       /\ t.by = s.by
  BY <1>2, <1>3, <1>6 DEF SortStates
<1>12. t.next <= Len(b) /\ t.root <= Len(b) /\ t.end <= Len(b)
  <2>1. s.next <= n /\ s.end <= n
    BY <1>1 DEF Sorting
  <2>2. m <= n
    BY <1>6
  <2>3. QED BY <1>3, <1>9, <1>11, <2>1, <2>2
<1>13. from <= m /\ m <= end
  BY <1>10
<1>14. CASE s.pc = "build_sift"
  <2>1. from = s.next /\ end = n - 1
    BY <1>1, <1>14 DEF Sifting
  <2>2. Stage(t, Zero(b), Len(b))
    BY <1>9, <1>10, <1>11, <1>13, <1>14, <2>1 DEF Stage
  <2>3. QED BY <1>2, <1>1, <1>9, <1>11, <1>12, <1>14, <2>2 DEF Sorting
<1>15. CASE s.pc = "drain_sift"
  <2>1. from = 0 /\ end = s.next /\ s.next < n /\ Drained(Zero(a), n, end)
    BY <1>1, <1>15 DEF Sifting
  <2>2. Drained(Zero(b), n, end)
    <3>1. end \in 0 .. n - 1
      BY <1>3
    <3>2. QED BY <1>3, <1>6, <1>7, <1>9, <1>13, <2>1, <3>1, DrainedSwap
  <2>3. Stage(t, Zero(b), Len(b))
    BY <1>9, <1>10, <1>11, <1>13, <1>15, <2>1, <2>2 DEF Stage
  <2>4. QED BY <1>2, <1>1, <1>9, <1>11, <1>12, <1>15, <2>3 DEF Sorting
<1>16. QED BY <1>14, <1>15

LEMMA SiftEnds ==
  ASSUME NEW s, NEW a, NEW g, Sorting(s, a, g), s.pc \in {"build_sift", "drain_sift"},
         NEW l, l = 2 * s.root + 1, NEW m,
         m = PickedChild(a, s.end, l),
         l > s.end \/ a[s.root + 1] >= a[m + 1],
         NEW t, t = [s EXCEPT !.pc = IF s.pc = "build_sift" THEN "build" ELSE "drain"]
  PROVE  Sorting(t, a, g) /\ t.by = s.by
<1>1. PICK n \in Nat, from \in Nat, end \in Nat, r \in Nat :
        n = Len(a) /\ Sifting(s, Zero(a), n, from, end, r)
  BY SiftingIs
<1>2. /\ a \in Seq(Nat) /\ s \in SortStates /\ Rearranged(a, g, n)
      /\ g \in Seq(Nat) /\ Len(g) = n
  BY <1>1, SiftingIs
<1>3. s.root = r /\ s.end = end /\ from <= r /\ r <= end /\ end < n
  BY <1>1 DEF Sifting
<1>4. Ordered(Zero(a), from, end, r)
  BY <1>1 DEF Sifting
<1>5. Zero(a) \in [0 .. n - 1 -> Nat] /\ Zero(a)[r] = a[r + 1]
  <2>1. r \in 0 .. n - 1
    BY <1>3
  <2>2. QED BY <1>1, <1>2, <2>1, ZeroIs
<1>6. l \in Nat /\ l = 2 * r + 1
  BY <1>3
<1>7. 2 * r + 1 > end \/ \E k \in Nat : Larger(Zero(a), end, r, k) /\ Zero(a)[k] <= Zero(a)[r]
  <2>1. SUFFICES ASSUME ~(l > end)
                 PROVE  \E k \in Nat : Larger(Zero(a), end, r, k) /\ Zero(a)[k] <= Zero(a)[r]
    BY <1>6
  <2>2. l <= end
    BY <1>6, <2>1
  <2>3. m \in Nat /\ m < n /\ Larger(Zero(a), end, r, m) /\ Zero(a)[m] = a[m + 1]
    <3>1. m = PickedChild(a, end, l)
      BY <1>3
    <3>2. a \in Seq(Nat) /\ n = Len(a) /\ end < n
      BY <1>1, <1>2, <1>3
    <3>3. Choosing(a, n, end, r, l, m)
      BY <1>6, <2>2, <3>1, <3>2 DEF Choosing
    <3>4. QED BY <3>3, ChildIs
  <2>4. PICK x \in Nat, y \in Nat : x = Zero(a)[r] /\ y = Zero(a)[m]
    <3>1. r \in 0 .. n - 1 /\ m \in 0 .. n - 1
      BY <1>3, <2>3
    <3>2. QED BY <1>5, <3>1
  <2>5. x >= y
    BY <1>3, <1>5, <2>1, <2>3, <2>4
  <2>6. y <= x
    BY ONLY <2>5, x \in Nat, y \in Nat
  <2>7. QED BY <2>3, <2>4, <2>6
<1>8. Ordered(Zero(a), from, end, -1)
  <2>1. r \in from .. end
    BY <1>3
  <2>2. QED BY <1>3, <1>4, <1>5, <1>7, <2>1, SiftStops
<1>9. t.next = s.next /\ t.root = s.root /\ t.end = s.end /\ t.by = s.by
  BY <1>2 DEF SortStates
<1>10. CASE s.pc = "build_sift"
  <2>1. from = s.next /\ end = n - 1 /\ s.next < n
    <3>1. from = s.next /\ end = n - 1
      BY <1>1, <1>10 DEF Sifting
    <3>2. from < n
      BY <1>3
    <3>3. QED BY <3>1, <3>2
  <2>2. t \in SortStates /\ t.pc = "build"
    BY <1>2, <1>10 DEF SortStates
  <2>3. Stage(t, Zero(a), Len(a))
    BY <1>1, <1>8, <1>9, <2>1, <2>2 DEF Stage
  <2>4. QED BY <1>9, <2>2, <2>3 DEF Sorting
<1>11. CASE s.pc = "drain_sift"
  <2>1. from = 0 /\ end = s.next /\ s.next < n /\ Drained(Zero(a), n, s.next)
    BY <1>1, <1>11 DEF Sifting
  <2>2. t \in SortStates /\ t.pc = "drain"
    BY <1>2, <1>11 DEF SortStates
  <2>3. Stage(t, Zero(a), Len(a))
    BY <1>1, <1>8, <1>9, <2>1, <2>2 DEF Stage
  <2>4. QED BY <1>9, <2>2, <2>3 DEF Sorting
<1>12. QED BY <1>10, <1>11

-----------------------------------------------------------------------------
(* Keys *)

LEMMA LessTimes ==
  ASSUME NEW x \in Nat, NEW y \in Nat, NEW m \in Nat, x < y
  PROVE  x * m + m <= y * m
<1>1. PICK d \in Nat : y = x + 1 + d
  <2>1. y - x - 1 \in Nat /\ y = x + 1 + (y - x - 1)
    OBVIOUS
  <2>2. QED BY <2>1
<1>2. y * m = x * m + m + d * m
  BY <1>1
<1>3. x * m \in Nat /\ d * m \in Nat
  BY NatTimes
<1>4. QED BY <1>2, <1>3

(* The slot comes back out of a key. *)
LEMMA KeySlot ==
  ASSUME NEW x \in Nat, NEW m \in Nat, NEW s \in Nat, s < m
  PROVE  (x * m + s) % m = s
<1>1. PICK k \in Nat : k = x * m + s
  BY NatTimes
<1>2. PICK q \in Int, r \in Int : q = k \div m /\ r = k % m
  BY SMT
<1>3. k = m * q + r /\ 0 <= r /\ r < m /\ q \in Nat /\ r \in Nat
  BY <1>2
<1>4. x * m + s = q * m + r
  BY <1>1, <1>3
<1>5. CASE x < q
  <2>1. x * m + m <= q * m
    BY <1>3, <1>5, LessTimes
  <2>2. x * m \in Nat /\ q * m \in Nat
    BY <1>3, NatTimes
  <2>3. QED BY <1>3, <1>4, <2>1, <2>2
<1>6. CASE q < x
  <2>1. q * m + m <= x * m
    BY <1>3, <1>6, LessTimes
  <2>2. x * m \in Nat /\ q * m \in Nat
    BY <1>3, NatTimes
  <2>3. QED BY <1>3, <1>4, <2>1, <2>2
<1>7. CASE x = q
  <2>1. x * m \in Nat
    BY NatTimes
  <2>2. s = r
    BY <1>3, <1>4, <1>7, <2>1
  <2>3. QED BY <1>1, <1>2, <2>2
<1>8. x < q \/ q < x \/ x = q
  BY <1>3
<1>9. QED BY <1>5, <1>6, <1>7, <1>8

(* Keys compare as addresses do, and as slots where these are equal. *)
LEMMA KeyOrder ==
  ASSUME NEW x \in Nat, NEW y \in Nat, NEW m \in Nat, NEW s \in Nat, NEW t \in Nat,
         s < m, t < m, s # t, x * m + s <= y * m + t
  PROVE  x < y \/ (x = y /\ s < t)
<1>1. x * m \in Nat /\ y * m \in Nat
  BY NatTimes
<1>2. ~(y < x)
  <2>1. SUFFICES ASSUME y < x PROVE FALSE
    OBVIOUS
  <2>2. y * m + m <= x * m
    BY <2>1, LessTimes
  <2>3. QED BY <1>1, <2>2
<1>3. CASE x = y
  <2>1. PICK p \in Nat : p = x * m
    BY <1>1
  <2>2. p + s <= p + t
    BY <1>3, <2>1
  <2>3. s < t
    BY ONLY <2>2, p \in Nat, s \in Nat, t \in Nat, s # t
  <2>4. QED BY <1>3, <2>3
<1>4. QED BY <1>2, <1>3

Key(by, addr, s) ==
  IF by = "packed" THEN ((addr[s] * SlotSpan) % (OffSpan * SlotSpan)) + s
  ELSE addr[s] * MaxObjects + s

Comparison(zone) == IF Packs(zone) THEN "packed" ELSE "address"
KeyList(by, addr, n) == [k \in 1 .. n |-> Key(by, addr, n - k)]

Listed(zone, n, addr) ==
  zone \in Nat /\ n \in 0 .. MaxObjects /\ addr \in [0 .. n - 1 -> 0 .. zone - 1]

(* No address overflows its bits, and no slot. *)
LEMMA KeysKeyed ==
  ASSUME SortAssumption, NEW zone, NEW n, NEW addr, Listed(zone, n, addr),
         NEW by, by = Comparison(zone), NEW keys, keys = KeyList(by, addr, n)
  PROVE  keys \in Seq(Nat) /\ Len(keys) = n /\ Keyed(by, keys, addr)
<1>0. zone \in Nat /\ n \in 0 .. MaxObjects /\ addr \in [0 .. n - 1 -> 0 .. zone - 1]
  BY DEF Listed
<1>1. /\ n \in Nat /\ MaxObjects \in Nat /\ SlotSpan \in Nat /\ OffSpan \in Nat
      /\ Span(by) \in Nat /\ n <= Span(by) /\ by # "none"
  BY <1>0 DEF SortAssumption, Span, Packs, Comparison
<1>2. ASSUME NEW s \in 0 .. n - 1
      PROVE  Key(by, addr, s) = addr[s] * Span(by) + s /\ Key(by, addr, s) \in Nat
  <2>1. PICK x \in Nat : x = addr[s] /\ x < zone
    <3>1. addr[s] \in 0 .. zone - 1
      BY <1>0
    <3>2. addr[s] \in Nat /\ addr[s] < zone
      BY <1>0, <3>1
    <3>3. QED BY <3>2
  <2>2. Key(by, addr, s) = x * Span(by) + s
    <3>1. CASE by = "packed"
      <4>1. x < OffSpan
        <5>1. zone <= OffSpan
          BY <3>1 DEF Packs, Comparison
        <5>2. QED BY <1>0, <1>1, <2>1, <5>1
      <4>2. PICK p \in Nat, q \in Nat : p = x * SlotSpan /\ q = OffSpan * SlotSpan
        BY <1>1, NatTimes
      <4>3. p + SlotSpan <= q
        BY <1>1, <4>1, <4>2, LessTimes
      <4>4. SlotSpan > 0
        BY <1>1 DEF SortAssumption
      <4>5. p < q
        BY ONLY <1>1, <4>3, <4>4, p \in Nat, q \in Nat
      <4>6. p % q = p
        BY <4>5, Remainder
      <4>7. QED BY <2>1, <3>1, <4>2, <4>6 DEF Key, Span
    <3>2. CASE by # "packed"
      BY <2>1, <3>2 DEF Key, Span
    <3>3. QED BY <3>1, <3>2
  <2>3. x * Span(by) \in Nat
    BY <1>1, NatTimes
  <2>4. QED BY <2>1, <2>2, <2>3
<1>3. \A k \in 1 .. n : n - k \in 0 .. n - 1
  BY <1>1
<1>4. keys \in [1 .. n -> Nat] /\ \A k \in 1 .. n : keys[k] = addr[n - k] * Span(by) + (n - k)
  <2>1. \A k \in 1 .. n : /\ keys[k] = Key(by, addr, n - k)
                          /\ Key(by, addr, n - k) \in Nat
                          /\ Key(by, addr, n - k) = addr[n - k] * Span(by) + (n - k)
    BY <1>2, <1>3 DEF KeyList
  <2>2. keys \in [1 .. n -> Nat]
    BY <1>2, <1>3 DEF KeyList
  <2>3. QED BY <2>1, <2>2
<1>5. keys \in Seq(Nat) /\ Len(keys) = n
  BY ONLY <1>1, <1>4
<1>6. addr \in [0 .. n - 1 -> Nat]
  BY <1>0
<1>7. QED BY <1>1, <1>4, <1>5, <1>6 DEF Keyed

-----------------------------------------------------------------------------
(* The calls *)

LEMMA SortStarts == ASSUME SortAssumption PROVE SortInit => SortInv
<1>1. SUFFICES ASSUME SortInit PROVE SortInv
  OBVIOUS
<1>2. array = <<>> /\ given = <<>> /\ sort = Quiet
  BY <1>1 DEF SortInit
<1>3. <<>> \in Seq(Nat) /\ Len(<<>>) = 0
  OBVIOUS
<1>4. Rearranged(<<>>, <<>>, 0)
  BY NotMoved
<1>5. /\ Quiet \in SortStates /\ Quiet.next <= 0 /\ Quiet.root <= 0 /\ Quiet.end <= 0
      /\ Quiet.pc = "idle" /\ Quiet.by = "none"
  BY DEF Quiet, SortStates
<1>6. Sorting(sort, array, given)
  BY <1>2, <1>3, <1>4, <1>5 DEF Sorting, Stage
<1>7. 0 <= SizeCap
  BY DEF SortAssumption, SizeCap
<1>8. QED BY <1>2, <1>3, <1>5, <1>6, <1>7 DEF SortInv, Keyed

LEMMA ReversedAscends ==
  ASSUME NEW a \in Seq(Nat), Descending(a)
  PROVE  Ascending(Reversed(a))
<1>1. PICK n \in Nat : n = Len(a)
  OBVIOUS
<1>2. Len(Reversed(a)) = n /\ \A k \in 1 .. n : Reversed(a)[k] = a[n + 1 - k]
  <2>1. Len(Reversed(a)) = n
    BY <1>1, ReversedMoves
  <2>2. DOMAIN a = 1 .. n
    BY <1>1
  <2>3. QED BY <1>1, <2>1, <2>2 DEF Reversed
<1>3. SUFFICES ASSUME NEW k \in 2 .. n PROVE Reversed(a)[k - 1] <= Reversed(a)[k]
  BY <1>2 DEF Ascending
<1>4. PICK h \in Nat, j \in Nat : h = n + 2 - k /\ j = n + 1 - k /\ h \in 2 .. n /\ h - 1 = j
  <2>1. /\ n + 2 - k \in Nat /\ n + 1 - k \in Nat /\ n + 2 - k \in 2 .. n
        /\ (n + 2 - k) - 1 = n + 1 - k
    OBVIOUS
  <2>2. QED BY <2>1
<1>5. a[j] >= a[h]
  BY <1>1, <1>4 DEF Descending
<1>6. a[j] \in Nat /\ a[h] \in Nat
  <2>1. h \in 1 .. n /\ j \in 1 .. n
    BY <1>4
  <2>2. QED BY <1>1, <2>1
<1>7. Reversed(a)[k - 1] = a[h] /\ Reversed(a)[k] = a[j]
  <2>1. k - 1 \in 1 .. n /\ k \in 1 .. n /\ n + 1 - (k - 1) = n + 2 - k
    OBVIOUS
  <2>2. QED BY <1>2, <1>4, <2>1
<1>8. QED BY <1>5, <1>6, <1>7

(* What a call does, with its parts by name. *)
Begins(n, by, keys, a, s) ==
  LET fast == n < 2 \/ (by = "packed" /\ (Ascending(keys) \/ Descending(keys))) IN
  /\ a = IF fast /\ ~Ascending(keys) THEN Reversed(keys) ELSE keys
  /\ s = IF fast THEN [Quiet EXCEPT !.pc = "sorted", !.by = by] ELSE Heapify(n, by)

LEMMA BeginsSorting ==
  ASSUME NEW keys \in Seq(Nat), NEW n, n = Len(keys), NEW by \in {"none", "packed", "address"},
         NEW a, NEW s, Begins(n, by, keys, a, s)
  PROVE  Sorting(s, a, keys) /\ s.by = by /\ Len(a) = n
<1> DEFINE fast == n < 2 \/ (by = "packed" /\ (Ascending(keys) \/ Descending(keys)))
<1>1. /\ a = IF fast /\ ~Ascending(keys) THEN Reversed(keys) ELSE keys
      /\ s = IF fast THEN [Quiet EXCEPT !.pc = "sorted", !.by = by] ELSE Heapify(n, by)
  BY DEF Begins
<1>2. n \in Nat /\ (n < 2 => Ascending(keys))
  BY DEF Ascending
<1>3. CASE fast /\ Ascending(keys)
  <2>1. a = keys /\ s = [Quiet EXCEPT !.pc = "sorted", !.by = by]
    BY <1>1, <1>3
  <2>2. Rearranged(keys, keys, Len(keys))
    BY <1>2, NotMoved
  <2>3. Sorting(s, a, keys)
    BY <1>3, <2>1, <2>2, FastEnds
  <2>4. QED BY <2>1, <2>3 DEF Quiet
<1>4. CASE fast /\ ~Ascending(keys)
  <2>1. a = Reversed(keys) /\ s = [Quiet EXCEPT !.pc = "sorted", !.by = by]
    BY <1>1, <1>4
  <2>2. Ascending(a)
    BY <1>2, <1>4, <2>1, ReversedAscends
  <2>3. a \in Seq(Nat) /\ Len(a) = n /\ Rearranged(a, keys, n)
    BY <2>1, ReversedMoves
  <2>4. Sorting(s, a, keys)
    BY <2>1, <2>2, <2>3, FastEnds
  <2>5. QED BY <2>1, <2>3, <2>4 DEF Quiet
<1>5. CASE ~fast
  <2>1. a = keys /\ s = Heapify(n, by) /\ n >= 2
    BY <1>1, <1>2, <1>5
  <2>2. Sorting(s, a, keys)
    BY <2>1, HeapifyStarts
  <2>3. QED BY <2>1, <2>2 DEF Heapify
<1>6. QED BY <1>3, <1>4, <1>5

LEMMA CollectKeeps ==
  ASSUME SortAssumption, NEW zone \in ZoneSizes, NEW n \in 0 .. MaxObjects,
         NEW A \in [1 .. n -> 0 .. zone - 1], collect_live_sorted(zone, A)
  PROVE  SortInv'
<1> DEFINE by == Comparison(zone)
<1>1. zone \in Nat /\ n \in Nat /\ MaxObjects \in Nat
  BY DEF SortAssumption
<1>2. Len(A) = n
  BY <1>1
<1>3. address' = [s \in 0 .. n - 1 |-> A[s + 1]]
  BY <1>2 DEF collect_live_sorted
<1>4. address' \in [0 .. n - 1 -> 0 .. zone - 1]
  <2>1. \A s \in 0 .. n - 1 : s + 1 \in 1 .. n
    BY <1>1
  <2>2. QED BY <1>3, <2>1
<1>5. given' = KeyList(by, address', n)
  <2>1. \A k \in 1 .. n : [x \in 1 .. n |-> n - x][k] = n - k
    OBVIOUS
  <2>2. given' = [k \in 1 .. n |->
                    IF by = "packed" THEN PackedKey([x \in 1 .. n |-> n - x][k])
                    ELSE AddressKey([x \in 1 .. n |-> n - x][k])]
    BY <1>2, Zenon DEF collect_live_sorted, Comparison
  <2>3. QED BY <2>1, <2>2 DEF PackedKey, AddressKey, Key, KeyList
<1>6. Begins(n, by, given', array', sort')
  BY <1>2, Zenon DEF collect_live_sorted, Begins, Comparison
<1>7. given' \in Seq(Nat) /\ Len(given') = n /\ Keyed(by, given', address')
  <2> HIDE DEF by
  <2>1. by = Comparison(zone)
    BY DEF by
  <2>2. Listed(zone, n, address')
    BY <1>1, <1>4 DEF Listed
  <2>3. QED BY <1>5, <2>1, <2>2, KeysKeyed
<1>8. Sorting(sort', array', given') /\ sort'.by = by /\ Len(array') = n
  <2>1. by \in {"none", "packed", "address"}
    BY DEF Comparison
  <2> HIDE DEF by
  <2>2. QED BY <1>6, <1>7, <2>1, BeginsSorting
<1>9. n <= SizeCap
  BY <1>1 DEF SizeCap, SortAssumption
<1>10. QED BY <1>7, <1>8, <1>9 DEF SortInv

LEMMA FreeSortKeeps ==
  ASSUME SortAssumption, NEW n \in 0 .. FreeCap, NEW a \in [1 .. n -> 0 .. FreeCap - 1],
         sort_free_off(a)
  PROVE  SortInv'
<1>1. n \in Nat /\ FreeCap \in Nat /\ MaxObjects \in Nat
  BY DEF SortAssumption
<1>2. a \in [1 .. n -> Nat]
  BY <1>1
<1>3. a \in Seq(Nat) /\ Len(a) = n
  BY ONLY <1>1, <1>2
<1>4. Begins(n, "none", a, array', sort')
  <2>1. array' = a /\ sort' = IF n < 2 THEN [Quiet EXCEPT !.pc = "sorted"] ELSE Heapify(n, "none")
    BY <1>3 DEF sort_free_off
  <2>2. [Quiet EXCEPT !.pc = "sorted"] = [Quiet EXCEPT !.pc = "sorted", !.by = "none"]
    <3>1. PICK r : r = [pc |-> "sorted", by |-> "none", next |-> 0, root |-> 0, end |-> 0]
      OBVIOUS
    <3>2. r = [Quiet EXCEPT !.pc = "sorted"]
      BY ONLY <3>1 DEF Quiet
    <3>3. PICK by \in {"none", "packed", "address"} : by = "none"
      OBVIOUS
    <3>4. PICK q : q = [Quiet EXCEPT !.pc = "sorted", !.by = by]
      OBVIOUS
    <3>5. q = [pc |-> "sorted", by |-> by, next |-> 0, root |-> 0, end |-> 0]
      BY ONLY <3>4 DEF Quiet
    <3>6. QED BY <3>1, <3>2, <3>3, <3>4, <3>5
  <2>3. n < 2 => Ascending(a)
    BY <1>3 DEF Ascending
  <2>4. QED BY <2>1, <2>2, <2>3 DEF Begins
<1>5. Sorting(sort', array', a) /\ sort'.by = "none" /\ Len(array') = n
  BY <1>3, <1>4, BeginsSorting
<1>6. given' = a
  BY DEF sort_free_off
<1>7. n <= SizeCap
  BY <1>1 DEF SizeCap
<1>8. QED BY <1>5, <1>6, <1>7 DEF SortInv, Keyed

LEMMA SortSteps == ASSUME SortAssumption, SortInv, [SortNext]_sortvars PROVE SortInv'
<1>1. Sorting(sort, array, given) /\ Keyed(sort.by, given, address) /\ Len(array) <= SizeCap
  BY DEF SortInv
<1>2. ASSUME NEW zone \in ZoneSizes, NEW n \in 0 .. MaxObjects,
             NEW A \in [1 .. n -> 0 .. zone - 1], collect_live_sorted(zone, A)
      PROVE  SortInv'
  BY <1>2, CollectKeeps
<1>3. ASSUME NEW n \in 0 .. FreeCap, NEW a \in [1 .. n -> 0 .. FreeCap - 1], sort_free_off(a)
      PROVE  SortInv'
  BY <1>3, FreeSortKeeps
<1>4. CASE build
  <2>0. sort.pc = "build" /\ sort' = Build(sort, Len(array))
    BY <1>4, Zenon DEF build, Build
  <2>1. Sorting(sort', array, given) /\ sort'.by = sort.by
    BY <1>1, <2>0, BuildKeeps
  <2>2. QED BY <1>1, <1>4, <2>1 DEF build, SortInv
<1>5. CASE sift
  <2> DEFINE l == 2 * sort.root + 1
             m == PickedChild(array, sort.end, l)
             stop == l > sort.end \/ array[sort.root + 1] >= array[m + 1]
  <2>1. m = LargerChild(l)
    BY DEF PickedChild, LargerChild
  <2>2. /\ sort.pc \in {"build_sift", "drain_sift"}
        /\ array' = IF stop THEN array ELSE Swapped(array, sort.root + 1, m + 1)
        /\ sort' = IF ~stop THEN [sort EXCEPT !.root = m]
                   ELSE [sort EXCEPT !.pc = IF sort.pc = "build_sift" THEN "build" ELSE "drain"]
        /\ given' = given /\ address' = address
    <3> HIDE DEF m
    <3>1. QED BY <1>5, <2>1, Zenon DEF sift
  <2>3. CASE stop
    <3>1. Sorting(sort', array, given) /\ sort'.by = sort.by
      <4> HIDE DEF m, l
      <4>1. l = 2 * sort.root + 1 /\ m = PickedChild(array, sort.end, l)
        BY DEF m, l
      <4>2. QED BY <1>1, <2>2, <2>3, <4>1, SiftEnds
    <3>2. QED BY <1>1, <2>2, <2>3, <3>1 DEF SortInv
  <2>4. CASE ~stop
    <3>1. Sorting(sort', array', given) /\ sort'.by = sort.by /\ Len(array') = Len(array)
      <4> HIDE DEF m, l
      <4>1. l = 2 * sort.root + 1 /\ m = PickedChild(array, sort.end, l)
        BY DEF m, l
      <4>2. QED BY <1>1, <2>2, <2>4, <4>1, SiftKeeps
    <3>2. QED BY <1>1, <2>2, <3>1 DEF SortInv
  <2>5. QED BY <2>3, <2>4
<1>6. CASE drain
  <2>1. sort.pc = "drain" /\ given' = given /\ address' = address
    BY <1>6 DEF drain
  <2>2. CASE sort.next > 0
    <3>0. array' = Swapped(array, 1, sort.next + 1) /\ sort' = Drain(sort)
      BY <1>6, <2>2, Zenon DEF drain, Drain
    <3>1. Sorting(sort', array', given) /\ sort'.by = sort.by /\ Len(array') = Len(array)
      BY <1>1, <2>1, <2>2, <3>0, DrainKeeps
    <3>2. QED BY <1>1, <2>1, <3>1 DEF SortInv
  <2>3. CASE ~(sort.next > 0)
    <3>1. array' = array /\ sort' = [sort EXCEPT !.pc = "sorted"]
      BY <1>6, <2>3 DEF drain
    <3>2. Sorting(sort', array, given) /\ sort'.by = sort.by
      BY <1>1, <2>1, <2>3, <3>1, DrainEnds
    <3>3. QED BY <1>1, <2>1, <3>1, <3>2 DEF SortInv
  <2>4. QED BY <2>2, <2>3
<1>7. CASE sort_returns
  <2>1. SortInit'
    BY <1>7 DEF sort_returns, SortInit
  <2>2. (SortInit => SortInv)'
    BY SortStarts, PTL
  <2>3. QED BY <2>1, <2>2
<1>8. CASE UNCHANGED sortvars
  BY <1>1, <1>8 DEF sortvars, SortInv
<1>9. QED BY <1>2, <1>3, <1>4, <1>5, <1>6, <1>7, <1>8 DEF SortNext

-----------------------------------------------------------------------------
(* What the invariant says. *)

LEMMA SortTyped == SortInv => SortTypeOK
<1>1. SUFFICES ASSUME SortInv PROVE SortTypeOK
  OBVIOUS
<1>2. /\ array \in Seq(Nat) /\ Len(given) = Len(array) /\ sort \in SortStates
      /\ sort.next <= Len(array) /\ sort.root <= Len(array) /\ sort.end <= Len(array)
      /\ Len(array) <= SizeCap
  BY <1>1 DEF SortInv, Sorting
<1>3. \A k \in DOMAIN array : array[k] \in Nat
  BY <1>2
<1>4. /\ sort.pc \in {"idle", "build", "build_sift", "drain", "drain_sift", "sorted"}
      /\ sort.by \in {"none", "packed", "address"}
      /\ sort.next \in Nat /\ sort.end \in Nat /\ sort.root \in Nat
  BY <1>2 DEF SortStates
<1>5. PICK n \in Nat : n = Len(array)
  BY <1>2
<1>6. sort.next \in 0 .. n /\ sort.end \in 0 .. n /\ sort.root \in 0 .. n
  BY <1>2, <1>4, <1>5
<1>7. QED BY <1>2, <1>3, <1>4, <1>5, <1>6 DEF SortTypeOK, SizeCap

LEMMA SortedIsExact == ASSUME SortAssumption PROVE SortInv => SortExact
<1>1. SUFFICES ASSUME SortInv, sort.pc = "sorted" PROVE SortExact
  BY DEF SortExact
<1>2. /\ array \in Seq(Nat) /\ given \in Seq(Nat) /\ Len(given) = Len(array)
      /\ Rearranged(array, given, Len(array)) /\ Ascending(array)
      /\ Keyed(sort.by, given, address)
  BY <1>1 DEF SortInv, Sorting
<1>3. PICK n \in Nat : n = Len(array)
  BY <1>2
<1>4. /\ array \in [1 .. n -> Nat] /\ given \in [1 .. n -> Nat]
      /\ DOMAIN array = 1 .. n /\ DOMAIN given = 1 .. n
  <2>1. array \in Seq(Nat) /\ given \in Seq(Nat) /\ Len(array) = n /\ Len(given) = n
    BY <1>2, <1>3
  <2>2. QED BY ONLY <2>1, n \in Nat
<1>5. \A k \in DOMAIN given : Times(given[k], array) = Times(given[k], given)
  BY <1>2, <1>3, <1>4, SameTimes
<1>6. ASSUME sort.by # "none"
      PROVE  /\ {out[k] : k \in DOMAIN out} = DOMAIN address
             /\ \A k \in 2 .. Len(out) :
                  \/ address[out[k - 1]] < address[out[k]]
                  \/ address[out[k - 1]] = address[out[k]] /\ out[k - 1] < out[k]
  <2>1. PICK m \in Nat : m = Span(sort.by)
    BY DEF Span, SortAssumption
  <2>2. /\ n <= m /\ address \in [0 .. n - 1 -> Nat]
        /\ \A k \in 1 .. n : given[k] = address[n - k] * m + (n - k)
    BY <1>2, <1>3, <1>6, <2>1 DEF Keyed
  <2>3. PICK f \in [1 .. n -> 1 .. n] : Placing(f, array, given, n)
    BY <1>2, <1>3 DEF Rearranged
  <2>4. ASSUME NEW k \in 1 .. n
        PROVE  \E s \in 0 .. n - 1 : s = n - f[k] /\ array[k] = address[s] * m + s /\ out[k] = s
    <3>1. PICK j \in 1 .. n : j = f[k]
      OBVIOUS
    <3>2. PICK s \in 0 .. n - 1 : s = n - j
      <4>1. n - j \in 0 .. n - 1
        OBVIOUS
      <4>2. QED BY <4>1
    <3>3. array[k] = address[s] * m + s
      BY <2>2, <2>3, <3>1, <3>2 DEF Placing
    <3>4. PICK x \in Nat : x = address[s]
      BY <2>2
    <3>5. s \in Nat /\ s < m
      BY <2>2
    <3>6. array[k] % m = s
      BY <3>3, <3>4, <3>5, KeySlot
    <3>7. out[k] = array[k] % m
      BY <1>4, <2>1 DEF out, Span, SlotOf
    <3>8. QED BY <3>1, <3>2, <3>3, <3>6, <3>7
  <2>5. DOMAIN out = 1 .. n /\ Len(out) = n /\ DOMAIN address = 0 .. n - 1
    <3>1. DOMAIN out = 1 .. n
      BY <1>4 DEF out
    <3>2. DOMAIN address = 0 .. n - 1
      BY <2>2
    <3>3. out \in Seq(Nat)
      <4>1. out = [k \in 1 .. n |-> out[k]]
        BY <1>4 DEF out
      <4>2. \A k \in 1 .. n : out[k] \in Nat
        BY <2>4
      <4>3. out \in [1 .. n -> Nat]
        BY <4>1, <4>2
      <4>4. QED BY ONLY <4>3, n \in Nat
    <3>4. QED BY <3>1, <3>2, <3>3
  <2>6. ASSUME NEW s \in 0 .. n - 1 PROVE \E k \in 1 .. n : out[k] = s
    <3>1. PICK j \in 1 .. n : j = n - s
      <4>1. n - s \in 1 .. n
        OBVIOUS
      <4>2. QED BY <4>1
    <3>2. PICK k \in 1 .. n : f[k] = j
      BY <2>3 DEF Placing
    <3>3. out[k] = n - j
      BY <2>4, <3>2
    <3>4. n - j = s
      BY <3>1
    <3>5. QED BY <3>3, <3>4
  <2>7. {out[k] : k \in DOMAIN out} = DOMAIN address
    <3>1. \A k \in 1 .. n : out[k] \in 0 .. n - 1
      BY <2>4
    <3>2. \A s \in 0 .. n - 1 : s \in {out[k] : k \in 1 .. n}
      BY <2>6
    <3>3. {out[k] : k \in 1 .. n} = 0 .. n - 1
      BY <3>1, <3>2
    <3>4. QED BY <2>5, <3>3
  <2>8. ASSUME NEW k \in 2 .. n
        PROVE  \/ address[out[k - 1]] < address[out[k]]
               \/ address[out[k - 1]] = address[out[k]] /\ out[k - 1] < out[k]
    <3>1. PICK h \in 1 .. n : h = k - 1
      <4>1. k - 1 \in 1 .. n
        OBVIOUS
      <4>2. QED BY <4>1
    <3>2. PICK s \in 0 .. n - 1 : s = n - f[h] /\ array[h] = address[s] * m + s /\ out[h] = s
      BY <2>4
    <3>3. PICK t \in 0 .. n - 1 : t = n - f[k] /\ array[k] = address[t] * m + t /\ out[k] = t
      <4>1. k \in 1 .. n
        OBVIOUS
      <4>2. QED BY <2>4, <4>1
    <3>4. PICK x \in Nat, y \in Nat : x = address[s] /\ y = address[t]
      BY <2>2
    <3>5. s # t
      <4>1. f[h] # f[k]
        BY <2>3, <3>1 DEF Placing
      <4>2. f[h] \in 1 .. n /\ f[k] \in 1 .. n
        OBVIOUS
      <4>3. QED BY <3>2, <3>3, <4>1, <4>2
    <3>6. x * m + s <= y * m + t
      BY <1>2, <1>3, <3>1, <3>2, <3>3, <3>4 DEF Ascending
    <3>7. x < y \/ (x = y /\ s < t)
      <4>1. s \in Nat /\ t \in Nat /\ s < m /\ t < m
        BY <2>2
      <4>2. QED BY <3>5, <3>6, <4>1, KeyOrder
    <3>8. QED BY <3>1, <3>2, <3>3, <3>4, <3>7
  <2>9. QED BY <2>5, <2>7, <2>8
<1>7. QED BY <1>2, <1>5, <1>6 DEF SortExact

LEMMA SortInvariant == SortSpec => []SortInv
<1>1. SortInit => SortInv
  BY SortStarts, SortAssumption
<1>2. SortInv /\ [SortNext]_sortvars => SortInv'
  BY SortSteps, SortAssumption
<1>3. QED BY <1>1, <1>2, PTL DEF SortSpec

-----------------------------------------------------------------------------
(* The routines together *)

LEMMA Separate == Spec => MoveSpec /\ SortSpec
<1>1. Init => MoveInit /\ SortInit
  BY DEF Init
<1>2. [Next]_<<movevars, sortvars>> => [MoveNext]_movevars /\ [SortNext]_sortvars
  BY DEF Next
<1>3. QED BY <1>1, <1>2, PTL DEF Spec, MoveSpec, SortSpec

(* Types: a word or byte is never written outside memory, the counters of  *)
(* the loops stay in their ranges, and no key is read outside its array    *)
(* (move_block, sort_u32_asc, sort_slots_by_address).                      *)
THEOREM RoutineTypes == Spec => []TypeOK
<1>1. MoveInv /\ SortInv => TypeOK
  BY SortTyped DEF MoveInv, TypeOK
<1>2. QED BY <1>1, Separate, MoveInvariant, SortInvariant, PTL

(* move_block is memmove, whatever the size of memory, its contents and    *)
(* the two ranges.                                                         *)
THEOREM MoveIsMemmove == Spec => []MoveExact
<1>1. MoveInv => MoveExact
  BY DEF MoveInv, Copied, Done, MoveExact
<1>2. QED BY <1>1, Separate, MoveInvariant, PTL

(* The sorts return their keys in order, each as often as it was given,    *)
(* whatever their number; and collect_live_sorted returns every listed     *)
(* slot once, in the order of addresses, packed keys and fast paths        *)
(* included.                                                               *)
THEOREM SortIsExact == Spec => []SortExact
<1>1. SortInv => SortExact
  BY SortedIsExact, SortAssumption
<1>2. QED BY <1>1, Separate, SortInvariant, PTL
=============================================================================
