------------------------------- MODULE PondSort -------------------------------
(***************************************************************************)
(* The address sorts of src/src/core.cpp.  collect_live_sorted puts the    *)
(* live slots of a pool, read off a list in no particular order, into      *)
(* address order: it packs offset and slot into one 32-bit key, sorts the  *)
(* keys and unpacks the slots, or compares addresses when the key is too   *)
(* narrow.  validate sorts the offsets of the free blocks.  All three use  *)
(* one heapsort; PondHeap's ByAddress stands for the result.               *)
(***************************************************************************)
EXTENDS Integers, Sequences, FiniteSets

CONSTANTS
  MaxObjects,  (* PM_MAX_OBJECTS                                            *)
  SlotSpan,    (* 2^8: slots a packed key can name                          *)
  OffSpan,     (* 2^24: offsets a packed key can hold                       *)
  ZoneSizes,   (* sizes of the Auto Zone                                    *)
  FreeCap      (* bound of the model on free blocks sorted at once          *)

ASSUME SortAssumption ==
  /\ MaxObjects \in Nat \ {0} /\ SlotSpan \in Nat \ {0} /\ OffSpan \in Nat \ {0}
  /\ ZoneSizes \subseteq Nat \ {0} /\ FreeCap \in Nat

Slots == 0 .. MaxObjects - 1

VARIABLES
  array,    (* the keys being sorted, from index 1                          *)
  given,    (* history: the keys at the call                                *)
  address,  (* offset of each listed object, a function of the slots        *)
  sort      (* [pc, by: the comparison, next: the outer loop's counter,     *)
            (*  root and end of the running sift]                           *)

sortvars == <<array, given, address, sort>>

Quiet == [pc |-> "idle", by |-> "none", next |-> 0, root |-> 0, end |-> 0]

-----------------------------------------------------------------------------
(* Keys *)

Packs(zone) == zone <= OffSpan /\ MaxObjects <= SlotSpan

(* (off << 8) | slot in 32 bits                                            *)
PackedKey(s)  == ((address'[s] * SlotSpan) % (OffSpan * SlotSpan)) + s
SlotOf(key)   == key % SlotSpan

(* The order of sort_slots_by_address as one number: address, then slot.   *)
AddressKey(s) == address'[s] * MaxObjects + s

Reversed(a)   == [k \in DOMAIN a |-> a[Len(a) + 1 - k]]
Ascending(a)  == \A k \in 2 .. Len(a) : a[k - 1] <= a[k]
Descending(a) == \A k \in 2 .. Len(a) : a[k - 1] >= a[k]
Swapped(a, j, k) == [a EXCEPT ![j] = a[k], ![k] = a[j]]

-----------------------------------------------------------------------------
(* The calls *)

Heapify(n, by) == [pc |-> "build", by |-> by, next |-> n \div 2, root |-> 0, end |-> 0]

(* collect_live_sorted up to its sort, with the fast paths of              *)
(* sort_packed_keys.  The list is in reverse creation order.               *)
collect_live_sorted(zone, A) ==
  LET n    == Len(A)
      list == [k \in 1 .. n |-> n - k]
      by   == IF Packs(zone) THEN "packed" ELSE "address"
      keys == [k \in 1 .. n |-> IF by = "packed" THEN PackedKey(list[k]) ELSE AddressKey(list[k])]
      fast == n < 2 \/ (by = "packed" /\ (Ascending(keys) \/ Descending(keys)))
  IN /\ address' = [s \in 0 .. n - 1 |-> A[s + 1]]
     /\ given'   = keys
     /\ array'   = IF fast /\ ~Ascending(keys) THEN Reversed(keys) ELSE keys
     /\ sort'    = IF fast THEN [Quiet EXCEPT !.pc = "sorted", !.by = by] ELSE Heapify(n, by)

(* validate's sort of the free offsets, which may repeat in a damaged pool *)
sort_free_off(a) ==
  /\ array' = a /\ given' = a
  /\ sort' = IF Len(a) < 2 THEN [Quiet EXCEPT !.pc = "sorted"] ELSE Heapify(Len(a), "none")
  /\ UNCHANGED address

-----------------------------------------------------------------------------
(* sort_u32_asc, and sort_slots_by_address, which has the same loops.      *)
(* Indices are the code's; array[k + 1] is its a[k].                       *)

(* Mutant: the sift looks at the left child only. *)
LargerChildLeft(child) == child

LargerChild(child) ==
  IF child + 1 <= sort.end /\ array[child + 1] < array[child + 2] THEN child + 1 ELSE child

(* The sift of the first loop covers the array, the one of the second what *)
(* is not yet sorted.                                                      *)
sift ==
  LET child == LargerChild(2 * sort.root + 1)
      stop  == 2 * sort.root + 1 > sort.end \/ array[sort.root + 1] >= array[child + 1]
  IN /\ sort.pc \in {"build_sift", "drain_sift"}
     /\ array' = IF stop THEN array ELSE Swapped(array, sort.root + 1, child + 1)
     /\ sort'  = IF ~stop THEN [sort EXCEPT !.root = child]
                 ELSE [sort EXCEPT !.pc = IF sort.pc = "build_sift" THEN "build" ELSE "drain"]
     /\ UNCHANGED <<given, address>>

(* for (i = n / 2; i-- > 0;) sift(i, n - 1)                                *)
build ==
  /\ sort.pc = "build"
  /\ sort' = IF sort.next > 0
             THEN [sort EXCEPT !.pc = "build_sift", !.next = @ - 1,
                               !.root = sort.next - 1, !.end = Len(array) - 1]
             ELSE [sort EXCEPT !.pc = "drain", !.next = Len(array) - 1]
  /\ UNCHANGED <<array, given, address>>

(* for (i = n - 1; i > 0; --i) { swap a[0], a[i]; sift(0, i - 1) }         *)
drain ==
  /\ sort.pc = "drain"
  /\ IF sort.next > 0
     THEN /\ array' = Swapped(array, 1, sort.next + 1)
          /\ sort'  = [sort EXCEPT !.pc = "drain_sift", !.next = @ - 1,
                                   !.root = 0, !.end = sort.next - 1]
     ELSE /\ sort' = [sort EXCEPT !.pc = "sorted"]
          /\ UNCHANGED array
  /\ UNCHANGED <<given, address>>

(* What collect_live_sorted returns: the slots, unpacked.                  *)
out == [k \in DOMAIN array |-> IF sort.by = "packed" THEN SlotOf(array[k]) ELSE array[k] % MaxObjects]

sort_returns ==
  /\ sort.pc = "sorted"
  /\ sort' = Quiet /\ array' = <<>> /\ given' = <<>> /\ address' = <<>>

SortInit == array = <<>> /\ given = <<>> /\ address = <<>> /\ sort = Quiet

SortNext ==
  \/ /\ sort.pc = "idle"
     /\ \/ \E zone \in ZoneSizes, n \in 0 .. MaxObjects :
             \E A \in [1 .. n -> 0 .. zone - 1] : collect_live_sorted(zone, A)
        \/ \E n \in 0 .. FreeCap : \E a \in [1 .. n -> 0 .. FreeCap - 1] : sort_free_off(a)
  \/ build \/ sift \/ drain \/ sort_returns

SortSpec == SortInit /\ [][SortNext]_sortvars

-----------------------------------------------------------------------------
(* Properties *)

SortTypeOK ==
  /\ Len(array) = Len(given) /\ Len(array) <= IF MaxObjects > FreeCap THEN MaxObjects ELSE FreeCap
  /\ \A k \in DOMAIN array : array[k] \in Nat
  /\ sort.pc \in {"idle", "build", "build_sift", "drain", "drain_sift", "sorted"}
  /\ sort.by \in {"none", "packed", "address"}
  /\ sort.next \in 0 .. Len(array) /\ sort.end \in 0 .. Len(array) /\ sort.root \in 0 .. Len(array)

Times(x, a) == Cardinality({k \in DOMAIN a : a[k] = x})

(* Both sorts return their keys in ascending order, each as often as it    *)
(* was given: fast paths, repeated keys and the last child included.  And  *)
(* packing loses nothing: collect_live_sorted returns every listed slot    *)
(* once, in the order of addresses.                                        *)
SortExact ==
  sort.pc = "sorted" =>
    /\ Ascending(array)
    /\ \A k \in DOMAIN given : Times(given[k], array) = Times(given[k], given)
    /\ sort.by # "none" =>
         /\ {out[k] : k \in DOMAIN out} = DOMAIN address
         /\ \A k \in 2 .. Len(out) :
              \/ address[out[k - 1]] < address[out[k]]
              \/ address[out[k - 1]] = address[out[k]] /\ out[k - 1] < out[k]
=============================================================================
