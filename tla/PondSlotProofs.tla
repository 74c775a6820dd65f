---------------------------- MODULE PondSlotProofs ----------------------------
(***************************************************************************)
(* The descriptor table of PondSlots, for any number of pools and of slots *)
(* and any odd generation range.                                           *)
(***************************************************************************)
EXTENDS PondSlots, FiniteSetTheorems, SequenceTheorems, TLAPS

-----------------------------------------------------------------------------
(* Lists of distinct slots *)

LEMMA SlotsFinite == IsFiniteSet(Slots) /\ Cardinality(Slots) = SlotCount
  BY FS_Interval, SlotCountAssumption DEF Slots

LEMMA NoneIsNoSlot == None \notin Slots
  BY SlotCountAssumption DEF None, Slots

LEMMA ListShape ==
  ASSUME NEW w \in Lists
  PROVE  /\ Len(w) \in 0 .. SlotCount
         /\ DOMAIN w = 1 .. Len(w)
         /\ w \in [1 .. Len(w) -> Slots]
         /\ \A i, j \in 1 .. Len(w) : w[i] = w[j] => i = j
<1>1. PICK n \in 0 .. SlotCount :
        /\ w \in [1 .. n -> Slots]
        /\ \A i, j \in 1 .. n : w[i] = w[j] => i = j
  BY DEF Lists
<1>2. n \in Nat
  BY SlotCountAssumption
<1>3. Len(w) = n
  BY <1>1, <1>2
<1> QED
  BY <1>1, <1>3

(* As many indices as slots: the length of a list counts its members. *)
LEMMA ListLength ==
  ASSUME NEW w \in Lists
  PROVE  IsFiniteSet(On(w)) /\ Cardinality(On(w)) = Len(w) /\ On(w) \subseteq Slots
<1>1. Len(w) \in Nat
  BY ListShape, SlotCountAssumption
<1>2. w \in Bijection(1 .. Len(w), On(w))
  BY ListShape DEF On, Bijection, Injection, Surjection, IsInjective
<1>3. ExistsBijection(1 .. Len(w), On(w))
  BY <1>2 DEF ExistsBijection
<1>4. Cardinality(On(w)) = Len(w)
  BY <1>1, <1>3, FS_CountingElements
<1>5. On(w) \subseteq Slots
  BY ListShape DEF On
<1>6. IsFiniteSet(On(w))
  BY <1>5, SlotsFinite, FS_Subset
<1> QED
  BY <1>4, <1>5, <1>6

(* A sequence of distinct slots is no longer than the table. *)
LEMMA ListIntro ==
  ASSUME NEW n \in Nat, NEW w \in [1 .. n -> Slots],
         \A i, j \in 1 .. n : w[i] = w[j] => i = j
  PROVE  w \in Lists /\ Len(w) = n
<1>1. w \in Injection(1 .. n, Slots)
  BY DEF Injection, IsInjective
<1>2. Cardinality(1 .. n) <= SlotCount
  BY <1>1, SlotsFinite, FS_Injection
<1>3. Cardinality(1 .. n) = n
  BY FS_Interval
<1>4. n \in 0 .. SlotCount
  BY <1>2, <1>3, SlotCountAssumption
<1> QED
  BY <1>4 DEF Lists

Cons(s, w) == [i \in 1 .. Len(w) + 1 |-> IF i = 1 THEN s ELSE w[i - 1]]
Cut(w, k)  == [i \in 1 .. Len(w) - 1 |-> IF i < k THEN w[i] ELSE w[i + 1]]

LEMMA ConsList ==
  ASSUME NEW w \in Lists, NEW s \in Slots \ On(w)
  PROVE  /\ Cons(s, w) \in Lists
         /\ Len(Cons(s, w)) = Len(w) + 1
         /\ On(Cons(s, w)) = On(w) \cup {s}
<1> DEFINE n == Len(w)
           v == Cons(s, w)
<1>1. /\ n \in Nat /\ DOMAIN w = 1 .. n /\ w \in [1 .. n -> Slots]
      /\ \A i, j \in 1 .. n : w[i] = w[j] => i = j
  BY ListShape, SlotCountAssumption
<1>2. \A i \in 1 .. n : w[i] # s
  BY <1>1 DEF On
<1> HIDE DEF n
<1>3. v \in [1 .. n + 1 -> Slots] /\ v[1] = s /\ \A i \in 2 .. n + 1 : v[i] = w[i - 1]
  BY <1>1 DEF Cons, n
<1>4. ASSUME NEW i \in 1 .. n + 1, NEW j \in 1 .. n + 1, v[i] = v[j]
      PROVE  i = j
  <2>1. CASE i = 1 /\ j # 1
    BY <2>1, <1>1, <1>2, <1>3, <1>4
  <2>2. CASE i # 1 /\ j = 1
    BY <2>2, <1>1, <1>2, <1>3, <1>4
  <2>3. CASE i # 1 /\ j # 1
    BY <2>3, <1>1, <1>3, <1>4
  <2> QED
    BY <2>1, <2>2, <2>3
<1>5. v \in Lists /\ Len(v) = n + 1
  BY <1>1, <1>3, <1>4, ListIntro
<1>6. On(v) \subseteq On(w) \cup {s}
  BY <1>1, <1>3 DEF On
<1>7. On(w) \cup {s} \subseteq On(v)
  <2>1. s \in On(v)
    BY <1>1, <1>3 DEF On
  <2>2. ASSUME NEW i \in 1 .. n
        PROVE  w[i] \in On(v)
    <3>1. i + 1 \in 1 .. n + 1 /\ v[i + 1] = w[i]
      BY <1>1, <1>3
    <3> QED
      BY <3>1, <1>3 DEF On
  <2> QED
    BY <2>1, <2>2, <1>1 DEF On
<1> QED
  BY <1>5, <1>6, <1>7 DEF n

LEMMA CutList ==
  ASSUME NEW w \in Lists, NEW k \in 1 .. Len(w)
  PROVE  /\ Cut(w, k) \in Lists
         /\ Len(Cut(w, k)) = Len(w) - 1
         /\ On(Cut(w, k)) = On(w) \ {w[k]}
<1> DEFINE n == Len(w)
           v == Cut(w, k)
<1>1. /\ n \in Nat \ {0} /\ DOMAIN w = 1 .. n /\ w \in [1 .. n -> Slots]
      /\ \A i, j \in 1 .. n : w[i] = w[j] => i = j
  BY ListShape, SlotCountAssumption
<1>2. k \in 1 .. n
  OBVIOUS
<1> HIDE DEF n
<1>3. v \in [1 .. n - 1 -> Slots]
      /\ \A i \in 1 .. n - 1 : v[i] = IF i < k THEN w[i] ELSE w[i + 1]
  BY <1>1, <1>2 DEF Cut, n
<1>4. ASSUME NEW i \in 1 .. n - 1, NEW j \in 1 .. n - 1, v[i] = v[j]
      PROVE  i = j
  <2> DEFINE a == IF i < k THEN i ELSE i + 1
             b == IF j < k THEN j ELSE j + 1
  <2>1. a \in 1 .. n /\ b \in 1 .. n /\ w[a] = w[b]
    BY <1>1, <1>2, <1>3, <1>4
  <2>2. a = b
    BY <2>1, <1>1
  <2> QED
    BY <2>2, <1>1, <1>2
<1>5. v \in Lists /\ Len(v) = n - 1
  <2>1. n - 1 \in Nat
    BY <1>1
  <2> QED
    BY <2>1, <1>3, <1>4, ListIntro
<1>6. On(v) \subseteq On(w) \ {w[k]}
  <2>1. ASSUME NEW i \in 1 .. n - 1
        PROVE  v[i] \in On(w) \ {w[k]}
    <3> DEFINE a == IF i < k THEN i ELSE i + 1
    <3>1. a \in 1 .. n /\ a # k /\ v[i] = w[a]
      BY <1>1, <1>2, <1>3
    <3> QED
      BY <3>1, <1>1, <1>2 DEF On
  <2> QED
    BY <2>1, <1>3 DEF On
<1>7. On(w) \ {w[k]} \subseteq On(v)
  <2>1. ASSUME NEW a \in 1 .. n, a # k
        PROVE  w[a] \in On(v)
    <3> DEFINE i == IF a < k THEN a ELSE a - 1
    <3>1. i \in 1 .. n - 1 /\ v[i] = w[a]
      BY <1>1, <1>2, <1>3, <2>1
    <3> QED
      BY <3>1, <1>3 DEF On
  <2> QED
    BY <2>1, <1>1 DEF On
<1> QED
  BY <1>5, <1>6, <1>7 DEF n

-----------------------------------------------------------------------------
(* The inductive invariant                                                 *)
(*                                                                         *)
(* For a reference of age a that was issued with generation g, the slot's  *)
(* generation has moved 2a times since, and once more if the slot is free; *)
(* every wrap takes GenMax off it.                                         *)

Moves(s, r) == 2 * r.age + (IF desc[s].state = "Free" THEN 1 ELSE 0)

Generations ==
  \A s \in Slots :
    /\ desc[s].state # "Free" => desc[s].gen # 0
    /\ refs[s] # {} => desc[s].gen # 0
    /\ \A r \in refs[s] :
         r.gen + Moves(s, r) - desc[s].gen \in {0, GenMax, 2 * GenMax}

DownIsEmpty == ~up => Used = {} /\ \A s \in Slots : refs[s] = {}

IInv == /\ TypeOK
        /\ DownIsEmpty
        /\ FreeListExact
        /\ LiveListsExact
        /\ CallbackSafe
        /\ Generations

(* At the parity of GenMax the equation leaves a live slot only its own    *)
(* reference.                                                              *)
LEMMA GenerationsGuard == IInv => StaleRefused
<1> SUFFICES ASSUME IInv, NEW s \in Slots, NEW r \in refs[s], NamesLive(s, r)
             PROVE  r.age = 0
  BY DEF StaleRefused
<1>1. PICK k \in 0 .. GenMax : GenMax = 2 * k + 1
  BY GenMaxAssumption
<1>2. r.age \in 0 .. GenMax - 1 /\ r.gen \in 1 .. GenMax
  BY DEF IInv, TypeOK, Reference
<1>3. r.gen + Moves(s, r) - desc[s].gen \in {0, GenMax, 2 * GenMax}
  BY DEF IInv, Generations
<1>4. 2 * r.age \in {0, GenMax, 2 * GenMax}
  BY <1>2, <1>3, GenMaxAssumption DEF NamesLive, Moves
<1> QED
  BY <1>1, <1>2, <1>4, GenMaxAssumption

(* A generation's step, wrap included *)
LEMMA NextGenerationStep ==
  ASSUME NEW g \in 0 .. GenMax
  PROVE  /\ NextGeneration(g) \in 1 .. GenMax
         /\ \/ NextGeneration(g) = g + 1
            \/ g = GenMax /\ NextGeneration(g) = 1
  BY GenMaxAssumption DEF NextGeneration

(* One more move keeps the equation: it cannot wrap a third time.          *)
LEMMA EquationStep ==
  ASSUME NEW g \in 1 .. GenMax, NEW m \in 0 .. 2 * GenMax - 2,
         NEW x \in 0 .. GenMax, NEW y \in 1 .. GenMax,
         y = x + 1 \/ (x = GenMax /\ y = 1),
         g + m - x \in {0, GenMax, 2 * GenMax}
  PROVE  g + (m + 1) - y \in {0, GenMax, 2 * GenMax}
  BY GenMaxAssumption

LEMMA UsedFinite == IsFiniteSet(Used) /\ Cardinality(Used) \in 0 .. SlotCount
<1>1. Used \subseteq Slots
  BY DEF Used
<1>2. IsFiniteSet(Used) /\ Cardinality(Used) <= SlotCount
  BY <1>1, SlotsFinite, FS_Subset
<1> QED
  BY <1>2, FS_CardinalityType, SlotCountAssumption

(* The list of a pool that exists *)
LEMMA LiveList ==
  ASSUME IInv, up, NEW p \in Pools, pool[p].exists
  PROVE  \E w \in Lists : /\ On(w) = Members(p)
                          /\ LiveChain(p, w)
                          /\ pool[p].live = Len(w)
  BY DEF IInv, LiveListsExact, Orders

(* A list does not change unless its pool's head or its slots' links do. *)
LEMMA ChainFrame ==
  ASSUME NEW q, NEW w \in Lists, LiveChain(q, w),
         pool'[q].head = pool[q].head,
         \A t \in On(w) : desc'[t].next = desc[t].next /\ desc'[t].prev = desc[t].prev
  PROVE  LiveChain(q, w)'
  BY DEF LiveChain, On, At

LEMMA FreeFrame ==
  ASSUME NEW w \in Lists, FreeChain(w), freeHead' = freeHead,
         \A t \in On(w) : desc'[t].link = desc[t].link
  PROVE  FreeChain(w)'
  BY DEF FreeChain, On, At

(* Membership does not change unless states or pools do. *)
LEMMA SameMembers ==
  ASSUME \A t \in Slots : desc'[t].state = desc[t].state /\ desc'[t].pool = desc[t].pool
  PROVE  Used' = Used /\ \A q \in Pools : Members(q)' = Members(q)
  BY DEF Used, Members

(* What precheck_pool collects is all there is: as many distinct slots of  *)
(* the pool as the pool has members.                                       *)
LEMMA CollectIsComplete ==
  ASSUME IInv, up, NEW p \in Pools, pool[p].exists, NEW v \in Collect(p)
  PROVE  /\ v \in Lists
         /\ On(v) = Members(p)
         /\ \A s \in Members(p) : desc[s].state = "Live"
<1>1. PICK w \in Lists : On(w) = Members(p) /\ pool[p].live = Len(w)
  BY LiveList
<1>2. v \in Lists /\ Len(v) = Len(w) /\ \A s \in On(v) : desc[s].state = "Live" /\ desc[s].pool = p
  BY <1>1 DEF Collect
<1>3. On(v) \subseteq Members(p)
  BY <1>2, ListLength DEF Members, Used
<1>4. On(v) = Members(p)
  BY <1>1, <1>2, <1>3, ListLength, FS_Subset
<1> QED
  BY <1>2, <1>4

(* Frees under way keep clear of what happens to other slots and pools.    *)
LEMMA CallbackFrame ==
  ASSUME CallbackSafe, running' = running, running # <<>> => up',
         \A i \in DOMAIN running :
           /\ desc'[running[i].slot].state = desc[running[i].slot].state
           /\ desc'[running[i].slot].pool = desc[running[i].slot].pool
           /\ pool'[running[i].pool].exists
  PROVE  CallbackSafe'
  BY DEF CallbackSafe

LEMMA RunningTyped ==
  ASSUME TypeOK, NEW i \in DOMAIN running
  PROVE  running[i].slot \in Slots /\ running[i].pool \in Pools
<1>1. running \in Seq([slot : Slots, pool : Pools])
  BY DEF TypeOK
<1>2. running[i] \in [slot : Slots, pool : Pools]
  BY <1>1, LenProperties, ElementOfSeq
<1> QED
  BY <1>2

-----------------------------------------------------------------------------
(* Lifecycle *)

LEMMA ZeroIds == 0 \in Slots /\ 0 \in Pools
  BY SlotCountAssumption, PoolCountAssumption DEF Slots, Pools

LEMMA ZeroTyped == ZeroDesc \in ObjectDesc /\ EmptyPool \in PoolRecord
<1>1. 0 \in Links /\ 0 \in 0 .. GenMax /\ 0 \in 0 .. SlotCount
  BY ZeroIds, SlotCountAssumption, GenMaxAssumption DEF Links
<1> QED
  BY <1>1, ZeroIds DEF ZeroDesc, ObjectDesc, EmptyPool, PoolRecord

LEMMA FreshTyped ==
  ASSUME NEW s \in Slots
  PROVE  /\ FreshDesc(s) \in ObjectDesc
         /\ FreshDesc(s).state = "Free"
         /\ FreshDesc(s).link = IF s + 1 < SlotCount THEN s + 1 ELSE None
<1> DEFINE l == IF s + 1 < SlotCount THEN s + 1 ELSE None
<1>1. l \in Links /\ None \in Links
  BY SlotCountAssumption DEF Links, Slots, None
<1> HIDE DEF l
<1>2. FreshDesc(s) = [ZeroDesc EXCEPT !.prev = None, !.next = None, !.link = l]
  BY DEF FreshDesc, l
<1>3. FreshDesc(s) \in ObjectDesc /\ FreshDesc(s).state = "Free" /\ FreshDesc(s).link = l
  BY <1>1, <1>2, ZeroTyped DEF ObjectDesc, ZeroDesc
<1> QED
  BY <1>3 DEF l

LEMMA InitSafe == Init => IInv
<1> SUFFICES ASSUME Init PROVE IInv
  OBVIOUS
<1>1. TypeOK
  BY ZeroIds, ZeroTyped, EmptySeq, SlotCountAssumption DEF Init, TypeOK, Links
<1>2. DownIsEmpty
  BY DEF Init, DownIsEmpty, Used, ZeroDesc
<1>3. FreeListExact /\ LiveListsExact
  BY DEF Init, FreeListExact, LiveListsExact
<1>4. CallbackSafe
  BY DEF Init, CallbackSafe
<1>5. Generations
  BY DEF Init, Generations, ZeroDesc
<1> QED
  BY <1>1, <1>2, <1>3, <1>4, <1>5 DEF IInv

LEMMA StartSafe == IInv /\ Start => IInv'
<1> SUFFICES ASSUME IInv, Start PROVE IInv'
  OBVIOUS
<1>1. TypeOK'
  <2>2. desc' \in [Slots -> ObjectDesc]
    BY FreshTyped DEF Start
  <2>3. pool' \in [Pools -> PoolRecord]
    BY ZeroIds, SlotCountAssumption DEF Start, PoolRecord, EmptyPool, Links
  <2> QED
    BY <2>2, <2>3, ZeroIds, SlotCountAssumption DEF Start, TypeOK, IInv, Links
<1>2. Used' = {}
  BY DEF Start, Used, FreshDesc, ZeroDesc
<1>3. FreeListExact'
  <2> DEFINE w == [i \in 1 .. SlotCount |-> i - 1]
  <2>1. w \in Lists /\ Len(w) = SlotCount
    <3>1. w \in [1 .. SlotCount -> Slots] /\ SlotCount \in Nat
      BY SlotCountAssumption DEF Slots
    <3> QED
      BY <3>1, ListIntro
  <2>2. On(w) = Slots
    <3>1. \A s \in Slots : s + 1 \in 1 .. SlotCount /\ w[s + 1] = s
      BY SlotCountAssumption DEF Slots
    <3> QED
      BY <3>1, <2>1, ListLength DEF On
  <2>3. freeHead' = At(w, 1)
    BY SlotCountAssumption DEF Start, At
  <2>4. \A i \in DOMAIN w : desc'[w[i]].link = At(w, i + 1)
    <3> SUFFICES ASSUME NEW i \in 1 .. SlotCount
                 PROVE  desc'[w[i]].link = At(w, i + 1)
      OBVIOUS
    <3>1. w[i] = i - 1 /\ i - 1 \in Slots
      BY SlotCountAssumption DEF Slots
    <3>2. desc'[i - 1].link = IF i < SlotCount THEN i ELSE None
      BY <3>1, FreshTyped, SlotCountAssumption DEF Start
    <3> QED
      BY <3>1, <3>2, SlotCountAssumption DEF At
  <2> HIDE DEF w
  <2>5. (Slots \ Used)' = Slots
    BY <1>2
  <2> QED
    BY <2>1, <2>2, <2>3, <2>4, <2>5 DEF FreeListExact, FreeChain, Orders
<1>4. LiveListsExact'
  BY <1>2, FS_EmptySet DEF Start, LiveListsExact, EmptyPool
<1>5. CallbackSafe'
  BY DEF IInv, CallbackSafe, Start
<1>6. Generations'
  BY DEF IInv, Start, DownIsEmpty, Generations, FreshDesc, ZeroDesc
<1>7. DownIsEmpty'
  BY DEF Start, DownIsEmpty
<1> QED
  BY <1>1, <1>3, <1>4, <1>5, <1>6, <1>7 DEF IInv

(* live_object_count = 0 really means that no object and no callback is    *)
(* left.                                                                   *)
LEMMA DeinitSafe == IInv /\ Deinit => IInv'
<1> SUFFICES ASSUME IInv, Deinit PROVE IInv'
  OBVIOUS
<1>1. Used = {}
  BY UsedFinite, FS_EmptySet DEF IInv, LiveListsExact, Deinit
<1>2. running = <<>>
  <2>1. ASSUME NEW i \in DOMAIN running PROVE FALSE
    BY <1>1, RunningTyped DEF IInv, CallbackSafe, Used
  <2>2. running \in Seq([slot : Slots, pool : Pools])
    BY DEF IInv, TypeOK
  <2>3. DOMAIN running = 1 .. Len(running)
    BY <2>2, LenProperties
  <2>4. running # <<>> => Len(running) \in Nat \ {0}
    BY <2>2, EmptySeq
  <2> QED
    BY <2>1, <2>3, <2>4
<1>3. TypeOK'
  BY ZeroIds, ZeroTyped, SlotCountAssumption DEF Deinit, IInv, TypeOK, Links
<1>4. DownIsEmpty'
  BY DEF Deinit, DownIsEmpty, Used, ZeroDesc
<1>5. FreeListExact' /\ LiveListsExact'
  BY DEF Deinit, FreeListExact, LiveListsExact
<1>6. CallbackSafe'
  BY <1>2 DEF Deinit, CallbackSafe
<1>7. Generations'
  BY DEF Deinit, Generations, ZeroDesc
<1> QED
  BY <1>3, <1>4, <1>5, <1>6, <1>7 DEF IInv

(* The steps that leave every descriptor's state, pool, generation and     *)
(* every reference alone keep what speaks of nothing else.                 *)
LEMMA TableFrame ==
  ASSUME IInv, up' = up, refs' = refs,
         \A t \in Slots : /\ desc'[t].state = desc[t].state
                          /\ desc'[t].pool = desc[t].pool
                          /\ desc'[t].gen = desc[t].gen
  PROVE  /\ Used' = Used
         /\ \A q \in Pools : Members(q)' = Members(q)
         /\ DownIsEmpty'
         /\ Generations'
<1>1. Used' = Used /\ \A q \in Pools : Members(q)' = Members(q)
  BY SameMembers
<1>2. DownIsEmpty'
  BY <1>1 DEF IInv, DownIsEmpty
<1>3. Generations'
  BY DEF IInv, Generations, Moves
<1> QED
  BY <1>1, <1>2, <1>3

LEMMA CreatePoolSafe == ASSUME NEW p \in Pools PROVE IInv /\ CreatePool(p) => IInv'
<1> SUFFICES ASSUME IInv, CreatePool(p) PROVE IInv'
  OBVIOUS
<1>0. UNCHANGED <<up, desc, freeHead, count, running, refs>>
  BY DEF CreatePool
<1>1. TypeOK'
  BY SlotCountAssumption DEF CreatePool, IInv, TypeOK, PoolRecord, Links
<1>2. Used' = Used /\ (\A q \in Pools : Members(q)' = Members(q)) /\ DownIsEmpty' /\ Generations'
  BY <1>0, TableFrame
<1>3. FreeListExact'
  BY <1>0, <1>2 DEF IInv, FreeListExact, FreeChain
<1>4. Members(p) = {} /\ \A s \in Used : desc[s].pool # p
  BY DEF IInv, LiveListsExact, CreatePool, FirstEmpty, Members
<1>5. LiveListsExact'
  <2>1. ASSUME NEW q \in Pools, pool'[q].exists
        PROVE  \E w \in Orders(Members(q)') : LiveChain(q, w)' /\ pool'[q].live = Len(w)
    <3>1. CASE q = p
      <4> DEFINE e == [i \in 1 .. 0 |-> 0]
      <4>0. 0 \in Nat /\ e \in [1 .. 0 -> Slots] /\ DOMAIN e = {}
        OBVIOUS
      <4>1. e \in Lists /\ Len(e) = 0 /\ DOMAIN e = {}
        BY <4>0, ListIntro
      <4>2. On(e) = {} /\ At(e, 1) = None
        BY <4>1 DEF On, At
      <4> HIDE DEF e
      <4>3. pool'[p].head = None /\ pool'[p].live = 0
        BY DEF CreatePool, IInv, TypeOK
      <4> QED
        BY <3>1, <4>1, <4>2, <4>3, <1>2, <1>4 DEF Orders, LiveChain
    <3>2. CASE q # p
      <4>1. pool'[q] = pool[q]
        BY <3>2 DEF CreatePool, IInv, TypeOK
      <4>2. PICK w \in Lists : On(w) = Members(q) /\ LiveChain(q, w) /\ pool[q].live = Len(w)
        BY <2>1, <4>1, LiveList DEF CreatePool
      <4>3. LiveChain(q, w)'
        BY <4>1, <4>2, <1>0, ChainFrame
      <4> QED
        BY <4>1, <4>2, <4>3, <1>2 DEF Orders
    <3> QED
      BY <3>1, <3>2
  <2>2. \A s \in Used' : pool'[desc'[s].pool].exists
    BY <1>0, <1>2, <1>4 DEF CreatePool, IInv, TypeOK, LiveListsExact, Used, ObjectDesc
  <2> QED
    BY <1>0, <1>2, <2>1, <2>2 DEF IInv, LiveListsExact
<1>6. CallbackSafe'
  <2>1. \A i \in DOMAIN running : pool'[running[i].pool].exists
    BY RunningTyped DEF CreatePool, IInv, TypeOK, CallbackSafe
  <2> QED
    BY <2>1, <1>0, CallbackFrame DEF IInv, CallbackSafe
<1> QED
  BY <1>1, <1>2, <1>3, <1>5, <1>6 DEF IInv

(* live_objects = 0 really means that the pool has no member, so neither   *)
(* has it one whose callback is running.                                   *)
LEMMA DestroyPoolSafe == ASSUME NEW p \in Pools PROVE IInv /\ DestroyPool(p) => IInv'
<1> SUFFICES ASSUME IInv, DestroyPool(p) PROVE IInv'
  OBVIOUS
<1>0. UNCHANGED <<up, desc, freeHead, count, running, refs>> /\ up
  BY DEF DestroyPool
<1>1. TypeOK'
  BY ZeroIds, SlotCountAssumption DEF DestroyPool, IInv, TypeOK, PoolRecord, EmptyPool, Links
<1>2. Used' = Used /\ (\A q \in Pools : Members(q)' = Members(q)) /\ DownIsEmpty' /\ Generations'
  BY <1>0, TableFrame
<1>3. FreeListExact'
  BY <1>0, <1>2 DEF IInv, FreeListExact, FreeChain
<1>4. Members(p) = {}
  <2>1. PICK w \in Lists : On(w) = Members(p) /\ Len(w) = 0
    BY LiveList DEF DestroyPool
  <2> QED
    BY <2>1, ListShape DEF On
<1>5. \A q \in Pools : q # p => pool'[q] = pool[q]
  BY DEF DestroyPool, IInv, TypeOK
<1>6. ~pool'[p].exists
  BY DEF DestroyPool, IInv, TypeOK, EmptyPool
<1>7. LiveListsExact'
  <2>1. ASSUME NEW q \in Pools, pool'[q].exists
        PROVE  \E w \in Orders(Members(q)') : LiveChain(q, w)' /\ pool'[q].live = Len(w)
    <3>1. pool'[q] = pool[q]
      BY <2>1, <1>5, <1>6
    <3>2. PICK w \in Lists : On(w) = Members(q) /\ LiveChain(q, w) /\ pool[q].live = Len(w)
      BY <2>1, <3>1, <1>0, LiveList
    <3>3. LiveChain(q, w)'
      BY <3>1, <3>2, <1>0, ChainFrame
    <3> QED
      BY <3>1, <3>2, <3>3, <1>2 DEF Orders
  <2>2. \A s \in Used' : pool'[desc'[s].pool].exists
    BY <1>0, <1>2, <1>4, <1>5 DEF IInv, TypeOK, LiveListsExact, Used, ObjectDesc, Members
  <2> QED
    BY <1>0, <1>2, <2>1, <2>2 DEF IInv, LiveListsExact
<1>8. CallbackSafe'
  <2>1. ASSUME NEW i \in DOMAIN running
        PROVE  pool'[running[i].pool].exists
    <3>1. running[i].slot \in Members(running[i].pool) /\ running[i].pool \in Pools
      BY RunningTyped DEF IInv, CallbackSafe, Members, Used
    <3> QED
      BY <3>1, <1>4, <1>5 DEF IInv, CallbackSafe
  <2> QED
    BY <2>1, <1>0, CallbackFrame DEF IInv, CallbackSafe
<1> QED
  BY <1>1, <1>2, <1>3, <1>7, <1>8 DEF IInv

-----------------------------------------------------------------------------
(* Steps that touch no list *)

LEMMA QuietFrame ==
  ASSUME IInv, UNCHANGED <<up, pool, freeHead, count, refs>>,
         \A t \in Slots : /\ desc'[t].state = "Free" <=> desc[t].state = "Free"
                          /\ desc'[t].pool = desc[t].pool
                          /\ desc'[t].gen = desc[t].gen
                          /\ desc'[t].prev = desc[t].prev
                          /\ desc'[t].next = desc[t].next
                          /\ desc'[t].link = desc[t].link
  PROVE  DownIsEmpty' /\ FreeListExact' /\ LiveListsExact' /\ Generations'
<1>1. Used' = Used /\ \A q \in Pools : Members(q)' = Members(q)
  BY DEF Used, Members
<1>2. DownIsEmpty'
  BY <1>1 DEF IInv, DownIsEmpty
<1>3. Generations'
  BY DEF IInv, Generations, Moves
<1>4. FreeListExact'
  <2> SUFFICES ASSUME up PROVE \E w \in Orders(Slots \ Used) : FreeChain(w)'
    BY <1>1 DEF FreeListExact
  <2>1. PICK w \in Orders(Slots \ Used) : FreeChain(w)
    BY DEF IInv, FreeListExact
  <2>2. FreeChain(w)'
    BY <2>1, FreeFrame, ListLength DEF Orders
  <2> QED
    BY <2>1, <2>2
<1>5. LiveListsExact'
  <2> SUFFICES ASSUME up PROVE LiveListsExact'
    BY DEF LiveListsExact
  <2>1. ASSUME NEW q \in Pools, pool[q].exists
        PROVE  \E w \in Orders(Members(q)') : LiveChain(q, w)' /\ pool'[q].live = Len(w)
    <3>1. PICK w \in Lists : On(w) = Members(q) /\ LiveChain(q, w) /\ pool[q].live = Len(w)
      BY <2>1, LiveList
    <3>2. LiveChain(q, w)'
      BY <3>1, ChainFrame, ListLength
    <3> QED
      BY <3>1, <3>2, <1>1 DEF Orders
  <2>2. \A t \in Used' : pool'[desc'[t].pool].exists
    BY <1>1 DEF IInv, LiveListsExact, Used
  <2> QED
    BY <1>1, <2>1, <2>2 DEF IInv, LiveListsExact
<1> QED
  BY <1>2, <1>3, <1>4, <1>5

LEMMA StutterSafe == IInv /\ UNCHANGED vars => IInv'
<1> SUFFICES ASSUME IInv, UNCHANGED vars PROVE IInv'
  OBVIOUS
<1>1. DownIsEmpty' /\ FreeListExact' /\ LiveListsExact' /\ Generations'
  BY QuietFrame DEF vars
<1> QED
  BY <1>1 DEF vars, IInv, TypeOK, CallbackSafe

(* The failure path of alloc gives the slot back exactly as it was. *)
LEMMA AllocFailsSafe == ASSUME NEW p \in Pools PROVE IInv /\ AllocFails(p) => IInv'
<1> SUFFICES ASSUME IInv, AllocFails(p) PROVE IInv'
  OBVIOUS
<1>1. desc' = desc
  BY DEF AllocFails, Released, IInv, TypeOK, ObjectDesc, Links
<1> QED
  BY <1>1, StutterSafe DEF AllocFails, Released, vars

LEMMA SetDestroyFnSafe ==
  ASSUME NEW s \in Slots, NEW fn \in BOOLEAN
  PROVE  IInv /\ SetDestroyFn(s, fn) => IInv'
<1> SUFFICES ASSUME IInv, SetDestroyFn(s, fn) PROVE IInv'
  OBVIOUS
<1>0. desc \in [Slots -> ObjectDesc] /\ UNCHANGED <<up, pool, freeHead, count, running, refs>>
  BY DEF SetDestroyFn, IInv, TypeOK
<1>1. desc' = [desc EXCEPT ![s] = [@ EXCEPT !.callback = fn]]
  BY DEF SetDestroyFn
<1>2. \A t \in Slots : /\ desc'[t].state = desc[t].state
                       /\ desc'[t].pool = desc[t].pool
                       /\ desc'[t].gen = desc[t].gen
                       /\ desc'[t].prev = desc[t].prev
                       /\ desc'[t].next = desc[t].next
                       /\ desc'[t].link = desc[t].link
  BY <1>0, <1>1 DEF ObjectDesc
<1>3. DownIsEmpty' /\ FreeListExact' /\ LiveListsExact' /\ Generations'
  BY <1>0, <1>2, QuietFrame
<1>4. TypeOK'
  BY <1>0, <1>1 DEF IInv, TypeOK, ObjectDesc
<1>5. CallbackSafe'
  BY <1>0, <1>2, RunningTyped, CallbackFrame DEF IInv, CallbackSafe
<1> QED
  BY <1>3, <1>4, <1>5 DEF IInv

LEMMA FreeCallbackSafe == ASSUME NEW s \in Slots PROVE IInv /\ FreeCallback(s) => IInv'
<1> SUFFICES ASSUME IInv, FreeCallback(s) PROVE IInv'
  OBVIOUS
<1> DEFINE call == [slot |-> s, pool |-> desc[s].pool]
<1>0. desc \in [Slots -> ObjectDesc] /\ UNCHANGED <<up, pool, freeHead, count, refs>> /\ up
  BY DEF FreeCallback, IInv, TypeOK
<1>1. desc' = [desc EXCEPT ![s] = [@ EXCEPT !.state = "Destroying"]] /\ desc[s].state = "Live"
  BY DEF FreeCallback, NamesLive
<1>2. \A t \in Slots : /\ desc'[t].state = IF t = s THEN "Destroying" ELSE desc[t].state
                       /\ desc'[t].pool = desc[t].pool
                       /\ desc'[t].gen = desc[t].gen
                       /\ desc'[t].prev = desc[t].prev
                       /\ desc'[t].next = desc[t].next
                       /\ desc'[t].link = desc[t].link
  BY <1>0, <1>1 DEF ObjectDesc
<1>3. DownIsEmpty' /\ FreeListExact' /\ LiveListsExact' /\ Generations'
  BY <1>0, <1>1, <1>2, QuietFrame
<1>4. running \in Seq([slot : Slots, pool : Pools]) /\ call \in [slot : Slots, pool : Pools]
  BY <1>0 DEF IInv, TypeOK, ObjectDesc
<1>5. /\ Len(running) \in Nat /\ DOMAIN running = 1 .. Len(running)
      /\ running' \in Seq([slot : Slots, pool : Pools])
      /\ DOMAIN running' = 1 .. Len(running) + 1
      /\ \A i \in 1 .. Len(running) : running'[i] = running[i]
      /\ running'[Len(running) + 1] = call
  BY <1>4 DEF FreeCallback
<1>6. TypeOK'
  <2>1. desc' \in [Slots -> ObjectDesc]
    BY <1>0, <1>1 DEF ObjectDesc
  <2>2. QED BY <1>0, <1>5, <2>1 DEF IInv, TypeOK
<1>7. CallbackSafe'
  <2>1. ASSUME NEW i \in 1 .. Len(running)
        PROVE  /\ running[i].slot \in Slots /\ running[i].slot # s
               /\ desc'[running[i].slot].state = "Destroying"
               /\ desc'[running[i].slot].pool = running[i].pool
               /\ pool'[running[i].pool].exists
    BY <1>0, <1>1, <1>2, <1>5, RunningTyped DEF IInv, CallbackSafe
  <2>2. /\ desc'[s].state = "Destroying" /\ desc'[s].pool = call.pool
        /\ pool'[call.pool].exists
    BY <1>0, <1>1, <1>2 DEF IInv, LiveListsExact, Used
  <2>3. ASSUME NEW i \in DOMAIN running', NEW j \in DOMAIN running',
               running'[i].slot = running'[j].slot
        PROVE  i = j
    <3>1. CASE i = Len(running) + 1 \/ j = Len(running) + 1
      BY <3>1, <2>1, <2>3, <1>5
    <3>2. CASE i # Len(running) + 1 /\ j # Len(running) + 1
      <4>1. i \in DOMAIN running /\ j \in DOMAIN running
            /\ running[i].slot = running[j].slot
        BY <3>2, <2>3, <1>5
      <4> QED
        BY <4>1 DEF IInv, CallbackSafe
    <3> QED
      BY <3>1, <3>2
  <2>4. ASSUME NEW i \in DOMAIN running'
        PROVE  /\ desc'[running'[i].slot].state = "Destroying"
               /\ desc'[running'[i].slot].pool = running'[i].pool
               /\ pool'[running'[i].pool].exists
    <3>1. CASE i = Len(running) + 1
      BY <3>1, <2>2, <1>5
    <3>2. CASE i # Len(running) + 1
      BY <3>2, <2>1, <1>5
    <3> QED
      BY <3>1, <3>2
  <2> QED
    BY <2>3, <2>4, <1>0 DEF CallbackSafe
<1> QED
  BY <1>3, <1>6, <1>7 DEF IInv

-----------------------------------------------------------------------------
(* alloc *)

(* The head of the free-slot list is a free slot. *)
LEMMA FreeHeadIsFree ==
  ASSUME IInv, up, freeHead # None
  PROVE  \E w \in Lists : /\ On(w) = Slots \ Used /\ FreeChain(w)
                          /\ 1 \in 1 .. Len(w) /\ w[1] = freeHead
<1>1. PICK w \in Lists : On(w) = Slots \ Used /\ FreeChain(w)
  BY DEF IInv, FreeListExact, Orders
<1>2. 1 \in DOMAIN w /\ w[1] = freeHead
  BY <1>1 DEF FreeChain, At
<1> QED
  BY <1>1, <1>2, ListShape

(* A live reference gets one lifecycle older, the new one starts at zero.  *)
LEMMA AgedRefs ==
  ASSUME NEW R \in SUBSET Reference
  PROVE  /\ Aged(R) \in SUBSET Reference
         /\ \A q \in Aged(R) : \E r \in R : q.gen = r.gen /\ q.age = r.age + 1
<1> SUFFICES ASSUME NEW q \in Aged(R)
             PROVE  q \in Reference /\ \E r \in R : q.gen = r.gen /\ q.age = r.age + 1
  OBVIOUS
<1>1. PICK r \in R : r.age + 1 < GenMax /\ q = [r EXCEPT !.age = @ + 1]
  BY DEF Aged
<1>2. r \in Reference
  OBVIOUS
<1>3. r.age + 1 \in 0 .. GenMax - 1
  BY <1>1, <1>2, GenMaxAssumption DEF Reference
<1> QED
  BY <1>1, <1>2, <1>3 DEF Reference

LEMMA AllocEffect ==
  ASSUME IInv, NEW p \in Pools, Alloc(p), NEW w \in Lists,
         On(w) = Slots \ Used, FreeChain(w), 1 \in 1 .. Len(w), w[1] = freeHead
  PROVE  /\ freeHead \in Slots /\ desc[freeHead].state = "Free"
         /\ desc' \in [Slots -> ObjectDesc]
         /\ desc'[freeHead].state = "Live"
         /\ desc'[freeHead].gen = NextGeneration(desc[freeHead].gen)
         /\ desc'[freeHead].pool = p
         /\ desc'[freeHead].prev = None
         /\ desc'[freeHead].next = pool[p].head
         /\ \A t \in Slots :
              t # freeHead =>
                /\ desc'[t].state = desc[t].state
                /\ desc'[t].gen = desc[t].gen
                /\ desc'[t].pool = desc[t].pool
                /\ desc'[t].next = desc[t].next
                /\ desc'[t].link = desc[t].link
                /\ desc'[t].prev = IF t = pool[p].head THEN freeHead ELSE desc[t].prev
<1> DEFINE s == freeHead
           g == NextGeneration(desc[s].gen)
           d == [ZeroDesc EXCEPT !.state = "Live", !.gen = g, !.pool = p]
           e == [d EXCEPT !.prev = None, !.next = pool[p].head]
<1>1. s \in Slots /\ desc[s].state = "Free"
  BY ListShape DEF On, Used
<1>2. desc \in [Slots -> ObjectDesc] /\ pool[p].head \in Links
  BY DEF IInv, TypeOK, PoolRecord
<1>3. g \in 0 .. GenMax
  BY <1>1, <1>2, NextGenerationStep, GenMaxAssumption DEF ObjectDesc
<1> HIDE DEF g
<1>4. d \in ObjectDesc /\ d.state = "Live" /\ d.gen = g /\ d.pool = p
  BY <1>3, ZeroTyped DEF ObjectDesc, ZeroDesc
<1> HIDE DEF d
<1>5. /\ e \in ObjectDesc /\ e.state = "Live" /\ e.gen = g /\ e.pool = p
      /\ e.prev = None /\ e.next = pool[p].head
  BY <1>2, <1>4 DEF ObjectDesc, Links
<1> HIDE DEF e
<1>6. desc' = [t \in Slots |-> IF t = s THEN e
                               ELSE IF t = pool[p].head THEN [desc[t] EXCEPT !.prev = s]
                               ELSE desc[t]]
  BY DEF Alloc, Pushed, d, e, g
<1>7. ASSUME NEW t \in Slots, t # s
      PROVE  /\ desc'[t] \in ObjectDesc
             /\ desc'[t].state = desc[t].state
             /\ desc'[t].gen = desc[t].gen
             /\ desc'[t].pool = desc[t].pool
             /\ desc'[t].next = desc[t].next
             /\ desc'[t].link = desc[t].link
             /\ desc'[t].prev = IF t = pool[p].head THEN s ELSE desc[t].prev
  <2>1. CASE t = pool[p].head
    <3>1. desc'[t] = [desc[t] EXCEPT !.prev = s]
      BY <2>1, <1>6, <1>7
    <3>2. desc[t] \in ObjectDesc /\ s \in Links
      BY <1>1, <1>2 DEF Links
    <3>3. QED BY <2>1, <3>1, <3>2 DEF ObjectDesc
  <2>2. CASE t # pool[p].head
    BY <2>2, <1>2, <1>6, <1>7
  <2> QED
    BY <2>1, <2>2
<1>8. desc' \in [Slots -> ObjectDesc]
  BY <1>1, <1>5, <1>6, <1>7
<1>9. desc'[s] = e
  BY <1>1, <1>6
<1> QED
  BY <1>1, <1>5, <1>7, <1>8, <1>9 DEF g

(* The popped slot heads the live-slot list of its pool. *)
LEMMA AllocSafe == ASSUME NEW p \in Pools PROVE IInv /\ Alloc(p) => IInv'
<1> SUFFICES ASSUME IInv, Alloc(p) PROVE IInv'
  OBVIOUS
<1>s. PICK s : s = freeHead
  OBVIOUS
<1>0. /\ up /\ pool[p].exists /\ s # None /\ UNCHANGED <<up, running>>
      /\ count' = count + 1 /\ freeHead' = desc[s].link
      /\ pool' = [pool EXCEPT ![p].head = s, ![p].live = @ + 1]
      /\ refs' = [refs EXCEPT ![s] = Aged(@) \cup {[gen |-> NextGeneration(desc[s].gen), age |-> 0]}]
  BY <1>s DEF Alloc
<1>1. PICK w \in Lists : /\ On(w) = Slots \ Used /\ FreeChain(w)
                         /\ 1 \in 1 .. Len(w) /\ w[1] = s
  BY <1>0, <1>s, FreeHeadIsFree
<1>2. /\ s \in Slots /\ desc[s].state = "Free"
      /\ desc' \in [Slots -> ObjectDesc]
      /\ desc'[s].state = "Live"
      /\ desc'[s].gen = NextGeneration(desc[s].gen)
      /\ desc'[s].pool = p
      /\ desc'[s].prev = None
      /\ desc'[s].next = pool[p].head
  BY <1>1, <1>s, AllocEffect
<1>3. \A t \in Slots :
        t # s =>
          /\ desc'[t].state = desc[t].state
          /\ desc'[t].gen = desc[t].gen
          /\ desc'[t].pool = desc[t].pool
          /\ desc'[t].next = desc[t].next
          /\ desc'[t].link = desc[t].link
          /\ desc'[t].prev = IF t = pool[p].head THEN s ELSE desc[t].prev
  BY <1>1, <1>s, AllocEffect
<1>4. /\ pool \in [Pools -> PoolRecord] /\ desc \in [Slots -> ObjectDesc]
      /\ refs \in [Slots -> SUBSET Reference] /\ count \in Nat
  BY SlotCountAssumption DEF IInv, TypeOK
<1>5. /\ pool'[p].head = s /\ pool'[p].live = pool[p].live + 1 /\ pool'[p].exists
      /\ \A q \in Pools : q # p => pool'[q] = pool[q]
  BY <1>0, <1>4 DEF PoolRecord
<1>6. /\ Used' = Used \cup {s} /\ s \notin Used
      /\ Members(p)' = Members(p) \cup {s} /\ s \notin Members(p)
      /\ \A q \in Pools : q # p => Members(q)' = Members(q)
  BY <1>2, <1>3 DEF Used, Members
<1>7. count' = Cardinality(Used')
  BY <1>0, <1>6, UsedFinite, FS_AddElement DEF IInv, LiveListsExact
<1>8. FreeListExact'
  <2> DEFINE v == Cut(w, 1)
  <2>1. v \in Lists /\ Len(v) = Len(w) - 1 /\ On(v) = On(w) \ {s}
    BY <1>1, CutList
  <2>2. Len(w) \in Nat /\ DOMAIN w = 1 .. Len(w) /\ DOMAIN v = 1 .. Len(w) - 1
        /\ \A i \in 1 .. Len(w) - 1 : v[i] = w[i + 1]
    BY <2>1, <1>1, ListShape, SlotCountAssumption DEF Cut
  <2> HIDE DEF v
  <2>3. \A i \in DOMAIN w : desc[w[i]].link = At(w, i + 1)
    BY <1>1 DEF FreeChain
  <2>4. freeHead' = At(v, 1)
    BY <2>2, <2>3, <1>0, <1>1 DEF At
  <2>5. ASSUME NEW i \in DOMAIN v
        PROVE  desc'[v[i]].link = At(v, i + 1)
    <3>1. v[i] \in Slots /\ v[i] # s
      BY <2>1, <1>1, ListLength DEF On
    <3>2. i + 1 \in DOMAIN w /\ v[i] = w[i + 1]
      BY <2>2
    <3>3. desc'[v[i]].link = At(w, i + 2)
      BY <3>1, <3>2, <2>2, <2>3, <1>3
    <3> QED
      BY <3>3, <2>2 DEF At
  <2>6. On(v) = Slots \ Used'
    BY <2>1, <1>1, <1>6
  <2> QED
    BY <2>1, <2>4, <2>5, <2>6 DEF FreeListExact, FreeChain, Orders
<1>9. PICK u \in Lists : On(u) = Members(p) /\ LiveChain(p, u) /\ pool[p].live = Len(u)
  BY <1>0, LiveList
<1> DEFINE v == Cons(s, u)
<1>10. v \in Lists /\ Len(v) = Len(u) + 1 /\ On(v) = Members(p)'
  BY <1>2, <1>6, <1>9, ConsList
<1>11. LiveChain(p, v)'
  <2>1. Len(u) \in Nat /\ DOMAIN u = 1 .. Len(u) /\ DOMAIN v = 1 .. Len(u) + 1
        /\ v[1] = s /\ \A i \in 2 .. Len(u) + 1 : v[i] = u[i - 1]
    BY ListShape, SlotCountAssumption DEF Cons
  <2> HIDE DEF v
  <2>2. pool[p].head = At(u, 1)
        /\ \A i \in DOMAIN u : desc[u[i]].next = At(u, i + 1) /\ desc[u[i]].prev = At(u, i - 1)
    BY <1>9 DEF LiveChain
  <2>3. pool'[p].head = At(v, 1)
    BY <2>1, <1>5 DEF At
  <2>4. desc'[v[1]].next = At(v, 2) /\ desc'[v[1]].prev = At(v, 0)
    BY <2>1, <2>2, <1>2 DEF At
  <2>5. ASSUME NEW i \in 1 .. Len(u)
        PROVE  /\ desc'[u[i]].next = At(v, i + 2)
               /\ desc'[u[i]].prev = At(v, i)
    <3>1. u[i] \in Slots /\ u[i] # s
      BY <2>1, <1>6, <1>9, ListLength DEF On
    <3>2. u[i] = pool[p].head <=> i = 1
      <4>1. 1 \in 1 .. Len(u) /\ u[1] = pool[p].head
        BY <2>1, <2>2 DEF At
      <4>2. u[i] = u[1] => i = 1
        BY <4>1, ListShape
      <4> QED
        BY <4>1, <4>2
    <3>3. desc'[u[i]].next = At(u, i + 1)
      BY <3>1, <2>1, <2>2, <1>3
    <3>4. desc'[u[i]].prev = IF i = 1 THEN s ELSE At(u, i - 1)
      BY <3>1, <3>2, <2>1, <2>2, <1>3
    <3> QED
      BY <3>3, <3>4, <2>1 DEF At
  <2>6. ASSUME NEW i \in DOMAIN v
        PROVE  desc'[v[i]].next = At(v, i + 1) /\ desc'[v[i]].prev = At(v, i - 1)
    <3>1. CASE i = 1
      BY <3>1, <2>4
    <3>2. CASE i # 1
      <4> DEFINE j == i - 1
      <4>1. j \in 1 .. Len(u) /\ v[i] = u[j] /\ i = j + 1
        BY <3>2, <2>1
      <4> QED
        BY <4>1, <2>1, <2>5
    <3> QED
      BY <3>1, <3>2
  <2> QED
    BY <2>3, <2>6 DEF LiveChain
<1> HIDE DEF v
<1>12. ASSUME NEW q \in Pools, q # p, pool'[q].exists
       PROVE  \E x \in Lists : On(x) = Members(q)' /\ LiveChain(q, x)' /\ pool'[q].live = Len(x)
  <2>1. PICK x \in Lists : On(x) = Members(q) /\ LiveChain(q, x) /\ pool[q].live = Len(x)
    BY <1>0, <1>5, <1>12, LiveList
  <2>2. ASSUME NEW t \in On(x)
        PROVE  desc'[t].next = desc[t].next /\ desc'[t].prev = desc[t].prev
    <3>1. t \in Slots /\ t # s /\ t \notin Members(p)
      BY <2>1, <1>6, <1>12 DEF Members, Used
    <3>2. t # pool[p].head
      BY <3>1, <1>9, NoneIsNoSlot DEF LiveChain, At, On
    <3> QED
      BY <3>1, <3>2, <1>3
  <2>3. LiveChain(q, x)'
    BY <2>1, <2>2, <1>5, <1>12, ChainFrame
  <2> QED
    BY <2>1, <2>3, <1>5, <1>6, <1>12
<1>13. LiveListsExact'
  <2>1. \A t \in Used' : pool'[desc'[t].pool].exists
    <3> SUFFICES ASSUME NEW t \in Used', t # s PROVE pool'[desc'[t].pool].exists
      BY <1>2, <1>5
    <3>1. t \in Used /\ t \in Slots /\ desc'[t].pool = desc[t].pool /\ desc[t].pool \in Pools
      BY <1>3, <1>4, <1>6 DEF Used, ObjectDesc
    <3> QED
      BY <3>1, <1>0, <1>5 DEF IInv, LiveListsExact
  <2>2. ASSUME NEW q \in Pools, pool'[q].exists
        PROVE  \E x \in Orders(Members(q)') : LiveChain(q, x)' /\ pool'[q].live = Len(x)
    <3>1. CASE q = p
      BY <3>1, <1>5, <1>9, <1>10, <1>11 DEF Orders
    <3>2. CASE q # p
      BY <3>2, <2>2, <1>12 DEF Orders
    <3> QED
      BY <3>1, <3>2
  <2> QED
    BY <2>1, <2>2, <1>7 DEF LiveListsExact
<1>14. refs'[s] = Aged(refs[s]) \cup {[gen |-> NextGeneration(desc[s].gen), age |-> 0]}
       /\ \A t \in Slots : t # s => refs'[t] = refs[t]
  BY <1>0, <1>2, <1>4
<1>15. desc[s].gen \in 0 .. GenMax /\ NextGeneration(desc[s].gen) \in 1 .. GenMax
  BY <1>2, <1>4, NextGenerationStep DEF ObjectDesc
<1>16. TypeOK'
  <2>1. pool'[p].live \in 0 .. SlotCount
    BY <1>5, <1>9, <1>10, ListShape
  <2>2. pool' \in [Pools -> PoolRecord]
    BY <2>1, <1>0, <1>2, <1>4, <1>5 DEF PoolRecord, Links
  <2>3. count' \in 0 .. SlotCount
    <3>1. Used' \subseteq Slots
      BY DEF Used
    <3> QED
      BY <3>1, <1>0, <1>4, <1>7, SlotsFinite, FS_Subset, SlotCountAssumption
  <2>4. freeHead' \in Links
    BY <1>0, <1>2, <1>4 DEF ObjectDesc
  <2>5. refs' \in [Slots -> SUBSET Reference]
    <3>1. [gen |-> NextGeneration(desc[s].gen), age |-> 0] \in Reference
      BY <1>15, GenMaxAssumption DEF Reference
    <3>2. refs'[s] \in SUBSET Reference
      BY <3>1, <1>2, <1>4, <1>14, AgedRefs
    <3> QED
      BY <3>2, <1>0, <1>4, <1>14
  <2> QED
    BY <2>2, <2>3, <2>4, <2>5, <1>0, <1>2 DEF IInv, TypeOK
<1>17. CallbackSafe'
  <2>1. ASSUME NEW i \in DOMAIN running
        PROVE  /\ desc'[running[i].slot].state = desc[running[i].slot].state
               /\ desc'[running[i].slot].pool = desc[running[i].slot].pool
               /\ pool'[running[i].pool].exists
    <3>1. running[i].slot \in Slots /\ running[i].slot # s /\ running[i].pool \in Pools
      BY RunningTyped, <1>2 DEF IInv, CallbackSafe
    <3> QED
      BY <3>1, <1>3, <1>5 DEF IInv, CallbackSafe
  <2> QED
    BY <2>1, <1>0, CallbackFrame DEF IInv, CallbackSafe
<1>18. Generations'
  <2> SUFFICES ASSUME NEW t \in Slots
               PROVE  /\ desc'[t].state # "Free" => desc'[t].gen # 0
                      /\ refs'[t] # {} => desc'[t].gen # 0
                      /\ \A r \in refs'[t] :
                           r.gen + Moves(t, r)' - desc'[t].gen \in {0, GenMax, 2 * GenMax}
    BY DEF Generations
  <2>1. CASE t # s
    BY <2>1, <1>3, <1>14 DEF IInv, Generations, Moves
  <2>2. CASE t = s
    <3>1. desc'[s].gen \in 1 .. GenMax
      BY <1>2, <1>15
    <3>2. ASSUME NEW r \in Aged(refs[s])
          PROVE  r.gen + 2 * r.age - desc'[s].gen \in {0, GenMax, 2 * GenMax}
      <4>1. PICK q \in refs[s] : r.gen = q.gen /\ r.age = q.age + 1
        BY <1>2, <1>4, AgedRefs
      <4>2. r.gen \in 1 .. GenMax /\ r.age \in 0 .. GenMax - 1 /\ q.age \in Nat /\ q.gen \in Nat
        BY <1>2, <1>4, AgedRefs, GenMaxAssumption DEF Reference
      <4>3. q.gen + 2 * q.age + 1 - desc[s].gen \in {0, GenMax, 2 * GenMax}
        <5>1. q.gen + Moves(s, q) - desc[s].gen \in {0, GenMax, 2 * GenMax}
          BY <1>2 DEF IInv, Generations
        <5>2. Moves(s, q) = 2 * q.age + 1
          BY <1>2 DEF Moves
        <5> QED
          BY <5>1, <5>2, <4>2, <1>15
      <4>4. r.gen + 2 * r.age - desc'[s].gen <= 3 * GenMax - 3
        BY <4>2, <3>1, GenMaxAssumption
      <4>5. CASE desc'[s].gen = desc[s].gen + 1
        BY <4>1, <4>2, <4>3, <4>5, <1>15
      <4>6. CASE desc[s].gen = GenMax /\ desc'[s].gen = 1
        BY <4>1, <4>2, <4>3, <4>4, <4>6, GenMaxAssumption
      <4> QED
        BY <4>5, <4>6, <1>2, <1>15, NextGenerationStep
    <3>3. ASSUME NEW r, r = [gen |-> NextGeneration(desc[s].gen), age |-> 0]
          PROVE  r.gen + 2 * r.age - desc'[s].gen \in {0, GenMax, 2 * GenMax}
      BY <3>3, <3>1, <1>2, GenMaxAssumption
    <3>4. \A r \in refs'[s] : r.gen + 2 * r.age - desc'[s].gen \in {0, GenMax, 2 * GenMax}
      BY <3>2, <3>3, <1>14
    <3>5. ASSUME NEW r \in refs'[s]
          PROVE  Moves(s, r)' = 2 * r.age
      <4>1. r.age \in Nat
        BY <1>2, <1>16, GenMaxAssumption DEF TypeOK, Reference
      <4> QED
        BY <4>1, <1>2 DEF Moves
    <3>6. ASSUME NEW r \in refs'[s]
          PROVE  r.gen + Moves(s, r)' - desc'[s].gen \in {0, GenMax, 2 * GenMax}
      BY <3>4, <3>5
    <3> QED
      BY <3>1, <3>6, <2>2
  <2> QED
    BY <2>1, <2>2
<1>19. DownIsEmpty'
  BY <1>0 DEF DownIsEmpty
<1> QED
  BY <1>8, <1>13, <1>16, <1>17, <1>18, <1>19 DEF IInv

-----------------------------------------------------------------------------
(* free *)

LEMMA CommitEffect ==
  ASSUME IInv, NEW s \in Slots, NEW p \in Pools, Commit(s, p)
  PROVE  /\ desc' \in [Slots -> ObjectDesc]
         /\ desc'[s].state = "Free"
         /\ desc'[s].gen = NextGeneration(desc[s].gen)
         /\ desc'[s].link = freeHead
         /\ \A t \in Slots :
              t # s =>
                /\ desc'[t].state = desc[t].state
                /\ desc'[t].gen = desc[t].gen
                /\ desc'[t].pool = desc[t].pool
                /\ desc'[t].link = desc[t].link
                /\ desc'[t].next = IF t = desc[s].prev THEN desc[s].next ELSE desc[t].next
                /\ desc'[t].prev = IF t = desc[s].next THEN desc[s].prev ELSE desc[t].prev
<1> DEFINE U == Unlinked(s)
           g == NextGeneration(desc[s].gen)
<1>1. desc \in [Slots -> ObjectDesc] /\ freeHead \in Links
  BY DEF IInv, TypeOK
<1>2. ASSUME NEW t \in Slots
      PROVE  /\ U[t] \in ObjectDesc
             /\ U[t].state = desc[t].state
             /\ U[t].gen = desc[t].gen
             /\ U[t].pool = desc[t].pool
             /\ U[t].link = desc[t].link
             /\ U[t].next = IF t = desc[s].prev THEN desc[s].next ELSE desc[t].next
             /\ U[t].prev = IF t = desc[s].next THEN desc[s].prev ELSE desc[t].prev
  <2> DEFINE a == IF t = desc[s].prev THEN desc[s].next ELSE desc[t].next
             b == IF t = desc[s].next THEN desc[s].prev ELSE desc[t].prev
  <2>1. a \in Links /\ b \in Links
    BY <1>1 DEF ObjectDesc
  <2>2. U[t] = [desc[t] EXCEPT !.next = a, !.prev = b]
    BY <1>1 DEF Unlinked, ObjectDesc
  <2> HIDE DEF a, b
  <2> DEFINE c == [desc[t] EXCEPT !.next = a]
  <2>3. /\ c \in ObjectDesc
        /\ c.state = desc[t].state /\ c.gen = desc[t].gen
        /\ c.pool = desc[t].pool /\ c.link = desc[t].link /\ c.next = a
    BY <1>1, <2>1 DEF ObjectDesc
  <2>4. U[t] = [c EXCEPT !.prev = b]
    BY <2>2
  <2> HIDE DEF c
  <2>5. /\ U[t] \in ObjectDesc
        /\ U[t].state = desc[t].state /\ U[t].gen = desc[t].gen
        /\ U[t].pool = desc[t].pool /\ U[t].link = desc[t].link
        /\ U[t].next = a /\ U[t].prev = b
    BY <2>1, <2>3, <2>4 DEF ObjectDesc
  <2> QED
    BY <2>5 DEF a, b
<1>3. U \in [Slots -> ObjectDesc]
  BY <1>2 DEF Unlinked
<1>4. g \in 0 .. GenMax
  BY <1>1, NextGenerationStep, GenMaxAssumption DEF ObjectDesc
<1>5. desc' = [U EXCEPT ![s] = [U[s] EXCEPT !.gen = g, !.state = "Free", !.prev = None,
                                            !.next = None, !.callback = FALSE, !.link = freeHead]]
  BY Zenon DEF Commit
<1> HIDE DEF U, g
<1>6. /\ desc'[s] \in ObjectDesc
      /\ desc'[s].state = "Free" /\ desc'[s].gen = g /\ desc'[s].link = freeHead
  <2>1. desc'[s] = [U[s] EXCEPT !.gen = g, !.state = "Free", !.prev = None,
                                !.next = None, !.callback = FALSE, !.link = freeHead]
    BY <1>3, <1>5
  <2>2. U[s] \in ObjectDesc
    BY <1>3
  <2> DEFINE a == [U[s] EXCEPT !.gen = g, !.state = "Free", !.prev = None]
  <2>3. a \in ObjectDesc /\ a.state = "Free" /\ a.gen = g
    BY <1>1, <1>4, <2>2 DEF ObjectDesc, Links
  <2>4. desc'[s] = [a EXCEPT !.next = None, !.callback = FALSE, !.link = freeHead]
    BY <2>1
  <2> HIDE DEF a
  <2>5. QED BY <1>1, <2>3, <2>4 DEF ObjectDesc, Links
<1>7. \A t \in Slots : t # s => desc'[t] = U[t]
  BY <1>3, <1>5
<1>8. desc' \in [Slots -> ObjectDesc]
  BY <1>3, <1>5, <1>6, <1>7
<1> QED
  BY <1>2, <1>6, <1>7, <1>8 DEF g

(* The mutation phase of free takes a slot out of the middle of its pool's *)
(* list, whatever its callback has done to the neighbours.                 *)
LEMMA CommitSafe ==
  ASSUME IInv, up, NEW s \in Used, NEW p \in Pools, desc[s].pool = p,
         Commit(s, p), UNCHANGED <<up, refs>>,
         running' \in Seq([slot : Slots, pool : Pools]),
         \A i \in DOMAIN running' :
           i \in DOMAIN running /\ running'[i] = running[i] /\ running[i].slot # s
  PROVE  IInv'
<1>1. s \in Slots /\ desc[s].state # "Free"
  BY DEF Used
<1>2. /\ desc' \in [Slots -> ObjectDesc]
      /\ desc'[s].state = "Free"
      /\ desc'[s].gen = NextGeneration(desc[s].gen)
      /\ desc'[s].link = freeHead
  BY <1>1, CommitEffect
<1>3. \A t \in Slots :
        t # s =>
          /\ desc'[t].state = desc[t].state
          /\ desc'[t].gen = desc[t].gen
          /\ desc'[t].pool = desc[t].pool
          /\ desc'[t].link = desc[t].link
          /\ desc'[t].next = IF t = desc[s].prev THEN desc[s].next ELSE desc[t].next
          /\ desc'[t].prev = IF t = desc[s].next THEN desc[s].prev ELSE desc[t].prev
  BY <1>1, CommitEffect
<1>4. /\ pool \in [Pools -> PoolRecord] /\ desc \in [Slots -> ObjectDesc]
      /\ refs \in [Slots -> SUBSET Reference] /\ count \in Nat /\ freeHead \in Links
  BY SlotCountAssumption DEF IInv, TypeOK
<1>5. /\ pool[p].exists /\ pool'[p].exists
      /\ pool'[p].head = IF desc[s].prev = None THEN desc[s].next ELSE pool[p].head
      /\ pool'[p].live = pool[p].live - 1
      /\ \A q \in Pools : q # p => pool'[q] = pool[q]
  BY <1>4 DEF Commit, PoolRecord, IInv, LiveListsExact
<1>6. /\ Used' = Used \ {s}
      /\ Members(p)' = Members(p) \ {s} /\ s \in Members(p)
      /\ \A q \in Pools : q # p => Members(q)' = Members(q)
  BY <1>1, <1>2, <1>3 DEF Used, Members
<1>7. count' = Cardinality(Used') /\ freeHead' = s /\ count' = count - 1
  BY <1>6, UsedFinite, FS_RemoveElement DEF IInv, LiveListsExact, Commit
<1>8. FreeListExact'
  <2>1. PICK w \in Lists : On(w) = Slots \ Used /\ FreeChain(w)
    BY DEF IInv, FreeListExact, Orders
  <2> DEFINE v == Cons(s, w)
  <2>2. v \in Lists /\ On(v) = Slots \ Used'
    BY <2>1, <1>1, <1>6, ConsList
  <2>3. Len(w) \in Nat /\ DOMAIN w = 1 .. Len(w) /\ DOMAIN v = 1 .. Len(w) + 1
        /\ v[1] = s /\ \A i \in 2 .. Len(w) + 1 : v[i] = w[i - 1]
    BY ListShape, SlotCountAssumption DEF Cons
  <2> HIDE DEF v
  <2>4. freeHead = At(w, 1) /\ \A i \in DOMAIN w : desc[w[i]].link = At(w, i + 1)
    BY <2>1 DEF FreeChain
  <2>5. ASSUME NEW i \in DOMAIN v
        PROVE  desc'[v[i]].link = At(v, i + 1)
    <3>1. CASE i = 1
      BY <3>1, <2>3, <2>4, <1>2 DEF At
    <3>2. CASE i # 1
      <4> DEFINE j == i - 1
      <4>1. j \in 1 .. Len(w) /\ v[i] = w[j] /\ i = j + 1
        BY <3>2, <2>3
      <4>2. w[j] \in Slots /\ w[j] # s
        BY <4>1, <2>1, <2>3 DEF On, Used
      <4>3. desc'[w[j]].link = At(w, j + 1)
        BY <4>1, <4>2, <2>3, <2>4, <1>3
      <4> QED
        BY <4>1, <4>3, <2>3 DEF At
    <3> QED
      BY <3>1, <3>2
  <2>6. freeHead' = At(v, 1)
    BY <2>3, <1>7 DEF At
  <2> QED
    BY <2>2, <2>5, <2>6 DEF FreeListExact, FreeChain, Orders
<1>9. PICK w \in Lists : On(w) = Members(p) /\ LiveChain(p, w) /\ pool[p].live = Len(w)
  BY <1>5, LiveList
<1>10. PICK k \in 1 .. Len(w) : w[k] = s
  BY <1>6, <1>9, ListShape DEF On
<1>11. /\ Len(w) \in Nat /\ DOMAIN w = 1 .. Len(w)
       /\ \A i, j \in 1 .. Len(w) : w[i] = w[j] => i = j
       /\ \A i \in 1 .. Len(w) : w[i] \in Slots /\ w[i] # None
  BY ListShape, NoneIsNoSlot, SlotCountAssumption
<1>12. /\ pool[p].head = At(w, 1)
       /\ \A i \in 1 .. Len(w) : desc[w[i]].next = At(w, i + 1) /\ desc[w[i]].prev = At(w, i - 1)
       /\ desc[s].next = At(w, k + 1) /\ desc[s].prev = At(w, k - 1)
  BY <1>9, <1>10, <1>11 DEF LiveChain
<1> DEFINE v == Cut(w, k)
<1>13. v \in Lists /\ Len(v) = Len(w) - 1 /\ On(v) = Members(p)'
  BY <1>6, <1>9, <1>10, CutList
<1>14. /\ DOMAIN v = 1 .. Len(w) - 1
       /\ \A i \in 1 .. Len(w) - 1 : v[i] = IF i < k THEN w[i] ELSE w[i + 1]
  BY <1>11 DEF Cut
<1> HIDE DEF v
<1>15. LiveChain(p, v)'
  <2>1. pool'[p].head = At(v, 1)
    <3>1. CASE k = 1
      BY <3>1, <1>5, <1>11, <1>12, <1>14 DEF At
    <3>2. CASE k # 1
      <4>1. k - 1 \in 1 .. Len(w) /\ 1 \in 1 .. Len(w) - 1 /\ 1 < k
        BY <3>2, <1>10, <1>11
      <4> QED
        BY <4>1, <1>5, <1>11, <1>12, <1>14 DEF At
    <3> QED
      BY <3>1, <3>2
  <2>2. ASSUME NEW j \in 1 .. Len(w), j # k
        PROVE  /\ desc'[w[j]].next = IF j = k - 1 THEN At(w, k + 1) ELSE At(w, j + 1)
               /\ desc'[w[j]].prev = IF j = k + 1 THEN At(w, k - 1) ELSE At(w, j - 1)
    <3>1. w[j] \in Slots /\ w[j] # s
      BY <2>2, <1>10, <1>11
    <3>2. w[j] = desc[s].prev <=> j = k - 1
      BY <1>11, <1>12 DEF At
    <3>3. w[j] = desc[s].next <=> j = k + 1
      BY <1>11, <1>12 DEF At
    <3> QED
      BY <3>1, <3>2, <3>3, <1>3, <1>12
  <2>3. ASSUME NEW i \in DOMAIN v
        PROVE  desc'[v[i]].next = At(v, i + 1) /\ desc'[v[i]].prev = At(v, i - 1)
    <3>1. CASE i < k
      <4>1. i \in 1 .. Len(w) /\ v[i] = w[i] /\ i # k
        BY <3>1, <1>11, <1>14
      <4>2. At(v, i - 1) = At(w, i - 1)
        BY <3>1, <1>10, <1>11, <1>14 DEF At
      <4>3. At(v, i + 1) = IF i = k - 1 THEN At(w, k + 1) ELSE At(w, i + 1)
        BY <3>1, <1>10, <1>11, <1>14 DEF At
      <4> QED
        BY <3>1, <4>1, <4>2, <4>3, <2>2, <1>10
    <3>2. CASE i >= k
      <4> DEFINE j == i + 1
      <4>1. j \in 1 .. Len(w) /\ v[i] = w[j] /\ j # k /\ j # k - 1 /\ i \in Int
        BY <3>2, <1>10, <1>11, <1>14
      <4>2. At(v, i + 1) = At(w, j + 1)
        BY <3>2, <1>10, <1>11, <1>14 DEF At
      <4>3. At(v, i - 1) = IF j = k + 1 THEN At(w, k - 1) ELSE At(w, j - 1)
        BY <3>2, <1>10, <1>11, <1>14 DEF At
      <4> QED
        BY <4>1, <4>2, <4>3, <2>2
    <3> QED
      BY <3>1, <3>2, <1>10, <1>14
  <2> QED
    BY <2>1, <2>3 DEF LiveChain
<1>16. ASSUME NEW q \in Pools, q # p, pool'[q].exists
       PROVE  \E x \in Lists : On(x) = Members(q)' /\ LiveChain(q, x)' /\ pool'[q].live = Len(x)
  <2>1. PICK x \in Lists : On(x) = Members(q) /\ LiveChain(q, x) /\ pool[q].live = Len(x)
    BY <1>5, <1>16, LiveList
  <2>2. ASSUME NEW t \in On(x)
        PROVE  desc'[t].next = desc[t].next /\ desc'[t].prev = desc[t].prev
    <3>1. t \in Slots /\ t # s /\ t \notin On(w) /\ t # None
      BY <2>1, <1>6, <1>9, <1>16, NoneIsNoSlot DEF Members, Used
    <3>2. t # desc[s].prev /\ t # desc[s].next
      BY <3>1, <1>12 DEF At, On
    <3> QED
      BY <3>1, <3>2, <1>3
  <2>3. LiveChain(q, x)'
    BY <2>1, <2>2, <1>5, <1>16, ChainFrame
  <2> QED
    BY <2>1, <2>3, <1>5, <1>6, <1>16
<1>17. LiveListsExact'
  <2>1. \A t \in Used' : pool'[desc'[t].pool].exists
    <3> SUFFICES ASSUME NEW t \in Used' PROVE pool'[desc'[t].pool].exists
      OBVIOUS
    <3>1. t \in Used /\ desc'[t].pool = desc[t].pool /\ desc[t].pool \in Pools
      BY <1>3, <1>4, <1>6 DEF Used, ObjectDesc
    <3> QED
      BY <3>1, <1>5 DEF IInv, LiveListsExact
  <2>2. ASSUME NEW q \in Pools, pool'[q].exists
        PROVE  \E x \in Orders(Members(q)') : LiveChain(q, x)' /\ pool'[q].live = Len(x)
    <3>1. CASE q = p
      BY <3>1, <1>5, <1>9, <1>13, <1>15 DEF Orders
    <3>2. CASE q # p
      BY <3>2, <2>2, <1>16 DEF Orders
    <3> QED
      BY <3>1, <3>2
  <2> QED
    BY <2>1, <2>2, <1>7 DEF LiveListsExact
<1>18. TypeOK'
  <2>1. pool'[p].head \in Links
    BY <1>1, <1>4, <1>5 DEF ObjectDesc, PoolRecord
  <2>2. pool'[p].live \in 0 .. SlotCount
    BY <1>5, <1>9, <1>13, ListShape
  <2>4. pool' \in [Pools -> PoolRecord]
    <3>1. pool' = [pool EXCEPT ![p] = [@ EXCEPT !.head = pool'[p].head, !.live = pool'[p].live]]
      BY <1>4, <1>5 DEF Commit, PoolRecord
    <3> QED
      <4>1. pool[p] \in PoolRecord
        BY <1>4
      <4>2. [pool[p] EXCEPT !.head = pool'[p].head, !.live = pool'[p].live] \in PoolRecord
        BY <4>1, <2>1, <2>2 DEF PoolRecord
      <4> QED
        BY <3>1, <4>2, <1>4
  <2>3. count' \in 0 .. SlotCount
    <3>1. Used' \subseteq Slots
      BY DEF Used
    <3>2. Cardinality(Used') \in Nat /\ Cardinality(Used') <= SlotCount
      BY <3>1, SlotsFinite, FS_Subset, FS_CardinalityType
    <3> QED
      BY <3>2, <1>7, SlotCountAssumption
  <2> QED
    BY <2>3, <2>4, <1>1, <1>2, <1>7 DEF IInv, TypeOK, Links
<1>19. CallbackSafe'
  <2>1. ASSUME NEW i \in DOMAIN running'
        PROVE  /\ desc'[running'[i].slot].state = "Destroying"
               /\ desc'[running'[i].slot].pool = running'[i].pool
               /\ pool'[running'[i].pool].exists
    <3>1. i \in DOMAIN running /\ running'[i] = running[i]
          /\ running[i].slot \in Slots /\ running[i].slot # s /\ running[i].pool \in Pools
      BY RunningTyped DEF IInv
    <3> QED
      BY <3>1, <1>3, <1>5 DEF IInv, CallbackSafe
  <2>2. \A i, j \in DOMAIN running' : running'[i].slot = running'[j].slot => i = j
    BY DEF IInv, CallbackSafe
  <2> QED
    BY <2>1, <2>2 DEF CallbackSafe
<1>20. Generations'
  <2>1. desc[s].gen \in 0 .. GenMax /\ desc'[s].gen \in 1 .. GenMax
        /\ \/ desc'[s].gen = desc[s].gen + 1
           \/ desc[s].gen = GenMax /\ desc'[s].gen = 1
    BY <1>1, <1>2, <1>4, NextGenerationStep DEF ObjectDesc
  <2>2. ASSUME NEW r \in refs[s]
        PROVE  r.gen + Moves(s, r)' - desc'[s].gen \in {0, GenMax, 2 * GenMax}
    <3>1. r.gen \in 1 .. GenMax /\ r.age \in 0 .. GenMax - 1
      BY <1>1, <1>4 DEF Reference
    <3>2. r.gen + Moves(s, r) - desc[s].gen \in {0, GenMax, 2 * GenMax}
      BY <1>1 DEF IInv, Generations
    <3>3. Moves(s, r) = 2 * r.age /\ Moves(s, r)' = 2 * r.age + 1
      BY <3>1, <1>1, <1>2, GenMaxAssumption DEF Moves
    <3>4. 2 * r.age \in 0 .. 2 * GenMax - 2
      BY <3>1, GenMaxAssumption
    <3>5. r.gen + (2 * r.age + 1) - desc'[s].gen \in {0, GenMax, 2 * GenMax}
      BY <3>1, <3>2, <3>3, <3>4, <2>1, EquationStep
    <3> QED
      BY <3>3, <3>5
  <2>3. ASSUME NEW t \in Slots
        PROVE  /\ desc'[t].state # "Free" => desc'[t].gen # 0
               /\ refs'[t] # {} => desc'[t].gen # 0
               /\ \A r \in refs'[t] :
                    r.gen + Moves(t, r)' - desc'[t].gen \in {0, GenMax, 2 * GenMax}
    <3>1. CASE t = s
      BY <3>1, <2>1, <2>2
    <3>2. CASE t # s
      BY <3>2, <1>3 DEF IInv, Generations, Moves
    <3> QED
      BY <3>1, <3>2
  <2> QED
    BY <2>3 DEF Generations
<1>21. DownIsEmpty'
  BY DEF DownIsEmpty
<1> QED
  BY <1>8, <1>17, <1>18, <1>19, <1>20, <1>21 DEF IInv

LEMMA FreePlainSafe == ASSUME NEW s \in Slots PROVE IInv /\ FreePlain(s) => IInv'
<1> SUFFICES ASSUME IInv, FreePlain(s) PROVE IInv'
  OBVIOUS
<1>1. /\ up /\ desc[s].state = "Live" /\ s \in Used /\ desc[s].pool \in Pools
      /\ Commit(s, desc[s].pool) /\ UNCHANGED <<up, running, refs>>
  BY DEF FreePlain, NamesLive, Used, IInv, TypeOK, ObjectDesc
<1>2. \A i \in DOMAIN running : running[i].slot # s
  BY <1>1 DEF IInv, CallbackSafe
<1>3. running' \in Seq([slot : Slots, pool : Pools])
  BY <1>1 DEF IInv, TypeOK
<1> QED
  BY <1>1, <1>2, <1>3, CommitSafe

LEMMA CallbackReturnsSafe == IInv /\ CallbackReturns => IInv'
<1> SUFFICES ASSUME IInv, CallbackReturns PROVE IInv'
  OBVIOUS
<1> DEFINE n == Len(running)
           call == running[n]
<1>1. /\ running \in Seq([slot : Slots, pool : Pools])
      /\ n \in Nat \ {0} /\ DOMAIN running = 1 .. n
  BY EmptySeq, LenProperties DEF IInv, TypeOK, CallbackReturns
<1> HIDE DEF n
<1>2. n \in DOMAIN running
  BY <1>1
<1>3. /\ call.slot \in Slots /\ call.pool \in Pools
      /\ desc[call.slot].state = "Destroying" /\ desc[call.slot].pool = call.pool
      /\ up
  BY <1>2, RunningTyped DEF IInv, CallbackSafe, CallbackReturns
<1>4. Commit(call.slot, call.pool) /\ UNCHANGED <<up, refs>>
  BY <1>3 DEF CallbackReturns, n
<1>5. /\ running' \in Seq([slot : Slots, pool : Pools])
      /\ DOMAIN running' = 1 .. n - 1
      /\ \A i \in 1 .. n - 1 : running'[i] = running[i]
  <2>1. \A i \in 1 .. n - 1 : running[i] \in [slot : Slots, pool : Pools]
    <3> SUFFICES ASSUME NEW i \in 1 .. n - 1
                 PROVE  running[i] \in [slot : Slots, pool : Pools]
      OBVIOUS
    <3>1. i \in 1 .. Len(running)
      BY <1>1 DEF n
    <3> QED
      BY <3>1, <1>1, ElementOfSeq
  <2>2. running' = SubSeq(running, 1, n - 1)
    BY DEF CallbackReturns, n
  <2>3. /\ running' \in Seq([slot : Slots, pool : Pools])
        /\ Len(running') = n - 1
        /\ \A i \in 1 .. n - 1 : running'[i] = running[i]
    BY <2>1, <2>2, <1>1, SubSeqProperties
  <2> QED
    BY <2>3, LenProperties
<1>6. \A i \in DOMAIN running' :
        i \in DOMAIN running /\ running'[i] = running[i] /\ running[i].slot # call.slot
  <2> SUFFICES ASSUME NEW i \in 1 .. n - 1
               PROVE  i \in DOMAIN running /\ running[i].slot # call.slot
    BY <1>5
  <2>1. i \in DOMAIN running /\ i # n
    BY <1>1
  <2> QED
    BY <2>1, <1>2 DEF IInv, CallbackSafe
<1>7. call.slot \in Used
  BY <1>3 DEF Used
<1> QED
  BY <1>3, <1>4, <1>5, <1>6, <1>7, CommitSafe

-----------------------------------------------------------------------------
(* merge and split *)

LEMMA LinkedIs ==
  ASSUME IInv, NEW p \in Pools, NEW w \in Lists, NEW k \in 1 .. Len(w)
  PROVE  LET d == Linked(w, p)[w[k]]
         IN  /\ d \in ObjectDesc
             /\ d.state = desc[w[k]].state /\ d.gen = desc[w[k]].gen
             /\ d.link = desc[w[k]].link /\ d.pool = p
             /\ d.prev = At(w, k - 1) /\ d.next = At(w, k + 1)
<1> DEFINE a == At(w, k - 1)
           b == At(w, k + 1)
<1>1. /\ DOMAIN w = 1 .. Len(w) /\ w[k] \in Slots /\ w[k] \in On(w)
      /\ \A i \in 1 .. Len(w) : w[i] = w[k] => i = k
      /\ \A i \in 1 .. Len(w) : w[i] \in Slots
  BY ListShape DEF On
<1>2. (CHOOSE i \in DOMAIN w : w[i] = w[k]) = k
  BY <1>1
<1>3. a \in Links /\ b \in Links
  BY <1>1 DEF At, Links
<1>4. desc[w[k]] \in ObjectDesc
  BY <1>1 DEF IInv, TypeOK
<1>5. Linked(w, p)[w[k]] = [desc[w[k]] EXCEPT !.pool = p, !.prev = a, !.next = b]
  BY <1>1, <1>2 DEF Linked
<1> HIDE DEF a, b
<1>6. /\ Linked(w, p)[w[k]] \in ObjectDesc
      /\ Linked(w, p)[w[k]].state = desc[w[k]].state /\ Linked(w, p)[w[k]].gen = desc[w[k]].gen
      /\ Linked(w, p)[w[k]].link = desc[w[k]].link /\ Linked(w, p)[w[k]].pool = p
      /\ Linked(w, p)[w[k]].prev = a /\ Linked(w, p)[w[k]].next = b
  BY <1>3, <1>4, <1>5 DEF ObjectDesc
<1> QED
  BY <1>6 DEF a, b

LEMMA LinkedFields ==
  ASSUME IInv, NEW p \in Pools, NEW w \in Lists, NEW t \in On(w)
  PROVE  /\ Linked(w, p)[t] \in ObjectDesc
         /\ Linked(w, p)[t].state = desc[t].state /\ Linked(w, p)[t].gen = desc[t].gen
         /\ Linked(w, p)[t].link = desc[t].link /\ Linked(w, p)[t].pool = p
<1>1. PICK k \in 1 .. Len(w) : w[k] = t
  BY ListShape DEF On
<1> QED
  BY <1>1, LinkedIs

(* Relinking along w makes w the list of the pool. *)
LEMMA RelinkedChain ==
  ASSUME IInv, NEW p \in Pools, NEW w \in Lists, pool'[p].head = At(w, 1),
         \A t \in On(w) : desc'[t] = Linked(w, p)[t]
  PROVE  LiveChain(p, w)'
<1>1. DOMAIN w = 1 .. Len(w)
  BY ListShape
<1>2. ASSUME NEW i \in DOMAIN w
      PROVE  desc'[w[i]].next = At(w, i + 1) /\ desc'[w[i]].prev = At(w, i - 1)
  <2>1. desc'[w[i]] = Linked(w, p)[w[i]]
    BY DEF On
  <2> QED
    BY <2>1, <1>1, LinkedIs
<1> QED
  BY <1>2 DEF LiveChain

LEMMA RelinkFrame ==
  ASSUME IInv, up, UNCHANGED <<up, freeHead, count, running, refs>>,
         \A t \in Slots : /\ desc'[t].state = desc[t].state
                          /\ desc'[t].gen = desc[t].gen
                          /\ desc'[t].link = desc[t].link
  PROVE  /\ Used' = Used /\ count' = Cardinality(Used')
         /\ DownIsEmpty' /\ FreeListExact' /\ Generations'
<1>1. Used' = Used
  BY DEF Used
<1>2. count' = Cardinality(Used')
  BY <1>1 DEF IInv, LiveListsExact
<1>3. FreeListExact'
  <2>1. PICK w \in Orders(Slots \ Used) : FreeChain(w)
    BY DEF IInv, FreeListExact
  <2>2. FreeChain(w)'
    BY <2>1, FreeFrame, ListLength DEF Orders
  <2> QED
    BY <2>1, <2>2, <1>1 DEF FreeListExact
<1>4. Generations'
  BY DEF IInv, Generations, Moves
<1>5. DownIsEmpty'
  BY DEF DownIsEmpty
<1> QED
  BY <1>1, <1>2, <1>3, <1>4, <1>5

(* A free under way has a slot among the members of its pool, so a pool    *)
(* that passes the audit is not the pool of one.                           *)
LEMMA AuditedHasNoCallback ==
  ASSUME IInv, up, NEW p \in Pools, pool[p].exists, NEW v \in Collect(p),
         NEW i \in DOMAIN running
  PROVE  running[i].pool # p /\ running[i].slot \notin Members(p)
  BY CollectIsComplete, RunningTyped DEF IInv, CallbackSafe, Members, Used

LEMMA MergeSafe ==
  ASSUME NEW tgt \in Pools, NEW src \in Pools
  PROVE  IInv /\ Merge(tgt, src) => IInv'
<1> SUFFICES ASSUME IInv, Merge(tgt, src) PROVE IInv'
  OBVIOUS
<1>0. /\ up /\ tgt # src /\ pool[tgt].exists /\ pool[src].exists
      /\ UNCHANGED <<up, freeHead, count, running, refs>>
  BY DEF Merge
<1>1. PICK v \in Collect(tgt), u \in Collect(src) :
        \E w \in Orders(On(v) \cup On(u)) :
          /\ desc' = [t \in Slots |-> IF t \in On(w) THEN Linked(w, tgt)[t] ELSE desc[t]]
          /\ pool' = [pool EXCEPT ![tgt].head = At(w, 1), ![tgt].live = Len(w),
                                  ![src] = EmptyPool]
  BY DEF Merge
<1>2. PICK w \in Orders(On(v) \cup On(u)) :
        /\ desc' = [t \in Slots |-> IF t \in On(w) THEN Linked(w, tgt)[t] ELSE desc[t]]
        /\ pool' = [pool EXCEPT ![tgt].head = At(w, 1), ![tgt].live = Len(w),
                                ![src] = EmptyPool]
  BY <1>1
<1>3. w \in Lists /\ On(w) = Members(tgt) \cup Members(src) /\ On(w) \subseteq Slots
  BY <1>0, <1>2, CollectIsComplete, ListLength DEF Orders
<1>4. pool \in [Pools -> PoolRecord] /\ desc \in [Slots -> ObjectDesc]
  BY DEF IInv, TypeOK
<1>5. /\ pool'[tgt].exists /\ pool'[tgt].head = At(w, 1) /\ pool'[tgt].live = Len(w)
      /\ ~pool'[src].exists
      /\ \A q \in Pools : q # tgt /\ q # src => pool'[q] = pool[q]
  BY <1>0, <1>2, <1>4 DEF PoolRecord, EmptyPool
<1>6. \A t \in On(w) : desc'[t] = Linked(w, tgt)[t]
  BY <1>2, <1>3
<1>7. \A t \in Slots : t \notin On(w) => desc'[t] = desc[t]
  BY <1>2
<1>8. \A t \in Slots : /\ desc'[t] \in ObjectDesc
                       /\ desc'[t].state = desc[t].state
                       /\ desc'[t].gen = desc[t].gen
                       /\ desc'[t].link = desc[t].link
                       /\ desc'[t].pool = IF t \in On(w) THEN tgt ELSE desc[t].pool
  BY <1>3, <1>4, <1>6, <1>7, LinkedFields
<1>9. /\ Used' = Used /\ count' = Cardinality(Used')
      /\ DownIsEmpty' /\ FreeListExact' /\ Generations'
  BY <1>0, <1>8, RelinkFrame
<1>10. /\ Members(tgt)' = On(w)
       /\ \A q \in Pools : q # tgt /\ q # src => Members(q)' = Members(q) /\ Members(q) \cap On(w) = {}
  BY <1>0, <1>3, <1>8, <1>9 DEF Members, Used
<1>11. TypeOK'
  <2>1. At(w, 1) \in Links /\ Len(w) \in 0 .. SlotCount
    BY <1>3, ListShape DEF At, Links
  <2>2. pool' \in [Pools -> PoolRecord]
    BY <2>1, <1>2, <1>4, ZeroTyped DEF PoolRecord
  <2>3. desc' \in [Slots -> ObjectDesc]
    BY <1>2, <1>8
  <2> QED
    BY <2>2, <2>3, <1>0 DEF IInv, TypeOK
<1>12. LiveListsExact'
  <2>1. \A t \in Used' : pool'[desc'[t].pool].exists
    <3> SUFFICES ASSUME NEW t \in Used PROVE pool'[desc'[t].pool].exists
      BY <1>9
    <3>1. t \in Slots /\ desc[t].pool \in Pools /\ pool[desc[t].pool].exists
      BY <1>0, <1>4 DEF IInv, LiveListsExact, Used, ObjectDesc
    <3>2. t \notin On(w) => desc[t].pool # tgt /\ desc[t].pool # src
      BY <1>3 DEF Members
    <3> QED
      BY <3>1, <3>2, <1>5, <1>8
  <2>2. ASSUME NEW q \in Pools, pool'[q].exists
        PROVE  \E x \in Orders(Members(q)') : LiveChain(q, x)' /\ pool'[q].live = Len(x)
    <3>1. CASE q = tgt
      BY <3>1, <1>3, <1>5, <1>6, <1>10, RelinkedChain DEF Orders
    <3>2. CASE q # tgt
      <4>1. q # src /\ pool'[q] = pool[q]
        BY <3>2, <2>2, <1>5
      <4>2. PICK x \in Lists : On(x) = Members(q) /\ LiveChain(q, x) /\ pool[q].live = Len(x)
        BY <2>2, <4>1, <1>0, LiveList
      <4>3. \A t \in On(x) : desc'[t] = desc[t]
        BY <3>2, <4>1, <4>2, <1>7, <1>10, ListLength
      <4>4. LiveChain(q, x)'
        BY <4>1, <4>2, <4>3, ChainFrame
      <4> QED
        BY <3>2, <4>1, <4>2, <4>4, <1>10 DEF Orders
    <3> QED
      BY <3>1, <3>2
  <2> QED
    BY <2>1, <2>2, <1>9 DEF LiveListsExact
<1>13. CallbackSafe'
  <2>1. ASSUME NEW i \in DOMAIN running
        PROVE  /\ desc'[running[i].slot].state = desc[running[i].slot].state
               /\ desc'[running[i].slot].pool = desc[running[i].slot].pool
               /\ pool'[running[i].pool].exists
    <3>1. running[i].slot \in Slots /\ running[i].pool \in Pools
      BY RunningTyped DEF IInv
    <3>2. running[i].slot \notin On(w) /\ running[i].pool # tgt /\ running[i].pool # src
      BY <1>0, <1>3, AuditedHasNoCallback
    <3> QED
      BY <3>1, <3>2, <1>5, <1>7 DEF IInv, CallbackSafe
  <2> QED
    BY <2>1, <1>0, CallbackFrame DEF IInv, CallbackSafe
<1> QED
  BY <1>9, <1>11, <1>12, <1>13 DEF IInv

LEMMA SplitSafe ==
  ASSUME NEW src \in Pools, NEW new \in Pools
  PROVE  IInv /\ Split(src, new) => IInv'
<1> SUFFICES ASSUME IInv, Split(src, new) PROVE IInv'
  OBVIOUS
<1>0. /\ up /\ src # new /\ pool[src].exists /\ ~pool[new].exists
      /\ UNCHANGED <<up, freeHead, count, running, refs>>
  BY DEF Split, FirstEmpty
<1>1. PICK w \in Collect(src) : \E above \in SUBSET On(w) :
        \E v \in Orders(above), u \in Orders(On(w) \ above) :
          /\ desc' = [t \in Slots |-> IF t \in On(v) THEN Linked(v, new)[t]
                                      ELSE IF t \in On(u) THEN Linked(u, src)[t]
                                      ELSE desc[t]]
          /\ pool' = [pool EXCEPT
                        ![src].head = At(u, 1), ![src].live = @ - Len(v),
                        ![new] = [exists |-> TRUE, head |-> At(v, 1), live |-> Len(v)]]
  BY DEF Split
<1>1a. PICK above \in SUBSET On(w) :
        \E v \in Orders(above), u \in Orders(On(w) \ above) :
          /\ desc' = [t \in Slots |-> IF t \in On(v) THEN Linked(v, new)[t]
                                      ELSE IF t \in On(u) THEN Linked(u, src)[t]
                                      ELSE desc[t]]
          /\ pool' = [pool EXCEPT
                        ![src].head = At(u, 1), ![src].live = @ - Len(v),
                        ![new] = [exists |-> TRUE, head |-> At(v, 1), live |-> Len(v)]]
  BY <1>1
<1>2. PICK v \in Orders(above), u \in Orders(On(w) \ above) :
        /\ desc' = [t \in Slots |-> IF t \in On(v) THEN Linked(v, new)[t]
                                    ELSE IF t \in On(u) THEN Linked(u, src)[t]
                                    ELSE desc[t]]
        /\ pool' = [pool EXCEPT
                      ![src].head = At(u, 1), ![src].live = @ - Len(v),
                      ![new] = [exists |-> TRUE, head |-> At(v, 1), live |-> Len(v)]]
  BY <1>1a
<1>3. /\ w \in Lists /\ On(w) = Members(src) /\ Len(w) = pool[src].live
      /\ v \in Lists /\ u \in Lists /\ On(w) \subseteq Slots
      /\ On(v) \cup On(u) = On(w) /\ On(v) \cap On(u) = {}
  BY <1>0, CollectIsComplete, ListLength DEF Orders, Collect
<1>4. pool \in [Pools -> PoolRecord] /\ desc \in [Slots -> ObjectDesc]
  BY DEF IInv, TypeOK
<1>5. Len(u) = pool[src].live - Len(v)
  <2>1. /\ IsFiniteSet(On(v)) /\ Cardinality(On(v)) = Len(v)
        /\ IsFiniteSet(On(u)) /\ Cardinality(On(u)) = Len(u)
        /\ Cardinality(On(w)) = Len(w)
        /\ Len(v) \in Nat /\ Len(u) \in Nat
    BY <1>3, ListLength, ListShape
  <2>2. Cardinality(On(v) \cup On(u))
          = Cardinality(On(v)) + Cardinality(On(u)) - Cardinality(On(v) \cap On(u))
    BY <2>1, FS_Union
  <2>3. Cardinality(On(v) \cap On(u)) = 0
    BY <1>3, FS_EmptySet
  <2>4. Cardinality(On(v) \cup On(u)) = Len(w)
    BY <2>1, <1>3
  <2>5. Len(w) = Len(v) + Len(u)
    BY <2>1, <2>2, <2>3, <2>4
  <2> QED
    BY <2>1, <2>5, <1>3
<1>6. /\ pool'[src].exists /\ pool'[src].head = At(u, 1) /\ pool'[src].live = Len(u)
      /\ pool'[new].exists /\ pool'[new].head = At(v, 1) /\ pool'[new].live = Len(v)
      /\ \A q \in Pools : q # src /\ q # new => pool'[q] = pool[q]
  BY <1>0, <1>2, <1>4, <1>5 DEF PoolRecord
<1>7. /\ \A t \in On(v) : desc'[t] = Linked(v, new)[t]
      /\ \A t \in On(u) : desc'[t] = Linked(u, src)[t]
      /\ \A t \in Slots : t \notin On(w) => desc'[t] = desc[t]
  BY <1>2, <1>3
<1>8. \A t \in Slots : /\ desc'[t] \in ObjectDesc
                       /\ desc'[t].state = desc[t].state
                       /\ desc'[t].gen = desc[t].gen
                       /\ desc'[t].link = desc[t].link
                       /\ desc'[t].pool = IF t \in On(v) THEN new
                                          ELSE IF t \in On(u) THEN src ELSE desc[t].pool
  BY <1>3, <1>4, <1>7, LinkedFields
<1>9. /\ Used' = Used /\ count' = Cardinality(Used')
      /\ DownIsEmpty' /\ FreeListExact' /\ Generations'
  BY <1>0, <1>8, RelinkFrame
<1>10. Members(new) = {}
  BY <1>0 DEF Members, IInv, LiveListsExact
<1>11. /\ Members(new)' = On(v) /\ Members(src)' = On(u)
       /\ \A q \in Pools : q # src /\ q # new =>
            Members(q)' = Members(q) /\ Members(q) \cap On(w) = {}
  BY <1>0, <1>3, <1>8, <1>9, <1>10 DEF Members, Used
<1>12. TypeOK'
  <2>1. /\ At(v, 1) \in Links /\ Len(v) \in 0 .. SlotCount
        /\ At(u, 1) \in Links /\ Len(u) \in 0 .. SlotCount
    BY <1>3, ListShape DEF At, Links
  <2>2. pool' \in [Pools -> PoolRecord]
    BY <2>1, <1>0, <1>2, <1>4, <1>5 DEF PoolRecord
  <2>3. desc' \in [Slots -> ObjectDesc]
    BY <1>2, <1>8
  <2> QED
    BY <2>2, <2>3, <1>0 DEF IInv, TypeOK
<1>13. LiveListsExact'
  <2>1. \A t \in Used' : pool'[desc'[t].pool].exists
    <3> SUFFICES ASSUME NEW t \in Used PROVE pool'[desc'[t].pool].exists
      BY <1>9
    <3>1. t \in Slots /\ desc[t].pool \in Pools /\ pool[desc[t].pool].exists
      BY <1>0, <1>4 DEF IInv, LiveListsExact, Used, ObjectDesc
    <3> QED
      BY <3>1, <1>6, <1>8
  <2>2. ASSUME NEW q \in Pools, pool'[q].exists
        PROVE  \E x \in Orders(Members(q)') : LiveChain(q, x)' /\ pool'[q].live = Len(x)
    <3>1. CASE q = new
      BY <3>1, <1>3, <1>6, <1>7, <1>11, RelinkedChain DEF Orders
    <3>2. CASE q = src
      BY <3>2, <1>3, <1>6, <1>7, <1>11, RelinkedChain DEF Orders
    <3>3. CASE q # src /\ q # new
      <4>1. pool'[q] = pool[q]
        BY <3>3, <1>6
      <4>2. PICK x \in Lists : On(x) = Members(q) /\ LiveChain(q, x) /\ pool[q].live = Len(x)
        BY <2>2, <4>1, <1>0, LiveList
      <4>3. \A t \in On(x) : desc'[t] = desc[t]
        BY <3>3, <4>2, <1>7, <1>11, ListLength
      <4>4. LiveChain(q, x)'
        BY <4>1, <4>2, <4>3, ChainFrame
      <4> QED
        BY <3>3, <4>1, <4>2, <4>4, <1>11 DEF Orders
    <3> QED
      BY <3>1, <3>2, <3>3
  <2> QED
    BY <2>1, <2>2, <1>9 DEF LiveListsExact
<1>14. CallbackSafe'
  <2>1. ASSUME NEW i \in DOMAIN running
        PROVE  /\ desc'[running[i].slot].state = desc[running[i].slot].state
               /\ desc'[running[i].slot].pool = desc[running[i].slot].pool
               /\ pool'[running[i].pool].exists
    <3>1. /\ running[i].slot \in Slots /\ running[i].pool \in Pools
          /\ pool[running[i].pool].exists
      BY RunningTyped DEF IInv, CallbackSafe
    <3>2. running[i].slot \notin On(w)
      BY <1>0, <1>3, AuditedHasNoCallback
    <3> QED
      BY <3>1, <3>2, <1>6, <1>7
  <2> QED
    BY <2>1, <1>0, CallbackFrame DEF IInv, CallbackSafe
<1> QED
  BY <1>9, <1>12, <1>13, <1>14 DEF IInv

-----------------------------------------------------------------------------
(* The invariant, and the properties it gives *)

(* The whole strengthened invariant holds in every reachable state, for    *)
(* any number of pools and slots and any odd GenMax.                       *)
THEOREM SlotInvariant == Spec => []IInv
<1>1. IInv /\ [Next]_vars => IInv'
  <2> SUFFICES ASSUME IInv, [Next]_vars PROVE IInv'
    OBVIOUS
  <2>1. CASE Start
    BY <2>1, StartSafe
  <2>2. CASE Deinit
    BY <2>2, DeinitSafe
  <2>3. ASSUME NEW p \in Pools, CreatePool(p) \/ DestroyPool(p) \/ Alloc(p) \/ AllocFails(p)
        PROVE  IInv'
    BY <2>3, CreatePoolSafe, DestroyPoolSafe, AllocSafe, AllocFailsSafe
  <2>4. ASSUME NEW s \in Slots, NEW fn \in BOOLEAN, SetDestroyFn(s, fn) PROVE IInv'
    BY <2>4, SetDestroyFnSafe
  <2>5. ASSUME NEW s \in Slots, FreePlain(s) \/ FreeCallback(s) PROVE IInv'
    BY <2>5, FreePlainSafe, FreeCallbackSafe
  <2>6. CASE CallbackReturns
    BY <2>6, CallbackReturnsSafe
  <2>7. ASSUME NEW p \in Pools, NEW q \in Pools, Merge(p, q) \/ Split(p, q) PROVE IInv'
    BY <2>7, MergeSafe, SplitSafe
  <2>8. CASE UNCHANGED vars
    BY <2>8, StutterSafe
  <2> QED
    BY <2>1, <2>2, <2>3, <2>4, <2>5, <2>6, <2>7, <2>8 DEF Next
<1> QED
  BY <1>1, InitSafe, PTL DEF Spec

(* Type correctness: every link, count and generation stays in its range.  *)
THEOREM SlotTypes == Spec => []TypeOK
<1>1. IInv => TypeOK
  BY DEF IInv
<1> QED
  BY <1>1, SlotInvariant, PTL

(* slot_alloc and slot_release, on the success and the failure paths of    *)
(* alloc and at the end of free, keep every free descriptor on the free    *)
(* list and no other.                                                      *)
THEOREM FreeSlotsExact == Spec => []FreeListExact
<1>1. IInv => FreeListExact
  BY DEF IInv
<1> QED
  BY <1>1, SlotInvariant, PTL

(* Each pool's live-slot list holds its objects once each, and the         *)
(* counters are right, through alloc, free, merge and split and whatever   *)
(* destroy callbacks call.                                                 *)
THEOREM LiveSlotsExact == Spec => []LiveListsExact
<1>1. IInv => LiveListsExact
  BY DEF IInv
<1> QED
  BY <1>1, SlotInvariant, PTL

(* check_ref refuses a reference to a freed object until its slot has been *)
(* allocated GenMax times more.                                            *)
THEOREM StaleReferencesRefused == Spec => []StaleRefused
  BY SlotInvariant, GenerationsGuard, PTL

(* The pool and the descriptor that free() holds across a destroy callback *)
(* are still there when the callback returns.                              *)
THEOREM CallbacksSafe == Spec => []CallbackSafe
<1>1. IInv => CallbackSafe
  BY DEF IInv
<1> QED
  BY <1>1, SlotInvariant, PTL
=============================================================================
