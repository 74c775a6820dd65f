------------------------------- MODULE PondFolds ------------------------------
(***************************************************************************)
(* Sums over finite sets and folds over sequences, for the proofs about    *)
(* byte counts, borrow counts and planners.  The models write sums as      *)
(* folds; here a sum of naturals is the cardinality of a set of pairs, so  *)
(* that the facts about it follow from those about finite sets, and the    *)
(* fold is shown to be this sum.  A fold over a sequence is shown to be    *)
(* the last of the values that its steps take.                             *)
(***************************************************************************)
EXTENDS FiniteSetsExt, FiniteSetTheorems, TLAPS

(* Each x of S contributes f[x] pairs.                                     *)
Pairs(f, S) == {p \in S \X Nat : p[2] < f[p[1]]}
Total(f, S) == Cardinality(Pairs(f, S))

Less == {ab \in Nat \X Nat : ab[1] < ab[2]}

(* Every set of naturals has a least element: induction, stated without a  *)
(* predicate.                                                              *)
LEMMA LeastNumber ==
  ASSUME NEW S \in SUBSET Nat, S # {}
  PROVE  \E m \in S : \A n \in S : m <= n
<1>1. IsWellFoundedOn(Less, Nat)
  BY NatLessThanWellFounded DEF OpToRel, Less
<1>2. PICK m \in S : \A n \in S : <<n, m>> \notin Less
  BY <1>1, WFMin
<1>3. \A n \in S : ~(n < m)
  BY <1>2 DEF Less
<1>4. QED BY <1>3

LEMMA MinOfNumbers ==
  ASSUME NEW S \in SUBSET Nat, S # {}
  PROVE  Min(S) \in S /\ \A n \in S : Min(S) <= n
  BY LeastNumber DEF Min

(* Induction up to a bound, over the set of numbers reached.               *)
LEMMA UpTo ==
  ASSUME NEW n \in Nat, NEW S, 0 \in S, \A k \in 0 .. n - 1 : k \in S => k + 1 \in S
  PROVE  \A k \in 0 .. n : k \in S
<1> DEFINE Missed == {k \in 0 .. n : k \notin S}
<1>1. SUFFICES ASSUME Missed # {} PROVE FALSE
  OBVIOUS
<1>2. PICK m \in Missed : \A k \in Missed : m <= k
  <2>1. Missed \in SUBSET Nat
    OBVIOUS
  <2> HIDE DEF Missed
  <2>2. QED BY <1>1, <2>1, LeastNumber
<1>3. m \in 1 .. n /\ m - 1 \in 0 .. n - 1 /\ m - 1 \in 0 .. n /\ (m - 1) + 1 = m
  OBVIOUS
<1>4. m - 1 \in S
  BY <1>2, <1>3
<1>5. QED BY <1>3, <1>4

(* Products and remainders of naturals.                                    *)
LEMMA Remainder ==
  ASSUME NEW a \in Nat, NEW m \in Nat, a < m
  PROVE  a % m = a
<1>1. PICK q \in Int, r \in Int : q = a \div m /\ r = a % m
  BY SMT
<1>2. a = m * q + r /\ 0 <= r /\ r < m
  BY <1>1
<1>3. QED BY <1>1, <1>2

LEMMA NatTimes == \A a, b \in Nat : a * b \in Nat
  OBVIOUS

(* A set of finite sets has a smallest one.                                *)
LEMMA SmallestSet ==
  ASSUME NEW C, C # {}, \A s \in C : IsFiniteSet(s)
  PROVE  \E m \in C : \A s \in C : Cardinality(m) <= Cardinality(s)
<1> DEFINE N == {Cardinality(s) : s \in C}
<1>1. N \in SUBSET Nat /\ N # {}
  BY FS_CardinalityType
<1>2. PICK n \in N : \A k \in N : n <= k
  BY <1>1, LeastNumber
<1>3. PICK m \in C : n = Cardinality(m)
  OBVIOUS
<1>4. QED BY <1>2, <1>3

LEMMA OneColumn ==
  ASSUME NEW x, NEW n \in Nat
  PROVE  IsFiniteSet({x} \X (0 .. n - 1)) /\ Cardinality({x} \X (0 .. n - 1)) = n
<1> DEFINE C == 0 .. n - 1
<1>1. IsFiniteSet(C) /\ Cardinality(C) = n
  BY FS_Interval
<1>2. IsFiniteSet({x}) /\ Cardinality({x}) = 1
  BY FS_Singleton
<1> HIDE DEF C
<1>3. Cardinality({x} \X C) = 1 * n
  BY <1>1, <1>2, FS_Product, Zenon
<1>4. 1 * n = n
  OBVIOUS
<1>5. IsFiniteSet({x} \X C)
  BY <1>1, <1>2, FS_Product, Zenon
<1>6. QED BY <1>3, <1>4, <1>5 DEF C

LEMMA PairsFinite ==
  ASSUME NEW S, IsFiniteSet(S), NEW f, \A x \in S : f[x] \in Nat
  PROVE  IsFiniteSet(Pairs(f, S))
<1> DEFINE C == {{x} \X (0 .. f[x] - 1) : x \in S}
<1>1. IsFiniteSet(C)
  <2> DEFINE h == [x \in S |-> {x} \X (0 .. f[x] - 1)]
  <2>1. h \in Surjection(S, C)
    BY DEF Surjection
  <2> QED BY <2>1, FS_Surjection
<1>2. ASSUME NEW c \in C
      PROVE  IsFiniteSet(c)
  <2>1. PICK x \in S : c = {x} \X (0 .. f[x] - 1)
    OBVIOUS
  <2>2. f[x] \in Nat
    OBVIOUS
  <2>3. QED BY <2>1, <2>2, OneColumn
<1>3. IsFiniteSet(UNION C)
  BY <1>1, <1>2, FS_UNION
<1>4. Pairs(f, S) \subseteq UNION C
  <2>1. ASSUME NEW p \in Pairs(f, S)
        PROVE  p \in {p[1]} \X (0 .. f[p[1]] - 1) /\ p[1] \in S
    BY DEF Pairs
  <2>2. QED BY <2>1
<1>5. QED BY <1>3, <1>4, FS_Subset

LEMMA TotalType ==
  ASSUME NEW S, IsFiniteSet(S), NEW f, \A x \in S : f[x] \in Nat
  PROVE  Total(f, S) \in Nat
  BY PairsFinite, FS_CardinalityType DEF Total

LEMMA TotalEmpty ==
  ASSUME NEW f
  PROVE  Total(f, {}) = 0
<1>1. Pairs(f, {}) = {}
  BY DEF Pairs
<1>2. QED BY <1>1, FS_EmptySet DEF Total

(* Disjoint sets add up.                                                   *)
LEMMA TotalUnion ==
  ASSUME NEW S, NEW T, IsFiniteSet(S), IsFiniteSet(T), S \cap T = {},
         NEW f, \A x \in S \cup T : f[x] \in Nat
  PROVE  Total(f, S \cup T) = Total(f, S) + Total(f, T)
<1>1. Pairs(f, S \cup T) = Pairs(f, S) \cup Pairs(f, T) /\ Pairs(f, S) \cap Pairs(f, T) = {}
  BY DEF Pairs
<1>2. IsFiniteSet(Pairs(f, S)) /\ IsFiniteSet(Pairs(f, T))
  BY PairsFinite
<1>3. Cardinality({}) = 0
  BY FS_EmptySet
<1>4. Cardinality(Pairs(f, S) \cup Pairs(f, T)) = Total(f, S) + Total(f, T) - 0
  BY <1>1, <1>2, <1>3, FS_Union DEF Total
<1>5. Total(f, S) \in Nat /\ Total(f, T) \in Nat
  BY TotalType
<1>6. Total(f, S \cup T) = Total(f, S) + Total(f, T) - 0
  BY <1>1, <1>4 DEF Total
<1>7. QED BY <1>5, <1>6

LEMMA TotalOne ==
  ASSUME NEW x, NEW f, f[x] \in Nat
  PROVE  Total(f, {x}) = f[x]
<1>1. Pairs(f, {x}) = {x} \X (0 .. f[x] - 1)
  BY DEF Pairs
<1>2. QED BY <1>1, OneColumn DEF Total

LEMMA TotalAdd ==
  ASSUME NEW S, IsFiniteSet(S), NEW x, x \notin S, NEW f, \A y \in S \cup {x} : f[y] \in Nat
  PROVE  Total(f, S \cup {x}) = Total(f, S) + f[x]
<1>1. IsFiniteSet({x}) /\ S \cap {x} = {}
  BY FS_Singleton
<1>2. QED BY <1>1, TotalUnion, TotalOne

LEMMA TotalRemove ==
  ASSUME NEW S, IsFiniteSet(S), NEW x \in S, NEW f, \A y \in S : f[y] \in Nat
  PROVE  Total(f, S) = Total(f, S \ {x}) + f[x]
<1>1. IsFiniteSet(S \ {x}) /\ S = (S \ {x}) \cup {x}
  BY FS_RemoveElement
<1>2. QED BY <1>1, TotalAdd

(* A sum depends on the summands only.                                     *)
LEMMA TotalSame ==
  ASSUME NEW S, NEW f, NEW g, \A x \in S : f[x] = g[x]
  PROVE  Total(f, S) = Total(g, S)
<1>1. Pairs(f, S) = Pairs(g, S)
  BY DEF Pairs
<1>2. QED BY <1>1 DEF Total

(* Larger summands give a larger sum; what is zero need not be there.      *)
LEMMA TotalMonotone ==
  ASSUME NEW S, NEW T, IsFiniteSet(T), NEW f, NEW g, \A x \in T : g[x] \in Nat,
         \A x \in S : f[x] \in Nat /\ (f[x] # 0 => x \in T /\ f[x] <= g[x])
  PROVE  Total(f, S) <= Total(g, T)
<1>1. Pairs(f, S) \subseteq Pairs(g, T)
  <2>1. ASSUME NEW p \in Pairs(f, S)
        PROVE  p \in Pairs(g, T)
    BY <2>1 DEF Pairs
  <2>2. QED BY <2>1
<1>2. IsFiniteSet(Pairs(g, T))
  BY PairsFinite
<1>3. QED BY <1>1, <1>2, FS_Subset DEF Total

(* The numbers that the intervals of S cover.                              *)
Covered(at, len, S) == {u \in Nat : \E x \in S : at[x] <= u /\ u < at[x] + len[x]}

(* Intervals that are apart cover as many numbers as they are long.        *)
LEMMA TotalCovers ==
  ASSUME NEW S, IsFiniteSet(S), NEW at, NEW len,
         \A x \in S : len[x] \in Nat /\ at[x] \in Nat,
         \A x, y \in S : x # y => at[x] + len[x] <= at[y] \/ at[y] + len[y] <= at[x]
  PROVE  /\ IsFiniteSet(Covered(at, len, S))
         /\ Cardinality(Covered(at, len, S)) = Total(len, S)
<1> DEFINE P == Pairs(len, S)
           C == Covered(at, len, S)
           place == [p \in P |-> at[p[1]] + p[2]]
<1>1. \A p \in P : /\ p = <<p[1], p[2]>> /\ p[1] \in S /\ p[2] \in Nat /\ p[2] < len[p[1]]
                   /\ place[p] = at[p[1]] + p[2]
  BY DEF Pairs
<1>2. IsFiniteSet(P)
  BY PairsFinite
<1>3. ASSUME NEW u \in C
      PROVE  \E p \in P : place[p] = u
  <2>1. PICK x \in S : at[x] <= u /\ u < at[x] + len[x]
    BY DEF Covered
  <2>2. u - at[x] \in Nat /\ u - at[x] < len[x] /\ at[x] + (u - at[x]) = u
    BY <2>1 DEF Covered
  <2>3. <<x, u - at[x]>> \in P
    BY <2>2 DEF Pairs
  <2>4. place[<<x, u - at[x]>>] = at[x] + (u - at[x])
    BY <2>3
  <2>5. QED BY <2>2, <2>3, <2>4
<1> HIDE DEF P
<1>4. \A p \in P : place[p] \in C
  <2>1. SUFFICES ASSUME NEW p \in P PROVE place[p] \in C
    OBVIOUS
  <2>2. /\ p[1] \in S /\ p[2] \in Nat /\ p[2] < len[p[1]] /\ place[p] = at[p[1]] + p[2]
        /\ at[p[1]] \in Nat /\ len[p[1]] \in Nat
    BY <1>1
  <2>3. place[p] \in Nat /\ at[p[1]] <= place[p] /\ place[p] < at[p[1]] + len[p[1]]
    BY <2>2
  <2> HIDE DEF place
  <2>4. QED BY <2>2, <2>3 DEF Covered
<1>5. ASSUME NEW p \in P, NEW q \in P, place[p] = place[q]
      PROVE  p = q
  <2>1. p[1] = q[1]
    BY <1>1, <1>5
  <2>2. at[p[1]] \in Nat /\ p[2] \in Nat /\ q[2] \in Nat
    BY <1>1
  <2>3. at[p[1]] + p[2] = at[p[1]] + q[2]
    BY <1>1, <1>5, <2>1
  <2>4. p[2] = q[2]
    BY <2>2, <2>3
  <2>5. QED BY <1>1, <2>1, <2>4
<1>6. place \in [P -> C]
  BY <1>4
<1> HIDE DEF place, C
<1>7. place \in Bijection(P, C)
  BY <1>3, <1>5, <1>6 DEF Bijection, Injection, IsInjective, Surjection
<1>8. IsFiniteSet(C) /\ Cardinality(C) = Cardinality(P)
  BY <1>2, <1>7, FS_Bijection DEF ExistsBijection
<1>9. QED BY <1>8 DEF P, C, Total

(* A total does not depend on how its parts are named.                     *)
LEMMA TotalRenamed ==
  ASSUME NEW S, IsFiniteSet(S), NEW T, NEW f, NEW g, NEW h,
         \A x \in S : f[x] \in Nat /\ h[x] \in T /\ g[h[x]] = f[x],
         \A x, y \in S : h[x] = h[y] => x = y,
         \A t \in T : \E x \in S : h[x] = t
  PROVE  IsFiniteSet(T) /\ Total(g, T) = Total(f, S)
<1> DEFINE P == Pairs(f, S)
           Q == Pairs(g, T)
           move == [p \in P |-> <<h[p[1]], p[2]>>]
           name == [x \in S |-> h[x]]
<1>1. \A p \in P : /\ p = <<p[1], p[2]>> /\ p[1] \in S /\ p[2] \in Nat /\ p[2] < f[p[1]]
                   /\ move[p] = <<h[p[1]], p[2]>>
  BY DEF Pairs
<1>2. IsFiniteSet(P)
  BY PairsFinite
<1>3. ASSUME NEW q \in Q
      PROVE  \E p \in P : move[p] = q
  <2>1. /\ q = <<q[1], q[2]>> /\ q[1] \in T /\ q[2] \in Nat /\ q[2] < g[q[1]]
    BY DEF Pairs
  <2>2. PICK x \in S : h[x] = q[1]
    BY <2>1
  <2>3. <<x, q[2]>> \in P
    BY <2>1, <2>2 DEF Pairs
  <2>4. move[<<x, q[2]>>] = <<h[x], q[2]>>
    BY <2>3
  <2>5. QED BY <2>1, <2>2, <2>3, <2>4
<1> HIDE DEF P
<1>4. \A p \in P : move[p] \in Q
  <2>1. SUFFICES ASSUME NEW p \in P PROVE move[p] \in Q
    OBVIOUS
  <2>2. /\ p[1] \in S /\ p[2] \in Nat /\ p[2] < f[p[1]] /\ move[p] = <<h[p[1]], p[2]>>
    BY <1>1
  <2>3. h[p[1]] \in T /\ p[2] < g[h[p[1]]]
    BY <2>2
  <2> HIDE DEF move
  <2>4. QED BY <2>2, <2>3 DEF Pairs
<1>5. ASSUME NEW p \in P, NEW q \in P, move[p] = move[q]
      PROVE  p = q
  <2>1. h[p[1]] = h[q[1]] /\ p[2] = q[2]
    BY <1>1, <1>5
  <2>2. p = <<p[1], p[2]>> /\ q = <<q[1], q[2]>> /\ p[1] \in S /\ q[1] \in S
    BY <1>1
  <2>3. p[1] = q[1]
    BY <2>1, <2>2
  <2>4. <<p[1], p[2]>> = <<q[1], q[2]>>
    BY <2>1, <2>3
  <2>5. QED BY <2>2, <2>4
<1>6. move \in [P -> Q]
  BY <1>4
<1> HIDE DEF move, Q
<1>7. move \in Bijection(P, Q)
  BY <1>3, <1>5, <1>6 DEF Bijection, Injection, IsInjective, Surjection
<1>8. Cardinality(Q) = Cardinality(P)
  BY <1>2, <1>7, FS_Bijection DEF ExistsBijection
<1>9. IsFiniteSet(T)
  <2>1. name \in Surjection(S, T)
    BY DEF Surjection
  <2>2. QED BY <2>1, FS_Surjection
<1>10. QED BY <1>8, <1>9 DEF P, Q, Total

(* Intervals that are apart and lie in a window are not longer together    *)
(* than the window.                                                        *)
LEMMA TotalFits ==
  ASSUME NEW S, IsFiniteSet(S), NEW lo \in Nat, NEW hi \in Nat, lo <= hi, NEW at, NEW len,
         \A x \in S : /\ len[x] \in Nat /\ at[x] \in Nat
                      /\ lo <= at[x] /\ at[x] + len[x] <= hi,
         \A x, y \in S : x # y => at[x] + len[x] <= at[y] \/ at[y] + len[y] <= at[x]
  PROVE  Total(len, S) <= hi - lo
<1>1. /\ IsFiniteSet(Covered(at, len, S))
      /\ Cardinality(Covered(at, len, S)) = Total(len, S)
  BY TotalCovers
<1>2. Covered(at, len, S) \subseteq lo .. hi - 1
  BY DEF Covered
<1>3. IsFiniteSet(lo .. hi - 1) /\ Cardinality(lo .. hi - 1) = hi - lo
  BY FS_Interval
<1>4. QED BY <1>1, <1>2, <1>3, FS_Subset

-----------------------------------------------------------------------------
(* The fold of MapThenSumSet satisfies one recursion, and Total is its     *)
(* only solution.                                                          *)
AnyOf(s) == CHOOSE x \in s : TRUE

LEMMA TotalIsAFold ==
  ASSUME NEW S, IsFiniteSet(S), NEW f, \A x \in S : f[x] \in Nat
  PROVE  \A s \in SUBSET S :
           Total(f, s) = IF s = {} THEN 0 ELSE f[AnyOf(s)] + Total(f, s \ {AnyOf(s)})
<1>1. SUFFICES ASSUME NEW s \in SUBSET S
      PROVE  Total(f, s) = IF s = {} THEN 0 ELSE f[AnyOf(s)] + Total(f, s \ {AnyOf(s)})
  OBVIOUS
<1>2. CASE s = {}
  BY <1>2, TotalEmpty
<1>3. CASE s # {}
  <2> DEFINE x == AnyOf(s)
  <2>1. x \in s
    BY <1>3 DEF AnyOf
  <2> HIDE DEF x
  <2>2. IsFiniteSet(s) /\ IsFiniteSet(s \ {x}) /\ \A y \in s : f[y] \in Nat
    BY FS_Subset, FS_RemoveElement
  <2>3. Total(f, s) = Total(f, s \ {x}) + f[x]
    BY <2>1, <2>2, TotalRemove
  <2>4. Total(f, s \ {x}) \in Nat /\ f[x] \in Nat
    BY <2>1, <2>2, TotalType
  <2>5. QED BY <1>3, <2>3, <2>4 DEF x
<1>4. QED BY <1>2, <1>3

LEMMA FoldIsTotal ==
  ASSUME NEW S, IsFiniteSet(S), NEW f, \A x \in S : f[x] \in Nat, NEW g,
         \A s \in SUBSET S : g[s] = IF s = {} THEN 0 ELSE f[AnyOf(s)] + g[s \ {AnyOf(s)}]
  PROVE  g[S] = Total(f, S)
<1> DEFINE Bad == {s \in SUBSET S : g[s] # Total(f, s)}
<1>1. SUFFICES ASSUME Bad # {} PROVE FALSE
  OBVIOUS
<1>2. \A s \in Bad : IsFiniteSet(s)
  BY FS_Subset
<1>3. PICK s \in Bad : \A t \in Bad : Cardinality(s) <= Cardinality(t)
  <2> HIDE DEF Bad
  <2> QED BY <1>1, <1>2, SmallestSet
<1>4. s # {}
  BY TotalEmpty
<1>5. AnyOf(s) \in s
  BY <1>4 DEF AnyOf
<1>6. Cardinality(s \ {AnyOf(s)}) = Cardinality(s) - 1 /\ Cardinality(s) \in Nat
  BY <1>2, <1>5, FS_RemoveElement, FS_CardinalityType
<1>7. s \ {AnyOf(s)} \notin Bad
  <2> HIDE DEF Bad
  <2> QED BY <1>3, <1>6
<1>8. g[s \ {AnyOf(s)}] = Total(f, s \ {AnyOf(s)})
  BY <1>7
<1>9. g[s] = Total(f, s)
  BY <1>4, <1>8, TotalIsAFold
<1>10. QED BY <1>9

(* The sums themselves are a solution, so there is one to choose. *)
Totals(f, S) == [s \in SUBSET S |-> Total(f, s)]

LEMMA TotalsSolve ==
  ASSUME NEW S, IsFiniteSet(S), NEW f, \A x \in S : f[x] \in Nat
  PROVE  Totals(f, S) = [s \in SUBSET S |->
                           IF s = {} THEN 0
                           ELSE f[AnyOf(s)] + Totals(f, S)[s \ {AnyOf(s)}]]
<1> DEFINE t == Totals(f, S)
<1>1. ASSUME NEW s \in SUBSET S
      PROVE  t[s] = IF s = {} THEN 0 ELSE f[AnyOf(s)] + t[s \ {AnyOf(s)}]
  <2>1. s \ {AnyOf(s)} \in SUBSET S
    OBVIOUS
  <2>2. t[s] = Total(f, s) /\ t[s \ {AnyOf(s)}] = Total(f, s \ {AnyOf(s)})
    BY <2>1 DEF Totals
  <2> HIDE DEF t
  <2>3. QED BY <2>2, TotalIsAFold
<1>2. t = [s \in SUBSET S |-> t[s]]
  BY DEF Totals
<1> HIDE DEF t
<1>3. t = [s \in SUBSET S |-> IF s = {} THEN 0 ELSE f[AnyOf(s)] + t[s \ {AnyOf(s)}]]
  BY <1>1, <1>2
<1>4. QED BY <1>3 DEF t

LEMMA SumIsTotal ==
  ASSUME NEW S, IsFiniteSet(S), NEW f, \A x \in S : f[x] \in Nat
  PROVE  MapThenSumSet(LAMBDA x : f[x], S) = Total(f, S)
<1> DEFINE Eq(g) == g = [s \in SUBSET S |->
                           IF s = {} THEN 0
                           ELSE f[CHOOSE x \in s : TRUE] + g[s \ {CHOOSE x \in s : TRUE}]]
           h == CHOOSE g : Eq(g)
<1>1. Eq(Totals(f, S))
  <2>1. Totals(f, S) = [s \in SUBSET S |->
                          IF s = {} THEN 0 ELSE f[AnyOf(s)] + Totals(f, S)[s \ {AnyOf(s)}]]
    BY TotalsSolve
  <2>2. QED BY <2>1 DEF AnyOf
<1>2. Eq(h)
  BY <1>1
<1>3. MapThenSumSet(LAMBDA x : f[x], S) = h[S]
  BY DEF MapThenSumSet, MapThenFoldSet
<1>4. \A s \in SUBSET S : h[s] = IF s = {} THEN 0 ELSE f[AnyOf(s)] + h[s \ {AnyOf(s)}]
  <2> HIDE DEF h
  <2> QED BY <1>2 DEF AnyOf
<1> HIDE DEF h, Eq
<1>5. h[S] = Total(f, S)
  BY <1>4, FoldIsTotal
<1>6. QED BY <1>3, <1>5

-----------------------------------------------------------------------------
(* Folds over a sequence.  FoldLeft takes the set of the sequence's        *)
(* indices apart from the top; a fold to the left is the value its run of  *)
(* steps ends with.                                                        *)
LEMMA MaxOfIndices ==
  ASSUME NEW n \in Nat, NEW S \in SUBSET (0 .. n), S # {}
  PROVE  Max(S) \in S /\ \A y \in S : y <= Max(S)
<1> DEFINE B == {n - y : y \in S}
<1>0. \A y \in S : y \in 0 .. n
  OBVIOUS
<1>1. PICK b \in B : \A c \in B : b <= c
  <2>1. \A y \in S : n - y \in Nat
    BY <1>0
  <2>2. B \in SUBSET Nat /\ B # {}
    BY <2>1
  <2> HIDE DEF B
  <2>3. QED BY <2>2, LeastNumber
<1>2. PICK m \in S : b = n - m
  OBVIOUS
<1>3. \A y \in S : m >= y
  <2>1. SUFFICES ASSUME NEW y \in S PROVE m >= y
    OBVIOUS
  <2>2. n - y \in B
    OBVIOUS
  <2>3. n - m <= n - y
    BY <1>1, <1>2, <2>2
  <2>4. m \in 0 .. n /\ y \in 0 .. n
    BY <1>0
  <2>5. QED BY <2>3, <2>4
<1>4. Max(S) \in S /\ \A y \in S : Max(S) >= y
  BY <1>2, <1>3 DEF Max
<1>5. QED BY <1>0, <1>4

(* One solution of the fold's equation up to n. *)
FoldsTo(g, base, step, seq, n) ==
  g = [s \in SUBSET (1 .. n) |->
         IF s = {} THEN base ELSE step[<<g[s \ {Max(s)}], seq[Max(s)]>>]]

LEMMA LowerIndices ==
  ASSUME NEW n \in Nat, NEW s \in SUBSET (1 .. n + 1), s # {}
  PROVE  Max(s) \in 1 .. n + 1 /\ s \ {Max(s)} \in SUBSET (1 .. n)
<1>1. \A y \in s : y \in 1 .. n + 1
  OBVIOUS
<1>2. s \in SUBSET (0 .. n + 1) /\ n + 1 \in Nat
  BY <1>1
<1>3. Max(s) \in s /\ \A y \in s : y <= Max(s)
  BY <1>2, MaxOfIndices
<1>4. Max(s) \in 1 .. n + 1
  BY <1>1, <1>3
<1>5. ASSUME NEW y \in s, y # Max(s)
      PROVE  y \in 1 .. n
  <2>1. y \in 1 .. n + 1 /\ y <= Max(s)
    BY <1>1, <1>3
  <2>2. QED BY <1>4, <1>5, <2>1
<1>6. QED BY <1>4, <1>5

LEMMA FoldExists ==
  ASSUME NEW N \in Nat, NEW V, NEW D, NEW base \in V, NEW step \in [V \X D -> V],
         NEW seq \in [1 .. N -> D]
  PROVE  \E g \in [SUBSET (1 .. N) -> V] : FoldsTo(g, base, step, seq, N)
<1> DEFINE Good(m) == \E g \in [SUBSET (1 .. m) -> V] : FoldsTo(g, base, step, seq, m)
           Bad == {m \in 0 .. N : ~Good(m)}
<1>1. SUFFICES ASSUME Bad # {} PROVE FALSE
  <2>1. Good(N) => \E g \in [SUBSET (1 .. N) -> V] : FoldsTo(g, base, step, seq, N)
    OBVIOUS
  <2> HIDE DEF Good
  <2>2. N \notin Bad => Good(N)
    <3>1. N \in 0 .. N
      OBVIOUS
    <3>2. QED BY <3>1
  <2> HIDE DEF Bad
  <2>3. QED BY <1>1, <2>1, <2>2
<1>2. PICK m \in Bad : \A k \in Bad : m <= k
  <2>1. Bad \in SUBSET Nat
    OBVIOUS
  <2> HIDE DEF Bad
  <2>2. QED BY <1>1, <2>1, LeastNumber
<1>3. m # 0
  <2> DEFINE g == [s \in SUBSET (1 .. 0) |-> base]
  <2>1. \A s \in SUBSET (1 .. 0) : s = {}
    OBVIOUS
  <2>2. g \in [SUBSET (1 .. 0) -> V] /\ FoldsTo(g, base, step, seq, 0)
    BY <2>1 DEF FoldsTo
  <2> HIDE DEF g
  <2>3. Good(0)
    BY <2>2
  <2>4. QED BY <2>3
<1>4. m - 1 \in 0 .. N /\ m \in 1 .. N
  BY <1>3
<1>5. m - 1 \notin Bad
  <2> HIDE DEF Bad
  <2> QED BY <1>2, <1>4
<1>6. PICK g \in [SUBSET (1 .. m - 1) -> V] : FoldsTo(g, base, step, seq, m - 1)
  BY <1>4, <1>5
<1> DEFINE Step(s) == IF s = {} THEN base ELSE step[<<g[s \ {Max(s)}], seq[Max(s)]>>]
           h == [s \in SUBSET (1 .. m) |-> Step(s)]
<1>7. \A s \in SUBSET (1 .. m) : s # {} => Max(s) \in 1 .. m /\ s \ {Max(s)} \in SUBSET (1 .. m - 1)
  <2>1. m - 1 \in Nat /\ (m - 1) + 1 = m
    BY <1>4
  <2>2. \A s \in SUBSET (1 .. (m - 1) + 1) : s # {} =>
          Max(s) \in 1 .. (m - 1) + 1 /\ s \ {Max(s)} \in SUBSET (1 .. m - 1)
    BY <2>1, LowerIndices
  <2>3. QED BY <2>1, <2>2
<1>8. \A s \in SUBSET (1 .. m) : Step(s) \in V
  <2>1. SUFFICES ASSUME NEW s \in SUBSET (1 .. m), s # {} PROVE Step(s) \in V
    OBVIOUS
  <2>2. g[s \ {Max(s)}] \in V /\ seq[Max(s)] \in D
    BY <1>4, <1>7, <2>1
  <2>3. QED BY <2>1, <2>2
<1>9. \A s \in SUBSET (1 .. m - 1) : g[s] = Step(s) /\ h[s] = Step(s)
  <2>1. \A s \in SUBSET (1 .. m - 1) : g[s] = Step(s)
    BY <1>6 DEF FoldsTo
  <2>2. SUBSET (1 .. m - 1) \subseteq SUBSET (1 .. m)
    BY <1>4
  <2>3. QED BY <2>1, <2>2
<1>10. \A s \in SUBSET (1 .. m) : s # {} => h[s] = step[<<h[s \ {Max(s)}], seq[Max(s)]>>]
  <2>1. SUFFICES ASSUME NEW s \in SUBSET (1 .. m), s # {}
                 PROVE  h[s] = step[<<h[s \ {Max(s)}], seq[Max(s)]>>]
    OBVIOUS
  <2>2. h[s \ {Max(s)}] = g[s \ {Max(s)}]
    BY <1>7, <1>9, <2>1
  <2>3. h[s] = Step(s)
    OBVIOUS
  <2>4. QED BY <2>1, <2>2, <2>3
<1>11. h \in [SUBSET (1 .. m) -> V] /\ FoldsTo(h, base, step, seq, m)
  <2>1. h[{}] = base
    OBVIOUS
  <2>2. h = [s \in SUBSET (1 .. m) |-> h[s]]
    OBVIOUS
  <2>3. h \in [SUBSET (1 .. m) -> V]
    BY <1>8
  <2> HIDE DEF h
  <2>4. h = [s \in SUBSET (1 .. m) |->
               IF s = {} THEN base ELSE step[<<h[s \ {Max(s)}], seq[Max(s)]>>]]
    BY <1>10, <2>1, <2>2
  <2>5. QED BY <2>3, <2>4 DEF FoldsTo
<1>12. Good(m)
  <2> HIDE DEF h
  <2> QED BY <1>11
<1>13. QED BY <1>12

(* The values a fold takes on growing prefixes. *)
LEMMA FoldRuns ==
  ASSUME NEW N \in Nat, NEW base, NEW step, NEW seq, NEW g, FoldsTo(g, base, step, seq, N)
  PROVE  /\ g[1 .. 0] = base
         /\ \A k \in 1 .. N : g[1 .. k] = step[<<g[1 .. k - 1], seq[k]>>]
<1>1. g[1 .. 0] = base
  <2>1. 1 .. 0 = {} /\ {} \in SUBSET (1 .. N)
    OBVIOUS
  <2>2. g[{}] = base
    BY <2>1 DEF FoldsTo
  <2>3. QED BY <2>1, <2>2
<1>2. ASSUME NEW k \in 1 .. N
      PROVE  g[1 .. k] = step[<<g[1 .. k - 1], seq[k]>>]
  <2> DEFINE s == 1 .. k
  <2>1. s # {} /\ s \in SUBSET (1 .. N) /\ s \in SUBSET (0 .. N) /\ k \in s
    OBVIOUS
  <2>2. Max(s) = k
    <3>1. Max(s) \in s /\ \A y \in s : y <= Max(s)
      BY <2>1, MaxOfIndices
    <3>2. QED BY <3>1
  <2>3. s \ {k} = 1 .. k - 1
    OBVIOUS
  <2> HIDE DEF s
  <2>4. g[s] = step[<<g[s \ {Max(s)}], seq[Max(s)]>>]
    BY <2>1 DEF FoldsTo
  <2>5. QED BY <2>2, <2>3, <2>4 DEF s
<1>3. QED BY <1>1, <1>2
=============================================================================
