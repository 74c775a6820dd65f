----------------------------- MODULE PondBinProofs -----------------------------
(***************************************************************************)
(* The free-block index of PondBins, for every zone and every number of    *)
(* size classes: blocks tile the pool, the lists hold exactly the free     *)
(* blocks, and what the search and the audits make of that.                *)
(***************************************************************************)
EXTENDS PondBins, PondFolds

-----------------------------------------------------------------------------
(* A recursion that takes one step per index has a solution.               *)
Iterates(g, n, S, base, step) ==
  g \in [0 .. n -> S] /\ g[0] = base /\ \A i \in 1 .. n : g[i] = step[g[i - 1]]

LEMMA StepsExist ==
  ASSUME NEW n \in Nat, NEW S, NEW base \in S, NEW step \in [S -> S]
  PROVE  \E g : Iterates(g, n, S, base, step)
<1> USE DEF Iterates
<1> DEFINE Good(k) == \E g : Iterates(g, k, S, base, step)
           G == {k \in 0 .. n : Good(k)}
<1>1. 0 \in G
  <2> DEFINE g == [i \in 0 .. 0 |-> base]
  <2>1. g \in [0 .. 0 -> S] /\ g[0] = base /\ 1 .. 0 = {}
    OBVIOUS
  <2> HIDE DEF g
  <2> QED
    BY <2>1
<1>2. ASSUME NEW k \in 0 .. n - 1, k \in G
      PROVE  k + 1 \in G
  <2>1. PICK g : Iterates(g, k, S, base, step)
    BY <1>2
  <2> DEFINE h == [i \in 0 .. k + 1 |-> IF i = k + 1 THEN step[g[k]] ELSE g[i]]
  <2>2. k \in Nat /\ g[k] \in S /\ step[g[k]] \in S
    BY <2>1
  <2>3. h \in [0 .. k + 1 -> S]
    BY <2>1, <2>2
  <2>4. h[0] = base
    BY <2>1, <2>2
  <2>5. ASSUME NEW i \in 1 .. k + 1
        PROVE  h[i] = step[h[i - 1]]
    <3>1. CASE i = k + 1
      BY <3>1, <2>2
    <3>2. CASE i \in 1 .. k
      BY <3>2, <2>1, <2>2
    <3> QED
      BY <3>1, <3>2, <2>2
  <2> HIDE DEF h
  <2> QED
    BY <2>2, <2>3, <2>4, <2>5
<1> HIDE DEF G
<1>3. n \in G
  BY <1>1, <1>2, UpTo
<1> QED
  BY <1>3 DEF G

-----------------------------------------------------------------------------
(* Sizes and classes *)

LEMMA ConstantsType ==
  /\ SlCount \in Nat \ {0} /\ FlMax \in Nat /\ FlMax >= 2 /\ Zone \in Nat /\ Zone >= 2
  /\ Null = Zone /\ Junk = Zone + 1 /\ MinBlock = 2
  /\ Null \notin Units /\ Junk \notin Units /\ Null # Junk
  /\ 0 \in Units /\ Units \subseteq Nat
  BY BinsAssumption DEF Null, Junk, MinBlock, Units

LEMMA Pow2Runs ==
  /\ Pow2[0] = 1
  /\ \A f \in 1 .. FlMax : Pow2[f] = 2 * Pow2[f - 1]
  /\ \A f \in 0 .. FlMax : Pow2[f] \in Nat \ {0}
<1> DEFINE Eq(g) == g = [f \in 0 .. FlMax |-> IF f = 0 THEN 1 ELSE 2 * g[f - 1]]
<1>1. FlMax \in Nat
  BY BinsAssumption
<1>2. \E g : Eq(g)
  <2> DEFINE double == [x \in Nat |-> 2 * x]
  <2>1. double \in [Nat -> Nat] /\ \A x \in Nat : double[x] = 2 * x
    OBVIOUS
  <2> HIDE DEF double
  <2>a. PICK g : Iterates(g, FlMax, Nat, 1, double)
    BY <1>1, <2>1, StepsExist
  <2>2. /\ g \in [0 .. FlMax -> Nat]
        /\ g[0] = 1 /\ \A i \in 1 .. FlMax : g[i] = double[g[i - 1]]
    BY <2>a DEF Iterates
  <2>3. \A i \in 1 .. FlMax : g[i] = 2 * g[i - 1]
    <3>1. \A i \in 1 .. FlMax : g[i - 1] \in Nat
      BY <1>1, <2>2
    <3> QED
      BY <2>1, <2>2, <3>1
  <2>4. ASSUME NEW i \in 0 .. FlMax
        PROVE  g[i] = IF i = 0 THEN 1 ELSE 2 * g[i - 1]
    <3>1. CASE i = 0
      BY <3>1, <2>2
    <3>2. CASE i \in 1 .. FlMax
      BY <3>2, <2>3
    <3> QED
      BY <3>1, <3>2, <1>1
  <2>5. Eq(g)
    <3>1. DOMAIN g = 0 .. FlMax /\ g = [i \in 0 .. FlMax |-> g[i]]
      BY <2>2
    <3>2. [i \in 0 .. FlMax |-> g[i]]
            = [i \in 0 .. FlMax |-> IF i = 0 THEN 1 ELSE 2 * g[i - 1]]
      BY ONLY <2>4, Zenon
    <3> QED
      BY <3>1, <3>2
  <2> QED
    BY <2>5
<1>3. Pow2 = CHOOSE g : Eq(g)
  BY DEF Pow2
<1>4. Eq(Pow2)
  BY <1>2, <1>3
<1>5. \A f \in 0 .. FlMax : Pow2[f] = IF f = 0 THEN 1 ELSE 2 * Pow2[f - 1]
  <2> DEFINE p == Pow2
  <2>1. p = [f \in 0 .. FlMax |-> IF f = 0 THEN 1 ELSE 2 * p[f - 1]]
    BY <1>4
  <2> HIDE DEF p
  <2>2. \A f \in 0 .. FlMax : p[f] = IF f = 0 THEN 1 ELSE 2 * p[f - 1]
    BY <2>1
  <2> QED
    BY <2>2 DEF p
<1> DEFINE Positive == {f \in 0 .. FlMax : Pow2[f] \in Nat \ {0}}
<1>6. \A f \in 0 .. FlMax : f \in Positive
  <2>1. 0 \in Positive
    BY <1>1, <1>5
  <2>2. ASSUME NEW k \in 0 .. FlMax - 1, k \in Positive
        PROVE  k + 1 \in Positive
    <3>1. k + 1 \in 0 .. FlMax /\ k + 1 # 0 /\ (k + 1) - 1 = k
      BY <1>1
    <3>2. Pow2[k + 1] = 2 * Pow2[k]
      BY <3>1, <1>5
    <3> QED
      BY <2>2, <3>1, <3>2
  <2> HIDE DEF Positive
  <2> QED
    BY <1>1, <2>1, <2>2, UpTo
<1> QED
  BY <1>1, <1>5, <1>6

(* Every block has a first level: its greatest power of two that a pool    *)
(* knows.                                                                  *)
LEMMA FirstLevel ==
  ASSUME NEW n \in MinBlock .. Zone
  PROVE  /\ fl_index(n) \in Levels
         /\ Pow2[fl_index(n)] <= n
         /\ n < Pow2[fl_index(n) + 1] \/ fl_index(n) = FlMax - 1
<1> DEFINE S == {f \in Levels : Pow2[f] <= n}
<1>1. FlMax \in Nat /\ FlMax - 1 \in Nat /\ n \in Nat /\ n >= 2 /\ FlMax >= 2
  BY BinsAssumption DEF MinBlock
<1>2. 1 \in S
  <2>1. 1 \in Levels /\ 1 \in 1 .. FlMax
    BY <1>1 DEF Levels
  <2>2. Pow2[1] = 2 * Pow2[1 - 1]
    BY <2>1, Pow2Runs
  <2>3. Pow2[1] = 2
    BY <2>2, Pow2Runs
  <2> QED
    BY <1>1, <2>1, <2>3
<1>3. S \in SUBSET (0 .. FlMax - 1) /\ S # {}
  BY <1>1, <1>2 DEF Levels
<1> DEFINE f == Max(S)
<1>4. f \in S /\ \A g \in S : g <= f
  <2> HIDE DEF S
  <2> QED
    BY <1>1, <1>3, MaxOfIndices
<1>5. f \in Levels /\ Pow2[f] <= n /\ (n < Pow2[f + 1] \/ f = FlMax - 1)
  <2>1. f \in Levels /\ Pow2[f] <= n /\ f \in 1 .. FlMax - 1
    BY <1>4 DEF Levels
  <2>2. CASE f # FlMax - 1
    <3>1. f + 1 \in Levels /\ ~(f + 1 <= f) /\ f + 1 \in 0 .. FlMax
      BY <1>1, <2>1, <2>2 DEF Levels
    <3>2. ~(Pow2[f + 1] <= n)
      BY <1>4, <3>1
    <3>3. Pow2[f + 1] \in Nat
      BY <3>1, Pow2Runs
    <3> QED
      BY <1>1, <2>1, <3>2, <3>3
  <2> QED
    BY <2>1, <2>2
<1> QED
  BY <1>5 DEF fl_index

LEMMA ClassType == \A n \in MinBlock .. Zone : ClassOf(n) \in Classes
<1> SUFFICES ASSUME NEW n \in MinBlock .. Zone PROVE ClassOf(n) \in Classes
  OBVIOUS
<1>1. fl_index(n) \in Levels /\ Pow2[fl_index(n)] <= n
  BY FirstLevel
<1>2. fl_index(n) \in 0 .. FlMax
  BY <1>1, BinsAssumption DEF Levels
<1>3. PICK p \in Nat : p = Pow2[fl_index(n)] /\ p # 0
  BY <1>2, Pow2Runs
<1>4. n - p \in Nat
  BY <1>1, <1>3, BinsAssumption DEF MinBlock
<1>5. PICK a \in Nat : a = (n - p) * SlCount
  BY <1>4, BinsAssumption, NatTimes
<1>6. a \div p \in Nat
  BY <1>3
<1>7. (IF a \div p < SlCount THEN a \div p ELSE SlCount - 1) \in Seconds
  BY <1>6, BinsAssumption DEF Seconds
<1>8. sl_index(n) = IF a \div p < SlCount THEN a \div p ELSE SlCount - 1
  BY <1>3, <1>5 DEF sl_index
<1> QED
  BY <1>1, <1>7, <1>8 DEF ClassOf, Classes

-----------------------------------------------------------------------------
(* Doubly linked lists: a thread t of n units between two Nulls, and the   *)
(* set of units that some thread from a head h runs through.               *)

Thread(h, next, prev, n, t) ==
  /\ t \in [0 .. n + 1 -> Units \cup {Null}]
  /\ t[0] = Null /\ t[n + 1] = Null /\ t[1] = h
  /\ \A i \in 1 .. n : t[i] \in Units /\ next[t[i]] = t[i + 1] /\ prev[t[i]] = t[i - 1]
  /\ \A i, j \in 1 .. n : t[i] = t[j] => i = j

Along(n, t) == {t[i] : i \in 1 .. n}

List(h, next, prev, S) ==
  \E n \in Nat : \E t : Thread(h, next, prev, n, t) /\ Along(n, t) = S

LEMMA ListEmpty ==
  ASSUME NEW next, NEW prev
  PROVE  List(Null, next, prev, {})
<1> DEFINE t == [i \in 0 .. 0 + 1 |-> Null]
<1>1. t \in [0 .. 0 + 1 -> Units \cup {Null}] /\ t[0] = Null /\ t[0 + 1] = Null /\ t[1] = Null
  OBVIOUS
<1>2. 1 .. 0 = {} /\ 0 \in Nat
  OBVIOUS
<1> HIDE DEF t
<1>3. Thread(Null, next, prev, 0, t)
  BY <1>1, <1>2 DEF Thread
<1>4. Along(0, t) = {}
  BY <1>2 DEF Along
<1> QED
  BY <1>2, <1>3, <1>4 DEF List

(* The words that a list does not run through do not matter to it.         *)
LEMMA ListSame ==
  ASSUME NEW h, NEW next, NEW prev, NEW S, List(h, next, prev, S), NEW next2, NEW prev2,
         \A x \in S : next2[x] = next[x] /\ prev2[x] = prev[x]
  PROVE  List(h, next2, prev2, S)
<1>0. PICK n \in Nat : \E t : Thread(h, next, prev, n, t) /\ Along(n, t) = S
  BY DEF List
<1>1. PICK t : Thread(h, next, prev, n, t) /\ Along(n, t) = S
  BY <1>0
<1>2. \A i \in 1 .. n : t[i] \in S
  BY <1>1 DEF Along
<1>3. Thread(h, next2, prev2, n, t)
  BY <1>1, <1>2 DEF Thread
<1> QED
  BY <1>1, <1>3 DEF List

(* The links of a unit on a list.                                          *)
LEMMA ListLinks ==
  ASSUME NEW h, NEW next, NEW prev, NEW S, List(h, next, prev, S)
  PROVE  /\ S \subseteq Units
         /\ h \in S \cup {Null} /\ (h = Null <=> S = {})
         /\ \A u \in S :
              /\ prev[u] \in (S \ {u}) \cup {Null} /\ next[u] \in (S \ {u}) \cup {Null}
              /\ IF prev[u] = Null THEN h = u ELSE next[prev[u]] = u /\ h # u
              /\ next[u] # Null => prev[next[u]] = u
<1>0. PICK n \in Nat : \E t : Thread(h, next, prev, n, t) /\ Along(n, t) = S
  BY DEF List
<1>1. PICK t : Thread(h, next, prev, n, t) /\ Along(n, t) = S
  BY <1>0
<1>2. \A i \in 1 .. n : t[i] \in S /\ t[i] # Null /\ t[i] \in Units
  BY <1>1, ConstantsType DEF Along, Thread
<1>3. S \subseteq Units
  BY <1>1, <1>2 DEF Along
<1>4. h \in S \cup {Null} /\ (h = Null <=> S = {})
  <2>1. CASE n = 0
    <3>1. h = Null /\ 1 .. n = {}
      BY <1>1, <2>1 DEF Thread
    <3> QED
      BY <1>1, <3>1 DEF Along
  <2>2. CASE n # 0
    <3>1. 1 \in 1 .. n /\ h = t[1]
      BY <1>1, <2>2 DEF Thread
    <3> QED
      BY <1>2, <3>1
  <2> QED
    BY <2>1, <2>2
<1>5. ASSUME NEW u \in S
      PROVE  /\ prev[u] \in (S \ {u}) \cup {Null} /\ next[u] \in (S \ {u}) \cup {Null}
             /\ IF prev[u] = Null THEN h = u ELSE next[prev[u]] = u /\ h # u
             /\ next[u] # Null => prev[next[u]] = u
  <2>1. PICK i \in 1 .. n : u = t[i]
    BY <1>1 DEF Along
  <2>2. prev[u] = t[i - 1] /\ next[u] = t[i + 1] /\ t[0] = Null /\ t[n + 1] = Null /\ t[1] = h
    BY <1>1, <2>1 DEF Thread
  <2>3. i # 1 => i - 1 \in 1 .. n /\ (i - 1) + 1 = i /\ i - 1 # i
    OBVIOUS
  <2>4. i # n => i + 1 \in 1 .. n /\ (i + 1) - 1 = i /\ i + 1 # i
    OBVIOUS
  <2>5. \A j \in 1 .. n : j # i => t[j] # u
    BY <1>1, <2>1 DEF Thread
  <2>6. 1 \in 1 .. n
    OBVIOUS
  <2>7. \A j \in 1 .. n : next[t[j]] = t[j + 1] /\ prev[t[j]] = t[j - 1]
    BY <1>1 DEF Thread
  <2>8. prev[u] \in (S \ {u}) \cup {Null} /\ IF prev[u] = Null THEN h = u ELSE next[prev[u]] = u /\ h # u
    <3>1. CASE i = 1
      BY <3>1, <2>1, <2>2
    <3>2. CASE i # 1
      <4>1. t[i - 1] \in S /\ t[i - 1] # u /\ t[i - 1] # Null
        BY <3>2, <2>3, <1>2, <2>5
      <4>2. next[t[i - 1]] = u
        BY <3>2, <2>3, <2>7, <2>1
      <4>3. h # u
        BY <3>2, <2>2, <2>5, <2>6
      <4> QED
        BY <4>1, <4>2, <4>3, <2>2
    <3> QED
      BY <3>1, <3>2
  <2>9. next[u] \in (S \ {u}) \cup {Null} /\ (next[u] # Null => prev[next[u]] = u)
    <3>1. CASE i = n
      BY <3>1, <2>2
    <3>2. CASE i # n
      BY <3>2, <2>4, <1>2, <2>5, <2>7, <2>1, <2>2
    <3> QED
      BY <3>1, <3>2
  <2> QED
    BY <2>8, <2>9
<1> QED
  BY <1>3, <1>4, <1>5

LEMMA ListCons ==
  ASSUME NEW h, NEW next, NEW prev, NEW S, List(h, next, prev, S), NEW u \in Units, u \notin S,
         NEW next2, NEW prev2, next2[u] = h, prev2[u] = Null,
         \A x \in S : next2[x] = next[x] /\ prev2[x] = IF x = h THEN u ELSE prev[x]
  PROVE  List(u, next2, prev2, S \cup {u})
<1>0. PICK n \in Nat : \E t : Thread(h, next, prev, n, t) /\ Along(n, t) = S
  BY DEF List
<1>1. PICK t : Thread(h, next, prev, n, t) /\ Along(n, t) = S
  BY <1>0
<1>2. /\ t \in [0 .. n + 1 -> Units \cup {Null}]
      /\ t[0] = Null /\ t[n + 1] = Null /\ t[1] = h
      /\ \A i \in 1 .. n : t[i] \in Units /\ next[t[i]] = t[i + 1] /\ prev[t[i]] = t[i - 1]
      /\ \A i, j \in 1 .. n : t[i] = t[j] => i = j
  BY <1>1 DEF Thread
<1>3. \A i \in 1 .. n : t[i] \in S /\ t[i] # u
  BY <1>1 DEF Along
<1> DEFINE m == n + 1
           w == [i \in 0 .. m + 1 |-> IF i = 0 THEN Null ELSE IF i = 1 THEN u ELSE t[i - 1]]
<1>4. /\ m \in Nat /\ w \in [0 .. m + 1 -> Units \cup {Null}]
      /\ w[0] = Null /\ w[1] = u /\ \A i \in 1 .. n + 1 : w[i + 1] = t[i]
  <2>1. \A i \in 0 .. m + 1 : i # 0 /\ i # 1 => i - 1 \in 0 .. n + 1
    OBVIOUS
  <2>2. w \in [0 .. m + 1 -> Units \cup {Null}]
    BY <1>2, <2>1
  <2>3. \A i \in 1 .. n + 1 : i + 1 \in 0 .. m + 1 /\ (i + 1) - 1 = i /\ i + 1 # 0 /\ i + 1 # 1
    OBVIOUS
  <2>4. 0 \in 0 .. m + 1 /\ 1 \in 0 .. m + 1
    OBVIOUS
  <2> QED
    BY <2>2, <2>3, <2>4
<1> HIDE DEF w
<1>5. \A i \in 1 .. m : i = 1 \/ (i - 1 \in 1 .. n /\ w[i] = t[i - 1])
  <2> SUFFICES ASSUME NEW i \in 1 .. m, i # 1
               PROVE  i - 1 \in 1 .. n /\ w[i] = t[i - 1]
    OBVIOUS
  <2>1. i - 1 \in 1 .. n /\ i - 1 \in 1 .. n + 1 /\ (i - 1) + 1 = i
    OBVIOUS
  <2> QED
    BY <1>4, <2>1
<1>6. ASSUME NEW i \in 1 .. m
      PROVE  w[i] \in Units /\ next2[w[i]] = w[i + 1] /\ prev2[w[i]] = w[i - 1]
  <2>1. CASE i = 1
    <3>1. 1 \in 1 .. n + 1 /\ w[1 + 1] = h
      BY <1>2, <1>4
    <3> QED
      BY <2>1, <3>1, <1>4
  <2>2. CASE i # 1
    <3>1. PICK k \in 1 .. n : i = k + 1 /\ k = i - 1
      BY <2>2
    <3>2. w[i] = t[k] /\ w[i + 1] = t[k + 1]
      <4>1. k \in 1 .. n + 1 /\ k + 1 \in 1 .. n + 1
        OBVIOUS
      <4> QED
        BY <1>4, <4>1, <3>1
    <3>3. t[k] \in Units /\ next2[t[k]] = t[k + 1]
      BY <1>2, <1>3
    <3>4. prev2[t[k]] = IF t[k] = h THEN u ELSE t[k - 1]
      BY <1>2, <1>3
    <3>5. CASE k = 1
      BY <3>5, <3>1, <3>2, <3>3, <3>4, <1>2, <1>4
    <3>6. CASE k # 1
      <4>1. k - 1 \in 1 .. n + 1 /\ (k - 1) + 1 = k /\ 1 \in 1 .. n
        BY <3>6
      <4>2. t[k] # h
        BY <1>2, <4>1, <3>6
      <4>3. w[i - 1] = t[k - 1]
        BY <1>4, <4>1, <3>1
      <4> QED
        BY <4>2, <4>3, <3>2, <3>3, <3>4
    <3> QED
      BY <3>5, <3>6
  <2> QED
    BY <2>1, <2>2
<1>7. ASSUME NEW i \in 1 .. m, NEW j \in 1 .. m, w[i] = w[j]
      PROVE  i = j
  <2>1. CASE i = 1
    BY <2>1, <1>3, <1>4, <1>5, <1>7
  <2>2. CASE j = 1
    BY <2>2, <1>3, <1>4, <1>5, <1>7
  <2>3. CASE i # 1 /\ j # 1
    <3>1. i - 1 \in 1 .. n /\ j - 1 \in 1 .. n /\ t[i - 1] = t[j - 1]
      BY <2>3, <1>5, <1>7
    <3>2. i - 1 = j - 1
      BY <3>1, <1>2
    <3> QED
      BY <3>2
  <2> QED
    BY <2>1, <2>2, <2>3
<1>8. w[m + 1] = Null
  <2>1. n + 1 \in 1 .. n + 1
    OBVIOUS
  <2> QED
    BY <2>1, <1>2, <1>4
<1>9. Thread(u, next2, prev2, m, w)
  BY <1>4, <1>6, <1>7, <1>8 DEF Thread
<1>10. Along(m, w) = S \cup {u}
  <2>1. ASSUME NEW i \in 1 .. m
        PROVE  w[i] \in S \cup {u}
    BY <1>3, <1>4, <1>5
  <2>2. u \in Along(m, w)
    <3>1. 1 \in 1 .. m
      OBVIOUS
    <3> QED
      BY <3>1, <1>4 DEF Along
  <2>3. ASSUME NEW i \in 1 .. n
        PROVE  t[i] \in Along(m, w)
    <3>1. i + 1 \in 1 .. m /\ i \in 1 .. n + 1
      OBVIOUS
    <3> QED
      BY <3>1, <1>4 DEF Along
  <2> QED
    BY <2>1, <2>2, <2>3, <1>1 DEF Along
<1> QED
  BY <1>4, <1>9, <1>10 DEF List

(* The words of a list once u has been unlinked.                           *)
Unlinked(h, next, prev, S, u, h2, next2, prev2) ==
  /\ h2 = IF prev[u] = Null THEN next[u] ELSE h
  /\ \A x \in S \ {u} : /\ next2[x] = IF x = prev[u] THEN next[u] ELSE next[x]
                        /\ prev2[x] = IF x = next[u] THEN prev[u] ELSE prev[x]

LEMMA ListCut ==
  ASSUME NEW h, NEW next, NEW prev, NEW S, List(h, next, prev, S), NEW u \in S,
         NEW h2, NEW next2, NEW prev2, Unlinked(h, next, prev, S, u, h2, next2, prev2)
  PROVE  List(h2, next2, prev2, S \ {u})
<1>a. /\ h2 = IF prev[u] = Null THEN next[u] ELSE h
      /\ \A x \in S \ {u} : /\ next2[x] = IF x = prev[u] THEN next[u] ELSE next[x]
                            /\ prev2[x] = IF x = next[u] THEN prev[u] ELSE prev[x]
  BY DEF Unlinked
<1>0. PICK n \in Nat : \E t : Thread(h, next, prev, n, t) /\ Along(n, t) = S
  BY DEF List
<1>1. PICK t : Thread(h, next, prev, n, t) /\ Along(n, t) = S
  BY <1>0
<1>2. /\ t \in [0 .. n + 1 -> Units \cup {Null}]
      /\ t[0] = Null /\ t[n + 1] = Null /\ t[1] = h
      /\ \A i \in 1 .. n : t[i] \in Units /\ next[t[i]] = t[i + 1] /\ prev[t[i]] = t[i - 1]
      /\ \A i, j \in 1 .. n : t[i] = t[j] => i = j
  BY <1>1 DEF Thread
<1>3. \A i \in 1 .. n : t[i] \in S /\ t[i] # Null
  BY <1>1, <1>2, ConstantsType DEF Along
<1>4. PICK k \in 1 .. n : u = t[k]
  BY <1>1 DEF Along
<1>5. prev[u] = t[k - 1] /\ next[u] = t[k + 1]
  BY <1>2, <1>4
<1>6. PICK m \in Nat : n = m + 1 /\ m = n - 1
  OBVIOUS
<1> DEFINE w == [i \in 0 .. m + 1 |-> IF i < k THEN t[i] ELSE t[i + 1]]
<1>7. /\ w \in [0 .. m + 1 -> Units \cup {Null}]
      /\ \A i \in 0 .. m + 1 : w[i] = IF i < k THEN t[i] ELSE t[i + 1]
  <2>1. \A i \in 0 .. m + 1 : i \in 0 .. n + 1 /\ i + 1 \in 0 .. n + 1
    BY <1>6
  <2> QED
    BY <1>2, <2>1
<1> HIDE DEF w
<1>8. w[0] = Null /\ w[m + 1] = Null
  <2>1. 0 < k /\ ~(m + 1 < k) /\ 0 \in 0 .. m + 1 /\ m + 1 \in 0 .. m + 1 /\ (m + 1) + 1 = n + 1
    BY <1>6
  <2> QED
    BY <2>1, <1>2, <1>7
<1>9. prev[u] = Null <=> k = 1
  <2>1. CASE k = 1
    BY <2>1, <1>2, <1>5
  <2>2. CASE k # 1
    <3>1. k - 1 \in 1 .. n
      BY <2>2
    <3> QED
      BY <3>1, <2>2, <1>3, <1>5
  <2> QED
    BY <2>1, <2>2
<1>10. w[1] = h2
  <2>1. 1 \in 0 .. m + 1
    OBVIOUS
  <2>2. w[1] = IF 1 < k THEN t[1] ELSE t[1 + 1]
    BY <1>7, <2>1
  <2>3. CASE k = 1
    BY <2>2, <2>3, <1>5, <1>9, <1>a
  <2>4. CASE k # 1
    BY <2>2, <2>4, <1>2, <1>9, <1>a
  <2> QED
    BY <2>3, <2>4
(* Where the i-th unit of the shorter thread stood.                        *)
<1> DEFINE at(i) == IF i < k THEN i ELSE i + 1
<1>11. \A i \in 1 .. m : at(i) \in 1 .. n /\ at(i) # k /\ w[i] = t[at(i)]
  <2>1. \A i \in 1 .. m : i \in 0 .. m + 1 /\ at(i) \in 1 .. n /\ at(i) # k
    BY <1>6
  <2> QED
    BY <2>1, <1>7
<1>12. ASSUME NEW i \in 1 .. m
       PROVE  w[i] \in Units /\ next2[w[i]] = w[i + 1] /\ prev2[w[i]] = w[i - 1]
  <2>1. PICK a \in 1 .. n : a = at(i) /\ a # k /\ w[i] = t[a]
    BY <1>11
  <2>2. t[a] \in S \ {u} /\ t[a] \in Units /\ next[t[a]] = t[a + 1] /\ prev[t[a]] = t[a - 1]
    BY <1>2, <1>3, <1>4, <2>1
  <2>3. next2[t[a]] = w[i + 1]
    <3>1. next2[t[a]] = IF t[a] = t[k - 1] THEN t[k + 1] ELSE t[a + 1]
      BY <2>2, <1>5, <1>a
    <3>2. i + 1 \in 0 .. m + 1
      BY <1>6
    <3>3. w[i + 1] = IF i + 1 < k THEN t[i + 1] ELSE t[(i + 1) + 1]
      BY <1>7, <3>2
    <3>4. CASE a = k - 1
      <4>1. i = k - 1 /\ ~(i + 1 < k) /\ (i + 1) + 1 = k + 1
        BY <3>4, <2>1
      <4> QED
        BY <4>1, <3>1, <3>3, <3>4
    <3>5. CASE a # k - 1
      <4>1. t[a] # t[k - 1]
        <5>1. CASE k = 1
          BY <5>1, <1>2, <2>1, <1>3
        <5>2. CASE k # 1
          <6>1. k - 1 \in 1 .. n
            BY <5>2
          <6> QED
            BY <6>1, <3>5, <1>2
        <5> QED
          BY <5>1, <5>2
      <4>2. IF i + 1 < k THEN a + 1 = i + 1 ELSE a + 1 = (i + 1) + 1
        BY <3>5, <2>1
      <4> QED
        BY <4>1, <4>2, <3>1, <3>3
    <3> QED
      BY <3>4, <3>5
  <2>4. prev2[t[a]] = w[i - 1]
    <3>1. prev2[t[a]] = IF t[a] = t[k + 1] THEN t[k - 1] ELSE t[a - 1]
      BY <2>2, <1>5, <1>a
    <3>2. i - 1 \in 0 .. m + 1
      BY <1>6
    <3>3. w[i - 1] = IF i - 1 < k THEN t[i - 1] ELSE t[(i - 1) + 1]
      BY <1>7, <3>2
    <3>4. CASE a = k + 1
      <4>1. i = k /\ i - 1 < k
        BY <3>4, <2>1
      <4> QED
        BY <4>1, <3>1, <3>3, <3>4
    <3>5. CASE a # k + 1
      <4>1. t[a] # t[k + 1]
        <5>1. CASE k = n
          BY <5>1, <1>2, <2>1, <1>3
        <5>2. CASE k # n
          <6>1. k + 1 \in 1 .. n
            BY <5>2
          <6> QED
            BY <6>1, <3>5, <1>2
        <5> QED
          BY <5>1, <5>2
      <4>2. IF i - 1 < k THEN a - 1 = i - 1 ELSE a - 1 = (i - 1) + 1
        BY <3>5, <2>1
      <4> QED
        BY <4>1, <4>2, <3>1, <3>3
    <3> QED
      BY <3>4, <3>5
  <2> QED
    BY <2>1, <2>2, <2>3, <2>4
<1>13. ASSUME NEW i \in 1 .. m, NEW j \in 1 .. m, w[i] = w[j]
       PROVE  i = j
  <2>1. at(i) = at(j)
    BY <1>2, <1>11, <1>13
  <2> QED
    BY <2>1
<1> HIDE DEF at
<1>14. Along(m, w) = S \ {u}
  <2>1. ASSUME NEW i \in 1 .. m
        PROVE  w[i] \in S \ {u}
    <3>1. PICK a \in 1 .. n : a # k /\ w[i] = t[a]
      BY <1>11
    <3> QED
      BY <3>1, <1>2, <1>3, <1>4
  <2>2. ASSUME NEW a \in 1 .. n, a # k
        PROVE  t[a] \in Along(m, w)
    <3> DEFINE i == IF a < k THEN a ELSE a - 1
    <3>1. i \in 1 .. m /\ at(i) = a
      BY <2>2, <1>6 DEF at
    <3>2. w[i] = t[a]
      BY <3>1, <1>11
    <3> QED
      BY <3>1, <3>2 DEF Along
  <2>3. \A x \in S \ {u} : \E a \in 1 .. n : a # k /\ x = t[a]
    BY <1>1, <1>4 DEF Along
  <2> QED
    BY <2>1, <2>2, <2>3 DEF Along
<1>15. Thread(h2, next2, prev2, m, w)
  BY <1>7, <1>8, <1>10, <1>12, <1>13 DEF Thread
<1> QED
  BY <1>14, <1>15 DEF List

-----------------------------------------------------------------------------
(* The index as a whole: cl says in which class's list a unit is threaded. *)

Words == [head : [Classes -> Offsets], sl : [Levels -> SUBSET Seconds],
          fl : SUBSET Levels, next : [Units -> Offsets], prev : [Units -> Offsets]]

Unbinned == <<0, 0>>
In(cl, c) == {u \in Units : cl[u] = c}

Listed(b, cl) == \A c \in Classes : List(b.head[c], b.next, b.prev, In(cl, c))
Mapped(b, cl) == /\ \A c \in Classes : c[2] \in b.sl[c[1]] <=> In(cl, c) # {}
                 /\ b.fl = {f \in Levels : b.sl[f] # {}}
Stale(b, cl)  == \A u \in Units : cl[u] = Unbinned => b.next[u] = Junk /\ b.prev[u] = Junk

Index(b, cl) ==
  /\ b \in Words /\ cl \in [Units -> Classes \cup {Unbinned}]
  /\ Listed(b, cl) /\ Mapped(b, cl) /\ Stale(b, cl)

LEMMA ClassParts ==
  /\ Unbinned \notin Classes
  /\ \A c \in Classes : c[1] \in Levels /\ c[2] \in Seconds /\ c = <<c[1], c[2]>>
  BY DEF Unbinned, Classes, Levels

LEMMA WordParts ==
  ASSUME NEW b \in Words
  PROVE  /\ b.head \in [Classes -> Offsets] /\ b.sl \in [Levels -> SUBSET Seconds]
         /\ b.fl \in SUBSET Levels
         /\ b.next \in [Units -> Offsets] /\ b.prev \in [Units -> Offsets]
  BY DEF Words

LEMMA IndexReset == Index(reset, [u \in Units |-> Unbinned])
<1> DEFINE cl == [u \in Units |-> Unbinned]
           b  == reset
<1>1. /\ b \in Words
      /\ \A c \in Classes : b.head[c] = Null
      /\ \A f \in Levels : b.sl[f] = {}
      /\ b.fl = {}
      /\ \A u \in Units : b.next[u] = Junk /\ b.prev[u] = Junk
  BY DEF reset, Words, Offsets
<1>2. cl \in [Units -> Classes \cup {Unbinned}] /\ \A c \in Classes : In(cl, c) = {}
  BY ClassParts DEF In
<1> HIDE DEF b, cl
<1>3. Listed(b, cl)
  BY <1>1, <1>2, ListEmpty DEF Listed
<1>4. Mapped(b, cl)
  BY <1>1, <1>2, ClassParts DEF Mapped
<1>5. Stale(b, cl)
  BY <1>1 DEF Stale
<1> QED
  BY <1>1, <1>2, <1>3, <1>4, <1>5 DEF Index, b, cl

LEMMA IndexInsert ==
  ASSUME NEW b, NEW cl, Index(b, cl), NEW c \in Classes, NEW u \in Units, cl[u] = Unbinned
  PROVE  Index(bins_insert(b, c, u), [cl EXCEPT ![u] = c])
<1>1. /\ b \in Words /\ cl \in [Units -> Classes \cup {Unbinned}]
      /\ Listed(b, cl) /\ Mapped(b, cl) /\ Stale(b, cl)
  BY DEF Index
<1>2. /\ b.head \in [Classes -> Offsets] /\ b.sl \in [Levels -> SUBSET Seconds]
      /\ b.fl \in SUBSET Levels
      /\ b.next \in [Units -> Offsets] /\ b.prev \in [Units -> Offsets]
  BY <1>1, WordParts
<1>3. c[1] \in Levels /\ c[2] \in Seconds /\ Unbinned # c /\ u \in Offsets /\ Null \in Offsets
  BY ClassParts DEF Offsets
<1>4. PICK b2 : b2 = bins_insert(b, c, u)
  OBVIOUS
<1>5. PICK cl2 : cl2 = [cl EXCEPT ![u] = c]
  OBVIOUS
<1>6. /\ b2.head = [b.head EXCEPT ![c] = u]
      /\ b2.sl = [b.sl EXCEPT ![c[1]] = b.sl[c[1]] \cup {c[2]}]
      /\ b2.fl = b.fl \cup {c[1]}
      /\ b2.next = [b.next EXCEPT ![u] = b.head[c]]
      /\ b2.prev = [x \in Units |-> IF x = u THEN Null ELSE IF x = b.head[c] THEN u ELSE b.prev[x]]
      /\ b2 = [head |-> b2.head, sl |-> b2.sl, fl |-> b2.fl, next |-> b2.next, prev |-> b2.prev]
  BY <1>4 DEF bins_insert
<1>7. /\ b2.head \in [Classes -> Offsets]
      /\ \A d \in Classes : b2.head[d] = IF d = c THEN u ELSE b.head[d]
  BY <1>2, <1>3, <1>6
<1>8. /\ b2.sl \in [Levels -> SUBSET Seconds]
      /\ \A f \in Levels : b2.sl[f] = IF f = c[1] THEN b.sl[f] \cup {c[2]} ELSE b.sl[f]
  <2>1. PICK sl2 \in SUBSET Seconds : sl2 = b.sl[c[1]] \cup {c[2]}
    BY <1>2, <1>3
  <2>2. b2.sl = [b.sl EXCEPT ![c[1]] = sl2]
    BY <2>1, <1>6
  <2> QED
    BY <2>1, <2>2, <1>2, <1>3
<1>9. /\ b2.next \in [Units -> Offsets] /\ b2.prev \in [Units -> Offsets]
      /\ \A x \in Units : /\ b2.next[x] = IF x = u THEN b.head[c] ELSE b.next[x]
                          /\ b2.prev[x] = IF x = u THEN Null
                                          ELSE IF x = b.head[c] THEN u ELSE b.prev[x]
  BY <1>2, <1>3, <1>6
<1>10. b2 \in Words
  <2>1. b2.fl \in SUBSET Levels
    BY <1>2, <1>3, <1>6
  <2> QED
    BY <2>1, <1>6, <1>7, <1>8, <1>9 DEF Words
<1>11. /\ cl2 \in [Units -> Classes \cup {Unbinned}]
       /\ \A x \in Units : cl2[x] = IF x = u THEN c ELSE cl[x]
  BY <1>1, <1>5
<1>12. /\ In(cl2, c) = In(cl, c) \cup {u} /\ u \notin In(cl, c)
       /\ \A d \in Classes : d # c => In(cl2, d) = In(cl, d) /\ u \notin In(cl, d)
  BY <1>3, <1>11, ClassParts DEF In
<1>13. Listed(b2, cl2)
  <2>1. List(b.head[c], b.next, b.prev, In(cl, c))
    BY <1>1 DEF Listed
  <2>2. \A x \in In(cl, c) : x \in Units /\ x # u
    BY <1>12 DEF In
  <2>3. List(u, b2.next, b2.prev, In(cl, c) \cup {u})
    <3>1. b2.next[u] = b.head[c] /\ b2.prev[u] = Null
      BY <1>9
    <3>2. \A x \in In(cl, c) : /\ b2.next[x] = b.next[x]
                               /\ b2.prev[x] = IF x = b.head[c] THEN u ELSE b.prev[x]
      BY <1>9, <2>2
    <3> QED
      BY <2>1, <1>12, <3>1, <3>2, ListCons
  <2>4. ASSUME NEW d \in Classes, d # c
        PROVE  List(b.head[d], b2.next, b2.prev, In(cl, d))
    <3>1. List(b.head[d], b.next, b.prev, In(cl, d))
      BY <1>1 DEF Listed
    <3>2. b.head[c] \in In(cl, c) \cup {Null}
      BY <2>1, ListLinks
    <3>3. \A x \in In(cl, d) : x \in Units /\ x # u /\ x # b.head[c]
      BY <3>2, <2>4, <1>12, ConstantsType DEF In
    <3>4. \A x \in In(cl, d) : b2.next[x] = b.next[x] /\ b2.prev[x] = b.prev[x]
      BY <1>9, <3>3
    <3> QED
      BY <3>1, <3>4, ListSame
  <2>5. \A d \in Classes : List(b2.head[d], b2.next, b2.prev, In(cl2, d))
    BY <2>3, <2>4, <1>7, <1>12
  <2> QED
    BY <2>5 DEF Listed
<1>14. Mapped(b2, cl2)
  <2>1. ASSUME NEW d \in Classes
        PROVE  d[2] \in b2.sl[d[1]] <=> In(cl2, d) # {}
    <3>1. d[1] \in Levels /\ (d[2] \in b.sl[d[1]] <=> In(cl, d) # {})
      BY <1>1, ClassParts DEF Mapped
    <3>2. CASE d = c
      BY <3>2, <1>3, <1>8, <1>12
    <3>3. CASE d # c
      <4>1. d[1] # c[1] \/ d[2] # c[2]
        BY <3>3, ClassParts
      <4> QED
        BY <4>1, <3>1, <3>3, <1>8, <1>12
    <3> QED
      BY <3>2, <3>3
  <2>2. b.fl = {f \in Levels : b.sl[f] # {}}
    BY <1>1 DEF Mapped
  <2>3. b2.fl = {f \in Levels : b2.sl[f] # {}}
    BY <2>2, <1>3, <1>6, <1>8
  <2> QED
    BY <2>1, <2>3 DEF Mapped
<1>15. Stale(b2, cl2)
  <2> SUFFICES ASSUME NEW x \in Units, cl2[x] = Unbinned
               PROVE  b2.next[x] = Junk /\ b2.prev[x] = Junk
    BY DEF Stale
  <2>1. x # u /\ cl[x] = Unbinned
    BY <1>3, <1>11
  <2>2. b.next[x] = Junk /\ b.prev[x] = Junk
    BY <1>1, <2>1 DEF Stale
  <2>3. b.head[c] # x
    <3>1. b.head[c] \in In(cl, c) \cup {Null}
      BY <1>1, ListLinks DEF Listed
    <3> QED
      BY <3>1, <2>1, <1>3, ConstantsType DEF In
  <2> QED
    BY <2>1, <2>2, <2>3, <1>9
<1>16. Index(b2, cl2)
  BY <1>10, <1>11, <1>13, <1>14, <1>15 DEF Index
<1> QED
  BY <1>4, <1>5, <1>16

LEMMA IndexRemove ==
  ASSUME NEW b, NEW cl, Index(b, cl), NEW u \in Units, NEW c \in Classes, cl[u] = c
  PROVE  Index(Scribbled(bins_remove(b, c, u), u), [cl EXCEPT ![u] = Unbinned])
<1>1. /\ b \in Words /\ cl \in [Units -> Classes \cup {Unbinned}]
      /\ Listed(b, cl) /\ Mapped(b, cl) /\ Stale(b, cl)
  BY DEF Index
<1>2. /\ b.head \in [Classes -> Offsets] /\ b.sl \in [Levels -> SUBSET Seconds]
      /\ b.fl \in SUBSET Levels
      /\ b.next \in [Units -> Offsets] /\ b.prev \in [Units -> Offsets]
  BY <1>1, WordParts
<1>3. c[1] \in Levels /\ c[2] \in Seconds /\ Unbinned # c /\ Unbinned \notin Classes
  BY ClassParts
<1>a. u \in Offsets /\ Null \in Offsets /\ Junk \in Offsets
  BY DEF Offsets
<1>4. PICK p \in Offsets, n \in Offsets : p = b.prev[u] /\ n = b.next[u]
  BY <1>2
<1>5. PICK hd : hd = IF p = Null THEN [b.head EXCEPT ![c] = n] ELSE b.head
  OBVIOUS
<1>6. PICK sl : sl = IF hd[c] = Null THEN [b.sl EXCEPT ![c[1]] = b.sl[c[1]] \ {c[2]}] ELSE b.sl
  OBVIOUS
<1>7. PICK fl : fl = IF hd[c] = Null /\ sl[c[1]] = {} THEN b.fl \ {c[1]} ELSE b.fl
  OBVIOUS
<1>8. PICK nx : nx = [x \in Units |-> IF x = u THEN Null ELSE IF x = p THEN n ELSE b.next[x]]
  OBVIOUS
<1>9. PICK pv : pv = [x \in Units |-> IF x = u THEN Null ELSE IF x = n THEN p ELSE b.prev[x]]
  OBVIOUS
<1>10. bins_remove(b, c, u) = [head |-> hd, sl |-> sl, fl |-> fl, next |-> nx, prev |-> pv]
  BY <1>4, <1>5, <1>6, <1>7, <1>8, <1>9, Zenon DEF bins_remove
<1>11. PICK b2 : b2 = [head |-> hd, sl |-> sl, fl |-> fl, next |-> [nx EXCEPT ![u] = Junk],
                       prev |-> [pv EXCEPT ![u] = Junk]]
  OBVIOUS
<1>12. Scribbled(bins_remove(b, c, u), u) = b2
  <2>1. PICK r : r = [head |-> hd, sl |-> sl, fl |-> fl, next |-> nx, prev |-> pv]
    OBVIOUS
  <2>2. [r EXCEPT !.next[u] = Junk, !.prev[u] = Junk] = b2
    <3>1. PICK nx2 : nx2 = [nx EXCEPT ![u] = Junk]
      OBVIOUS
    <3>2. PICK pv2 : pv2 = [pv EXCEPT ![u] = Junk]
      OBVIOUS
    <3>3. PICK r2 : r2 = [r EXCEPT !.next[u] = Junk]
      OBVIOUS
    <3>4. r2 = [head |-> hd, sl |-> sl, fl |-> fl, next |-> nx2, prev |-> pv]
      BY ONLY <2>1, <3>1, <3>3
    <3>5. PICK r3 : r3 = [r2 EXCEPT !.prev[u] = Junk]
      OBVIOUS
    <3>6. r3 = [head |-> hd, sl |-> sl, fl |-> fl, next |-> nx2, prev |-> pv2]
      BY ONLY <3>2, <3>4, <3>5
    <3>7. r3 = [r EXCEPT !.next[u] = Junk, !.prev[u] = Junk]
      BY ONLY <3>3, <3>5, Zenon
    <3> QED
      BY ONLY <3>1, <3>2, <3>6, <3>7, <1>11, Zenon
  <2> QED
    BY <2>1, <2>2, <1>10 DEF Scribbled
<1>13. /\ b2.head = hd /\ hd \in [Classes -> Offsets]
       /\ hd[c] = IF p = Null THEN n ELSE b.head[c]
       /\ \A d \in Classes : d # c => hd[d] = b.head[d]
  BY <1>2, <1>4, <1>5, <1>11
<1>14. /\ b2.sl = sl /\ sl \in [Levels -> SUBSET Seconds]
       /\ \A f \in Levels :
            sl[f] = IF hd[c] = Null /\ f = c[1] THEN b.sl[f] \ {c[2]} ELSE b.sl[f]
  BY <1>2, <1>3, <1>6, <1>11
<1>15. b2.fl = fl /\ fl \in SUBSET Levels
  BY <1>2, <1>7, <1>11
<1>16. /\ b2.next \in [Units -> Offsets] /\ b2.prev \in [Units -> Offsets]
       /\ \A x \in Units : /\ b2.next[x] = IF x = u THEN Junk ELSE IF x = p THEN n ELSE b.next[x]
                           /\ b2.prev[x] = IF x = u THEN Junk ELSE IF x = n THEN p ELSE b.prev[x]
  <2>1. b2.next = [nx EXCEPT ![u] = Junk] /\ b2.prev = [pv EXCEPT ![u] = Junk]
    BY <1>11
  <2>2. nx \in [Units -> Offsets] /\ pv \in [Units -> Offsets]
    BY <1>2, <1>a, <1>4, <1>8, <1>9
  <2> QED
    BY <2>1, <2>2, <1>a, <1>8, <1>9
<1>17. b2 \in Words
  BY <1>11, <1>13, <1>14, <1>15, <1>16 DEF Words
<1>18. PICK cl2 : cl2 = [cl EXCEPT ![u] = Unbinned]
  OBVIOUS
<1>19. /\ cl2 \in [Units -> Classes \cup {Unbinned}]
       /\ \A x \in Units : cl2[x] = IF x = u THEN Unbinned ELSE cl[x]
  BY <1>1, <1>18
<1>20. /\ In(cl2, c) = In(cl, c) \ {u} /\ u \in In(cl, c)
       /\ \A d \in Classes : d # c => In(cl2, d) = In(cl, d) /\ u \notin In(cl, d)
  BY <1>3, <1>19 DEF In
<1>21. List(b.head[c], b.next, b.prev, In(cl, c))
  BY <1>1 DEF Listed
<1>22. p \in (In(cl, c) \ {u}) \cup {Null} /\ n \in (In(cl, c) \ {u}) \cup {Null}
  BY <1>4, <1>20, <1>21, ListLinks
<1>23. List(hd[c], b2.next, b2.prev, In(cl2, c))
  <2>1. \A x \in In(cl, c) \ {u} :
          /\ b2.next[x] = IF x = b.prev[u] THEN b.next[u] ELSE b.next[x]
          /\ b2.prev[x] = IF x = b.next[u] THEN b.prev[u] ELSE b.prev[x]
    BY <1>4, <1>16 DEF In
  <2>2. Unlinked(b.head[c], b.next, b.prev, In(cl, c), u, hd[c], b2.next, b2.prev)
    BY <2>1, <1>4, <1>13 DEF Unlinked
  <2>3. List(hd[c], b2.next, b2.prev, In(cl, c) \ {u})
    BY <2>2, <1>20, <1>21, ListCut
  <2> QED
    BY <2>3, <1>20
<1>24. Listed(b2, cl2)
  <2>1. ASSUME NEW d \in Classes, d # c
        PROVE  List(b.head[d], b2.next, b2.prev, In(cl, d))
    <3>1. List(b.head[d], b.next, b.prev, In(cl, d))
      BY <1>1 DEF Listed
    <3>2. \A x \in In(cl, d) : x \in Units /\ x # u /\ x # p /\ x # n
      BY <1>20, <1>22, <2>1, ConstantsType DEF In
    <3>3. \A x \in In(cl, d) : b2.next[x] = b.next[x] /\ b2.prev[x] = b.prev[x]
      BY <1>16, <3>2
    <3> QED
      BY <3>1, <3>3, ListSame
  <2> QED
    BY <2>1, <1>13, <1>20, <1>23 DEF Listed
<1>25. Mapped(b2, cl2)
  <2>1. hd[c] = Null <=> In(cl2, c) = {}
    BY <1>23, ListLinks
  <2>2. ASSUME NEW d \in Classes
        PROVE  d[2] \in sl[d[1]] <=> In(cl2, d) # {}
    <3>1. d[1] \in Levels /\ (d[2] \in b.sl[d[1]] <=> In(cl, d) # {})
      BY <1>1, ClassParts DEF Mapped
    <3>2. CASE d = c
      BY <3>1, <3>2, <2>1, <1>14, <1>20
    <3>3. CASE d # c
      <4>1. d[1] # c[1] \/ d[2] # c[2]
        BY <3>3, ClassParts
      <4> QED
        BY <4>1, <3>1, <3>3, <1>14, <1>20
    <3> QED
      BY <3>2, <3>3
  <2>3. b.fl = {f \in Levels : b.sl[f] # {}}
    BY <1>1 DEF Mapped
  <2>4. fl = {f \in Levels : sl[f] # {}}
    <3>1. c[2] \in b.sl[c[1]]
      BY <1>1, <1>20 DEF Mapped
    <3>2. CASE hd[c] = Null
      BY <3>1, <3>2, <2>3, <1>3, <1>7, <1>14
    <3>3. CASE hd[c] # Null
      BY <3>3, <2>3, <1>7, <1>14
    <3> QED
      BY <3>2, <3>3
  <2> QED
    BY <2>2, <2>4, <1>14, <1>15 DEF Mapped
<1>26. Stale(b2, cl2)
  <2> SUFFICES ASSUME NEW x \in Units, cl2[x] = Unbinned
               PROVE  b2.next[x] = Junk /\ b2.prev[x] = Junk
    BY DEF Stale
  <2>1. CASE x = u
    BY <2>1, <1>16
  <2>2. CASE x # u
    <3>1. cl[x] = Unbinned
      BY <2>2, <1>19
    <3>2. b.next[x] = Junk /\ b.prev[x] = Junk
      BY <1>1, <3>1 DEF Stale
    <3>3. x # p /\ x # n
      BY <3>1, <1>3, <1>22, ConstantsType DEF In
    <3> QED
      BY <2>2, <3>2, <3>3, <1>16
  <2> QED
    BY <2>1, <2>2
<1>27. Index(b2, cl2)
  BY <1>17, <1>19, <1>24, <1>25, <1>26 DEF Index
<1> QED
  BY <1>12, <1>18, <1>27

-----------------------------------------------------------------------------
(* What a walk from a head reads, whatever the words say: the head, then   *)
(* the next word of each offset it may follow, until Null or the cap.      *)

Follows(s, m, h, next) ==
  /\ s \in [1 .. m -> Offsets \ {Null}]
  /\ m = 0 <=> h = Null
  /\ m # 0 => s[1] = h
  /\ \A i \in 1 .. m : i # m => s[i] \in Units /\ s[i + 1] = next[s[i]]
  /\ m # 0 /\ m <= MaxSteps => (s[m] \in Units => next[s[m]] = Null)

LEMMA MaxStepsType == MaxSteps \in Nat \ {0}
  BY ConstantsType DEF MaxSteps

LEMMA ChainFollows ==
  ASSUME NEW b \in Words, NEW c \in Classes
  PROVE  \E m \in 0 .. MaxSteps + 1 : Follows(Chain(b, c), m, b.head[c], b.next)
<1> DEFINE Eq(g) == g = [i \in 0 .. MaxSteps |->
                           IF i = 0 THEN b.head[c]
                           ELSE IF g[i - 1] \in Units THEN b.next[g[i - 1]] ELSE Null]
           walk == CHOOSE g : Eq(g)
<1>1. /\ b.head[c] \in Offsets /\ b.next \in [Units -> Offsets] /\ Null \in Offsets
      /\ Units \subseteq Offsets /\ Null \notin Units
  BY WordParts, ConstantsType DEF Offsets
<1>2. \E g : Eq(g)
  <2> DEFINE step == [x \in Offsets |-> IF x \in Units THEN b.next[x] ELSE Null]
  <2>1. /\ step \in [Offsets -> Offsets]
        /\ \A x \in Offsets : step[x] = IF x \in Units THEN b.next[x] ELSE Null
    BY <1>1
  <2> HIDE DEF step
  <2>2. PICK g : Iterates(g, MaxSteps, Offsets, b.head[c], step)
    BY <1>1, <2>1, MaxStepsType, StepsExist
  <2>3. /\ g \in [0 .. MaxSteps -> Offsets] /\ g[0] = b.head[c]
        /\ \A i \in 1 .. MaxSteps : g[i] = step[g[i - 1]]
    BY <2>2 DEF Iterates
  <2>4. ASSUME NEW i \in 0 .. MaxSteps
        PROVE  g[i] = IF i = 0 THEN b.head[c]
                      ELSE IF g[i - 1] \in Units THEN b.next[g[i - 1]] ELSE Null
    <3>1. CASE i = 0
      BY <3>1, <2>3
    <3>2. CASE i # 0
      <4>1. i \in 1 .. MaxSteps /\ i - 1 \in 0 .. MaxSteps
        BY <3>2, MaxStepsType
      <4> QED
        BY <3>2, <4>1, <2>1, <2>3
    <3> QED
      BY <3>1, <3>2
  <2>5. Eq(g)
    <3>1. g = [i \in 0 .. MaxSteps |-> g[i]]
      BY <2>3
    <3>2. [i \in 0 .. MaxSteps |-> g[i]]
            = [i \in 0 .. MaxSteps |->
                 IF i = 0 THEN b.head[c]
                 ELSE IF g[i - 1] \in Units THEN b.next[g[i - 1]] ELSE Null]
      BY ONLY <2>4, Zenon
    <3> QED
      BY <3>1, <3>2
  <2> QED
    BY <2>5
<1>3. Eq(walk)
  BY <1>2
<1> DEFINE Read == {i \in 0 .. MaxSteps : walk[i] # Null}
<1>4. Chain(b, c) = [i \in 1 .. Cardinality(Read) |-> walk[i - 1]]
  BY Zenon DEF Chain
<1>5. PICK w : w = walk
  OBVIOUS
<1>6. w = [i \in 0 .. MaxSteps |->
             IF i = 0 THEN b.head[c]
             ELSE IF w[i - 1] \in Units THEN b.next[w[i - 1]] ELSE Null]
  BY <1>3, <1>5
<1> DEFINE R == {i \in 0 .. MaxSteps : w[i] # Null}
<1>7. Chain(b, c) = [i \in 1 .. Cardinality(R) |-> w[i - 1]]
  BY <1>4, <1>5
<1> HIDE DEF walk, Read, Eq
<1>8. /\ w[0] = b.head[c]
      /\ \A i \in 0 .. MaxSteps : i # 0 => w[i] = IF w[i - 1] \in Units THEN b.next[w[i - 1]] ELSE Null
  <2>1. PICK v : v = [i \in 0 .. MaxSteps |->
                        IF i = 0 THEN b.head[c]
                        ELSE IF w[i - 1] \in Units THEN b.next[w[i - 1]] ELSE Null]
    OBVIOUS
  <2>2. \A i \in 0 .. MaxSteps :
          v[i] = IF i = 0 THEN b.head[c]
                 ELSE IF w[i - 1] \in Units THEN b.next[w[i - 1]] ELSE Null
    BY ONLY <2>1
  <2>3. w = v
    BY ONLY <2>1, <1>6, Zenon
  <2>4. 0 \in 0 .. MaxSteps
    BY MaxStepsType
  <2> QED
    BY ONLY <2>2, <2>3, <2>4
<1>9. \A i \in 0 .. MaxSteps : w[i] \in Offsets
  <2>1. w[0] \in Offsets
    BY <1>1, <1>8
  <2>2. ASSUME NEW i \in 0 .. MaxSteps, i # 0
        PROVE  w[i] \in Offsets
    BY <1>1, <1>8, <2>2
  <2> QED
    BY <2>1, <2>2
(* Once Null, a walk stays Null.                                           *)
<1>10. ASSUME NEW i \in 0 .. MaxSteps, w[i] # Null
       PROVE  \A j \in 0 .. i : w[j] # Null
  <2> DEFINE S == {k \in 0 .. i : w[i - k] # Null}
  <2>1. i \in Nat
    BY MaxStepsType
  <2>2. 0 \in S
    BY <1>10, <2>1
  <2>3. ASSUME NEW k \in 0 .. i - 1, k \in S
        PROVE  k + 1 \in S
    <3>1. /\ i - k \in 0 .. MaxSteps /\ i - k # 0 /\ (i - k) - 1 = i - (k + 1)
          /\ k + 1 \in 0 .. i
      BY <2>1, MaxStepsType
    <3>2. w[i - k] # Null
      BY <2>3
    <3>3. w[(i - k) - 1] \in Units
      BY <1>8, <3>1, <3>2
    <3> QED
      BY <3>1, <3>3, <1>1
  <2> HIDE DEF S
  <2>4. \A k \in 0 .. i : k \in S
    BY <2>1, <2>2, <2>3, UpTo
  <2>5. ASSUME NEW j \in 0 .. i
        PROVE  w[j] # Null
    <3>1. i - j \in 0 .. i /\ i - (i - j) = j
      BY <2>1
    <3>2. i - j \in S
      BY <2>4, <3>1
    <3> QED
      BY <3>1, <3>2 DEF S
  <2> QED
    BY <2>5
<1>11. PICK m \in 0 .. MaxSteps + 1 : /\ \A i \in 0 .. MaxSteps : w[i] # Null <=> i < m
  <2> DEFINE E == {i \in 0 .. MaxSteps : w[i] = Null} \cup {MaxSteps + 1}
  <2>1. E \in SUBSET Nat /\ E # {}
    BY MaxStepsType
  <2> HIDE DEF E
  <2>2. PICK m \in E : \A k \in E : m <= k
    BY <2>1, LeastNumber
  <2>3. m \in 0 .. MaxSteps + 1
    BY <2>2, MaxStepsType DEF E
  <2>4. ASSUME NEW i \in 0 .. MaxSteps
        PROVE  w[i] # Null <=> i < m
    <3>1. CASE i < m
      <4>1. i \notin E
        BY <3>1, <2>2, <2>3, MaxStepsType
      <4> QED
        BY <3>1, <4>1 DEF E
    <3>2. CASE ~(i < m)
      <4>1. m \in 0 .. MaxSteps /\ m \in 0 .. i
        BY <3>2, <2>3, MaxStepsType
      <4>2. w[m] = Null
        BY <2>2, <4>1, MaxStepsType DEF E
      <4> QED
        BY <3>2, <4>1, <4>2, <1>10
    <3> QED
      BY <3>1, <3>2
  <2> QED
    BY <2>3, <2>4
<1>12. Cardinality(R) = m
  <2>1. R = 0 .. m - 1
    BY <1>11, MaxStepsType
  <2>2. PICK z \in Int : z = m - 1
    BY MaxStepsType
  <2>3. PICK a \in Int : a = 0
    OBVIOUS
  <2>4. Cardinality(a .. z) = IF a > z THEN 0 ELSE z - a + 1
    BY FS_Interval
  <2>5. R = a .. z
    BY <2>1, <2>2, <2>3
  <2> HIDE DEF R
  <2>6. Cardinality(R) = IF a > z THEN 0 ELSE z - a + 1
    BY <2>4, <2>5
  <2> QED
    BY <2>2, <2>3, <2>6, MaxStepsType
<1> HIDE DEF R
<1>13. PICK s : s = Chain(b, c)
  OBVIOUS
<1>14. s = [i \in 1 .. m |-> w[i - 1]]
  BY <1>7, <1>12, <1>13
<1>15. \A i \in 1 .. m : i - 1 \in 0 .. MaxSteps /\ i - 1 < m /\ s[i] = w[i - 1]
  BY <1>14, MaxStepsType
<1>16. s \in [1 .. m -> Offsets \ {Null}]
  BY <1>9, <1>11, <1>14, <1>15
<1>17. (m = 0 <=> b.head[c] = Null) /\ (m # 0 => s[1] = b.head[c])
  <2>1. 0 \in 0 .. MaxSteps /\ (w[0] # Null <=> 0 < m)
    BY <1>11, MaxStepsType
  <2>2. m # 0 => 1 \in 1 .. m
    BY MaxStepsType
  <2> QED
    BY <2>1, <2>2, <1>8, <1>15, MaxStepsType
<1>18. ASSUME NEW i \in 1 .. m, i # m
       PROVE  s[i] \in Units /\ s[i + 1] = b.next[s[i]]
  <2>1. i \in 0 .. MaxSteps /\ i # 0 /\ i < m /\ i + 1 \in 1 .. m /\ (i + 1) - 1 = i
    BY <1>18, MaxStepsType
  <2>2. w[i] # Null /\ s[i + 1] = w[i] /\ s[i] = w[i - 1]
    BY <2>1, <1>11, <1>15
  <2> QED
    BY <2>1, <2>2, <1>8
<1>19. ASSUME m # 0, m <= MaxSteps, s[m] \in Units
       PROVE  b.next[s[m]] = Null
  <2>1. m \in 0 .. MaxSteps /\ m \in 1 .. m /\ ~(m < m)
    BY <1>19, MaxStepsType
  <2>2. w[m] = Null /\ s[m] = w[m - 1]
    BY <2>1, <1>11, <1>15
  <2> QED
    BY <2>1, <2>2, <1>8, <1>19
<1>20. Follows(s, m, b.head[c], b.next)
  BY <1>16, <1>17, <1>18, <1>19 DEF Follows
<1> QED
  BY <1>13, <1>20

-----------------------------------------------------------------------------
(* Blocks tile the pool.                                                   *)

Size(o, u) == IF o[u] < 0 THEN -o[u] ELSE o[u]

Tiling(o) ==
  /\ o \in [Units -> -Zone .. Zone]
  /\ o[0] # 0
  /\ \A u \in Units : o[u] # 0 =>
       /\ Size(o, u) >= MinBlock
       /\ u + Size(o, u) = Zone \/ (u + Size(o, u) \in Units /\ o[u + Size(o, u)] # 0)
       /\ \A x \in Units : u < x /\ x < u + Size(o, u) => o[x] = 0

(* The class of every free block that finalize_layout has inserted.        *)
Binned(o, td) ==
  [u \in Units |-> IF o[u] < 0 /\ u \notin td THEN ClassOf(Size(o, u)) ELSE Unbinned]

(* The inductive invariant: each part needs the others.  A block's class   *)
(* is that of its header, alloc and free move headers and links together,  *)
(* and words that hold no block hold no link.                              *)
BinsInvariant ==
  /\ Tiling(own)
  /\ todo \subseteq FreeBlocks
  /\ Index(bins, Binned(own, todo))

LEMMA SizeIs == \A u : SizeAt(u) = Size(own, u)
  BY DEF SizeAt, IsFree, Size

LEMMA TileShape ==
  ASSUME NEW o, Tiling(o), NEW u \in Units, o[u] # 0
  PROVE  /\ u \in Nat /\ o[u] \in Int /\ Size(o, u) \in MinBlock .. Zone
         /\ ClassOf(Size(o, u)) \in Classes
         /\ u + Size(o, u) <= Zone
<1>1. o[u] \in -Zone .. Zone /\ u \in Nat /\ u < Zone /\ Zone \in Nat
  BY ConstantsType DEF Tiling, Units
<1>2. Size(o, u) \in MinBlock .. Zone
  BY <1>1, ConstantsType DEF Size, Tiling
<1>3. u + Size(o, u) <= Zone
  BY <1>1, <1>2, ConstantsType DEF Tiling, Units
<1> QED
  BY <1>1, <1>2, <1>3, ClassType, ConstantsType

LEMMA BlocksApart ==
  ASSUME NEW o, Tiling(o), NEW u \in Units, NEW v \in Units, o[u] # 0, o[v] # 0, u < v
  PROVE  u + Size(o, u) <= v
<1>1. /\ u \in Int /\ v \in Int /\ Size(o, u) \in Int
  BY TileShape, ConstantsType
<1>2. ~(u < v /\ v < u + Size(o, u))
  BY DEF Tiling
<1> QED
  BY <1>1, <1>2

(* No more blocks than a list may have hops.                               *)
LEMMA BlockCount ==
  ASSUME NEW o, Tiling(o), NEW S \in SUBSET {u \in Units : o[u] # 0}
  PROVE  IsFiniteSet(S) /\ Cardinality(S) \in 0 .. MaxSteps
<1>1. Zone \in Nat /\ MaxSteps - 1 \in Nat /\ MaxSteps = Zone \div 2 + 1 /\ MinBlock = 2
  BY ConstantsType DEF MaxSteps
<1> DEFINE half == [u \in S |-> u \div 2]
           T    == 0 .. MaxSteps - 1
<1>2. \A u \in S : u \in Nat /\ u < Zone
  BY ConstantsType DEF Units
<1>3. half \in [S -> T]
  <2>1. ASSUME NEW u \in S
        PROVE  u \div 2 \in T
    <3>1. PICK x \in Nat, z \in Nat : x = u /\ z = Zone /\ x < z
      BY <1>1, <1>2
    <3>2. x \div 2 \in Nat /\ z \div 2 \in Nat /\ x \div 2 <= z \div 2
      BY <3>1
    <3> QED
      BY <3>1, <3>2, <1>1
  <2> QED
    BY <2>1
<1>4. ASSUME NEW u \in S, NEW v \in S, half[u] = half[v]
      PROVE  u = v
  <2>1. PICK x \in Nat, y \in Nat : x = u /\ y = v
    BY <1>2
  <2>2. x \div 2 = y \div 2
    BY <1>4, <2>1
  <2>3. ~(x + 2 <= y) /\ ~(y + 2 <= x)
    BY <2>2
  <2>4. Size(o, u) >= 2 /\ Size(o, v) >= 2 /\ Size(o, u) \in Int /\ Size(o, v) \in Int
    BY TileShape, <1>1
  <2>5. u < v => u + Size(o, u) <= v
    BY BlocksApart
  <2>6. v < u => v + Size(o, v) <= u
    BY BlocksApart
  <2> QED
    BY <2>1, <2>3, <2>4, <2>5, <2>6
<1>5. half \in Injection(S, T)
  <2> HIDE DEF half, T
  <2> QED
    BY <1>3, <1>4 DEF Injection, IsInjective
<1>6. IsFiniteSet(T) /\ Cardinality(T) = MaxSteps
  <2>1. PICK z \in Int : z = MaxSteps - 1
    BY <1>1
  <2>2. PICK a \in Int : a = 0
    OBVIOUS
  <2>3. IsFiniteSet(a .. z) /\ Cardinality(a .. z) = IF a > z THEN 0 ELSE z - a + 1
    BY FS_Interval
  <2> QED
    BY <2>1, <2>2, <2>3, <1>1
<1> HIDE DEF half, T
<1>7. IsFiniteSet(S) /\ Cardinality(S) <= MaxSteps
  BY <1>5, <1>6, FS_Injection
<1>8. Cardinality(S) \in Nat
  BY <1>7, FS_CardinalityType
<1> QED
  BY <1>7, <1>8, MaxStepsType

(* The walk of a sound index from the head of a class runs through that    *)
(* class's list and stops at its end, never at the cap.                    *)
LEMMA ListChain ==
  ASSUME NEW o, Tiling(o), NEW b, NEW cl, Index(b, cl), NEW c \in Classes,
         \A u \in Units : cl[u] \in Classes => o[u] # 0
  PROVE  \E n \in 0 .. MaxSteps : \E t :
           /\ Thread(b.head[c], b.next, b.prev, n, t) /\ Along(n, t) = In(cl, c)
           /\ Chain(b, c) \in [1 .. n -> Units]
           /\ \A i \in 1 .. n : Chain(b, c)[i] = t[i]
<1>1. List(b.head[c], b.next, b.prev, In(cl, c)) /\ b \in Words
  BY DEF Index, Listed
<1>2. PICK n \in Nat : \E t : Thread(b.head[c], b.next, b.prev, n, t) /\ Along(n, t) = In(cl, c)
  BY <1>1 DEF List
<1>3. PICK t : Thread(b.head[c], b.next, b.prev, n, t) /\ Along(n, t) = In(cl, c)
  BY <1>2
<1>4. /\ t \in [0 .. n + 1 -> Units \cup {Null}]
      /\ t[0] = Null /\ t[n + 1] = Null /\ t[1] = b.head[c]
      /\ \A i \in 1 .. n : t[i] \in Units /\ b.next[t[i]] = t[i + 1] /\ b.prev[t[i]] = t[i - 1]
      /\ \A i, j \in 1 .. n : t[i] = t[j] => i = j
  BY <1>3 DEF Thread
<1>5. IsFiniteSet(In(cl, c)) /\ Cardinality(In(cl, c)) \in 0 .. MaxSteps
  <2>1. In(cl, c) \in SUBSET {u \in Units : o[u] # 0}
    BY DEF In
  <2> QED
    BY <2>1, BlockCount
<1>6. n <= MaxSteps
  <2> DEFINE f == [i \in 1 .. n |-> t[i]]
  <2>1. f \in [1 .. n -> In(cl, c)] /\ \A i \in 1 .. n : f[i] = t[i]
    BY <1>3 DEF Along
  <2>2. f \in Injection(1 .. n, In(cl, c))
    <3> HIDE DEF f
    <3> QED
      BY <2>1, <1>4 DEF Injection, IsInjective
  <2>3. Cardinality(1 .. n) <= Cardinality(In(cl, c))
    BY <2>2, <1>5, FS_Injection
  <2>4. Cardinality(1 .. n) = n
    <3>1. PICK a \in Int : a = 1
      OBVIOUS
    <3>2. Cardinality(a .. n) = IF a > n THEN 0 ELSE n - a + 1
      BY FS_Interval
    <3> QED
      BY <3>1, <3>2
  <2> QED
    BY <2>3, <2>4, <1>5, MaxStepsType
<1>7. PICK s : s = Chain(b, c)
  OBVIOUS
<1>8. PICK m \in 0 .. MaxSteps + 1 : Follows(s, m, b.head[c], b.next)
  BY <1>1, <1>7, ChainFollows
<1>9. /\ s \in [1 .. m -> Offsets \ {Null}]
      /\ m = 0 <=> t[1] = Null
      /\ m # 0 => s[1] = t[1]
      /\ \A i \in 1 .. m : i # m => s[i] \in Units /\ s[i + 1] = b.next[s[i]]
      /\ m # 0 /\ m <= MaxSteps => (s[m] \in Units => b.next[s[m]] = Null)
  BY <1>4, <1>8 DEF Follows
<1>10. m \in Nat /\ MaxSteps \in Nat /\ m <= MaxSteps + 1
  BY MaxStepsType
<1>11. \A i \in 1 .. n : t[i] # Null
  BY <1>4, ConstantsType
(* Step by step the walk is where the thread is.                           *)
<1> DEFINE S == {k \in 0 .. m : k = 0 \/ (k <= n /\ s[k] = t[k])}
<1>12. ASSUME NEW k \in 0 .. m - 1, k \in S
       PROVE  k + 1 \in S
  <2>1. k + 1 \in 0 .. m /\ k + 1 \in 1 .. m /\ s[k + 1] # Null
    BY <1>9, <1>10
  <2>2. s[k + 1] = t[k + 1]
    <3>1. CASE k = 0
      BY <3>1, <2>1, <1>9
    <3>2. CASE k # 0
      <4>1. k \in 1 .. m /\ k # m /\ k \in 1 .. n /\ s[k] = t[k]
        BY <3>2, <1>12, <1>10
      <4> QED
        BY <4>1, <1>4, <1>9
    <3> QED
      BY <3>1, <3>2
  <2>3. k + 1 <= n
    <3>1. k <= n
      BY <1>12
    <3>2. k # n
      BY <2>1, <2>2, <1>4
    <3> QED
      BY <3>1, <3>2
  <2> QED
    BY <2>1, <2>2, <2>3
<1>13. \A k \in 0 .. m : k \in S
  <2>1. 0 \in S
    BY <1>10
  <2> HIDE DEF S
  <2> QED
    BY <2>1, <1>10, <1>12, UpTo
<1>14. \A k \in 1 .. m : k <= n /\ s[k] = t[k]
  BY <1>10, <1>13
<1>15. m = n
  <2>1. CASE m = 0
    <3>1. t[1] = Null
      BY <2>1, <1>9
    <3> QED
      BY <3>1, <2>1, <1>11
  <2>2. CASE m # 0
    <3>1. m \in 1 .. m /\ m <= n /\ s[m] = t[m] /\ m \in 1 .. n
      BY <2>2, <1>10, <1>14
    <3>2. t[m + 1] = Null
      BY <3>1, <2>2, <1>4, <1>6, <1>9, <1>10
    <3>3. m + 1 \notin 1 .. n
      BY <3>2, <1>11
    <3> QED
      BY <3>1, <3>3
  <2> QED
    BY <2>1, <2>2
<1>16. s \in [1 .. n -> Units]
  BY <1>4, <1>9, <1>14, <1>15
<1>17. n \in 0 .. MaxSteps
  BY <1>6, MaxStepsType
<1> QED
  BY <1>3, <1>7, <1>14, <1>15, <1>16, <1>17

-----------------------------------------------------------------------------
(* The order of a search *)

LEMMA TimesMonotone ==
  ASSUME NEW a \in Nat, NEW b \in Nat, NEW s \in Nat, a <= b
  PROVE  a * s <= b * s
<1>1. PICK d \in Nat : b = a + d
  <2>1. b - a \in Nat /\ b = a + (b - a)
    OBVIOUS
  <2> QED
    BY <2>1
<1>2. d * s \in Nat /\ a * s \in Nat
  OBVIOUS
<1>3. (a + d) * s = a * s + d * s
  OBVIOUS
<1> QED
  BY <1>1, <1>2, <1>3

LEMMA RankType == \A c \in Classes : Rank(c) \in Nat
<1> SUFFICES ASSUME NEW c \in Classes PROVE Rank(c) \in Nat
  OBVIOUS
<1>1. c[1] \in Nat /\ c[2] \in Nat /\ SlCount \in Nat
  BY ClassParts, ConstantsType DEF Levels, Seconds
<1>2. c[1] * SlCount \in Nat
  BY <1>1, NatTimes
<1> QED
  BY <1>1, <1>2 DEF Rank

(* A lower level comes first, and on one level a lower second level.       *)
LEMMA RankOrder ==
  ASSUME NEW c \in Classes, NEW d \in Classes
  PROVE  /\ c[1] < d[1] => Rank(c) < Rank(d)
         /\ c[1] = d[1] => (Rank(c) < Rank(d) <=> c[2] < d[2])
         /\ Rank(c) = Rank(d) => c = d
<1>1. PICK f \in Nat, g \in Nat, x \in Nat, y \in Nat, s \in Nat :
        f = c[1] /\ g = d[1] /\ x = c[2] /\ y = d[2] /\ s = SlCount /\ x < s /\ y < s
  BY ClassParts, ConstantsType DEF Levels, Seconds
<1>2. PICK fs \in Nat, gs \in Nat : fs = f * s /\ gs = g * s
  BY NatTimes
<1>3. Rank(c) = fs + x /\ Rank(d) = gs + y
  BY <1>1, <1>2 DEF Rank
<1>4. ASSUME NEW p \in Nat, NEW q \in Nat, p < q
      PROVE  p * s + s <= q * s
  <2>1. (p + 1) * s <= q * s
    BY <1>4, TimesMonotone
  <2>2. (p + 1) * s = p * s + s
    OBVIOUS
  <2> QED
    BY <2>1, <2>2
<1>5. f < g => fs + s <= gs
  BY <1>2, <1>4
<1>6. g < f => gs + s <= fs
  BY <1>2, <1>4
<1>7. f = g => fs = gs
  BY <1>2
<1>8. fs + x = gs + y => f = g /\ x = y
  BY <1>1, <1>5, <1>6, <1>7
<1>9. Rank(c) = Rank(d) => c = d
  <2>1. c = <<f, x>> /\ d = <<g, y>>
    BY <1>1, ClassParts
  <2> QED
    BY <2>1, <1>3, <1>8
<1> QED
  BY <1>1, <1>3, <1>5, <1>7, <1>9

LEMMA FirstHop ==
  ASSUME NEW S \in SUBSET (Classes \X Nat), S # {}
  PROVE  \E h \in S : \A g \in S : NoLater(h, g)
<1> DEFINE R == {Rank(h[1]) : h \in S}
<1>1. R \in SUBSET Nat /\ R # {}
  BY RankType
<1>2. PICK r \in R : \A q \in R : r <= q
  <2> HIDE DEF R
  <2> QED
    BY <1>1, LeastNumber
<1> DEFINE P == {h \in S : Rank(h[1]) = r}
           I == {h[2] : h \in P}
<1>3. P # {} /\ I \in SUBSET Nat /\ I # {}
  BY <1>2
<1>4. PICK i \in I : \A j \in I : i <= j
  <2> HIDE DEF I
  <2> QED
    BY <1>3, LeastNumber
<1>5. PICK h \in P : h[2] = i
  BY <1>4
<1>6. ASSUME NEW g \in S
      PROVE  NoLater(h, g)
  <2>1. Rank(h[1]) = r /\ Rank(g[1]) \in R /\ r <= Rank(g[1])
    BY <1>2, <1>5
  <2>2. CASE Rank(g[1]) = r
    <3>1. g[1] = h[1]
      <4>1. g[1] \in Classes /\ h[1] \in Classes
        BY <1>5
      <4> QED
        BY <4>1, <2>1, <2>2, RankOrder
    <3>2. g \in P /\ g[2] \in I /\ h[2] <= g[2]
      BY <2>2, <1>4, <1>5
    <3> QED
      BY <3>1, <3>2 DEF NoLater
  <2>3. CASE Rank(g[1]) # r
    <3>1. r \in Nat /\ Rank(g[1]) \in Nat
      BY <1>1, <1>2, <2>1
    <3>2. Rank(h[1]) < Rank(g[1])
      BY <3>1, <2>1, <2>3
    <3> QED
      BY <3>2 DEF NoLater
  <2> QED
    BY <2>2, <2>3
<1> QED
  BY <1>5, <1>6

(* A search of a sound index hops along free blocks only.                  *)

LEMMA HopShape ==
  ASSUME NEW b, NEW cl, Index(b, cl), Tiling(own),
         \A u \in Units : cl[u] \in Classes => own[u] < 0, NEW need
  PROVE  /\ Hops(b, need) \in SUBSET (Classes \X Nat)
         /\ \A h \in Hops(b, need) :
              h[1] \in VisitedBins(b, need) /\ OffAt(b, h) \in In(cl, h[1])
<1>1. VisitedBins(b, need) \subseteq Classes
  BY DEF VisitedBins
<1>2. \A u \in Units : cl[u] \in Classes => own[u] # 0
  <2>1. \A u \in Units : own[u] < 0 => own[u] # 0
    OBVIOUS
  <2> QED
    BY <2>1
<1>3. ASSUME NEW c \in VisitedBins(b, need)
      PROVE  \E n \in Nat : /\ DOMAIN Chain(b, c) = 1 .. n
                            /\ \A i \in 1 .. n : Chain(b, c)[i] \in In(cl, c)
  <2>1. PICK n \in 0 .. MaxSteps : \E t :
          /\ Thread(b.head[c], b.next, b.prev, n, t) /\ Along(n, t) = In(cl, c)
          /\ Chain(b, c) \in [1 .. n -> Units]
          /\ \A i \in 1 .. n : Chain(b, c)[i] = t[i]
    BY <1>1, <1>2, ListChain
  <2>2. PICK t :
          /\ Along(n, t) = In(cl, c)
          /\ Chain(b, c) \in [1 .. n -> Units]
          /\ \A i \in 1 .. n : Chain(b, c)[i] = t[i]
    BY <2>1
  <2>3. \A i \in 1 .. n : Chain(b, c)[i] \in In(cl, c)
    BY <2>2 DEF Along
  <2>4. n \in Nat
    BY MaxStepsType
  <2> QED
    BY <2>2, <2>3, <2>4
<1>4. ASSUME NEW h \in Hops(b, need)
      PROVE  /\ h \in Classes \X Nat
             /\ h[1] \in VisitedBins(b, need) /\ OffAt(b, h) \in In(cl, h[1])
  <2>1. PICK c \in VisitedBins(b, need) : h \in {c} \X DOMAIN Chain(b, c)
    BY DEF Hops
  <2>2. PICK n \in Nat : /\ DOMAIN Chain(b, c) = 1 .. n
                         /\ \A i \in 1 .. n : Chain(b, c)[i] \in In(cl, c)
    BY <1>3
  <2>3. h[1] = c /\ h[2] \in 1 .. n /\ h = <<h[1], h[2]>>
    BY <2>1, <2>2
  <2>4. OffAt(b, h) \in In(cl, h[1])
    BY <2>2, <2>3 DEF OffAt
  <2> QED
    BY <2>3, <2>4, <1>1
<1> QED
  BY <1>4

LEMMA FindMeans ==
  ASSUME NEW b, NEW cl, Index(b, cl), Tiling(own),
         \A u \in Units : cl[u] \in Classes => own[u] < 0, NEW need
  PROVE  \/ /\ bins_find(b, need) = Null
            /\ \/ need >= Pow2[FlMax] \/ Stops(b, need) = {}
               \/ \E h \in Stops(b, need) : Over(Hops(b, need), h)
         \/ \E h \in Stops(b, need) :
              /\ bins_find(b, need) = OffAt(b, h)
              /\ ~Over(Hops(b, need), h)
              /\ \A g \in Stops(b, need) : NoLater(h, g)
<1>1. CASE need >= Pow2[FlMax] \/ Stops(b, need) = {}
  <2>1. bins_find(b, need) = Null
    BY <1>1, Zenon DEF bins_find
  <2> QED
    BY <1>1, <2>1
<1>2. CASE ~(need >= Pow2[FlMax]) /\ Stops(b, need) # {}
  <2>1. PICK h : h = FirstOf(Stops(b, need))
    OBVIOUS
  <2>2. bins_find(b, need) = IF Over(Hops(b, need), h) \/ OffAt(b, h) \notin Units
                             THEN Null ELSE OffAt(b, h)
    BY <1>2, <2>1 DEF bins_find
  <2>3. Stops(b, need) \in SUBSET (Classes \X Nat) /\ Stops(b, need) \subseteq Hops(b, need)
    BY HopShape DEF Stops
  <2>4. h \in Stops(b, need) /\ \A g \in Stops(b, need) : NoLater(h, g)
    <3>1. \E e \in Stops(b, need) : \A g \in Stops(b, need) : NoLater(e, g)
      BY <1>2, <2>3, FirstHop
    <3> QED
      BY <2>1, <3>1 DEF FirstOf
  <2>5. OffAt(b, h) \in Units
    BY <2>3, <2>4, HopShape DEF In
  <2> QED
    BY <2>2, <2>4, <2>5
<1> QED
  BY <1>1, <1>2

(* What a search finds is a free block and fits.                           *)
LEMMA FindsFree ==
  ASSUME NEW b, NEW cl, Index(b, cl), Tiling(own),
         \A u \in Units : cl[u] \in Classes => own[u] < 0, NEW need \in MinBlock .. Zone,
         bins_find(b, need) # Null
  PROVE  /\ bins_find(b, need) \in Units /\ cl[bins_find(b, need)] \in Classes
         /\ own[bins_find(b, need)] < 0 /\ Size(own, bins_find(b, need)) >= need
<1>1. PICK h \in Stops(b, need) : bins_find(b, need) = OffAt(b, h) /\ ~Over(Hops(b, need), h)
  BY FindMeans
<1>2. h \in Hops(b, need) /\ (OffAt(b, h) \notin Units \/ SizeAt(OffAt(b, h)) >= need)
  BY <1>1 DEF Stops
<1>3. h[1] \in Classes /\ OffAt(b, h) \in In(cl, h[1])
  BY <1>2, HopShape
<1> QED
  BY <1>1, <1>2, <1>3, SizeIs DEF In

-----------------------------------------------------------------------------
(* How the operations change the tiling.                                   *)

(* alloc cuts the block u in two, or uses it whole when rest is 0.         *)
SplitAt(o, o2, u, size, rest) ==
  o2 = [x \in Units |-> IF x = u THEN size
                        ELSE IF x = u + size /\ rest > 0 THEN -rest ELSE o[x]]

LEMMA TilingSplit ==
  ASSUME NEW o, NEW o2, Tiling(o), NEW u \in Units, o[u] # 0,
         NEW size \in Nat, NEW rest \in Nat, size >= MinBlock, rest = 0 \/ rest >= MinBlock,
         size + rest = Size(o, u), SplitAt(o, o2, u, size, rest)
  PROVE  Tiling(o2)
<1>1. /\ Zone \in Nat /\ MinBlock = 2 /\ u \in Nat /\ u < Zone /\ Units = 0 .. Zone - 1
      /\ Size(o, u) \in 2 .. Zone /\ u + Size(o, u) <= Zone
  BY ConstantsType, TileShape DEF Units
<1>2. \A x \in Units : o2[x] = IF x = u THEN size
                               ELSE IF x = u + size /\ rest > 0 THEN -rest ELSE o[x]
  BY DEF SplitAt
<1>3. \A x \in Units : o[x] \in -Zone .. Zone
  BY DEF Tiling
<1>4. o2 \in [Units -> -Zone .. Zone]
  <2>1. \A x \in Units : o2[x] \in -Zone .. Zone
    BY <1>1, <1>2, <1>3
  <2> QED
    BY <2>1 DEF SplitAt
<1>5. o2[0] # 0
  <2>1. 0 \in Units /\ o[0] # 0
    BY ConstantsType DEF Tiling
  <2> QED
    BY <2>1, <1>1, <1>2
(* What was a block still is one.                                          *)
<1>6. \A x \in Units : o[x] # 0 => o2[x] # 0
  BY <1>1, <1>2
<1>7. o2[u] = size /\ Size(o2, u) = size
  BY <1>1, <1>2 DEF Size
<1>8. rest > 0 => /\ u + size \in Units /\ o2[u + size] = -rest /\ Size(o2, u + size) = rest
  <2> HAVE rest > 0
  <2>1. u + size \in Units /\ u + size # u
    BY <1>1
  <2>2. o2[u + size] = -rest
    BY <1>2, <2>1
  <2> QED
    BY <2>1, <2>2 DEF Size
<1>9. ASSUME NEW v \in Units, o2[v] # 0
      PROVE  /\ Size(o2, v) >= MinBlock
             /\ v + Size(o2, v) = Zone \/ (v + Size(o2, v) \in Units /\ o2[v + Size(o2, v)] # 0)
             /\ \A x \in Units : v < x /\ x < v + Size(o2, v) => o2[x] = 0
  <2>a. \A x \in Units : u < x /\ x < u + Size(o, u) => o[x] = 0
    BY DEF Tiling
  <2>b. u + Size(o, u) = Zone \/ (u + Size(o, u) \in Units /\ o[u + Size(o, u)] # 0)
    BY DEF Tiling
  <2>1. CASE v = u
    <3>1. \A x \in Units : u < x /\ x < u + size => o2[x] = 0
      BY <1>1, <1>2, <2>a
    <3>2. u + size = Zone \/ (u + size \in Units /\ o2[u + size] # 0)
      <4>1. CASE rest > 0
        BY <4>1, <1>8
      <4>2. CASE rest = 0
        <5>1. u + size = u + Size(o, u)
          BY <4>2
        <5> QED
          BY <5>1, <2>b, <1>6
      <4> QED
        BY <4>1, <4>2
    <3> QED
      BY <2>1, <3>1, <3>2, <1>7
  <2>2. CASE v # u /\ v = u + size /\ rest > 0
    <3>1. v + rest = u + Size(o, u)
      BY <2>2, <1>1
    <3>2. v + rest = Zone \/ (v + rest \in Units /\ o2[v + rest] # 0)
      BY <3>1, <2>b, <1>6
    <3>3. \A x \in Units : v < x /\ x < v + rest => o2[x] = 0
      BY <2>2, <1>1, <1>2, <2>a, <3>1
    <3> QED
      BY <2>2, <3>2, <3>3, <1>8
  <2>3. CASE v # u /\ ~(v = u + size /\ rest > 0)
    <3>1. o2[v] = o[v] /\ Size(o2, v) = Size(o, v) /\ o[v] # 0
      BY <2>3, <1>2, <1>9 DEF Size
    <3>2. /\ Size(o, v) >= MinBlock
          /\ v + Size(o, v) = Zone \/ (v + Size(o, v) \in Units /\ o[v + Size(o, v)] # 0)
          /\ \A x \in Units : v < x /\ x < v + Size(o, v) => o[x] = 0
      BY <3>1 DEF Tiling
    <3>3. v \in Nat /\ Size(o, v) \in Nat
      BY <3>1, TileShape, ConstantsType
    <3>4. v < u => v + Size(o, v) <= u
      BY <3>1, BlocksApart
    <3>5. u < v => u + Size(o, u) <= v
      BY <3>1, BlocksApart
    <3>6. ASSUME NEW x \in Units, v < x, x < v + Size(o, v)
          PROVE  o2[x] = 0
      <4>1. o[x] = 0
        BY <3>2, <3>6
      <4>2. x # u /\ ~(x = u + size /\ rest > 0)
        BY <3>3, <3>4, <3>5, <3>6, <2>3, <1>1
      <4> QED
        BY <4>1, <4>2, <1>2
    <3> QED
      BY <3>1, <3>2, <3>6, <1>6
  <2> QED
    BY <2>1, <2>2, <2>3
<1> QED
  BY <1>4, <1>5, <1>9 DEF Tiling

(* free makes one free block of the blocks from back to end.               *)
JoinUp(o, o2, back, end) ==
  /\ o2 \in [Units -> -Zone .. Zone]
  /\ o2[back] = back - end
  /\ \A x \in Units : back < x /\ x < end => o2[x] = 0
  /\ \A x \in Units : x < back \/ end <= x => o2[x] = o[x]

LEMMA TilingJoin ==
  ASSUME NEW o, NEW o2, Tiling(o), NEW back \in Units, o[back] # 0, NEW end \in Nat,
         end = Zone \/ (end \in Units /\ o[end] # 0), back + MinBlock <= end,
         JoinUp(o, o2, back, end)
  PROVE  Tiling(o2)
<1>1. /\ Zone \in Nat /\ MinBlock = 2 /\ back \in Nat /\ back < Zone /\ Units = 0 .. Zone - 1
      /\ end <= Zone
  BY ConstantsType DEF Units
<1>2. /\ o2 \in [Units -> -Zone .. Zone]
      /\ o2[back] = back - end
      /\ \A x \in Units : back < x /\ x < end => o2[x] = 0
      /\ \A x \in Units : x < back \/ end <= x => o2[x] = o[x]
  BY DEF JoinUp
<1>3. o2[back] # 0 /\ Size(o2, back) = end - back
  BY <1>1, <1>2 DEF Size
<1>4. o2[0] # 0
  <2>1. 0 \in Units /\ o[0] # 0
    BY ConstantsType DEF Tiling
  <2>2. 0 = back \/ 0 < back
    BY <1>1
  <2> QED
    BY <2>1, <2>2, <1>2, <1>3
<1>5. ASSUME NEW v \in Units, o2[v] # 0
      PROVE  /\ Size(o2, v) >= MinBlock
             /\ v + Size(o2, v) = Zone \/ (v + Size(o2, v) \in Units /\ o2[v + Size(o2, v)] # 0)
             /\ \A x \in Units : v < x /\ x < v + Size(o2, v) => o2[x] = 0
  <2>1. CASE v = back
    <3>1. v + Size(o2, v) = end
      BY <2>1, <1>1, <1>3
    <3>2. end \in Units => o2[end] = o[end]
      BY <1>1, <1>2
    <3> QED
      BY <2>1, <3>1, <3>2, <1>1, <1>2, <1>3
  <2>2. CASE v # back
    <3>1. v < back \/ end <= v
      BY <2>2, <1>1, <1>2, <1>5
    <3>2. o2[v] = o[v] /\ o[v] # 0 /\ Size(o2, v) = Size(o, v)
      BY <3>1, <1>2, <1>5 DEF Size
    <3>3. /\ Size(o, v) >= MinBlock
          /\ v + Size(o, v) = Zone \/ (v + Size(o, v) \in Units /\ o[v + Size(o, v)] # 0)
          /\ \A x \in Units : v < x /\ x < v + Size(o, v) => o[x] = 0
      BY <3>2 DEF Tiling
    <3>4. v \in Nat /\ Size(o, v) \in Nat
      BY <3>2, TileShape, ConstantsType
    <3>5. v < back => v + Size(o, v) <= back
      BY <3>2, BlocksApart
    <3>6. \A x \in Units : v < x /\ x < v + Size(o, v) => o2[x] = 0
      <4> SUFFICES ASSUME NEW x \in Units, v < x, x < v + Size(o, v) PROVE o2[x] = 0
        OBVIOUS
      <4>1. x < back \/ end <= x
        BY <3>1, <3>4, <3>5, <1>1
      <4> QED
        BY <4>1, <3>3, <1>2
    <3>7. v + Size(o, v) \in Units /\ o[v + Size(o, v)] # 0 => o2[v + Size(o, v)] # 0
      <4> HAVE v + Size(o, v) \in Units /\ o[v + Size(o, v)] # 0
      <4>1. PICK e \in Units : e = v + Size(o, v) /\ o[e] # 0
        OBVIOUS
      <4>2. e = back \/ e < back \/ end <= e
        BY <4>1, <3>1, <3>4, <3>5, <1>1
      <4>3. o2[e] # 0
        BY <4>1, <4>2, <1>2, <1>3
      <4> QED
        BY <4>1, <4>3
    <3> QED
      BY <3>2, <3>3, <3>6, <3>7
  <2> QED
    BY <2>1, <2>2
<1> QED
  BY <1>2, <1>4, <1>5 DEF Tiling

-----------------------------------------------------------------------------
(* The invariant is inductive. *)

LEMMA BinnedShape ==
  ASSUME NEW o, Tiling(o), NEW td
  PROVE  /\ Binned(o, td) \in [Units -> Classes \cup {Unbinned}]
         /\ \A u \in Units :
              /\ Binned(o, td)[u] = IF o[u] < 0 /\ u \notin td THEN ClassOf(Size(o, u)) ELSE Unbinned
              /\ Binned(o, td)[u] \in Classes <=> o[u] < 0 /\ u \notin td
<1>1. \A u \in Units : o[u] < 0 => ClassOf(Size(o, u)) \in Classes
  <2> SUFFICES ASSUME NEW u \in Units, o[u] < 0 PROVE ClassOf(Size(o, u)) \in Classes
    OBVIOUS
  <2>1. o[u] # 0
    OBVIOUS
  <2> QED
    BY <2>1, TileShape
<1>2. \A u \in Units :
        Binned(o, td)[u] = IF o[u] < 0 /\ u \notin td THEN ClassOf(Size(o, u)) ELSE Unbinned
  BY DEF Binned
<1>3. \A u \in Units : Binned(o, td)[u] \in Classes \cup {Unbinned}
  BY <1>1, <1>2
<1>4. Binned(o, td) = [u \in Units |-> Binned(o, td)[u]]
  BY DEF Binned
<1> QED
  BY <1>1, <1>2, <1>3, <1>4, ClassParts

(* The classes once one unit's has changed.                                *)
LEMMA BinnedIs ==
  ASSUME NEW o, NEW td, NEW cl,
         cl \in [Units -> Classes \cup {Unbinned}],
         \A u \in Units : cl[u] = IF o[u] < 0 /\ u \notin td THEN ClassOf(Size(o, u)) ELSE Unbinned
  PROVE  Binned(o, td) = cl
<1>1. \A u \in Units : Binned(o, td)[u] = cl[u]
  BY DEF Binned
<1>2. Binned(o, td) = [u \in Units |-> Binned(o, td)[u]] /\ cl = [u \in Units |-> cl[u]]
  BY DEF Binned
<1> QED
  BY <1>1, <1>2

LEMMA InitBins == Init => BinsInvariant
<1> SUFFICES ASSUME Init PROVE BinsInvariant
  OBVIOUS
<1>1. /\ own = [u \in Units |-> IF u = 0 THEN -Zone ELSE 0]
      /\ bins = bins_insert(reset, ClassOf(Zone), 0)
      /\ todo = {}
  BY DEF Init
<1>2. Zone \in Nat /\ Zone >= 2 /\ MinBlock = 2 /\ 0 \in Units /\ Units = 0 .. Zone - 1
  BY ConstantsType DEF Units
<1>3. \A u \in Units : own[u] = IF u = 0 THEN -Zone ELSE 0
  BY <1>1
<1>4. own[0] = -Zone /\ own[0] < 0 /\ Size(own, 0) = Zone
  BY <1>2, <1>3 DEF Size
<1>5. Tiling(own)
  <2>1. own \in [Units -> -Zone .. Zone]
    BY <1>1, <1>2
  <2>2. \A u \in Units : own[u] # 0 => u = 0
    BY <1>3
  <2>3. \A x \in Units : 0 < x => own[x] = 0
    BY <1>3
  <2> QED
    BY <2>1, <2>2, <2>3, <1>2, <1>4 DEF Tiling
<1> DEFINE none == [u \in Units |-> Unbinned]
           c    == ClassOf(Zone)
<1>6. c \in Classes
  BY <1>2, ClassType
<1>7. Index(bins, [none EXCEPT ![0] = c])
  <2>1. Index(reset, none) /\ none[0] = Unbinned
    BY <1>2, IndexReset
  <2> HIDE DEF none, c
  <2> QED
    BY <2>1, <1>1, <1>2, <1>6, IndexInsert DEF c
<1>8. Binned(own, todo) = [none EXCEPT ![0] = c]
  <2> DEFINE cl == [none EXCEPT ![0] = c]
  <2>1. cl \in [Units -> Classes \cup {Unbinned}]
    BY <1>6
  <2>2. \A u \in Units : cl[u] = IF u = 0 THEN c ELSE Unbinned
    OBVIOUS
  <2>3. \A u \in Units : own[u] < 0 /\ u \notin todo <=> u = 0
    BY <1>1, <1>3, <1>4
  <2>4. \A u \in Units :
          cl[u] = IF own[u] < 0 /\ u \notin todo THEN ClassOf(Size(own, u)) ELSE Unbinned
    BY <2>2, <2>3, <1>4
  <2> HIDE DEF cl
  <2>5. Binned(own, todo) = cl
    BY <2>1, <2>4, BinnedIs
  <2> QED
    BY <2>5 DEF cl
<1> QED
  BY <1>1, <1>5, <1>7, <1>8 DEF BinsInvariant

LEMMA AllocBins ==
  ASSUME BinsInvariant, NEW need \in MinBlock .. Zone, Alloc(need)
  PROVE  BinsInvariant'
<1>1. Tiling(own) /\ todo = {} /\ todo' = {}
  BY DEF BinsInvariant, Alloc
<1>2. PICK cl : cl = Binned(own, todo)
  OBVIOUS
<1>3. Index(bins, cl)
  BY <1>2 DEF BinsInvariant
<1>4. /\ cl \in [Units -> Classes \cup {Unbinned}]
      /\ \A x \in Units : /\ cl[x] = IF own[x] < 0 THEN ClassOf(Size(own, x)) ELSE Unbinned
                          /\ cl[x] \in Classes <=> own[x] < 0
  BY <1>1, <1>2, BinnedShape
<1>5. PICK u : u = bins_find(bins, need)
  OBVIOUS
<1>6. u # Null
  BY <1>5 DEF Alloc
<1>7. u \in Units /\ cl[u] \in Classes /\ own[u] < 0 /\ Size(own, u) >= need
  BY <1>1, <1>3, <1>4, <1>5, <1>6, FindsFree
<1>8. own[u] # 0
  BY <1>7
<1>9. PICK whole \in Nat : whole = SizeAt(u) /\ whole = Size(own, u) /\ whole >= need /\ whole <= Zone
  BY <1>1, <1>7, <1>8, TileShape, SizeIs, ConstantsType
<1>10. need \in Nat /\ need >= 2 /\ MinBlock = 2 /\ Zone \in Nat
  BY ConstantsType
<1>11. PICK size \in Nat : size = IF whole - need >= MinBlock THEN need ELSE whole
  BY <1>9, <1>10
<1>12. PICK rest \in Nat : rest = whole - size /\ (rest = 0 \/ rest >= MinBlock) /\ size >= MinBlock
  BY <1>9, <1>10, <1>11
<1>13. PICK left : left = Scribbled(bins_remove(bins, Class(u), u), u)
  OBVIOUS
<1>14. own' = [x \in Units |-> IF x = u THEN size
                               ELSE IF x = u + size /\ rest > 0 THEN -rest ELSE own[x]]
  BY <1>5, <1>9, <1>11, <1>12, Zenon DEF Alloc
<1>15. bins' = IF rest > 0 THEN bins_insert(left, ClassOf(rest), u + size) ELSE left
  BY <1>5, <1>9, <1>11, <1>12, <1>13, Zenon DEF Alloc
<1>16. PICK o2 : o2 = own'
  OBVIOUS
<1>17. Tiling(o2)
  <2>1. size + rest = Size(own, u)
    BY <1>9, <1>12
  <2>2. SplitAt(own, o2, u, size, rest)
    BY <1>14, <1>16 DEF SplitAt
  <2> QED
    BY <2>1, <2>2, <1>1, <1>7, <1>8, <1>12, TilingSplit
<1>18. PICK c1 : c1 = [cl EXCEPT ![u] = Unbinned]
  OBVIOUS
<1>19. Index(left, c1)
  <2>1. cl[u] = Class(u)
    BY <1>4, <1>7, SizeIs DEF Class
  <2>2. Class(u) \in Classes
    BY <2>1, <1>7
  <2> QED
    BY <2>1, <2>2, <1>3, <1>7, <1>13, <1>18, IndexRemove
<1>20. \A x \in Units : o2[x] = IF x = u THEN size
                                ELSE IF x = u + size /\ rest > 0 THEN -rest ELSE own[x]
  BY <1>14, <1>16
<1>21. /\ c1 \in [Units -> Classes \cup {Unbinned}]
       /\ \A x \in Units : c1[x] = IF x = u THEN Unbinned ELSE cl[x]
  BY <1>4, <1>18
<1>22. u \in Nat /\ ~(size < 0) /\ size # 0
  BY <1>7, <1>10, <1>12, ConstantsType
<1>23. \A x \in Units : x # u => (own[x] = o2[x] => Size(own, x) = Size(o2, x))
  BY DEF Size
<1>24. Index(bins', Binned(o2, {}))
  <2>1. CASE rest > 0
    <3>1. PICK w \in Units : w = u + size /\ w # u /\ own[w] = 0
      <4>1. u + size < u + Size(own, u) /\ u + Size(own, u) <= Zone
        BY <2>1, <1>1, <1>7, <1>8, <1>9, <1>12, <1>22, TileShape
      <4>2. u + size \in Units /\ u < u + size
        BY <4>1, <1>10, <1>12, <1>22, <1>9 DEF Units
      <4>3. own[u + size] = 0
        BY <4>1, <4>2, <1>1, <1>7, <1>8 DEF Tiling
      <4> QED
        BY <4>2, <4>3, <1>22
    <3>2. c1[w] = Unbinned
      BY <3>1, <1>4, <1>21
    <3>3. o2[w] = -rest /\ o2[w] < 0 /\ Size(o2, w) = rest
      BY <2>1, <3>1, <1>20 DEF Size
    <3>4. ClassOf(rest) \in Classes
      <4>1. rest \in MinBlock .. Zone
        BY <2>1, <1>9, <1>10, <1>12
      <4> QED
        BY <4>1, ClassType
    <3>5. PICK c2 : c2 = [c1 EXCEPT ![w] = ClassOf(rest)]
      OBVIOUS
    <3>6. Index(bins', c2)
      BY <2>1, <3>1, <3>2, <3>4, <3>5, <1>15, <1>19, IndexInsert
    <3>7. /\ c2 \in [Units -> Classes \cup {Unbinned}]
          /\ \A x \in Units : c2[x] = IF x = w THEN ClassOf(rest) ELSE c1[x]
      BY <3>4, <3>5, <1>21
    <3>8. ASSUME NEW x \in Units
          PROVE  c2[x] = IF o2[x] < 0 /\ x \notin {} THEN ClassOf(Size(o2, x)) ELSE Unbinned
      <4>1. CASE x = u
        BY <4>1, <3>1, <3>7, <1>20, <1>21, <1>22
      <4>2. CASE x = w
        BY <4>2, <3>3, <3>7
      <4>3. CASE x # u /\ x # w
        <5>1. o2[x] = own[x]
          BY <4>3, <3>1, <1>20
        <5>2. c2[x] = cl[x] /\ Size(o2, x) = Size(own, x)
          BY <4>3, <5>1, <3>7, <1>21 DEF Size
        <5> QED
          BY <5>1, <5>2, <1>4
      <4> QED
        BY <4>1, <4>2, <4>3
    <3>9. Binned(o2, {}) = c2
      BY <3>7, <3>8, BinnedIs
    <3> QED
      BY <3>6, <3>9
  <2>2. CASE ~(rest > 0)
    <3>1. Index(bins', c1)
      BY <2>2, <1>15, <1>19
    <3>2. ASSUME NEW x \in Units
          PROVE  c1[x] = IF o2[x] < 0 /\ x \notin {} THEN ClassOf(Size(o2, x)) ELSE Unbinned
      <4>1. CASE x = u
        BY <4>1, <1>20, <1>21, <1>22
      <4>2. CASE x # u
        <5>1. o2[x] = own[x]
          BY <4>2, <2>2, <1>20
        <5>2. c1[x] = cl[x] /\ Size(o2, x) = Size(own, x)
          BY <4>2, <5>1, <1>21 DEF Size
        <5> QED
          BY <5>1, <5>2, <1>4
      <4> QED
        BY <4>1, <4>2
    <3>3. Binned(o2, {}) = c1
      BY <3>2, <1>21, BinnedIs
    <3> QED
      BY <3>1, <3>3
  <2> QED
    BY <2>1, <2>2
<1>25. Tiling(own') /\ Index(bins', Binned(own', todo'))
  BY <1>1, <1>16, <1>17, <1>24
<1>26. todo' \subseteq FreeBlocks'
  BY <1>1
<1> QED
  BY <1>25, <1>26 DEF BinsInvariant

LEMMA InsertHoleBins ==
  ASSUME BinsInvariant, InsertHole
  PROVE  BinsInvariant'
<1>1. Tiling(own) /\ todo \subseteq FreeBlocks /\ own' = own /\ todo # {}
  BY DEF BinsInvariant, InsertHole
<1>2. PICK u : u = Min(todo)
  OBVIOUS
<1>3. u \in todo
  <2>1. todo \in SUBSET Nat
    BY <1>1, ConstantsType DEF FreeBlocks
  <2> QED
    BY <2>1, <1>1, <1>2, MinOfNumbers
<1>4. bins' = bins_insert(bins, Class(u), u) /\ todo' = todo \ {u}
  BY <1>2 DEF InsertHole
<1>5. PICK cl : cl = Binned(own, todo)
  OBVIOUS
<1>6. Index(bins, cl)
  BY <1>5 DEF BinsInvariant
<1>7. /\ cl \in [Units -> Classes \cup {Unbinned}]
      /\ \A x \in Units : cl[x] = IF own[x] < 0 /\ x \notin todo THEN ClassOf(Size(own, x)) ELSE Unbinned
  BY <1>1, <1>5, BinnedShape
<1>8. u \in Units /\ own[u] < 0 /\ own[u] # 0
  BY <1>1, <1>3 DEF FreeBlocks, IsFree
<1>9. cl[u] = Unbinned
  BY <1>3, <1>7, <1>8
<1>10. PICK c : c = Class(u)
  OBVIOUS
<1>11. c = ClassOf(Size(own, u)) /\ c \in Classes
  BY <1>1, <1>8, <1>10, SizeIs, TileShape DEF Class
<1>12. PICK c2 : c2 = [cl EXCEPT ![u] = c]
  OBVIOUS
<1>13. Index(bins', c2)
  BY <1>4, <1>6, <1>8, <1>9, <1>10, <1>11, <1>12, IndexInsert
<1>14. /\ c2 \in [Units -> Classes \cup {Unbinned}]
       /\ \A x \in Units : c2[x] = IF x = u THEN c ELSE cl[x]
  BY <1>7, <1>11, <1>12
<1>15. \A x \in Units :
         c2[x] = IF own[x] < 0 /\ x \notin todo \ {u} THEN ClassOf(Size(own, x)) ELSE Unbinned
  BY <1>7, <1>8, <1>11, <1>14
<1>16. Binned(own, todo \ {u}) = c2
  BY <1>14, <1>15, BinnedIs
<1>17. Tiling(own') /\ Index(bins', Binned(own', todo'))
  BY <1>1, <1>4, <1>13, <1>16
<1>18. todo' \subseteq FreeBlocks'
  BY <1>1, <1>4 DEF FreeBlocks, IsFree
<1> QED
  BY <1>17, <1>18 DEF BinsInvariant

(* free finds the blocks it merges by geometry: the free block that ends    *)
(* at u, if there is one, and the one behind u, up to end.                 *)
Merges(u, fwd, back, end) ==
  /\ fwd = u + own[u] /\ fwd <= Zone /\ fwd >= u + 2
  /\ \/ back = u
     \/ back \in Units /\ own[back] < 0 /\ back < u /\ back + Size(own, back) = u
  /\ \A x \in FreeBlocks : x + SizeAt(x) = u => back < u
  /\ back \in Units /\ back \in Nat /\ own[back] # 0 /\ back <= u
  /\ fwd \in FreeBlocks <=> fwd \in Units /\ own[fwd] < 0
  /\ end \in Nat /\ fwd <= end /\ end <= Zone
  /\ end = Zone \/ (end \in Units /\ own[end] # 0)
  /\ fwd \in FreeBlocks => fwd < end /\ end = fwd + Size(own, fwd)
  /\ fwd \notin FreeBlocks => end = fwd
  /\ end = u + own[u] + (IF fwd \in FreeBlocks THEN SizeAt(u + own[u]) ELSE 0)
  /\ bins' = Freed(bins, u, back, fwd \in FreeBlocks)
  /\ own' = [x \in Units |-> IF x = back THEN back - end
                             ELSE IF x = u \/ (fwd \in FreeBlocks /\ x = fwd) THEN 0 ELSE own[x]]

LEMMA FreeMeans ==
  ASSUME BinsInvariant, NEW u \in Units, Free(u)
  PROVE  \E fwd, back, end \in Nat : Merges(u, fwd, back, end)
<1>1. Tiling(own) /\ todo = {} /\ todo' = {} /\ own[u] > 0
  BY DEF BinsInvariant, Free
<1>5. /\ Zone \in Nat /\ MinBlock = 2 /\ u \in Nat /\ Units = 0 .. Zone - 1
      /\ \A x \in Units : own[x] \in Int
  BY <1>1, ConstantsType DEF Units, Tiling
<1>6. own[u] # 0 /\ ~(own[u] < 0) /\ Size(own, u) = own[u] /\ own[u] >= 2
  BY <1>1, <1>5, TileShape DEF Size
<1>7. PICK fwd \in Nat : fwd = u + own[u] /\ fwd <= Zone /\ fwd >= u + 2
  BY <1>1, <1>5, <1>6, TileShape
<1>8. fwd = Zone \/ (fwd \in Units /\ own[fwd] # 0)
  BY <1>1, <1>6, <1>7 DEF Tiling
<1>9. PICK prevs : prevs = {x \in FreeBlocks : x + SizeAt(x) = u}
  OBVIOUS
<1>10. PICK back : back = IF prevs = {} THEN u ELSE CHOOSE x \in prevs : TRUE
  OBVIOUS
<1>11. \/ back = u
       \/ back \in Units /\ own[back] < 0 /\ back < u /\ back + Size(own, back) = u
  <2>1. CASE prevs = {}
    BY <2>1, <1>10
  <2>2. CASE prevs # {}
    <3>1. back \in prevs
      BY <2>2, <1>10
    <3>2. back \in Units /\ own[back] < 0 /\ own[back] # 0 /\ back + Size(own, back) = u
      BY <3>1, <1>9, SizeIs DEF FreeBlocks, IsFree
    <3>3. back \in Nat /\ Size(own, back) \in Nat /\ Size(own, back) >= 2
      BY <3>2, <1>1, <1>5, TileShape
    <3> QED
      BY <3>2, <3>3, <1>5
  <2> QED
    BY <2>1, <2>2
<1>12. back \in Units /\ back \in Nat /\ own[back] # 0 /\ back <= u
  BY <1>5, <1>6, <1>11
<1>13. fwd \in FreeBlocks <=> fwd \in Units /\ own[fwd] < 0
  BY DEF FreeBlocks, IsFree
<1>14. PICK end : end = fwd + (IF fwd \in FreeBlocks THEN SizeAt(fwd) ELSE 0)
  OBVIOUS
<1>15. /\ end \in Nat /\ fwd <= end /\ end <= Zone
       /\ end = Zone \/ (end \in Units /\ own[end] # 0)
       /\ fwd \in FreeBlocks => fwd < end /\ end = fwd + Size(own, fwd)
       /\ fwd \notin FreeBlocks => end = fwd
  <2>1. CASE fwd \in FreeBlocks
    <3>1. fwd \in Units /\ own[fwd] # 0 /\ end = fwd + Size(own, fwd)
      BY <2>1, <1>13, <1>14, SizeIs
    <3>2. Size(own, fwd) \in Nat /\ Size(own, fwd) >= 2 /\ fwd + Size(own, fwd) <= Zone
      BY <3>1, <1>1, <1>5, TileShape
    <3>3. end = Zone \/ (end \in Units /\ own[end] # 0)
      BY <3>1, <1>1 DEF Tiling
    <3> QED
      BY <2>1, <3>1, <3>2, <3>3, <1>7
  <2>2. CASE fwd \notin FreeBlocks
    BY <2>2, <1>7, <1>8, <1>14
  <2> QED
    BY <2>1, <2>2
<1>16. bins' = Freed(bins, u, back, fwd \in FreeBlocks)
  BY <1>7, <1>9, <1>10, Zenon DEF Free
<1>17. own' = [x \in Units |-> IF x = back THEN back - end
                               ELSE IF x = u \/ (fwd \in FreeBlocks /\ x = fwd) THEN 0 ELSE own[x]]
  BY <1>7, <1>9, <1>10, <1>14, Zenon DEF Free
<1>18. \A x \in FreeBlocks : x + SizeAt(x) = u => back < u
  <2> SUFFICES ASSUME NEW x \in FreeBlocks, x + SizeAt(x) = u PROVE back < u
    OBVIOUS
  <2>1. back \in prevs
    BY <1>9, <1>10
  <2>2. back # u
    BY <2>1, <1>6, <1>9 DEF FreeBlocks, IsFree
  <2> QED
    BY <2>2, <1>11
<1>19. end = u + own[u] + (IF fwd \in FreeBlocks THEN SizeAt(u + own[u]) ELSE 0)
  BY <1>7, <1>14
<1>20. Merges(u, fwd, back, end)
  BY ONLY <1>7, <1>11, <1>12, <1>13, <1>15, <1>16, <1>17, <1>18, <1>19, Zenon DEF Merges
<1> QED
  BY <1>7, <1>12, <1>15, <1>20

LEMMA FreeBins ==
  ASSUME BinsInvariant, NEW u \in Units, Free(u)
  PROVE  BinsInvariant'
<1>1. Tiling(own) /\ todo = {} /\ todo' = {} /\ own[u] > 0
  BY DEF BinsInvariant, Free
<1>2. PICK cl : cl = Binned(own, todo)
  OBVIOUS
<1>3. Index(bins, cl)
  BY <1>2 DEF BinsInvariant
<1>4. /\ cl \in [Units -> Classes \cup {Unbinned}]
      /\ \A x \in Units : /\ cl[x] = IF own[x] < 0 THEN ClassOf(Size(own, x)) ELSE Unbinned
                          /\ cl[x] \in Classes <=> own[x] < 0
  BY <1>1, <1>2, BinnedShape
<1>5. /\ Zone \in Nat /\ MinBlock = 2 /\ u \in Nat /\ Units = 0 .. Zone - 1
      /\ \A x \in Units : own[x] \in Int
  BY <1>1, ConstantsType DEF Units, Tiling
<1>6. own[u] # 0 /\ ~(own[u] < 0) /\ Size(own, u) = own[u] /\ own[u] >= 2
  BY <1>1, <1>5, TileShape DEF Size
<1>7. PICK fwd \in Nat, back \in Nat, end \in Nat : Merges(u, fwd, back, end)
  BY FreeMeans
<1>8. fwd = u + own[u] /\ fwd <= Zone /\ fwd >= u + 2
  BY <1>7, Zenon DEF Merges
<1>11. \/ back = u
       \/ back \in Units /\ own[back] < 0 /\ back < u /\ back + Size(own, back) = u
  BY <1>7, Zenon DEF Merges
<1>12. back \in Units /\ back \in Nat /\ own[back] # 0 /\ back <= u
  BY <1>7, Zenon DEF Merges
<1>13. fwd \in FreeBlocks <=> fwd \in Units /\ own[fwd] < 0
  BY <1>7, Zenon DEF Merges
<1>15. /\ end \in Nat /\ fwd <= end /\ end <= Zone
       /\ end = Zone \/ (end \in Units /\ own[end] # 0)
       /\ fwd \in FreeBlocks => fwd < end /\ end = fwd + Size(own, fwd)
       /\ fwd \notin FreeBlocks => end = fwd
  BY <1>7, Zenon DEF Merges
<1>16. bins' = Freed(bins, u, back, fwd \in FreeBlocks)
  BY <1>7, Zenon DEF Merges
<1>17. own' = [x \in Units |-> IF x = back THEN back - end
                               ELSE IF x = u \/ (fwd \in FreeBlocks /\ x = fwd) THEN 0 ELSE own[x]]
  BY <1>7, Zenon DEF Merges
<1>18. PICK o2 : o2 = own'
  OBVIOUS
<1>19. \A x \in Units :
         o2[x] = IF x = back THEN back - end
                 ELSE IF x = u \/ (fwd \in FreeBlocks /\ x = fwd) THEN 0 ELSE own[x]
  BY <1>17, <1>18
<1>20. Tiling(o2)
  <2>1. o2 \in [Units -> -Zone .. Zone]
    <3>1. \A x \in Units : own[x] \in -Zone .. Zone
      BY <1>1 DEF Tiling
    <3>2. back - end \in -Zone .. Zone /\ 0 \in -Zone .. Zone
      BY <1>5, <1>12, <1>15
    <3>3. \A x \in Units : o2[x] \in -Zone .. Zone
      BY <3>1, <3>2, <1>19
    <3> QED
      BY <3>3, <1>17, <1>18
  <2>2. o2[back] = back - end
    BY <1>12, <1>19
  <2>3. ASSUME NEW x \in Units, back < x, x < end
        PROVE  o2[x] = 0
    <3>1. CASE x = u \/ (fwd \in FreeBlocks /\ x = fwd)
      BY <3>1, <2>3, <1>12, <1>19
    <3>2. CASE x # u /\ ~(fwd \in FreeBlocks /\ x = fwd)
      <4>1. o2[x] = own[x] /\ x \in Nat
        BY <3>2, <2>3, <1>5, <1>12, <1>19
      <4>2. CASE x < u
        <5>1. own[back] # 0 /\ x < back + Size(own, back)
          BY <4>1, <4>2, <2>3, <1>5, <1>11, <1>12
        <5> QED
          BY <4>1, <5>1, <2>3, <1>1, <1>12 DEF Tiling
      <4>3. CASE u < x /\ x < fwd
        BY <4>1, <4>3, <1>1, <1>6, <1>8 DEF Tiling
      <4>4. CASE fwd <= x
        <5>1. fwd \in FreeBlocks /\ fwd < x /\ x < fwd + Size(own, fwd)
          BY <4>1, <4>4, <3>2, <2>3, <1>8, <1>15
        <5>2. fwd \in Units /\ own[fwd] # 0
          BY <5>1, <1>13
        <5> QED
          BY <4>1, <5>1, <5>2, <1>1 DEF Tiling
      <4> QED
        BY <4>1, <4>2, <4>3, <4>4, <3>2, <1>5, <1>8
    <3> QED
      BY <3>1, <3>2
  <2>4. ASSUME NEW x \in Units, x < back \/ end <= x
        PROVE  o2[x] = own[x]
    <3>1. x # back /\ x # u /\ ~(fwd \in FreeBlocks /\ x = fwd)
      BY <2>4, <1>5, <1>8, <1>12, <1>15
    <3> QED
      BY <3>1, <1>19
  <2>5. JoinUp(own, o2, back, end)
    BY <2>1, <2>2, <2>3, <2>4 DEF JoinUp
  <2>6. back + MinBlock <= end
    BY <1>5, <1>8, <1>12, <1>15
  <2> QED
    BY <2>5, <2>6, <1>1, <1>12, <1>15, TilingJoin
(* The index: the neighbours leave their lists, the merged block enters.   *)
<1>21. PICK b1 : b1 = IF back < u THEN Scribbled(bins_remove(bins, Class(back), back), back) ELSE bins
  OBVIOUS
<1>22. PICK b2 : b2 = IF fwd \in FreeBlocks
                      THEN Scribbled(bins_remove(b1, Class(fwd), fwd), fwd) ELSE b1
  OBVIOUS
<1>23. bins' = bins_insert(b2, ClassOf(end - back), back)
  <2>1. end = u + own[u] + (IF fwd \in FreeBlocks THEN SizeAt(u + own[u]) ELSE 0)
    BY <1>7, Zenon DEF Merges
  <2>2. Freed(bins, u, back, fwd \in FreeBlocks) = bins_insert(b2, ClassOf(end - back), back)
    BY ONLY <2>1, <1>8, <1>21, <1>22, Zenon DEF Freed
  <2> QED
    BY <2>2, <1>16
<1>24. PICK c1 : c1 = IF back < u THEN [cl EXCEPT ![back] = Unbinned] ELSE cl
  OBVIOUS
<1>25. /\ c1 \in [Units -> Classes \cup {Unbinned}] /\ c1[back] = Unbinned
       /\ \A x \in Units : x # back => c1[x] = cl[x]
  <2>1. CASE back < u
    BY <2>1, <1>4, <1>12, <1>24
  <2>2. CASE ~(back < u)
    <3>1. back = u
      BY <2>2, <1>5, <1>12
    <3> QED
      BY <2>2, <3>1, <1>4, <1>6, <1>24
  <2> QED
    BY <2>1, <2>2
<1>26. Index(b1, c1)
  <2>1. CASE back < u
    <3>1. own[back] < 0
      BY <2>1, <1>5, <1>11
    <3>2. cl[back] = Class(back) /\ Class(back) \in Classes
      <4>1. cl[back] = ClassOf(Size(own, back)) /\ cl[back] \in Classes
        BY <3>1, <1>4, <1>12
      <4> QED
        BY <4>1, SizeIs DEF Class
    <3>3. Index(Scribbled(bins_remove(bins, Class(back), back), back), [cl EXCEPT ![back] = Unbinned])
      BY <3>2, <1>3, <1>12, IndexRemove
    <3> QED
      BY <2>1, <3>3, <1>21, <1>24
  <2>2. CASE ~(back < u)
    BY <2>2, <1>3, <1>21, <1>24
  <2> QED
    BY <2>1, <2>2
<1>27. PICK c2 : c2 = IF fwd \in FreeBlocks THEN [c1 EXCEPT ![fwd] = Unbinned] ELSE c1
  OBVIOUS
<1>28. fwd # back
  BY <1>5, <1>8, <1>12
<1>29. /\ c2 \in [Units -> Classes \cup {Unbinned}] /\ c2[back] = Unbinned
       /\ fwd \in FreeBlocks => c2[fwd] = Unbinned
       /\ \A x \in Units : x # back /\ ~(fwd \in FreeBlocks /\ x = fwd) => c2[x] = cl[x]
  <2>1. CASE fwd \in FreeBlocks
    <3>1. /\ c2 \in [Units -> Classes \cup {Unbinned}]
          /\ \A x \in Units : c2[x] = IF x = fwd THEN Unbinned ELSE c1[x]
      BY <2>1, <1>25, <1>27
    <3> QED
      BY <2>1, <3>1, <1>12, <1>13, <1>25, <1>28
  <2>2. CASE fwd \notin FreeBlocks
    BY <2>2, <1>25, <1>27
  <2> QED
    BY <2>1, <2>2
<1>30. Index(b2, c2)
  <2>1. CASE fwd \in FreeBlocks
    <3>1. fwd \in Units /\ own[fwd] < 0 /\ c1[fwd] = cl[fwd]
      BY <2>1, <1>13, <1>25, <1>28
    <3>2. c1[fwd] = Class(fwd) /\ Class(fwd) \in Classes
      <4>1. cl[fwd] = ClassOf(Size(own, fwd)) /\ cl[fwd] \in Classes
        BY <3>1, <1>4
      <4> QED
        BY <4>1, <3>1, SizeIs DEF Class
    <3>3. Index(Scribbled(bins_remove(b1, Class(fwd), fwd), fwd), [c1 EXCEPT ![fwd] = Unbinned])
      BY <3>1, <3>2, <1>26, IndexRemove
    <3> QED
      BY <2>1, <3>3, <1>22, <1>27
  <2>2. CASE fwd \notin FreeBlocks
    BY <2>2, <1>22, <1>26, <1>27
  <2> QED
    BY <2>1, <2>2
<1>31. PICK c : c = ClassOf(end - back)
  OBVIOUS
<1>32. c \in Classes
  <2>1. end - back \in MinBlock .. Zone
    BY <1>5, <1>8, <1>12, <1>15
  <2> QED
    BY <2>1, <1>31, ClassType
<1>33. PICK c3 : c3 = [c2 EXCEPT ![back] = c]
  OBVIOUS
<1>34. Index(bins', c3)
  BY <1>12, <1>23, <1>29, <1>30, <1>31, <1>32, <1>33, IndexInsert
<1>35. /\ c3 \in [Units -> Classes \cup {Unbinned}]
       /\ \A x \in Units : c3[x] = IF x = back THEN c ELSE c2[x]
  BY <1>29, <1>32, <1>33
<1>36. ASSUME NEW x \in Units
       PROVE  c3[x] = IF o2[x] < 0 /\ x \notin {} THEN ClassOf(Size(o2, x)) ELSE Unbinned
  <2>1. CASE x = back
    <3>1. o2[back] = back - end /\ back - end < 0
      BY <1>5, <1>8, <1>12, <1>15, <1>19
    <3>2. Size(o2, back) = end - back
      BY <3>1, <1>5, <1>12, <1>15 DEF Size
    <3> QED
      BY <2>1, <3>1, <3>2, <1>31, <1>35
  <2>2. CASE x # back /\ fwd \in FreeBlocks /\ x = fwd
    <3>1. o2[x] = 0 /\ ~(o2[x] < 0)
      BY <2>2, <1>19
    <3> QED
      BY <2>2, <3>1, <1>29, <1>35
  <2>3. CASE x # back /\ ~(fwd \in FreeBlocks /\ x = fwd) /\ x = u
    <3>1. o2[x] = 0 /\ ~(o2[x] < 0)
      BY <2>3, <1>19
    <3> QED
      BY <2>3, <3>1, <1>4, <1>6, <1>29, <1>35
  <2>4. CASE x # back /\ ~(fwd \in FreeBlocks /\ x = fwd) /\ x # u
    <3>1. o2[x] = own[x]
      BY <2>4, <1>19
    <3>2. c3[x] = cl[x] /\ Size(o2, x) = Size(own, x)
      BY <2>4, <3>1, <1>29, <1>35 DEF Size
    <3> QED
      BY <3>1, <3>2, <1>4
  <2> QED
    BY <2>1, <2>2, <2>3, <2>4
<1>37. Binned(o2, {}) = c3
  BY <1>35, <1>36, BinnedIs
<1>38. Tiling(own') /\ Index(bins', Binned(own', todo'))
  BY <1>1, <1>18, <1>20, <1>34, <1>37
<1>39. todo' \subseteq FreeBlocks'
  BY <1>1
<1> QED
  BY <1>38, <1>39 DEF BinsInvariant

-----------------------------------------------------------------------------
(* Compaction.  The packed blocks move down by the free bytes below them;  *)
(* a gap between two blocks is then the sum of the sizes of some blocks,   *)
(* so that it is empty or holds a block.                                   *)

Sizes(o) == [u \in Units |-> Size(o, u)]
BlocksOf(o) == {u \in Units : o[u] # 0}
Below(S, v) == {x \in S : x < v}

LEMMA UnitsFinite == IsFiniteSet(Units)
<1>1. PICK z \in Int, a \in Int : z = Zone - 1 /\ a = 0
  BY ConstantsType
<1>2. Units = a .. z
  BY <1>1 DEF Units
<1> QED
  BY <1>2, FS_Interval

LEMMA SizesType ==
  ASSUME NEW o \in [Units -> -Zone .. Zone]
  PROVE  \A u \in Units : Sizes(o)[u] = Size(o, u) /\ Sizes(o)[u] \in Nat
<1> SUFFICES ASSUME NEW u \in Units PROVE Sizes(o)[u] = Size(o, u) /\ Sizes(o)[u] \in Nat
  OBVIOUS
<1>1. o[u] \in -Zone .. Zone /\ Zone \in Nat
  BY ConstantsType
<1>2. Size(o, u) \in Nat
  BY <1>1 DEF Size
<1> QED
  BY <1>2 DEF Sizes

LEMMA BytesTotal ==
  ASSUME own \in [Units -> -Zone .. Zone], NEW S \in SUBSET Units
  PROVE  MapThenSumSet(SizeAt, S) = Total(Sizes(own), S)
<1> DEFINE f == Sizes(own)
           Eq(g) == g = [s \in SUBSET S |->
                           IF s = {} THEN 0
                           ELSE SizeAt(CHOOSE x \in s : TRUE) + g[s \ {CHOOSE x \in s : TRUE}]]
           sum == CHOOSE g : Eq(g)
<1>1. \A u \in S : f[u] = SizeAt(u) /\ f[u] \in Nat
  BY SizesType, SizeIs
<1>2. IsFiniteSet(S)
  BY UnitsFinite, FS_Subset
<1>3. MapThenSumSet(SizeAt, S) = sum[S]
  BY DEF MapThenSumSet, MapThenFoldSet
<1> HIDE DEF f
<1>4. \A s \in SUBSET S : s # {} => f[AnyOf(s)] = SizeAt(AnyOf(s))
  BY <1>1 DEF AnyOf
<1>5. Eq(Totals(f, S))
  <2>1. Totals(f, S) =
          [s \in SUBSET S |-> IF s = {} THEN 0
                              ELSE f[AnyOf(s)] + Totals(f, S)[s \ {AnyOf(s)}]]
    BY <1>1, <1>2, TotalsSolve
  <2> QED
    BY <1>4, <2>1 DEF AnyOf
<1>6. Eq(sum)
  BY <1>5
<1>7. \A s \in SUBSET S : sum[s] = IF s = {} THEN 0 ELSE f[AnyOf(s)] + sum[s \ {AnyOf(s)}]
  <2> HIDE DEF sum
  <2> QED
    BY <1>4, <1>6 DEF AnyOf
<1> HIDE DEF sum, Eq
<1>8. sum[S] = Total(f, S)
  BY <1>1, <1>2, <1>7, FoldIsTotal
<1> QED
  BY <1>3, <1>8 DEF f

(* Blocks tile: those below v hold v units.                                *)
LEMMA TileSums ==
  ASSUME NEW o, Tiling(o), NEW v \in Nat, v = Zone \/ (v \in Units /\ o[v] # 0)
  PROVE  Total(Sizes(o), Below(BlocksOf(o), v)) = v
<1> DEFINE S  == Below(BlocksOf(o), v)
           at == [x \in Units |-> x]
<1>1. /\ Zone \in Nat /\ v <= Zone /\ MinBlock = 2 /\ Units = 0 .. Zone - 1 /\ S \in SUBSET Units
      /\ \A x \in S : o[x] # 0 /\ x < v /\ x \in Nat /\ at[x] = x
  BY ConstantsType DEF Units, Below, BlocksOf
<1>2. \A x \in S : Sizes(o)[x] = Size(o, x) /\ Sizes(o)[x] \in Nat
  <2>1. o \in [Units -> -Zone .. Zone]
    BY DEF Tiling
  <2> QED
    BY <2>1, <1>1, SizesType
<1>3. IsFiniteSet(S)
  BY <1>1, UnitsFinite, FS_Subset
<1>4. \A x \in S : x + Size(o, x) <= v
  <2> SUFFICES ASSUME NEW x \in S PROVE x + Size(o, x) <= v
    OBVIOUS
  <2>1. CASE v = Zone
    BY <2>1, <1>1, TileShape
  <2>2. CASE v \in Units /\ o[v] # 0
    BY <2>2, <1>1, BlocksApart
  <2> QED
    BY <2>1, <2>2
<1>5. \A x, y \in S : x # y => x + Size(o, x) <= y \/ y + Size(o, y) <= x
  <2> SUFFICES ASSUME NEW x \in S, NEW y \in S, x # y
               PROVE  x + Size(o, x) <= y \/ y + Size(o, y) <= x
    OBVIOUS
  <2>1. x \in Nat /\ y \in Nat /\ x \in Units /\ y \in Units /\ o[x] # 0 /\ o[y] # 0
    BY <1>1
  <2>2. x < y => x + Size(o, x) <= y
    BY <2>1, BlocksApart
  <2>3. y < x => y + Size(o, y) <= x
    BY <2>1, BlocksApart
  <2> QED
    BY <2>1, <2>2, <2>3
<1> DEFINE len == Sizes(o)
<1>6. Cardinality(Covered(at, len, S)) = Total(len, S)
  <2>1. \A x \in S : len[x] \in Nat /\ at[x] \in Nat
    BY <1>1, <1>2
  <2>2. \A x, y \in S : x # y => at[x] + len[x] <= at[y] \/ at[y] + len[y] <= at[x]
    BY <1>1, <1>2, <1>5
  <2> HIDE DEF S, at, len
  <2> QED
    BY <1>3, <2>1, <2>2, TotalCovers
<1>7. Covered(at, len, S) = 0 .. v - 1
  <2>1. ASSUME NEW p \in Nat, NEW x \in S, at[x] <= p, p < at[x] + len[x]
        PROVE  p \in 0 .. v - 1
    BY <2>1, <1>1, <1>2, <1>4
  <2>2. ASSUME NEW p \in 0 .. v - 1
        PROVE  \E x \in S : at[x] <= p /\ p < at[x] + len[x]
    <3> DEFINE L == {x \in 0 .. p : o[x] # 0}
    <3>1. p \in Nat /\ L \in SUBSET (0 .. p) /\ 0 \in L
      BY <1>1, ConstantsType DEF Tiling
    <3>2. PICK x : x = Max(L)
      OBVIOUS
    <3>3. x \in L /\ \A y \in L : y <= x
      <4> HIDE DEF L
      <4>1. L # {}
        BY <3>1
      <4> QED
        BY <3>1, <3>2, <4>1, MaxOfIndices
    <3>4. x \in S /\ x \in Units /\ o[x] # 0 /\ x <= p /\ x \in Nat
      BY <3>1, <3>3, <1>1 DEF Below, BlocksOf
    <3>5. p < x + Size(o, x)
      <4> SUFFICES ASSUME ~(p < x + Size(o, x)) PROVE FALSE
        OBVIOUS
      <4>a. Size(o, x) \in MinBlock .. Zone
        BY <3>4, TileShape
      <4>1. PICK e \in Nat : e = x + Size(o, x) /\ x < e
        BY <3>4, <4>a, <1>1
      <4>2. e # Zone /\ e <= p
        BY <4>1, <3>1, <1>1
      <4>3. e \in Units /\ o[e] # 0
        BY <4>1, <4>2, <3>4 DEF Tiling
      <4>4. e \in L
        BY <4>1, <4>2, <4>3, <3>1
      <4> QED
        BY <4>1, <4>4, <3>3, <3>4
    <3> QED
      BY <3>4, <3>5, <1>1, <1>2
  <2>3. \A p \in 0 .. v - 1 : p \in Nat
    OBVIOUS
  <2> HIDE DEF S, at, len
  <2> QED
    BY <2>1, <2>2, <2>3 DEF Covered
<1>8. Cardinality(0 .. v - 1) = v
  <2>1. PICK z \in Int, a \in Int : z = v - 1 /\ a = 0
    OBVIOUS
  <2>2. Cardinality(a .. z) = IF a > z THEN 0 ELSE z - a + 1
    BY FS_Interval
  <2> QED
    BY <2>1, <2>2
<1> QED
  BY <1>6, <1>7, <1>8

(* A difference of sums of block sizes is no gap, or room for a block.     *)
LEMMA TotalGap ==
  ASSUME NEW R, IsFiniteSet(R), NEW S \in SUBSET R, NEW f,
         \A x \in R : f[x] \in Nat /\ f[x] >= 2
  PROVE  /\ Total(f, R) \in Nat /\ Total(f, S) \in Nat
         /\ Total(f, R) = Total(f, S) \/ Total(f, R) >= Total(f, S) + 2
<1>1. IsFiniteSet(S) /\ IsFiniteSet(R \ S)
  BY FS_Subset
<1>2. S \cup (R \ S) = R /\ S \cap (R \ S) = {}
  OBVIOUS
<1>3. Total(f, R) = Total(f, S) + Total(f, R \ S)
  <2>1. Total(f, S \cup (R \ S)) = Total(f, S) + Total(f, R \ S)
    BY <1>1, <1>2, TotalUnion
  <2> QED
    BY <2>1, <1>2
<1>4. Total(f, S) \in Nat /\ Total(f, R \ S) \in Nat /\ Total(f, R) \in Nat
  <2>1. \A x \in S : f[x] \in Nat
    OBVIOUS
  <2>2. \A x \in R \ S : f[x] \in Nat
    OBVIOUS
  <2>3. \A x \in R : f[x] \in Nat
    OBVIOUS
  <2>4. Total(f, S) \in Nat
    BY <1>1, <2>1, TotalType
  <2>5. Total(f, R \ S) \in Nat
    BY <1>1, <2>2, TotalType
  <2>6. Total(f, R) \in Nat
    BY <2>3, TotalType
  <2> QED
    BY <2>4, <2>5, <2>6
<1>5. CASE R \ S = {}
  BY <1>3, <1>4, <1>5, TotalEmpty
<1>6. CASE R \ S # {}
  <2>1. PICK x \in R \ S : TRUE
    BY <1>6
  <2>2. Total(f, R \ S) = Total(f, (R \ S) \ {x}) + f[x]
    BY <1>1, <2>1, TotalRemove
  <2>3. Total(f, (R \ S) \ {x}) \in Nat
    <3>1. IsFiniteSet((R \ S) \ {x})
      BY <1>1, FS_Subset
    <3>2. \A y \in (R \ S) \ {x} : f[y] \in Nat
      OBVIOUS
    <3> QED
      BY <3>1, <3>2, TotalType
  <2> QED
    BY <2>1, <2>2, <2>3, <1>3, <1>4
<1> QED
  BY <1>5, <1>6

UsedOf(o) == {u \in Units : o[u] > 0}

(* Where the used blocks lie when those of P, the first ones, are packed.  *)
Packed(o, P, T) ==
  /\ P \subseteq UsedOf(o) /\ \A x \in P : \A y \in UsedOf(o) : y < x => y \in P
  /\ T = [u \in UsedOf(o) |-> IF u \in P THEN Total(Sizes(o), Below(P, u)) ELSE u]

(* Used blocks in order, in the zone, and no gap too small for a block.    *)
Spaced(o, T) ==
  /\ T \in [UsedOf(o) -> Nat]
  /\ \A u \in UsedOf(o) : /\ T[u] # 1 /\ T[u] + o[u] <= Zone
                          /\ Zone - (T[u] + o[u]) # 1
  /\ \A u, v \in UsedOf(o) : u < v => T[u] + o[u] <= T[v] /\ T[v] - (T[u] + o[u]) # 1

LEMMA PackedSpaced ==
  ASSUME NEW o, Tiling(o), NEW P, NEW T, Packed(o, P, T)
  PROVE  Spaced(o, T) /\ \A u \in UsedOf(o) : T[u] <= u
<1> DEFINE U == UsedOf(o)
           B == BlocksOf(o)
           f == Sizes(o)
           A(u) == IF u \in P THEN Below(P, u) ELSE Below(B, u)
<1>1. /\ P \subseteq U /\ \A x \in P : \A y \in U : y < x => y \in P
      /\ T = [u \in U |-> IF u \in P THEN Total(f, Below(P, u)) ELSE u]
  BY DEF Packed
<1>2. /\ Zone \in Nat /\ Zone >= 2 /\ MinBlock = 2 /\ Units \subseteq Nat
      /\ U \subseteq B /\ B \subseteq Units /\ IsFiniteSet(B)
  <2>1. B \subseteq Units
    BY DEF BlocksOf
  <2>2. U \subseteq B
    BY DEF UsedOf, BlocksOf
  <2> QED
    BY <2>1, <2>2, ConstantsType, UnitsFinite, FS_Subset
<1>3. \A x \in B : f[x] = Size(o, x) /\ f[x] \in Nat /\ f[x] >= 2 /\ x \in Nat /\ o[x] \in Int
  <2> SUFFICES ASSUME NEW x \in B
               PROVE  f[x] = Size(o, x) /\ f[x] \in Nat /\ f[x] >= 2 /\ x \in Nat /\ o[x] \in Int
    OBVIOUS
  <2>1. x \in Units /\ o[x] # 0
    BY DEF BlocksOf
  <2>2. o \in [Units -> -Zone .. Zone]
    BY DEF Tiling
  <2>3. f[x] = Size(o, x) /\ f[x] \in Nat
    BY <2>1, <2>2, SizesType
  <2> QED
    BY <2>1, <2>3, <1>2, TileShape
<1>4. \A u \in U : f[u] = o[u] /\ o[u] \in Nat
  BY <1>2, <1>3 DEF UsedOf, Size
<1> HIDE DEF U, B, f
(* Where a block ends up is the sum of the sizes of the blocks of A.       *)
<1>5. ASSUME NEW u \in U
      PROVE  /\ A(u) \subseteq B /\ u \notin A(u) /\ T[u] = Total(f, A(u))
             /\ A(u) \cup {u} \subseteq B /\ T[u] + o[u] = Total(f, A(u) \cup {u})
             /\ IsFiniteSet(A(u))
  <2>1. u \in Nat /\ u \in B /\ u \in Units
    BY <1>2, <1>3
  <2>2. A(u) \subseteq B /\ u \notin A(u)
    <3>1. Below(P, u) \subseteq P /\ Below(B, u) \subseteq B /\ u \notin Below(P, u) /\ u \notin Below(B, u)
      BY <2>1 DEF Below
    <3>2. P \subseteq B
      BY <1>1, <1>2
    <3> QED
      BY <3>1, <3>2
  <2>3. T[u] = Total(f, A(u))
    <3>1. CASE u \in P
      BY <3>1, <1>1
    <3>2. CASE u \notin P
      <4>1. T[u] = u
        BY <3>2, <1>1
      <4>2. Total(f, Below(B, u)) = u
        <5>1. o[u] # 0
          BY <2>1 DEF BlocksOf, B
        <5> QED
          BY <5>1, <2>1, TileSums DEF B, f
      <4> QED
        BY <3>2, <4>1, <4>2
    <3> QED
      BY <3>1, <3>2
  <2>4. IsFiniteSet(A(u))
    BY <2>2, <1>2, FS_Subset
  <2> HIDE DEF A
  <2>5. Total(f, A(u) \cup {u}) = Total(f, A(u)) + f[u]
    <3>1. \A y \in A(u) \cup {u} : f[y] \in Nat
      BY <2>1, <2>2, <1>3
    <3> QED
      BY <3>1, <2>2, <2>4, TotalAdd
  <2> QED
    BY <2>1, <2>2, <2>3, <2>4, <2>5, <1>4
<1>6. ASSUME NEW S \in SUBSET B, NEW R \in SUBSET B, S \subseteq R
      PROVE  /\ Total(f, R) \in Nat /\ Total(f, S) \in Nat
             /\ Total(f, R) = Total(f, S) \/ Total(f, R) >= Total(f, S) + 2
  <2>1. IsFiniteSet(R) /\ \A x \in R : f[x] \in Nat /\ f[x] >= 2
    BY <1>2, <1>3, FS_Subset
  <2>2. S \in SUBSET R
    BY <1>6
  <2> QED
    BY <2>1, <2>2, TotalGap
<1>7. Total(f, B) = Zone
  <2>1. Below(B, Zone) = B
    <3>1. \A x \in B : x < Zone
      BY <1>2, ConstantsType DEF Units
    <3> QED
      BY <3>1 DEF Below
  <2>2. Total(f, Below(B, Zone)) = Zone
    BY <1>2, TileSums DEF B, f
  <2> QED
    BY <2>1, <2>2
<1>8. ASSUME NEW u \in U
      PROVE  T[u] \in Nat /\ T[u] # 1 /\ T[u] + o[u] <= Zone /\ Zone - (T[u] + o[u]) # 1
  <2>0. PICK a : a = A(u)
    OBVIOUS
  <2>a. a \in SUBSET B /\ a \cup {u} \in SUBSET B /\ T[u] = Total(f, a) /\ T[u] + o[u] = Total(f, a \cup {u})
    BY <2>0, <1>5
  <2>1. Total(f, a) = 0 \/ Total(f, a) >= 2
    <3>1. {} \in SUBSET B /\ {} \subseteq a
      OBVIOUS
    <3>2. Total(f, a) = Total(f, {}) \/ Total(f, a) >= Total(f, {}) + 2
      BY <2>a, <3>1, <1>6
    <3> QED
      BY <3>2, TotalEmpty
  <2>2. /\ Total(f, B) \in Nat /\ Total(f, a \cup {u}) \in Nat
        /\ Total(f, B) = Total(f, a \cup {u}) \/ Total(f, B) >= Total(f, a \cup {u}) + 2
    <3>1. B \in SUBSET B /\ a \cup {u} \subseteq B
      BY <2>a
    <3> QED
      BY <2>a, <3>1, <1>6
  <2>3. Total(f, a) \in Nat
    <3>1. a \subseteq a
      OBVIOUS
    <3> QED
      BY <3>1, <2>a, <1>6
  <2> QED
    BY <2>1, <2>2, <2>3, <2>a, <1>7
<1>9. ASSUME NEW u \in U, NEW v \in U, u < v
      PROVE  T[u] + o[u] <= T[v] /\ T[v] - (T[u] + o[u]) # 1
  <2>1. A(u) \cup {u} \subseteq A(v)
    <3>1. u \in Nat /\ v \in Nat /\ u \in B
      BY <1>2, <1>3
    <3>2. \A x \in B : x < u => x < v
      BY <3>1, <1>3, <1>9
    <3>3. CASE v \in P
      <4>1. u \in P
        BY <3>3, <1>1, <1>9
      <4> QED
        BY <4>1, <3>2, <3>3, <1>1, <1>2, <1>9 DEF Below
    <3>4. CASE v \notin P
      BY <3>1, <3>2, <3>4, <1>1, <1>2, <1>9 DEF Below
    <3> QED
      BY <3>3, <3>4
  <2>2. PICK a, b : a = A(u) \cup {u} /\ b = A(v)
    OBVIOUS
  <2>3. a \in SUBSET B /\ b \in SUBSET B /\ T[u] + o[u] = Total(f, a) /\ T[v] = Total(f, b)
    BY <2>2, <1>5
  <2>4. a \subseteq b
    BY <2>1, <2>2
  <2>5. /\ Total(f, b) \in Nat /\ Total(f, a) \in Nat
        /\ Total(f, b) = Total(f, a) \/ Total(f, b) >= Total(f, a) + 2
    BY <2>3, <2>4, <1>6
  <2> QED
    BY <2>3, <2>5
<1>10. T \in [U -> Nat]
  BY <1>1, <1>8
<1>11. ASSUME NEW u \in U
       PROVE  T[u] <= u
  <2>1. u \in Nat /\ u \in Units /\ u \in B
    BY <1>2, <1>3
  <2>2. CASE u \in P
    <3>1. PICK a, b : a = Below(P, u) /\ b = Below(B, u)
      OBVIOUS
    <3>2. a \in SUBSET B /\ b \in SUBSET B /\ a \subseteq b
      BY <3>1, <1>1, <1>2 DEF Below
    <3>3. Total(f, b) \in Nat /\ Total(f, a) \in Nat
          /\ (Total(f, b) = Total(f, a) \/ Total(f, b) >= Total(f, a) + 2)
      BY <3>2, <1>6
    <3>4. Total(f, b) = u
      <4>1. o[u] # 0
        BY <2>1 DEF BlocksOf, B
      <4> QED
        BY <4>1, <3>1, <2>1, TileSums DEF B, f
    <3>5. T[u] = Total(f, a)
      BY <3>1, <2>2, <1>1
    <3> QED
      BY <3>3, <3>4, <3>5
  <2>3. CASE u \notin P
    BY <2>1, <2>3, <1>1
  <2> QED
    BY <2>2, <2>3
<1> QED
  BY <1>8, <1>9, <1>10, <1>11 DEF Spaced, U

(* What finalize_layout makes of used blocks at T.                         *)
HeadsAt(o, T) == {T[u] : u \in UsedOf(o)}
EndsAt(o, T)  == {T[u] + o[u] : u \in UsedOf(o)} \cup {0}
LaidOut(o, T, o2) ==
  o2 = [x \in Units |-> IF x \in Holes(EndsAt(o, T), HeadsAt(o, T)) THEN x - EndOfHole(x, HeadsAt(o, T))
                        ELSE IF x \in HeadsAt(o, T)
                        THEN o[CHOOSE u \in UsedOf(o) : T[u] = x] ELSE 0]

(* The used blocks are those of o, at their places.                        *)
Placed(o, T, o2) ==
  /\ \A u \in UsedOf(o) : T[u] \in Units /\ o2[T[u]] = o[u]
  /\ \A x \in UsedOf(o2) : \E u \in UsedOf(o) : x = T[u]

(* No free block touches another.                                          *)
Coalesced(o) ==
  \A a \in Units : o[a] < 0 =>
    /\ a = 0 \/ \E x \in UsedOf(o) : x + o[x] = a
    /\ a + Size(o, a) = Zone \/ a + Size(o, a) \in UsedOf(o)

LEMMA LayoutTiles ==
  ASSUME NEW o, Tiling(o), NEW T, Spaced(o, T), NEW o2, LaidOut(o, T, o2)
  PROVE  /\ Tiling(o2) /\ Placed(o, T, o2) /\ Coalesced(o2)
         /\ Holes(EndsAt(o, T), HeadsAt(o, T)) = {x \in Units : o2[x] < 0}
<1> DEFINE U == UsedOf(o)
           heads == HeadsAt(o, T)
           ends  == EndsAt(o, T)
           holes == Holes(ends, heads)
           E(a)  == EndOfHole(a, heads)
<1>1. /\ T \in [U -> Nat]
      /\ \A u \in U : T[u] # 1 /\ T[u] + o[u] <= Zone /\ Zone - (T[u] + o[u]) # 1
      /\ \A u, v \in U : u < v => T[u] + o[u] <= T[v] /\ T[v] - (T[u] + o[u]) # 1
  BY DEF Spaced
<1>2. /\ Zone \in Nat /\ Zone >= 2 /\ MinBlock = 2 /\ Units = 0 .. Zone - 1
      /\ \A u \in U : u \in Nat /\ u \in Units /\ o[u] \in Nat /\ o[u] >= 2 /\ o[u] <= Zone
  <2>1. ASSUME NEW u \in U
        PROVE  u \in Nat /\ u \in Units /\ o[u] \in Nat /\ o[u] >= 2 /\ o[u] <= Zone
    <3>1. u \in Units /\ o[u] > 0
      BY DEF UsedOf
    <3>2. o[u] \in -Zone .. Zone /\ Zone \in Nat
      BY <3>1, ConstantsType DEF Tiling
    <3>3. o[u] # 0 /\ Size(o, u) = o[u]
      BY <3>1, <3>2 DEF Size
    <3> QED
      BY <3>1, <3>2, <3>3, TileShape, ConstantsType
  <2> QED
    BY <2>1, ConstantsType DEF Units
<1>3. \A x \in Units :
        o2[x] = IF x \in holes THEN x - E(x)
                ELSE IF x \in heads THEN o[CHOOSE u \in U : T[u] = x] ELSE 0
  BY DEF LaidOut
<1>4. /\ \A u \in U : T[u] \in heads /\ T[u] + o[u] \in ends
      /\ \A x \in heads : \E u \in U : x = T[u]
      /\ \A x \in ends : x = 0 \/ \E u \in U : x = T[u] + o[u]
      /\ 0 \in ends
  BY DEF HeadsAt, EndsAt
<1> HIDE DEF U
<1>5. \A x \in heads : x \in Nat /\ x < Zone /\ x \in Units
  <2> SUFFICES ASSUME NEW x \in heads PROVE x \in Nat /\ x < Zone /\ x \in Units
    OBVIOUS
  <2>1. PICK u \in U : x = T[u]
    BY <1>4
  <2>2. x \in Nat /\ x + o[u] <= Zone
    BY <2>1, <1>1
  <2> QED
    BY <2>2, <1>2
<1>6. \A x \in ends : x \in Nat /\ x <= Zone
  BY <1>1, <1>2, <1>4
<1>7. ASSUME NEW a \in Nat, a <= Zone
      PROVE  /\ E(a) \in heads \cup {Zone} /\ E(a) \in Nat /\ a <= E(a) /\ E(a) <= Zone
             /\ \A x \in heads : a <= x => E(a) <= x
  <2> DEFINE S == {x \in heads : x >= a} \cup {Zone}
  <2>1. S \in SUBSET Nat /\ S # {} /\ \A x \in S : a <= x
    BY <1>2, <1>5, <1>7
  <2>2. Min(S) \in S /\ \A n \in S : Min(S) <= n
    <3> HIDE DEF S
    <3> QED
      BY <2>1, MinOfNumbers
  <2>3. E(a) = Min(S)
    BY DEF EndOfHole
  <2>4. \A x \in heads : a <= x => x \in S
    BY <1>5
  <2>5. Zone \in S /\ S \subseteq heads \cup {Zone}
    OBVIOUS
  <2> HIDE DEF S
  <2> QED
    BY <2>1, <2>2, <2>3, <2>4, <2>5
<1>8. \A x : x \in holes <=> x \in ends /\ E(x) > x
  BY DEF Holes
<1> HIDE DEF heads, ends, holes, E
(* Two used blocks do not overlap.                                         *)
<1>9. ASSUME NEW u \in U, NEW v \in U
      PROVE  \/ u < v /\ T[u] + o[u] <= T[v] /\ T[v] - (T[u] + o[u]) # 1
             \/ v < u /\ T[v] + o[v] <= T[u]
             \/ u = v
  BY <1>1, <1>2
<1>10. \A u \in U : T[u] \in Nat /\ o[u] \in Nat /\ o[u] >= 2 /\ T[u] + o[u] <= Zone /\ T[u] # 1
                    /\ Zone - (T[u] + o[u]) # 1
  BY <1>1, <1>2
<1>11. ASSUME NEW u \in U
       PROVE  T[u] \in Units /\ T[u] \notin holes /\ o2[T[u]] = o[u]
  <2>1. T[u] \in heads /\ T[u] \in Units /\ T[u] \in Nat /\ T[u] <= Zone
    <3>1. T[u] \in heads
      BY <1>4
    <3>2. T[u] \in Nat /\ T[u] < Zone /\ T[u] \in Units
      BY <3>1, <1>5
    <3> QED
      BY <3>1, <3>2, <1>2
  <2>2. E(T[u]) <= T[u] /\ E(T[u]) \in Nat
    BY <2>1, <1>7
  <2>3. T[u] \notin holes
    BY <2>1, <2>2, <1>8
  <2>4. \A v \in U : T[v] = T[u] => v = u
    <3> SUFFICES ASSUME NEW v \in U, T[v] = T[u] PROVE v = u
      OBVIOUS
    <3> QED
      BY <1>9, <1>10
  <2>5. (CHOOSE v \in U : T[v] = T[u]) = u
    BY <2>4
  <2> QED
    BY <2>1, <2>3, <2>5, <1>3
<1>12. ASSUME NEW a \in holes
       PROVE  /\ a \in Nat /\ a \in Units /\ E(a) \in Nat /\ E(a) <= Zone /\ E(a) >= a + 2
              /\ o2[a] = a - E(a) /\ a \in ends
  <2>1. a \in ends /\ E(a) > a /\ a \in Nat /\ a <= Zone
    BY <1>6, <1>8
  <2>2. /\ E(a) \in heads \cup {Zone} /\ E(a) \in Nat /\ E(a) <= Zone
    BY <2>1, <1>7
  <2>3. a \in Units
    BY <2>1, <2>2, <1>2
  <2>4. E(a) # a + 1
    <3>1. CASE a = 0
      <4>1. E(a) # 1
        BY <2>2, <1>2, <1>4, <1>10
      <4> QED
        BY <3>1, <4>1
    <3>2. ASSUME NEW u \in U, a = T[u] + o[u]
          PROVE  E(a) # a + 1
      <4>1. CASE E(a) = Zone
        BY <4>1, <3>2, <2>2, <1>2, <1>10
      <4>2. CASE E(a) \in heads
        <5>1. PICK v \in U : E(a) = T[v]
          BY <4>2, <1>4
        <5> QED
          BY <5>1, <3>2, <2>1, <2>2, <1>9, <1>10
      <4> QED
        BY <4>1, <4>2, <2>2
    <3>3. a = 0 \/ \E u \in U : a = T[u] + o[u]
      BY <2>1, <1>4
    <3> QED
      BY <3>1, <3>2, <3>3
  <2>5. E(a) >= a + 2
    BY <2>1, <2>2, <2>4
  <2>6. o2[a] = a - E(a)
    BY <2>3, <1>3
  <2> QED
    BY <2>1, <2>2, <2>3, <2>5, <2>6
<1>13. ASSUME NEW x \in Units
       PROVE  /\ o2[x] < 0 => x \in holes
              /\ o2[x] > 0 => \E u \in U : x = T[u]
              /\ x \notin holes /\ x \notin heads => o2[x] = 0
              /\ o2[x] \in -Zone .. Zone
  <2>1. CASE x \in holes
    <3>1. x \in Nat /\ E(x) \in Nat /\ E(x) <= Zone /\ E(x) >= x + 2 /\ o2[x] = x - E(x)
      BY <2>1, <1>12
    <3> QED
      BY <2>1, <3>1, <1>2
  <2>2. CASE x \notin holes /\ x \in heads
    <3>1. PICK u \in U : x = T[u]
      BY <2>2, <1>4
    <3>2. o2[x] = o[u] /\ o[u] \in Nat /\ o[u] <= Zone
      BY <3>1, <1>2, <1>11
    <3> QED
      BY <2>2, <3>1, <3>2, <1>2
  <2>3. CASE x \notin holes /\ x \notin heads
    <3>1. o2[x] = 0
      BY <2>3, <1>3
    <3> QED
      BY <2>3, <3>1, <1>2
  <2> QED
    BY <2>1, <2>2, <2>3
<1>14. holes = {x \in Units : o2[x] < 0}
  <2>1. \A a \in holes : a \in Units /\ o2[a] < 0
    <3> SUFFICES ASSUME NEW a \in holes PROVE a \in Units /\ o2[a] < 0
      OBVIOUS
    <3>1. a \in Nat /\ a \in Units /\ E(a) \in Nat /\ E(a) >= a + 2 /\ o2[a] = a - E(a)
      BY <1>12
    <3> QED
      BY <3>1
  <2> QED
    BY <2>1, <1>13
(* Wherever a block ends, a block or the zone's end follows.               *)
<1>15. ASSUME NEW e \in ends
       PROVE  e = Zone \/ (e \in Units /\ o2[e] # 0)
  <2>1. e \in Nat /\ e <= Zone
    BY <1>6
  <2>2. /\ E(e) \in heads \cup {Zone} /\ E(e) \in Nat /\ e <= E(e)
    BY <2>1, <1>7
  <2>3. CASE E(e) > e
    <3>1. e \in holes
      BY <2>3, <1>8
    <3>2. e \in Units /\ o2[e] < 0
      BY <3>1, <1>14
    <3> QED
      BY <3>2
  <2>4. CASE E(e) = e
    <3>1. CASE e = Zone
      BY <3>1
    <3>2. CASE e \in heads
      <4>1. PICK u \in U : e = T[u]
        BY <3>2, <1>4
      <4>2. e \in Units /\ o2[e] = o[u] /\ o[u] >= 2 /\ o[u] \in Nat
        BY <4>1, <1>10, <1>11
      <4> QED
        BY <4>2
    <3> QED
      BY <3>1, <3>2, <2>2, <2>4
  <2> QED
    BY <2>1, <2>2, <2>3, <2>4
(* No block starts or ends inside a used block.                            *)
<1>16. ASSUME NEW u \in U, NEW x \in Nat, T[u] < x, x < T[u] + o[u]
       PROVE  x \notin heads /\ x \notin ends
  <2>1. x \notin heads
    <3> SUFFICES ASSUME NEW v \in U, x = T[v] PROVE FALSE
      BY <1>4
    <3> QED
      BY <1>9, <1>10, <1>16
  <2>2. x \notin ends
    <3>1. x # 0
      BY <1>10, <1>16
    <3>2. ASSUME NEW v \in U, x = T[v] + o[v]
          PROVE  FALSE
      BY <3>2, <1>9, <1>10, <1>16
    <3> QED
      BY <3>1, <3>2, <1>4
  <2> QED
    BY <2>1, <2>2
<1>17. ASSUME NEW a \in holes, NEW x \in Nat, a < x, x < E(a)
       PROVE  x \notin heads /\ x \notin ends
  <2>1. a \in Nat /\ a <= Zone /\ a \in ends /\ E(a) \in Nat
    BY <1>2, <1>12
  <2>2. \A y \in heads : y \in Nat /\ (a <= y => E(a) <= y)
    BY <2>1, <1>5, <1>7
  <2>3. x \notin heads
    BY <2>1, <2>2, <1>17
  <2>4. x \notin ends
    <3>1. x # 0
      BY <2>1, <1>17
    <3>2. ASSUME NEW v \in U, x = T[v] + o[v]
          PROVE  FALSE
      <4>1. T[v] \in heads /\ T[v] \in Nat /\ o[v] \in Nat /\ o[v] >= 2
        BY <1>4, <1>10
      <4>2. T[v] < a
        BY <4>1, <3>2, <2>1, <2>2, <1>17
      <4>3. a < T[v] + o[v]
        BY <3>2, <1>17
      <4> QED
        BY <4>1, <4>2, <4>3, <2>1, <1>16
    <3> QED
      BY <3>1, <3>2, <1>4
  <2> QED
    BY <2>3, <2>4
<1>18. \A x \in Units : x \in Nat /\ (x \notin heads /\ x \notin ends => o2[x] = 0)
  BY <1>2, <1>8, <1>13
<1>19. o2 \in [Units -> -Zone .. Zone]
  <2>1. o2 = [x \in Units |-> o2[x]]
    BY DEF LaidOut
  <2> QED
    BY <2>1, <1>13
<1>20. o2[0] # 0
  BY <1>2, <1>4, <1>15
<1>21. ASSUME NEW u \in Units, o2[u] # 0
       PROVE  /\ Size(o2, u) >= MinBlock
              /\ u + Size(o2, u) = Zone \/ (u + Size(o2, u) \in Units /\ o2[u + Size(o2, u)] # 0)
              /\ \A x \in Units : u < x /\ x < u + Size(o2, u) => o2[x] = 0
  <2>1. o2[u] \in -Zone .. Zone /\ Zone \in Nat
    BY <1>2, <1>13
  <2>2. CASE o2[u] < 0
    <3>1. u \in holes /\ u \in Nat /\ E(u) \in Nat /\ E(u) <= Zone /\ E(u) >= u + 2 /\ o2[u] = u - E(u)
      BY <2>2, <1>12, <1>13
    <3>2. Size(o2, u) = E(u) - u /\ u + Size(o2, u) = E(u)
      BY <2>2, <3>1 DEF Size
    <3>3. E(u) = Zone \/ (E(u) \in Units /\ o2[E(u)] # 0)
      <4>1. u <= Zone
        BY <3>1, <2>1
      <4>2. E(u) \in heads \cup {Zone}
        BY <4>1, <3>1, <1>7
      <4>3. CASE E(u) \in heads
        <5>1. PICK v \in U : E(u) = T[v]
          BY <4>3, <1>4
        <5>2. E(u) \in Units /\ o2[E(u)] = o[v] /\ o[v] \in Nat /\ o[v] >= 2
          BY <5>1, <1>10, <1>11
        <5> QED
          BY <5>2
      <4> QED
        BY <4>2, <4>3
    <3>4. \A x \in Units : u < x /\ x < E(u) => o2[x] = 0
      BY <3>1, <1>17, <1>18
    <3> QED
      BY <3>1, <3>2, <3>3, <3>4, <1>2
  <2>3. CASE o2[u] > 0
    <3>1. PICK v \in U : u = T[v]
      BY <2>3, <1>13
    <3>2. o2[u] = o[v] /\ Size(o2, u) = o[v] /\ o[v] >= 2 /\ o[v] \in Nat
      BY <2>1, <2>3, <3>1, <1>10, <1>11 DEF Size
    <3>3. T[v] + o[v] \in ends
      BY <1>4
    <3>4. u + Size(o2, u) = Zone \/ (u + Size(o2, u) \in Units /\ o2[u + Size(o2, u)] # 0)
      BY <3>1, <3>2, <3>3, <1>15
    <3>5. \A x \in Units : u < x /\ x < u + Size(o2, u) => o2[x] = 0
      BY <3>1, <3>2, <1>16, <1>18
    <3> QED
      BY <3>2, <3>4, <3>5, <1>2
  <2> QED
    BY <2>1, <2>2, <2>3, <1>21
<1>22. Tiling(o2)
  BY <1>19, <1>20, <1>21 DEF Tiling
<1>23. \A x : x \in UsedOf(o2) <=> x \in Units /\ o2[x] > 0
  BY DEF UsedOf
<1>24. \A u \in U : T[u] \in UsedOf(o2) /\ T[u] \in Units /\ o2[T[u]] = o[u]
  <2> SUFFICES ASSUME NEW u \in U PROVE T[u] \in UsedOf(o2) /\ T[u] \in Units /\ o2[T[u]] = o[u]
    OBVIOUS
  <2>1. T[u] \in Units /\ o2[T[u]] = o[u] /\ o[u] > 0
    BY <1>10, <1>11
  <2> QED
    BY <2>1, <1>23
<1>25. Placed(o, T, o2)
  BY <1>13, <1>23, <1>24 DEF Placed, U
<1>26. ASSUME NEW a \in Units, o2[a] < 0
       PROVE  /\ a = 0 \/ \E x \in UsedOf(o2) : x + o2[x] = a
              /\ a + Size(o2, a) = Zone \/ a + Size(o2, a) \in UsedOf(o2)
  <2>1. a \in holes /\ a \in Nat /\ E(a) \in Nat /\ o2[a] = a - E(a) /\ a \in ends /\ E(a) <= Zone /\ E(a) >= a + 2
    BY <1>12, <1>13, <1>26
  <2>2. Size(o2, a) = E(a) - a /\ a + Size(o2, a) = E(a)
    BY <2>1, <1>26 DEF Size
  <2>3. E(a) \in heads \cup {Zone}
    BY <2>1, <1>2, <1>7
  <2>4. E(a) = Zone \/ E(a) \in UsedOf(o2)
    BY <2>3, <1>4, <1>24
  <2>5. a = 0 \/ \E x \in UsedOf(o2) : x + o2[x] = a
    BY <2>1, <1>4, <1>24
  <2> QED
    BY <2>2, <2>4, <2>5
<1>27. Coalesced(o2)
  BY <1>26 DEF Coalesced
<1> QED
  BY <1>14, <1>22, <1>25, <1>27 DEF holes, heads, ends

(* A compaction packs some first blocks and lays out the rest.             *)
Compacts(P, T) ==
  /\ Packed(own, P, T) /\ LaidOut(own, T, own')
  /\ bins' = reset
  /\ todo' = Holes(EndsAt(own, T), HeadsAt(own, T))

LEMMA CompactMeans ==
  ASSUME BinsInvariant, NEW k \in 1 .. Zone, Compact(k)
  PROVE  \E P, T : Compacts(P, T)
<1> DEFINE used   == {u \in Units : own[u] > 0}
           packed == {u \in used : Cardinality({x \in used : x < u}) < k}
           to(u)  == IF u \in packed THEN MapThenSumSet(SizeAt, {x \in packed : x < u}) ELSE u
           heads  == {to(u) : u \in used}
           ends   == {to(u) + own[u] : u \in used} \cup {0}
           holes  == Holes(ends, heads)
<1>1. /\ k <= Cardinality(used) /\ bins' = reset /\ todo' = holes
      /\ own' = [x \in Units |-> IF x \in holes THEN x - EndOfHole(x, heads)
                                 ELSE IF x \in heads
                                 THEN own[CHOOSE u \in used : to(u) = x] ELSE 0]
  BY Zenon DEF Compact
<1>2. Tiling(own) /\ own \in [Units -> -Zone .. Zone] /\ Units \subseteq Nat
  BY ConstantsType DEF BinsInvariant, Tiling
<1>3. used = UsedOf(own) /\ used \subseteq Units /\ used \subseteq Nat /\ IsFiniteSet(used)
  <2>1. used \subseteq Units
    OBVIOUS
  <2> QED
    BY <2>1, <1>2, UnitsFinite, FS_Subset DEF UsedOf
<1>4. packed \subseteq used /\ \A x \in packed : \A y \in used : y < x => y \in packed
  <2> SUFFICES ASSUME NEW x \in packed, NEW y \in used, y < x PROVE y \in packed
    OBVIOUS
  <2> DEFINE A == {v \in used : v < y}
             B == {v \in used : v < x}
  <2>1. A \in SUBSET B /\ B \in SUBSET used
    BY <1>3
  <2>2. IsFiniteSet(B) /\ Cardinality(B) <= Cardinality(used) /\ Cardinality(B) < k
    BY <2>1, <1>3, FS_Subset
  <2>3. Cardinality(A) <= Cardinality(B) /\ IsFiniteSet(A)
    BY <2>1, <2>2, FS_Subset
  <2>4. Cardinality(A) \in Nat /\ Cardinality(B) \in Nat
    BY <2>2, <2>3, FS_CardinalityType
  <2>5. Cardinality(A) < k
    <3> HIDE DEF A, B
    <3> QED
      BY <2>2, <2>3, <2>4
  <2> QED
    BY <2>5
<1>5. PICK P : P = packed
  OBVIOUS
<1>6. PICK T : T = [u \in UsedOf(own) |-> IF u \in P THEN Total(Sizes(own), Below(P, u)) ELSE u]
  OBVIOUS
<1>7. Packed(own, P, T)
  BY <1>3, <1>4, <1>5, <1>6 DEF Packed
<1>8. \A u \in used : to(u) = T[u]
  <2> SUFFICES ASSUME NEW u \in used PROVE to(u) = T[u]
    OBVIOUS
  <2>1. Below(P, u) \in SUBSET Units /\ Below(P, u) = {x \in packed : x < u}
    BY <1>3, <1>4, <1>5 DEF Below
  <2>2. MapThenSumSet(SizeAt, Below(P, u)) = Total(Sizes(own), Below(P, u))
    BY <2>1, <1>2, BytesTotal
  <2>3. to(u) = IF u \in P THEN MapThenSumSet(SizeAt, Below(P, u)) ELSE u
    BY <2>1, <1>5, Zenon
  <2> HIDE DEF to
  <2> QED
    BY <2>2, <2>3, <1>3, <1>6
<1> HIDE DEF packed, to
<1>9. heads = HeadsAt(own, T)
  <2>1. HeadsAt(own, T) = {T[u] : u \in used}
    BY <1>3, Zenon DEF HeadsAt
  <2> HIDE DEF used
  <2> QED
    BY <2>1, <1>8
<1>10. ends = EndsAt(own, T)
  <2>1. EndsAt(own, T) = {T[u] + own[u] : u \in used} \cup {0}
    BY <1>3, Zenon DEF EndsAt
  <2> HIDE DEF used
  <2> QED
    BY <2>1, <1>8
<1>11. holes = Holes(EndsAt(own, T), HeadsAt(own, T))
  BY <1>9, <1>10, Zenon
<1>12. \A x : (CHOOSE u \in used : to(u) = x) = (CHOOSE u \in UsedOf(own) : T[u] = x)
  <2> SUFFICES ASSUME NEW x
               PROVE  (CHOOSE u \in used : to(u) = x) = (CHOOSE u \in UsedOf(own) : T[u] = x)
    OBVIOUS
  <2>1. \A u : (u \in used /\ to(u) = x) <=> (u \in UsedOf(own) /\ T[u] = x)
    BY <1>3, <1>8
  <2> HIDE DEF used
  <2> QED
    BY <2>1
<1>13. LaidOut(own, T, own')
  <2> HIDE DEF used
  <2>1. own' = [x \in Units |-> IF x \in holes THEN x - EndOfHole(x, heads)
                                ELSE IF x \in heads
                                THEN own[CHOOSE u \in UsedOf(own) : T[u] = x] ELSE 0]
    <3> DEFINE Was(x) == CHOOSE u \in used : to(u) = x
               Is(x)  == CHOOSE u \in UsedOf(own) : T[u] = x
    <3>1. \A x : Was(x) = Is(x)
      BY <1>12
    <3>2. own' = [x \in Units |-> IF x \in holes THEN x - EndOfHole(x, heads)
                                  ELSE IF x \in heads THEN own[Was(x)] ELSE 0]
      BY <1>1
    <3> HIDE DEF Was, Is, holes, heads
    <3>3. own' = [x \in Units |-> IF x \in holes THEN x - EndOfHole(x, heads)
                                  ELSE IF x \in heads THEN own[Is(x)] ELSE 0]
      BY ONLY <3>1, <3>2, Zenon
    <3> QED
      BY ONLY <3>3, Zenon DEF Is
  <2>2. own' = [x \in Units |-> IF x \in Holes(EndsAt(own, T), HeadsAt(own, T))
                                THEN x - EndOfHole(x, HeadsAt(own, T))
                                ELSE IF x \in HeadsAt(own, T)
                                THEN own[CHOOSE u \in UsedOf(own) : T[u] = x] ELSE 0]
    <3>1. heads = HeadsAt(own, T) /\ holes = Holes(EndsAt(own, T), HeadsAt(own, T))
      BY <1>9, <1>11
    <3> HIDE DEF holes, heads
    <3> DEFINE Is(x) == own[CHOOSE u \in UsedOf(own) : T[u] = x]
    <3>2. own' = [x \in Units |-> IF x \in holes THEN x - EndOfHole(x, heads)
                                  ELSE IF x \in heads THEN Is(x) ELSE 0]
      BY <2>1
    <3> HIDE DEF Is
    <3>3. \A x \in Units : (IF x \in holes THEN x - EndOfHole(x, heads)
                            ELSE IF x \in heads THEN Is(x) ELSE 0)
                         = (IF x \in Holes(EndsAt(own, T), HeadsAt(own, T))
                            THEN x - EndOfHole(x, HeadsAt(own, T))
                            ELSE IF x \in HeadsAt(own, T) THEN Is(x) ELSE 0)
      BY ONLY <3>1
    <3>4. own' = [x \in Units |-> IF x \in Holes(EndsAt(own, T), HeadsAt(own, T))
                                  THEN x - EndOfHole(x, HeadsAt(own, T))
                                  ELSE IF x \in HeadsAt(own, T) THEN Is(x) ELSE 0]
      BY ONLY <3>2, <3>3, Zenon
    <3> QED
      BY ONLY <3>4, Zenon DEF Is
  <2> QED
    BY ONLY <2>2, Zenon DEF LaidOut
<1>14. todo' = Holes(EndsAt(own, T), HeadsAt(own, T))
  <2> HIDE DEF holes
  <2> QED
    BY <1>1, <1>11
<1> HIDE DEF used, heads, ends, holes
<1>15. Compacts(P, T)
  BY <1>1, <1>7, <1>13, <1>14 DEF Compacts
<1> QED
  BY <1>15

LEMMA CompactBins ==
  ASSUME BinsInvariant, NEW k \in 1 .. Zone, Compact(k)
  PROVE  BinsInvariant'
<1>1. PICK P, T : Compacts(P, T)
  BY CompactMeans
<1>2. /\ Packed(own, P, T) /\ LaidOut(own, T, own') /\ bins' = reset
      /\ todo' = Holes(EndsAt(own, T), HeadsAt(own, T))
  BY <1>1, Zenon DEF Compacts
<1>3. PICK o2 : o2 = own'
  OBVIOUS
<1>4. PICK td : td = todo'
  OBVIOUS
<1>5. Tiling(o2) /\ td = {x \in Units : o2[x] < 0}
  <2>1. Tiling(own)
    BY DEF BinsInvariant
  <2>2. Spaced(own, T)
    BY <2>1, <1>2, PackedSpaced
  <2>3. td = Holes(EndsAt(own, T), HeadsAt(own, T)) /\ LaidOut(own, T, o2)
    BY <1>2, <1>3, <1>4
  <2> QED
    BY <2>1, <2>2, <2>3, LayoutTiles
<1>6. Binned(o2, td) = [u \in Units |-> Unbinned]
  BY <1>5 DEF Binned
<1>7. Tiling(own') /\ Index(bins', Binned(own', todo'))
  BY <1>2, <1>3, <1>4, <1>5, <1>6, IndexReset
<1>8. todo' \subseteq FreeBlocks'
  BY <1>3, <1>4, <1>5 DEF FreeBlocks, IsFree
<1> QED
  BY <1>7, <1>8 DEF BinsInvariant

(* The index, the headers and the holes yet to be inserted stay in step    *)
(* through every alloc, free, compaction and insertion.                    *)
THEOREM BinsInductive == Spec => []BinsInvariant
<1>1. Init => BinsInvariant
  BY InitBins
<1>2. BinsInvariant /\ [Next]_vars => BinsInvariant'
  <2> SUFFICES ASSUME BinsInvariant, [Next]_vars PROVE BinsInvariant'
    OBVIOUS
  <2>1. ASSUME NEW need \in MinBlock .. Zone, Alloc(need)
        PROVE  BinsInvariant'
    BY <2>1, AllocBins
  <2>2. ASSUME NEW u \in Units, Free(u)
        PROVE  BinsInvariant'
    BY <2>2, FreeBins
  <2>3. ASSUME NEW k \in 1 .. Zone, Compact(k)
        PROVE  BinsInvariant'
    BY <2>3, CompactBins
  <2>4. CASE InsertHole
    BY <2>4, InsertHoleBins
  <2>5. CASE UNCHANGED vars
    <3>1. own' = own /\ bins' = bins /\ todo' = todo
      BY <2>5 DEF vars
    <3>2. Tiling(own') /\ Index(bins', Binned(own', todo'))
      BY <3>1 DEF BinsInvariant
    <3>3. todo' \subseteq FreeBlocks'
      BY <3>1 DEF BinsInvariant, FreeBlocks, IsFree
    <3> QED
      BY <3>2, <3>3 DEF BinsInvariant
  <2> QED
    BY <2>1, <2>2, <2>3, <2>4, <2>5 DEF Next
<1> QED
  BY <1>1, <1>2, PTL DEF Spec

-----------------------------------------------------------------------------
(* What the runs check, of every pool. *)

LEMMA SequenceShape ==
  ASSUME NEW S, NEW n \in Nat, NEW s \in [1 .. n -> S]
  PROVE  /\ DOMAIN s = 1 .. n /\ Len(s) = n
         /\ s # <<>> <=> n # 0
         /\ ToSet(s) = {s[i] : i \in 1 .. n}
<1>1. DOMAIN s = 1 .. n /\ s \in Seq(S) /\ Len(s) = n
  OBVIOUS
<1>2. s # <<>> <=> n # 0
  <2>1. CASE n = 0
    <3>1. s = [i \in 1 .. 0 |-> s[i]] /\ 1 .. 0 = {}
      BY <2>1
    <3>2. <<>> = [i \in 1 .. 0 |-> s[i]]
      BY <3>1
    <3> QED
      BY <2>1, <3>1, <3>2
  <2>2. CASE n # 0
    <3>1. Len(<<>>) = 0
      OBVIOUS
    <3> QED
      BY <2>2, <3>1, <1>1
  <2> QED
    BY <2>1, <2>2
<1> QED
  BY <1>1, <1>2 DEF ToSet

(* The list of a class, as a walk reads it.                                *)
Members(c) == {u \in FreeBlocks \ todo : Class(u) = c}

LEMMA MembersIn ==
  ASSUME BinsInvariant, NEW c \in Classes
  PROVE  In(Binned(own, todo), c) = Members(c)
<1>1. /\ Tiling(own)
      /\ \A u \in Units : Binned(own, todo)[u]
                            = IF own[u] < 0 /\ u \notin todo THEN ClassOf(Size(own, u)) ELSE Unbinned
  BY BinnedShape DEF BinsInvariant
<1>2. \A u \in Units : u \in FreeBlocks \ todo <=> own[u] < 0 /\ u \notin todo
  BY DEF FreeBlocks, IsFree
<1>3. \A u \in Units : Class(u) = ClassOf(Size(own, u))
  BY SizeIs DEF Class
<1>4. ASSUME NEW u \in Units
      PROVE  Binned(own, todo)[u] = c <=> u \in FreeBlocks \ todo /\ Class(u) = c
  BY <1>1, <1>2, <1>3, ClassParts
<1>5. Members(c) \subseteq Units
  BY DEF Members, FreeBlocks
<1> QED
  BY <1>4, <1>5 DEF In, Members

LEMMA ChainIsList ==
  ASSUME BinsInvariant, NEW c \in Classes
  PROVE  \E n \in 0 .. MaxSteps : \E t :
           /\ Thread(bins.head[c], bins.next, bins.prev, n, t) /\ Along(n, t) = Members(c)
           /\ Chain(bins, c) \in [1 .. n -> Units]
           /\ \A i \in 1 .. n : Chain(bins, c)[i] = t[i]
<1>1. PICK cl : cl = Binned(own, todo)
  OBVIOUS
<1>2. Tiling(own) /\ Index(bins, cl)
  BY <1>1 DEF BinsInvariant
<1>3. \A u \in Units : cl[u] \in Classes => own[u] # 0
  <2>1. \A u \in Units : cl[u] \in Classes => own[u] < 0
    BY <1>1, <1>2, BinnedShape
  <2>2. \A u \in Units : own[u] < 0 => own[u] # 0
    OBVIOUS
  <2> QED
    BY <2>1, <2>2
<1>4. In(cl, c) = Members(c)
  BY <1>1, MembersIn
<1>5. \E n \in 0 .. MaxSteps : \E t :
        /\ Thread(bins.head[c], bins.next, bins.prev, n, t) /\ Along(n, t) = In(cl, c)
        /\ Chain(bins, c) \in [1 .. n -> Units]
        /\ \A i \in 1 .. n : Chain(bins, c)[i] = t[i]
  BY <1>2, <1>3, ListChain
<1> QED
  BY <1>4, <1>5

(* Links, bitmaps and heads of a sound index.                              *)
LEMMA SoundWords ==
  ASSUME BinsInvariant
  PROVE  /\ bins \in Words /\ bins.fl = {f \in Levels : bins.sl[f] # {}}
         /\ \A c \in Classes : /\ List(bins.head[c], bins.next, bins.prev, Members(c))
                               /\ c[2] \in bins.sl[c[1]] <=> Members(c) # {}
         /\ \A u \in Units : u \notin FreeBlocks \ todo => bins.next[u] = Junk /\ bins.prev[u] = Junk
<1>1. PICK cl : cl = Binned(own, todo)
  OBVIOUS
<1>2. Index(bins, cl) /\ Tiling(own)
  BY <1>1 DEF BinsInvariant
<1>3. \A c \in Classes : In(cl, c) = Members(c)
  BY <1>1, MembersIn
<1>4. \A u \in Units : u \notin FreeBlocks \ todo => cl[u] = Unbinned
  BY <1>1, <1>2, BinnedShape DEF FreeBlocks, IsFree
<1>5. /\ \A c \in Classes : List(bins.head[c], bins.next, bins.prev, In(cl, c))
      /\ \A c \in Classes : c[2] \in bins.sl[c[1]] <=> In(cl, c) # {}
      /\ bins.fl = {f \in Levels : bins.sl[f] # {}} /\ bins \in Words
      /\ \A u \in Units : cl[u] = Unbinned => bins.next[u] = Junk /\ bins.prev[u] = Junk
  BY <1>2 DEF Index, Listed, Mapped, Stale
<1> QED
  BY <1>3, <1>4, <1>5

LEMMA InvariantTypes == BinsInvariant => TypeOK
<1> SUFFICES ASSUME BinsInvariant PROVE TypeOK
  OBVIOUS
<1>1. own \in [Units -> -Zone .. Zone] /\ todo \subseteq FreeBlocks
  BY DEF BinsInvariant, Tiling
<1>2. bins \in Words
  BY SoundWords
<1> QED
  BY <1>1, <1>2 DEF TypeOK, Words

(* Every word of the index, and every header, keeps its range.             *)
THEOREM BinsTypeOK == Spec => []TypeOK
  BY BinsInductive, InvariantTypes, PTL

LEMMA InvariantExact == BinsInvariant => IndexExact
<1> SUFFICES ASSUME BinsInvariant PROVE IndexExact
  OBVIOUS
<1>1. ASSUME NEW c \in Classes
      PROVE  /\ ToSet(Chain(bins, c)) = {u \in FreeBlocks \ todo : Class(u) = c}
             /\ IsInjective(Chain(bins, c))
             /\ \A i \in DOMAIN Chain(bins, c) :
                  bins.prev[Chain(bins, c)[i]] = IF i = 1 THEN Null ELSE Chain(bins, c)[i - 1]
             /\ c[2] \in bins.sl[c[1]] <=> Chain(bins, c) # <<>>
  <2>0. PICK chain : chain = Chain(bins, c)
    OBVIOUS
  <2>1. PICK n \in 0 .. MaxSteps : \E t :
          /\ Thread(bins.head[c], bins.next, bins.prev, n, t) /\ Along(n, t) = Members(c)
          /\ chain \in [1 .. n -> Units]
          /\ \A i \in 1 .. n : chain[i] = t[i]
    BY <2>0, ChainIsList
  <2>2. PICK t : /\ Thread(bins.head[c], bins.next, bins.prev, n, t) /\ Along(n, t) = Members(c)
                 /\ chain \in [1 .. n -> Units]
                 /\ \A i \in 1 .. n : chain[i] = t[i]
    BY <2>1
  <2>3. n \in Nat
    BY MaxStepsType
  <2>4. /\ DOMAIN chain = 1 .. n /\ (chain # <<>> <=> n # 0)
        /\ ToSet(chain) = {chain[i] : i \in 1 .. n}
    <3>1. chain \in [1 .. n -> Units]
      BY <2>2
    <3> QED
      BY ONLY <3>1, <2>3, SequenceShape, Zenon
  <2>5. ToSet(chain) = Members(c)
    BY <2>2, <2>4 DEF Along
  <2>6. IsInjective(chain)
    BY <2>2, <2>4 DEF Thread, IsInjective
  <2>7. ASSUME NEW i \in 1 .. n
        PROVE  bins.prev[chain[i]] = IF i = 1 THEN Null ELSE chain[i - 1]
    <3>1. bins.prev[chain[i]] = t[i - 1] /\ t[0] = Null
      BY <2>2 DEF Thread
    <3>2. i # 1 => chain[i - 1] = t[i - 1]
      <4>1. i # 1 => i - 1 \in 1 .. n
        BY <2>3
      <4> QED
        BY <4>1, <2>2
    <3> QED
      BY <3>1, <3>2
  <2>8. n # 0 <=> Members(c) # {}
    <3>1. n = 0 => Along(n, t) = {}
      BY DEF Along
    <3>2. n # 0 => 1 \in 1 .. n
      BY <2>3
    <3>3. n # 0 => t[1] \in Along(n, t)
      BY <3>2 DEF Along
    <3> QED
      BY <3>1, <3>3, <2>2
  <2>9. c[2] \in bins.sl[c[1]] <=> chain # <<>>
    BY <2>4, <2>8, SoundWords
  <2> QED
    BY <2>0, <2>4, <2>5, <2>6, <2>7, <2>9 DEF Members
<1>2. bins.fl = {f \in Levels : bins.sl[f] # {}}
  BY SoundWords
<1> QED
  BY <1>1, <1>2, InvariantTypes, Zenon DEF IndexExact

(* The lists hold every free block once, in the class of its size, and the *)
(* bitmaps agree, after any sequence of allocs, frees and compactions.     *)
THEOREM IndexIsExact == Spec => []IndexExact
  BY BinsInductive, InvariantExact, PTL

LEMMA FreeShape ==
  ASSUME BinsInvariant, NEW u \in FreeBlocks
  PROVE  /\ u \in Units /\ own[u] < 0 /\ own[u] # 0 /\ IsFree(u) /\ u # Null
         /\ SizeAt(u) = Size(own, u) /\ SizeAt(u) \in MinBlock .. Zone
         /\ Class(u) = ClassOf(SizeAt(u)) /\ Class(u) \in Classes
<1>1. u \in Units /\ own[u] < 0 /\ own[u] # 0 /\ Tiling(own)
  BY DEF FreeBlocks, IsFree, BinsInvariant
<1>2. SizeAt(u) = Size(own, u)
  BY SizeIs
<1> QED
  BY <1>1, <1>2, TileShape, ConstantsType DEF IsFree, Class

LEMMA InvariantAccepted == BinsInvariant => AuditsAccept
<1> SUFFICES ASSUME BinsInvariant, todo = {} PROVE /\ validates(bins)
                                                   /\ bins_bitmap_consistent(bins)
                                                   /\ \A u \in FreeBlocks : free_block_binned(bins, u)
  BY DEF AuditsAccept
<1>1. /\ bins \in Words /\ bins.fl = {f \in Levels : bins.sl[f] # {}}
      /\ \A c \in Classes : c[2] \in bins.sl[c[1]] <=> Members(c) # {}
  BY SoundWords
<1>2. ASSUME NEW c \in Classes
      PROVE  /\ Members(c) \subseteq Units
             /\ bins.head[c] \in Members(c) \cup {Null} /\ (bins.head[c] = Null <=> Members(c) = {})
             /\ \A u \in Members(c) :
                  /\ bins.prev[u] \in Members(c) \cup {Null} /\ bins.next[u] \in Members(c) \cup {Null}
                  /\ IF bins.prev[u] = Null THEN bins.head[c] = u ELSE bins.next[bins.prev[u]] = u
                  /\ bins.next[u] # Null => bins.prev[bins.next[u]] = u
  <2>1. List(bins.head[c], bins.next, bins.prev, Members(c))
    BY SoundWords
  <2> QED
    BY <2>1, ListLinks
<1>3. \A c \in Classes : \A u \in Members(c) : u \in FreeBlocks /\ Class(u) = c
  BY DEF Members
<1>4. \A u \in FreeBlocks : Class(u) \in Classes /\ u \in Members(Class(u))
  <2> SUFFICES ASSUME NEW u \in FreeBlocks PROVE Class(u) \in Classes /\ u \in Members(Class(u))
    OBVIOUS
  <2>1. Class(u) \in Classes
    BY FreeShape
  <2>2. todo = {}
    OBVIOUS
  <2> QED
    BY <2>1, <2>2 DEF Members
<1>5. \A u \in FreeBlocks : u \in Units /\ u # Null /\ IsFree(u) /\ SizeAt(u) >= MinBlock
  <2> SUFFICES ASSUME NEW u \in FreeBlocks
               PROVE  u \in Units /\ u # Null /\ IsFree(u) /\ SizeAt(u) >= MinBlock
    OBVIOUS
  <2>1. SizeAt(u) \in MinBlock .. Zone /\ u \in Units /\ u # Null /\ IsFree(u)
    BY FreeShape
  <2> QED
    BY <2>1, ConstantsType
<1>6. bins_bitmap_consistent(bins)
  <2>1. ASSUME NEW c \in Classes
        PROVE  /\ (bins.head[c] # Null) = (c[2] \in bins.sl[c[1]])
               /\ bins.head[c] # Null =>
                    bins.head[c] \in Units /\ IsFree(bins.head[c]) /\ Class(bins.head[c]) = c
    <3>1. bins.head[c] # Null <=> c[2] \in bins.sl[c[1]]
      BY <1>1, <1>2
    <3>2. bins.head[c] # Null => bins.head[c] \in Members(c)
      BY <1>2
    <3> QED
      BY <3>1, <3>2, <1>3, <1>5
  <2> QED
    BY <2>1, <1>1 DEF bins_bitmap_consistent
<1>7. ASSUME NEW u \in FreeBlocks
      PROVE  free_block_binned(bins, u)
  <2>1. PICK c : c = Class(u)
    OBVIOUS
  <2>2. c \in Classes /\ u \in Members(c)
    BY <2>1, <1>4
  <2>3. bins.head[c] \in Units \cup {Null}
    BY <2>2, <1>2
  <2>4. IF bins.prev[u] = Null THEN bins.head[c] = u
        ELSE bins.prev[u] \in Units /\ bins.next[bins.prev[u]] = u
    BY <2>2, <1>2
  <2>5. bins.next[u] # Null => bins.next[u] \in Units /\ bins.prev[bins.next[u]] = u
    BY <2>2, <1>2
  <2> QED
    BY <2>1, <2>3, <2>4, <2>5 DEF free_block_binned
<1>8. ASSUME NEW c \in Classes
      PROVE  /\ ToSet(Chain(bins, c)) = Members(c)
             /\ (Chain(bins, c) # <<>>) = (c[2] \in bins.sl[c[1]])
             /\ Len(Chain(bins, c)) <= MaxSteps
             /\ \A i \in DOMAIN Chain(bins, c) :
                  LET u == Chain(bins, c)[i] IN
                  /\ u \in Units /\ IsFree(u) /\ SizeAt(u) >= MinBlock /\ Class(u) = c
                  /\ bins.next[u] # Null => bins.next[u] \in Units /\ bins.prev[bins.next[u]] = u
                  /\ bins.prev[u] # Null => bins.prev[u] \in Units /\ bins.next[bins.prev[u]] = u
  <2>0. PICK chain : chain = Chain(bins, c)
    OBVIOUS
  <2>1. PICK n \in 0 .. MaxSteps : chain \in [1 .. n -> Units]
    BY <2>0, ChainIsList
  <2>2. n \in Nat /\ n <= MaxSteps
    BY MaxStepsType
  <2>3. Len(chain) = n /\ DOMAIN chain = 1 .. n /\ ToSet(chain) = {chain[i] : i \in 1 .. n}
    BY ONLY <2>1, <2>2, SequenceShape, Zenon
  <2>4. ToSet(chain) = Members(c) /\ (c[2] \in bins.sl[c[1]] <=> chain # <<>>)
    BY <2>0, InvariantExact, Zenon DEF IndexExact, Members
  <2>5. ASSUME NEW i \in DOMAIN chain, NEW u, u = chain[i]
        PROVE  /\ u \in Units /\ IsFree(u) /\ SizeAt(u) >= MinBlock /\ Class(u) = c
               /\ bins.next[u] # Null => bins.next[u] \in Units /\ bins.prev[bins.next[u]] = u
               /\ bins.prev[u] # Null => bins.prev[u] \in Units /\ bins.next[bins.prev[u]] = u
    <3>1. u \in Members(c)
      BY <2>3, <2>4, <2>5
    <3> QED
      BY <3>1, <1>2, <1>3, <1>5
  <2>6. (chain # <<>>) = (c[2] \in bins.sl[c[1]])
    BY <2>4
  <2> QED
    BY <2>0, <2>2, <2>3, <2>4, <2>5, <2>6
<1>9. audit_pool_bins(bins)
  BY <1>1, <1>8, Zenon DEF audit_pool_bins
<1>10. Chained(bins) = FreeBlocks
  <2>1. Chained(bins) = UNION {Members(c) : c \in Classes}
    <3>1. \A c \in Classes : ToSet(Chain(bins, c)) = Members(c)
      BY <1>8
    <3> QED
      BY <3>1 DEF Chained
  <2>2. \A u \in FreeBlocks : \E c \in Classes : u \in Members(c)
    BY <1>4
  <2> QED
    BY <2>1, <2>2, <1>3
<1>11. validates(bins)
  BY <1>9, <1>10 DEF validates
<1> QED
  BY <1>6, <1>7, <1>11

(* validate, the screen of a refused alloc and the proof that free asks of *)
(* a neighbour accept every index that legal calls leave behind.           *)
THEOREM AuditsAcceptBins == Spec => []AuditsAccept
  BY BinsInductive, InvariantAccepted, PTL

(* A proper part of a set of blocks has fewer bytes.                       *)
LEMMA TotalProper ==
  ASSUME NEW R, IsFiniteSet(R), NEW S \in SUBSET R, NEW f,
         \A x \in R : f[x] \in Nat /\ f[x] >= 2, Total(f, S) = Total(f, R)
  PROVE  S = R
<1> SUFFICES ASSUME NEW x \in R, x \notin S PROVE FALSE
  OBVIOUS
<1>1. IsFiniteSet(S) /\ IsFiniteSet(R \ {x}) /\ S \in SUBSET (R \ {x})
  BY FS_Subset
<1>2. Total(f, R) = Total(f, R \ {x}) + f[x]
  BY TotalRemove
<1>3. /\ Total(f, R \ {x}) \in Nat /\ Total(f, S) \in Nat
      /\ Total(f, R \ {x}) = Total(f, S) \/ Total(f, R \ {x}) >= Total(f, S) + 2
  <2>1. \A y \in R \ {x} : f[y] \in Nat /\ f[y] >= 2
    OBVIOUS
  <2> QED
    BY <2>1, <1>1, TotalGap
<1> QED
  BY <1>2, <1>3

(* One list of an index that the audit accepts.                            *)
Accepted(b, c, s, m) ==
  /\ s \in [1 .. m -> FreeBlocks]
  /\ b.head[c] = Null <=> m = 0
  /\ c[2] \in b.sl[c[1]] <=> m # 0
  /\ \A i \in 1 .. m : LET u == s[i] IN
       /\ Class(u) = c
       /\ IF i = 1 THEN u = b.head[c] ELSE u = b.next[s[i - 1]]
       /\ IF i = m THEN b.next[u] = Null ELSE b.next[u] = s[i + 1]
       /\ b.next[u] # Null => b.prev[b.next[u]] = u
       /\ b.prev[u] # Null => b.prev[u] \in Units /\ b.next[b.prev[u]] = u

LEMMA AuditLists ==
  ASSUME BinsInvariant, NEW b \in Words, audit_pool_bins(b), NEW c \in Classes
  PROVE  \E m \in 0 .. MaxSteps : Accepted(b, c, Chain(b, c), m)
<1>1. PICK s : s = Chain(b, c)
  OBVIOUS
<1>2. PICK m \in 0 .. MaxSteps + 1 : Follows(s, m, b.head[c], b.next)
  BY <1>1, ChainFollows
<1>3. /\ s \in [1 .. m -> Offsets \ {Null}]
      /\ m = 0 <=> b.head[c] = Null
      /\ m # 0 => s[1] = b.head[c]
      /\ \A i \in 1 .. m : i # m => s[i] \in Units /\ s[i + 1] = b.next[s[i]]
      /\ m # 0 /\ m <= MaxSteps => (s[m] \in Units => b.next[s[m]] = Null)
  BY <1>2 DEF Follows
<1>4. m \in Nat
  BY MaxStepsType
<1>5. DOMAIN s = 1 .. m /\ Len(s) = m /\ (s # <<>> <=> m # 0)
  BY <1>3, <1>4, SequenceShape
<1>6. /\ (s # <<>>) = (c[2] \in b.sl[c[1]])
      /\ Len(s) <= MaxSteps
      /\ \A i \in DOMAIN s :
           LET u == s[i] IN
           /\ u \in Units /\ IsFree(u) /\ SizeAt(u) >= MinBlock /\ Class(u) = c
           /\ b.next[u] # Null => b.next[u] \in Units /\ b.prev[b.next[u]] = u
           /\ b.prev[u] # Null => b.prev[u] \in Units /\ b.next[b.prev[u]] = u
  BY <1>1, Zenon DEF audit_pool_bins
<1>7. m \in 0 .. MaxSteps
  BY <1>4, <1>5, <1>6, MaxStepsType
<1>8. ASSUME NEW i \in 1 .. m
      PROVE  /\ s[i] \in FreeBlocks /\ Class(s[i]) = c
             /\ b.next[s[i]] # Null => b.prev[b.next[s[i]]] = s[i]
             /\ b.prev[s[i]] # Null => b.prev[s[i]] \in Units /\ b.next[b.prev[s[i]]] = s[i]
  BY <1>5, <1>6 DEF FreeBlocks
<1>9. ASSUME NEW i \in 1 .. m
      PROVE  /\ IF i = 1 THEN s[i] = b.head[c] ELSE s[i] = b.next[s[i - 1]]
             /\ IF i = m THEN b.next[s[i]] = Null ELSE b.next[s[i]] = s[i + 1]
  <2>1. IF i = m THEN b.next[s[i]] = Null ELSE b.next[s[i]] = s[i + 1]
    BY <1>3, <1>4, <1>7, <1>8 DEF FreeBlocks
  <2>2. i # 1 => i - 1 \in 1 .. m /\ i - 1 # m /\ (i - 1) + 1 = i
    BY <1>4
  <2>3. IF i = 1 THEN s[i] = b.head[c] ELSE s[i] = b.next[s[i - 1]]
    BY <2>2, <1>3, <1>4
  <2> QED
    BY <2>1, <2>3
<1>10. s \in [1 .. m -> FreeBlocks]
  BY <1>3, <1>8
<1>11. c[2] \in b.sl[c[1]] <=> m # 0
  BY <1>5, <1>6
<1>12. Accepted(b, c, s, m)
  BY <1>3, <1>8, <1>9, <1>10, <1>11 DEF Accepted
<1> QED
  BY <1>1, <1>7, <1>12

(* What validate means: its byte count says that no free block is missing. *)
LEMMA ValidateMeans ==
  ASSUME BinsInvariant, NEW b \in Words, validates(b)
  PROVE  /\ b.fl = {f \in Levels : b.sl[f] # {}}
         /\ \A c \in Classes :
              /\ b.head[c] = Null <=> c[2] \notin b.sl[c[1]]
              /\ b.head[c] # Null => b.head[c] \in FreeBlocks /\ Class(b.head[c]) = c
         /\ \A u \in FreeBlocks :
              /\ b.next[u] # Null => b.next[u] \in FreeBlocks /\ b.prev[b.next[u]] = u
              /\ b.prev[u] # Null => b.prev[u] \in Units /\ b.next[b.prev[u]] = u
              /\ u = b.head[Class(u)] \/ \E v \in FreeBlocks : b.next[v] = u
<1>1. audit_pool_bins(b) /\ MapThenSumSet(SizeAt, Chained(b)) = MapThenSumSet(SizeAt, FreeBlocks)
  BY DEF validates
<1>2. b.fl = {f \in Levels : b.sl[f] # {}}
  BY <1>1, Zenon DEF audit_pool_bins
<1>3. ASSUME NEW c \in Classes
      PROVE  /\ b.head[c] = Null <=> c[2] \notin b.sl[c[1]]
             /\ b.head[c] # Null => b.head[c] \in FreeBlocks /\ Class(b.head[c]) = c
             /\ ToSet(Chain(b, c)) \subseteq FreeBlocks
             /\ \A u \in ToSet(Chain(b, c)) :
                  /\ Class(u) = c
                  /\ b.next[u] # Null => b.next[u] \in FreeBlocks /\ b.prev[b.next[u]] = u
                  /\ b.prev[u] # Null => b.prev[u] \in Units /\ b.next[b.prev[u]] = u
                  /\ u = b.head[c] \/ \E v \in FreeBlocks : b.next[v] = u
  <2>1. PICK s : s = Chain(b, c)
    OBVIOUS
  <2>2. PICK m \in 0 .. MaxSteps : Accepted(b, c, s, m)
    BY <1>1, <2>1, AuditLists
  <2>3. m \in Nat /\ s \in [1 .. m -> FreeBlocks]
    BY <2>2, MaxStepsType DEF Accepted
  <2>4. ToSet(s) = {s[i] : i \in 1 .. m}
    BY ONLY <2>3, SequenceShape, Zenon
  <2>5. \A i \in 1 .. m :
          /\ s[i] \in FreeBlocks /\ Class(s[i]) = c
          /\ IF i = 1 THEN s[i] = b.head[c] ELSE s[i] = b.next[s[i - 1]]
          /\ IF i = m THEN b.next[s[i]] = Null ELSE b.next[s[i]] = s[i + 1]
          /\ b.next[s[i]] # Null => b.prev[b.next[s[i]]] = s[i]
          /\ b.prev[s[i]] # Null => b.prev[s[i]] \in Units /\ b.next[b.prev[s[i]]] = s[i]
    BY <2>2, <2>3 DEF Accepted
  <2>6. /\ b.head[c] = Null <=> c[2] \notin b.sl[c[1]]
        /\ b.head[c] = Null <=> m = 0
    BY <2>2 DEF Accepted
  <2>7. b.head[c] # Null => b.head[c] \in FreeBlocks /\ Class(b.head[c]) = c
    <3>1. b.head[c] # Null => 1 \in 1 .. m
      BY <2>3, <2>6
    <3> QED
      BY <3>1, <2>5
  <2>8. ASSUME NEW u \in ToSet(s)
        PROVE  /\ u \in FreeBlocks /\ Class(u) = c
               /\ b.next[u] # Null => b.next[u] \in FreeBlocks /\ b.prev[b.next[u]] = u
               /\ b.prev[u] # Null => b.prev[u] \in Units /\ b.next[b.prev[u]] = u
               /\ u = b.head[c] \/ \E v \in FreeBlocks : b.next[v] = u
    <3>1. PICK i \in 1 .. m : u = s[i]
      BY <2>4
    <3>2. i # m => i + 1 \in 1 .. m
      BY <2>3
    <3>3. i # 1 => i - 1 \in 1 .. m
      BY <2>3
    <3>4. u \in FreeBlocks /\ Class(u) = c
      BY <3>1, <2>5
    <3>5. b.next[u] # Null => b.next[u] \in FreeBlocks /\ b.prev[b.next[u]] = u
      BY <3>1, <3>2, <2>5
    <3>6. b.prev[u] # Null => b.prev[u] \in Units /\ b.next[b.prev[u]] = u
      BY <3>1, <2>5
    <3>7. u = b.head[c] \/ \E v \in FreeBlocks : b.next[v] = u
      BY <3>1, <3>3, <2>5
    <3> QED
      BY <3>4, <3>5, <3>6, <3>7
  <2> QED
    BY <2>1, <2>6, <2>7, <2>8
<1>4. Chained(b) = FreeBlocks
  <2>1. Chained(b) \in SUBSET FreeBlocks /\ FreeBlocks \in SUBSET Units /\ Chained(b) \in SUBSET Units
    <3>1. Chained(b) \subseteq FreeBlocks
      BY <1>3 DEF Chained
    <3> QED
      BY <3>1 DEF FreeBlocks
  <2>2. own \in [Units -> -Zone .. Zone]
    BY DEF BinsInvariant, Tiling
  <2>3. Total(Sizes(own), Chained(b)) = Total(Sizes(own), FreeBlocks)
    <3>1. MapThenSumSet(SizeAt, Chained(b)) = Total(Sizes(own), Chained(b))
      BY <2>1, <2>2, BytesTotal
    <3>2. MapThenSumSet(SizeAt, FreeBlocks) = Total(Sizes(own), FreeBlocks)
      BY <2>1, <2>2, BytesTotal
    <3> QED
      BY <3>1, <3>2, <1>1
  <2>4. \A x \in FreeBlocks : Sizes(own)[x] \in Nat /\ Sizes(own)[x] >= 2
    <3> SUFFICES ASSUME NEW x \in FreeBlocks PROVE Sizes(own)[x] \in Nat /\ Sizes(own)[x] >= 2
      OBVIOUS
    <3>1. x \in Units /\ Size(own, x) \in MinBlock .. Zone
      BY FreeShape
    <3>2. Sizes(own)[x] = Size(own, x)
      BY <2>2, <3>1, SizesType
    <3> QED
      BY <3>1, <3>2, ConstantsType
  <2>5. IsFiniteSet(FreeBlocks)
    BY <2>1, UnitsFinite, FS_Subset
  <2> QED
    BY <2>1, <2>3, <2>4, <2>5, TotalProper
<1>5. ASSUME NEW u \in FreeBlocks
      PROVE  /\ b.next[u] # Null => b.next[u] \in FreeBlocks /\ b.prev[b.next[u]] = u
             /\ b.prev[u] # Null => b.prev[u] \in Units /\ b.next[b.prev[u]] = u
             /\ u = b.head[Class(u)] \/ \E v \in FreeBlocks : b.next[v] = u
  <2>1. PICK c \in Classes : u \in ToSet(Chain(b, c))
    BY <1>4 DEF Chained
  <2> QED
    BY <2>1, <1>3
<1> QED
  BY <1>2, <1>3, <1>5

(* An index with one word overwritten.                                     *)
Rewritten(b, hd, sl, fl, nx, pv) ==
  /\ b \in Words
  /\ b.head = hd /\ b.sl = sl /\ b.fl = fl /\ b.next = nx /\ b.prev = pv

LEMMA HeadRewritten ==
  ASSUME NEW a \in Words, NEW c \in Classes, NEW x \in Offsets, NEW b, b = [a EXCEPT !.head[c] = x]
  PROVE  Rewritten(b, [a.head EXCEPT ![c] = x], a.sl, a.fl, a.next, a.prev)
<1>1. PICK w : w = [a.head EXCEPT ![c] = x]
  OBVIOUS
<1>2. b = [a EXCEPT !.head = w]
  BY <1>1
<1>3. w \in [Classes -> Offsets]
  BY <1>1, WordParts
<1>4. Rewritten(b, w, a.sl, a.fl, a.next, a.prev)
  BY <1>2, <1>3 DEF Rewritten, Words
<1> QED
  BY <1>1, <1>4

LEMMA SlRewritten ==
  ASSUME NEW a \in Words, NEW f \in Levels, NEW x \in SUBSET Seconds, NEW b, b = [a EXCEPT !.sl[f] = x]
  PROVE  Rewritten(b, a.head, [a.sl EXCEPT ![f] = x], a.fl, a.next, a.prev)
<1>1. PICK w : w = [a.sl EXCEPT ![f] = x]
  OBVIOUS
<1>2. b = [a EXCEPT !.sl = w]
  BY <1>1
<1>3. w \in [Levels -> SUBSET Seconds]
  BY <1>1, WordParts
<1>4. Rewritten(b, a.head, w, a.fl, a.next, a.prev)
  BY <1>2, <1>3 DEF Rewritten, Words
<1> QED
  BY <1>1, <1>4

LEMMA FlRewritten ==
  ASSUME NEW a \in Words, NEW x \in SUBSET Levels, NEW b, b = [a EXCEPT !.fl = x]
  PROVE  Rewritten(b, a.head, a.sl, x, a.next, a.prev)
  BY DEF Rewritten, Words

LEMMA NextRewritten ==
  ASSUME NEW a \in Words, NEW u \in Units, NEW x \in Offsets, NEW b, b = [a EXCEPT !.next[u] = x]
  PROVE  Rewritten(b, a.head, a.sl, a.fl, [a.next EXCEPT ![u] = x], a.prev)
<1>1. PICK w : w = [a.next EXCEPT ![u] = x]
  OBVIOUS
<1>2. b = [a EXCEPT !.next = w]
  BY <1>1
<1>3. w \in [Units -> Offsets]
  BY <1>1, WordParts
<1>4. Rewritten(b, a.head, a.sl, a.fl, w, a.prev)
  BY <1>2, <1>3 DEF Rewritten, Words
<1> QED
  BY <1>1, <1>4

LEMMA PrevRewritten ==
  ASSUME NEW a \in Words, NEW u \in Units, NEW x \in Offsets, NEW b, b = [a EXCEPT !.prev[u] = x]
  PROVE  Rewritten(b, a.head, a.sl, a.fl, a.next, [a.prev EXCEPT ![u] = x])
<1>1. PICK w : w = [a.prev EXCEPT ![u] = x]
  OBVIOUS
<1>2. b = [a EXCEPT !.prev = w]
  BY <1>1
<1>3. w \in [Units -> Offsets]
  BY <1>1, WordParts
<1>4. Rewritten(b, a.head, a.sl, a.fl, a.next, w)
  BY <1>2, <1>3 DEF Rewritten, Words
<1> QED
  BY <1>1, <1>4

(* Two indices with the same words are the same.                           *)
LEMMA SameWords ==
  ASSUME NEW a \in Words, NEW b, Rewritten(b, a.head, a.sl, a.fl, a.next, a.prev)
  PROVE  b = a
  BY DEF Rewritten, Words

(* Every link of a sound index is answered by its other end.               *)
LEMMA SoundLinks ==
  ASSUME BinsInvariant, todo = {}
  PROVE  /\ validates(bins) /\ bins \in Words
         /\ \A u \in FreeBlocks :
              /\ bins.next[u] # Null => bins.next[u] \in FreeBlocks /\ bins.prev[bins.next[u]] = u
              /\ bins.prev[u] # Null => bins.prev[u] \in FreeBlocks /\ bins.next[bins.prev[u]] = u
         /\ \A u \in Units : u \notin FreeBlocks => bins.next[u] = Junk /\ bins.prev[u] = Junk
         /\ \A c \in Classes : bins.head[c] # Null => bins.prev[bins.head[c]] = Null
<1>1. validates(bins) /\ bins \in Words
  BY InvariantAccepted, SoundWords DEF AuditsAccept
<1>2. \A u \in Units : u \notin FreeBlocks => bins.next[u] = Junk /\ bins.prev[u] = Junk
  BY SoundWords
<1>3. ASSUME NEW c \in Classes
      PROVE  /\ Members(c) \subseteq FreeBlocks
             /\ bins.head[c] # Null => bins.head[c] \in Members(c)
             /\ \A u \in Members(c) :
                  /\ bins.prev[u] \in Members(c) \cup {Null} /\ bins.next[u] \in Members(c) \cup {Null}
                  /\ IF bins.prev[u] = Null THEN bins.head[c] = u
                     ELSE bins.next[bins.prev[u]] = u /\ bins.head[c] # u
                  /\ bins.next[u] # Null => bins.prev[bins.next[u]] = u
  <2>1. List(bins.head[c], bins.next, bins.prev, Members(c))
    BY SoundWords
  <2>2. Members(c) \subseteq FreeBlocks
    BY DEF Members
  <2> QED
    BY <2>1, <2>2, ListLinks
<1>4. \A c \in Classes : bins.head[c] # Null => bins.prev[bins.head[c]] = Null
  BY <1>3
<1>5. ASSUME NEW u \in FreeBlocks
      PROVE  /\ bins.next[u] # Null => bins.next[u] \in FreeBlocks /\ bins.prev[bins.next[u]] = u
             /\ bins.prev[u] # Null => bins.prev[u] \in FreeBlocks /\ bins.next[bins.prev[u]] = u
  <2>1. Class(u) \in Classes
    BY FreeShape
  <2>2. u \in Members(Class(u))
    BY DEF Members
  <2> QED
    BY <2>1, <2>2, <1>3
<1> QED
  BY <1>1, <1>2, <1>4, <1>5

LEMMA HeadDamage ==
  ASSUME BinsInvariant, todo = {}, NEW c \in Classes, NEW x \in Offsets, NEW b, validates(b),
         Rewritten(b, [bins.head EXCEPT ![c] = x], bins.sl, bins.fl, bins.next, bins.prev)
  PROVE  x = bins.head[c]
<1>1. bins \in Words /\ validates(bins)
  BY SoundLinks
<1>2. bins.head \in [Classes -> Offsets]
  BY <1>1, WordParts
<1>3. b \in Words /\ b.head[c] = x /\ b.sl = bins.sl /\ b.next = bins.next
  BY <1>1, <1>2 DEF Rewritten
<1> SUFFICES ASSUME x # bins.head[c] PROVE FALSE
  OBVIOUS
<1>4. PICK h : h = bins.head[c]
  OBVIOUS
<1>5. h = Null <=> x = Null
  <2>1. h = Null <=> c[2] \notin bins.sl[c[1]]
    BY <1>1, <1>4, ValidateMeans
  <2>2. b.head[c] = Null <=> c[2] \notin b.sl[c[1]]
    BY <1>3, ValidateMeans
  <2> QED
    BY <2>1, <2>2, <1>3
<1>6. h # Null
  BY <1>4, <1>5
<1>7. h \in FreeBlocks /\ Class(h) = c
  BY <1>1, <1>4, <1>6, ValidateMeans
<1>8. PICK v \in FreeBlocks : bins.next[v] = h
  <2>1. h = b.head[Class(h)] \/ \E v \in FreeBlocks : b.next[v] = h
    BY <1>3, <1>7, ValidateMeans
  <2> QED
    BY <2>1, <1>3, <1>4, <1>7
<1>9. bins.prev[h] = v /\ v # Null
  BY <1>6, <1>8, SoundLinks, FreeShape
<1> QED
  BY <1>4, <1>6, <1>9, SoundLinks

LEMMA NextDamage ==
  ASSUME BinsInvariant, todo = {}, NEW u \in FreeBlocks, NEW x \in Offsets, NEW b, validates(b),
         Rewritten(b, bins.head, bins.sl, bins.fl, [bins.next EXCEPT ![u] = x], bins.prev)
  PROVE  x = bins.next[u]
<1>1. bins \in Words /\ u \in Units /\ u # Null
  BY SoundLinks, FreeShape
<1>2. bins.next \in [Units -> Offsets]
  BY <1>1, WordParts
<1>3. b \in Words /\ b.next[u] = x /\ b.prev = bins.prev
  BY <1>1, <1>2 DEF Rewritten
<1>4. CASE x # Null
  <2>1. x \in FreeBlocks /\ b.prev[x] = u
    BY <1>3, <1>4, ValidateMeans
  <2>2. bins.prev[x] = u
    BY <2>1, <1>3
  <2> QED
    BY <2>1, <2>2, <1>1, SoundLinks
<1>5. CASE x = Null
  <2> SUFFICES ASSUME bins.next[u] # Null PROVE FALSE
    BY <1>5
  <2>1. PICK y \in FreeBlocks : y = bins.next[u] /\ bins.prev[y] = u
    BY SoundLinks
  <2>2. b.prev[y] # Null
    BY <2>1, <1>1, <1>3
  <2>3. b.next[u] = y
    BY <2>1, <2>2, <1>3, ValidateMeans
  <2> QED
    BY <2>1, <2>3, <1>3, <1>5
<1> QED
  BY <1>4, <1>5

LEMMA PrevDamage ==
  ASSUME BinsInvariant, todo = {}, NEW u \in FreeBlocks, NEW x \in Offsets, NEW b, validates(b),
         Rewritten(b, bins.head, bins.sl, bins.fl, bins.next, [bins.prev EXCEPT ![u] = x])
  PROVE  x = bins.prev[u]
<1>1. bins \in Words /\ u \in Units /\ u # Null /\ u # Junk
  BY SoundLinks, FreeShape, ConstantsType
<1>2. bins.prev \in [Units -> Offsets]
  BY <1>1, WordParts
<1>3. b \in Words /\ b.prev[u] = x /\ b.next = bins.next
  BY <1>1, <1>2 DEF Rewritten
<1>4. CASE x # Null
  <2>1. x \in Units /\ bins.next[x] = u
    BY <1>3, <1>4, ValidateMeans
  <2>2. x \in FreeBlocks
    BY <2>1, <1>1, SoundLinks
  <2> QED
    BY <2>1, <2>2, <1>1, SoundLinks
<1>5. CASE x = Null
  <2> SUFFICES ASSUME bins.prev[u] # Null PROVE FALSE
    BY <1>5
  <2>1. PICK y \in FreeBlocks : y = bins.prev[u] /\ bins.next[y] = u
    BY SoundLinks
  <2>2. b.next[y] = u /\ b.next[y] # Null
    BY <2>1, <1>1, <1>3
  <2>3. b.prev[u] = y
    BY <2>1, <2>2, <1>3, ValidateMeans
  <2>4. y # Null
    BY <2>1, FreeShape
  <2> QED
    BY <2>3, <2>4, <1>3, <1>5
<1> QED
  BY <1>4, <1>5

LEMMA SlDamage ==
  ASSUME BinsInvariant, todo = {}, NEW c \in Classes, NEW x, NEW b, validates(b),
         Rewritten(b, bins.head, [bins.sl EXCEPT ![c[1]] = x], bins.fl, bins.next, bins.prev)
  PROVE  c[2] \in x <=> c[2] \in bins.sl[c[1]]
<1>1. bins \in Words /\ validates(bins) /\ c[1] \in Levels
  BY SoundLinks, ClassParts
<1>2. bins.sl \in [Levels -> SUBSET Seconds]
  BY <1>1, WordParts
<1>3. b \in Words /\ b.sl[c[1]] = x /\ b.head = bins.head
  BY <1>1, <1>2 DEF Rewritten
<1>4. b.head[c] = Null <=> c[2] \notin b.sl[c[1]]
  BY <1>3, ValidateMeans
<1>5. bins.head[c] = Null <=> c[2] \notin bins.sl[c[1]]
  BY <1>1, ValidateMeans
<1> QED
  BY <1>3, <1>4, <1>5

LEMMA FlDamage ==
  ASSUME BinsInvariant, todo = {}, NEW x, NEW b, validates(b),
         Rewritten(b, bins.head, bins.sl, x, bins.next, bins.prev)
  PROVE  x = bins.fl
<1>1. bins \in Words /\ validates(bins)
  BY SoundLinks
<1>2. b \in Words /\ b.fl = x /\ b.sl = bins.sl
  BY DEF Rewritten
<1>3. b.fl = {g \in Levels : b.sl[g] # {}}
  BY <1>2, ValidateMeans
<1>4. bins.fl = {g \in Levels : bins.sl[g] # {}}
  BY <1>1, ValidateMeans
<1> QED
  BY <1>2, <1>3, <1>4

LEMMA InvariantFinds == BinsInvariant => DamageFound
<1> SUFFICES ASSUME BinsInvariant, todo = {}, NEW b \in Damaged \ {bins} PROVE ~validates(b)
  BY DEF DamageFound
<1>1. bins \in Words /\ Starts \subseteq Offsets /\ FreeBlocks \subseteq Units
  BY SoundLinks DEF Starts, Offsets, FreeBlocks
<1>2. ASSUME NEW c \in Classes, NEW x \in Starts, b = [bins EXCEPT !.head[c] = x]
      PROVE  ~validates(b)
  <2> SUFFICES ASSUME validates(b) PROVE FALSE
    OBVIOUS
  <2>0. Rewritten(b, [bins.head EXCEPT ![c] = x], bins.sl, bins.fl, bins.next, bins.prev)
    BY <1>1, <1>2, HeadRewritten
  <2>1. x = bins.head[c]
    BY <2>0, <1>1, HeadDamage
  <2>2. [bins.head EXCEPT ![c] = x] = bins.head
    BY <2>1, <1>1, WordParts
  <2>3. Rewritten(b, bins.head, bins.sl, bins.fl, bins.next, bins.prev)
    BY <2>0, <2>2
  <2> QED
    BY <2>3, <1>1, SameWords
<1>3. ASSUME NEW u \in FreeBlocks, NEW x \in Starts, b = [bins EXCEPT !.next[u] = x]
      PROVE  ~validates(b)
  <2> SUFFICES ASSUME validates(b) PROVE FALSE
    OBVIOUS
  <2>0. Rewritten(b, bins.head, bins.sl, bins.fl, [bins.next EXCEPT ![u] = x], bins.prev)
    BY <1>1, <1>3, NextRewritten
  <2>1. x = bins.next[u]
    BY <2>0, <1>1, NextDamage
  <2>2. [bins.next EXCEPT ![u] = x] = bins.next
    BY <2>1, <1>1, WordParts
  <2>3. Rewritten(b, bins.head, bins.sl, bins.fl, bins.next, bins.prev)
    BY <2>0, <2>2
  <2> QED
    BY <2>3, <1>1, SameWords
<1>4. ASSUME NEW u \in FreeBlocks, NEW x \in Starts, b = [bins EXCEPT !.prev[u] = x]
      PROVE  ~validates(b)
  <2> SUFFICES ASSUME validates(b) PROVE FALSE
    OBVIOUS
  <2>0. Rewritten(b, bins.head, bins.sl, bins.fl, bins.next, [bins.prev EXCEPT ![u] = x])
    BY <1>1, <1>4, PrevRewritten
  <2>1. x = bins.prev[u]
    BY <2>0, <1>1, PrevDamage
  <2>2. [bins.prev EXCEPT ![u] = x] = bins.prev
    BY <2>1, <1>1, WordParts
  <2>3. Rewritten(b, bins.head, bins.sl, bins.fl, bins.next, bins.prev)
    BY <2>0, <2>2
  <2> QED
    BY <2>3, <1>1, SameWords
<1>5. ASSUME NEW c \in Classes, b = [bins EXCEPT !.sl[c[1]] = SymDiff(@, {c[2]})]
      PROVE  ~validates(b)
  <2> SUFFICES ASSUME validates(b) PROVE FALSE
    OBVIOUS
  <2>1. PICK x : x = SymDiff(bins.sl[c[1]], {c[2]})
    OBVIOUS
  <2>2. bins.sl \in [Levels -> SUBSET Seconds] /\ c[1] \in Levels /\ c[2] \in Seconds
    BY <1>1, WordParts, ClassParts
  <2>3. x \in SUBSET Seconds /\ (c[2] \in x <=> c[2] \notin bins.sl[c[1]])
    BY <2>1, <2>2 DEF SymDiff
  <2>4. b = [bins EXCEPT !.sl[c[1]] = x]
    BY <2>1, <1>5
  <2>5. Rewritten(b, bins.head, [bins.sl EXCEPT ![c[1]] = x], bins.fl, bins.next, bins.prev)
    BY <2>2, <2>3, <2>4, <1>1, SlRewritten
  <2> QED
    BY <2>3, <2>5, SlDamage
<1>6. ASSUME NEW f \in Levels, b = [bins EXCEPT !.fl = SymDiff(@, {f})]
      PROVE  ~validates(b)
  <2> SUFFICES ASSUME validates(b) PROVE FALSE
    OBVIOUS
  <2>1. PICK x : x = SymDiff(bins.fl, {f})
    OBVIOUS
  <2>2. bins.fl \in SUBSET Levels
    BY <1>1, WordParts
  <2>3. x \in SUBSET Levels /\ (f \in x <=> f \notin bins.fl)
    BY <2>1, <2>2 DEF SymDiff
  <2>4. b = [bins EXCEPT !.fl = x]
    BY <2>1, <1>6
  <2>5. Rewritten(b, bins.head, bins.sl, x, bins.next, bins.prev)
    BY <2>3, <2>4, <1>1, FlRewritten
  <2> QED
    BY <2>3, <2>5, FlDamage
<1>7. \/ \E c \in Classes : \E x \in Starts : b = [bins EXCEPT !.head[c] = x]
      \/ \E u \in FreeBlocks : \E x \in Starts : b = [bins EXCEPT !.next[u] = x]
      \/ \E u \in FreeBlocks : \E x \in Starts : b = [bins EXCEPT !.prev[u] = x]
      \/ \E c \in Classes : b = [bins EXCEPT !.sl[c[1]] = SymDiff(@, {c[2]})]
      \/ \E f \in Levels : b = [bins EXCEPT !.fl = SymDiff(@, {f})]
  <2> DEFINE A1 == {[bins EXCEPT !.head[c] = x] : c \in Classes, x \in Starts}
             A2 == {[bins EXCEPT !.next[u] = x] : u \in FreeBlocks, x \in Starts}
             A3 == {[bins EXCEPT !.prev[u] = x] : u \in FreeBlocks, x \in Starts}
             A4 == {[bins EXCEPT !.sl[c[1]] = SymDiff(@, {c[2]})] : c \in Classes}
             A5 == {[bins EXCEPT !.fl = SymDiff(@, {f})] : f \in Levels}
  <2>1. Damaged = A1 \cup A2 \cup A3 \cup A4 \cup A5
    BY DEF Damaged
  <2>2. b \in A1 => \E c \in Classes : \E x \in Starts : b = [bins EXCEPT !.head[c] = x]
    OBVIOUS
  <2>3. b \in A2 => \E u \in FreeBlocks : \E x \in Starts : b = [bins EXCEPT !.next[u] = x]
    OBVIOUS
  <2>4. b \in A3 => \E u \in FreeBlocks : \E x \in Starts : b = [bins EXCEPT !.prev[u] = x]
    OBVIOUS
  <2>5. b \in A4 => \E c \in Classes : b = [bins EXCEPT !.sl[c[1]] = SymDiff(@, {c[2]})]
    OBVIOUS
  <2>6. b \in A5 => \E f \in Levels : b = [bins EXCEPT !.fl = SymDiff(@, {f})]
    OBVIOUS
  <2>7. b \in A1 \/ b \in A2 \/ b \in A3 \/ b \in A4 \/ b \in A5
    <3> HIDE DEF A1, A2, A3, A4, A5
    <3> QED
      BY <2>1
  <2> HIDE DEF A1, A2, A3, A4, A5
  <2> QED
    BY ONLY <2>2, <2>3, <2>4, <2>5, <2>6, <2>7, Zenon
<1> QED
  BY ONLY <1>2, <1>3, <1>4, <1>5, <1>6, <1>7, Zenon

(* validate finds any one overwritten head, link or bitmap bit.            *)
THEOREM DamageIsFound == Spec => []DamageFound
  BY BinsInductive, InvariantFinds, PTL

(* A larger block is in no earlier class.                                  *)
LEMMA Pow2Grows ==
  ASSUME NEW f \in 0 .. FlMax, NEW g \in 0 .. FlMax, f <= g
  PROVE  Pow2[f] <= Pow2[g]
<1> DEFINE S == {k \in 0 .. g - f : Pow2[f] <= Pow2[f + k]}
<1>1. FlMax \in Nat /\ g - f \in Nat /\ f \in Nat
  BY BinsAssumption
<1>2. 0 \in S
  <2>1. f + 0 = f /\ Pow2[f] \in Nat
    BY Pow2Runs
  <2> QED
    BY <2>1, <1>1
<1>3. ASSUME NEW k \in 0 .. (g - f) - 1, k \in S
      PROVE  k + 1 \in S
  <2>1. /\ f + (k + 1) \in 1 .. FlMax /\ (f + (k + 1)) - 1 = f + k
        /\ f + k \in 0 .. FlMax /\ k + 1 \in 0 .. g - f
    BY <1>1
  <2>2. Pow2[f + (k + 1)] = 2 * Pow2[f + k]
    BY <2>1, Pow2Runs
  <2>3. Pow2[f] \in Nat /\ Pow2[f + k] \in Nat
    BY <2>1, Pow2Runs
  <2> QED
    BY <2>1, <2>2, <2>3, <1>3
<1>4. \A k \in 0 .. g - f : k \in S
  <2> HIDE DEF S
  <2> QED
    BY <1>1, <1>2, <1>3, UpTo
<1>5. g - f \in S /\ f + (g - f) = g
  BY <1>1, <1>4
<1> QED
  BY <1>5

LEMMA QuotientGrows ==
  ASSUME NEW a \in Nat, NEW b \in Nat, NEW p \in Nat, p # 0, a <= b
  PROVE  a \div p <= b \div p
<1>1. PICK q \in Nat, s \in Nat : q = a \div p /\ s = b \div p
  OBVIOUS
<1>2. q * p <= a /\ b < (s + 1) * p
  BY <1>1
<1> SUFFICES ASSUME s + 1 <= q PROVE FALSE
  BY <1>1
<1>3. (s + 1) * p <= q * p
  BY TimesMonotone
<1>4. PICK x \in Nat, y \in Nat : x = (s + 1) * p /\ y = q * p
  BY NatTimes
<1> QED
  BY <1>2, <1>3, <1>4

LEMMA ClassGrows ==
  ASSUME NEW n \in MinBlock .. Zone, NEW m \in MinBlock .. Zone, n <= m
  PROVE  /\ ClassOf(n)[1] <= ClassOf(m)[1]
         /\ ClassOf(n)[1] = ClassOf(m)[1] => ClassOf(n)[2] <= ClassOf(m)[2]
         /\ Rank(ClassOf(n)) <= Rank(ClassOf(m))
<1>1. n \in Nat /\ m \in Nat /\ FlMax \in Nat /\ SlCount \in Nat \ {0}
  BY ConstantsType
<1>2. PICK f \in Levels, g \in Levels : f = fl_index(n) /\ g = fl_index(m)
  BY FirstLevel
<1>3. /\ Pow2[f] <= n /\ Pow2[g] <= m
      /\ m < Pow2[g + 1] \/ g = FlMax - 1
  BY <1>2, FirstLevel
<1>4. f \in 1 .. FlMax - 1 /\ g \in 1 .. FlMax - 1
  BY DEF Levels
<1>5. f <= g
  <2> SUFFICES ASSUME ~(f <= g) PROVE FALSE
    OBVIOUS
  <2>1. g + 1 <= f /\ g + 1 \in 0 .. FlMax /\ f \in 0 .. FlMax /\ g # FlMax - 1
    BY <1>1, <1>4
  <2>2. Pow2[g + 1] <= Pow2[f] /\ Pow2[g + 1] \in Nat /\ Pow2[f] \in Nat
    BY <2>1, Pow2Grows, Pow2Runs
  <2> QED
    BY <2>1, <2>2, <1>1, <1>3
<1>6. ClassOf(n)[1] = f /\ ClassOf(m)[1] = g /\ ClassOf(n)[2] = sl_index(n) /\ ClassOf(m)[2] = sl_index(m)
  BY <1>2 DEF ClassOf
<1>7. ASSUME f = g
      PROVE  sl_index(n) <= sl_index(m)
  <2>1. PICK p \in Nat : p = Pow2[f] /\ p # 0
    <3>1. f \in 0 .. FlMax
      BY <1>1, <1>4
    <3> QED
      BY <3>1, Pow2Runs
  <2>2. n - p \in Nat /\ m - p \in Nat /\ n - p <= m - p
    BY <2>1, <1>1, <1>3, <1>7
  <2>3. PICK a \in Nat, b \in Nat : a = (n - p) * SlCount /\ b = (m - p) * SlCount
    BY <2>2, <1>1, NatTimes
  <2>4. a <= b
    BY <2>2, <2>3, <1>1, TimesMonotone
  <2>5. PICK q \in Nat, s \in Nat : q = a \div p /\ s = b \div p
    BY <2>1
  <2>6. q <= s
    BY <2>1, <2>4, <2>5, QuotientGrows
  <2>7. /\ sl_index(n) = IF q < SlCount THEN q ELSE SlCount - 1
        /\ sl_index(m) = IF s < SlCount THEN s ELSE SlCount - 1
    BY <2>1, <2>3, <2>5, <1>2, <1>7 DEF sl_index
  <2> QED
    BY <2>6, <2>7, <1>1
<1>8. ClassOf(n) \in Classes /\ ClassOf(m) \in Classes
  BY ClassType
<1>9. Rank(ClassOf(n)) <= Rank(ClassOf(m))
  <2>1. Rank(ClassOf(n)) \in Nat /\ Rank(ClassOf(m)) \in Nat
    BY <1>8, RankType
  <2>2. CASE f < g
    <3>1. ClassOf(n)[1] < ClassOf(m)[1]
      BY <2>2, <1>6
    <3> QED
      BY <3>1, <2>1, <1>8, RankOrder
  <2>3. CASE f = g
    <3>1. ClassOf(n)[1] = ClassOf(m)[1] /\ ~(ClassOf(m)[2] < ClassOf(n)[2])
      <4>1. ClassOf(n)[2] \in Nat /\ ClassOf(m)[2] \in Nat
        BY <1>8, ClassParts DEF Seconds
      <4> QED
        BY <4>1, <2>3, <1>6, <1>7
    <3>2. ~(Rank(ClassOf(m)) < Rank(ClassOf(n)))
      BY <3>1, <1>8, RankOrder
    <3> QED
      BY <3>2, <2>1
  <2> QED
    BY <2>2, <2>3, <1>4, <1>5
<1> QED
  BY <1>5, <1>6, <1>7, <1>9

(* The cap on hops never ends a search of a sound index: every hop is at   *)
(* a free block of its own.                                                *)
LEMMA HopsFew ==
  ASSUME BinsInvariant, NEW need
  PROVE  /\ Hops(bins, need) \in SUBSET (Classes \X Nat)
         /\ \A h \in Hops(bins, need) : ~Over(Hops(bins, need), h) /\ OffAt(bins, h) \in Units
<1>1. PICK hops : hops = Hops(bins, need)
  OBVIOUS
<1>2. PICK cl : cl = Binned(own, todo)
  OBVIOUS
<1>3. Index(bins, cl) /\ Tiling(own)
  BY <1>2 DEF BinsInvariant
<1>4. \A u \in Units : cl[u] \in Classes => own[u] < 0
  BY <1>2, <1>3, BinnedShape
<1>5. /\ hops \in SUBSET (Classes \X Nat)
      /\ \A h \in hops : h[1] \in VisitedBins(bins, need) /\ OffAt(bins, h) \in In(cl, h[1])
  BY <1>1, <1>3, <1>4, HopShape
<1>6. \A h \in hops : /\ h[1] \in Classes /\ h = <<h[1], h[2]>> /\ h[2] \in DOMAIN Chain(bins, h[1])
                      /\ OffAt(bins, h) \in Units /\ own[OffAt(bins, h)] # 0
                      /\ cl[OffAt(bins, h)] = h[1]
  <2> SUFFICES ASSUME NEW h \in hops
               PROVE  /\ h[1] \in Classes /\ h = <<h[1], h[2]>> /\ h[2] \in DOMAIN Chain(bins, h[1])
                      /\ OffAt(bins, h) \in Units /\ own[OffAt(bins, h)] # 0
                      /\ cl[OffAt(bins, h)] = h[1]
    OBVIOUS
  <2>1. h[1] \in Classes /\ h = <<h[1], h[2]>>
    BY <1>5
  <2>2. PICK c \in VisitedBins(bins, need) : h \in {c} \X DOMAIN Chain(bins, c)
    BY <1>1 DEF Hops
  <2>3. PICK x : x = OffAt(bins, h)
    OBVIOUS
  <2>4. x \in Units /\ cl[x] = h[1] /\ own[x] < 0
    BY <2>1, <2>3, <1>4, <1>5 DEF In
  <2>5. own[x] # 0
    BY <2>4
  <2> QED
    BY <2>1, <2>2, <2>3, <2>4, <2>5
<1> DEFINE B   == {u \in Units : own[u] # 0}
           off == [h \in hops |-> OffAt(bins, h)]
<1>7. off \in Injection(hops, B)
  <2>1. off \in [hops -> B]
    BY <1>6
  <2>2. ASSUME NEW g \in hops, NEW h \in hops, off[g] = off[h]
        PROVE  g = h
    <3>1. OffAt(bins, g) = OffAt(bins, h)
      BY <2>2
    <3>2. PICK c : c = g[1] /\ c = h[1] /\ c \in Classes
      BY <3>1, <1>6
    <3>3. PICK chain : chain = Chain(bins, c)
      OBVIOUS
    <3>4. IsInjective(chain)
      BY <3>2, <3>3, InvariantExact, Zenon DEF IndexExact
    <3>5. g[2] \in DOMAIN chain /\ h[2] \in DOMAIN chain /\ chain[g[2]] = chain[h[2]]
      BY <3>1, <3>2, <3>3, <1>6 DEF OffAt
    <3>6. g[2] = h[2]
      BY <3>4, <3>5 DEF IsInjective
    <3> QED
      BY <3>2, <3>6, <1>6
  <2> HIDE DEF off, B
  <2> QED
    BY <2>1, <2>2 DEF Injection, IsInjective
<1>8. IsFiniteSet(B) /\ Cardinality(B) \in 0 .. MaxSteps
  BY <1>3, BlockCount
<1>9. IsFiniteSet(hops) /\ Cardinality(hops) <= Cardinality(B)
  <2> HIDE DEF off, B
  <2> QED
    BY <1>7, <1>8, FS_Injection
<1>10. ASSUME NEW h \in hops
       PROVE  ~Over(hops, h)
  <2> DEFINE part == {g \in hops : NoLater(g, h)}
  <2>1. part \in SUBSET hops
    OBVIOUS
  <2>2. IsFiniteSet(part) /\ Cardinality(part) <= Cardinality(hops)
    <3> HIDE DEF part
    <3> QED
      BY <2>1, <1>9, FS_Subset
  <2>3. Cardinality(part) \in Nat /\ Cardinality(hops) \in Nat
    BY <2>2, <1>9, FS_CardinalityType
  <2>4. ~(Cardinality(part) > MaxSteps)
    <3> HIDE DEF part, B
    <3> QED
      BY <2>2, <2>3, <1>8, <1>9, MaxStepsType
  <2> QED
    BY <2>4, Zenon DEF Over
<1> QED
  BY <1>1, <1>5, <1>6, <1>10

(* A search hops to every free block that fits.                            *)
LEMMA HopToFit ==
  ASSUME BinsInvariant, todo = {}, NEW need \in MinBlock .. Zone,
         NEW x \in FreeBlocks, SizeAt(x) >= need
  PROVE  \E h \in Stops(bins, need) : h[1] = Class(x)
<1>1. PICK c \in Classes : c = Class(x) /\ c = ClassOf(SizeAt(x))
  BY FreeShape
<1>2. x \in Members(c)
  BY <1>1 DEF Members
<1>3. /\ bins \in Words /\ bins.fl = {f \in Levels : bins.sl[f] # {}}
      /\ c[2] \in bins.sl[c[1]]
  BY <1>2, SoundWords
<1>4. c[1] \in Levels /\ c[2] \in Seconds /\ c[1] \in bins.fl
  BY <1>3, ClassParts
<1>5. /\ fl_index(need) <= c[1]
      /\ fl_index(need) = c[1] => sl_index(need) <= c[2]
  <2>1. SizeAt(x) \in MinBlock .. Zone
    BY FreeShape
  <2>2. need <= SizeAt(x)
    BY <2>1, ConstantsType
  <2>3. ClassOf(need)[1] = fl_index(need) /\ ClassOf(need)[2] = sl_index(need)
    BY DEF ClassOf
  <2> QED
    BY <2>1, <2>2, <2>3, <1>1, ClassGrows
<1>6. c \in VisitedBins(bins, need)
  <2>1. ClassOf(need) \in Classes
    BY ClassType
  <2>2. fl_index(need) \in Levels /\ sl_index(need) \in Seconds
    BY <2>1 DEF ClassOf, Classes
  <2>3. PICK f \in Nat, g \in Nat, s \in Nat, r \in Nat :
          f = fl_index(need) /\ s = sl_index(need) /\ g = c[1] /\ r = c[2]
    BY <2>2, <1>4 DEF Levels, Seconds
  <2>4. (g = f /\ r >= s) \/ g > f
    BY <2>3, <1>5
  <2> QED
    BY <2>3, <2>4, <1>3, <1>4 DEF VisitedBins
<1>7. x \in ToSet(Chain(bins, c))
  <2>1. ToSet(Chain(bins, c)) = Members(c)
    BY InvariantExact, Zenon DEF IndexExact, Members
  <2> QED
    BY <2>1, <1>2
<1>8. PICK i \in DOMAIN Chain(bins, c) : Chain(bins, c)[i] = x
  BY <1>7 DEF ToSet
<1>9. PICK h : h = <<c, i>>
  OBVIOUS
<1>10. h[1] = c /\ h[2] = i /\ h \in Hops(bins, need)
  BY <1>6, <1>8, <1>9 DEF Hops
<1>11. OffAt(bins, h) = x
  BY <1>8, <1>10 DEF OffAt
<1>12. h \in Stops(bins, need)
  BY <1>10, <1>11 DEF Stops
<1> QED
  BY <1>1, <1>10, <1>12

LEMMA InvariantSearches == BinsInvariant => FindKeepsContract
<1> SUFFICES ASSUME BinsInvariant, todo = {}, NEW need \in MinBlock .. Zone
             PROVE  LET fits == {u \in FreeBlocks : SizeAt(u) >= need}
                        u    == bins_find(bins, need)
                    IN IF fits = {} THEN u = Null
                       ELSE u \in fits /\ Class(u) = ClassOf(Min({SizeAt(x) : x \in fits}))
  BY Zenon DEF FindKeepsContract
<1>1. PICK fits : fits = {u \in FreeBlocks : SizeAt(u) >= need}
  OBVIOUS
<1>2. PICK u : u = bins_find(bins, need)
  OBVIOUS
<1>3. PICK cl : cl = Binned(own, todo)
  OBVIOUS
<1>4. Index(bins, cl) /\ Tiling(own)
  BY <1>3 DEF BinsInvariant
<1>5. \A x \in Units : cl[x] \in Classes => own[x] < 0
  BY <1>3, <1>4, BinnedShape
<1>6. u # Null => u \in fits
  <2> SUFFICES ASSUME u # Null PROVE u \in fits
    OBVIOUS
  <2>1. u \in Units /\ own[u] < 0 /\ Size(own, u) >= need
    BY <1>2, <1>4, <1>5, FindsFree
  <2> QED
    BY <2>1, <1>1, SizeIs DEF FreeBlocks, IsFree
<1>7. CASE fits = {}
  BY <1>1, <1>2, <1>6, <1>7
<1>8. CASE fits # {}
  <2>1. PICK sizes : sizes = {SizeAt(x) : x \in fits}
    OBVIOUS
  <2>2. \A x \in fits : x \in FreeBlocks /\ SizeAt(x) >= need /\ SizeAt(x) \in MinBlock .. Zone
    BY <1>1, FreeShape
  <2>3. sizes \in SUBSET Nat /\ sizes # {}
    BY <2>1, <2>2, <1>8, ConstantsType
  <2>4. Min(sizes) \in sizes /\ \A n \in sizes : Min(sizes) <= n
    BY <2>3, MinOfNumbers
  <2>5. PICK x \in fits : SizeAt(x) = Min(sizes)
    BY <2>1, <2>4
  <2>6. PICK s : s \in Stops(bins, need) /\ s[1] = Class(x)
    BY <2>2, <2>5, HopToFit
  <2>7. Hops(bins, need) \in SUBSET (Classes \X Nat) /\ Stops(bins, need) \subseteq Hops(bins, need)
    BY HopsFew DEF Stops
  <2>8. ~(need >= Pow2[FlMax])
    <3>1. FlMax \in 0 .. FlMax
      BY ConstantsType
    <3>2. Pow2[FlMax] \in Nat /\ Zone < Pow2[FlMax] /\ Zone \in Nat
      BY <3>1, Pow2Runs, BinsAssumption
    <3> QED
      BY <3>2, ConstantsType
  <2>9. PICK h \in Stops(bins, need) : /\ bins_find(bins, need) = OffAt(bins, h)
                                       /\ \A g \in Stops(bins, need) : NoLater(h, g)
    <3>1. \A e \in Stops(bins, need) : ~Over(Hops(bins, need), e)
      BY <2>7, HopsFew
    <3>2. ~(need >= Pow2[FlMax] \/ Stops(bins, need) = {}
            \/ \E e \in Stops(bins, need) : Over(Hops(bins, need), e))
      BY <3>1, <2>6, <2>8
    <3> QED
      BY <3>2, <1>4, <1>5, FindMeans
  <2>10. h \in Hops(bins, need) /\ h[1] \in Classes /\ u = OffAt(bins, h)
    BY <2>7, <2>9, <1>2
  <2>11. u \in Units /\ cl[u] = h[1]
    BY <2>10, <1>4, <1>5, HopShape DEF In
  <2>12. u \in fits
    BY <2>11, <1>6, ConstantsType
  <2>13. Class(u) = h[1]
    <3>1. own[u] < 0
      BY <2>10, <2>11, <1>5
    <3>2. cl[u] = ClassOf(Size(own, u))
      BY <3>1, <2>11, <1>3, <1>4, BinnedShape
    <3> QED
      BY <3>2, <2>11, SizeIs DEF Class
  <2>14. /\ Class(u) = ClassOf(SizeAt(u)) /\ Class(x) = ClassOf(SizeAt(x))
         /\ SizeAt(x) <= SizeAt(u) /\ Class(x) \in Classes
    <3>1. SizeAt(u) \in sizes
      BY <2>1, <2>12
    <3> QED
      BY <3>1, <2>2, <2>4, <2>5, <2>12, FreeShape
  <2>15. Rank(Class(x)) <= Rank(Class(u))
    BY <2>2, <2>12, <2>14, ClassGrows
  <2>16. Class(u) = Class(x)
    <3>1. NoLater(h, s)
      BY <2>6, <2>9
    <3>2. Rank(Class(u)) < Rank(Class(x)) \/ Class(u) = Class(x)
      BY <3>1, <2>6, <2>13 DEF NoLater
    <3>3. Rank(Class(u)) \in Nat /\ Rank(Class(x)) \in Nat
      BY <2>10, <2>13, <2>14, RankType
    <3> QED
      BY <3>2, <3>3, <2>15
  <2>17. u \in fits /\ Class(u) = ClassOf(Min(sizes))
    BY <2>5, <2>12, <2>14, <2>16
  <2> QED
    BY <2>1, <2>17, <1>1, <1>2, <1>8
<1> QED
  BY <1>7, <1>8

(* A search finds a block whenever one fits, in the lowest class that      *)
(* holds a fit; the cap on hops never cuts it short.                       *)
THEOREM FindKeeps == Spec => []FindKeepsContract
  BY BinsInductive, InvariantSearches, PTL

-----------------------------------------------------------------------------
(* The refinement of BlockPool.  Read along its lists, the index is the    *)
(* set of the free blocks outside todo; what is left is which blocks the   *)
(* headers of each operation name.                                         *)

UsedAt(o)      == {<<u, o[u]>> : u \in UsedOf(o)}
BlocksAt(o, S) == {<<u, Size(o, u)>> : u \in S}

LEMMA ChainedFree == BinsInvariant => Chained(bins) = FreeBlocks \ todo
<1> SUFFICES ASSUME BinsInvariant PROVE Chained(bins) = FreeBlocks \ todo
  OBVIOUS
<1>1. \A c \in Classes : ToSet(Chain(bins, c)) = Members(c)
  BY InvariantExact, Zenon DEF IndexExact, Members
<1>2. \A u \in FreeBlocks \ todo : Class(u) \in Classes
  BY FreeShape
<1> QED
  BY <1>1, <1>2 DEF Chained, Members

PoolView ==
  /\ InUse = UsedAt(own)
  /\ Indexed = BlocksAt(own, FreeBlocks \ todo)
  /\ Unlisted = BlocksAt(own, todo)

LEMMA PoolIs == BinsInvariant => PoolView
<1> SUFFICES ASSUME BinsInvariant PROVE PoolView
  OBVIOUS
<1>1. Chained(bins) \cap Units = FreeBlocks \ todo
  BY ChainedFree DEF FreeBlocks
<1> QED
  BY <1>1, SizeIs DEF PoolView, InUse, Indexed, Unlisted, UsedAt, UsedOf, BlocksAt

LEMMA PoolIsNext == BinsInvariant' => PoolView'
  BY PoolIs, PTL

(* One block is used or freed, the other used blocks stay.                 *)
LEMMA UsedGains ==
  ASSUME NEW o, NEW o2, NEW u \in Units, ~(o[u] > 0), o2[u] > 0,
         \A x \in Units : x # u => (o2[x] > 0 <=> o[x] > 0) /\ (o[x] > 0 => o2[x] = o[x])
  PROVE  UsedAt(o2) = UsedAt(o) \cup {<<u, o2[u]>>}
<1>1. UsedOf(o2) = UsedOf(o) \cup {u} /\ u \notin UsedOf(o)
  BY DEF UsedOf
<1>2. \A x \in UsedOf(o) : o2[x] = o[x]
  BY DEF UsedOf
<1> QED
  BY <1>1, <1>2 DEF UsedAt

LEMMA UsedLoses ==
  ASSUME NEW o, NEW o2, NEW u \in Units, o[u] > 0, ~(o2[u] > 0),
         \A x \in Units : x # u => (o2[x] > 0 <=> o[x] > 0) /\ (o[x] > 0 => o2[x] = o[x])
  PROVE  UsedAt(o2) = UsedAt(o) \ {<<u, o[u]>>}
<1>1. UsedOf(o2) = UsedOf(o) \ {u} /\ u \in UsedOf(o)
  BY DEF UsedOf
<1>2. \A x \in UsedOf(o2) : o2[x] = o[x] /\ x # u
  BY <1>1 DEF UsedOf
<1> QED
  BY <1>1, <1>2 DEF UsedAt

(* Free blocks D leave the set and the blocks N enter it.                  *)
LEMMA BlocksChange ==
  ASSUME NEW o, NEW o2, NEW S, NEW D \in SUBSET S, NEW N, N \cap (S \ D) = {},
         \A x \in S \ D : Size(o2, x) = Size(o, x)
  PROVE  BlocksAt(o2, (S \ D) \cup N) = (BlocksAt(o, S) \ BlocksAt(o, D)) \cup BlocksAt(o2, N)
BY DEF BlocksAt

LEMMA InitPool == Init => Pool!PoolInit
<1> SUFFICES ASSUME Init PROVE Pool!PoolInit
  OBVIOUS
<1>1. BinsInvariant
  BY InitBins
<1>2. /\ Zone \in Nat /\ Zone >= 2 /\ Units = 0 .. Zone - 1 /\ 0 \in Units
      /\ own[0] = -Zone /\ \A x \in Units : x # 0 => own[x] = 0
      /\ todo = {}
  BY ConstantsType DEF Init, Units
<1>3. ~(own[0] > 0) /\ own[0] < 0 /\ Size(own, 0) = Zone
  BY <1>2 DEF Size
<1>4. UsedOf(own) = {} /\ FreeBlocks = {0}
  BY <1>2, <1>3 DEF UsedOf, FreeBlocks, IsFree
<1>5. InUse = {} /\ Unlisted = {} /\ Indexed = {<<0, Zone>>}
  BY <1>1, <1>2, <1>3, <1>4, PoolIs DEF PoolView, UsedAt, BlocksAt
<1> QED
  BY <1>5 DEF Pool!PoolInit

-----------------------------------------------------------------------------
LEMMA AllocTakes ==
  ASSUME BinsInvariant, BinsInvariant', NEW need \in MinBlock .. Zone, Alloc(need)
  PROVE  Pool!Take(need)
<1>1. PICK u : u = bins_find(bins, need)
  OBVIOUS
<1>2. /\ todo = {} /\ todo' = {} /\ u # Null
      /\ need \in Nat /\ MinBlock = 2 /\ need >= 2 /\ Zone \in Nat /\ Units = 0 .. Zone - 1
  BY <1>1, ConstantsType DEF Alloc, Units
<1>3. PICK fits : fits = {x \in FreeBlocks : SizeAt(x) >= need}
  OBVIOUS
<1>4. fits # {} /\ u \in fits /\ Class(u) = ClassOf(Min({SizeAt(x) : x \in fits}))
  BY <1>1, <1>2, <1>3, InvariantSearches, Zenon DEF FindKeepsContract
<1>5. \A x \in fits : x \in FreeBlocks /\ SizeAt(x) >= need /\ SizeAt(x) \in MinBlock .. Zone
  BY <1>3, FreeShape
<1>6. PICK x \in fits : Class(u) = ClassOf(SizeAt(x)) /\ \A y \in fits : SizeAt(x) <= SizeAt(y)
  <2>1. PICK sizes : sizes = {SizeAt(y) : y \in fits}
    OBVIOUS
  <2>2. sizes \in SUBSET Nat /\ sizes # {}
    BY <2>1, <1>4, <1>5, ConstantsType
  <2>3. Min(sizes) \in sizes /\ \A n \in sizes : Min(sizes) <= n
    BY <2>2, MinOfNumbers
  <2>4. PICK x \in fits : SizeAt(x) = Min(sizes)
    BY <2>1, <2>3
  <2> QED
    BY <2>1, <2>3, <2>4, <1>4
<1>7. /\ u \in FreeBlocks /\ u \in Units /\ u \in Nat /\ own[u] < 0 /\ Size(own, u) = SizeAt(u)
      /\ SizeAt(u) \in Nat /\ SizeAt(u) >= need /\ SizeAt(u) <= Zone
      /\ Class(u) = ClassOf(SizeAt(u))
  BY <1>2, <1>4, <1>5, FreeShape
<1>8. PICK whole \in Nat : whole = SizeAt(u) /\ whole >= need
  BY <1>7
<1>9. PICK size \in Nat : size = (IF whole - need >= MinBlock THEN need ELSE whole) /\ size > 0 /\ size <= whole
  BY <1>2, <1>8
<1>10. PICK rest \in Nat : rest = whole - size
  BY <1>9
<1>11. own' = [y \in Units |-> IF y = u THEN size
                               ELSE IF y = u + size /\ rest > 0 THEN -rest ELSE own[y]]
  BY <1>1, <1>8, <1>9, <1>10, Zenon DEF Alloc
<1>12. PICK o2 : o2 = own'
  OBVIOUS
<1>13. /\ o2[u] = size
       /\ \A y \in Units : y # u => o2[y] = IF y = u + size /\ rest > 0 THEN -rest ELSE own[y]
  BY <1>7, <1>11, <1>12
<1>14. Tiling(own) /\ own \in [Units -> -Zone .. Zone] /\ \A y \in Units : own[y] \in Int
  BY <1>2 DEF BinsInvariant, Tiling
(* The remainder starts where no block started.                            *)
<1>15. rest > 0 => u + size \in Units /\ own[u + size] = 0 /\ u + size # u
  <2> SUFFICES ASSUME rest > 0 PROVE u + size \in Units /\ own[u + size] = 0 /\ u + size # u
    OBVIOUS
  <2>1. u < u + size /\ u + size < u + Size(own, u) /\ u + Size(own, u) <= Zone
    BY <1>7, <1>8, <1>9, <1>10, <1>14, TileShape
  <2>2. u + size \in Units
    BY <2>1, <1>2, <1>7, <1>9
  <2> QED
    BY <2>1, <2>2, <1>7, <1>14 DEF Tiling
<1>16. InUse' = InUse \cup {<<u, size>>}
  <2>1. \A y \in Units : y # u => (o2[y] > 0 <=> own[y] > 0) /\ (own[y] > 0 => o2[y] = own[y])
    <3> SUFFICES ASSUME NEW y \in Units, y # u
                 PROVE  (o2[y] > 0 <=> own[y] > 0) /\ (own[y] > 0 => o2[y] = own[y])
      OBVIOUS
    <3>1. CASE y = u + size /\ rest > 0
      <4>1. o2[y] = -rest /\ own[y] = 0 /\ ~(-rest > 0)
        BY <3>1, <1>13, <1>15
      <4> QED
        BY <4>1
    <3>2. CASE ~(y = u + size /\ rest > 0)
      BY <3>2, <1>13
    <3> QED
      BY <3>1, <3>2
  <2>2. ~(own[u] > 0) /\ o2[u] > 0
    BY <1>7, <1>9, <1>13, <1>14
  <2>3. UsedAt(o2) = UsedAt(own) \cup {<<u, size>>}
    BY <2>1, <2>2, <1>7, <1>13, UsedGains
  <2>4. InUse = UsedAt(own) /\ InUse' = UsedAt(own')
    BY PoolIs, PoolIsNext DEF PoolView
  <2> QED
    BY <2>3, <2>4, <1>12
<1>17. PICK N : N = IF rest > 0 THEN {u + size} ELSE {}
  OBVIOUS
<1>18. FreeBlocks' = (FreeBlocks \ {u}) \cup N
  <2>1. FreeBlocks = {y \in Units : own[y] < 0} /\ FreeBlocks' = {y \in Units : o2[y] < 0}
    BY <1>12 DEF FreeBlocks, IsFree
  <2>2. ASSUME NEW y \in Units
        PROVE  o2[y] < 0 <=> (own[y] < 0 /\ y # u) \/ y \in N
    <3>1. CASE y = u
      BY <3>1, <1>9, <1>13, <1>15, <1>17
    <3>2. CASE y # u /\ y = u + size /\ rest > 0
      BY <3>2, <1>13, <1>17
    <3>3. CASE y # u /\ ~(y = u + size /\ rest > 0)
      BY <3>3, <1>13, <1>17
    <3> QED
      BY <3>1, <3>2, <3>3
  <2>3. N \subseteq Units
    BY <1>15, <1>17
  <2> QED
    BY <2>1, <2>2, <2>3
<1>19. Indexed' = (Indexed \ {<<u, whole>>}) \cup (IF rest > 0 THEN {<<u + size, rest>>} ELSE {})
  <2>1. Indexed = BlocksAt(own, FreeBlocks) /\ Indexed' = BlocksAt(o2, FreeBlocks')
    BY <1>2, <1>12, PoolIs, PoolIsNext DEF PoolView
  <2>2. N \cap (FreeBlocks \ {u}) = {}
    BY <1>2, <1>15, <1>17 DEF FreeBlocks, IsFree
  <2>3. \A y \in FreeBlocks \ {u} : Size(o2, y) = Size(own, y)
    <3> SUFFICES ASSUME NEW y \in FreeBlocks \ {u} PROVE Size(o2, y) = Size(own, y)
      OBVIOUS
    <3>1. y \in Units /\ own[y] # 0
      BY FreeShape
    <3>2. o2[y] = own[y]
      BY <3>1, <1>13, <1>15
    <3> QED
      BY <3>2 DEF Size
  <2>4. Indexed' = (Indexed \ BlocksAt(own, {u})) \cup BlocksAt(o2, N)
    <3>1. PICK D : D = {u}
      OBVIOUS
    <3>2. PICK S : S = FreeBlocks
      OBVIOUS
    <3>3. D \in SUBSET S /\ N \cap (S \ D) = {} /\ \A y \in S \ D : Size(o2, y) = Size(own, y)
      BY <2>2, <2>3, <3>1, <3>2, <1>7
    <3>4. BlocksAt(o2, (S \ D) \cup N) = (BlocksAt(own, S) \ BlocksAt(own, D)) \cup BlocksAt(o2, N)
      BY <3>3, BlocksChange
    <3> QED
      BY <2>1, <3>1, <3>2, <3>4, <1>18
  <2>5. BlocksAt(own, {u}) = {<<u, whole>>}
    BY <1>7, <1>8 DEF BlocksAt
  <2>6. BlocksAt(o2, N) = IF rest > 0 THEN {<<u + size, rest>>} ELSE {}
    <3>1. CASE rest > 0
      <4>1. o2[u + size] = -rest
        BY <3>1, <1>13, <1>15
      <4>2. Size(o2, u + size) = rest
        BY <4>1, <3>1, <1>10 DEF Size
      <4> QED
        BY <4>2, <3>1, <1>17 DEF BlocksAt
    <3>2. CASE ~(rest > 0)
      BY <3>2, <1>17 DEF BlocksAt
    <3> QED
      BY <3>1, <3>2
  <2> QED
    BY <2>4, <2>5, <2>6
<1>20. Unlisted = {} /\ Unlisted' = {}
  BY <1>2 DEF Unlisted
<1>21. \A p \in Indexed : \E y \in FreeBlocks : p = <<y, SizeAt(y)>>
  BY <1>2, PoolIs, SizeIs DEF PoolView, BlocksAt
<1>22. \A y \in FreeBlocks : <<y, SizeAt(y)>> \in Indexed
  BY <1>2, PoolIs, SizeIs DEF PoolView, BlocksAt
<1>23. PICK bin : bin = [n \in MinBlock .. Zone |-> ClassOf(n)]
  OBVIOUS
<1>24. PICK b : b = <<u, whole>>
  OBVIOUS
<1>25. b \in Indexed /\ b[1] = u /\ b[2] = whole
  BY <1>7, <1>8, <1>22, <1>24
<1>26. PICK small : small = <<x, SizeAt(x)>>
  OBVIOUS
<1>27. small \in Indexed /\ small[2] = SizeAt(x) /\ small[2] >= need /\ bin[small[2]] = bin[b[2]]
  <2>1. SizeAt(x) \in MinBlock .. Zone /\ SizeAt(u) \in MinBlock .. Zone
    BY <1>4, <1>5
  <2>2. bin[SizeAt(x)] = ClassOf(SizeAt(x)) /\ bin[SizeAt(u)] = ClassOf(SizeAt(u))
    BY <2>1, <1>23
  <2> QED
    BY <2>2, <1>5, <1>6, <1>7, <1>8, <1>22, <1>25, <1>26
<1>28. \A c \in Indexed : c[2] >= need => small[2] <= c[2]
  BY <1>3, <1>6, <1>21, <1>27
<1>29. Pool!Cut(b, need) = size /\ Pool!Remainder(b, size) = IF rest > 0 THEN {<<u + size, rest>>} ELSE {}
  <2>1. size < whole <=> rest > 0
    BY <1>8, <1>9, <1>10
  <2> QED
    BY <2>1, <1>8, <1>9, <1>10, <1>25 DEF Pool!Cut, Pool!Remainder
<1>30. /\ InUse' = InUse \cup {<<b[1], Pool!Cut(b, need)>>}
       /\ Indexed' = (Indexed \ {b}) \cup Pool!Remainder(b, Pool!Cut(b, need))
  BY <1>16, <1>19, <1>24, <1>25, <1>29
<1> QED
  BY <1>8, <1>20, <1>23, <1>25, <1>27, <1>28, <1>30 DEF Pool!Take

LEMMA InsertHoleLists ==
  ASSUME BinsInvariant, BinsInvariant', InsertHole
  PROVE  \E b \in Unlisted : Pool!List(b)
<1>1. PICK u : u = Min(todo)
  OBVIOUS
<1>2. todo # {} /\ todo' = todo \ {u} /\ own' = own
  BY <1>1 DEF InsertHole
<1>3. todo \subseteq FreeBlocks /\ todo \in SUBSET Nat
  BY FreeShape, ConstantsType DEF BinsInvariant, Units
<1>4. u \in todo
  BY <1>1, <1>2, <1>3, MinOfNumbers
<1>5. FreeBlocks' = FreeBlocks
  BY <1>2 DEF FreeBlocks, IsFree
<1>6. /\ Indexed = BlocksAt(own, FreeBlocks \ todo) /\ Unlisted = BlocksAt(own, todo)
      /\ Indexed' = BlocksAt(own, FreeBlocks \ (todo \ {u})) /\ Unlisted' = BlocksAt(own, todo \ {u})
      /\ InUse' = InUse
  BY <1>2, <1>5, PoolIs, PoolIsNext DEF PoolView
<1>7. PICK b : b = <<u, Size(own, u)>>
  OBVIOUS
<1>8. FreeBlocks \ (todo \ {u}) = (FreeBlocks \ todo) \cup {u}
  BY <1>3, <1>4
<1>9. Indexed' = Indexed \cup {b}
  BY <1>6, <1>7, <1>8 DEF BlocksAt
<1>10. Unlisted' = Unlisted \ {b} /\ b \in Unlisted
  BY <1>4, <1>6, <1>7 DEF BlocksAt
<1> QED
  BY <1>6, <1>9, <1>10 DEF Pool!List

LEMMA FreeGives ==
  ASSUME BinsInvariant, BinsInvariant', NEW u \in Units, Free(u)
  PROVE  \E b \in InUse : Pool!Give(b)
<1>1. todo = {} /\ todo' = {} /\ own[u] > 0
  BY DEF Free
<1>2. PICK fwd \in Nat, back \in Nat, end \in Nat : Merges(u, fwd, back, end)
  BY FreeMeans
<1>3. /\ fwd = u + own[u] /\ fwd <= Zone /\ fwd >= u + 2
      /\ back \in Units /\ back \in Nat /\ back <= u
      /\ back = u \/ (own[back] < 0 /\ back < u /\ back + Size(own, back) = u)
      /\ end \in Nat /\ fwd <= end
      /\ fwd \in FreeBlocks => fwd < end /\ end = fwd + Size(own, fwd)
      /\ fwd \notin FreeBlocks => end = fwd
  BY <1>2, Zenon DEF Merges
<1>4. PICK o2 : o2 = own'
  OBVIOUS
<1>5. \A x \in Units :
        o2[x] = IF x = back THEN back - end
                ELSE IF x = u \/ (fwd \in FreeBlocks /\ x = fwd) THEN 0 ELSE own[x]
  BY <1>2, <1>4 DEF Merges
<1>6. Tiling(own) /\ u \in Nat /\ own[u] \in Int /\ own[u] # 0 /\ Size(own, u) = own[u] /\ Zone \in Nat
  <2>1. Tiling(own) /\ own[u] # 0 /\ own[u] \in -Zone .. Zone /\ Zone \in Nat
    BY <1>1, ConstantsType DEF BinsInvariant, Tiling
  <2>2. u \in Nat
    BY ConstantsType DEF Units
  <2> QED
    BY <2>1, <2>2, <1>1 DEF Size
<1>7. \A x \in FreeBlocks : /\ x \in Units /\ x \in Nat /\ own[x] < 0 /\ own[x] # 0 /\ ~(own[x] > 0) /\ x # u
                            /\ SizeAt(x) = Size(own, x) /\ Size(own, x) \in Nat
  <2> SUFFICES ASSUME NEW x \in FreeBlocks
               PROVE  /\ x \in Units /\ x \in Nat /\ own[x] < 0 /\ own[x] # 0 /\ ~(own[x] > 0) /\ x # u
                      /\ SizeAt(x) = Size(own, x) /\ Size(own, x) \in Nat
    OBVIOUS
  <2>1. x \in Units /\ own[x] < 0 /\ own[x] # 0 /\ SizeAt(x) = Size(own, x)
    BY FreeShape
  <2>2. x \in Nat /\ own[x] \in Int /\ Size(own, x) \in Nat
    BY <2>1, <1>6, TileShape, ConstantsType
  <2> QED
    BY <2>1, <2>2, <1>1
<1>8. back # u => back \in FreeBlocks
  BY <1>3 DEF FreeBlocks, IsFree
<1>9. fwd \in FreeBlocks => fwd # back
  BY <1>3, <1>6
(* The free blocks that touch u are the one below and the one above.       *)
<1>10. PICK D : D = {x \in FreeBlocks : x + Size(own, x) = u \/ x = fwd}
  OBVIOUS
<1>11. \A x \in FreeBlocks : x + Size(own, x) = u <=> x = back
  <2> SUFFICES ASSUME NEW x \in FreeBlocks PROVE x + Size(own, x) = u <=> x = back
    OBVIOUS
  <2>1. x # u /\ (x = back => x + Size(own, x) = u)
    BY <1>3, <1>7
  <2>2. ASSUME x + Size(own, x) = u, x # back
        PROVE  FALSE
    <3>1. back < u
      BY <2>2, <1>2, <1>7, Zenon DEF Merges
    <3>2. back \in FreeBlocks /\ back + Size(own, back) = u
      BY <3>1, <1>3, <1>6, <1>8
    <3>3. x \in Nat /\ back \in Nat /\ x < u /\ x \in Units /\ own[x] # 0 /\ own[back] # 0 /\ Size(own, x) \in Nat
      <4>1. Size(own, x) \in MinBlock .. Zone
        BY <1>6, <1>7, TileShape
      <4> QED
        BY <4>1, <2>2, <3>2, <1>7, <1>6, ConstantsType
    <3>4. CASE x < back
      <4>1. x + Size(own, x) <= back
        BY <3>3, <3>4, <1>3, <1>6, BlocksApart
      <4> QED
        BY <4>1, <3>1, <3>3, <2>2, <1>6
    <3>5. CASE back < x
      <4>1. back + Size(own, back) <= x
        BY <3>3, <3>5, <1>3, <1>6, BlocksApart
      <4> QED
        BY <4>1, <3>2, <3>3, <1>6
    <3> QED
      BY <3>3, <3>4, <3>5, <2>2
  <2> QED
    BY <2>1, <2>2
<1>12. D = {x \in FreeBlocks : x = back \/ x = fwd}
  BY <1>10, <1>11
<1>13. PICK b : b = <<u, own[u]>>
  OBVIOUS
<1>14. b[1] = u /\ b[2] = own[u] /\ Pool!End(b) = fwd
  BY <1>3, <1>13 DEF Pool!End
<1>15. /\ InUse = UsedAt(own) /\ InUse' = UsedAt(o2)
       /\ Indexed = BlocksAt(own, FreeBlocks) /\ Indexed' = BlocksAt(o2, FreeBlocks')
  BY <1>1, <1>4, PoolIs, PoolIsNext DEF PoolView
<1>16. b \in InUse
  BY <1>1, <1>13, <1>15 DEF UsedAt, UsedOf
<1>17. InUse' = InUse \ {b}
  <2>1. ~(o2[u] > 0)
    BY <1>3, <1>5, <1>6
  <2>2. ASSUME NEW x \in Units, x # u
        PROVE  (o2[x] > 0 <=> own[x] > 0) /\ (own[x] > 0 => o2[x] = own[x])
    <3>1. CASE x = back
      <4>1. ~(o2[x] > 0) /\ ~(own[x] > 0)
        BY <3>1, <2>2, <1>3, <1>5, <1>6, <1>7, <1>8
      <4> QED
        BY <4>1
    <3>2. CASE x # back /\ fwd \in FreeBlocks /\ x = fwd
      BY <3>2, <1>5, <1>7
    <3>3. CASE x # back /\ ~(fwd \in FreeBlocks /\ x = fwd)
      BY <3>3, <2>2, <1>5
    <3> QED
      BY <3>1, <3>2, <3>3
  <2> QED
    BY <2>1, <2>2, <1>1, <1>13, <1>15, UsedLoses
<1>18. Pool!Touching(b) = BlocksAt(own, D)
  <2>1. \A x \in FreeBlocks : Pool!End(<<x, Size(own, x)>>) = x + Size(own, x)
    BY DEF Pool!End
  <2>2. Pool!Touching(b) = {f \in Indexed : Pool!End(f) = u \/ f[1] = fwd}
    BY <1>14 DEF Pool!Touching
  <2> QED
    BY <2>1, <2>2, <1>10, <1>15 DEF BlocksAt
<1>19. FreeBlocks' = (FreeBlocks \ D) \cup {back}
  <2>1. FreeBlocks = {y \in Units : own[y] < 0} /\ FreeBlocks' = {y \in Units : o2[y] < 0}
    BY <1>4 DEF FreeBlocks, IsFree
  <2>2. ASSUME NEW y \in Units
        PROVE  o2[y] < 0 <=> (y \in FreeBlocks /\ y \notin D) \/ y = back
    <3>1. CASE y = back
      BY <3>1, <1>3, <1>5, <1>6
    <3>2. CASE y # back /\ (y = u \/ (fwd \in FreeBlocks /\ y = fwd))
      <4>1. ~(o2[y] < 0)
        BY <3>2, <1>5
      <4>2. y \notin FreeBlocks \/ y \in D
        BY <3>2, <1>7, <1>12
      <4> QED
        BY <4>1, <4>2, <3>2
    <3>3. CASE y # back /\ ~(y = u \/ (fwd \in FreeBlocks /\ y = fwd))
      BY <3>3, <2>1, <1>5, <1>12
    <3> QED
      BY <3>1, <3>2, <3>3
  <2> QED
    BY <2>1, <2>2, <1>3
<1>20. Indexed' = (Indexed \ Pool!Touching(b)) \cup {<<back, end - back>>}
  <2>1. PICK N : N = {back}
    OBVIOUS
  <2>2. PICK S : S = FreeBlocks
    OBVIOUS
  <2>3. D \in SUBSET S /\ N \cap (S \ D) = {}
    BY <2>1, <2>2, <1>12
  <2>4. \A y \in S \ D : Size(o2, y) = Size(own, y)
    <3> SUFFICES ASSUME NEW y \in S \ D PROVE Size(o2, y) = Size(own, y)
      OBVIOUS
    <3>1. y \in Units /\ y # back /\ y # u /\ ~(fwd \in FreeBlocks /\ y = fwd)
      BY <2>2, <1>7, <1>12
    <3>2. o2[y] = own[y]
      BY <3>1, <1>5
    <3> QED
      BY <3>2 DEF Size
  <2>5. BlocksAt(o2, (S \ D) \cup N) = (BlocksAt(own, S) \ BlocksAt(own, D)) \cup BlocksAt(o2, N)
    <3>1. D \in SUBSET S /\ N \cap (S \ D) = {} /\ \A y \in S \ D : Size(o2, y) = Size(own, y)
      BY <2>3, <2>4
    <3> QED
      BY ONLY <3>1 DEF BlocksAt
  <2>6. Size(o2, back) = end - back
    BY <1>3, <1>5, <1>6 DEF Size
  <2>7. BlocksAt(o2, N) = {<<back, end - back>>}
    BY <2>1, <2>6 DEF BlocksAt
  <2> QED
    BY <2>1, <2>2, <2>5, <2>7, <1>15, <1>18, <1>19
(* The lowest and the highest of what is joined.                           *)
<1>21. PICK joined : joined = {b} \cup Pool!Touching(b)
  OBVIOUS
<1>22. PICK low : low = IF back = u THEN b ELSE <<back, Size(own, back)>>
  OBVIOUS
<1>23. PICK high : high = IF fwd \in FreeBlocks THEN <<fwd, Size(own, fwd)>> ELSE b
  OBVIOUS
<1>24. /\ low \in joined /\ low[1] = back
       /\ high \in joined /\ Pool!End(high) = end
  <2>1. back # u => <<back, Size(own, back)>> \in BlocksAt(own, D)
    BY <1>8, <1>12 DEF BlocksAt
  <2>2. fwd \in FreeBlocks => <<fwd, Size(own, fwd)>> \in BlocksAt(own, D)
    BY <1>12 DEF BlocksAt
  <2>3. low \in joined /\ low[1] = back
    BY <2>1, <1>14, <1>18, <1>21, <1>22
  <2>4. high \in joined
    BY <2>2, <1>18, <1>21, <1>23
  <2>5. Pool!End(high) = end
    <3>1. fwd \in FreeBlocks => Pool!End(<<fwd, Size(own, fwd)>>) = fwd + Size(own, fwd)
      BY DEF Pool!End
    <3> QED
      BY <3>1, <1>3, <1>14, <1>23
  <2> QED
    BY <2>3, <2>4, <2>5
<1>25. \A f \in joined : low[1] <= f[1] /\ Pool!End(f) <= Pool!End(high)
  <2> SUFFICES ASSUME NEW f \in joined PROVE back <= f[1] /\ Pool!End(f) <= end
    BY <1>24
  <2>1. CASE f = b
    BY <2>1, <1>3, <1>14
  <2>2. CASE f \in BlocksAt(own, D)
    <3>1. PICK x \in D : f = <<x, Size(own, x)>>
      BY <2>2 DEF BlocksAt
    <3>2. f[1] = x /\ Pool!End(f) = x + Size(own, x) /\ x \in FreeBlocks
      BY <3>1, <1>12 DEF Pool!End
    <3>3. CASE x = back
      BY <3>2, <3>3, <1>3, <1>6, <1>11
    <3>4. CASE x = fwd
      BY <3>2, <3>4, <1>3, <1>6
    <3> QED
      BY <3>1, <3>3, <3>4, <1>12
  <2> QED
    BY <2>1, <2>2, <1>18, <1>21
<1>26. Unlisted = {} /\ Unlisted' = {}
  BY <1>1 DEF Unlisted
<1>27. Pool!Give(b)
  <2>1. Indexed' = (Indexed \ Pool!Touching(b)) \cup {<<low[1], Pool!End(high) - low[1]>>}
    BY <1>20, <1>24
  <2>2. \E l, h \in joined :
          /\ \A f \in joined : l[1] <= f[1] /\ Pool!End(f) <= Pool!End(h)
          /\ Indexed' = (Indexed \ Pool!Touching(b)) \cup {<<l[1], Pool!End(h) - l[1]>>}
    BY <2>1, <1>24, <1>25
  <2> QED
    BY ONLY <2>2, <1>17, <1>21, <1>26 DEF Pool!Give
<1> QED
  BY <1>16, <1>27

-----------------------------------------------------------------------------
(* Sets that a function puts in one-to-one correspondence are equally big. *)
LEMMA SameCount ==
  ASSUME NEW S, IsFiniteSet(S), NEW R, NEW f, \A x \in S : f[x] \in R,
         \A x, y \in S : f[x] = f[y] => x = y, \A r \in R : \E x \in S : f[x] = r
  PROVE  Cardinality(R) = Cardinality(S)
<1> DEFINE g == [x \in S |-> f[x]]
<1>1. g \in Bijection(S, R)
  BY DEF Bijection, Injection, IsInjective, Surjection
<1> HIDE DEF g
<1> QED
  BY <1>1, FS_Bijection DEF ExistsBijection

LEMMA UsedShape ==
  ASSUME NEW o, Tiling(o)
  PROVE  /\ \A u \in UsedOf(o) : /\ u \in Units /\ u \in Nat /\ u < Zone /\ o[u] # 0 /\ o[u] \in 1 .. Zone
                                 /\ Size(o, u) = o[u] /\ u + o[u] <= Zone
         /\ \A p \in UsedAt(o) : /\ p[1] \in UsedOf(o) /\ p[2] = o[p[1]] /\ p = <<p[1], o[p[1]]>>
                                 /\ Pool!End(p) = p[1] + o[p[1]]
         /\ \A u \in UsedOf(o) : <<u, o[u]>> \in UsedAt(o) /\ Pool!End(<<u, o[u]>>) = u + o[u]
<1>1. ASSUME NEW u \in UsedOf(o)
      PROVE  /\ u \in Units /\ u \in Nat /\ u < Zone /\ o[u] # 0 /\ o[u] \in 1 .. Zone
             /\ Size(o, u) = o[u] /\ u + o[u] <= Zone
  <2>1. u \in Units /\ o[u] > 0 /\ Zone \in Nat
    BY ConstantsType DEF UsedOf
  <2>2. o[u] \in -Zone .. Zone
    BY <2>1 DEF Tiling
  <2>3. o[u] # 0 /\ o[u] \in 1 .. Zone /\ Size(o, u) = o[u]
    BY <2>1, <2>2 DEF Size
  <2>4. u \in Nat /\ u < Zone
    BY <2>1 DEF Units
  <2> QED
    BY <2>1, <2>3, <2>4, TileShape
<1>2. ASSUME NEW p \in UsedAt(o)
      PROVE  /\ p[1] \in UsedOf(o) /\ p[2] = o[p[1]] /\ p = <<p[1], o[p[1]]>>
             /\ Pool!End(p) = p[1] + o[p[1]]
  <2>1. PICK u \in UsedOf(o) : p = <<u, o[u]>>
    BY DEF UsedAt
  <2> QED
    BY <2>1 DEF Pool!End
<1>3. ASSUME NEW u \in UsedOf(o)
      PROVE  <<u, o[u]>> \in UsedAt(o) /\ Pool!End(<<u, o[u]>>) = u + o[u]
  BY DEF UsedAt, Pool!End
<1> QED
  BY <1>1, <1>2, <1>3

(* What the free blocks of a pool leave no room for is a gap.              *)
LEMMA GapsAre ==
  ASSUME NEW o, Tiling(o), Coalesced(o)
  PROVE  Pool!Gaps(UsedAt(o)) = BlocksAt(o, {x \in Units : o[x] < 0})
<1> DEFINE U == UsedOf(o)
           F == {x \in Units : o[x] < 0}
           S == UsedAt(o)
<1>1. Zone \in Nat /\ Zone >= 2 /\ MinBlock = 2 /\ Units = 0 .. Zone - 1 /\ \A x \in Units : o[x] \in Int
  BY ConstantsType DEF Units, Tiling
<1>2. \A a \in F : /\ a \in Units /\ a \in Nat /\ o[a] # 0 /\ Size(o, a) \in 2 .. Zone
                   /\ a + Size(o, a) <= Zone /\ ~(o[a] > 0)
  <2> SUFFICES ASSUME NEW a \in F
               PROVE  /\ a \in Units /\ a \in Nat /\ o[a] # 0 /\ Size(o, a) \in 2 .. Zone
                      /\ a + Size(o, a) <= Zone /\ ~(o[a] > 0)
    OBVIOUS
  <2>1. a \in Units /\ o[a] # 0 /\ ~(o[a] > 0)
    BY <1>1
  <2> QED
    BY <2>1, <1>1, TileShape
<1>3. /\ \A u \in U : /\ u \in Units /\ u \in Nat /\ u < Zone /\ o[u] # 0 /\ o[u] \in 1 .. Zone
                      /\ Size(o, u) = o[u] /\ u + o[u] <= Zone
      /\ \A p \in S : p[1] \in U /\ Pool!End(p) = p[1] + o[p[1]]
      /\ \A u \in U : /\ <<u, o[u]>> \in S /\ <<u, o[u]>>[1] = u
                      /\ Pool!End(<<u, o[u]>>) = u + o[u]
  BY UsedShape
<1>4. \A u \in U, a \in F : u # a /\ (u + o[u] <= a \/ a + Size(o, a) <= u)
  <2> SUFFICES ASSUME NEW u \in U, NEW a \in F
               PROVE  u # a /\ (u + o[u] <= a \/ a + Size(o, a) <= u)
    OBVIOUS
  <2>1. u # a
    BY <1>2, <1>3 DEF UsedOf
  <2>2. u \in Nat /\ a \in Nat /\ o[u] # 0 /\ o[a] # 0 /\ u \in Units /\ a \in Units /\ Size(o, u) = o[u]
    BY <1>2, <1>3
  <2>3. u < a \/ a < u
    BY <2>1, <2>2
  <2> QED
    BY <2>1, <2>2, <2>3, BlocksApart
<1> HIDE DEF U, S, F
<1>5. ASSUME NEW a \in F
      PROVE  <<a, Size(o, a)>> \in Pool!Gaps(S)
  <2>1. PICK g : g = <<a, Size(o, a)>>
    OBVIOUS
  <2>2. g[1] = a /\ g[2] = Size(o, a) /\ Pool!End(g) = a + Size(o, a)
    BY <2>1 DEF Pool!End
  <2>3. g \in Pool!Blocks
    <3>1. a \in 0 .. Zone - 1 /\ Size(o, a) \in 1 .. Zone
      BY <1>1, <1>2
    <3> QED
      BY <3>1, <2>1 DEF Pool!Blocks
  <2>4. /\ a = 0 \/ \E x \in U : x + o[x] = a
        /\ a + Size(o, a) = Zone \/ a + Size(o, a) \in U
    BY DEF Coalesced, F, U
  <2>5. g[1] = 0 \/ \E b \in S : Pool!End(b) = g[1]
    <3>1. CASE a = 0
      BY <3>1, <2>2
    <3>2. ASSUME NEW x \in U, x + o[x] = a
          PROVE  \E b \in S : Pool!End(b) = a
      <4>1. <<x, o[x]>> \in S /\ Pool!End(<<x, o[x]>>) = a
        BY <3>2, <1>3
      <4> QED
        BY <4>1
    <3> QED
      BY <3>1, <3>2, <2>2, <2>4
  <2>6. Pool!End(g) = Zone \/ \E b \in S : b[1] = Pool!End(g)
    BY <2>2, <2>4, <1>3
  <2>7. \A b \in S : Pool!End(b) <= g[1] \/ Pool!End(g) <= b[1]
    BY <2>2, <1>3, <1>4
  <2> QED
    BY <2>1, <2>3, <2>5, <2>6, <2>7 DEF Pool!Gaps
<1>6. ASSUME NEW g \in Pool!Gaps(S)
      PROVE  g[1] \in F /\ g = <<g[1], Size(o, g[1])>>
  <2>1. /\ g \in Pool!Blocks
        /\ g[1] = 0 \/ \E b \in S : Pool!End(b) = g[1]
        /\ Pool!End(g) = Zone \/ \E b \in S : b[1] = Pool!End(g)
        /\ \A b \in S : Pool!End(b) <= g[1] \/ Pool!End(g) <= b[1]
    BY DEF Pool!Gaps
  <2>2. PICK a, n : g = <<a, n>> /\ a \in 0 .. Zone - 1 /\ n \in 1 .. Zone /\ g[1] = a /\ g[2] = n
    BY <2>1 DEF Pool!Blocks
  <2>3. PICK e : e = a + n /\ e \in Nat /\ e > a /\ Pool!End(g) = e
    BY <2>2, <1>1 DEF Pool!End
  <2>4. a \in Nat /\ a \in Units
    BY <2>2, <1>1
  <2>5. \A u \in U : u + o[u] <= a \/ e <= u
    BY <2>1, <2>2, <2>3, <1>3
  <2>6. o[a] # 0
    <3>1. CASE a = 0
      BY <3>1 DEF Tiling
    <3>2. CASE a # 0
      <4>1. PICK b \in S : Pool!End(b) = a
        BY <3>2, <2>1, <2>2
      <4>2. PICK u \in U : u + o[u] = a
        BY <4>1, <1>3
      <4>3. u \in Units /\ o[u] # 0 /\ u + Size(o, u) = a
        BY <4>2, <1>3
      <4>4. a # Zone
        BY <2>2, <1>1
      <4> QED
        BY <4>3, <4>4 DEF Tiling
    <3> QED
      BY <3>1, <3>2
  <2>7. ~(o[a] > 0)
    <3> SUFFICES ASSUME o[a] > 0 PROVE FALSE
      OBVIOUS
    <3>1. a \in U
      BY <2>4 DEF U, UsedOf
    <3>2. o[a] \in 1 .. Zone
      BY <3>1, <1>3
    <3> QED
      BY <3>1, <3>2, <2>3, <2>4, <2>5
  <2>8. a \in F
    BY <2>4, <2>6, <2>7, <1>1 DEF F
  <2>9. PICK z \in Nat : z = a + Size(o, a) /\ z > a /\ z <= Zone
    BY <2>8, <1>1, <1>2
  <2>10. z = Zone \/ z \in U
    BY <2>8, <2>9 DEF Coalesced, F, U
  <2>11. e = Zone \/ e \in U
    BY <2>1, <2>3, <1>3
  <2>12. ~(z < e)
    <3> SUFFICES ASSUME z < e PROVE FALSE
      OBVIOUS
    <3>1. z # Zone
      BY <2>11, <2>9, <1>1, <1>3
    <3>2. z \in U /\ o[z] \in 1 .. Zone
      BY <3>1, <2>10, <1>3
    <3> QED
      BY <3>2, <2>3, <2>4, <2>5, <2>9
  <2>13. ~(e < z)
    <3> SUFFICES ASSUME e < z PROVE FALSE
      OBVIOUS
    <3>1. e \in U
      BY <2>9, <2>11, <1>1
    <3>2. e \in Units /\ o[e] # 0
      BY <3>1, <1>3
    <3>3. o[e] = 0
      BY <3>2, <2>3, <2>4, <2>6, <2>9 DEF Tiling
    <3> QED
      BY <3>2, <3>3
  <2>14. e = z
    BY <2>3, <2>9, <2>12, <2>13
  <2>15. n = Size(o, a)
    <3>1. Size(o, a) \in 2 .. Zone
      BY <2>8, <1>2
    <3> QED
      BY <3>1, <2>2, <2>3, <2>4, <2>9, <2>14, <1>1
  <2> QED
    BY <2>2, <2>8, <2>15
<1> QED
  BY <1>5, <1>6 DEF BlocksAt, F, S

(* BlockPool counts with the operator counted with here.                   *)
LEMMA SameCardinality == \A S : Pool!Cardinality(S) = Cardinality(S)
  BY DEF Pool!Cardinality, Cardinality

LEMMA UsedCounts ==
  ASSUME NEW o, Tiling(o)
  PROVE  /\ IsFiniteSet(UsedOf(o))
         /\ Cardinality(UsedAt(o)) = Cardinality(UsedOf(o))
         /\ \A u \in UsedOf(o) :
              Pool!Before(<<u, o[u]>>, UsedAt(o)) = Cardinality(Below(UsedOf(o), u))
<1> DEFINE U == UsedOf(o)
           S == UsedAt(o)
           f == [u \in U |-> <<u, o[u]>>]
<1>1. IsFiniteSet(U)
  <2>1. U \in SUBSET Units
    BY DEF UsedOf
  <2> QED
    BY <2>1, UnitsFinite, FS_Subset
<1>2. /\ \A u \in U : f[u] \in S /\ f[u][1] = u
      /\ \A p \in S : p[1] \in U /\ p = f[p[1]]
  <2>1. \A u \in U : f[u] = <<u, o[u]>> /\ f[u] \in S
    BY DEF UsedAt
  <2>2. \A u \in U : f[u][1] = u
    OBVIOUS
  <2>3. \A p \in S : \E u \in U : p = f[u]
    BY DEF UsedAt
  <2> HIDE DEF f, S, U
  <2> QED
    BY <2>1, <2>2, <2>3
<1>3. \A u \in U : f[u] = <<u, o[u]>>
  OBVIOUS
<1> HIDE DEF U, S, f
<1>4. \A x, y \in U : f[x] = f[y] => x = y
  BY <1>2
<1>5. \A r \in S : \E x \in U : f[x] = r
  BY <1>2
<1>6. Cardinality(S) = Cardinality(U)
  BY <1>1, <1>2, <1>4, <1>5, SameCount
<1>7. ASSUME NEW u \in U
      PROVE  Pool!Before(<<u, o[u]>>, S) = Cardinality(Below(U, u))
  <2>1. PICK A : A = Below(U, u)
    OBVIOUS
  <2>2. PICK R : R = {c \in S : c[1] < u}
    OBVIOUS
  <2>3. A = {x \in U : x < u}
    BY <2>1 DEF Below
  <2>4. IsFiniteSet(A)
    <3>1. A \in SUBSET U
      BY <2>3
    <3> QED
      BY <3>1, <1>1, FS_Subset
  <2>5. \A x \in A : f[x] \in R
    BY <2>2, <2>3, <1>2
  <2>6. \A x, y \in A : f[x] = f[y] => x = y
    BY <2>3, <1>4
  <2>7. \A r \in R : \E x \in A : f[x] = r
    BY <2>2, <2>3, <1>2
  <2>8. Cardinality(R) = Cardinality(A)
    BY <2>4, <2>5, <2>6, <2>7, SameCount
  <2>9. Pool!Before(<<u, o[u]>>, S) = Cardinality(R)
    BY <2>2, SameCardinality DEF Pool!Before
  <2> QED
    BY <2>1, <2>8, <2>9
<1> QED
  BY <1>1, <1>6, <1>7 DEF U, S

LEMMA CompactRepacks ==
  ASSUME BinsInvariant, BinsInvariant', NEW k \in 1 .. Zone, Compact(k)
  PROVE  Pool!Repack
<1>1. PICK P, T : Compacts(P, T)
  BY CompactMeans
<1>2. PICK o : o = own
  OBVIOUS
<1>3. PICK o2 : o2 = own'
  OBVIOUS
<1>4. /\ Packed(o, P, T) /\ LaidOut(o, T, o2)
      /\ todo' = Holes(EndsAt(o, T), HeadsAt(o, T)) /\ todo = {}
  <2>1. todo = {}
    BY DEF Compact
  <2> QED
    BY <2>1, <1>1, <1>2, <1>3, Zenon DEF Compacts
<1>5. Tiling(o)
  BY <1>2 DEF BinsInvariant
<1>6. Spaced(o, T) /\ \A u \in UsedOf(o) : T[u] <= u
  BY <1>4, <1>5, PackedSpaced
<1>7. /\ Tiling(o2) /\ Placed(o, T, o2) /\ Coalesced(o2)
      /\ todo' = {x \in Units : o2[x] < 0}
  BY <1>4, <1>5, <1>6, LayoutTiles
<1>8. FreeBlocks' = todo'
  BY <1>3, <1>7 DEF FreeBlocks, IsFree
<1>9. /\ InUse = UsedAt(o) /\ InUse' = UsedAt(o2)
      /\ Indexed' = BlocksAt(o2, {}) /\ Unlisted' = BlocksAt(o2, {x \in Units : o2[x] < 0})
      /\ Unlisted = {}
  <2>1. InUse = UsedAt(own) /\ Unlisted = BlocksAt(own, todo)
    BY PoolIs DEF PoolView
  <2>2. /\ InUse' = UsedAt(own') /\ Unlisted' = BlocksAt(own', todo')
        /\ Indexed' = BlocksAt(own', FreeBlocks' \ todo')
    BY PoolIsNext DEF PoolView
  <2>3. FreeBlocks' \ todo' = {}
    BY <1>8
  <2>4. Unlisted = {}
    BY <2>1, <1>4 DEF BlocksAt
  <2> QED
    BY <2>1, <2>2, <2>3, <2>4, <1>2, <1>3, <1>7
<1>10. Indexed' = {} /\ Unlisted' = Pool!Gaps(UsedAt(o2))
  <2>1. BlocksAt(o2, {}) = {}
    BY DEF BlocksAt
  <2>2. Pool!Gaps(UsedAt(o2)) = BlocksAt(o2, {x \in Units : o2[x] < 0})
    BY <1>7, GapsAre
  <2> QED
    BY <2>1, <2>2, <1>9
(* The used blocks after the step.                                         *)
<1>11. PICK U, U2 : U = UsedOf(o) /\ U2 = UsedOf(o2)
  OBVIOUS
<1>12. /\ \A u \in U : /\ u \in Units /\ u \in Nat /\ o[u] \in 1 .. Zone /\ T[u] \in Nat
                       /\ T[u] \in U2 /\ o2[T[u]] = o[u] /\ T[u] <= u
       /\ \A x \in U2 : \E u \in U : x = T[u]
       /\ \A u, v \in U : u < v => T[u] + o[u] <= T[v]
  <2>1. /\ \A u \in U : T[u] \in Units /\ o2[T[u]] = o[u]
        /\ \A x \in U2 : \E u \in U : x = T[u]
    BY <1>7, <1>11 DEF Placed
  <2>2. \A u \in U : u \in Units /\ u \in Nat /\ o[u] \in 1 .. Zone
    BY <1>5, <1>11, UsedShape
  <2>3. \A u \in U : T[u] \in U2
    BY <2>1, <2>2, <1>11, ConstantsType DEF UsedOf
  <2>4. T \in [U -> Nat] /\ \A u, v \in U : u < v => T[u] + o[u] <= T[v]
    BY <1>6, <1>11 DEF Spaced
  <2> QED
    BY <2>1, <2>2, <2>3, <2>4, <1>6, <1>11
<1>13. \A u, v \in U : T[u] < T[v] <=> u < v
  <2> SUFFICES ASSUME NEW u \in U, NEW v \in U PROVE T[u] < T[v] <=> u < v
    OBVIOUS
  <2>1. /\ u \in Nat /\ v \in Nat /\ T[u] \in Nat /\ T[v] \in Nat /\ o[u] \in 1 .. Zone /\ o[v] \in 1 .. Zone
        /\ u < v => T[u] + o[u] <= T[v]
        /\ v < u => T[v] + o[v] <= T[u]
    BY <1>12
  <2> QED
    BY <2>1, ConstantsType
<1>14. \A u, v \in U : T[u] = T[v] => u = v
  <2> SUFFICES ASSUME NEW u \in U, NEW v \in U, T[u] = T[v] PROVE u = v
    OBVIOUS
  <2>1. u \in Nat /\ v \in Nat /\ T[u] \in Nat /\ T[v] \in Nat /\ ~(u < v) /\ ~(v < u)
    BY <1>12, <1>13
  <2> QED
    BY <2>1
<1>15. /\ IsFiniteSet(U) /\ Cardinality(UsedAt(o)) = Cardinality(U)
       /\ Cardinality(UsedAt(o2)) = Cardinality(U2)
       /\ \A u \in U : Pool!Before(<<u, o[u]>>, UsedAt(o)) = Cardinality(Below(U, u))
       /\ \A x \in U2 : Pool!Before(<<x, o2[x]>>, UsedAt(o2)) = Cardinality(Below(U2, x))
  BY <1>5, <1>7, <1>11, UsedCounts
<1>16. Cardinality(InUse') = Cardinality(InUse)
  <2>1. Cardinality(U2) = Cardinality(U)
    <3>1. \A u \in U : T[u] \in U2
      BY <1>12
    <3>2. \A x \in U2 : \E u \in U : T[u] = x
      BY <1>12
    <3> QED
      BY <3>1, <3>2, <1>14, <1>15, SameCount
  <2> QED
    BY <2>1, <1>9, <1>15
<1>17. ASSUME NEW u \in U
       PROVE  Cardinality(Below(U2, T[u])) = Cardinality(Below(U, u))
  <2>1. PICK A, B : A = Below(U, u) /\ B = Below(U2, T[u])
    OBVIOUS
  <2>2. A = {x \in U : x < u} /\ B = {x \in U2 : x < T[u]}
    BY <2>1 DEF Below
  <2>3. IsFiniteSet(A)
    <3>1. A \in SUBSET U
      BY <2>2
    <3> QED
      BY <3>1, <1>15, FS_Subset
  <2>4. \A x \in A : T[x] \in B
    BY <2>2, <1>12, <1>13
  <2>5. \A x, y \in A : T[x] = T[y] => x = y
    BY <2>2, <1>14
  <2>6. \A r \in B : \E x \in A : T[x] = r
    BY <2>2, <1>12, <1>13
  <2>7. Cardinality(B) = Cardinality(A)
    BY <2>3, <2>4, <2>5, <2>6, SameCount
  <2> QED
    BY <2>1, <2>7
<1>18. ASSUME NEW b \in InUse
       PROVE  \E c \in InUse' : c[2] = b[2] /\ c[1] <= b[1]
                                /\ Pool!Before(c, InUse') = Pool!Before(b, InUse)
  <2>1. PICK u \in U : b = <<u, o[u]>>
    BY <1>9, <1>11 DEF UsedAt
  <2>2. T[u] \in U2 /\ o2[T[u]] = o[u] /\ T[u] <= u
    BY <1>12
  <2>3. PICK c : c = <<T[u], o2[T[u]]>>
    OBVIOUS
  <2>4. c \in UsedAt(o2)
    BY <2>2, <2>3, <1>11 DEF UsedAt
  <2>5. c[2] = b[2] /\ c[1] <= b[1]
    BY <2>1, <2>2, <2>3
  <2>6. Pool!Before(c, UsedAt(o2)) = Pool!Before(b, UsedAt(o))
    <3>1. Pool!Before(c, UsedAt(o2)) = Cardinality(Below(U2, T[u]))
      BY <2>2, <2>3, <1>15
    <3>2. Pool!Before(b, UsedAt(o)) = Cardinality(Below(U, u))
      BY <2>1, <1>15
    <3> QED
      BY <3>1, <3>2, <1>17
  <2> QED
    BY <2>4, <2>5, <2>6, <1>9
<1>19. InUse' \subseteq Pool!Blocks /\ Pool!Apart(InUse')
  <2>1. /\ \A x \in U2 : /\ x \in Units /\ x \in Nat /\ x < Zone /\ o2[x] # 0 /\ o2[x] \in 1 .. Zone
                         /\ Size(o2, x) = o2[x]
        /\ \A p \in UsedAt(o2) : /\ p[1] \in U2 /\ p = <<p[1], o2[p[1]]>>
                                 /\ Pool!End(p) = p[1] + o2[p[1]]
    BY <1>7, <1>11, UsedShape
  <2>2. UsedAt(o2) \subseteq Pool!Blocks
    <3>1. \A x \in U2 : x \in 0 .. Zone - 1
      BY <2>1, ConstantsType
    <3>2. \A x \in U2 : <<x, o2[x]>> \in Pool!Blocks
      BY <2>1, <3>1 DEF Pool!Blocks
    <3> QED
      BY <2>1, <3>2
  <2>3. ASSUME NEW b \in UsedAt(o2), NEW c \in UsedAt(o2), b # c
        PROVE  Pool!End(b) <= c[1] \/ Pool!End(c) <= b[1]
    <3>1. PICK x \in U2, y \in U2 :
            b[1] = x /\ c[1] = y /\ b = <<x, o2[x]>> /\ c = <<y, o2[y]>>
            /\ Pool!End(b) = x + o2[x] /\ Pool!End(c) = y + o2[y]
      BY <2>1
    <3>2. x # y
      BY <3>1, <2>3
    <3>3. /\ x \in Units /\ y \in Units /\ x \in Nat /\ y \in Nat /\ o2[x] # 0 /\ o2[y] # 0
          /\ Size(o2, x) = o2[x] /\ Size(o2, y) = o2[y]
      BY <2>1
    <3>4. x < y \/ y < x
      BY <3>2, <3>3
    <3>5. x + Size(o2, x) <= y \/ y + Size(o2, y) <= x
      BY <3>3, <3>4, <1>7, BlocksApart
    <3> QED
      BY <3>1, <3>3, <3>5
  <2>4. Pool!Apart(UsedAt(o2))
    BY <2>3 DEF Pool!Apart
  <2> QED
    BY <2>2, <2>4, <1>9
<1>20. Unlisted' = Pool!Gaps(InUse')
  BY <1>9, <1>10
<1> QED
  BY <1>9, <1>10, <1>16, <1>18, <1>19, <1>20, SameCardinality DEF Pool!Repack

(* Every step of the index is a step of BlockPool.                         *)
LEMMA StepPool ==
  BinsInvariant /\ BinsInvariant' /\ [Next]_vars => [Pool!PoolNext]_(Pool!poolVars)
<1> SUFFICES ASSUME BinsInvariant, BinsInvariant', [Next]_vars
             PROVE  [Pool!PoolNext]_(Pool!poolVars)
  OBVIOUS
<1>1. ASSUME NEW need \in MinBlock .. Zone, Alloc(need)
      PROVE  Pool!PoolNext
  <2>1. Pool!Take(need)
    BY <1>1, AllocTakes
  <2> QED
    BY <2>1 DEF Pool!PoolNext
<1>2. ASSUME NEW u \in Units, Free(u)
      PROVE  Pool!PoolNext
  <2>1. \E b \in InUse : Pool!Give(b)
    BY <1>2, FreeGives
  <2> QED
    BY <2>1 DEF Pool!PoolNext
<1>3. ASSUME NEW k \in 1 .. Zone, Compact(k)
      PROVE  Pool!PoolNext
  <2>1. Pool!Repack
    BY <1>3, CompactRepacks
  <2> QED
    BY <2>1 DEF Pool!PoolNext
<1>4. ASSUME InsertHole
      PROVE  Pool!PoolNext
  <2>1. \E b \in Unlisted : Pool!List(b)
    BY <1>4, InsertHoleLists
  <2> QED
    BY <2>1 DEF Pool!PoolNext
<1>5. ASSUME UNCHANGED vars
      PROVE  UNCHANGED Pool!poolVars
  <2>1. own' = own /\ bins' = bins /\ todo' = todo
    BY <1>5 DEF vars
  <2>2. FreeBlocks' = FreeBlocks
    BY <2>1 DEF FreeBlocks, IsFree
  <2>3. InUse' = InUse /\ Indexed' = Indexed /\ Unlisted' = Unlisted
    BY <2>1, <2>2, PoolIs, PoolIsNext DEF PoolView
  <2> QED
    BY <2>3 DEF Pool!poolVars
<1> QED
  BY <1>1, <1>2, <1>3, <1>4, <1>5 DEF Next

(* Read along its lists, the index is a set of blocks: the words, the      *)
(* bitmaps and the order of the lists implement BlockPool.                 *)
THEOREM BinsRefine == Spec => ImplementsBlockPool
<1>1. BinsInvariant /\ BinsInvariant' /\ [Next]_vars => [Pool!PoolNext]_(Pool!poolVars)
  BY StepPool
<1>2. Init => Pool!PoolInit
  BY InitPool
<1> QED
  BY <1>1, <1>2, BinsInductive, PTL DEF Spec, ImplementsBlockPool, Pool!PoolSpec

=============================================================================
