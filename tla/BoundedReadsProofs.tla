------------------------- MODULE BoundedReadsProofs -------------------------
(***************************************************************************)
(* What TLAPS proves of BoundedReads, for any store, any requests and any  *)
(* budgets: the session's deadline holds, every answer encodes, and a      *)
(* search returns exactly the best of what it scanned.                     *)
(***************************************************************************)
EXTENDS BoundedReads, FiniteSetTheorems, SequenceTheorems, WellFoundedInduction, TLAPS

-----------------------------------------------------------------------------
(* Numbers and recursion. *)

\* The larger and the smaller of two numbers.
LEMMA MaxMin ==
    ASSUME NEW a \in Int, NEW b \in Int
    PROVE  /\ Max({a, b}) = IF a >= b THEN a ELSE b
           /\ Min({a, b}) = IF a <= b THEN a ELSE b
<1>1. Max({a, b}) \in {a, b} /\ Max({a, b}) >= a /\ Max({a, b}) >= b
  <2>1. \E x \in {a, b} : \A y \in {a, b} : x >= y
    OBVIOUS
  <2>. QED BY <2>1 DEF Max
<1>2. Min({a, b}) \in {a, b} /\ Min({a, b}) <= a /\ Min({a, b}) <= b
  <2>1. \E x \in {a, b} : \A y \in {a, b} : x <= y
    OBVIOUS
  <2>. QED BY <2>1 DEF Min
<1>. QED BY <1>1, <1>2

\* Every nonempty set of naturals has a least element.
LEMMA LeastNat ==
    ASSUME NEW T, T \subseteq Nat, T # {}
    PROVE  \E x \in T : \A y \in T : x <= y
<1>1. PICK x \in T : \A y \in T : ~(<<y, x>> \in OpToRel(<, Nat))
  BY NatLessThanWellFounded, WFMin
<1>2. \A y \in T : y < x => <<y, x>> \in OpToRel(<, Nat)
  BY DEF OpToRel
<1>3. \A y \in T : ~(y < x)
  BY <1>1, <1>2
<1>. QED BY <1>3

\* A function on 0..m whose value at n follows from the one at n - 1.
Iterates(f, m, start, step) ==
    f = [n \in 0..m |-> IF n = 0 THEN start ELSE step[<<n, f[n - 1]>>]]

\* It exists, and its values are of the kind the step yields.
LEMMA IteratesExist ==
    ASSUME NEW V, NEW start \in V, NEW step \in [Nat \X V -> V], NEW m \in Nat
    PROVE  \E f \in [0..m -> V] : Iterates(f, m, start, step)
<1> DEFINE Bad == {k \in Nat : ~\E f \in [0..k -> V] : Iterates(f, k, start, step)}
<1> SUFFICES ASSUME Bad # {} PROVE FALSE
  OBVIOUS
<1>1. PICK k \in Bad : \A y \in Bad : k <= y
  <2>1. Bad \subseteq Nat
    OBVIOUS
  <2> HIDE DEF Bad
  <2>. QED BY <2>1, LeastNat
<1>2. k # 0
  <2> DEFINE f == [n \in 0..0 |-> start]
  <2>1. f \in [0..0 -> V] /\ Iterates(f, 0, start, step)
    BY DEF Iterates
  <2>. QED BY <2>1
<1>3. k - 1 \in Nat /\ k - 1 \notin Bad
  <2>1. k \in Nat
    OBVIOUS
  <2>2. k - 1 \in Nat /\ ~(k <= k - 1)
    BY <1>2, <2>1
  <2> HIDE DEF Bad
  <2>. QED BY <1>1, <2>2
<1>4. PICK f \in [0..(k - 1) -> V] : Iterates(f, k - 1, start, step)
  BY <1>3
<1> DEFINE h == [n \in 0..k |-> IF n = k THEN step[<<k, f[k - 1]>>] ELSE f[n]]
<1>5. step[<<k, f[k - 1]>>] \in V
  BY <1>2, <1>3
<1>6. h \in [0..k -> V]
  BY <1>3, <1>5
<1>7. Iterates(h, k, start, step)
  <2>1. ASSUME NEW n \in 0..k
        PROVE  h[n] = IF n = 0 THEN start ELSE step[<<n, h[n - 1]>>]
    <3>1. CASE n = k
      <4>1. n # 0 /\ n - 1 \in 0..k /\ n - 1 # k
        BY <1>2, <1>3, <3>1
      <4>2. h[n - 1] = f[n - 1]
        BY <4>1
      <4>3. h[n] = step[<<k, f[k - 1]>>]
        BY <3>1
      <4>. QED BY <3>1, <4>1, <4>2, <4>3
    <3>2. CASE n # k /\ n = 0
      BY <1>2, <1>3, <1>4, <3>2 DEF Iterates
    <3>3. CASE n # k /\ n # 0
      <4>1. n \in 0..(k - 1) /\ n - 1 \in 0..k /\ n - 1 # k
        BY <1>3, <3>3
      <4>2. f[n] = step[<<n, f[n - 1]>>]
        BY <1>4, <3>3, <4>1 DEF Iterates
      <4>. QED BY <3>3, <4>1, <4>2
    <3>. QED BY <3>1, <3>2, <3>3
  <2>. QED BY <2>1 DEF Iterates
<1>. QED BY <1>6, <1>7

-----------------------------------------------------------------------------
(* Ranking. *)

\* A finite store of items with ids of their own and comparable scores.
Ordered(S) ==
    /\ IsFiniteSet(S)
    /\ \A x, y \in S : x.id \in Int /\ x.score \in Int /\ (x.id = y.id => x = y)

\* The items of h that rank before x.
Above(h, x) == {y \in h : Before(y, x)}

\* h holds the best k items of S, or all if there are fewer.
IsTop(h, S, k) ==
    /\ h \subseteq S /\ Cardinality(h) <= k
    /\ h = S \/ Cardinality(h) = k
    /\ \A x \in h, y \in S \ h : Before(x, y)

\* ranked_cmp is a strict total order on a store.
LEMMA TotalOrder ==
    ASSUME NEW S, Ordered(S)
    PROVE  \A x, y, z \in S :
             /\ ~(Before(x, y) /\ Before(y, x))
             /\ Before(x, y) /\ Before(y, z) => Before(x, z)
             /\ x = y \/ Before(x, y) \/ Before(y, x)
BY DEF Ordered, Before

\* Subsets of a store are stores.
LEMMA OrderedSubset ==
    ASSUME NEW S, Ordered(S), NEW h, h \subseteq S
    PROVE  Ordered(h) /\ IsFiniteSet(h) /\ Cardinality(h) \in Nat /\ Cardinality(h) <= Cardinality(S)
<1>1. IsFiniteSet(h) /\ Cardinality(h) <= Cardinality(S)
  BY FS_Subset DEF Ordered
<1>2. Cardinality(h) \in Nat
  BY <1>1, FS_CardinalityType
<1>. QED BY <1>1, <1>2 DEF Ordered

\* Of two items the better one has fewer items before it.
LEMMA RankGrows ==
    ASSUME NEW S, Ordered(S), NEW x \in S, NEW y \in S, Before(x, y)
    PROVE  /\ Cardinality(Above(S, x)) \in Nat /\ Cardinality(Above(S, y)) \in Nat
           /\ Cardinality(Above(S, x)) < Cardinality(Above(S, y))
<1>1. Above(S, x) \subseteq Above(S, y) /\ x \in Above(S, y) /\ x \notin Above(S, x)
  BY TotalOrder DEF Above
<1>2. Above(S, y) \subseteq S
  BY DEF Above
<1>3. IsFiniteSet(Above(S, y)) /\ Cardinality(Above(S, y)) \in Nat
  BY <1>2, OrderedSubset
<1>4. /\ Cardinality(Above(S, x)) \in Nat
      /\ Cardinality(Above(S, x)) <= Cardinality(Above(S, y))
      /\ Cardinality(Above(S, x)) # Cardinality(Above(S, y))
  BY <1>1, <1>3, FS_Subset, FS_CardinalityType
<1>. QED BY <1>3, <1>4

\* So no two items have the same rank.
LEMMA RankInjective ==
    ASSUME NEW S, Ordered(S), NEW x \in S, NEW y \in S,
           Cardinality(Above(S, x)) = Cardinality(Above(S, y))
    PROVE  x = y
<1>1. CASE Before(x, y)
  BY <1>1, RankGrows
<1>2. CASE Before(y, x)
  BY <1>2, RankGrows
<1>. QED BY <1>1, <1>2, TotalOrder

\* And every rank below the number of items is taken.
LEMMA RankOnto ==
    ASSUME NEW S, Ordered(S), NEW j \in Nat, j < Cardinality(S)
    PROVE  \E x \in S : Cardinality(Above(S, x)) = j
<1> DEFINE n == Cardinality(S)
           f == [x \in S |-> Cardinality(Above(S, x))]
<1>1. IsFiniteSet(S) /\ n \in Nat
  BY OrderedSubset
<1>2. IsFiniteSet(0..(n - 1)) /\ Cardinality(0..(n - 1)) = n
  <2>1. 0 \in Int /\ n - 1 \in Int
    BY <1>1
  <2> HIDE DEF n
  <2>2. /\ IsFiniteSet(0..(n - 1))
        /\ Cardinality(0..(n - 1)) = IF 0 > n - 1 THEN 0 ELSE (n - 1) - 0 + 1
    BY <2>1, FS_Interval
  <2>. QED BY <1>1, <2>2
<1>3. ASSUME NEW x \in S
      PROVE  Cardinality(Above(S, x)) \in 0..(n - 1)
  <2>1. Above(S, x) \subseteq S \ {x} /\ S \ {x} \subseteq S
    BY TotalOrder DEF Above
  <2>2. Ordered(S \ {x}) /\ Cardinality(S \ {x}) = n - 1
    BY <1>1, <2>1, OrderedSubset, FS_RemoveElement
  <2>3. Cardinality(Above(S, x)) \in Nat /\ Cardinality(Above(S, x)) <= n - 1
    BY <2>1, <2>2, OrderedSubset
  <2>. QED BY <1>1, <2>3
<1>4. f \in Injection(S, 0..(n - 1))
  BY <1>3, RankInjective DEF Injection, IsInjective
<1>5. f \in Surjection(S, 0..(n - 1))
  BY <1>2, <1>4, FS_Injection
<1>6. j \in 0..(n - 1)
  BY <1>1
<1>. QED BY <1>5, <1>6 DEF Surjection

\* A heap that is not empty has a worst item.
LEMMA WorstIs ==
    ASSUME NEW S, Ordered(S), S # {}
    PROVE  /\ Worst(S) \in S
           /\ \A y \in S : y # Worst(S) => Before(y, Worst(S))
<1>1. IsFiniteSet(S) /\ Cardinality(S) \in Nat /\ Cardinality(S) # 0
  BY OrderedSubset, FS_EmptySet
<1>2. PICK x \in S : Cardinality(Above(S, x)) = Cardinality(S) - 1
  BY <1>1, RankOnto
<1>3. Above(S, x) \subseteq S \ {x} /\ S \ {x} \subseteq S
  BY TotalOrder DEF Above
<1>4. IsFiniteSet(S \ {x}) /\ Cardinality(S \ {x}) = Cardinality(S) - 1
  BY <1>1, FS_RemoveElement
<1>5. Above(S, x) = S \ {x}
  BY <1>2, <1>3, <1>4, FS_Subset
<1>6. \A y \in S : ~Before(x, y)
  BY <1>5, TotalOrder DEF Above
<1>7. Worst(S) \in S /\ \A y \in S : ~Before(Worst(S), y)
  BY <1>6 DEF Worst
<1>. QED BY <1>7, TotalOrder

\* Meeting one more item keeps the best.
LEMMA RetainTop ==
    ASSUME NEW U, Ordered(U), NEW S, S \subseteq U, NEW x \in U, x \notin S,
           NEW h, NEW k \in Nat, IsTop(h, S, k)
    PROVE  IsTop(Retain(h, x, k), S \union {x}, k)
<1>1. /\ h \subseteq U /\ Ordered(h) /\ IsFiniteSet(h) /\ Cardinality(h) \in Nat
      /\ x \notin h /\ h \subseteq S
  BY OrderedSubset DEF IsTop
<1>2. CASE k = 0
  <2>1. Cardinality(h) = 0 /\ Retain(h, x, k) = h
    BY <1>1, <1>2 DEF IsTop, Retain
  <2>2. h = {}
    BY <1>1, <2>1, FS_EmptySet
  <2>. QED BY <1>2, <2>1, <2>2 DEF IsTop
<1>3. CASE k # 0 /\ Cardinality(h) < k
  <2>1. h = S /\ Retain(h, x, k) = S \union {x}
    BY <1>1, <1>3 DEF IsTop, Retain
  <2>2. Cardinality(S \union {x}) = Cardinality(h) + 1
    BY <1>1, <2>1, FS_AddElement
  <2>. QED BY <1>1, <1>3, <2>1, <2>2 DEF IsTop
<1>4. CASE k # 0 /\ ~(Cardinality(h) < k)
  <2> DEFINE w == Worst(h)
  <2>1. Cardinality(h) = k /\ h # {}
    BY <1>1, <1>4, FS_EmptySet DEF IsTop
  <2>2. w \in h /\ \A y \in h : y # w => Before(y, w)
    BY <1>1, <2>1, WorstIs
  <2>3. \A y \in h, z \in S \ h : Before(y, z)
    BY DEF IsTop
  <2> HIDE DEF w
  <2>4. CASE Before(x, w)
    <3> DEFINE g == (h \ {w}) \union {x}
    <3>1. Retain(h, x, k) = g
      BY <1>4, <2>4 DEF Retain, w
    <3>2. IsFiniteSet(h \ {w}) /\ Cardinality(h \ {w}) = k - 1
      BY <1>1, <2>1, <2>2, FS_RemoveElement
    <3>3. Cardinality(g) = k
      <4>1. x \notin h \ {w}
        BY <1>1
      <4>2. Cardinality((h \ {w}) \union {x}) = Cardinality(h \ {w}) + 1
        BY <3>2, <4>1, FS_AddElement
      <4>. QED BY <3>2, <4>2
    <3>4. ASSUME NEW y \in g, NEW z \in (S \union {x}) \ g
          PROVE  Before(y, z)
      <4>1. z = w \/ z \in S \ h
        OBVIOUS
      <4>2. Before(y, w)
        BY <2>2, <2>4
      <4>3. z # w => Before(w, z)
        BY <2>2, <2>3, <4>1
      <4>4. y \in U /\ w \in U /\ z \in U
        BY <1>1, <2>2
      <4>. QED BY <4>2, <4>3, <4>4, TotalOrder
    <3>5. g \subseteq S \union {x}
      BY <1>1
    <3> HIDE DEF g
    <3>. QED BY <3>1, <3>3, <3>4, <3>5 DEF IsTop
  <2>5. CASE ~Before(x, w)
    <3>1. Retain(h, x, k) = h
      BY <1>4, <2>5 DEF Retain, w
    <3>2. w \in U /\ Before(w, x)
      BY <1>1, <2>2, <2>5, TotalOrder
    <3>3. ASSUME NEW y \in h, NEW z \in (S \union {x}) \ h
          PROVE  Before(y, z)
      <4>1. CASE z = x
        BY <1>1, <2>2, <3>2, <4>1, TotalOrder
      <4>. QED BY <2>3, <4>1
    <3>. QED BY <1>1, <2>1, <3>1, <3>3 DEF IsTop
  <2>. QED BY <2>4, <2>5
<1>. QED BY <1>2, <1>3, <1>4

\* What the best items of kept look like in order, as SearchExact states it.
Best(kept, k) ==
    [j \in 1..Min({k, Cardinality(kept)}) |->
       (CHOOSE x \in kept : 1 + Cardinality({y \in kept : Before(y, x)}) = j).id]

\* finish_bounded_ranking puts the best items in that order.
LEMMA RankedTop ==
    ASSUME NEW S, Ordered(S), NEW k \in Nat, NEW h, IsTop(h, S, k)
    PROVE  Ranked(h) = Best(S, k)
<1>1. /\ h \subseteq S /\ Ordered(h) /\ IsFiniteSet(h) /\ IsFiniteSet(S)
      /\ Cardinality(h) \in Nat /\ Cardinality(S) \in Nat /\ Cardinality(h) <= Cardinality(S)
  BY OrderedSubset DEF IsTop
<1>2. Cardinality(h) = Min({k, Cardinality(S)})
  <2>0. k \in Int /\ Cardinality(S) \in Int
    BY <1>1
  <2>1. Min({k, Cardinality(S)}) = IF k <= Cardinality(S) THEN k ELSE Cardinality(S)
    BY <2>0, MaxMin
  <2>. QED BY <1>1, <2>1 DEF IsTop
<1>3. ASSUME NEW j \in 1..Cardinality(h)
      PROVE  /\ (CHOOSE x \in h : Cardinality({y \in h : Before(y, x)}) = j - 1)
                  = (CHOOSE x \in S : 1 + Cardinality({y \in S : Before(y, x)}) = j)
  <2>1. PICK u \in h : Cardinality(Above(h, u)) = j - 1
    BY <1>1, RankOnto
  <2>2. Above(S, u) = Above(h, u) /\ u \in S
    BY <1>1, TotalOrder DEF Above, IsTop
  <2>3. \A x \in h : Cardinality(Above(h, x)) = j - 1 => x = u
    BY <1>1, <2>1, RankInjective
  <2>4. \A x \in S : 1 + Cardinality(Above(S, x)) = j => x = u
    <3> SUFFICES ASSUME NEW x \in S, 1 + Cardinality(Above(S, x)) = j PROVE x = u
      OBVIOUS
    <3>1. Above(S, x) \subseteq S
      BY DEF Above
    <3>2. Cardinality(Above(S, x)) \in Nat
      BY <3>1, OrderedSubset
    <3>3. Cardinality(Above(S, x)) = Cardinality(Above(S, u))
      BY <2>1, <2>2, <3>2
    <3>. QED BY <2>2, <3>3, RankInjective
  <2>5. (CHOOSE x \in h : Cardinality(Above(h, x)) = j - 1) = u
    BY <2>1, <2>3
  <2>6. 1 + Cardinality(Above(S, u)) = j
    BY <2>1, <2>2
  <2>7. (CHOOSE x \in S : 1 + Cardinality(Above(S, x)) = j) = u
    BY <2>2, <2>4, <2>6
  <2>. QED BY <2>5, <2>7 DEF Above
<1> DEFINE a(j) == CHOOSE x \in h : Cardinality({y \in h : Before(y, x)}) = j - 1
           b(j) == CHOOSE x \in S : 1 + Cardinality({y \in S : Before(y, x)}) = j
<1>4. \A j \in 1..Cardinality(h) : a(j) = b(j)
  BY <1>3
<1>5. Ranked(h) = [j \in 1..Cardinality(h) |-> a(j).id]
  BY DEF Ranked
<1>6. Best(S, k) = [j \in 1..Cardinality(h) |-> b(j).id]
  BY <1>2 DEF Best
<1> HIDE DEF a, b
<1>. QED BY <1>4, <1>5, <1>6

\* Scanning a sequence without repetitions keeps the best of what is met.
LEMMA RetainedTop ==
    ASSUME NEW U, Ordered(U), NEW items \in Seq(U), NEW kept, NEW k \in Nat,
           \A i, j \in 1..Len(items) : i # j => items[i] # items[j]
    PROVE  IsTop(Retained(items, kept, k), {items[i] : i \in 1..Len(items)} \intersect kept, k)
<1> DEFINE L == Len(items)
           Body(f) == [n \in 0..L |->
                         IF n = 0 THEN {}
                         ELSE IF items[n] \in kept THEN Retain(f[n - 1], items[n], k) ELSE f[n - 1]]
           heap == CHOOSE f : f = Body(f)
           Met(n) == {items[i] : i \in 1..n} \intersect kept
           step == [p \in Nat \X SUBSET U |->
                      IF p[1] \in 1..L /\ items[p[1]] \in kept
                      THEN Retain(p[2], items[p[1]], k) ELSE p[2]]
<1>0. L \in Nat /\ \A n \in 1..L : items[n] \in U
  OBVIOUS
<1> HIDE DEF L
<1>1. PICK f \in [0..L -> SUBSET U] : Iterates(f, L, {}, step)
  <2>1. step \in [Nat \X SUBSET U -> SUBSET U]
    <3> SUFFICES ASSUME NEW p \in Nat \X SUBSET U,
                        p[1] \in 1..L
                 PROVE  Retain(p[2], items[p[1]], k) \in SUBSET U
      OBVIOUS
    <3>. QED BY <1>0 DEF Retain
  <2> HIDE DEF step
  <2>. QED BY <1>0, <2>1, IteratesExist
<1>2. f = Body(f)
  <2>1. ASSUME NEW n \in 1..L
        PROVE  f[n] = IF items[n] \in kept THEN Retain(f[n - 1], items[n], k) ELSE f[n - 1]
    <3>1. n \in Nat /\ n # 0 /\ n - 1 \in 0..L /\ n \in 0..L
      BY <1>0
    <3>2. f[n - 1] \in SUBSET U /\ <<n, f[n - 1]>> \in Nat \X SUBSET U
      BY <3>1
    <3>3. f[n] = step[<<n, f[n - 1]>>]
      BY <1>1, <3>1 DEF Iterates
    <3>. QED BY <3>2, <3>3
  <2>2. f[0] = {} /\ DOMAIN f = 0..L
    BY <1>0, <1>1 DEF Iterates
  <2>. QED BY <1>0, <2>1, <2>2
<1>3. heap = Body(heap)
  BY <1>2
<1>4. Retained(items, kept, k) = heap[L]
  BY DEF Retained, L
<1> HIDE DEF heap
<1>5. heap[0] = {} /\ \A n \in 1..L :
         heap[n] = IF items[n] \in kept THEN Retain(heap[n - 1], items[n], k) ELSE heap[n - 1]
  <2>1. ASSUME NEW n \in 0..L PROVE heap[n] = Body(heap)[n]
    BY <1>3
  <2>2. 0 \in 0..L /\ \A n \in 1..L : n \in 0..L /\ n # 0
    BY <1>0
  <2>3. heap[0] = {}
    BY <2>1, <2>2
  <2>4. ASSUME NEW n \in 1..L
        PROVE  heap[n] = IF items[n] \in kept THEN Retain(heap[n - 1], items[n], k) ELSE heap[n - 1]
    BY <2>1, <2>2
  <2>. QED BY <2>3, <2>4
<1> DEFINE Bad == {n \in 0..L : ~IsTop(heap[n], Met(n), k)}
<1>6. Bad = {}
  <2> SUFFICES ASSUME Bad # {} PROVE FALSE
    OBVIOUS
  <2>1. PICK n \in Bad : \A m \in Bad : n <= m
    <3>1. Bad \subseteq Nat
      BY <1>0
    <3> HIDE DEF Bad
    <3>. QED BY <3>1, LeastNat
  <2>2. n # 0
    <3>1. Met(0) = {} /\ heap[0] = {}
      BY <1>5
    <3>2. IsTop({}, {}, k)
      BY FS_EmptySet DEF IsTop
    <3>3. 0 \notin Bad
      BY <3>1, <3>2
    <3>. QED BY <3>3
  <2>3. n \in 1..L /\ n - 1 \in 0..L /\ n - 1 \notin Bad
    <3>1. n \in 0..L
      OBVIOUS
    <3>2. n \in 1..L /\ n - 1 \in 0..L /\ ~(n <= n - 1)
      BY <1>0, <2>2, <3>1
    <3> HIDE DEF Bad
    <3>. QED BY <2>1, <3>2
  <2>4. IsTop(heap[n - 1], Met(n - 1), k)
    BY <2>3
  <2>5. Met(n - 1) \subseteq U /\ items[n] \in U /\ items[n] \notin Met(n - 1)
    <3>1. \A i \in 1..(n - 1) : i \in 1..L /\ i # n
      BY <1>0, <2>3
    <3>. QED BY <1>0, <2>3, <3>1 DEF L
  <2>6. {items[i] : i \in 1..n} = {items[i] : i \in 1..(n - 1)} \union {items[n]}
    <3>1. 1..n = 1..(n - 1) \union {n}
      BY <1>0, <2>3
    <3>. QED BY <3>1
  <2>7. IsTop(heap[n], Met(n), k)
    <3>1. CASE items[n] \in kept
      <4>1. Met(n) = Met(n - 1) \union {items[n]}
        BY <2>6, <3>1
      <4>2. heap[n] = Retain(heap[n - 1], items[n], k)
        BY <1>5, <2>3, <3>1
      <4> HIDE DEF Met
      <4>. QED BY <2>4, <2>5, <4>1, <4>2, RetainTop
    <3>2. CASE items[n] \notin kept
      <4>1. Met(n) = Met(n - 1)
        BY <2>6, <3>2
      <4>2. heap[n] = heap[n - 1]
        BY <1>5, <2>3, <3>2
      <4>. QED BY <2>4, <4>1, <4>2
    <3>. QED BY <3>1, <3>2
  <2>. QED BY <2>7
<1>7. IsTop(heap[L], Met(L), k)
  BY <1>0, <1>6
<1>. QED BY <1>4, <1>7 DEF L

\* An enumeration of a finite set is a sequence of its elements, each once.
LEMMA Enumeration ==
    ASSUME NEW S, IsFiniteSet(S), NEW items \in SetToSeqs(S)
    PROVE  /\ items \in Seq(S)
           /\ \A i, j \in 1..Len(items) : i # j => items[i] # items[j]
           /\ {items[i] : i \in 1..Len(items)} = S
<1> DEFINE n == Cardinality(S)
<1>1. n \in Nat
  BY FS_CardinalityType
<1>2. items \in [1..n -> S] /\ \A i, j \in 1..n : i # j => items[i] # items[j]
  BY DEF SetToSeqs
<1> HIDE DEF n
<1>3. items \in Seq(S) /\ Len(items) = n
  BY <1>1, <1>2
<1>4. IsFiniteSet(1..n) /\ Cardinality(1..n) = n
  <2>1. /\ IsFiniteSet(1..n)
        /\ Cardinality(1..n) = IF 1 > n THEN 0 ELSE n - 1 + 1
    BY <1>1, FS_Interval
  <2>. QED BY <1>1, <2>1
<1>5. items \in Injection(1..n, S)
  BY <1>2 DEF Injection, IsInjective
<1>6. items \in Surjection(1..n, S)
  BY <1>4, <1>5, FS_Injection DEF n
<1>. QED BY <1>2, <1>3, <1>6 DEF Surjection

\* The best of the best of each part are the best of the whole.
LEMMA MergeTop ==
    ASSUME NEW U, Ordered(U), NEW k \in Nat, NEW I,
           NEW part \in [I -> SUBSET U], NEW top \in [I -> SUBSET U],
           \A i \in I : IsTop(top[i], part[i], k),
           NEW g, IsTop(g, UNION {top[i] : i \in I}, k)
    PROVE  IsTop(g, UNION {part[i] : i \in I}, k)
<1> DEFINE P == UNION {top[i] : i \in I}
           T == UNION {part[i] : i \in I}
<1>1. \A i \in I : top[i] \subseteq part[i]
  BY DEF IsTop
<1>2. g \subseteq P /\ P \subseteq T /\ T \subseteq U
  BY <1>1 DEF IsTop
<1>3. IsFiniteSet(g) /\ Cardinality(g) \in Nat /\ Cardinality(g) <= k
  BY <1>2, OrderedSubset DEF IsTop
<1>4. ASSUME Cardinality(g) # k PROVE g = T
  <2>0. g = P
    BY <1>4 DEF IsTop
  <2>1. g = P /\ Cardinality(P) < k
    BY <1>3, <1>4, <2>0
  <2>2. ASSUME NEW i \in I PROVE top[i] = part[i]
    <3>1. top[i] \subseteq P /\ P \subseteq U
      BY <1>2
    <3>2. Cardinality(top[i]) \in Nat /\ Cardinality(top[i]) <= Cardinality(P)
      <4>1. Ordered(P)
        BY <3>1, OrderedSubset
      <4> HIDE DEF P
      <4>. QED BY <3>1, <4>1, OrderedSubset
    <3>3. Cardinality(P) \in Nat
      BY <1>3, <2>1
    <3>4. Cardinality(top[i]) # k
      BY <2>1, <3>2, <3>3
    <3>. QED BY <3>4 DEF IsTop
  <2>3. P = T
    BY <2>2
  <2>. QED BY <2>1, <2>3
<1>5. ASSUME NEW x \in g, NEW y \in T \ g PROVE Before(x, y)
  <2>1. x \in U /\ y \in U /\ x # y
    BY <1>2
  <2>2. CASE y \in P
    BY <2>2 DEF IsTop
  <2>3. CASE y \notin P
    <3>1. PICK i \in I : y \in part[i]
      OBVIOUS
    <3>2. y \notin top[i]
      BY <2>3
    <3>3. Cardinality(top[i]) = k /\ \A z \in top[i] : Before(z, y)
      BY <3>1, <3>2 DEF IsTop
    <3> SUFFICES ASSUME Before(y, x) PROVE FALSE
      BY <2>1, TotalOrder
    <3>4. \A z \in top[i] : z \in U /\ Before(z, x)
      BY <2>1, <3>3, TotalOrder
    <3>5. top[i] \subseteq g
      <4>1. ASSUME NEW z \in top[i], z \notin g PROVE FALSE
        <5>1. Before(x, z)
          BY <4>1 DEF IsTop
        <5>. QED BY <2>1, <3>4, <5>1, TotalOrder
      <4>. QED BY <4>1
    <3>6. x \notin top[i]
      BY <2>1, <3>4, TotalOrder
    <3>7. top[i] \subseteq g \ {x} /\ IsFiniteSet(g \ {x}) /\ Cardinality(g \ {x}) = Cardinality(g) - 1
      BY <1>3, <3>5, <3>6, FS_RemoveElement
    <3>8. Cardinality(top[i]) <= Cardinality(g \ {x})
      BY <3>7, FS_Subset
    <3>. QED BY <1>3, <3>3, <3>7, <3>8
  <2>. QED BY <2>2, <2>3
<1>6. g \subseteq T /\ Cardinality(g) <= k /\ (g = T \/ Cardinality(g) = k)
  BY <1>2, <1>3, <1>4
<1> HIDE DEF T
<1>7. IsTop(g, T, k)
  BY <1>5, <1>6 DEF IsTop
<1>. QED BY <1>7 DEF T

\* The chunks of a sequence together hold its elements.
LEMMA ChunksCover ==
    ASSUME NEW S, NEW keys \in Seq(S), NEW size \in Nat \ {0}
    PROVE  /\ \A i \in 1..((Len(keys) + size - 1) \div size) :
                /\ Chunk(keys, size, i) \in Seq(S)
                /\ \A a \in 1..Len(Chunk(keys, size, i)) :
                     \E j \in 1..Len(keys) : /\ j = (i - 1) * size + a
                                             /\ Chunk(keys, size, i)[a] = keys[j]
           /\ \A j \in 1..Len(keys) :
                \E i \in 1..((Len(keys) + size - 1) \div size) :
                  \E a \in 1..Len(Chunk(keys, size, i)) : Chunk(keys, size, i)[a] = keys[j]
<1> DEFINE N == Len(keys)
           C == (N + size - 1) \div size
           low(i) == (i - 1) * size + 1
           high(i) == Min({i * size, N})
<1>1. N \in Nat /\ C \in Nat
  OBVIOUS
<1>2. ASSUME NEW i \in 1..C
      PROVE  /\ low(i) \in Int /\ high(i) \in Int /\ low(i) >= 1 /\ high(i) <= N
             /\ high(i) = IF i * size <= N THEN i * size ELSE N
  <2>1. i * size \in Int /\ (i - 1) * size \in Nat
    <3>1. i \in Nat /\ i - 1 \in Nat
      BY <1>1
    <3>. QED BY <3>1
  <2>2. high(i) = IF i * size <= N THEN i * size ELSE N
    <3> DEFINE p == i * size
    <3>1. p \in Int /\ N \in Int
      BY <1>1, <2>1
    <3>2. Min({p, N}) = IF p <= N THEN p ELSE N
      <4> HIDE DEF p, N
      <4>. QED BY <3>1, MaxMin
    <3>. QED BY <3>2
  <2>. QED BY <1>1, <2>1, <2>2
<1>3. ASSUME NEW i \in 1..C
      PROVE  /\ Chunk(keys, size, i) \in Seq(S)
             /\ Len(Chunk(keys, size, i)) = IF low(i) <= high(i) THEN high(i) - low(i) + 1 ELSE 0
             /\ \A a \in 1..(high(i) - low(i) + 1) : Chunk(keys, size, i)[a] = keys[low(i) + a - 1]
  <2>1. \A j \in low(i)..high(i) : keys[j] \in S
    <3>1. low(i) \in Int /\ high(i) \in Int /\ low(i) >= 1 /\ high(i) <= N
      BY <1>2
    <3> HIDE DEF low, high
    <3>2. \A j \in low(i)..high(i) : j \in 1..N
      BY <1>1, <3>1
    <3>. QED BY <3>2, ElementOfSeq
  <2>2. Chunk(keys, size, i) = SubSeq(keys, low(i), high(i))
    BY DEF Chunk
  <2>3. low(i) \in Int /\ high(i) \in Int
    BY <1>2
  <2> HIDE DEF low, high
  <2>. QED BY <2>1, <2>2, <2>3, SubSeqProperties
<1>4. ASSUME NEW i \in 1..C, NEW a \in 1..Len(Chunk(keys, size, i))
      PROVE  \E j \in 1..N : j = (i - 1) * size + a /\ Chunk(keys, size, i)[a] = keys[j]
  <2>1. low(i) <= high(i) /\ a \in 1..(high(i) - low(i) + 1)
    <3>1. CASE low(i) <= high(i)
      BY <1>2, <1>3, <3>1
    <3>2. CASE ~(low(i) <= high(i))
      <4>1. Len(Chunk(keys, size, i)) = 0
        BY <1>3, <3>2
      <4>. QED BY <4>1
    <3>. QED BY <3>1, <3>2
  <2>2. low(i) + a - 1 \in 1..N /\ low(i) + a - 1 = (i - 1) * size + a
    <3>1. (i - 1) * size \in Int
      BY <1>1
    <3>. QED BY <1>1, <1>2, <2>1, <3>1
  <2>3. Chunk(keys, size, i)[a] = keys[low(i) + a - 1]
    BY <1>3, <2>1
  <2> HIDE DEF low, high
  <2>. QED BY <2>2, <2>3
<1>5. ASSUME NEW j \in 1..N
      PROVE  \E i \in 1..C : \E a \in 1..Len(Chunk(keys, size, i)) : Chunk(keys, size, i)[a] = keys[j]
  <2> DEFINE i == (j - 1) \div size + 1
             a == j - low(i) + 1
  <2>1. i \in 1..C
    BY <1>1
  <2>2. (i - 1) * size <= j - 1 /\ j - 1 < (i - 1) * size + size /\ (i - 1) * size \in Int
    BY <1>1
  <2>3. i * size = (i - 1) * size + size
    BY <1>1, <2>1
  <2>4. low(i) <= j /\ j <= high(i)
    <3>1. high(i) = IF i * size <= N THEN i * size ELSE N
      BY <1>2, <2>1
    <3>2. j <= i * size
      BY <2>2, <2>3
    <3>3. j <= high(i)
      BY <1>1, <3>1, <3>2
    <3>. QED BY <2>2, <3>3
  <2>5. low(i) \in Int /\ high(i) \in Int
    BY <1>2, <2>1
  <2> HIDE DEF low, high, i
  <2>6. a \in 1..(high(i) - low(i) + 1) /\ low(i) + a - 1 = j
    BY <2>4, <2>5
  <2>7. a \in 1..Len(Chunk(keys, size, i)) /\ Chunk(keys, size, i)[a] = keys[j]
    BY <1>3, <2>1, <2>4, <2>5, <2>6
  <2>. QED BY <2>1, <2>7
<1>. QED BY <1>3, <1>4, <1>5

\* The parallel vector_search finds the best, however the keys are cut and merged.
LEMMA VectorSearchBest ==
    ASSUME Ordered(Vectors), NEW r, r.slots[1].limit \in Nat, r.method # "expand",
           NEW keys \in SetToSeqs({x \in Vectors : x.ns = r.slots[1].ns}),
           NEW size \in Nat \ {0}, NEW hits \in VectorSearch(keys, size, r)
    PROVE  hits = Best({x \in Vectors : Keeps(r, 1, x)}, r.slots[1].limit)
<1> DEFINE K == {x \in Vectors : x.ns = r.slots[1].ns}
           kept == {x \in Vectors : Keeps(r, 1, x)}
           k == r.slots[1].limit
           I == 1..((Len(keys) + size - 1) \div size)
           chunk(i) == Chunk(keys, size, i)
           met(i) == {chunk(i)[a] : a \in 1..Len(chunk(i))}
           part == [i \in I |-> met(i) \intersect kept]
           top == [i \in I |-> ScanChunk(chunk(i), r)]
           P == UNION {ScanChunk(chunk(i), r) : i \in I}
<1>1. kept \subseteq K /\ K \subseteq Vectors /\ IsFiniteSet(K) /\ k \in Nat
  <2>1. kept \subseteq K
    BY DEF Keeps
  <2>2. K \subseteq Vectors
    OBVIOUS
  <2>3. IsFiniteSet(K)
    BY <2>2, OrderedSubset
  <2>. QED BY <2>1, <2>2, <2>3
<1>2. /\ keys \in Seq(K) /\ \A i, j \in 1..Len(keys) : i # j => keys[i] # keys[j]
      /\ {keys[j] : j \in 1..Len(keys)} = K
  <2> HIDE DEF K
  <2>. QED BY <1>1, Enumeration DEF K
<1> HIDE DEF K
<1>3. ASSUME NEW i \in I
      PROVE  /\ chunk(i) \in Seq(K) /\ met(i) \subseteq K
             /\ \A a, b \in 1..Len(chunk(i)) : a # b => chunk(i)[a] # chunk(i)[b]
  <2>1. chunk(i) \in Seq(K)
    BY <1>2, ChunksCover
  <2>2. met(i) \subseteq K
    BY <2>1
  <2>3. ASSUME NEW a \in 1..Len(chunk(i)), NEW b \in 1..Len(chunk(i)), a # b
        PROVE  chunk(i)[a] # chunk(i)[b]
    <3>1. PICK j \in 1..Len(keys) : j = (i - 1) * size + a /\ chunk(i)[a] = keys[j]
      BY <1>2, ChunksCover
    <3>2. PICK l \in 1..Len(keys) : l = (i - 1) * size + b /\ chunk(i)[b] = keys[l]
      BY <1>2, ChunksCover
    <3>3. j # l
      <4>1. (i - 1) * size \in Int /\ a \in Int /\ b \in Int
        OBVIOUS
      <4> HIDE DEF chunk
      <4>. QED BY <2>3, <3>1, <3>2, <4>1
    <3>. QED BY <1>2, <3>1, <3>2, <3>3
  <2>. QED BY <2>1, <2>2, <2>3
<1>4. \A i \in I : IsTop(ScanChunk(chunk(i), r), met(i) \intersect kept, k)
  <2> SUFFICES ASSUME NEW i \in I
               PROVE  IsTop(ScanChunk(chunk(i), r), met(i) \intersect kept, k)
    OBVIOUS
  <2>1. ScanChunk(chunk(i), r) = Retained(chunk(i), kept, k)
    BY DEF ScanChunk
  <2>2. Ordered(K)
    BY <1>1, OrderedSubset
  <2>3. /\ chunk(i) \in Seq(K)
        /\ \A a, b \in 1..Len(chunk(i)) : a # b => chunk(i)[a] # chunk(i)[b]
    BY <1>3
  <2> HIDE DEF chunk, kept, k, I
  <2>4. IsTop(Retained(chunk(i), kept, k), {chunk(i)[a] : a \in 1..Len(chunk(i))} \intersect kept, k)
    BY <1>1, <2>2, <2>3, RetainedTop
  <2>. QED BY <2>1, <2>4
<1>5. part \in [I -> SUBSET Vectors] /\ top \in [I -> SUBSET Vectors]
  <2>1. \A i \in I : met(i) \subseteq Vectors
    BY <1>1, <1>3
  <2>2. \A i \in I : ScanChunk(chunk(i), r) \subseteq Vectors
    BY <1>4, <2>1 DEF IsTop
  <2>. QED BY <2>1, <2>2
<1>6. UNION {part[i] : i \in I} = kept
  <2>1. ASSUME NEW x \in kept PROVE \E i \in I : x \in part[i]
    <3>1. PICK j \in 1..Len(keys) : x = keys[j]
      BY <1>1, <1>2
    <3>2. \E i \in I : \E a \in 1..Len(chunk(i)) : chunk(i)[a] = keys[j]
      BY <1>2, ChunksCover
    <3>. QED BY <3>1, <3>2
  <2>. QED BY <2>1
<1>7. UNION {top[i] : i \in I} = P
  OBVIOUS
<1>8. PICK merged \in SetToSeqs(P) : hits = Ranked(Retained(merged, Vectors, k))
  BY DEF VectorSearch
<1>9. P \subseteq Vectors /\ IsFiniteSet(P) /\ Ordered(P)
  <2>1. P \subseteq Vectors
    BY <1>5, <1>7
  <2> HIDE DEF P
  <2>. QED BY <2>1, OrderedSubset
<1>10. IsTop(Retained(merged, Vectors, k), P, k)
  <2> HIDE DEF P
  <2>1. /\ merged \in Seq(P)
        /\ \A i, j \in 1..Len(merged) : i # j => merged[i] # merged[j]
        /\ {merged[i] : i \in 1..Len(merged)} = P
    BY <1>8, <1>9, Enumeration
  <2>2. IsTop(Retained(merged, Vectors, k), {merged[i] : i \in 1..Len(merged)} \intersect Vectors, k)
    <3> HIDE DEF k
    <3>. QED BY <1>1, <1>9, <2>1, RetainedTop
  <2>3. P \intersect Vectors = P
    BY <1>9
  <2>. QED BY <2>1, <2>2, <2>3
<1>11. IsTop(Retained(merged, Vectors, k), kept, k)
  <2>1. \A i \in I : IsTop(top[i], part[i], k)
    BY <1>4
  <2>2. IsTop(Retained(merged, Vectors, k), UNION {top[i] : i \in I}, k)
    BY <1>7, <1>10
  <2> HIDE DEF P, top, part, I, k, kept
  <2>3. IsTop(Retained(merged, Vectors, k), UNION {part[i] : i \in I}, k)
    BY <1>1, <1>5, <2>1, <2>2, MergeTop
  <2>. QED BY <1>6, <2>3
<1>12. Ordered(kept)
  <2>1. kept \subseteq Vectors
    OBVIOUS
  <2> HIDE DEF kept
  <2>. QED BY <2>1, OrderedSubset
<1> HIDE DEF kept, k
<1>13. Ranked(Retained(merged, Vectors, k)) = Best(kept, k)
  BY <1>1, <1>11, <1>12, RankedTop
<1>. QED BY <1>8, <1>13 DEF kept, k

-----------------------------------------------------------------------------
(* Counters and lengths. *)

\* What the first limits add up to.
LEMMA Sums ==
    ASSUME NEW limits \in Seq(Nat)
    PROVE  /\ \A n \in 0..Len(limits) : SumOfFirst(limits, n) \in Nat
           /\ SumOfFirst(limits, 0) = 0
           /\ \A n \in 1..Len(limits) :
                SumOfFirst(limits, n) = SumOfFirst(limits, n - 1) + limits[n]
           /\ \A n \in 0..Len(limits) : SumOfFirst(limits, n) <= SumOfFirst(limits, Len(limits))
<1> DEFINE L == Len(limits)
           Body(f) == [i \in 0..L |-> IF i = 0 THEN 0 ELSE f[i - 1] + limits[i]]
           sum == CHOOSE f : f = Body(f)
           step == [p \in Nat \X Nat |-> IF p[1] \in 1..L THEN p[2] + limits[p[1]] ELSE 0]
<1>0. L \in Nat /\ \A n \in 1..L : limits[n] \in Nat
  OBVIOUS
<1>a. \A n : SumOfFirst(limits, n) = sum[n]
  BY DEF SumOfFirst
<1> HIDE DEF L
<1>1. PICK f \in [0..L -> Nat] : Iterates(f, L, 0, step)
  <2>1. step \in [Nat \X Nat -> Nat]
    BY <1>0
  <2> HIDE DEF step
  <2>. QED BY <1>0, <2>1, IteratesExist
<1>2. f = Body(f)
  <2>1. ASSUME NEW n \in 1..L
        PROVE  f[n] = f[n - 1] + limits[n]
    <3>1. n \in Nat /\ n # 0 /\ n - 1 \in 0..L /\ n \in 0..L
      BY <1>0
    <3>2. f[n - 1] \in Nat /\ <<n, f[n - 1]>> \in Nat \X Nat
      BY <3>1
    <3>3. f[n] = step[<<n, f[n - 1]>>]
      BY <1>1, <3>1 DEF Iterates
    <3>. QED BY <3>2, <3>3
  <2>2. f[0] = 0 /\ DOMAIN f = 0..L
    BY <1>0, <1>1 DEF Iterates
  <2>. QED BY <1>0, <2>1, <2>2
<1>3. sum = Body(sum)
  BY <1>2
<1> HIDE DEF sum
<1>5. sum[0] = 0 /\ \A n \in 1..L : sum[n] = sum[n - 1] + limits[n]
  <2>1. ASSUME NEW n \in 0..L PROVE sum[n] = Body(sum)[n]
    BY <1>3
  <2>2. 0 \in 0..L /\ \A n \in 1..L : n \in 0..L /\ n # 0
    BY <1>0
  <2>. QED BY <2>1, <2>2
<1> DEFINE Wild == {n \in 0..L : sum[n] \notin Nat}
<1>6. Wild = {}
  <2> SUFFICES ASSUME Wild # {} PROVE FALSE
    OBVIOUS
  <2>1. PICK n \in Wild : \A m \in Wild : n <= m
    <3>1. Wild \subseteq Nat
      BY <1>0
    <3> HIDE DEF Wild
    <3>. QED BY <3>1, LeastNat
  <2>2. n \in 1..L /\ n - 1 \in 0..L /\ ~(n <= n - 1)
    <3>1. n \in 0..L /\ sum[n] \notin Nat
      OBVIOUS
    <3>2. n # 0
      BY <1>5, <3>1
    <3>. QED BY <1>0, <3>1, <3>2
  <2>3. sum[n - 1] \in Nat
    <3>1. n - 1 \notin Wild
      <4> HIDE DEF Wild
      <4>. QED BY <2>1, <2>2
    <3>. QED BY <2>2, <3>1
  <2>4. sum[n] \in Nat
    <3>1. sum[n] = sum[n - 1] + limits[n]
      BY <1>5, <2>2
    <3>2. limits[n] \in Nat
      BY <1>0, <2>2
    <3>. QED BY <2>3, <3>1, <3>2
  <2>. QED BY <2>4
<1>7. \A n \in 0..L : sum[n] \in Nat
  BY <1>6
<1> DEFINE Short == {j \in 0..L : ~(sum[L - j] <= sum[L])}
<1>8. Short = {}
  <2> SUFFICES ASSUME Short # {} PROVE FALSE
    OBVIOUS
  <2>1. PICK j \in Short : \A m \in Short : j <= m
    <3>1. Short \subseteq Nat
      BY <1>0
    <3> HIDE DEF Short
    <3>. QED BY <3>1, LeastNat
  <2>2. j \in 1..L /\ j - 1 \in 0..L /\ ~(j <= j - 1)
    <3>1. L - 0 = L /\ sum[L] \in Nat
      BY <1>0, <1>7
    <3>2. j # 0
      BY <3>1
    <3>. QED BY <1>0, <3>2
  <2>3. sum[L - (j - 1)] <= sum[L]
    BY <2>1, <2>2
  <2>4. L - (j - 1) \in 1..L /\ L - (j - 1) - 1 = L - j /\ L - j \in 0..L
    BY <1>0, <2>2
  <2>5. sum[L - (j - 1)] = sum[L - j] + limits[L - (j - 1)]
    BY <1>5, <2>4
  <2>6. limits[L - (j - 1)] \in Nat /\ sum[L - j] \in Nat /\ sum[L] \in Nat
    BY <1>0, <1>7, <2>4
  <2>7. sum[L - j] <= sum[L]
    BY <2>3, <2>5, <2>6
  <2>. QED BY <2>7
<1>9. ASSUME NEW n \in 0..L PROVE sum[n] <= sum[L]
  <2>1. L - n \in 0..L /\ L - (L - n) = n
    BY <1>0
  <2>2. L - n \notin Short
    BY <1>8
  <2>. QED BY <2>1, <2>2
<1>10. \A n \in 0..L : SumOfFirst(limits, n) \in Nat
  BY <1>a, <1>7
<1>11. SumOfFirst(limits, 0) = 0
  BY <1>a, <1>5
<1>12. \A n \in 1..L : SumOfFirst(limits, n) = SumOfFirst(limits, n - 1) + limits[n]
  BY <1>a, <1>5
<1>13. \A n \in 0..L : SumOfFirst(limits, n) <= SumOfFirst(limits, L)
  BY <1>a, <1>9
<1>. QED BY <1>10, <1>11, <1>12, <1>13 DEF L

\* A merge sort below 2^22 elements takes at most 22 passes.
LEMMA PassesBound ==
    ASSUME NEW k \in Nat, k >= 2, k <= 2^22
    PROVE  Passes(k) \in 0..22 /\ (k <= 2^21 => Passes(k) <= 21)
<1> DEFINE P(l) == 2^l >= k /\ (l = 0 \/ 2^(l - 1) < k)
<1>1. \E l \in 0..31 : P(l)
  <2>1. \/ P(1) \/ P(2) \/ P(3) \/ P(4) \/ P(5) \/ P(6) \/ P(7) \/ P(8) \/ P(9) \/ P(10) \/ P(11)
        \/ P(12) \/ P(13) \/ P(14) \/ P(15) \/ P(16) \/ P(17) \/ P(18) \/ P(19) \/ P(20) \/ P(21)
        \/ P(22)
    OBVIOUS
  <2> HIDE DEF P
  <2>. QED BY <2>1
<1>2. Passes(k) \in 0..31 /\ P(Passes(k))
  BY <1>1 DEF Passes
<1>3. ASSUME NEW l \in 0..31, P(l) PROVE l <= 22 /\ (k <= 2^21 => l <= 21)
  <2>1. \A m \in 22..31 : m = 22 \/ m = 23 \/ m = 24 \/ m = 25 \/ m = 26 \/ m = 27 \/ m = 28
                            \/ m = 29 \/ m = 30 \/ m = 31
    OBVIOUS
  <2>2. k <= 4194304 /\ 2^21 = 2097152
    OBVIOUS
  <2>3. ~P(23) /\ ~P(24) /\ ~P(25) /\ ~P(26) /\ ~P(27) /\ ~P(28) /\ ~P(29) /\ ~P(30) /\ ~P(31)
    BY <2>2
  <2>4. k <= 2097152 => ~P(22)
    OBVIOUS
  <2> HIDE DEF P
  <2>. QED BY <1>3, <2>1, <2>2, <2>3, <2>4
<1> HIDE DEF P
<1>4. Passes(k) <= 22 /\ (k <= 2^21 => Passes(k) <= 21)
  BY <1>2, <1>3
<1>. QED BY <1>2, <1>4

\* What sorting costs, at most.
LEMMA SortBound ==
    ASSUME NEW k \in Nat, k <= 2^22
    PROVE  /\ SortUnits(k) \in Nat /\ SortUnits(k) <= 45 * k
           /\ k <= 2^21 => SortUnits(k) <= 44 * k
<1>1. CASE k < 2
  BY <1>1 DEF SortUnits
<1>2. CASE k >= 2
  <2> DEFINE p == Passes(k)
             c == 1 + 2 * p + (p % 2)
  <2>1. p \in 0..22 /\ (k <= 2^21 => p <= 21)
    BY <1>2, PassesBound
  <2>2. SortUnits(k) = k * c
    BY <1>2 DEF SortUnits
  <2> HIDE DEF p
  <2>3. c \in Nat /\ c <= 45 /\ (p <= 21 => c <= 44)
    BY <2>1
  <2> HIDE DEF c
  <2>4. k * c \in Nat /\ k * c <= 45 * k /\ (c <= 44 => k * c <= 44 * k)
    BY <2>3
  <2>. QED BY <2>1, <2>2, <2>3, <2>4
<1>. QED BY <1>1, <1>2

\* The scan units of a whole request fit, whatever graph the catalog opened:
\* this is the arithmetic behind MAX_GRAPH_SCAN_UNITS.
LEMMA UnitsFit ==
    ASSUME NEW g \in Graphs, CatalogOpens(g), g.edges <= MaxGraphEdges,
           NEW m \in Nat, m <= MaxIterations
    PROVE  /\ CollectUnits(g) \in Nat /\ BuildUnits(g) \in Nat /\ IterationUnits(g) \in Nat
           /\ RankUnits(g) \in Nat /\ m * IterationUnits(g) \in Nat
           /\ CollectUnits(g) + BuildUnits(g) + m * IterationUnits(g) + RankUnits(g)
                <= MaxGraphScanUnits
<1> DEFINE N == MaxGraphNodes
           E == MaxGraphEdges
           n == g.nodes
           e == g.edges
           a == g.all
           sn == SortUnits(g.nodes)
           se == SortUnits(g.edges)
           M == MaxIterations
<1>1. N \in 0..2^21 /\ E \in 0..2^22 /\ M \in Nat
  BY CapsAssumption
<1>2. n \in Nat /\ e \in Nat /\ a \in Nat
  BY StoreAssumption
<1>3. n <= N /\ e <= E /\ a <= E
  BY DEF CatalogOpens
<1>4. sn \in Nat /\ sn <= 44 * n /\ se \in Nat /\ se <= 45 * e
  <2>1. n <= 2^21 /\ n <= 2^22 /\ e <= 2^22
    BY <1>1, <1>2, <1>3
  <2>. QED BY <1>2, <2>1, SortBound
<1>5. /\ CollectUnits(g) = a + se + e + n + sn /\ BuildUnits(g) = 11 * n + 1 + 3 * e
      /\ IterationUnits(g) = 4 * n + e /\ RankUnits(g) = n
      /\ MaxGraphScanUnits = 57 * N + 50 * E + M * (4 * N + E) + 1
  BY DEF CollectUnits, BuildUnits, IterationUnits, RankUnits, MaxGraphScanUnits
<1>6. m * (4 * n + e) \in Nat /\ m * (4 * n + e) <= M * (4 * N + E) /\ M * (4 * N + E) \in Nat
  <2> DEFINE u == 4 * n + e
             v == 4 * N + E
  <2>1. u \in Nat /\ v \in Nat /\ u <= v
    BY <1>1, <1>2, <1>3
  <2> HIDE DEF u, v, M
  <2>2. m * u \in Nat /\ M * v \in Nat
    BY <1>1, <2>1
  <2>3. m * u <= m * v /\ m * v \in Nat
    BY <2>1
  <2>4. m * v <= M * v
    BY <1>1, <2>1 DEF M
  <2>5. m * u <= M * v
    BY <2>2, <2>3, <2>4
  <2>. QED BY <2>2, <2>5 DEF u, v
<1> DEFINE x == m * (4 * n + e)
           y == M * (4 * N + E)
<1>7. x \in Nat /\ y \in Nat /\ x <= y
  BY <1>6
<1>8. /\ CollectUnits(g) \in Nat /\ BuildUnits(g) \in Nat
      /\ IterationUnits(g) \in Nat /\ RankUnits(g) \in Nat
  BY <1>2, <1>4, <1>5
<1>9. m * IterationUnits(g) = x /\ MaxGraphScanUnits = 57 * N + 50 * E + y + 1
  BY <1>5
<1> HIDE DEF x, y, N, E, n, e, a, sn, se
<1>10. CollectUnits(g) + BuildUnits(g) + x + RankUnits(g) <= 57 * N + 50 * E + y + 1
  BY <1>1, <1>2, <1>3, <1>4, <1>5, <1>7
<1>. QED BY <1>7, <1>8, <1>9, <1>10

\* The number of digits of a length below 10^8.
LEMMA DigitsAre ==
    ASSUME NEW n \in Nat, n < 100000000
    PROVE  /\ Digits(n) \in 1..8
           /\ Digits(n) = IF n < 10 THEN 1 ELSE IF n < 100 THEN 2 ELSE IF n < 1000 THEN 3
                          ELSE IF n < 10000 THEN 4 ELSE IF n < 100000 THEN 5
                          ELSE IF n < 1000000 THEN 6 ELSE IF n < 10000000 THEN 7 ELSE 8
<1> DEFINE P(d) == n < 10^d /\ (d = 1 \/ n >= 10^(d - 1))
<1>1. P(1) \/ P(2) \/ P(3) \/ P(4) \/ P(5) \/ P(6) \/ P(7) \/ P(8)
  OBVIOUS
<1>2. \A d \in 1..10 : d = 1 \/ d = 2 \/ d = 3 \/ d = 4 \/ d = 5 \/ d = 6 \/ d = 7 \/ d = 8
                         \/ d = 9 \/ d = 10
  OBVIOUS
<1>3. ~P(9) /\ ~P(10)
  OBVIOUS
<1>4. Digits(n) \in 1..10 /\ P(Digits(n))
  <2>1. \E d \in 1..10 : P(d)
    <3> HIDE DEF P
    <3>. QED BY <1>1
  <2>2. Digits(n) = CHOOSE d \in 1..10 : P(d)
    BY SMT DEF Digits
  <2> HIDE DEF P
  <2>. QED BY SMT, <2>1, <2>2
<1>5. /\ P(1) => n < 10
      /\ P(2) => n >= 10 /\ n < 100
      /\ P(3) => n >= 100 /\ n < 1000
      /\ P(4) => n >= 1000 /\ n < 10000
      /\ P(5) => n >= 10000 /\ n < 100000
      /\ P(6) => n >= 100000 /\ n < 1000000
      /\ P(7) => n >= 1000000 /\ n < 10000000
      /\ P(8) => n >= 10000000
  OBVIOUS
<1> DEFINE d == Digits(n)
<1>6. d \in 1..10 /\ P(d)
  BY <1>4
<1> HIDE DEF P, d
<1>7. \/ d = 1 /\ n < 10
      \/ d = 2 /\ n >= 10 /\ n < 100
      \/ d = 3 /\ n >= 100 /\ n < 1000
      \/ d = 4 /\ n >= 1000 /\ n < 10000
      \/ d = 5 /\ n >= 10000 /\ n < 100000
      \/ d = 6 /\ n >= 100000 /\ n < 1000000
      \/ d = 7 /\ n >= 1000000 /\ n < 10000000
      \/ d = 8 /\ n >= 10000000
  BY <1>2, <1>3, <1>5, <1>6
<1>. QED BY <1>7 DEF d

\* A longer frame has no fewer digits in its length.
LEMMA DigitsGrow ==
    ASSUME NEW a \in Nat, NEW b \in Nat, a <= b, b < 10000000
    PROVE  /\ Digits(a) \in 1..7 /\ Digits(b) \in 1..7 /\ Digits(a) <= Digits(b)
           /\ a = 0 => Digits(a) = 1
BY DigitsAre, SMT

\* If some length within the cap is the length of the frame that carries it,
\* eight attempts find one: as long as they have not, each has more digits than
\* the one before, and the cap has seven.
LEMMA FixedPointFound ==
    ASSUME NEW size \in Nat, NEW goal \in Nat, goal = size + Digits(goal), goal <= MaxResponseBytes
    PROVE  Encodes(size)
<1>0. MaxResponseBytes \in Nat /\ MaxResponseBytes < 10000000
  <2>1. 10^7 = 10000000
    BY SMT
  <2>. QED BY SMT, CapsAssumption, <2>1
<1> DEFINE Body(f) == [n \in 0..8 |-> IF n = 0 THEN 0 ELSE size + Digits(f[n - 1])]
           length == CHOOSE f : f = Body(f)
           Within(x) == x \in Nat /\ x <= goal
           next(x) == size + Digits(x)
<1>1. ASSUME NEW x, Within(x)
      PROVE  Within(next(x)) /\ Digits(x) \in 1..7
  <2>1. x \in Nat /\ x <= goal /\ goal < 10000000
    BY SMT, <1>0, <1>1
  <2>2. Digits(x) \in 1..7 /\ Digits(goal) \in 1..7 /\ Digits(x) <= Digits(goal)
    BY SMT, <2>1, DigitsGrow
  <2>. QED BY SMT, <2>2
<1>2. ASSUME NEW x, NEW y, Within(x), Within(y), x <= y
      PROVE  Digits(x) <= Digits(y)
  <2>1. x \in Nat /\ y \in Nat /\ y < 10000000
    BY SMT, <1>0, <1>2
  <2>. QED BY SMT, <1>2, <2>1, DigitsGrow
<1>3. Within(0) /\ Digits(0) = 1
  <2>1. 0 \in Nat /\ 0 <= 0 /\ 0 < 10000000
    BY SMT
  <2>. QED BY SMT, <2>1, DigitsGrow
<1> DEFINE l1 == next(0)
           l2 == next(l1)
           l3 == next(l2)
           l4 == next(l3)
           l5 == next(l4)
           l6 == next(l5)
           l7 == next(l6)
           l8 == next(l7)
           found == [n \in 0..8 |-> CASE n = 0 -> 0 [] n = 1 -> l1 [] n = 2 -> l2 [] n = 3 -> l3
                                      [] n = 4 -> l4 [] n = 5 -> l5 [] n = 6 -> l6 [] n = 7 -> l7
                                      [] OTHER -> l8]
<1>4. \E f : f = Body(f)
  <2> HIDE DEF l1, l2, l3, l4, l5, l6, l7, l8
  <2>1. /\ found[0] = 0 /\ found[1] = l1 /\ found[2] = l2 /\ found[3] = l3 /\ found[4] = l4
        /\ found[5] = l5 /\ found[6] = l6 /\ found[7] = l7 /\ found[8] = l8
    BY SMT
  <2>2. \A n \in 0..8 : n = 0 \/ n = 1 \/ n = 2 \/ n = 3 \/ n = 4 \/ n = 5 \/ n = 6 \/ n = 7 \/ n = 8
    BY SMT
  <2>3. DOMAIN found = 0..8 /\ found = [n \in 0..8 |-> found[n]]
    BY SMT
  <2> HIDE DEF found
  <2>4. ASSUME NEW n \in 0..8
        PROVE  found[n] = IF n = 0 THEN 0 ELSE size + Digits(found[n - 1])
    BY SMT, <2>1, <2>2 DEF l1, l2, l3, l4, l5, l6, l7, l8
  <2>5. found = Body(found)
    BY SMT, <2>3, <2>4
  <2>. QED BY <2>5
<1>5. length = Body(length)
  <2> HIDE DEF Body
  <2>. QED BY <1>4
<1>6. EncodesWithin(size, 8) <=> \E n \in 1..8 : /\ length[n] = length[n - 1]
                                                 /\ \A m \in 1..n : length[m] <= MaxResponseBytes
  BY SMT DEF EncodesWithin
<1> HIDE DEF length
<1>7. length[0] = 0 /\ \A n \in 1..8 : length[n] = next(length[n - 1])
  <2>1. \A n \in 0..8 : length[n] = Body(length)[n]
    BY SMT, <1>5
  <2>2. 0 \in 0..8 /\ \A n \in 1..8 : n \in 0..8 /\ n # 0
    BY SMT
  <2>. QED BY SMT, <2>1, <2>2
<1> HIDE DEF next, Within
<1>8. /\ length[1] = next(length[0]) /\ length[2] = next(length[1]) /\ length[3] = next(length[2])
      /\ length[4] = next(length[3]) /\ length[5] = next(length[4]) /\ length[6] = next(length[5])
      /\ length[7] = next(length[6]) /\ length[8] = next(length[7])
  BY SMT, <1>7
<1>9. \A n \in 0..8 : Within(length[n])
  <2>1. Within(length[0])
    BY <1>3, <1>7
  <2>2. Within(length[1]) /\ Within(length[2])
    BY <1>1, <1>8, <2>1
  <2>3. Within(length[3]) /\ Within(length[4])
    BY <1>1, <1>8, <2>2
  <2>4. Within(length[5]) /\ Within(length[6])
    BY <1>1, <1>8, <2>3
  <2>5. Within(length[7]) /\ Within(length[8])
    BY <1>1, <1>8, <2>4
  <2>6. \A n \in 0..8 : n = 0 \/ n = 1 \/ n = 2 \/ n = 3 \/ n = 4 \/ n = 5 \/ n = 6 \/ n = 7 \/ n = 8
    BY SMT
  <2>. QED BY SMT, <2>1, <2>2, <2>3, <2>4, <2>5, <2>6
<1>10. \A n \in 1..8 : length[n] <= MaxResponseBytes
  BY SMT, <1>0, <1>9 DEF Within
<1>11. SUFFICES ASSUME \A n \in 1..8 : length[n] # length[n - 1] PROVE FALSE
  <2>1. \A n \in 1..8 : 1..n \subseteq 1..8
    BY SMT
  <2>. QED BY SMT, <1>6, <1>10, <2>1 DEF Encodes
\* One more attempt that differs has one more digit.
<1>12. ASSUME NEW n \in 1..7, length[n - 1] <= length[n]
       PROVE  Digits(length[n]) >= Digits(length[n - 1]) + 1 /\ length[n] <= length[n + 1]
  <2>1. n \in 0..8 /\ n - 1 \in 0..8 /\ n + 1 \in 1..8 /\ n \in 1..8 /\ (n + 1) - 1 = n
    BY SMT
  <2>2. Within(length[n - 1]) /\ Within(length[n])
    BY <1>9, <2>1
  <2>3. Digits(length[n - 1]) \in 1..7 /\ Digits(length[n]) \in 1..7
    BY <1>1, <2>2
  <2>4. Digits(length[n - 1]) <= Digits(length[n])
    BY <1>2, <1>12, <2>2
  <2>5. length[n + 1] = size + Digits(length[n]) /\ length[n] = size + Digits(length[n - 1])
    BY SMT, <1>7, <2>1 DEF next
  <2>6. length[n + 1] # length[n]
    BY SMT, <1>11, <2>1
  <2>. QED BY SMT, <2>3, <2>4, <2>5, <2>6
<1>13. length[0] <= length[1] /\ Digits(length[0]) = 1
  <2>1. Within(length[1])
    BY SMT, <1>9
  <2>. QED BY SMT, <1>3, <1>7, <2>1 DEF Within
<1> DEFINE d(n) == Digits(length[n])
<1>14. \A n \in 0..8 : d(n) \in 1..7
  BY <1>1, <1>9
<1>15. \A n \in 1..7 : length[n - 1] <= length[n] => d(n) >= d(n - 1) + 1 /\ length[n] <= length[n + 1]
  BY <1>12
<1>16. length[0] <= length[1] /\ d(0) = 1
  BY <1>13
<1> HIDE DEF d
<1>17. d(1) >= 2 /\ length[1] <= length[2]
  BY SMT, <1>14, <1>15, <1>16
<1>18. d(2) >= 3 /\ length[2] <= length[3]
  BY SMT, <1>14, <1>15, <1>17
<1>19. d(3) >= 4 /\ length[3] <= length[4]
  BY SMT, <1>14, <1>15, <1>18
<1>20. d(4) >= 5 /\ length[4] <= length[5]
  BY SMT, <1>14, <1>15, <1>19
<1>21. d(5) >= 6 /\ length[5] <= length[6]
  BY SMT, <1>14, <1>15, <1>20
<1>22. d(6) >= 7 /\ length[6] <= length[7]
  BY SMT, <1>14, <1>15, <1>21
<1>23. d(7) >= 8
  BY SMT, <1>14, <1>15, <1>22
<1>. QED BY SMT, <1>14, <1>23

-----------------------------------------------------------------------------
(* The deadline of a session. *)

Moment == 0..(MaxNow + MaxOperation)
Early  == {"start", "admit", "commit"}
Stages == {"start", "admit", "commit", "preflight", "scan", "collect", "build", "iterate", "rank",
           "objects", "validate", "encode", "encoded"}
Fields == {"req", "owner", "deadline", "remaining", "start", "gap", "before", "stage", "work",
           "slot", "heap", "unseen", "found"}

\* A request under execution, without the progress of its work.
IsOp(o) ==
    /\ DOMAIN o = Fields
    /\ o.req \in Requests /\ Bounded(o.req) /\ o.owner \in Budgets /\ o.deadline \in Moment
    /\ o.remaining \in 0..MaxOperation /\ o.start \in Nat /\ o.gap \in Nat /\ o.stage \in Stages

TypeInv ==
    /\ now \in 0..MaxNow /\ frames \in 0..MaxFrames /\ open \in BOOLEAN
    /\ graph \in Graphs /\ CatalogOpens(graph)
    /\ session = None \/ session \in [owner : Budgets, deadline : Moment]
    /\ first = None \/ first \in Moment
    /\ op = Idle \/ (IsOp(op) /\ op.start <= now)

\* What a request may still use is what is left of a deadline no later than the
\* first one.  Until it is committed, the request has seen the session as it is.
DeadlineInv ==
    /\ session = None <=> first = None
    /\ session # None => session.deadline <= first
    /\ ~At("idle") =>
         /\ op.remaining = 0 \/ op.remaining = op.deadline - op.start + op.gap
         /\ op.stage = "start" => op.gap = 0
         /\ op.stage \in Early =>
              op.before = session /\ (session # None => op.deadline <= session.deadline)
         /\ op.stage \notin Early => first # None /\ op.deadline <= first
    /\ reply # None =>
         /\ reply.ok /\ Bounded(reply.asked) =>
              /\ first # None /\ reply.at \in Nat /\ reply.gap \in Nat
              /\ reply.at < first + reply.gap
         /\ reply.class = "CLIENT" /\ At("idle") => session = reply.before

\* A step of a request that goes on with it.
Advances ==
    /\ IsOp(op) /\ IsOp(op') /\ UNCHANGED reply
    /\ op'.req = op.req /\ op'.owner = op.owner /\ op'.deadline = op.deadline
    /\ op'.remaining = op.remaining /\ op'.start = op.start /\ op'.gap = op.gap
    /\ op'.before = op.before
    /\ op.stage \in Early => op.stage = "admit" /\ op'.stage = "commit"
    /\ op.stage \notin Early => op'.stage \notin Early

\* A step that answers it.
Answers ==
    /\ IsOp(op) /\ op' = Idle
    /\ reply'.asked = op.req /\ reply'.at = now /\ reply'.gap = op.gap /\ reply'.before = op.before
    /\ reply'.ok => op.stage = "encoded" /\ ~Late
    /\ reply'.class = "CLIENT" => op.stage = "admit"

\* What every step of a request but the first clock reading and the commit of
\* the deadline does.
Works ==
    \/ Admit \/ Size \/ (\E x \in Vectors \union Facts : Scan(x)) \/ ScanExpired
    \/ (\E class \in {"RESOURCE", "INTEGRITY"} : StoreFault(class))
    \/ (\E fault \in {None, "RESOURCE", "INTEGRITY"} : FinishSlot(fault) \/ RankedObjects(fault))
    \/ Collect \/ Build \/ Rank
    \/ (\E n \in {1, MaxIterations} : Iterate(n))
    \/ (\E sound \in BOOLEAN : Validate(sound))
    \/ (\E size \in Sizes : Encode(size))
    \/ Send

\* A request is not between requests.
LEMMA OpIsBusy == \A o : IsOp(o) => o.stage # "idle" /\ o # Idle
BY DEF IsOp, Idle, Stages

\* An answer to a request at a later stage than admission.
LEMMA Answered ==
    ASSUME IsOp(op), NEW work, NEW ok, NEW class, NEW found, NEW size,
           AnswerAfter(work, ok, class, found, size),
           ok => op.stage = "encoded" /\ ~Late,
           class = "CLIENT" => op.stage = "admit"
    PROVE  Answers
BY DEF AnswerAfter, Answers

\* Every step of a request advances or answers it and leaves the rest alone.
LEMMA WorkShapes ==
    ASSUME TypeInv, Works
    PROVE  Quiet /\ (Advances \/ Answers)
<1> USE DEF Checked, Fail, FailAfter
<1>0. \A stage \in Stages : At(stage) => IsOp(op)
  BY DEF TypeInv, At, Idle, Stages
<1>a. ASSUME NEW stage \in Stages, IsOp(op), To(stage),
             op.stage \in Early => op.stage = "admit" /\ stage = "commit",
             op.stage \notin Early => stage \notin Early
      PROVE  Advances
  BY <1>a DEF To, Advances, IsOp, Fields
<1>n. None # "CLIENT"
  BY NoneAssumption
<1>1. CASE Admit
  <2>1. IsOp(op) /\ op.stage = "admit" /\ Quiet
    BY <1>0, <1>1 DEF Admit, At, Stages
  <2>2. CASE ~Late /\ Admitted(op.req)
    <3>1. To("commit")
      BY <1>1, <2>2 DEF Admit
    <3>. QED BY <1>a, <2>1, <3>1 DEF Stages, Early
  <2>3. CASE ~(~Late /\ Admitted(op.req))
    <3>1. PICK class : AnswerAfter(op.work, FALSE, class, <<>>, 0)
      BY <1>1, <2>3 DEF Admit
    <3>. QED BY <2>1, <3>1, Answered
  <2>. QED BY <2>2, <2>3
<1>2. CASE Size
  <2>1. IsOp(op) /\ op.stage = "preflight" /\ Quiet
    BY <1>0, <1>2 DEF Size, At, Stages
  <2>2. CASE Preflight(op.req) /\ ~Late
    <3>1. \/ To("validate") \/ To("collect")
          \/ op' = [op EXCEPT !.stage = "scan", !.unseen = Items(op.req)] /\ UNCHANGED reply
      BY <1>2, <2>2 DEF Size
    <3>2. CASE op' = [op EXCEPT !.stage = "scan", !.unseen = Items(op.req)] /\ UNCHANGED reply
      BY <2>1, <3>2 DEF Advances, IsOp, Fields, Stages, Early
    <3>. QED BY <1>a, <2>1, <3>1, <3>2 DEF Stages, Early
  <2>3. CASE ~(Preflight(op.req) /\ ~Late)
    <3>1. \E class \in {"RESOURCE", "DEADLINE"} : AnswerAfter(op.work, FALSE, class, <<>>, 0)
      BY <1>2, <2>3 DEF Size
    <3>. QED BY <2>1, <3>1, Answered
  <2>. QED BY <2>2, <2>3
<1>3. CASE \E x \in Vectors \union Facts : Scan(x)
  <2>1. IsOp(op) /\ op.stage = "scan" /\ Quiet
    BY <1>0, <1>3 DEF Scan, At, Stages
  <2>. QED BY <1>3, <2>1 DEF Scan, Advances, IsOp, Fields, Stages, Early
<1>4. CASE ScanExpired
  <2>1. IsOp(op) /\ op.stage = "scan" /\ Quiet
    BY <1>0, <1>4 DEF ScanExpired, At, Stages
  <2>. QED BY <1>4, <2>1, Answered DEF ScanExpired
<1>5. CASE \E class \in {"RESOURCE", "INTEGRITY"} : StoreFault(class)
  <2>1. IsOp(op) /\ Quiet
    BY <1>0, <1>5 DEF StoreFault, At, Stages
  <2>. QED BY <1>5, <2>1, Answered DEF StoreFault
<1>6. ASSUME NEW fault \in {None, "RESOURCE", "INTEGRITY"}, FinishSlot(fault)
      PROVE  Quiet /\ (Advances \/ Answers)
  <2>1. IsOp(op) /\ op.stage = "scan" /\ Quiet
    BY <1>0, <1>6 DEF FinishSlot, At, Stages
  <2>2. \/ \E work : \E class \in {"RESOURCE", "DEADLINE", "INTEGRITY"} :
             AnswerAfter(work, FALSE, class, <<>>, 0)
        \/ \E work, found, slot, unseen :
             \E stage \in {"validate", "scan"} :
               /\ op' = [op EXCEPT !.work = work, !.found = found, !.heap = {}, !.slot = slot,
                                   !.unseen = unseen, !.stage = stage]
               /\ UNCHANGED reply
    <3> DEFINE k == Cardinality(op.heap)
               w == [op.work EXCEPT !.objects = @ + k]
    <3>1. CASE ~WorkFits(w)
      BY <1>6, <3>1 DEF FinishSlot
    <3>2. CASE WorkFits(w) /\ k > 0 /\ (Late \/ fault # None)
      BY <1>6, <3>2 DEF FinishSlot
    <3>3. CASE WorkFits(w) /\ ~(k > 0 /\ (Late \/ fault # None))
      <4> DEFINE last == op.slot = Len(Limits(op.req))
                 un == IF last THEN {} ELSE Items(op.req)
                 st == IF last THEN "validate" ELSE "scan"
      <4>1. /\ op' = [op EXCEPT !.work = w, !.found = Append(op.found, Ranked(op.heap)), !.heap = {},
                               !.slot = op.slot + 1, !.unseen = un, !.stage = st]
            /\ UNCHANGED reply
        BY <1>6, <3>3 DEF FinishSlot
      <4>2. st \in {"validate", "scan"}
        OBVIOUS
      <4> HIDE DEF st, un, w
      <4>. QED BY <4>1, <4>2
    <3>. QED BY <3>1, <3>2, <3>3
  <2>3. CASE \E work : \E class \in {"RESOURCE", "DEADLINE", "INTEGRITY"} :
               AnswerAfter(work, FALSE, class, <<>>, 0)
    BY <2>1, <2>3, Answered
  <2>4. CASE \E work, found, slot, unseen :
               \E stage \in {"validate", "scan"} :
                 /\ op' = [op EXCEPT !.work = work, !.found = found, !.heap = {}, !.slot = slot,
                                     !.unseen = unseen, !.stage = stage]
                 /\ UNCHANGED reply
    BY <2>1, <2>4 DEF Advances, IsOp, Fields, Stages, Early
  <2>. QED BY <2>1, <2>2, <2>3, <2>4
<1>7. ASSUME NEW fault \in {None, "RESOURCE", "INTEGRITY"}, RankedObjects(fault)
      PROVE  Quiet /\ (Advances \/ Answers)
  <2>1. IsOp(op) /\ op.stage = "objects" /\ Quiet
    BY <1>0, <1>7 DEF RankedObjects, At, Stages
  <2>2. \/ \E work : \E class \in {"RESOURCE", "DEADLINE", "INTEGRITY"} :
             AnswerAfter(work, FALSE, class, <<>>, 0)
        \/ \E work : op' = [op EXCEPT !.work = work, !.stage = "validate"] /\ UNCHANGED reply
    BY <1>7 DEF RankedObjects
  <2>3. CASE \E work : \E class \in {"RESOURCE", "DEADLINE", "INTEGRITY"} :
               AnswerAfter(work, FALSE, class, <<>>, 0)
    BY <2>1, <2>3, Answered
  <2>4. CASE \E work : op' = [op EXCEPT !.work = work, !.stage = "validate"] /\ UNCHANGED reply
    BY <2>1, <2>4 DEF Advances, IsOp, Fields, Stages, Early
  <2>. QED BY <2>1, <2>2, <2>3, <2>4
<1>8. ASSUME NEW stage \in Stages \ Early, NEW next \in Stages \ Early, NEW units,
             Work(stage, next, units)
      PROVE  Quiet /\ (Advances \/ Answers)
  <2>1. IsOp(op) /\ op.stage = stage /\ Quiet
    BY <1>0, <1>8 DEF Work, At
  <2>2. \/ \E work : AnswerAfter(work, FALSE, "DEADLINE", <<>>, 0)
        \/ \E work : op' = [op EXCEPT !.work = work, !.stage = next] /\ UNCHANGED reply
    BY <1>8 DEF Work
  <2>3. CASE \E work : AnswerAfter(work, FALSE, "DEADLINE", <<>>, 0)
    BY <2>1, <2>3, Answered
  <2>4. CASE \E work : op' = [op EXCEPT !.work = work, !.stage = next] /\ UNCHANGED reply
    BY <1>8, <2>1, <2>4 DEF Advances, IsOp, Fields
  <2>. QED BY <2>1, <2>2, <2>3, <2>4
<1>9. CASE Collect \/ Build \/ Rank \/ \E n \in {1, MaxIterations} : Iterate(n)
  <2>1. \E stage \in Stages \ Early, next \in Stages \ Early : \E units : Work(stage, next, units)
    BY <1>9 DEF Collect, Build, Rank, Iterate, Stages, Early
  <2>. QED BY <1>8, <2>1
<1>10. CASE \E sound \in BOOLEAN : Validate(sound)
  <2>1. IsOp(op) /\ op.stage = "validate" /\ Quiet
    BY <1>0, <1>10 DEF Validate, At, Stages
  <2>2. To("encode") \/ \E class \in {"DEADLINE", "INTEGRITY"} : AnswerAfter(op.work, FALSE, class, <<>>, 0)
    BY <1>10 DEF Validate
  <2>3. CASE To("encode")
    BY <1>a, <2>1, <2>3 DEF Stages, Early
  <2>. QED BY <2>1, <2>2, <2>3, Answered
<1>11. CASE \E size \in Sizes : Encode(size)
  <2>1. IsOp(op) /\ op.stage = "encode" /\ Quiet
    BY <1>0, <1>11 DEF Encode, At, Stages
  <2>2. To("encoded") \/ \E class \in {"DEADLINE", "SIZE"} : \E size : AnswerAfter(op.work, FALSE, class, <<>>, size)
    BY <1>11 DEF Encode
  <2>3. CASE To("encoded")
    BY <1>a, <2>1, <2>3 DEF Stages, Early
  <2>. QED BY <2>1, <2>2, <2>3, Answered
<1>12. CASE Send
  <2>1. IsOp(op) /\ op.stage = "encoded" /\ Quiet
    BY <1>0, <1>12 DEF Send, At, Stages
  <2>2. CASE Late
    <3>1. AnswerAfter(op.work, FALSE, "DEADLINE", <<>>, 0)
      BY <1>12, <2>2 DEF Send
    <3>. QED BY <2>1, <3>1, Answered
  <2>3. CASE ~Late
    <3>1. AnswerAfter(op.work, TRUE, None, op.found, 0)
      BY <1>12, <2>3 DEF Send
    <3>. QED BY <1>n, <2>1, <2>3, <3>1, Answered
  <2>. QED BY <2>2, <2>3
<1>. QED BY <1>1, <1>2, <1>3, <1>4, <1>5, <1>6, <1>7, <1>9, <1>10, <1>11, <1>12 DEF Works

\* The deadline a frame proposes is the session's or nearer, and at most one
\* operation away.
LEMMA PreviewNear ==
    ASSUME TypeInv, NEW b \in Budgets
    PROVE  /\ Preview(b) \in Moment /\ Preview(b) \in Int
           /\ Max({0, Preview(b) - now}) \in 0..MaxOperation
           /\ Max({0, Preview(b) - now}) = 0 \/ Max({0, Preview(b) - now}) = Preview(b) - now
           /\ session # None => Preview(b) <= session.deadline
<1> DEFINE m == Min({b, MaxOperation})
<1>1. b \in Nat /\ MaxOperation \in Nat /\ MaxNow \in Nat /\ now \in 0..MaxNow
  BY CapsAssumption DEF TypeInv
<1>2. m = IF b <= MaxOperation THEN b ELSE MaxOperation
  BY <1>1, MaxMin
<1> HIDE DEF m
<1>3. m \in 0..MaxOperation
  BY <1>1, <1>2
<1>4. now + m \in Nat /\ now + m <= MaxNow + MaxOperation
  BY <1>1, <1>3
<1>5. /\ Preview(b) \in Moment /\ Preview(b) <= now + m
      /\ session # None => Preview(b) <= session.deadline
  <2>1. CASE session = None
    BY <1>1, <1>4, <2>1 DEF Preview, m, Moment
  <2>2. CASE session # None
    <3>1. session.deadline \in Moment
      BY <2>2 DEF TypeInv
    <3>2. session.deadline \in Int /\ now + m \in Int
      BY <1>1, <1>4, <3>1 DEF Moment
    <3>3. Preview(b) = Min({session.deadline, now + m})
      BY <2>2 DEF Preview, m
    <3>4. Preview(b) = IF session.deadline <= now + m THEN session.deadline ELSE now + m
      BY <3>2, <3>3, MaxMin
    <3>. QED BY <1>1, <1>4, <3>1, <3>4 DEF Moment
  <2>. QED BY <2>1, <2>2
<1>6. Preview(b) \in Int /\ Preview(b) - now \in Int /\ Preview(b) - now <= MaxOperation
  BY <1>1, <1>3, <1>5 DEF Moment
<1>7. Max({0, Preview(b) - now}) = IF 0 >= Preview(b) - now THEN 0 ELSE Preview(b) - now
  BY <1>6, MaxMin
<1>. QED BY <1>1, <1>5, <1>6, <1>7

\* A frame is answered at once, or begins a bounded request.
Begins(r, b) ==
    /\ Bounded(r) /\ UNCHANGED reply
    /\ op' = [req |-> r, owner |-> b, deadline |-> Preview(b),
              remaining |-> Max({0, Preview(b) - now}), start |-> now, gap |-> 0,
              before |-> session, stage |-> "start", work |-> NoWork, slot |-> 1,
              heap |-> {}, unseen |-> {}, found |-> <<>>]

\* A frame of the kind the service bounds begins a request.
LEMMA FrameShapes ==
    ASSUME NEW r \in Requests, NEW b \in Budgets, ReadFrame(r, b)
    PROVE  \/ Begins(r, b)
           \/ /\ Bounded(r) \/ r.method \in {"mutation", "progress"}
              /\ AnswerFrame(r, r.id, FALSE, "CLIENT", <<>>)
           \/ r.method = "garbage" /\ AnswerFrame(r, 0, FALSE, "CLIENT", <<>>)
           \/ /\ r.method = "read"
              /\ \E keys \in SetToSeqs({x \in Vectors : x.ns = r.slots[1].ns}) :
                   \E size \in 1..Max({1, Cardinality({x \in Vectors : x.ns = r.slots[1].ns})}) :
                     \E hits \in VectorSearch(keys, size, r) :
                       AnswerFrame(r, r.id, TRUE, None, <<hits>>)
<1>1. CASE r.method = "garbage"
  BY <1>1 DEF ReadFrame
<1>2. CASE r.method = "read"
  BY <1>2 DEF ReadFrame
<1>3. CASE r.method \in {"mutation", "progress"}
  BY <1>3 DEF ReadFrame
<1>4. CASE r.method \in {"search", "expand", "ppr"}
  BY <1>4 DEF ReadFrame, Begins, Bounded
<1>. QED BY <1>1, <1>2, <1>3, <1>4, RequestsAssumption

\* The first clock reading of a request.
LEMMA StartShape ==
    ASSUME TypeInv, Start
    PROVE  /\ IsOp(op) /\ op.stage = "start" /\ Quiet /\ UNCHANGED reply
           /\ DOMAIN op' = Fields /\ op'.stage = "admit" /\ op'.start = now /\ op'.gap = now - op.start
           /\ \A f \in Fields \ {"stage", "start", "gap"} : op'[f] = op[f]
<1>1. IsOp(op) /\ op.stage = "start"
  BY DEF TypeInv, Start, At, Idle
<1>. QED BY <1>1 DEF Start, IsOp, Fields

\* The commit of the deadline, by a request that is in time.
LEMMA CommitShape ==
    ASSUME TypeInv, CommitDeadline
    PROVE  \/ Answers /\ op.stage = "commit" /\ UNCHANGED <<session, first>>
           \/ /\ IsOp(op) /\ op.stage = "commit" /\ UNCHANGED reply
              /\ DOMAIN op' = Fields /\ op'.stage = "preflight"
              /\ \A f \in Fields \ {"stage"} : op'[f] = op[f]
              /\ session' = [owner |-> op.owner, deadline |-> op.deadline]
              /\ first' = IF first = None THEN op.deadline ELSE first
<1>1. IsOp(op) /\ op.stage = "commit"
  BY DEF TypeInv, CommitDeadline, At, Idle
<1>2. CASE Late
  <2>1. AnswerAfter(op.work, FALSE, "DEADLINE", <<>>, 0) /\ UNCHANGED <<session, first>>
    BY <1>2 DEF CommitDeadline, Fail, FailAfter
  <2>. QED BY <1>1, <2>1, Answered
<1>3. CASE ~Late
  BY <1>1, <1>3 DEF CommitDeadline, To, IsOp, Fields
<1>. QED BY <1>2, <1>3

\* The steps there are.
LEMMA Steps ==
    ASSUME Next
    PROVE  \/ \E r \in Requests, b \in Budgets : ReadFrame(r, b)
           \/ Close \/ Tick \/ Start \/ CommitDeadline \/ Works
BY DEF Next, Works

\* The initial state.
LEMMA TypeInit == Init => TypeInv /\ DeadlineInv
BY CapsAssumption DEF Init, TypeInv, DeadlineInv, At, Idle

\* Types are kept.
LEMMA TypeNext == TypeInv /\ [Next]_vars => TypeInv'
<1> SUFFICES ASSUME TypeInv, [Next]_vars PROVE TypeInv'
  OBVIOUS
<1>0. MaxNow \in Nat /\ MaxFrames \in Nat /\ MaxOperation \in Nat
  BY CapsAssumption
<1>1. CASE UNCHANGED vars
  BY <1>1 DEF TypeInv, vars, IsOp, CatalogOpens
<1>2. ASSUME NEW r \in Requests, NEW b \in Budgets, ReadFrame(r, b) PROVE TypeInv'
  <2>1. /\ UNCHANGED <<now, graph, session, first>> /\ frames' = frames + 1 /\ frames < MaxFrames
        /\ open' = (r.method # "progress")
    BY <1>2 DEF ReadFrame
  <2>2. frames' \in 0..MaxFrames
    BY <1>0, <2>1 DEF TypeInv
  <2>3. open' \in BOOLEAN
    BY <2>1
  <2>4. op' = op \/ (IsOp(op') /\ op'.start = now)
    <3>1. CASE Begins(r, b)
      <4>1. DOMAIN op' = Fields
        BY <3>1 DEF Begins, Fields
      <4>2. now \in Nat
        BY <1>0 DEF TypeInv
      <4>. QED BY <3>1, <4>1, <4>2, PreviewNear DEF Begins, IsOp, Stages
    <3>2. CASE UNCHANGED op
      BY <3>2
    <3>. QED BY <1>2, <3>1, <3>2, FrameShapes DEF AnswerFrame
  <2>5. op' = Idle \/ (IsOp(op') /\ op'.start <= now')
    BY <1>0, <2>1, <2>4 DEF TypeInv
  <2>. QED BY <2>1, <2>2, <2>3, <2>5 DEF TypeInv, CatalogOpens
<1>3. CASE Close
  BY <1>3 DEF Close, TypeInv, IsOp, CatalogOpens
<1>4. CASE Tick
  <2>1. now' \in 0..MaxNow /\ UNCHANGED <<graph, session, first, frames, open, op>>
    BY <1>0, <1>4 DEF Tick, TypeInv
  <2>2. IsOp(op) /\ op.start <= now => op.start <= now'
    BY <1>0, <1>4 DEF Tick, TypeInv, IsOp
  <2>3. op' = Idle \/ (IsOp(op') /\ op'.start <= now')
    BY <2>1, <2>2 DEF TypeInv
  <2>. QED BY <2>1, <2>3 DEF TypeInv, CatalogOpens
<1>5. CASE Start
  <2>1. /\ IsOp(op) /\ Quiet /\ DOMAIN op' = Fields /\ op'.stage = "admit"
        /\ op'.start = now /\ op'.gap = now - op.start
        /\ \A f \in Fields \ {"stage", "start", "gap"} : op'[f] = op[f]
    BY <1>5, StartShape
  <2>2. now \in Nat /\ op.start \in Nat /\ op.start <= now
    BY <1>0, <2>1, OpIsBusy DEF TypeInv, IsOp
  <2>3. now - op.start \in Nat /\ now <= now
    BY <2>2
  <2>4. IsOp(op') /\ op'.start <= now
    BY <2>1, <2>2, <2>3 DEF IsOp, Fields, Stages
  <2>. QED BY <2>1, <2>4 DEF TypeInv, Quiet, CatalogOpens
<1>6. CASE CommitDeadline
  <2>0. UNCHANGED <<now, graph, frames, open>>
    BY <1>6 DEF CommitDeadline
  <2>1. CASE Answers /\ UNCHANGED <<session, first>>
    BY <2>0, <2>1 DEF TypeInv, Answers, CatalogOpens
  <2>2. CASE /\ IsOp(op) /\ DOMAIN op' = Fields /\ op'.stage = "preflight"
             /\ \A f \in Fields \ {"stage"} : op'[f] = op[f]
             /\ session' = [owner |-> op.owner, deadline |-> op.deadline]
             /\ first' = IF first = None THEN op.deadline ELSE first
    <3>1. IsOp(op') /\ op'.start = op.start /\ op.start <= now
      BY <2>2, OpIsBusy DEF TypeInv, IsOp, Fields, Stages
    <3>2. session' \in [owner : Budgets, deadline : Moment] /\ (first' = first \/ first' \in Moment)
      BY <2>2 DEF IsOp
    <3>. QED BY <2>0, <3>1, <3>2 DEF TypeInv, CatalogOpens
  <2>. QED BY <1>6, <2>1, <2>2, CommitShape
<1>7. CASE Works
  <2>1. Quiet /\ (op' = Idle \/ (IsOp(op') /\ op'.start <= now))
    BY <1>7, WorkShapes, OpIsBusy DEF Advances, Answers, TypeInv
  <2>. QED BY <2>1 DEF TypeInv, Quiet, CatalogOpens
<1>. QED BY <1>1, <1>2, <1>3, <1>4, <1>5, <1>6, <1>7, Steps

\* The deadline invariant is kept.
LEMMA DeadlineNext == TypeInv /\ DeadlineInv /\ [Next]_vars => DeadlineInv'
<1> SUFFICES ASSUME TypeInv, DeadlineInv, [Next]_vars PROVE DeadlineInv'
  OBVIOUS
<1>0. /\ now \in Nat /\ MaxNow \in Nat /\ MaxOperation \in Nat
      /\ session # None => session.deadline \in Nat
      /\ first # None => first \in Nat
      /\ \A o : IsOp(o) => o.deadline \in Nat /\ o.start \in Nat /\ o.gap \in Nat
      /\ None \notin Moment
  BY CapsAssumption, NoneAssumption DEF TypeInv, IsOp, Moment
<1>n. None # "CLIENT"
  BY NoneAssumption
<1> DEFINE ReplyPart(f, s, rep, idle) ==
             rep # None =>
               /\ rep.ok /\ Bounded(rep.asked) =>
                    f # None /\ rep.at \in Nat /\ rep.gap \in Nat /\ rep.at < f + rep.gap
               /\ rep.class = "CLIENT" /\ idle => s = rep.before
           SessionPart(f, s) == (s = None <=> f = None) /\ (s # None => s.deadline <= f)
           OpPart(f, s, o) ==
             o.stage # "idle" =>
               /\ o.remaining = 0 \/ o.remaining = o.deadline - o.start + o.gap
               /\ o.stage = "start" => o.gap = 0
               /\ o.stage \in Early => o.before = s /\ (s # None => o.deadline <= s.deadline)
               /\ o.stage \notin Early => f # None /\ o.deadline <= f
<1>a. ReplyPart(first, session, reply, At("idle")) /\ SessionPart(first, session) /\ OpPart(first, session, op)
  BY DEF DeadlineInv, At
<1>b. SUFFICES ReplyPart(first', session', reply', op'.stage = "idle") /\ SessionPart(first', session')
                 /\ OpPart(first', session', op')
  BY DEF DeadlineInv, At
<1> HIDE DEF ReplyPart, SessionPart, OpPart
<1>1. CASE UNCHANGED vars
  BY <1>1, <1>a DEF vars, At
<1>2. ASSUME NEW r \in Requests, NEW b \in Budgets, ReadFrame(r, b)
      PROVE  ReplyPart(first', session', reply', op'.stage = "idle") /\ SessionPart(first', session')
                 /\ OpPart(first', session', op')
  <2>1. UNCHANGED <<now, graph, session, first>> /\ At("idle")
    BY <1>2 DEF ReadFrame
  <2>2. CASE Begins(r, b)
    <3>1. OpPart(first', session', op')
      <4>1. \/ Max({0, Preview(b) - now}) = 0
            \/ Max({0, Preview(b) - now}) = Preview(b) - now + 0
        <5>1. Preview(b) \in Int
          BY PreviewNear
        <5>. QED BY <1>0, <5>1, PreviewNear
      <4>2. session # None => Preview(b) <= session.deadline
        BY PreviewNear
      <4>3. /\ op'.remaining = Max({0, Preview(b) - now}) /\ op'.deadline = Preview(b)
            /\ op'.start = now /\ op'.gap = 0 /\ op'.stage = "start" /\ op'.before = session
        BY <2>2 DEF Begins
      <4>4. Preview(b) - now + 0 = Preview(b) - now
        <5>1. Preview(b) \in Int
          BY PreviewNear
        <5>. QED BY <1>0, <5>1
      <4>. QED BY <2>1, <4>1, <4>2, <4>3, <4>4 DEF OpPart, Early
    <3>2. op'.stage # "idle" /\ UNCHANGED reply
      BY <2>2 DEF Begins
    <3>3. ReplyPart(first', session', reply', op'.stage = "idle")
      BY <1>a, <2>1, <3>2 DEF ReplyPart
    <3>. QED BY <1>a, <2>1, <3>1, <3>3
  <2>3. ASSUME NEW id, NEW ok, NEW class, NEW found, AnswerFrame(r, id, ok, class, found),
               ok => ~Bounded(r)
        PROVE  ReplyPart(first', session', reply', op'.stage = "idle") /\ OpPart(first', session', op')
    BY <1>a, <2>1, <2>3 DEF AnswerFrame, ReplyPart
  <2>4. r.method = "read" => ~Bounded(r)
    BY DEF Bounded
  <2>. QED BY <1>2, <1>a, <2>1, <2>2, <2>3, <2>4, FrameShapes
<1>3. CASE Close
  BY <1>3, <1>a DEF Close, At
<1>4. CASE Tick
  BY <1>4, <1>a DEF Tick, At
<1>5. CASE Start
  <2>1. /\ IsOp(op) /\ op.stage = "start" /\ Quiet /\ UNCHANGED reply
        /\ op'.stage = "admit" /\ op'.start = now /\ op'.gap = now - op.start
        /\ op'.remaining = op.remaining /\ op'.deadline = op.deadline /\ op'.before = op.before
    BY <1>5, StartShape DEF Fields
  <2>2. op.gap = 0 /\ op.start \in Nat /\ op.deadline \in Nat
    BY <1>0, <1>a, <2>1 DEF OpPart
  <2>3. op.deadline - now + (now - op.start) = op.deadline - op.start + op.gap
    BY <1>0, <2>2
  <2>4. OpPart(first', session', op')
    BY <1>a, <2>1, <2>3 DEF OpPart, Quiet, Early
  <2>5. ReplyPart(first', session', reply', op'.stage = "idle")
    BY <1>a, <2>1 DEF ReplyPart, Quiet
  <2>. QED BY <1>a, <2>1, <2>4, <2>5 DEF Quiet
<1>c. ASSUME Answers, UNCHANGED <<session, first>>
      PROVE  ReplyPart(first', session', reply', op'.stage = "idle") /\ OpPart(first', session', op')
  <2>1. IsOp(op) /\ op'.stage = "idle" /\ op.stage # "idle"
    BY <1>c, OpIsBusy DEF Answers, Idle
  <2>2. OpPart(first', session', op')
    BY <2>1 DEF OpPart
  <2>3. ASSUME reply'.ok
        PROVE  first # None /\ now \in Nat /\ op.gap \in Nat /\ now < first + op.gap
    <3>1. op.stage = "encoded" /\ ~Late
      BY <1>c, <2>3 DEF Answers
    <3>2. /\ first # None /\ op.deadline <= first
          /\ op.remaining = 0 \/ op.remaining = op.deadline - op.start + op.gap
      BY <1>a, <3>1 DEF OpPart, Early
    <3>3. op.start <= now
      BY <2>1, OpIsBusy DEF TypeInv
    <3>4. ~(now - op.start >= op.remaining)
      BY <3>1 DEF Late
    <3>5. now \in Nat /\ op.gap \in Nat /\ op.start \in Nat /\ op.deadline \in Nat /\ first \in Nat
      BY <1>0, <2>1, <3>2
    <3>. QED BY <3>2, <3>3, <3>4, <3>5
  <2>4. ASSUME reply'.class = "CLIENT" PROVE session = op.before
    BY <1>a, <1>c, <2>4 DEF Answers, OpPart, Early
  <2>5. reply'.at = now /\ reply'.gap = op.gap /\ reply'.before = op.before
    BY <1>c DEF Answers
  <2>. QED BY <1>c, <2>2, <2>3, <2>4, <2>5 DEF ReplyPart
<1>6. CASE CommitDeadline
  <2>1. CASE Answers /\ UNCHANGED <<session, first>>
    BY <1>a, <1>c, <2>1
  <2>2. CASE /\ IsOp(op) /\ op.stage = "commit" /\ UNCHANGED reply
             /\ DOMAIN op' = Fields /\ op'.stage = "preflight"
             /\ \A f \in Fields \ {"stage"} : op'[f] = op[f]
             /\ session' = [owner |-> op.owner, deadline |-> op.deadline]
             /\ first' = IF first = None THEN op.deadline ELSE first
    <3>1. /\ op'.remaining = op.remaining /\ op'.deadline = op.deadline /\ op'.start = op.start
          /\ op'.gap = op.gap
      BY <2>2 DEF Fields
    <3>2. op.deadline \in Moment /\ session' \in [owner : Budgets, deadline : Moment]
      BY <2>2 DEF IsOp
    <3>3. session' # None /\ first' # None
      BY <1>0, <2>2, <3>2, NoneAssumption DEF Moment
    <3>4. op.deadline <= first'
      <4>1. CASE first = None
        BY <1>0, <2>2, <4>1
      <4>2. CASE first # None
        <5>1. session # None /\ session.deadline <= first /\ op.deadline <= session.deadline
          BY <1>a, <2>2, <4>2 DEF SessionPart, OpPart, Early
        <5>2. op.deadline \in Nat /\ session.deadline \in Nat /\ first \in Nat
          BY <1>0, <2>2, <4>2, <5>1
        <5>. QED BY <2>2, <4>2, <5>1, <5>2
      <4>. QED BY <4>1, <4>2
    <3>5. SessionPart(first', session')
      BY <2>2, <3>3, <3>4 DEF SessionPart
    <3>6. OpPart(first', session', op')
      BY <1>a, <2>2, <3>1, <3>3, <3>4 DEF OpPart, Early
    <3>7. ReplyPart(first', session', reply', op'.stage = "idle")
      BY <1>a, <2>2 DEF ReplyPart
    <3>. QED BY <3>5, <3>6, <3>7
  <2>. QED BY <1>6, <2>1, <2>2, CommitShape
<1>7. CASE Works
  <2>1. Quiet /\ (Advances \/ Answers)
    BY <1>7, WorkShapes
  <2>2. CASE Answers
    BY <1>a, <1>c, <2>1, <2>2 DEF Quiet
  <2>3. CASE Advances
    <3>1. op.stage # "idle" /\ op'.stage # "idle"
      BY <2>3, OpIsBusy DEF Advances
    <3>2. OpPart(first', session', op')
      BY <1>a, <2>1, <2>3, <3>1 DEF OpPart, Advances, Quiet, Early
    <3>3. ReplyPart(first', session', reply', op'.stage = "idle")
      BY <1>a, <2>1, <2>3, <3>1 DEF ReplyPart, Advances, Quiet
    <3>. QED BY <1>a, <2>1, <3>2, <3>3 DEF Quiet
  <2>. QED BY <2>1, <2>2, <2>3
<1>. QED BY <1>1, <1>2, <1>3, <1>4, <1>5, <1>6, <1>7, Steps

\* A session never outlives the deadline its first admitted request set, by more
\* than the time between the two clock readings of one request, whatever budgets
\* later requests claim; a request refused for its content leaves the session as
\* it found it.
THEOREM DeadlineHolds == Spec => []SessionDeadline
<1>1. Init => TypeInv /\ DeadlineInv
  BY TypeInit
<1>2. TypeInv /\ DeadlineInv /\ [Next]_vars => (TypeInv /\ DeadlineInv)'
  BY TypeNext, DeadlineNext
<1>3. DeadlineInv => SessionDeadline
  BY DEF DeadlineInv, SessionDeadline
<1>. QED BY <1>1, <1>2, <1>3, PTL DEF Spec

-----------------------------------------------------------------------------
(* The work of a request. *)

Opening == {"start", "admit", "commit", "preflight"}
Ranking == {"collect", "build", "iterate", "rank", "objects"}
Closing == {"validate", "encode", "encoded"}

\* What slot i of a search, or an expansion, must return.
Hits(r, i) == Best({x \in Items(r) : Keeps(r, i, x)}, Limits(r)[i])
IsHits(found, r, n) == found = [i \in 1..n |-> Hits(r, i)]

\* A scan has the best of what it has met in the slot, and the answers of the
\* slots before.
Scanning(o) ==
    /\ o.req.method # "ppr" /\ o.slot \in 1..Len(Limits(o.req)) /\ o.unseen \subseteq Items(o.req)
    /\ IsTop(o.heap, {x \in Items(o.req) \ o.unseen : Keeps(o.req, o.slot, x)},
             Limits(o.req)[o.slot])
    /\ IsHits(o.found, o.req, o.slot - 1)

\* A request that works was admitted and sized.
ScanInv(o) ==
    /\ o.stage \notin {"start", "admit"} => Admitted(o.req)
    /\ o.stage \notin Opening => Preflight(o.req)
    /\ o.stage \in Opening => o.slot = 1 /\ o.heap = {} /\ o.found = <<>> /\ o.work = NoWork
    /\ o.stage \in Ranking => o.req.method = "ppr"
    /\ o.stage = "scan" => Scanning(o)
    /\ o.stage \in Closing /\ o.req.method # "ppr" => IsHits(o.found, o.req, Len(Limits(o.req)))

\* The counters fit, with what the stages to come will add to them.
WorkInv(o) ==
    /\ o.work \in [comparisons : Nat, facts : Nat, units : Nat, objects : Nat] /\ WorkFits(o.work)
    /\ o.stage = "scan" =>
         /\ o.work.objects <= SumOfFirst(Limits(o.req), o.slot - 1)
         /\ o.req.method = "search" =>
              o.work.comparisons + Cardinality(o.unseen) <= o.slot * Cardinality(Vectors)
         /\ o.req.method = "expand" =>
              o.slot = 1 /\ o.work.facts + Cardinality(o.unseen) <= Cardinality(Facts)
    /\ o.stage = "collect" => o.work.units = 0
    /\ o.stage = "build"   => o.work.units = CollectUnits(graph)
    /\ o.stage = "iterate" => o.work.units = CollectUnits(graph) + BuildUnits(graph)
    /\ o.stage = "rank"    => o.work.units + RankUnits(graph) <= MaxGraphScanUnits

ProgressInv ==
    /\ ~At("idle") => ScanInv(op) /\ WorkInv(op)
    /\ AnswerEncodes /\ SearchExact

\* The limits of a request that scans, and the stores it scans.
LEMMA LimitsAre ==
    ASSUME NEW r \in Requests, r.method \in {"search", "read", "expand", "ppr"}
    PROVE  /\ Limits(r) \in Seq(Nat) /\ Len(Limits(r)) \in Nat /\ Objects(r) \in Nat
           /\ DOMAIN Limits(r) = 1..Len(Limits(r))
           /\ r.method = "expand" => Len(Limits(r)) = 1
           /\ Ordered(Items(r)) /\ Ordered(Vectors)
<1>1. Limits(r) \in Seq(Nat)
  BY RequestsAssumption
<1>2. Len(Limits(r)) \in Nat /\ DOMAIN Limits(r) = 1..Len(Limits(r))
  BY <1>1
<1>3. Objects(r) \in Nat
  <2>1. Len(Limits(r)) \in 0..Len(Limits(r))
    BY <1>2
  <2>. QED BY <1>1, <2>1, Sums DEF Objects
<1>4. r.method = "expand" => Limits(r) = <<r.limit>>
  BY DEF Limits
<1>5. Ordered(Vectors) /\ Ordered(Facts)
  BY StoreAssumption DEF Ordered
<1>. QED BY <1>1, <1>2, <1>3, <1>4, <1>5 DEF Items

\* What a request under execution is known to be.
LEMMA OpLimits ==
    ASSUME IsOp(op)
    PROVE  /\ op.req \in Requests /\ op.req.method \in {"search", "expand", "ppr"}
           /\ Limits(op.req) \in Seq(Nat) /\ Len(Limits(op.req)) \in Nat /\ Objects(op.req) \in Nat
           /\ DOMAIN Limits(op.req) = 1..Len(Limits(op.req))
           /\ op.req.method = "expand" => Len(Limits(op.req)) = 1
           /\ Ordered(Items(op.req)) /\ Ordered(Vectors)
BY LimitsAre DEF IsOp, Bounded

\* A reply with the hits of every slot, as SearchExact states it.
Exact(p) ==
    p # None /\ p.ok /\ p.asked.method \in {"search", "expand", "read"} =>
      /\ Len(p.found) = Len(Limits(p.asked))
      /\ \A i \in DOMAIN Limits(p.asked) : p.found[i] = Hits(p.asked, i)

\* SearchExact speaks of the reply alone.
LEMMA ExactForm == SearchExact <=> Exact(reply)
BY Zenon DEF SearchExact, Exact, Hits, Best

\* The same after a step.
LEMMA ExactFormNext == SearchExact' <=> Exact(reply')
BY Zenon DEF SearchExact, Exact, Hits, Best

\* An answer whose counters fit is a good one, when a frame is refused for its
\* size only if it does not encode, and a success carries the hits.
LEMMA AnsweredWell ==
    ASSUME IsOp(op), NEW work, NEW ok \in BOOLEAN, NEW class, NEW found, NEW size,
           AnswerAfter(work, ok, class, found, size), WorkFits(work),
           class = "SIZE" => size \in Nat /\ ~Encodes(size),
           ok /\ op.req.method # "ppr" => IsHits(found, op.req, Len(Limits(op.req)))
    PROVE  op' = Idle /\ (AnswerEncodes /\ SearchExact)'
<1>1. /\ op' = Idle /\ reply'.id = op.req.id /\ reply'.asked = op.req /\ reply'.ok = ok
      /\ reply'.class = class /\ reply'.found = found /\ reply'.size = size
  BY DEF AnswerAfter
<1>2. AnswerEncodes'
  <2>1. ASSUME class = "SIZE", NEW length \in (size + 1)..(size + 7), length = size + Digits(length)
        PROVE  length > MaxResponseBytes
    <3>1. size \in Nat /\ length \in Nat /\ MaxResponseBytes \in Nat
      BY <2>1, CapsAssumption
    <3>. QED BY <2>1, <3>1, FixedPointFound
  <2>. QED BY <1>1, <2>1 DEF AnswerEncodes
<1>3. SearchExact'
  <2>1. ASSUME ok, op.req.method # "ppr"
        PROVE  /\ Len(found) = Len(Limits(op.req))
               /\ \A i \in DOMAIN Limits(op.req) : found[i] = Hits(op.req, i)
    <3> DEFINE n == Len(Limits(op.req))
               H(i) == Hits(op.req, i)
    <3>1. n \in Nat /\ DOMAIN Limits(op.req) = 1..n
      BY OpLimits
    <3>2. found = [i \in 1..n |-> H(i)]
      BY <2>1 DEF IsHits
    <3> HIDE DEF n, H
    <3>3. Len(found) = n
      BY <3>1, <3>2
    <3>. QED BY <3>1, <3>2, <3>3 DEF n, H
  <2>. QED BY <1>1, <2>1, ExactFormNext DEF Exact
<1>. QED BY <1>1, <1>2, <1>3

\* An error after no more work is one.
LEMMA FailedWell ==
    ASSUME IsOp(op), WorkInv(op), NEW class, class # "SIZE", Fail(class)
    PROVE  op' = Idle /\ (AnswerEncodes /\ SearchExact)'
<1>1. WorkFits(op.work) /\ AnswerAfter(op.work, FALSE, class, <<>>, 0)
  BY DEF WorkInv, Fail, FailAfter
<1>. QED BY <1>1, AnsweredWell

\* What a step must show.
LEMMA Progresses ==
    ASSUME UNCHANGED graph, op' = Idle \/ (ScanInv(op') /\ WorkInv(op')),
           (UNCHANGED reply /\ AnswerEncodes /\ SearchExact) \/ (AnswerEncodes /\ SearchExact)'
    PROVE  ProgressInv'
<1>1. (AnswerEncodes /\ SearchExact)'
  BY ExactForm, ExactFormNext DEF AnswerEncodes
<1>2. ScanInv(op') => ScanInv(op)'
  BY DEF ScanInv, Scanning, Preflight, Bytes
<1>3. WorkInv(op') => WorkInv(op)'
  BY DEF WorkInv
<1>. QED BY <1>1, <1>2, <1>3 DEF ProgressInv, At, Idle

\* A step that goes on with the request, or answers it, as the invariant asks.
StepWell ==
    \/ UNCHANGED reply /\ ScanInv(op') /\ WorkInv(op')
    \/ op' = Idle /\ (AnswerEncodes /\ SearchExact)'

\* What a step of a request starts from.
LEMMA Busy ==
    ASSUME TypeInv, ProgressInv, op.stage \in Stages
    PROVE  IsOp(op) /\ ScanInv(op) /\ WorkInv(op)
BY DEF TypeInv, ProgressInv, Idle, Stages, At

\* Only the stage changes.
LEMMA Moved ==
    ASSUME IsOp(op), NEW stage, To(stage)
    PROVE  /\ UNCHANGED reply /\ op'.stage = stage
           /\ op'.req = op.req /\ op'.work = op.work /\ op'.slot = op.slot /\ op'.heap = op.heap
           /\ op'.unseen = op.unseen /\ op'.found = op.found
BY DEF To, IsOp, Fields

\* Nothing fits better than no work.
LEMMA NoWorkFits ==
    /\ NoWork \in [comparisons : Nat, facts : Nat, units : Nat, objects : Nat] /\ WorkFits(NoWork)
    /\ MaxGraphScanUnits \in Nat
<1>1. MaxGraphScanUnits \in Nat
  <2> DEFINE v == 4 * MaxGraphNodes + MaxGraphEdges
  <2>1. MaxGraphNodes \in Nat /\ MaxGraphEdges \in Nat /\ MaxIterations \in Nat
    BY CapsAssumption
  <2>2. v \in Nat
    BY <2>1
  <2>3. MaxIterations * v \in Nat
    BY <2>1, <2>2
  <2>. QED BY <2>1, <2>3 DEF MaxGraphScanUnits
<1>. QED BY <1>1, CapsAssumption DEF NoWork, WorkFits

\* A search without slots has no hits, and none are found before the first slot.
LEMMA NoHits == \A r : IsHits(<<>>, r, 0)
<1> SUFFICES ASSUME NEW r PROVE IsHits(<<>>, r, 0)
  OBVIOUS
<1> DEFINE H(i) == Hits(r, i)
<1>1. <<>> = [i \in 1..0 |-> H(i)]
  <2> HIDE DEF H
  <2>. QED OBVIOUS
<1>. QED BY <1>1 DEF IsHits

\* The steps up to the work.
LEMMA OpeningSteps ==
    ASSUME TypeInv, ProgressInv, Admit \/ Size
    PROVE  StepWell /\ UNCHANGED graph
<1> USE DEF Checked
<1>1. CASE Admit
  <2>1. op.stage = "admit" /\ UNCHANGED graph
    BY <1>1 DEF Admit, At, Quiet
  <2>2. IsOp(op) /\ ScanInv(op) /\ WorkInv(op)
    BY <2>1, Busy DEF Stages
  <2>3. CASE ~Late /\ Admitted(op.req)
    <3>1. To("commit")
      BY <1>1, <2>3 DEF Admit
    <3>. QED BY <2>1, <2>2, <2>3, <3>1, Moved DEF StepWell, ScanInv, WorkInv, Opening, Ranking, Closing
  <2>4. CASE ~(~Late /\ Admitted(op.req))
    <3>1. Fail("DEADLINE") \/ Fail("CLIENT")
      BY <1>1, <2>4 DEF Admit
    <3>. QED BY <2>1, <2>2, <3>1, FailedWell DEF StepWell
  <2>. QED BY <2>3, <2>4
<1>2. CASE Size
  <2>1. op.stage = "preflight" /\ UNCHANGED graph
    BY <1>2 DEF Size, At, Quiet
  <2>2. IsOp(op) /\ ScanInv(op) /\ WorkInv(op)
    BY <2>1, Busy DEF Stages
  <2>3. /\ op.slot = 1 /\ op.heap = {} /\ op.found = <<>> /\ op.work = NoWork
        /\ Admitted(op.req)
    BY <2>1, <2>2 DEF ScanInv, Opening
  <2>4. CASE ~(Preflight(op.req) /\ ~Late)
    <3>1. Fail("DEADLINE") \/ Fail("RESOURCE")
      BY <1>2, <2>4 DEF Size
    <3>. QED BY <2>1, <2>2, <3>1, FailedWell DEF StepWell
  <2>5. CASE Preflight(op.req) /\ ~Late /\ op.req.method = "ppr"
    <3>1. PICK stage \in {"validate", "collect"} : To(stage)
      BY <1>2, <2>5 DEF Size
    <3>2. ScanInv(op')
      BY <2>1, <2>2, <2>3, <2>5, <3>1, Moved DEF ScanInv, Opening, Ranking, Closing
    <3>3. WorkInv(op')
      BY <2>1, <2>2, <2>3, <2>5, <3>1, Moved DEF WorkInv, NoWork
    <3>. QED BY <2>1, <2>2, <3>1, <3>2, <3>3, Moved DEF StepWell
  <2>6. CASE Preflight(op.req) /\ ~Late /\ op.req.method # "ppr" /\ Limits(op.req) = <<>>
    <3>1. To("validate")
      BY <1>2, <2>6 DEF Size
    <3>2. ScanInv(op')
      BY <2>1, <2>2, <2>3, <2>6, <3>1, Moved, NoHits DEF ScanInv, Opening, Ranking, Closing
    <3>3. WorkInv(op')
      BY <2>1, <2>2, <2>3, <2>6, <3>1, Moved DEF WorkInv, NoWork
    <3>. QED BY <2>1, <2>2, <3>1, <3>2, <3>3, Moved DEF StepWell
  <2>7. CASE Preflight(op.req) /\ ~Late /\ op.req.method # "ppr" /\ Limits(op.req) # <<>>
    <3>1. op' = [op EXCEPT !.stage = "scan", !.unseen = Items(op.req)] /\ UNCHANGED reply
      BY <1>2, <2>7 DEF Size
    <3>2. /\ op'.stage = "scan" /\ op'.unseen = Items(op.req) /\ op'.req = op.req
          /\ op'.work = NoWork /\ op'.slot = 1 /\ op'.heap = {} /\ op'.found = <<>>
      BY <2>2, <2>3, <3>1 DEF IsOp, Fields
    <3>3. /\ Limits(op.req) \in Seq(Nat) /\ Len(Limits(op.req)) \in Nat /\ Len(Limits(op.req)) # 0
          /\ Limits(op.req)[1] \in Nat
      BY <2>2, <2>7, OpLimits
    <3>4. Scanning(op')
      <4>1. {x \in Items(op.req) \ Items(op.req) : Keeps(op.req, 1, x)} = {}
        OBVIOUS
      <4>2. IsTop({}, {}, Limits(op.req)[1])
        BY <3>3, FS_EmptySet DEF IsTop
      <4>3. 1 \in 1..Len(Limits(op.req)) /\ 1 - 1 = 0
        BY <3>3
      <4>4. IsHits(op'.found, op'.req, op'.slot - 1)
        BY <3>2, <4>3, NoHits
      <4>5. IsTop(op'.heap, {x \in Items(op'.req) \ op'.unseen : Keeps(op'.req, op'.slot, x)},
                  Limits(op'.req)[op'.slot])
        BY <3>2, <4>1, <4>2
      <4>. QED BY <2>7, <3>2, <4>3, <4>4, <4>5 DEF Scanning
    <3>5. ScanInv(op')
      BY <2>3, <2>7, <3>2, <3>4 DEF ScanInv, Opening, Ranking, Closing
    <3>6. WorkInv(op')
      <4>1. Cardinality(Vectors) \in Nat /\ Cardinality(Facts) \in Nat
        BY StoreAssumption, FS_CardinalityType
      <4>2. SumOfFirst(Limits(op.req), 0) = 0
        BY <3>3, Sums
      <4>3. op'.work.objects = 0 /\ op'.work.comparisons = 0 /\ op'.work.facts = 0
        BY <3>2 DEF NoWork
      <4>4. /\ op'.req.method = "search" => op'.unseen = Vectors
            /\ op'.req.method = "expand" => op'.unseen = Facts
        BY <3>2 DEF Items
      <4>. QED BY <3>2, <4>1, <4>2, <4>3, <4>4, NoWorkFits DEF WorkInv
    <3>. QED BY <2>1, <3>1, <3>5, <3>6 DEF StepWell
  <2>. QED BY <2>4, <2>5, <2>6, <2>7
<1>. QED BY <1>1, <1>2

\* A scan never compares more than was sized for.
LEMMA ComparisonsFit ==
    ASSUME NEW c \in Nat, NEW u \in Nat, NEW v \in Nat, NEW slot \in Nat, NEW n \in Nat, slot <= n,
           c + u <= slot * v, v * n <= MaxVectorComparisons
    PROVE  c <= MaxVectorComparisons
<1>0. MaxVectorComparisons \in Nat
  BY CapsAssumption
<1>1. slot * v <= n * v /\ slot * v \in Nat /\ n * v \in Nat /\ n * v = v * n
  OBVIOUS
<1>. QED BY <1>0, <1>1

\* A stored item is met.
LEMMA ScanStep ==
    ASSUME TypeInv, ProgressInv, NEW x \in Vectors \union Facts, Scan(x)
    PROVE  StepWell /\ UNCHANGED graph
<1>1. op.stage = "scan" /\ x \in op.unseen /\ UNCHANGED graph /\ UNCHANGED reply
  BY DEF Scan, At, Quiet
<1>2. IsOp(op) /\ ScanInv(op) /\ WorkInv(op)
  BY <1>1, Busy DEF Stages
<1> DEFINE r == op.req
           slot == op.slot
           S == {y \in Items(r) \ op.unseen : Keeps(r, slot, y)}
           k == Limits(r)[slot]
<1>3. /\ Scanning(op) /\ Admitted(r) /\ Preflight(r)
      /\ r.method # "ppr" /\ slot \in 1..Len(Limits(r)) /\ op.unseen \subseteq Items(r)
      /\ IsTop(op.heap, S, k) /\ IsHits(op.found, r, slot - 1)
  BY <1>1, <1>2 DEF ScanInv, Opening, Scanning
<1>4. /\ r.method \in {"search", "expand"} /\ Limits(r) \in Seq(Nat) /\ Len(Limits(r)) \in Nat
      /\ Ordered(Items(r)) /\ k \in Nat
  BY <1>2, <1>3, OpLimits
<1>5. /\ op'.stage = "scan" /\ op'.req = r /\ op'.slot = slot /\ op'.found = op.found
      /\ op'.unseen = op.unseen \ {x}
      /\ op'.heap = IF Keeps(r, slot, x) THEN Retain(op.heap, x, k) ELSE op.heap
      /\ op'.work = IF r.method = "search" THEN [op.work EXCEPT !.comparisons = @ + 1]
                    ELSE [op.work EXCEPT !.facts = @ + 1]
  <2> DEFINE A == op.unseen \ {x}
             B == IF Keeps(r, slot, x) THEN Retain(op.heap, x, k) ELSE op.heap
             C == IF r.method = "search" THEN [op.work EXCEPT !.comparisons = @ + 1]
                  ELSE [op.work EXCEPT !.facts = @ + 1]
  <2>1. op' = [op EXCEPT !.unseen = A, !.heap = B, !.work = C]
    BY DEF Scan
  <2> HIDE DEF A, B, C
  <2>2. /\ op'.stage = op.stage /\ op'.req = r /\ op'.slot = slot /\ op'.found = op.found
        /\ op'.unseen = A /\ op'.heap = B /\ op'.work = C
    BY <1>2, <2>1 DEF IsOp, Fields
  <2>. QED BY <1>1, <2>2 DEF A, B, C
<1>6. Scanning(op')
  <2> DEFINE T == {y \in Items(r) \ (op.unseen \ {x}) : Keeps(r, slot, y)}
  <2>1. T = IF Keeps(r, slot, x) THEN S \union {x} ELSE S
    BY <1>1, <1>3
  <2>2. S \subseteq Items(r) /\ x \in Items(r) /\ x \notin S
    BY <1>1, <1>3
  <2> HIDE DEF S, T, k
  <2>3. IsTop(IF Keeps(r, slot, x) THEN Retain(op.heap, x, k) ELSE op.heap, T, k)
    <3>1. CASE Keeps(r, slot, x)
      BY <1>3, <1>4, <2>1, <2>2, <3>1, RetainTop
    <3>2. CASE ~Keeps(r, slot, x)
      BY <1>3, <2>1, <3>2
    <3>. QED BY <3>1, <3>2
  <2>. QED BY <1>3, <1>5, <2>3 DEF Scanning, T, k
<1>7. ScanInv(op')
  BY <1>3, <1>5, <1>6 DEF ScanInv, Opening, Ranking, Closing
<1>8. WorkInv(op')
  <2> DEFINE w == op.work
             u == Cardinality(op.unseen)
             v == Cardinality(Vectors)
             q == Cardinality(Facts)
             sum == SumOfFirst(Limits(r), slot - 1)
             n == Len(Limits(r))
  <2>1. v \in Nat /\ q \in Nat /\ u \in Nat /\ u # 0 /\ Cardinality(op.unseen \ {x}) = u - 1
    <3>1. IsFiniteSet(op.unseen) /\ u \in Nat
      BY <1>3, <1>4, OrderedSubset
    <3>2. u # 0 /\ Cardinality(op.unseen \ {x}) = u - 1
      BY <1>1, <3>1, FS_EmptySet, FS_RemoveElement
    <3>. QED BY <3>1, <3>2, StoreAssumption, FS_CardinalityType
  <2>2. /\ w \in [comparisons : Nat, facts : Nat, units : Nat, objects : Nat]
        /\ WorkFits(w) /\ w.objects <= sum
        /\ r.method = "search" => w.comparisons + u <= slot * v
        /\ r.method = "expand" => slot = 1 /\ w.facts + u <= q
    BY <1>1, <1>2 DEF WorkInv
  <2>3. /\ r.method = "search" => v * n <= MaxVectorComparisons
        /\ r.method = "expand" => q <= MaxFactsInspected
    BY <1>3 DEF Preflight
  <2>4. slot \in Nat /\ n \in Nat /\ slot <= n /\ MaxFactsInspected \in Nat
    BY <1>3, <1>4, CapsAssumption
  <2>5. CASE r.method = "search"
    <3>1. op'.work = [w EXCEPT !.comparisons = @ + 1]
      BY <1>5, <2>5
    <3>2. /\ op'.work \in [comparisons : Nat, facts : Nat, units : Nat, objects : Nat]
          /\ op'.work.comparisons = w.comparisons + 1 /\ op'.work.facts = w.facts
          /\ op'.work.units = w.units /\ op'.work.objects = w.objects
      BY <2>2, <3>1
    <3> HIDE DEF u, v, q, sum, n, w, slot
    <3>3. op'.work.comparisons + (u - 1) <= slot * v
      BY <2>1, <2>2, <2>5, <3>2, <2>4
    <3>4. op'.work.comparisons <= MaxVectorComparisons
      <4>1. op'.work.comparisons \in Nat /\ u - 1 \in Nat
        BY <2>1, <3>2
      <4>. QED BY <2>1, <2>3, <2>4, <2>5, <3>3, <4>1, ComparisonsFit
    <3>5. WorkFits(op'.work)
      BY <2>2, <3>2, <3>4 DEF WorkFits
    <3>. QED BY <1>5, <2>1, <2>2, <2>5, <3>2, <3>3, <3>5 DEF WorkInv, u, v, sum, slot
  <2>6. CASE r.method = "expand"
    <3>1. op'.work = [w EXCEPT !.facts = @ + 1]
      BY <1>5, <2>6
    <3>2. /\ op'.work \in [comparisons : Nat, facts : Nat, units : Nat, objects : Nat]
          /\ op'.work.comparisons = w.comparisons /\ op'.work.facts = w.facts + 1
          /\ op'.work.units = w.units /\ op'.work.objects = w.objects
      BY <2>2, <3>1
    <3> HIDE DEF u, v, q, sum, n, w, slot
    <3>3. op'.work.facts + (u - 1) <= q
      BY <2>1, <2>2, <2>6, <3>2
    <3>4. op'.work.facts <= MaxFactsInspected
      BY <2>1, <2>3, <2>4, <2>6, <3>2, <3>3
    <3>5. WorkFits(op'.work)
      BY <2>2, <3>2, <3>4 DEF WorkFits
    <3>. QED BY <1>5, <2>1, <2>2, <2>6, <3>2, <3>3, <3>5 DEF WorkInv, u, q, sum, slot
  <2>. QED BY <1>4, <2>5, <2>6
<1>. QED BY <1>1, <1>7, <1>8 DEF StepWell

\* A slot's hits are the best of all it keeps; their objects were sized for.
LEMMA FinishStep ==
    ASSUME TypeInv, ProgressInv, NEW fault \in {None, "RESOURCE", "INTEGRITY"}, FinishSlot(fault)
    PROVE  StepWell /\ UNCHANGED graph
<1>1. op.stage = "scan" /\ op.unseen = {} /\ UNCHANGED graph
  BY DEF FinishSlot, At, Quiet
<1>2. IsOp(op) /\ ScanInv(op) /\ WorkInv(op)
  BY <1>1, Busy DEF Stages
<1> DEFINE r == op.req
           slot == op.slot
           n == Len(Limits(r))
           k == Cardinality(op.heap)
           kept == {y \in Items(r) : Keeps(r, slot, y)}
           work == [op.work EXCEPT !.objects = @ + k]
           last == slot = n
           un == IF last THEN {} ELSE Items(r)
           st == IF last THEN "validate" ELSE "scan"
<1>3. /\ Admitted(r) /\ Preflight(r)
      /\ r.method # "ppr" /\ slot \in 1..n
      /\ IsTop(op.heap, kept, Limits(r)[slot]) /\ IsHits(op.found, r, slot - 1)
  <2>1. Scanning(op) /\ Admitted(r) /\ Preflight(r)
    BY <1>1, <1>2 DEF ScanInv, Opening
  <2>2. Items(r) \ op.unseen = Items(r)
    BY <1>1
  <2>. QED BY <2>1, <2>2 DEF Scanning
<1>4. /\ r.method \in {"search", "expand"} /\ Limits(r) \in Seq(Nat) /\ n \in Nat
      /\ Ordered(Items(r)) /\ Limits(r)[slot] \in Nat /\ Objects(r) \in Nat
      /\ r.method = "expand" => n = 1
  BY <1>2, <1>3, OpLimits
<1>5. Ordered(kept) /\ k \in Nat /\ k <= Limits(r)[slot]
  <2>1. kept \subseteq Items(r)
    OBVIOUS
  <2>2. Ordered(kept)
    BY <1>4, <2>1, OrderedSubset
  <2> HIDE DEF kept
  <2>. QED BY <1>3, <2>2, OrderedSubset DEF IsTop
<1>6. Ranked(op.heap) = Hits(r, slot)
  <2> HIDE DEF kept
  <2>1. Ranked(op.heap) = Best(kept, Limits(r)[slot])
    BY <1>3, <1>4, <1>5, RankedTop
  <2>. QED BY <2>1 DEF Hits, kept
<1>7. /\ op.work \in [comparisons : Nat, facts : Nat, units : Nat, objects : Nat] /\ WorkFits(op.work)
      /\ op.work.objects <= SumOfFirst(Limits(r), slot - 1)
      /\ r.method = "search" => op.work.comparisons + Cardinality(op.unseen) <= slot * Cardinality(Vectors)
      /\ r.method = "expand" => slot = 1
  BY <1>1, <1>2 DEF WorkInv
<1>8. /\ work \in [comparisons : Nat, facts : Nat, units : Nat, objects : Nat]
      /\ work.comparisons = op.work.comparisons /\ work.facts = op.work.facts
      /\ work.units = op.work.units /\ work.objects = op.work.objects + k
  BY <1>5, <1>7
<1>9. work.objects <= SumOfFirst(Limits(r), slot) /\ work.objects <= MaxCombinedObjects
  <2> DEFINE s0 == SumOfFirst(Limits(r), slot - 1)
             s1 == SumOfFirst(Limits(r), slot)
             lim == Limits(r)[slot]
  <2>1. slot \in 1..n /\ slot \in 0..n /\ slot - 1 \in 0..n
    BY <1>3, <1>4
  <2>2. s0 \in Nat /\ s1 \in Nat /\ s1 = s0 + lim /\ s1 <= Objects(r)
    BY <1>4, <2>1, Sums DEF Objects
  <2>3. Objects(r) <= MaxCombinedObjects /\ MaxCombinedObjects \in Nat
    BY <1>3, CapsAssumption DEF Admitted, UsageAdmitted
  <2>4. work.objects = op.work.objects + k /\ op.work.objects \in Nat /\ op.work.objects <= s0 /\ k <= lim
    BY <1>5, <1>7, <1>8
  <2>a. lim \in Nat /\ k \in Nat
    BY <1>4, <1>5
  <2> HIDE DEF s0, s1, lim, work, k
  <2>5. work.objects <= s1
    BY <2>2, <2>4, <2>a
  <2>. QED BY <1>4, <1>8, <2>2, <2>3, <2>5 DEF s1
<1>10. WorkFits(work)
  <2> HIDE DEF work
  <2>. QED BY <1>7, <1>8, <1>9 DEF WorkFits
<1>11. CASE k > 0 /\ (Late \/ fault # None)
  <2>1. Fail("DEADLINE") \/ (Fail(fault) /\ fault # None)
    BY <1>10, <1>11 DEF FinishSlot
  <2>. QED BY <1>1, <1>2, <2>1, FailedWell DEF StepWell
<1>12. CASE ~(k > 0 /\ (Late \/ fault # None))
  <2>1. /\ op' = [op EXCEPT !.work = work, !.found = Append(op.found, Ranked(op.heap)), !.heap = {},
                           !.slot = slot + 1, !.unseen = un, !.stage = st]
        /\ UNCHANGED reply
    BY <1>10, <1>12 DEF FinishSlot
  <2> HIDE DEF work, un, st
  <2>2. /\ op'.work = work /\ op'.found = Append(op.found, Ranked(op.heap)) /\ op'.heap = {}
        /\ op'.slot = slot + 1 /\ op'.unseen = un /\ op'.stage = st /\ op'.req = r
    BY <1>2, <2>1 DEF IsOp, Fields
  <2>3. IsHits(op'.found, r, slot)
    <3> DEFINE H(i) == Hits(r, i)
               m == slot - 1
    <3>1. m \in Nat /\ slot = m + 1
      BY <1>3, <1>4
    <3>2. op.found = [i \in 1..m |-> H(i)] /\ op'.found = Append(op.found, H(slot))
      BY <1>3, <1>6, <2>2 DEF IsHits
    <3> HIDE DEF H, m
    <3>3. op.found \in Seq({H(i) : i \in 1..m}) /\ Len(op.found) = m
      BY <3>1, <3>2
    <3>4. op'.found = [i \in 1..(m + 1) |-> H(i)]
      BY <3>1, <3>2, <3>3
    <3>. QED BY <3>1, <3>4 DEF H, IsHits
  <2>4. ScanInv(op')
    <3>1. CASE last
      <4>1. op'.stage = "validate" /\ IsHits(op'.found, r, n)
        BY <2>2, <2>3, <3>1 DEF st
      <4>. QED BY <1>3, <2>2, <4>1 DEF ScanInv, Opening, Ranking, Closing
    <3>2. CASE ~last
      <4>1. op'.stage = "scan" /\ op'.unseen = Items(r)
        BY <2>2, <3>2 DEF st, un
      <4>2. slot + 1 \in 1..n /\ (slot + 1) - 1 = slot /\ Limits(r)[slot + 1] \in Nat
        <5>1. slot \in Nat /\ slot <= n /\ slot # n
          BY <1>3, <1>4, <3>2
        <5>2. n \in Nat /\ \A i \in 1..n : Limits(r)[i] \in Nat
          BY <1>4
        <5> HIDE DEF slot, n, r
        <5>. QED BY <5>1, <5>2
      <4>3. {x \in Items(r) \ Items(r) : Keeps(r, slot + 1, x)} = {}
        OBVIOUS
      <4>4. IsTop({}, {}, Limits(r)[slot + 1])
        BY <4>2, FS_EmptySet DEF IsTop
      <4>5. IsHits(op'.found, op'.req, op'.slot - 1)
        BY <2>2, <2>3, <4>2
      <4>6. IsTop(op'.heap, {x \in Items(op'.req) \ op'.unseen : Keeps(op'.req, op'.slot, x)},
                  Limits(op'.req)[op'.slot])
        BY <2>2, <4>1, <4>3, <4>4
      <4>7. Scanning(op')
        BY <1>3, <2>2, <4>1, <4>2, <4>5, <4>6 DEF Scanning
      <4>. QED BY <1>3, <2>2, <4>1, <4>7 DEF ScanInv, Opening, Ranking, Closing
    <3>. QED BY <3>1, <3>2
  <2>5. WorkInv(op')
    <3>1. CASE last
      <4>1. op'.stage = "validate"
        BY <2>2, <3>1 DEF st
      <4>. QED BY <1>8, <1>10, <2>2, <4>1 DEF WorkInv
    <3>2. CASE ~last
      <4>1. op'.stage = "scan" /\ op'.unseen = Items(r)
        BY <2>2, <3>2 DEF st, un
      <4>2. r.method = "search" /\ slot \in Nat /\ (slot + 1) - 1 = slot
        <5>1. slot \in Nat
          BY <1>3, <1>4
        <5>2. slot # n
          BY <3>2
        <5> HIDE DEF slot, n, r
        <5>. QED BY <1>4, <1>7, <5>1, <5>2
      <4> DEFINE v == Cardinality(Vectors)
      <4>3. v \in Nat /\ Cardinality(op.unseen) = 0
        BY <1>1, StoreAssumption, FS_CardinalityType, FS_EmptySet
      <4>4. work.comparisons <= slot * v /\ work.comparisons \in Nat
        BY <1>7, <1>8, <4>2, <4>3
      <4> HIDE DEF v
      <4>5. work.comparisons + v <= (slot + 1) * v
        <5>1. slot * v \in Nat /\ (slot + 1) * v = slot * v + v
          <6>1. \A a, b \in Nat : a * b \in Nat /\ (a + 1) * b = a * b + b
            OBVIOUS
          <6>. QED BY <4>2, <4>3, <6>1
        <5>. QED BY <4>3, <4>4, <5>1
      <4>6. op'.unseen = Vectors
        BY <4>1, <4>2 DEF Items
      <4>. QED BY <1>8, <1>9, <1>10, <2>2, <4>1, <4>2, <4>5, <4>6 DEF WorkInv, v
    <3>. QED BY <3>1, <3>2
  <2>. QED BY <1>1, <2>1, <2>4, <2>5 DEF StepWell
<1>. QED BY <1>11, <1>12

\* A request that fails without more work.
LEMMA FailureSteps ==
    ASSUME TypeInv, ProgressInv,
           ScanExpired \/ \E class \in {"RESOURCE", "INTEGRITY"} : StoreFault(class)
    PROVE  StepWell /\ UNCHANGED graph
<1>1. PICK class \in {"DEADLINE", "RESOURCE", "INTEGRITY"} : Fail(class)
  BY DEF ScanExpired, StoreFault
<1>2. op.stage \in Stages /\ UNCHANGED graph
  BY DEF ScanExpired, StoreFault, At, Quiet, Stages
<1>3. IsOp(op) /\ WorkInv(op)
  BY <1>2, Busy
<1>. QED BY <1>1, <1>2, <1>3, FailedWell DEF StepWell

\* A stage of the ranking: its units fit.
LEMMA UnitsStep ==
    ASSUME IsOp(op), ScanInv(op), WorkInv(op), op.stage \in Ranking,
           NEW stage, NEW next \in Ranking, NEW units \in Nat, Work(stage, next, units),
           op.work.units + units <= MaxGraphScanUnits,
           next = "build"   => op.work.units + units = CollectUnits(graph),
           next = "iterate" => op.work.units + units = CollectUnits(graph) + BuildUnits(graph),
           next = "rank"    => op.work.units + units + RankUnits(graph) <= MaxGraphScanUnits,
           next # "collect"
    PROVE  StepWell /\ UNCHANGED graph
<1> DEFINE work == [op.work EXCEPT !.units = @ + units]
<1>1. /\ work \in [comparisons : Nat, facts : Nat, units : Nat, objects : Nat]
      /\ work.units = op.work.units + units /\ WorkFits(work)
  <2>1. /\ op.work \in [comparisons : Nat, facts : Nat, units : Nat, objects : Nat]
        /\ WorkFits(op.work)
    BY DEF WorkInv
  <2>2. /\ work \in [comparisons : Nat, facts : Nat, units : Nat, objects : Nat]
        /\ work.units = op.work.units + units /\ work.comparisons = op.work.comparisons
        /\ work.facts = op.work.facts /\ work.objects = op.work.objects
    BY <2>1
  <2> HIDE DEF work
  <2>. QED BY <2>1, <2>2 DEF WorkFits
<1>2. UNCHANGED graph
  BY DEF Work, Quiet
<1>3. CASE Late
  <2>1. AnswerAfter(work, FALSE, "DEADLINE", <<>>, 0)
    BY <1>3 DEF Work, FailAfter
  <2> HIDE DEF work
  <2>. QED BY <1>1, <1>2, <2>1, AnsweredWell DEF StepWell
<1>4. CASE ~Late
  <2>1. op' = [op EXCEPT !.work = work, !.stage = next] /\ UNCHANGED reply
    BY <1>4 DEF Work
  <2> HIDE DEF work
  <2>2. op'.work = work /\ op'.stage = next /\ op'.req = op.req
    BY <2>1 DEF IsOp, Fields
  <2>3. ScanInv(op')
    BY <2>2 DEF ScanInv, Opening, Ranking, Closing
  <2>4. WorkInv(op')
    BY <1>1, <2>2 DEF WorkInv, Ranking
  <2>. QED BY <1>2, <2>1, <2>3, <2>4 DEF StepWell
<1>. QED BY <1>3, <1>4

\* The stages of the ranking.
LEMMA RankingSteps ==
    ASSUME TypeInv, ProgressInv,
           Collect \/ Build \/ Rank \/ \E n \in {1, MaxIterations} : Iterate(n)
    PROVE  StepWell /\ UNCHANGED graph
<1>1. op.stage \in Ranking \ {"objects"}
  BY DEF Collect, Build, Rank, Iterate, Work, At, Ranking
<1>2. IsOp(op) /\ ScanInv(op) /\ WorkInv(op)
  BY <1>1, Busy DEF Stages, Ranking
<1>3. op.req.method = "ppr" /\ Admitted(op.req) /\ Preflight(op.req)
  BY <1>1, <1>2 DEF ScanInv, Ranking, Opening
<1>4. graph \in Graphs /\ CatalogOpens(graph) /\ graph.edges <= MaxGraphEdges
  BY <1>3 DEF TypeInv, Preflight
<1>5. /\ MaxGraphScanUnits \in Nat /\ MaxIterations \in Nat /\ op.req.iterations \in Nat
      /\ op.req.iterations <= MaxIterations /\ op.work.units \in Nat
      /\ op.work.units <= MaxGraphScanUnits
  <2>1. op.req.iterations \in Nat
    BY <1>2, <1>3, RequestsAssumption DEF IsOp
  <2>2. op.req.iterations <= MaxIterations
    BY <1>3 DEF Admitted, UsageAdmitted
  <2>3. op.work.units \in Nat /\ op.work.units <= MaxGraphScanUnits
    BY <1>2 DEF WorkInv, WorkFits
  <2>. QED BY <2>1, <2>2, <2>3, NoWorkFits, CapsAssumption
<1> DEFINE c == CollectUnits(graph)
           b == BuildUnits(graph)
           i == IterationUnits(graph)
           k == RankUnits(graph)
<1>6. ASSUME NEW m \in Nat, m <= MaxIterations
      PROVE  /\ c \in Nat /\ b \in Nat /\ k \in Nat /\ m * i \in Nat
             /\ c + b + m * i + k <= MaxGraphScanUnits
  BY <1>4, <1>6, UnitsFit
<1>7. c \in Nat /\ b \in Nat /\ k \in Nat /\ c + b <= MaxGraphScanUnits /\ c <= MaxGraphScanUnits
  <2>1. 0 \in Nat /\ 0 <= MaxIterations
    BY <1>5
  <2> DEFINE z == 0 * i
  <2>2. c \in Nat /\ b \in Nat /\ k \in Nat /\ z \in Nat /\ c + b + z + k <= MaxGraphScanUnits
    BY <1>6, <2>1
  <2> HIDE DEF c, b, k, z
  <2>. QED BY <1>5, <2>2
<1>8. CASE Collect
  <2>1. op.work.units = 0 /\ Work("collect", "build", c)
    BY <1>2, <1>8 DEF Collect, Work, At, WorkInv
  <2>2. op.work.units + c = c
    BY <1>7, <2>1
  <2>. QED BY <1>1, <1>2, <1>7, <2>1, <2>2, UnitsStep DEF Ranking
<1>9. CASE Build
  <2>1. op.work.units = c /\ Work("build", "iterate", b)
    BY <1>2, <1>9 DEF Build, Work, At, WorkInv
  <2>. QED BY <1>1, <1>2, <1>7, <2>1, UnitsStep DEF Ranking
<1>10. ASSUME NEW n \in {1, MaxIterations}, Iterate(n)
       PROVE  StepWell /\ UNCHANGED graph
  <2>1. /\ op.work.units = c + b /\ n <= op.req.iterations
        /\ Work("iterate", "rank", n * IterationUnits(graph))
    BY <1>2, <1>10 DEF Iterate, Work, At, WorkInv
  <2>2. n \in Nat /\ n <= MaxIterations
    BY <1>5, <2>1
  <2> DEFINE u == n * i
  <2>3. u \in Nat /\ c + b + u + k <= MaxGraphScanUnits
    BY <1>6, <2>2
  <2>4. Work("iterate", "rank", u)
    BY <2>1
  <2> HIDE DEF c, b, k, u
  <2>5. op.work.units + u <= MaxGraphScanUnits /\ op.work.units + u + k <= MaxGraphScanUnits
    BY <1>5, <1>7, <2>1, <2>3
  <2>. QED BY <1>1, <1>2, <2>3, <2>4, <2>5, UnitsStep DEF Ranking, k
<1>11. CASE Rank
  <2>1. op.work.units + k <= MaxGraphScanUnits /\ Work("rank", "objects", k)
    BY <1>2, <1>11 DEF Rank, Work, At, WorkInv
  <2>. QED BY <1>1, <1>2, <1>7, <2>1, UnitsStep DEF Ranking
<1>. QED BY <1>8, <1>9, <1>10, <1>11

\* The objects of the ranking were admitted.
LEMMA ObjectsStep ==
    ASSUME TypeInv, ProgressInv, NEW fault \in {None, "RESOURCE", "INTEGRITY"}, RankedObjects(fault)
    PROVE  StepWell /\ UNCHANGED graph
<1>1. op.stage = "objects" /\ UNCHANGED graph
  BY DEF RankedObjects, At, Quiet
<1>2. IsOp(op) /\ ScanInv(op) /\ WorkInv(op)
  BY <1>1, Busy DEF Stages
<1>3. op.req.method = "ppr" /\ Admitted(op.req) /\ Preflight(op.req)
  BY <1>1, <1>2 DEF ScanInv, Ranking, Opening
<1> DEFINE work == [op.work EXCEPT !.objects = Objects(op.req)]
<1>4. work \in [comparisons : Nat, facts : Nat, units : Nat, objects : Nat] /\ WorkFits(work)
  <2>1. /\ op.work \in [comparisons : Nat, facts : Nat, units : Nat, objects : Nat]
        /\ WorkFits(op.work)
    BY <1>2 DEF WorkInv
  <2>2. Objects(op.req) \in Nat /\ Objects(op.req) <= MaxCombinedObjects
    BY <1>2, <1>3, OpLimits DEF Admitted, UsageAdmitted
  <2>3. /\ work \in [comparisons : Nat, facts : Nat, units : Nat, objects : Nat]
        /\ work.units = op.work.units /\ work.comparisons = op.work.comparisons
        /\ work.facts = op.work.facts /\ work.objects = Objects(op.req)
    BY <2>1, <2>2
  <2> HIDE DEF work
  <2>. QED BY <2>1, <2>2, <2>3 DEF WorkFits
<1>5. CASE Late \/ fault # None
  <2>1. Fail("DEADLINE") \/ (Fail(fault) /\ fault # None)
    BY <1>4, <1>5 DEF RankedObjects, Checked
  <2>. QED BY <1>1, <1>2, <2>1, FailedWell DEF StepWell
<1>6. CASE ~(Late \/ fault # None)
  <2>1. op' = [op EXCEPT !.work = work, !.stage = "validate"] /\ UNCHANGED reply
    BY <1>4, <1>6 DEF RankedObjects, Checked
  <2> HIDE DEF work
  <2>2. op'.work = work /\ op'.stage = "validate" /\ op'.req = op.req
    BY <1>2, <2>1 DEF IsOp, Fields
  <2>3. ScanInv(op')
    BY <1>3, <2>2 DEF ScanInv, Opening, Ranking, Closing
  <2>4. WorkInv(op')
    BY <1>4, <2>2 DEF WorkInv
  <2>. QED BY <1>1, <2>1, <2>3, <2>4 DEF StepWell
<1>. QED BY <1>5, <1>6

\* The steps after the work: what was found is sent, or refused for its size.
LEMMA ClosingSteps ==
    ASSUME TypeInv, ProgressInv,
           (\E sound \in BOOLEAN : Validate(sound)) \/ (\E size \in Sizes : Encode(size)) \/ Send
    PROVE  StepWell /\ UNCHANGED graph
<1> USE DEF Checked
<1>1. op.stage \in Closing /\ UNCHANGED graph
  BY DEF Validate, Encode, Send, At, Quiet, Closing
<1>2. IsOp(op) /\ ScanInv(op) /\ WorkInv(op)
  BY <1>1, Busy DEF Stages, Closing
<1>3. /\ Admitted(op.req) /\ Preflight(op.req) /\ WorkFits(op.work)
      /\ op.req.method # "ppr" => IsHits(op.found, op.req, Len(Limits(op.req)))
  BY <1>1, <1>2 DEF ScanInv, WorkInv, Closing, Opening
<1>4. ASSUME NEW stage \in {"encode", "encoded"}, To(stage)
      PROVE  StepWell
  BY <1>1, <1>2, <1>3, <1>4, Moved DEF StepWell, ScanInv, WorkInv, Opening, Ranking, Closing
<1>5. ASSUME NEW class \in {"DEADLINE", "INTEGRITY"}, Fail(class)
      PROVE  StepWell
  BY <1>2, <1>5, FailedWell DEF StepWell
<1>6. ASSUME NEW size \in Sizes, Encode(size)
      PROVE  StepWell
  <2>1. CASE ~Late /\ ~Encodes(size)
    <3>1. AnswerAfter(op.work, FALSE, "SIZE", <<>>, size) /\ size \in Nat
      BY <1>6, <2>1, CapsAssumption DEF Encode
    <3>. QED BY <1>2, <1>3, <2>1, <3>1, AnsweredWell DEF StepWell
  <2>2. CASE ~(~Late /\ ~Encodes(size))
    BY <1>4, <1>5, <1>6, <2>2 DEF Encode
  <2>. QED BY <2>1, <2>2
<1>7. CASE Send
  <2>1. CASE ~Late
    <3>1. AnswerAfter(op.work, TRUE, None, op.found, 0) /\ None # "SIZE"
      BY <1>7, <2>1, NoneAssumption DEF Send
    <3>. QED BY <1>1, <1>2, <1>3, <3>1, AnsweredWell DEF StepWell
  <2>2. CASE Late
    BY <1>1, <1>5, <1>7, <2>2 DEF Send
  <2>. QED BY <2>1, <2>2
<1>8. ASSUME NEW sound \in BOOLEAN, Validate(sound)
      PROVE  StepWell
  BY <1>4, <1>5, <1>8 DEF Validate
<1>. QED BY <1>1, <1>6, <1>7, <1>8

\* A chunk holds one key at least.
LEMMA ChunkSizes ==
    ASSUME NEW c \in Nat
    PROVE  \A size \in 1..Max({1, c}) : size \in Nat \ {0}
<1>1. 1 \in Int /\ c \in Int
  OBVIOUS
<1>2. Max({1, c}) = IF 1 >= c THEN 1 ELSE c
  BY <1>1, MaxMin
<1>3. Max({1, c}) \in Nat
  BY <1>2
<1>. QED BY <1>3

\* A frame answered at once.
LEMMA FrameAnswered ==
    ASSUME NEW r \in Requests, NEW b \in Budgets, ReadFrame(r, b), ~Begins(r, b)
    PROVE  op' = op /\ (AnswerEncodes /\ SearchExact)'
<1>0. None # "SIZE"
  BY NoneAssumption
<1>1. ASSUME NEW id, AnswerFrame(r, id, FALSE, "CLIENT", <<>>), Bounded(r) => id = r.id
      PROVE  op' = op /\ (AnswerEncodes /\ SearchExact)'
  <2>1. /\ op' = op /\ reply'.id = id /\ reply'.asked = r /\ reply'.ok = FALSE
        /\ reply'.class = "CLIENT"
    BY <1>1 DEF AnswerFrame
  <2>. QED BY <1>1, <2>1, ExactFormNext DEF AnswerEncodes, Exact
<1>2. ASSUME r.method = "read",
             NEW keys \in SetToSeqs({x \in Vectors : x.ns = r.slots[1].ns}),
             NEW size \in 1..Max({1, Cardinality({x \in Vectors : x.ns = r.slots[1].ns})}),
             NEW hits \in VectorSearch(keys, size, r),
             AnswerFrame(r, r.id, TRUE, None, <<hits>>)
      PROVE  op' = op /\ (AnswerEncodes /\ SearchExact)'
  <2>1. /\ op' = op /\ reply'.id = r.id /\ reply'.asked = r
        /\ reply'.class = None /\ reply'.found = <<hits>>
    BY <1>2 DEF AnswerFrame
  <2>2. Limits(r) \in Seq(Nat) /\ Len(Limits(r)) = 1 /\ Ordered(Vectors)
    BY <1>2, LimitsAre, RequestsAssumption
  <2>3. Limits(r)[1] = r.slots[1].limit /\ Limits(r)[1] \in Nat /\ DOMAIN Limits(r) = {1}
    <3>1. Limits(r) = [i \in DOMAIN r.slots |-> r.slots[i].limit]
      BY <1>2 DEF Limits
    <3>2. DOMAIN Limits(r) = 1..1
      BY <2>2
    <3>. QED BY <2>2, <3>1, <3>2
  <2>4. size \in Nat \ {0}
    <3>1. Cardinality({x \in Vectors : x.ns = r.slots[1].ns}) \in Nat
      BY <2>2, OrderedSubset
    <3>. QED BY <3>1, ChunkSizes
  <2>5. hits = Best({x \in Vectors : Keeps(r, 1, x)}, r.slots[1].limit)
    BY <1>2, <2>2, <2>3, <2>4, VectorSearchBest
  <2>6. hits = Hits(r, 1)
    BY <1>2, <2>3, <2>5 DEF Hits, Items
  <2>7. Exact(reply')
    <3>1. Len(<<hits>>) = 1 /\ <<hits>>[1] = hits
      OBVIOUS
    <3>. QED BY <2>1, <2>2, <2>3, <2>6, <3>1 DEF Exact
  <2>8. AnswerEncodes'
    BY <1>0, <2>1 DEF AnswerEncodes
  <2>. QED BY <2>1, <2>7, <2>8, ExactFormNext
<1>. QED BY <1>1, <1>2, FrameShapes DEF Bounded

\* The initial state.
LEMMA ProgressInit == Init => ProgressInv
BY DEF Init, ProgressInv, At, Idle, AnswerEncodes, SearchExact

\* Progress is kept.
LEMMA ProgressNext == TypeInv /\ ProgressInv /\ [Next]_vars => ProgressInv'
<1> SUFFICES ASSUME TypeInv, ProgressInv, [Next]_vars PROVE ProgressInv'
  OBVIOUS
<1>0. AnswerEncodes /\ SearchExact /\ (op = Idle \/ (IsOp(op) /\ ScanInv(op) /\ WorkInv(op)))
  BY Busy DEF TypeInv, ProgressInv, IsOp
<1>1. CASE UNCHANGED vars
  BY <1>0, <1>1, Progresses DEF vars
<1>2. ASSUME NEW r \in Requests, NEW b \in Budgets, ReadFrame(r, b) PROVE ProgressInv'
  <2>1. UNCHANGED graph
    BY <1>2 DEF ReadFrame
  <2>2. CASE Begins(r, b)
    <3>1. /\ UNCHANGED reply /\ op'.stage = "start" /\ op'.slot = 1 /\ op'.heap = {}
          /\ op'.found = <<>> /\ op'.work = NoWork
      BY <2>2 DEF Begins
    <3>2. ScanInv(op')
      BY <3>1 DEF ScanInv, Opening, Ranking, Closing
    <3>3. WorkInv(op')
      BY <3>1, NoWorkFits DEF WorkInv
    <3>. QED BY <1>0, <2>1, <3>1, <3>2, <3>3, Progresses
  <2>3. CASE ~Begins(r, b)
    BY <1>0, <1>2, <2>1, <2>3, FrameAnswered, Progresses
  <2>. QED BY <2>2, <2>3
<1>3. CASE Close \/ Tick
  BY <1>0, <1>3, Progresses DEF Close, Tick
<1>4. CASE Start
  <2>1. /\ IsOp(op) /\ op.stage = "start" /\ UNCHANGED graph /\ UNCHANGED reply /\ op'.stage = "admit"
        /\ op'.req = op.req /\ op'.slot = op.slot /\ op'.heap = op.heap
        /\ op'.found = op.found /\ op'.work = op.work
    BY <1>4, StartShape DEF Fields, Quiet
  <2>2. ScanInv(op) /\ WorkInv(op)
    BY <1>0, <2>1, OpIsBusy
  <2>3. ScanInv(op') /\ WorkInv(op')
    BY <2>1, <2>2 DEF ScanInv, WorkInv, Opening, Ranking, Closing
  <2>. QED BY <1>0, <2>1, <2>3, Progresses
<1>5. CASE CommitDeadline
  <2>1. IsOp(op) /\ op.stage = "commit" /\ UNCHANGED graph
    BY <1>0, <1>5 DEF CommitDeadline, At, Idle
  <2>2. ScanInv(op) /\ WorkInv(op)
    BY <1>0, <2>1, OpIsBusy
  <2>3. CASE Late
    <3>1. Fail("DEADLINE")
      BY <1>5, <2>3 DEF CommitDeadline
    <3>. QED BY <2>1, <2>2, <3>1, FailedWell, Progresses
  <2>4. CASE ~Late
    <3>1. To("preflight")
      BY <1>5, <2>4 DEF CommitDeadline
    <3>2. ScanInv(op') /\ WorkInv(op')
      BY <2>1, <2>2, <3>1, Moved DEF ScanInv, WorkInv, Opening, Ranking, Closing
    <3>. QED BY <1>0, <2>1, <3>1, <3>2, Moved, Progresses
  <2>. QED BY <2>3, <2>4
<1>6. CASE Works
  <2>1. StepWell /\ UNCHANGED graph
    BY <1>6, OpeningSteps, ScanStep, FailureSteps, FinishStep, ObjectsStep, RankingSteps, ClosingSteps
       DEF Works
  <2>. QED BY <1>0, <2>1, Progresses DEF StepWell
<1>. QED BY <1>1, <1>2, <1>3, <1>4, <1>5, <1>6, Steps

\* The invariants together.
LEMMA Invariant == Spec => [](TypeInv /\ ProgressInv)
<1>1. Init => TypeInv /\ ProgressInv
  BY TypeInit, ProgressInit
<1>2. TypeInv /\ ProgressInv /\ [Next]_vars => (TypeInv /\ ProgressInv)'
  BY TypeNext, ProgressNext
<1>. QED BY <1>1, <1>2, PTL DEF Spec

\* Whatever the store and the requests, with caps in CapsAssumption: no answer to a bounded request
\* loses its id because a counter outgrew its cap, wherever execute_search,
\* execute_expand or execute_ppr stopped; and encode_success refuses a frame for
\* its size only if no length within MAX_RESPONSE_BYTES describes it.
THEOREM EveryAnswerEncodes == Spec => []AnswerEncodes
<1>1. ProgressInv => AnswerEncodes
  BY DEF ProgressInv
<1>. QED BY <1>1, Invariant, PTL

\* Whatever the store holds, in whatever order it is scanned, cut into whatever
\* chunks and merged in whatever order, a successful search, expansion or
\* vector_search returns the best of what it keeps, in rank order.
THEOREM SearchesExact == Spec => []SearchExact
<1>1. ProgressInv => SearchExact
  BY DEF ProgressInv
<1>. QED BY <1>1, Invariant, PTL

\* The session and the request being executed stay within the clock, and a
\* slot's heap within the limit it was admitted with.
THEOREM WellTyped == Spec => []TypeOK
<1>1. TypeInv /\ ProgressInv => TypeOK
  <2> SUFFICES ASSUME TypeInv, ProgressInv PROVE TypeOK
    OBVIOUS
  <2>1. ASSUME ~At("idle")
        PROVE  /\ op.req \in Requests /\ op.remaining \in 0..MaxOperation
               /\ op.stage = "scan" => /\ op.slot \in DOMAIN Limits(op.req)
                                       /\ Cardinality(op.heap) <= Limits(op.req)[op.slot]
    <3>1. IsOp(op) /\ ScanInv(op)
      BY <2>1 DEF TypeInv, ProgressInv, At, Idle
    <3>2. op.stage = "scan" => Scanning(op)
      BY <3>1 DEF ScanInv
    <3>. QED BY <3>1, <3>2, OpLimits DEF IsOp, Scanning, IsTop
  <2>2. session # None => session.owner \in Budgets /\ session.deadline \in 0..(MaxNow + MaxOperation)
    BY DEF TypeInv, Moment
  <2>. QED BY <2>1, <2>2 DEF TypeInv, TypeOK
<1>. QED BY <1>1, Invariant, PTL
=============================================================================
