--------------------------- MODULE CountingLemmas ---------------------------
(***************************************************************************)
(* Facts about numbers, finite sets and folds over them that the proofs of *)
(* several components need.  Induction over a number n goes through the    *)
(* least number for which a claim fails; where a claim is carried by       *)
(* induction, it is given as the set of what it holds of.                  *)
(***************************************************************************)
EXTENDS Integers, FiniteSets, FiniteSetTheorems, TLAPS

\* Division with remainder.
LEMMA DivMod ==
  ASSUME NEW n \in Nat \ {0}, NEW x \in Int
  PROVE  x \div n \in Int /\ x % n \in 0..(n - 1) /\ x = n * (x \div n) + (x % n)
OBVIOUS

LEMMA ModRange ==
  ASSUME NEW n \in Nat \ {0}, NEW x \in Int
  PROVE  /\ x >= 0 /\ x < n => x % n = x
         /\ x >= n /\ x < 2 * n => x % n = x - n
         /\ x < 0 /\ x >= -n => x % n = x + n
OBVIOUS

LEMMA DivBound ==
  ASSUME NEW n \in Nat \ {0}, NEW k \in Nat \ {0}, NEW x \in 0..(n * k - 1)
  PROVE  x \div n \in 0..(k - 1)
OBVIOUS

\* A set of naturals that is not empty has a least element: of the intervals 0..n that
\* end in the set, one has no proper subset among them.
LEMMA LeastNumber ==
  ASSUME NEW S \in SUBSET Nat, S # {}
  PROVE  \E m \in S : \A n \in S : m <= n
<1> DEFINE Intervals == {0..n : n \in S}
<1>1. Intervals \subseteq FiniteSubsetsOf(Nat) /\ Intervals # {}
  <2>1. \A n \in Nat : IsFiniteSet(0..n) /\ 0..n \subseteq Nat
    BY FS_Interval
  <2>2. QED
    BY <2>1 DEF FiniteSubsetsOf
<1>2. PICK x \in Intervals : \A y \in Intervals : <<y, x>> \notin StrictSubsetOrdering(Nat)
  <2> HIDE DEF Intervals
  <2>1. IsWellFoundedOn(StrictSubsetOrdering(Nat), FiniteSubsetsOf(Nat))
    BY FS_StrictSubsetOrderingWellFounded
  <2>2. QED
    BY <1>1, <2>1, WFMin
<1>3. PICK m \in S : x = 0..m
  OBVIOUS
<1>4. ASSUME NEW n \in S, n < m PROVE FALSE
  <2>1. <<0..n, 0..m>> \notin StrictSubsetOrdering(Nat)
    BY <1>2, <1>3
  <2>2. 0..n \subseteq 0..m /\ 0..n \subseteq Nat /\ 0..m \subseteq Nat
    BY <1>4
  <2>3. m \in 0..m /\ m \notin 0..n
    BY <1>4
  <2>4. QED
    BY <2>1, <2>2, <2>3 DEF StrictSubsetOrdering
<1>5. QED
  BY <1>4

\* The number of elements below an element numbers the elements of a finite set.
LEMMA RankNumbers ==
  ASSUME NEW S \in SUBSET Nat, IsFiniteSet(S),
         NEW rank, rank = [x \in S |-> Cardinality({y \in S : y < x})]
  PROVE  /\ Cardinality(S) \in Nat
         /\ rank \in [S -> 0..(Cardinality(S) - 1)]
         /\ \A x, y \in S : x < y => rank[x] < rank[y]
         /\ \A g \in 0..(Cardinality(S) - 1) : \E x \in S : rank[x] = g
<1> DEFINE Below(x) == {y \in S : y < x}
           n == Cardinality(S)
<1>1. n \in Nat
  BY FS_CardinalityType
<1>2. ASSUME NEW x \in S
      PROVE  /\ IsFiniteSet(Below(x)) /\ Cardinality(Below(x)) \in Nat
             /\ rank[x] = Cardinality(Below(x)) /\ rank[x] < n
  <2>1. Below(x) \in SUBSET S /\ Below(x) # S
    OBVIOUS
  <2>2. IsFiniteSet(Below(x)) /\ Cardinality(Below(x)) <= n /\ Cardinality(Below(x)) # n
    BY <2>1, FS_Subset
  <2>3. Cardinality(Below(x)) \in Nat
    BY <2>2, FS_CardinalityType
  <2>4. QED
    BY <1>1, <2>2, <2>3
<1>3. ASSUME NEW x \in S, NEW y \in S, x < y PROVE rank[x] < rank[y]
  <2>1. Below(x) \in SUBSET Below(y)
    <3>1. ASSUME NEW z \in S, z < x PROVE z < y
      <4>1. x \in Nat /\ y \in Nat /\ z \in Nat
        OBVIOUS
      <4>2. QED
        BY <1>3, <3>1, <4>1
    <3>2. QED
      BY <3>1
  <2>2. x \in Below(y) /\ x \notin Below(x)
    BY <1>3
  <2>3. Cardinality(Below(x)) <= Cardinality(Below(y))
         /\ Cardinality(Below(x)) # Cardinality(Below(y))
    BY <1>2, <2>1, <2>2, FS_Subset
  <2>4. QED
    BY <1>2, <2>3
<1>4. rank \in [S -> 0..(n - 1)]
  BY <1>1, <1>2
<1>5. rank \in Surjection(S, 0..(n - 1))
  <2>1. IsFiniteSet(0..(n - 1)) /\ Cardinality(0..(n - 1)) = n
    BY <1>1, FS_Interval, SMTT(30)
  <2>2. \A x, y \in S : rank[x] = rank[y] => x = y
    BY <1>2, <1>3
  <2>3. rank \in Injection(S, 0..(n - 1))
    BY <1>4, <2>2 DEF Injection, IsInjective
  <2>4. QED
    BY <2>1, <2>3, FS_Injection
<1>6. \A g \in 0..(n - 1) : \E x \in S : rank[x] = g
  BY <1>5 DEF Surjection
<1>7. QED
  BY <1>1, <1>3, <1>4, <1>6

-----------------------------------------------------------------------------

\* Induction over the numbers and over the subsets of a finite set.  The claim is given as the
\* set of what it holds of.
LEMMA NumberInduction ==
  ASSUME NEW G \in SUBSET Nat, 0 \in G, \A n \in G : n + 1 \in G
  PROVE  G = Nat
<1> DEFINE bad == Nat \ G
<1> SUFFICES ASSUME bad # {} PROVE FALSE
  OBVIOUS
<1>1. PICK m \in bad : \A n \in bad : m <= n
  <2>1. bad \in SUBSET Nat
    OBVIOUS
  <2> HIDE DEF bad
  <2>2. QED
    BY <2>1, LeastNumber
<1>2. m \in Nat /\ m # 0 /\ m - 1 \in Nat /\ (m - 1) + 1 = m
  BY <1>1
<1>3. m - 1 \in G
  BY <1>1, <1>2
<1>4. QED
  BY <1>1, <1>2, <1>3

LEMMA SubsetInduction ==
  ASSUME NEW S, IsFiniteSet(S), NEW G \in SUBSET (SUBSET S), {} \in G,
         \A T \in SUBSET S : (T # {} /\ \A x \in T : T \ {x} \in G) => T \in G
  PROVE  G = SUBSET S
<1>1. \A T \in SUBSET S : IsFiniteSet(T) /\ Cardinality(T) \in Nat
  BY FS_Subset, FS_CardinalityType
<1> DEFINE Upto == {n \in Nat : \A T \in SUBSET S : Cardinality(T) = n => T \in G}
<1>2. 0 \in Upto
  <2>1. ASSUME NEW T \in SUBSET S, Cardinality(T) = 0 PROVE T = {}
    BY <1>1, <2>1, FS_EmptySet
  <2>2. QED
    BY <2>1
<1>3. ASSUME NEW n \in Upto PROVE n + 1 \in Upto
  <2> SUFFICES ASSUME NEW T \in SUBSET S, Cardinality(T) = n + 1 PROVE T \in G
    OBVIOUS
  <2>1. T # {}
    BY FS_EmptySet
  <2>2. ASSUME NEW x \in T PROVE T \ {x} \in G
    <3>1. T \ {x} \in SUBSET S /\ Cardinality(T \ {x}) = Cardinality(T) - 1
      BY <1>1, FS_RemoveElement
    <3>2. QED
      BY <3>1
  <2>3. QED
    BY <2>1, <2>2
<1>4. Upto = Nat
  <2>1. Upto \in SUBSET Nat
    OBVIOUS
  <2> HIDE DEF Upto
  <2>2. QED
    BY <1>2, <1>3, <2>1, NumberInduction
<1>5. QED
  BY <1>1, <1>4

-----------------------------------------------------------------------------
\* Functions defined by recursion over the subsets of a finite set, as the folds of the
\* community modules are.

Chosen(T) == CHOOSE x \in T : TRUE

Folds(h, S, base, c) ==
  h = [T \in SUBSET S |-> IF T = {} THEN base ELSE c[Chosen(T)][h[T \ {Chosen(T)}]]]

\* A family of operations on V, one per element of S; and of ones that commute.
Operations(c, S, V) == c \in [S -> [V -> V]]
Commuting(c, S, V)  == \A x, y \in S, v \in V : c[x][c[y][v]] = c[y][c[x][v]]
AnyOrder(h, S, c)   == \A T \in SUBSET S : \A x \in T : h[T] = c[x][h[T \ {x}]]
Agreeing(c, d, R, V) == \A x \in R, v \in V : c[x][v] = d[x][v]

LEMMA FoldExists ==
  ASSUME NEW S, IsFiniteSet(S), NEW base, NEW c
  PROVE  \E h : Folds(h, S, base, c)
<1> DEFINE Small(n) == {T \in SUBSET S : Cardinality(T) <= n}
           FoldsTo(h, n) ==
             h = [T \in Small(n) |-> IF T = {} THEN base ELSE c[Chosen(T)][h[T \ {Chosen(T)}]]]
           G == {n \in Nat : \E h : FoldsTo(h, n)}
<1>1. \A T \in SUBSET S : IsFiniteSet(T) /\ Cardinality(T) \in Nat
  BY FS_Subset, FS_CardinalityType
<1>2. \A T \in SUBSET S : T # {} =>
        Chosen(T) \in T /\ T \ {Chosen(T)} \in SUBSET S
          /\ Cardinality(T \ {Chosen(T)}) = Cardinality(T) - 1
  <2> SUFFICES ASSUME NEW T \in SUBSET S, T # {}
               PROVE  Chosen(T) \in T /\ Cardinality(T \ {Chosen(T)}) = Cardinality(T) - 1
    OBVIOUS
  <2>1. Chosen(T) \in T
    BY DEF Chosen
  <2>2. QED
    BY <1>1, <2>1, FS_RemoveElement
<1>3. 0 \in G
  <2>1. \A T \in Small(0) : T = {}
    BY <1>1, FS_EmptySet
  <2>2. FoldsTo([T \in Small(0) |-> base], 0)
    BY <2>1
  <2>3. QED
    BY <2>2
<1>4. ASSUME NEW n \in G PROVE n + 1 \in G
  <2>1. PICK h : FoldsTo(h, n)
    OBVIOUS
  <2> DEFINE longer == [T \in Small(n + 1) |->
               IF T = {} THEN base ELSE c[Chosen(T)][h[T \ {Chosen(T)}]]]
  <2>2. ASSUME NEW T \in Small(n) PROVE T \in Small(n + 1) /\ longer[T] = h[T]
    <3>1. T \in Small(n + 1)
      <4>1. Cardinality(T) \in Nat /\ n \in Nat /\ Cardinality(T) <= n
        BY <1>1
      <4>2. QED
        BY <4>1
    <3>2. QED
      BY <2>1, <3>1
  <2>3. ASSUME NEW T \in Small(n + 1), T # {} PROVE T \ {Chosen(T)} \in Small(n)
    <3>1. Cardinality(T) \in Nat /\ n \in Nat /\ Cardinality(T) <= n + 1
      BY <1>1
    <3>2. QED
      BY <1>2, <2>3, <3>1
  <2>4. FoldsTo(longer, n + 1)
    <3> HIDE DEF Small
    <3>1. \A T \in Small(n + 1) : T # {} => longer[T \ {Chosen(T)}] = h[T \ {Chosen(T)}]
      BY <2>2, <2>3
    <3>2. QED
      BY <3>1
  <2>5. \E g : FoldsTo(g, n + 1)
    <3> HIDE DEF FoldsTo, longer
    <3>1. QED
      BY <2>4
  <2>6. n + 1 \in Nat
    OBVIOUS
  <2>7. QED
    BY <2>5, <2>6
<1>5. G = Nat
  <2>1. G \in SUBSET Nat
    OBVIOUS
  <2> HIDE DEF G
  <2>2. QED
    BY <1>3, <1>4, <2>1, NumberInduction
<1>6. Small(Cardinality(S)) = SUBSET S /\ Cardinality(S) \in Nat
  <2>1. \A T \in SUBSET S : Cardinality(T) <= Cardinality(S)
    BY FS_Subset
  <2>2. QED
    BY <2>1, FS_CardinalityType
<1>7. PICK h : FoldsTo(h, Cardinality(S))
  BY <1>5, <1>6
<1>8. Folds(h, S, base, c)
  BY <1>6, <1>7 DEF Folds
<1>9. QED
  BY <1>8

\* The values stay in a set the operation is closed in.
LEMMA FoldType ==
  ASSUME NEW S, IsFiniteSet(S), NEW V, NEW base \in V, NEW c, Operations(c, S, V),
         NEW h, Folds(h, S, base, c)
  PROVE  h \in [SUBSET S -> V]
<1> DEFINE G == {T \in SUBSET S : h[T] \in V}
<1>1. {} \in G
  BY DEF Folds
<1>2. ASSUME NEW T \in SUBSET S, T # {}, \A x \in T : T \ {x} \in G PROVE T \in G
  <2>1. Chosen(T) \in T
    BY <1>2 DEF Chosen
  <2>2. h[T \ {Chosen(T)}] \in V /\ Chosen(T) \in S
    BY <1>2, <2>1
  <2>3. h[T] = c[Chosen(T)][h[T \ {Chosen(T)}]]
    BY <1>2 DEF Folds
  <2>4. QED
    BY <2>2, <2>3 DEF Operations
<1>3. G = SUBSET S
  <2>1. G \in SUBSET (SUBSET S)
    OBVIOUS
  <2> HIDE DEF G
  <2>2. QED
    BY <1>1, <1>2, <2>1, SubsetInduction
<1>4. QED
  BY <1>3 DEF Folds

\* A subset folds as it does inside the larger set.
LEMMA FoldAgrees ==
  ASSUME NEW S, IsFiniteSet(S), NEW V, NEW base \in V, NEW c, Operations(c, S, V),
         NEW R \in SUBSET S, NEW d, Operations(d, R, V),
         Agreeing(c, d, R, V),
         NEW h, Folds(h, S, base, c), NEW g, Folds(g, R, base, d)
  PROVE  h[R] = g[R]
<1> DEFINE G == {T \in SUBSET R : h[T] = g[T]}
<1>0. IsFiniteSet(R)
  BY FS_Subset
<1>1. {} \in G
  BY DEF Folds
<1>2. ASSUME NEW T \in SUBSET R, T # {}, \A x \in T : T \ {x} \in G PROVE T \in G
  <2>1. Chosen(T) \in T
    BY <1>2 DEF Chosen
  <2>2. h[T \ {Chosen(T)}] = g[T \ {Chosen(T)}] /\ h[T \ {Chosen(T)}] \in V /\ Chosen(T) \in R
    <3>1. h \in [SUBSET S -> V]
      BY FoldType
    <3>2. QED
      BY <1>2, <2>1, <3>1
  <2>3. h[T] = c[Chosen(T)][h[T \ {Chosen(T)}]] /\ g[T] = d[Chosen(T)][g[T \ {Chosen(T)}]]
    BY <1>2 DEF Folds
  <2>4. QED
    BY <2>2, <2>3 DEF Agreeing
<1>3. G = SUBSET R
  <2>1. G \in SUBSET (SUBSET R)
    OBVIOUS
  <2> HIDE DEF G
  <2>2. QED
    BY <1>0, <1>1, <1>2, <2>1, SubsetInduction
<1>4. QED
  BY <1>3

\* When the order does not matter, any element may come last.
LEMMA FoldAnyOrder ==
  ASSUME NEW S, IsFiniteSet(S), NEW V, NEW base \in V, NEW c, Operations(c, S, V),
         Commuting(c, S, V),
         NEW h, Folds(h, S, base, c)
  PROVE  AnyOrder(h, S, c)
<1> DEFINE G == {T \in SUBSET S : \A x \in T : h[T] = c[x][h[T \ {x}]]}
<1>0. h \in [SUBSET S -> V]
  BY FoldType
<1>1. {} \in G
  OBVIOUS
<1>2. ASSUME NEW T \in SUBSET S, T # {}, \A x \in T : T \ {x} \in G PROVE T \in G
  <2> SUFFICES ASSUME NEW x \in T PROVE h[T] = c[x][h[T \ {x}]]
    OBVIOUS
  <2>1. PICK y \in T : y = Chosen(T)
    BY <1>2 DEF Chosen
  <2>2. h[T] = c[y][h[T \ {y}]]
    BY <1>2, <2>1 DEF Folds
  <2>3. CASE x # y
    <3>1. h[T \ {y}] = c[x][h[(T \ {y}) \ {x}]]
      BY <1>2, <2>3
    <3>2. h[T \ {x}] = c[y][h[(T \ {x}) \ {y}]]
      BY <1>2, <2>3
    <3>3. (T \ {x}) \ {y} = (T \ {y}) \ {x} /\ (T \ {y}) \ {x} \in SUBSET S
      OBVIOUS
    <3>4. PICK v \in V : v = h[(T \ {y}) \ {x}]
      BY <1>0, <3>3
    <3>5. c[x][c[y][v]] = c[y][c[x][v]]
      BY <3>4 DEF Commuting
    <3>6. QED
      BY <2>2, <3>1, <3>2, <3>3, <3>4, <3>5
  <2>4. QED
    BY <2>2, <2>3
<1>3. G = SUBSET S
  <2>1. G \in SUBSET (SUBSET S)
    OBVIOUS
  <2> HIDE DEF G
  <2>2. QED
    BY <1>1, <1>2, <2>1, SubsetInduction
<1>4. QED
  BY <1>3 DEF AnyOrder

-----------------------------------------------------------------------------
\* Commutative monoids, and the fold of a function in one.

Monoid(V, m, e) ==
  /\ e \in V /\ m \in [V -> [V -> V]]
  /\ \A x \in V : m[e][x] = x
  /\ \A x, y \in V : m[x][y] = m[y][x]
  /\ \A x, y, z \in V : m[x][m[y][z]] = m[m[x][y]][z]

\* Values of V for the elements of a finite set.
Family(a, D, V) == IsFiniteSet(D) /\ a \in [D -> V]

\* The operation with the value of each element, and the fold over each subset.
Applied(m, a) == [x \in DOMAIN a |-> m[a[x]]]
FoldMap(m, base, a) == CHOOSE h : Folds(h, DOMAIN a, base, Applied(m, a))
FoldOf(m, base, a) == FoldMap(m, base, a)[DOMAIN a]

\* The operation applied to elements in either order.
LEMMA AppliedCommute ==
  ASSUME NEW V, NEW m, NEW e, Monoid(V, m, e), NEW D, NEW a, Family(a, D, V)
  PROVE  /\ Operations(Applied(m, a), D, V)
         /\ Commuting(Applied(m, a), D, V)
         /\ DOMAIN a = D
         /\ \A x \in D : Applied(m, a)[x] = m[a[x]] /\ a[x] \in V
<1>1. a \in [D -> V]
  BY DEF Family
<1>2. PICK c : c = Applied(m, a)
  OBVIOUS
<1>3. c = [x \in D |-> m[a[x]]]
  BY <1>1, <1>2 DEF Applied
<1>4. m \in [V -> [V -> V]]
  BY DEF Monoid
<1>5. c \in [D -> [V -> V]] /\ \A x \in D : c[x] = m[a[x]] /\ a[x] \in V
  BY <1>1, <1>3, <1>4
<1>6. ASSUME NEW x \in D, NEW y \in D, NEW v \in V PROVE c[x][c[y][v]] = c[y][c[x][v]]
  <2>1. PICK p \in V, q \in V : p = a[x] /\ q = a[y]
    BY <1>5
  <2>2. \A r, t, u \in V : m[r][m[t][u]] = m[m[r][t]][u]
    BY DEF Monoid
  <2>3. m[p][q] = m[q][p]
    BY DEF Monoid
  <2>4. m[p][m[q][v]] = m[m[p][q]][v] /\ m[q][m[p][v]] = m[m[q][p]][v]
    BY <2>2
  <2>5. QED
    BY <1>5, <2>1, <2>3, <2>4
<1>7. QED
  BY <1>1, <1>2, <1>5, <1>6 DEF Operations, Commuting

\* h holds the folds of a over the subsets of D, with base; any element may come last.
FoldsOver(h, m, base, a, D, V) ==
  /\ Folds(h, D, base, Applied(m, a))
  /\ h \in [SUBSET D -> V]
  /\ h[{}] = base
  /\ \A T \in SUBSET D : \A x \in T : h[T] = m[a[x]][h[T \ {x}]]

LEMMA FoldMapFacts ==
  ASSUME NEW V, NEW m, NEW e, Monoid(V, m, e), NEW base \in V, NEW D, NEW a, Family(a, D, V)
  PROVE  /\ FoldsOver(FoldMap(m, base, a), m, base, a, D, V)
         /\ FoldOf(m, base, a) = FoldMap(m, base, a)[D]
<1>1. PICK h, c : h = FoldMap(m, base, a) /\ c = Applied(m, a)
  OBVIOUS
<1>2. Operations(c, D, V) /\ Commuting(c, D, V) /\ DOMAIN a = D
  BY <1>1, AppliedCommute
<1>3. \A x \in D : c[x] = m[a[x]]
  BY <1>1, AppliedCommute
<1>4. IsFiniteSet(D)
  BY DEF Family
<1>5. h = CHOOSE g : Folds(g, D, base, c)
  BY <1>1, <1>2 DEF FoldMap
<1>6. \E g : Folds(g, D, base, c)
  BY <1>4, FoldExists
<1>7. Folds(h, D, base, c)
  BY <1>5, <1>6
<1>8. h \in [SUBSET D -> V]
  BY <1>2, <1>4, <1>7, FoldType
<1>9. AnyOrder(h, D, c)
  BY <1>2, <1>4, <1>7, FoldAnyOrder
<1>10. h[{}] = base
  BY <1>7 DEF Folds
<1>11. \A T \in SUBSET D : \A x \in T : h[T] = m[a[x]][h[T \ {x}]]
  BY <1>3, <1>9, ZenonT(60) DEF AnyOrder
<1>12. FoldsOver(h, m, base, a, D, V)
  BY <1>1, <1>7, <1>8, <1>10, <1>11 DEF FoldsOver
<1>13. QED
  BY <1>1, <1>2, <1>12 DEF FoldOf

LEMMA FoldOfValue ==
  ASSUME NEW V, NEW m, NEW e, Monoid(V, m, e), NEW base \in V, NEW D, NEW a, Family(a, D, V)
  PROVE  FoldOf(m, base, a) \in V
<1>1. FoldMap(m, base, a) \in [SUBSET D -> V]
  BY FoldMapFacts DEF FoldsOver
<1>2. FoldOf(m, base, a) = FoldMap(m, base, a)[D]
  BY FoldMapFacts
<1>3. QED
  BY <1>1, <1>2

LEMMA FoldOfNothing ==
  ASSUME NEW V, NEW m, NEW e, Monoid(V, m, e), NEW base \in V, NEW a, Family(a, {}, V)
  PROVE  FoldOf(m, base, a) = base
<1>1. FoldsOver(FoldMap(m, base, a), m, base, a, {}, V)
  BY FoldMapFacts
<1>2. FoldOf(m, base, a) = FoldMap(m, base, a)[{}]
  BY FoldMapFacts
<1>3. QED
  BY <1>1, <1>2 DEF FoldsOver

Restriction(a, T) == [x \in T |-> a[x]]

LEMMA RestrictionFamily ==
  ASSUME NEW V, NEW D, NEW a, Family(a, D, V), NEW T \in SUBSET D
  PROVE  Family(Restriction(a, T), T, V) /\ \A x \in T : Restriction(a, T)[x] = a[x]
<1>1. IsFiniteSet(T) /\ a \in [D -> V]
  BY FS_Subset DEF Family
<1>2. QED
  BY <1>1 DEF Family, Restriction

\* A subset folds as it does inside the larger set.
LEMMA FoldOfSubset ==
  ASSUME NEW V, NEW m, NEW e, Monoid(V, m, e), NEW base \in V, NEW D, NEW a, Family(a, D, V),
         NEW T \in SUBSET D
  PROVE  FoldOf(m, base, Restriction(a, T)) = FoldMap(m, base, a)[T]
<1>1. PICK b : b = Restriction(a, T)
  OBVIOUS
<1>2. Family(b, T, V) /\ \A x \in T : b[x] = a[x]
  BY <1>1, RestrictionFamily
<1>3. PICK h, c : h = FoldMap(m, base, a) /\ c = Applied(m, a)
  OBVIOUS
<1>4. PICK g, d : g = FoldMap(m, base, b) /\ d = Applied(m, b)
  OBVIOUS
<1>5. Folds(h, D, base, c)
  BY <1>3, FoldMapFacts DEF FoldsOver
<1>6. Folds(g, T, base, d)
  BY <1>2, <1>4, FoldMapFacts DEF FoldsOver
<1>7. FoldOf(m, base, b) = g[T]
  BY <1>2, <1>4, FoldMapFacts
<1>8. Operations(c, D, V) /\ \A x \in D : c[x] = m[a[x]]
  BY <1>3, AppliedCommute
<1>9. Operations(d, T, V) /\ \A x \in T : d[x] = m[b[x]]
  BY <1>2, <1>4, AppliedCommute
<1>10. Agreeing(c, d, T, V)
  BY <1>2, <1>8, <1>9 DEF Agreeing
<1>11. IsFiniteSet(D)
  BY DEF Family
<1>12. h[T] = g[T]
  BY <1>5, <1>6, <1>8, <1>9, <1>10, <1>11, FoldAgrees
<1>13. QED
  BY <1>1, <1>3, <1>7, <1>12

\* An element can be taken out of a fold.
LEMMA FoldOfOneMore ==
  ASSUME NEW V, NEW m, NEW e, Monoid(V, m, e), NEW base \in V, NEW D, NEW a, Family(a, D, V),
         NEW x \in D
  PROVE  FoldOf(m, base, a) = m[a[x]][FoldOf(m, base, Restriction(a, D \ {x}))]
<1>1. FoldOf(m, base, a) = FoldMap(m, base, a)[D]
  BY FoldMapFacts
<1>2. FoldMap(m, base, a)[D] = m[a[x]][FoldMap(m, base, a)[D \ {x}]]
  <2>1. FoldsOver(FoldMap(m, base, a), m, base, a, D, V)
    BY FoldMapFacts
  <2>2. QED
    BY <2>1 DEF FoldsOver
<1>3. D \ {x} \in SUBSET D
  OBVIOUS
<1>4. FoldOf(m, base, Restriction(a, D \ {x})) = FoldMap(m, base, a)[D \ {x}]
  BY <1>3, FoldOfSubset
<1>5. QED
  BY <1>1, <1>2, <1>4

LEMMA MonoidIdentity ==
  ASSUME NEW V, NEW m, NEW e, Monoid(V, m, e), NEW x \in V
  PROVE  e \in V /\ m[e][x] = x /\ m[x][e] = x
<1>1. e \in V /\ m[e][x] = x
  BY DEF Monoid
<1>2. m[x][e] = m[e][x]
  BY <1>1 DEF Monoid
<1>3. QED
  BY <1>1, <1>2

LEMMA MonoidLaws ==
  ASSUME NEW V, NEW m, NEW e, Monoid(V, m, e), NEW x \in V, NEW y \in V, NEW z \in V
  PROVE  /\ m[x][y] \in V
         /\ m[x][y] = m[y][x]
         /\ m[x][m[y][z]] = m[m[x][y]][z]
         /\ m[x][m[y][z]] = m[y][m[x][z]]
<1>1. m \in [V -> [V -> V]]
  BY DEF Monoid
<1>2. m[x][y] \in V
  BY <1>1
<1>3. m[x][y] = m[y][x]
  BY DEF Monoid
<1>4. \A p, q, r \in V : m[p][m[q][r]] = m[m[p][q]][r]
  BY DEF Monoid
<1>5. m[x][m[y][z]] = m[m[x][y]][z] /\ m[y][m[x][z]] = m[m[y][x]][z]
  BY <1>4
<1>6. QED
  BY <1>2, <1>3, <1>5

\* The base is one more element.
LEMMA FoldOfBase ==
  ASSUME NEW V, NEW m, NEW e, Monoid(V, m, e), NEW base \in V, NEW D, NEW a, Family(a, D, V)
  PROVE  FoldOf(m, base, a) = m[base][FoldOf(m, e, a)]
<1>0. e \in V /\ IsFiniteSet(D) /\ \A x \in D : a[x] \in V
  BY DEF Monoid, Family
<1>1. PICK h, g : h = FoldMap(m, base, a) /\ g = FoldMap(m, e, a)
  OBVIOUS
<1>2. /\ h \in [SUBSET D -> V] /\ h[{}] = base
      /\ \A T \in SUBSET D : \A x \in T : h[T] = m[a[x]][h[T \ {x}]]
  <2>1. FoldsOver(h, m, base, a, D, V)
    BY <1>1, FoldMapFacts
  <2>2. QED
    BY <2>1 DEF FoldsOver
<1>3. /\ g \in [SUBSET D -> V] /\ g[{}] = e
      /\ \A T \in SUBSET D : \A x \in T : g[T] = m[a[x]][g[T \ {x}]]
  <2>1. FoldsOver(g, m, e, a, D, V)
    BY <1>0, <1>1, FoldMapFacts
  <2>2. QED
    BY <2>1 DEF FoldsOver
<1> DEFINE G == {T \in SUBSET D : h[T] = m[base][g[T]]}
<1>4. {} \in G
  <2>1. m[base][e] = base
    BY MonoidIdentity
  <2>2. QED
    BY <1>2, <1>3, <2>1
<1>5. ASSUME NEW T \in SUBSET D, T # {}, \A x \in T : T \ {x} \in G PROVE T \in G
  <2>1. PICK x \in T : TRUE
    BY <1>5
  <2>2. PICK v \in V, p \in V : v = g[T \ {x}] /\ p = a[x]
    BY <1>0, <1>3, <2>1
  <2>3. h[T] = m[p][m[base][v]] /\ g[T] = m[p][v]
    BY <1>2, <1>3, <1>5, <2>1, <2>2
  <2>4. m[p][m[base][v]] = m[base][m[p][v]]
    BY MonoidLaws
  <2>5. QED
    BY <2>3, <2>4
<1>6. G = SUBSET D
  <2>1. G \in SUBSET (SUBSET D)
    OBVIOUS
  <2> HIDE DEF G
  <2>2. QED
    BY <1>0, <1>4, <1>5, <2>1, SubsetInduction
<1>7. h[D] = m[base][g[D]]
  BY <1>6
<1>8. FoldOf(m, base, a) = h[D] /\ FoldOf(m, e, a) = g[D]
  BY <1>0, <1>1, FoldMapFacts
<1>9. QED
  BY <1>7, <1>8

\* A fold over a set is combined from the folds over its two parts.
LEMMA FoldOfTwo ==
  ASSUME NEW V, NEW m, NEW e, Monoid(V, m, e), NEW D, NEW a, Family(a, D, V),
         NEW A \in SUBSET D, NEW B \in SUBSET D, A \cap B = {}
  PROVE  FoldMap(m, e, a)[A \cup B] = m[FoldMap(m, e, a)[A]][FoldMap(m, e, a)[B]]
<1>0. e \in V /\ IsFiniteSet(A) /\ \A x \in D : a[x] \in V
  BY FS_Subset DEF Monoid, Family
<1>1. PICK h : h = FoldMap(m, e, a)
  OBVIOUS
<1>2. /\ h \in [SUBSET D -> V] /\ h[{}] = e
      /\ \A T \in SUBSET D : \A x \in T : h[T] = m[a[x]][h[T \ {x}]]
  <2>1. FoldsOver(h, m, e, a, D, V)
    BY <1>0, <1>1, FoldMapFacts
  <2>2. QED
    BY <2>1 DEF FoldsOver
<1>3. PICK w \in V : w = h[B]
  BY <1>2
<1> DEFINE G == {T \in SUBSET A : h[T \cup B] = m[h[T]][w]}
<1>4. {} \in G
  <2>1. m[e][w] = w
    BY MonoidIdentity
  <2>2. QED
    BY <1>2, <1>3, <2>1
<1>5. ASSUME NEW T \in SUBSET A, T # {}, \A x \in T : T \ {x} \in G PROVE T \in G
  <2>1. PICK x \in T : TRUE
    BY <1>5
  <2>2. (T \cup B) \ {x} = (T \ {x}) \cup B /\ T \cup B \in SUBSET D /\ x \in D /\ T \in SUBSET D
    BY <2>1
  <2>3. PICK v \in V, p \in V : v = h[T \ {x}] /\ p = a[x]
    BY <1>0, <1>2, <2>2
  <2>4. h[(T \ {x}) \cup B] = m[v][w]
    BY <1>5, <2>1, <2>3
  <2>5. h[T \cup B] = m[p][m[v][w]]
    <3>1. h[T \cup B] = m[a[x]][h[(T \cup B) \ {x}]]
      BY <1>2, <2>1, <2>2
    <3>2. QED
      BY <2>2, <2>3, <2>4, <3>1
  <2>6. h[T] = m[p][v]
    BY <1>2, <2>1, <2>2, <2>3
  <2>7. m[p][m[v][w]] = m[m[p][v]][w]
    BY MonoidLaws
  <2>8. QED
    BY <2>5, <2>6, <2>7
<1>6. G = SUBSET A
  <2>1. G \in SUBSET (SUBSET A)
    OBVIOUS
  <2> HIDE DEF G
  <2>2. QED
    BY <1>0, <1>4, <1>5, <2>1, SubsetInduction
<1>7. h[A \cup B] = m[h[A]][w]
  BY <1>6
<1>8. QED
  BY <1>1, <1>3, <1>7

\* Identities fold to the identity.
LEMMA FoldOfIdentities ==
  ASSUME NEW V, NEW m, NEW e, Monoid(V, m, e), NEW D, NEW a, Family(a, D, V),
         \A x \in D : a[x] = e
  PROVE  FoldOf(m, e, a) = e
<1>0. e \in V /\ IsFiniteSet(D)
  BY DEF Monoid, Family
<1>1. PICK h : h = FoldMap(m, e, a)
  OBVIOUS
<1>2. /\ h \in [SUBSET D -> V] /\ h[{}] = e
      /\ \A T \in SUBSET D : \A x \in T : h[T] = m[a[x]][h[T \ {x}]]
  <2>1. FoldsOver(h, m, e, a, D, V)
    BY <1>0, <1>1, FoldMapFacts
  <2>2. QED
    BY <2>1 DEF FoldsOver
<1> DEFINE G == {T \in SUBSET D : h[T] = e}
<1>3. {} \in G
  BY <1>2
<1>4. ASSUME NEW T \in SUBSET D, T # {}, \A x \in T : T \ {x} \in G PROVE T \in G
  <2>1. PICK x \in T : TRUE
    BY <1>4
  <2>2. h[T] = m[e][e]
    BY <1>2, <1>4, <2>1
  <2>3. m[e][e] = e
    BY <1>0, MonoidIdentity
  <2>4. QED
    BY <2>2, <2>3
<1>5. G = SUBSET D
  <2>1. G \in SUBSET (SUBSET D)
    OBVIOUS
  <2> HIDE DEF G
  <2>2. QED
    BY <1>0, <1>3, <1>4, <2>1, SubsetInduction
<1>6. h[D] = e
  BY <1>5
<1>7. FoldOf(m, e, a) = h[D]
  BY <1>0, <1>1, FoldMapFacts
<1>8. QED
  BY <1>6, <1>7

\* Folding the folds of the classes of a set is folding the set.
Class(class, j)      == {x \in DOMAIN class : class[x] = j}
Classes(class, D, J) == IsFiniteSet(J) /\ class \in [D -> J]
FoldsClasses(b, m, e, a, class, J) ==
  \A j \in J : b[j] = FoldOf(m, e, Restriction(a, Class(class, j)))

LEMMA FoldOfFolds ==
  ASSUME NEW V, NEW m, NEW e, Monoid(V, m, e), NEW D, NEW a, Family(a, D, V),
         NEW J, NEW class, Classes(class, D, J), NEW b, Family(b, J, V),
         FoldsClasses(b, m, e, a, class, J)
  PROVE  FoldOf(m, e, b) = FoldOf(m, e, a)
<1>0. e \in V /\ IsFiniteSet(J) /\ class \in [D -> J]
  BY DEF Monoid, Classes
<1>1. PICK h : h = FoldMap(m, e, a)
  OBVIOUS
<1>2. h \in [SUBSET D -> V] /\ h[{}] = e
  <2>1. FoldsOver(h, m, e, a, D, V)
    BY <1>0, <1>1, FoldMapFacts
  <2>2. QED
    BY <2>1 DEF FoldsOver
<1>3. FoldOf(m, e, a) = h[D]
  BY <1>0, <1>1, FoldMapFacts
<1> DEFINE Of(K) == {x \in D : class[x] \in K}
<1>4. \A K \in SUBSET J : Of(K) \in SUBSET D
  OBVIOUS
<1>5. Of({}) = {} /\ Of(J) = D
  BY <1>0
<1>6. ASSUME NEW K \in SUBSET J, NEW j \in K
      PROVE  Of({j}) \cap Of(K \ {j}) = {} /\ Of({j}) \cup Of(K \ {j}) = Of(K)
  OBVIOUS
<1>7. \A j \in J : Class(class, j) = Of({j})
  BY <1>0 DEF Class
<1> HIDE DEF Of
<1>8. ASSUME NEW j \in J PROVE b[j] = h[Of({j})]
  <2>1. Of({j}) \in SUBSET D
    BY <1>4
  <2>2. PICK A \in SUBSET D : A = Of({j})
    BY <2>1
  <2>3. FoldOf(m, e, Restriction(a, A)) = FoldMap(m, e, a)[A]
    BY <1>0, FoldOfSubset
  <2>4. QED
    BY <1>1, <1>7, <2>2, <2>3 DEF FoldsClasses
<1>10. PICK g : g = FoldMap(m, e, b)
  OBVIOUS
<1>11. /\ g[{}] = e
       /\ \A K \in SUBSET J : \A j \in K : g[K] = m[b[j]][g[K \ {j}]]
  <2>1. FoldsOver(g, m, e, b, J, V)
    BY <1>0, <1>10, FoldMapFacts
  <2>2. QED
    BY <2>1 DEF FoldsOver
<1>12. FoldOf(m, e, b) = g[J]
  BY <1>0, <1>10, FoldMapFacts
<1> DEFINE G == {K \in SUBSET J : g[K] = h[Of(K)]}
<1>13. {} \in G
  BY <1>2, <1>5, <1>11
<1>14. ASSUME NEW K \in SUBSET J, K # {}, \A j \in K : K \ {j} \in G PROVE K \in G
  <2>1. PICK j \in K : TRUE
    BY <1>14
  <2>2. Of({j}) \in SUBSET D /\ Of(K \ {j}) \in SUBSET D
    BY <1>4, <2>1
  <2>3. Of({j}) \cap Of(K \ {j}) = {} /\ Of({j}) \cup Of(K \ {j}) = Of(K)
    BY <1>6
  <2>4. h[Of({j}) \cup Of(K \ {j})] = m[h[Of({j})]][h[Of(K \ {j})]]
    <3>1. PICK A \in SUBSET D, B \in SUBSET D : A = Of({j}) /\ B = Of(K \ {j})
      BY <2>2
    <3>2. A \cap B = {}
      BY <2>3, <3>1
    <3>3. FoldMap(m, e, a)[A \cup B] = m[FoldMap(m, e, a)[A]][FoldMap(m, e, a)[B]]
      BY <3>2, FoldOfTwo
    <3>4. QED
      BY <1>1, <3>1, <3>3
  <2>5. g[K] = m[b[j]][g[K \ {j}]]
    BY <1>11, <2>1
  <2>6. g[K \ {j}] = h[Of(K \ {j})] /\ b[j] = h[Of({j})]
    BY <1>8, <1>14, <2>1
  <2>7. QED
    BY <2>3, <2>4, <2>5, <2>6
<1>15. G = SUBSET J
  <2>1. G \in SUBSET (SUBSET J)
    OBVIOUS
  <2> HIDE DEF G
  <2>2. QED
    BY <1>0, <1>13, <1>14, <2>1, SubsetInduction
<1>16. g[J] = h[Of(J)]
  BY <1>15
<1>17. QED
  BY <1>3, <1>5, <1>12, <1>16

\* An element may move into the base.
LEMMA FoldMoveOne ==
  ASSUME NEW V, NEW m, NEW e, Monoid(V, m, e), NEW base \in V, NEW D, NEW a, Family(a, D, V),
         NEW x \in D, NEW b, Family(b, D, V), b[x] = e, \A y \in D \ {x} : b[y] = a[y]
  PROVE  FoldOf(m, m[base][a[x]], b) = FoldOf(m, base, a)
<1>1. e \in V /\ a \in [D -> V] /\ IsFiniteSet(D)
  BY DEF Monoid, Family
<1>2. PICK p \in V, q \in V : p = a[x] /\ q = m[base][p]
  BY <1>1, MonoidLaws
<1>4. PICK R \in SUBSET D : R = D \ {x}
  OBVIOUS
<1>5. PICK c : c = Restriction(a, R)
  OBVIOUS
<1>6. Restriction(b, R) = c
  BY <1>1, <1>4, <1>5 DEF Restriction
<1>7. Family(c, R, V)
  BY <1>5, RestrictionFamily
<1>8. PICK w \in V : w = FoldOf(m, e, c)
  BY <1>1, <1>7, FoldOfValue
<1>9. FoldOf(m, base, c) = m[base][w] /\ FoldOf(m, q, c) = m[q][w]
  BY <1>7, <1>8, FoldOfBase
<1>10. FoldOf(m, base, a) = m[p][m[base][w]]
  BY <1>2, <1>4, <1>5, <1>9, FoldOfOneMore
<1>11. FoldOf(m, q, b) = m[e][m[q][w]]
  <2>1. FoldOf(m, q, b) = m[b[x]][FoldOf(m, q, Restriction(b, D \ {x}))]
    BY FoldOfOneMore
  <2>2. QED
    BY <1>4, <1>6, <1>9, <2>1
<1>12. m[q][w] \in V /\ m[p][m[base][w]] = m[base][m[p][w]] /\ m[base][m[p][w]] = m[q][w]
  <2>1. m[q][w] \in V
    BY MonoidLaws
  <2>2. m[p][m[base][w]] = m[base][m[p][w]]
    BY MonoidLaws
  <2>3. m[base][m[p][w]] = m[m[base][p]][w]
    BY MonoidLaws
  <2>4. QED
    BY <1>2, <2>1, <2>2, <2>3
<1>13. m[e][m[q][w]] = m[q][w]
  BY <1>12, MonoidIdentity
<1>14. QED
  BY <1>2, <1>10, <1>11, <1>12, <1>13

\* Identities leave the base as it is.
LEMMA FoldOntoBase ==
  ASSUME NEW V, NEW m, NEW e, Monoid(V, m, e), NEW base \in V, NEW D, NEW a, Family(a, D, V),
         \A x \in D : a[x] = e
  PROVE  FoldOf(m, base, a) = base
<1>1. FoldOf(m, base, a) = m[base][FoldOf(m, e, a)]
  BY FoldOfBase
<1>2. FoldOf(m, e, a) = e
  BY FoldOfIdentities
<1>3. m[base][e] = base
  BY MonoidIdentity
<1>4. QED
  BY <1>1, <1>2, <1>3

\* The fold of one element.
LEMMA FoldOfOne ==
  ASSUME NEW V, NEW m, NEW e, Monoid(V, m, e), NEW x, NEW a, Family(a, {x}, V)
  PROVE  FoldOf(m, e, a) = a[x]
<1>1. e \in V /\ a[x] \in V
  BY DEF Monoid, Family
<1>2. PICK none : none = Restriction(a, {})
  OBVIOUS
<1>3. Family(none, {}, V)
  BY <1>2, FS_EmptySet DEF Family, Restriction
<1>4. FoldOf(m, e, none) = e
  BY <1>1, <1>3, FoldOfNothing
<1>5. {x} \ {x} = {}
  OBVIOUS
<1>6. FoldOf(m, e, a) = m[a[x]][FoldOf(m, e, Restriction(a, {x} \ {x}))]
  BY <1>1, FoldOfOneMore
<1>7. FoldOf(m, e, a) = m[a[x]][e]
  BY <1>2, <1>4, <1>5, <1>6
<1>8. QED
  BY <1>1, <1>7, MonoidIdentity

\* Disjoint sets add up.
LEMMA DisjointSizes ==
  ASSUME NEW A, NEW B, IsFiniteSet(A), IsFiniteSet(B), A \cap B = {}
  PROVE  Cardinality(A \cup B) = Cardinality(A) + Cardinality(B)
<1>1. Cardinality(A \cup B) = Cardinality(A) + Cardinality(B) - Cardinality({})
  BY FS_Union
<1>2. Cardinality(A) \in Nat /\ Cardinality(B) \in Nat /\ Cardinality({}) = 0
  BY FS_CardinalityType, FS_EmptySet
<1>3. QED
  BY <1>1, <1>2

-----------------------------------------------------------------------------
\* The sum of the sizes of the classes of a finite set is its size.
LEMMA SumOfClasses ==
  ASSUME NEW D, NEW J, IsFiniteSet(D), NEW class, Classes(class, D, J),
         NEW b, b = [j \in J |-> Cardinality(Class(class, j))]
  PROVE  SumFunction(b) = Cardinality(D)
<1>0. IsFiniteSet(J) /\ class \in [D -> J] /\ DOMAIN b = J
  BY DEF Classes
<1>1. PICK c : c = [j \in J |-> [v \in Nat |-> b[j] + v]]
  OBVIOUS
<1>2. \A j \in J : b[j] \in Nat
  <2>1. \A j \in J : Class(class, j) \in SUBSET D
    BY <1>0 DEF Class
  <2>2. \A j \in J : IsFiniteSet(Class(class, j))
    BY <2>1, FS_Subset
  <2>3. QED
    BY <2>2, FS_CardinalityType
<1>3. Operations(c, J, Nat)
  BY <1>1, <1>2 DEF Operations
<1>4. PICK h : Folds(h, J, 0, c)
  BY <1>0, FoldExists
<1>5. h \in [SUBSET J -> Nat]
  BY <1>0, <1>3, <1>4, FoldType
<1> DEFINE Value(f, T) == IF T = {} THEN 0 ELSE b[Chosen(T)] + f[T \ {Chosen(T)}]
<1>6. h = [T \in SUBSET J |-> Value(h, T)]
  <2>1. ASSUME NEW T \in SUBSET J PROVE h[T] = Value(h, T)
    <3>1. CASE T = {}
      BY <1>4, <3>1 DEF Folds
    <3>2. CASE T # {}
      <4>1. Chosen(T) \in T
        BY <3>2 DEF Chosen
      <4>2. h[T] = c[Chosen(T)][h[T \ {Chosen(T)}]]
        BY <1>4, <3>2 DEF Folds
      <4>3. h[T \ {Chosen(T)}] \in Nat
        BY <1>5
      <4>4. QED
        BY <1>1, <3>2, <4>1, <4>2, <4>3
    <3>3. QED
      BY <3>1, <3>2
  <2>2. DOMAIN h = SUBSET J /\ h = [T \in DOMAIN h |-> h[T]]
    BY <1>5
  <2>3. QED
    BY <2>1, <2>2
<1>7. PICK g : g = CHOOSE f : f = [T \in SUBSET J |-> Value(f, T)]
  OBVIOUS
<1>8. g = [T \in SUBSET J |-> Value(g, T)]
  <2> HIDE DEF Value
  <2>1. \E f : f = [T \in SUBSET J |-> Value(f, T)]
    BY <1>6
  <2>2. QED
    BY <1>7, <2>1
<1>9. SumFunction(b) = g[J]
  BY <1>0, <1>7 DEF SumFunction, SumFunctionOnSet, FoldFunctionOnSet, MapThenFoldSet, Chosen
<1> DEFINE Of(K) == {x \in D : class[x] \in K}
           G == {K \in SUBSET J : g[K] = Cardinality(Of(K))}
<1>10. {} \in G
  <2>1. Of({}) = {}
    OBVIOUS
  <2>2. g[{}] = 0
    BY <1>8
  <2>3. QED
    BY <2>1, <2>2, FS_EmptySet
<1>11. ASSUME NEW K \in SUBSET J, K # {}, \A j \in K : K \ {j} \in G PROVE K \in G
  <2>1. PICK j \in K : j = Chosen(K)
    BY <1>11 DEF Chosen
  <2>2. g[K] = b[j] + g[K \ {j}]
    BY <1>8, <1>11, <2>1
  <2>3. Of(K \ {j}) \in SUBSET D /\ Class(class, j) \in SUBSET D
    BY <1>0 DEF Class
  <2>4. IsFiniteSet(Of(K \ {j})) /\ IsFiniteSet(Class(class, j))
    BY <2>3, FS_Subset
  <2>5. Of(K) = Class(class, j) \cup Of(K \ {j}) /\ Class(class, j) \cap Of(K \ {j}) = {}
    BY <1>0 DEF Class
  <2>6. Cardinality(Of(K)) = Cardinality(Class(class, j)) + Cardinality(Of(K \ {j}))
    BY <2>4, <2>5, DisjointSizes
  <2>7. QED
    BY <1>11, <2>1, <2>2, <2>6
<1>12. G = SUBSET J
  <2>1. G \in SUBSET (SUBSET J)
    OBVIOUS
  <2> HIDE DEF G
  <2>2. QED
    BY <1>0, <1>10, <1>11, <2>1, SubsetInduction
<1>13. g[J] = Cardinality(Of(J)) /\ Of(J) = D
  BY <1>0, <1>12
<1>14. QED
  BY <1>9, <1>13

=============================================================================
