-------------------------------- MODULE SortFftProofs --------------------------------
(***************************************************************************)
(* What is proved of the two algorithms that run in passes over one        *)
(* buffer.  The radix sort of A2 is a stable sort in which no two threads  *)
(* collide, and its segments are the groups of the caller's keys: for      *)
(* every column, radix, number of digits, tile geometry and interleaving.  *)
(* No launch that a binding of the Fourier transform makes has two threads *)
(* touch a word without a barrier between them: for every field, size,     *)
(* base and recursion limit.                                               *)
(***************************************************************************)
EXTENDS SortBuild, Fft, CountingLemmas, SequenceTheorems, TLAPS

-----------------------------------------------------------------------------
\* The geometry of a dispatch.

LEMMA Bounds ==
  /\ Radix \in Nat \ {0} /\ Lanes \in Nat \ {0}
  /\ SimdWidth \in Nat \ {0} /\ SimdsPerTile \in Nat \ {0}
BY SortAssumption

\* The tile length, as one number.
LEMMA TileSizes ==
  /\ TileSize \in Nat \ {0}
  /\ \A x \in 0..(TileSize - 1) : x \div SimdWidth \in Simds
<1>1. PICK w \in Nat \ {0}, s \in Nat \ {0} : w = SimdWidth /\ s = SimdsPerTile
  BY Bounds
<1>2. w * s \in Nat \ {0}
  OBVIOUS
<1>3. ASSUME NEW x \in 0..(w * s - 1) PROVE x \div w \in 0..(s - 1)
  BY DivBound
<1>4. QED
  BY <1>1, <1>2, <1>3 DEF TileSize, Simds

LEMMA DivUp ==
  ASSUME NEW n \in Nat, NEW t \in Nat \ {0}, NEW i \in 0..(n - 1)
  PROVE  i \div t \in 0..((n + t - 1) \div t - 1)
<1>1. PICK m \in Nat : m = n + t - 1
  OBVIOUS
<1>2. PICK q \in Int, r \in 0..(t - 1) : q = m \div t /\ r = m % t /\ m = t * q + r
  BY DivMod
<1>3. PICK p \in Int, o \in 0..(t - 1) : p = i \div t /\ o = i % t /\ i = t * p + o
  BY DivMod
<1>4. p >= 0
  <2>1. CASE p <= -1
    <3>1. t * p <= -t
      BY <2>1
    <3>2. QED
      BY <1>3, <3>1
  <2>2. QED
    BY <2>1
<1>5. p < q
  <2>1. CASE q <= p
    <3>1. t * q <= t * p
      BY <2>1
    <3>2. QED
      BY <1>1, <1>2, <1>3, <3>1
  <2>2. QED
    BY <2>1
<1>6. QED
  BY <1>1, <1>2, <1>3, <1>4, <1>5

LEMMA DivOrder ==
  ASSUME NEW t \in Nat \ {0}, NEW i \in Nat, NEW j \in Nat, j < i
  PROVE  /\ j \div t <= i \div t
         /\ j \div t = i \div t => j % t < i % t
<1>1. PICK q \in Int, r \in 0..(t - 1) : q = j \div t /\ r = j % t /\ j = t * q + r
  BY DivMod
<1>2. PICK p \in Int, o \in 0..(t - 1) : p = i \div t /\ o = i % t /\ i = t * p + o
  BY DivMod
<1>3. q <= p
  <2>1. CASE p + 1 <= q
    <3>1. t * (p + 1) <= t * q
      BY <2>1
    <3>2. QED
      BY <1>1, <1>2, <3>1
  <2>2. QED
    BY <2>1
<1>4. QED
  BY <1>1, <1>2, <1>3

\* The row i is thread i of the grid: rows of a later SIMD group of a tile, or of a later
\* tile, come later.
LEMMA Geometry ==
  ASSUME N \in Nat
  PROVE  /\ \A i \in Rows : TileOf(i) \in Tiles /\ SimdOf(i) \in Simds
         /\ \A i, j \in Rows : j < i =>
              \/ TileOf(j) < TileOf(i)
              \/ TileOf(j) = TileOf(i) /\ SimdOf(j) <= SimdOf(i)
<1>0. PICK t \in Nat \ {0} : t = TileSize
  BY TileSizes
<1>1. PICK n \in Nat : n = N
  OBVIOUS
<1>2. ASSUME NEW i \in 0..(n - 1)
      PROVE  i \div t \in 0..((n + t - 1) \div t - 1) /\ i % t \in 0..(t - 1)
  <2>1. i \div t \in 0..((n + t - 1) \div t - 1)
    BY DivUp
  <2>2. i % t \in 0..(t - 1)
    BY DivMod
  <2>3. QED
    BY <2>1, <2>2
<1>3. ASSUME NEW i \in Rows PROVE TileOf(i) \in Tiles /\ SimdOf(i) \in Simds
  BY <1>0, <1>1, <1>2, TileSizes DEF Rows, Tiles, TileOf, SimdOf
<1>4. ASSUME NEW i \in Rows, NEW j \in Rows, j < i
      PROVE  \/ TileOf(j) < TileOf(i)
             \/ TileOf(j) = TileOf(i) /\ SimdOf(j) <= SimdOf(i)
  <2>1. i \in Nat /\ j \in Nat /\ i \in 0..(n - 1) /\ j \in 0..(n - 1)
    BY <1>1 DEF Rows
  <2>2. j \div t <= i \div t /\ (j \div t = i \div t => j % t < i % t)
    BY <1>4, <2>1, DivOrder
  <2>3. i % t \in 0..(t - 1) /\ j % t \in 0..(t - 1) /\ i \div t \in Int /\ j \div t \in Int
    BY <2>1, DivMod
  <2>4. CASE j \div t = i \div t
    <3>1. PICK x \in Nat, y \in Nat : x = i % t /\ y = j % t /\ y < x
      BY <2>2, <2>3, <2>4
    <3>2. y \div SimdWidth <= x \div SimdWidth
      BY <3>1, Bounds, DivOrder
    <3>3. QED
      BY <1>0, <2>4, <3>1, <3>2 DEF TileOf, SimdOf
  <2>5. CASE j \div t # i \div t
    BY <1>0, <2>2, <2>3, <2>5 DEF TileOf
  <2>6. QED
    BY <2>4, <2>5
<1>5. QED
  BY <1>3, <1>4

-----------------------------------------------------------------------------
\* The position a stable sort gives each row.

\* The rows that come before row i when rows are sorted by their digits.
Before(d, j, i)  == d[j] < d[i] \/ (d[j] = d[i] /\ j < i)
Earlier(n, d, i) == {j \in 0..(n - 1) : Before(d, j, i)}
RankIn(n, d)     == [i \in 0..(n - 1) |-> Cardinality(Earlier(n, d, i))]

LEMMA RanksAreBijective ==
  ASSUME NEW n \in Nat, NEW d \in [0..(n - 1) -> Nat]
  PROVE  /\ RankIn(n, d) \in Bijection(0..(n - 1), 0..(n - 1))
         /\ \A i, j \in 0..(n - 1) : Before(d, i, j) => RankIn(n, d)[i] < RankIn(n, d)[j]
<1> DEFINE R == 0..(n - 1)
<1>1. IsFiniteSet(R) /\ Cardinality(R) = n
  BY FS_Interval
<1>2. PICK rank : rank = RankIn(n, d)
  OBVIOUS
<1>3. ASSUME NEW i \in R
      PROVE  /\ Earlier(n, d, i) \in SUBSET R /\ IsFiniteSet(Earlier(n, d, i))
             /\ rank[i] = Cardinality(Earlier(n, d, i)) /\ rank[i] \in 0..(n - 1)
  <2>1. Earlier(n, d, i) \in SUBSET R /\ i \notin Earlier(n, d, i)
    BY DEF Earlier, Before
  <2>2. IsFiniteSet(Earlier(n, d, i)) /\ Cardinality(Earlier(n, d, i)) <= n
        /\ Cardinality(Earlier(n, d, i)) # n
    BY <1>1, <2>1, FS_Subset
  <2>3. Cardinality(Earlier(n, d, i)) \in Nat
    BY <2>2, FS_CardinalityType
  <2>4. QED
    BY <1>2, <2>1, <2>2, <2>3 DEF RankIn
<1>4. ASSUME NEW i \in R, NEW j \in R, Before(d, i, j) PROVE rank[i] < rank[j]
  <2>1. Earlier(n, d, i) \in SUBSET Earlier(n, d, j)
    <3>1. ASSUME NEW k \in R, Before(d, k, i) PROVE Before(d, k, j)
      <4>1. d[k] \in Nat /\ d[i] \in Nat /\ d[j] \in Nat
        OBVIOUS
      <4>2. QED
        BY <1>4, <3>1, <4>1 DEF Before
    <3>2. QED
      BY <3>1 DEF Earlier
  <2>2. i \in Earlier(n, d, j) /\ i \notin Earlier(n, d, i)
    BY <1>4 DEF Earlier, Before
  <2>3. Cardinality(Earlier(n, d, i)) <= Cardinality(Earlier(n, d, j))
        /\ Cardinality(Earlier(n, d, i)) # Cardinality(Earlier(n, d, j))
    BY <1>3, <2>1, <2>2, FS_Subset
  <2>4. QED
    BY <1>3, <2>3
<1>5. rank \in [R -> R]
  <2>1. rank = [i \in R |-> Cardinality(Earlier(n, d, i))]
    BY <1>2 DEF RankIn
  <2>2. QED
    BY <1>3, <2>1
<1>6. ASSUME NEW i \in R, NEW j \in R, rank[i] = rank[j] PROVE i = j
  <2>1. i = j \/ Before(d, i, j) \/ Before(d, j, i)
    <3>1. d[i] \in Nat /\ d[j] \in Nat
      OBVIOUS
    <3>2. QED
      BY <3>1 DEF Before
  <2>2. rank[i] \in Nat /\ rank[j] \in Nat
    BY <1>3
  <2>3. QED
    BY <1>4, <1>6, <2>1, <2>2
<1>7. rank \in Injection(R, R)
  BY <1>5, <1>6 DEF Injection, IsInjective
<1>8. rank \in Surjection(R, R)
  BY <1>1, <1>7, FS_Injection
<1>9. QED
  BY <1>2, <1>4, <1>7, <1>8 DEF Bijection

-----------------------------------------------------------------------------
\* The invariant.

Keys  == [0..(Lanes - 1) -> Digits]
Pairs == [key : Keys, row : Rows]

\* The digit of each row in the current pass, and the rows of a tile that carry one.
digit == [i \in Rows |-> Digit(cur[i].key)]
rank  == RankIn(N, digit)
InTile(g, d) == {i \in Rows : TileOf(i) = g /\ digit[i] = d}

TypeInv ==
  /\ keys \in Inputs
  /\ stage \in {"histogram", "scatter", "segment", "done", "failed"}
  /\ lane \in 0..Lanes
  /\ stage \in {"histogram", "scatter"} => lane < Lanes
  /\ cur \in [Rows -> Pairs]
  /\ N = 0 => stage \in {"histogram", "done"}

\* Between passes and during one the pairs are the caller's, in the order of the digits
\* done so far.
InOrder(i, j) ==
  \/ Below(cur[i].key, cur[j].key)
  \/ Alike(cur[i].key, cur[j].key) /\ cur[i].row < cur[j].row
SortedInv ==
  /\ \A i \in Rows : cur[i].key = keys[cur[i].row]
  /\ \A i, j \in Rows : i < j => InOrder(i, j)
  /\ \A i, j \in Rows : cur[i].row = cur[j].row => i = j

\* What the histogram kernel has counted, and what the host makes of it: for each tile
\* and digit the rows that come before the tile's rows of that digit.
HistInv ==
  stage = "histogram" => \A g \in DOMAIN tileHist : \A d \in Digits :
    g \in Tiles /\ tileHist[g][d] = Cardinality(InTile(g, d))
OffsetInv ==
  stage = "scatter" => \A g \in Tiles : \A d \in Digits :
    offset[g][d] = Cardinality({i \in Rows : digit[i] < d})
                     + Cardinality({i \in Rows : digit[i] = d /\ TileOf(i) < g})

\* The barriers of a tile, and what its SIMD groups have put into the shared counts: an
\* entry holds the count once its SIMD group has published, and zero from the time the
\* thread that clears it has run.
Counted(g, s) == at[g][s] \in {"scatter", "done"}
BarrierInv ==
  stage = "scatter" => \A g \in Tiles : \A s \in Simds :
    /\ at[g][s] \in {"zero", "rank", "scatter", "done"}
    /\ Counted(g, s) => \A u \in Simds : at[g][u] # "zero"
    /\ at[g][s] = "done" => \A u \in Simds : Counted(g, u)
Entries == 0..(SimdsPerTile * Radix - 1)
CountsInv ==
  /\ DOMAIN counts = Tiles /\ \A g \in Tiles : DOMAIN counts[g] = Entries
  /\ stage = "scatter" => \A g \in Tiles : \A e \in Entries :
       IF Counted(g, e \div Radix)
       THEN counts[g][e] = Cardinality(Matching(g, e \div Radix, e % Radix))
       ELSE at[g][SimdOf(e % TileSize)] # "zero" => counts[g][e] = 0

\* Every scattered row is at the position a stable sort gives it, and nothing else is
\* anywhere.
Scattered(i) == at[TileOf(i)][SimdOf(i)] = "done"
OutInv ==
  stage = "scatter" =>
    /\ out \in [Rows -> Pairs \cup {NoPair}]
    /\ \A i \in Rows : out[rank[i]] = IF Scattered(i) THEN cur[i] ELSE NoPair

AtInv == stage = "scatter" => DOMAIN at = Tiles /\ \A g \in Tiles : DOMAIN at[g] = Simds

\* The segment starts that the threads that have run have found.
StartsInv ==
  /\ stage \in {"histogram", "scatter"} => pending = Rows /\ starts = {}
  /\ stage = "segment" => /\ lane = Lanes /\ pending \subseteq Rows
                          /\ starts = {i \in Rows \ pending : IsStart(i)}
  /\ stage = "done" /\ N > 0 => lane = Lanes /\ starts = {i \in Rows : IsStart(i)}

PassInv == HistInv /\ OffsetInv /\ AtInv /\ BarrierInv /\ CountsInv /\ OutInv
SortInv == TypeInv /\ SortedInv /\ PassInv /\ StartsInv

-----------------------------------------------------------------------------
\* The caller's column, and the ranks of its rows.

LEMMA Column ==
  ASSUME keys \in Inputs
  PROVE  /\ N \in Nat /\ DOMAIN keys = Rows /\ keys \in [Rows -> Keys]
         /\ IsFiniteSet(Rows) /\ Cardinality(Rows) = N
         /\ \A i, r \in Rows : NoPair # [key |-> keys[i], row |-> r]
<1>1. /\ IsFiniteSet(DOMAIN keys) /\ DOMAIN keys = 0..(Cardinality(DOMAIN keys) - 1)
      /\ keys \in [DOMAIN keys -> [0..(Lanes - 1) -> 0..(Radix - 1)]]
      /\ \A i \in DOMAIN keys, r \in DOMAIN keys : NoPair # [key |-> keys[i], row |-> r]
  BY SortAssumption
<1>2. N \in Nat
  BY <1>1, FS_CardinalityType DEF N
<1>3. DOMAIN keys = Rows
  BY <1>1 DEF N, Rows
<1>4. QED
  BY <1>1, <1>2, <1>3 DEF Keys, Digits, N

LEMMA DigitFacts ==
  ASSUME TypeInv, lane < Lanes
  PROVE  /\ digit \in [Rows -> Digits]
         /\ \A i \in Rows : digit[i] = Digit(cur[i].key)
         /\ rank \in [Rows -> Rows]
         /\ \A p \in Rows : \E i \in Rows : rank[i] = p
         /\ \A i, j \in Rows : rank[i] = rank[j] => i = j
         /\ \A i, j \in Rows : Before(digit, i, j) => rank[i] < rank[j]
<1>1. N \in Nat /\ Rows = 0..(N - 1)
  BY Column DEF TypeInv, Rows
<1>2. lane \in 0..(Lanes - 1)
  BY Bounds DEF TypeInv
<1>3. \A i \in Rows : cur[i].key \in Keys
  BY DEF TypeInv, Pairs
<1>4. \A i \in Rows : Digit(cur[i].key) \in Digits
  BY <1>2, <1>3 DEF Keys, Digit
<1>5. digit \in [Rows -> Digits] /\ \A i \in Rows : digit[i] = Digit(cur[i].key)
  BY <1>4 DEF digit
<1>6. digit \in [0..(N - 1) -> Nat]
  BY <1>1, <1>5, Bounds DEF Digits
<1>7. /\ rank \in Bijection(0..(N - 1), 0..(N - 1))
      /\ \A i, j \in 0..(N - 1) : Before(digit, i, j) => rank[i] < rank[j]
  BY <1>1, <1>6, RanksAreBijective DEF rank
<1>8. QED
  BY <1>1, <1>5, <1>7 DEF Bijection, Injection, Surjection, IsInjective

\* An entry of the counts is the one of a SIMD group and a digit, and is cleared by a thread.
LEMMA EntryFacts ==
  /\ \A e \in Entries : /\ e \div Radix \in Simds /\ e % Radix \in Digits
                        /\ SimdOf(e % TileSize) \in Simds
  /\ \A s \in Simds, d \in Digits : /\ s * Radix + d \in Entries
                                    /\ (s * Radix + d) \div Radix = s
                                    /\ (s * Radix + d) % Radix = d
<1>1. PICK r \in Nat \ {0}, n \in Nat \ {0} : r = Radix /\ n = SimdsPerTile
  BY Bounds
<1>2. ASSUME NEW e \in 0..(r * n - 1) PROVE e \div r \in 0..(n - 1)
  BY DivBound
<1>3. ASSUME NEW e \in Nat PROVE e % r \in 0..(r - 1)
  BY DivMod
<1>4. ASSUME NEW e \in Nat PROVE SimdOf(e % TileSize) \in Simds
  <2>1. e % TileSize \in 0..(TileSize - 1)
    BY TileSizes, DivMod
  <2>2. PICK x \in 0..(TileSize - 1) : x = e % TileSize
    BY <2>1
  <2>3. x % TileSize \in 0..(TileSize - 1)
    BY <2>2, TileSizes, DivMod
  <2>4. QED
    BY <2>2, <2>3, TileSizes DEF SimdOf
<1>5. ASSUME NEW s \in 0..(n - 1), NEW d \in 0..(r - 1)
      PROVE  s * r + d \in 0..(n * r - 1) /\ (s * r + d) \div r = s /\ (s * r + d) % r = d
  <2>1. s * r <= (n - 1) * r /\ s * r >= 0
    <3>1. n - 1 - s >= 0 /\ (n - 1 - s) * r >= 0
      OBVIOUS
    <3>2. QED
      BY <3>1
  <2>2. s * r + d \in 0..(n * r - 1)
    BY <2>1
  <2>3. PICK x \in Nat : x = s * r + d
    BY <2>2
  <2>4. PICK q \in Int, o \in 0..(r - 1) : q = x \div r /\ o = x % r /\ x = r * q + o
    BY DivMod
  <2>5. q = s
    <3>1. CASE q < s
      <4>1. r * (q + 1) <= r * s
        BY <3>1
      <4>2. QED
        BY <2>3, <2>4, <4>1
    <3>2. CASE s < q
      <4>1. r * (s + 1) <= r * q
        BY <3>2
      <4>2. QED
        BY <2>3, <2>4, <4>1
    <3>3. QED
      BY <3>1, <3>2
  <2>6. QED
    BY <2>2, <2>3, <2>4, <2>5
<1>6. Entries = 0..(r * n - 1) /\ Simds = 0..(n - 1) /\ Digits = 0..(r - 1)
  BY <1>1 DEF Entries, Simds, Digits
<1>7. \A e \in Entries : e \div r \in Simds /\ e % r \in Digits /\ SimdOf(e % TileSize) \in Simds
  <2>1. \A e \in Entries : e \in 0..(r * n - 1) /\ e \in Nat
    BY <1>6
  <2>2. QED
    BY <1>2, <1>3, <1>4, <1>6, <2>1
<1>8. n * r = r * n
  OBVIOUS
<1>9. \A s \in Simds, d \in Digits :
        s * r + d \in Entries /\ (s * r + d) \div r = s /\ (s * r + d) % r = d
  BY <1>5, <1>6, <1>8
<1>10. QED
  BY <1>1, <1>7, <1>9

\* Nothing that is counted changes while keys, cur and lane stay.
Given == <<keys, cur, lane>>

LEMMA Frame ==
  ASSUME UNCHANGED Given
  PROVE  /\ N' = N /\ Rows' = Rows /\ Tiles' = Tiles /\ digit' = digit /\ rank' = rank
         /\ \A g, s, d : Matching(g, s, d)' = Matching(g, s, d)
         /\ \A g, d : InTile(g, d)' = InTile(g, d)
         /\ \A i : IsStart(i)' = IsStart(i)
         /\ SortedInv' = SortedInv
         /\ Pairs' = Pairs
<1>1. N' = N /\ Rows' = Rows /\ Tiles' = Tiles /\ keys' = keys /\ cur' = cur /\ lane' = lane
  BY DEF Given, N, Rows, Tiles
<1>2. digit' = digit
  BY <1>1 DEF digit, Digit
<1>3. rank' = rank
  BY <1>1, <1>2 DEF rank, RankIn, Earlier, Before
<1>4. \A g, s, d : Matching(g, s, d)' = Matching(g, s, d)
  BY <1>1 DEF Matching, Digit
<1>5. \A g, d : InTile(g, d)' = InTile(g, d)
  BY <1>1, <1>2 DEF InTile
<1>6. \A i : IsStart(i)' = IsStart(i)
  BY <1>1 DEF IsStart
<1>7. SortedInv' = SortedInv
  BY <1>1 DEF SortedInv, InOrder, Below, Alike
<1>8. Pairs' = Pairs
  BY <1>1 DEF Pairs
<1>9. QED
  BY <1>1, <1>2, <1>3, <1>4, <1>5, <1>6, <1>7, <1>8

-----------------------------------------------------------------------------
\* The histogram kernel and the host's scan.

LEMMA InitSorted == Init => SortInv
<1> SUFFICES ASSUME Init PROVE SortInv
  OBVIOUS
<1>1. /\ N \in Nat /\ DOMAIN keys = Rows /\ keys \in [Rows -> Keys]
  BY Column DEF Init
<1>2. cur = [i \in Rows |-> [key |-> keys[i], row |-> i]]
  BY <1>1 DEF Init, Unsorted
<1>3. \A i \in Rows : cur[i].key = keys[i] /\ cur[i].row = i /\ cur[i] \in Pairs
  BY <1>1, <1>2 DEF Pairs
<1>4. stage = "histogram" /\ lane = 0 /\ DOMAIN tileHist = {} /\ pending = Rows /\ starts = {}
  BY DEF Init
<1>5. TypeInv
  BY <1>2, <1>3, <1>4, Bounds DEF TypeInv, Init
<1>6. SortedInv
  <2>1. ASSUME NEW i \in Rows, NEW j \in Rows, i < j PROVE InOrder(i, j)
    BY <1>3, <1>4, <2>1 DEF InOrder, Alike
  <2>2. QED
    BY <1>3, <2>1 DEF SortedInv
<1>7. DOMAIN counts = Tiles /\ \A g \in Tiles : DOMAIN counts[g] = Entries
  BY DEF Init, Entries
<1>8. PassInv
  BY <1>4, <1>7 DEF PassInv, HistInv, OffsetInv, AtInv, BarrierInv, CountsInv, OutInv
<1>9. StartsInv
  BY <1>4 DEF StartsInv
<1>10. QED
  BY <1>5, <1>6, <1>8, <1>9 DEF SortInv

LEMMA TypeFrame ==
  ASSUME TypeInv, UNCHANGED Given, N > 0, stage' = stage \/ stage' \in {"done", "failed"}
         \/ (stage = "histogram" /\ stage' = "scatter")
  PROVE  TypeInv'
<1>1. N' = N /\ Rows' = Rows /\ Pairs' = Pairs /\ keys' = keys /\ cur' = cur /\ lane' = lane
  BY Frame DEF Given
<1>2. N \in Nat
  BY Column DEF TypeInv
<1>3. stage' \in {"histogram", "scatter", "segment", "done", "failed"}
  BY DEF TypeInv
<1>4. stage' \in {"histogram", "scatter"} => lane < Lanes
  BY DEF TypeInv
<1>5. QED
  BY <1>1, <1>2, <1>3, <1>4 DEF TypeInv

\* The rows of a tile that carry a digit are those of its SIMD groups.
LEMMA TileOfSimds ==
  ASSUME TypeInv, lane < Lanes, NEW g, NEW d
  PROVE  /\ InTile(g, d) = UNION {Matching(g, s, d) : s \in Simds}
         /\ \A s \in Simds : Matching(g, s, d) = {i \in InTile(g, d) : SimdOf(i) = s}
<1>1. \A i \in Rows : SimdOf(i) \in Simds
  BY Column, Geometry DEF TypeInv
<1>2. \A i \in Rows : digit[i] = Digit(cur[i].key)
  BY DigitFacts
<1>3. \A s \in Simds : Matching(g, s, d) = {i \in InTile(g, d) : SimdOf(i) = s}
  BY <1>2 DEF Matching, InTile
<1>4. \A i \in InTile(g, d) : i \in Rows
  BY DEF InTile
<1>5. QED
  BY <1>1, <1>3, <1>4

LEMMA TileHistStep ==
  ASSUME SortInv, NEW g \in Tiles, TileHist(g) PROVE SortInv'
<1>1. /\ stage = "histogram" /\ stage' = "histogram" /\ N > 0
      /\ UNCHANGED <<keys, lane, cur, out, offset, counts, at, pending, starts>>
  BY DEF TileHist, segment
<1>2. /\ N' = N /\ Rows' = Rows /\ Tiles' = Tiles /\ digit' = digit /\ SortedInv' = SortedInv
      /\ \A h, d : InTile(h, d)' = InTile(h, d)
  BY <1>1, Frame DEF Given
<1>3. TypeInv'
  BY <1>1, TypeFrame DEF SortInv, Given
<1>4. HistInv'
  <2>1. TypeInv /\ lane < Lanes
    BY <1>1 DEF SortInv, TypeInv
  <2>2. ASSUME NEW h \in DOMAIN tileHist', NEW d \in Digits
        PROVE  h \in Tiles /\ tileHist'[h][d] = Cardinality(InTile(h, d))
    <3>1. CASE h = g
      <4>1. tileHist'[g][d] = Cardinality(UNION {Matching(g, s, d) : s \in Simds})
        BY DEF TileHist
      <4>2. QED
        BY <2>1, <3>1, <4>1, TileOfSimds
    <3>2. CASE h # g
      <4>1. h \in DOMAIN tileHist /\ tileHist'[h] = tileHist[h]
        BY <2>2, <3>2 DEF TileHist
      <4>2. QED
        BY <1>1, <4>1 DEF SortInv, PassInv, HistInv
    <3>3. QED
      BY <3>1, <3>2
  <2>3. QED
    BY <1>2, <2>2 DEF HistInv, Digits
<1>5. CountsInv'
  BY <1>1, <1>2 DEF SortInv, PassInv, CountsInv, Entries
<1>6. PassInv'
  BY <1>1, <1>4, <1>5 DEF PassInv, OffsetInv, AtInv, BarrierInv, OutInv
<1>7. StartsInv'
  BY <1>1, <1>2 DEF SortInv, StartsInv
<1>8. QED
  BY <1>2, <1>3, <1>6, <1>7 DEF SortInv

\* The rows of one digit, added up over tiles, and over tiles and digits.
LEMMA SumOverTiles ==
  ASSUME TypeInv, lane < Lanes, NEW d \in Digits, NEW S \in SUBSET Tiles,
         NEW b, b = [g \in S |-> Cardinality(InTile(g, d))]
  PROVE  /\ SumFunction(b) = Cardinality({i \in Rows : digit[i] = d /\ TileOf(i) \in S})
<1>1. PICK D : D = {i \in Rows : digit[i] = d /\ TileOf(i) \in S}
  OBVIOUS
<1>2. IsFiniteSet(Rows) /\ N \in Nat
  BY Column DEF TypeInv
<1>3. IsFiniteSet(D)
  BY <1>1, <1>2, FS_Subset
<1>4. IsFiniteSet(S)
  <2>1. PICK m \in Int : m = (N + TileSize - 1) \div TileSize - 1
    BY <1>2, TileSizes
  <2>2. IsFiniteSet(0..m)
    BY FS_Interval
  <2>3. IsFiniteSet(Tiles)
    BY <2>1, <2>2 DEF Tiles
  <2>4. QED
    BY <2>3, FS_Subset
<1>5. PICK class : class = [i \in D |-> TileOf(i)]
  OBVIOUS
<1>6. class \in [D -> S]
  BY <1>1, <1>5
<1>7. \A g \in S : Class(class, g) = InTile(g, d)
  BY <1>1, <1>5 DEF Class, InTile
<1>8. b = [g \in S |-> Cardinality(Class(class, g))]
  BY <1>7
<1>9. Classes(class, D, S)
  BY <1>4, <1>6 DEF Classes
<1>10. SumFunction(b) = Cardinality(D)
  BY <1>3, <1>8, <1>9, SumOfClasses
<1>11. QED
  BY <1>1, <1>10

LEMMA SumOverDigits ==
  ASSUME TypeInv, lane < Lanes, NEW d \in Digits,
         NEW b, b = [e \in {f \in Digits : f < d} |-> Cardinality({i \in Rows : digit[i] = e})]
  PROVE  SumFunction(b) = Cardinality({i \in Rows : digit[i] < d})
<1>1. PICK D : D = {i \in Rows : digit[i] < d}
  OBVIOUS
<1>2. PICK J : J = {e \in Digits : e < d}
  OBVIOUS
<1>3. IsFiniteSet(D)
  BY <1>1, Column, FS_Subset DEF TypeInv
<1>4. IsFiniteSet(J)
  <2>1. IsFiniteSet(0..(Radix - 1))
    BY Bounds, FS_Interval
  <2>2. QED
    BY <1>2, <2>1, FS_Subset DEF Digits
<1>5. PICK class : class = [i \in D |-> digit[i]]
  OBVIOUS
<1>6. digit \in [Rows -> Digits]
  BY DigitFacts
<1>7. class \in [D -> J]
  BY <1>1, <1>2, <1>5, <1>6
<1>8. \A e \in J : Class(class, e) = {i \in Rows : digit[i] = e}
  BY <1>1, <1>2, <1>5, <1>6 DEF Class, Digits
<1>9. PICK f : f = [e \in J |-> Cardinality(Class(class, e))]
  OBVIOUS
<1>10. Classes(class, D, J)
  BY <1>4, <1>7 DEF Classes
<1>11. SumFunction(f) = Cardinality(D)
  BY ONLY <1>3, <1>4, <1>9, <1>10, SumOfClasses
<1>12. f = b
  BY <1>2, <1>8, <1>9
<1>13. QED
  BY <1>1, <1>11, <1>12

\* What the host scans out of the histograms.
LEMMA ScanFacts ==
  ASSUME TypeInv, lane < Lanes, NEW g \in Tiles, NEW d \in Digits,
         \A h \in Tiles : \A e \in Digits : tileHist[h][e] = Cardinality(InTile(h, e))
  PROVE  PrefixScan(g, d) = Cardinality({i \in Rows : digit[i] < d})
                              + Cardinality({i \in Rows : digit[i] = d /\ TileOf(i) < g})
<1>0. \A i \in Rows : TileOf(i) \in Tiles
  BY Column, Geometry DEF TypeInv
<1>1. SumFunction([h \in {h \in Tiles : h < g} |-> tileHist[h][d]])
        = Cardinality({i \in Rows : digit[i] = d /\ TileOf(i) < g})
  <2>1. PICK S \in SUBSET Tiles : S = {h \in Tiles : h < g}
    OBVIOUS
  <2>2. PICK b : b = [h \in S |-> Cardinality(InTile(h, d))]
    OBVIOUS
  <2>3. SumFunction(b) = Cardinality({i \in Rows : digit[i] = d /\ TileOf(i) \in S})
    BY <2>2, SumOverTiles
  <2>4. {i \in Rows : digit[i] = d /\ TileOf(i) \in S}
          = {i \in Rows : digit[i] = d /\ TileOf(i) < g}
    BY <1>0, <2>1
  <2>5. b = [h \in {h \in Tiles : h < g} |-> tileHist[h][d]]
    BY <2>1, <2>2
  <2>6. QED
    BY <2>3, <2>4, <2>5
<1>2. ASSUME NEW e \in Digits
      PROVE  SumFunction([h \in Tiles |-> tileHist[h][e]])
               = Cardinality({i \in Rows : digit[i] = e})
  <2>1. PICK S \in SUBSET Tiles : S = Tiles
    OBVIOUS
  <2>2. PICK b : b = [h \in S |-> Cardinality(InTile(h, e))]
    OBVIOUS
  <2>3. SumFunction(b) = Cardinality({i \in Rows : digit[i] = e /\ TileOf(i) \in S})
    BY <2>2, SumOverTiles
  <2>4. {i \in Rows : digit[i] = e /\ TileOf(i) \in S} = {i \in Rows : digit[i] = e}
    BY <1>0, <2>1
  <2>5. b = [h \in Tiles |-> tileHist[h][e]]
    BY <2>1, <2>2
  <2>6. QED
    BY <2>3, <2>4, <2>5
<1>3. SumFunction([e \in {e \in Digits : e < d} |-> SumFunction([h \in Tiles |-> tileHist[h][e]])])
        = Cardinality({i \in Rows : digit[i] < d})
  <2>1. PICK b : b = [e \in {f \in Digits : f < d} |-> Cardinality({i \in Rows : digit[i] = e})]
    OBVIOUS
  <2>2. SumFunction(b) = Cardinality({i \in Rows : digit[i] < d})
    BY <2>1, SumOverDigits
  <2>3. b = [e \in {e \in Digits : e < d} |-> SumFunction([h \in Tiles |-> tileHist[h][e]])]
    BY <1>2, <2>1
  <2>4. QED
    BY <2>2, <2>3
<1>4. \A S \in SUBSET Rows : Cardinality(S) \in Nat
  BY Column, FS_Subset, FS_CardinalityType DEF TypeInv
<1>5. PICK p \in Nat, q \in Nat : p = Cardinality({i \in Rows : digit[i] < d})
                                  /\ q = Cardinality({i \in Rows : digit[i] = d /\ TileOf(i) < g})
  BY <1>4
<1>6. PrefixScan(g, d) = q + p
  BY <1>1, <1>3, <1>5 DEF PrefixScan
<1>7. QED
  BY <1>5, <1>6

LEMMA HostScanStep ==
  ASSUME SortInv, HostScan PROVE SortInv'
<1>1. /\ stage = "histogram" /\ stage' = "scatter" /\ N > 0 /\ DOMAIN tileHist = Tiles
      /\ UNCHANGED <<keys, lane, cur, tileHist, counts, pending, starts>>
      /\ offset' = [g \in Tiles |-> [d \in Digits |-> PrefixScan(g, d)]]
      /\ out' = [i \in Rows |-> NoPair]
      /\ at' = [g \in Tiles |-> [s \in Simds |-> "zero"]]
  BY DEF HostScan, segment
<1>2. /\ N' = N /\ Rows' = Rows /\ Tiles' = Tiles /\ digit' = digit /\ rank' = rank
      /\ SortedInv' = SortedInv /\ Pairs' = Pairs
  BY <1>1, Frame DEF Given
<1>3. TypeInv /\ lane < Lanes /\ N \in Nat
  BY <1>1, Column DEF SortInv, TypeInv
<1>4. TypeInv'
  BY <1>1, TypeFrame DEF SortInv, Given
<1>5. OffsetInv'
  <2>1. \A h \in Tiles : \A e \in Digits : tileHist[h][e] = Cardinality(InTile(h, e))
    BY <1>1 DEF SortInv, PassInv, HistInv
  <2>2. \A g \in Tiles, d \in Digits :
          offset'[g][d] = Cardinality({i \in Rows : digit[i] < d})
                            + Cardinality({i \in Rows : digit[i] = d /\ TileOf(i) < g})
    BY <1>1, <1>3, <2>1, ScanFacts
  <2>3. QED
    BY <1>2, <2>2 DEF OffsetInv, Digits
<1>6. BarrierInv' /\ AtInv'
  BY <1>1, <1>2 DEF BarrierInv, AtInv, Counted, Simds
<1>7. CountsInv'
  <2>1. DOMAIN counts = Tiles /\ \A g \in Tiles : DOMAIN counts[g] = Entries
    BY DEF SortInv, PassInv, CountsInv
  <2>2. ASSUME NEW g \in Tiles, NEW e \in Entries
        PROVE  at'[g][e \div Radix] = "zero" /\ at'[g][SimdOf(e % TileSize)] = "zero"
    BY <1>1, EntryFacts
  <2>3. QED
    BY <1>1, <1>2, <2>1, <2>2 DEF CountsInv, Counted, Entries
<1>8. OutInv'
  <2>1. \A i \in Rows : rank[i] \in Rows
    BY <1>3, DigitFacts
  <2>2. \A i \in Rows : TileOf(i) \in Tiles /\ SimdOf(i) \in Simds
    BY <1>3, Geometry
  <2>3. \A i \in Rows : at'[TileOf(i)][SimdOf(i)] = "zero"
    BY <1>1, <2>2
  <2>4. QED
    BY <1>1, <1>2, <2>1, <2>3 DEF OutInv, Scattered
<1>9. HistInv'
  BY <1>1 DEF HistInv
<1>10. StartsInv'
  BY <1>1, <1>2 DEF SortInv, StartsInv
<1>11. QED
  BY <1>2, <1>4, <1>5, <1>6, <1>7, <1>8, <1>9, <1>10 DEF SortInv, PassInv

-----------------------------------------------------------------------------
\* The scatter kernel up to the scatter.

\* One SIMD group goes on; the others stay.
LEMMA EnterFacts ==
  ASSUME SortInv, NEW g \in Tiles, NEW s \in Simds, NEW here, NEW there,
         Enter(g, s, here, there)
  PROVE  /\ stage = "scatter" /\ at[g][s] = here /\ at'[g][s] = there
         /\ DOMAIN at' = Tiles /\ \A h \in Tiles : DOMAIN at'[h] = Simds
         /\ \A h \in Tiles : \A u \in Simds : h # g \/ u # s => at'[h][u] = at[h][u]
BY DEF Enter, SortInv, PassInv, AtInv

LEMMA ScatterTypes ==
  ASSUME SortInv, stage = "scatter"
  PROVE  /\ TypeInv /\ lane < Lanes /\ N \in Nat /\ N > 0 /\ BarrierInv /\ CountsInv /\ OutInv
         /\ OffsetInv
<1>1. TypeInv /\ lane < Lanes /\ N # 0
  BY DEF SortInv, TypeInv
<1>2. N \in Nat
  BY <1>1, Column DEF TypeInv
<1>3. QED
  BY <1>1, <1>2 DEF SortInv, PassInv

LEMMA ZeroCountsStep ==
  ASSUME SortInv, NEW g \in Tiles, NEW s \in Simds, ZeroCounts(g, s) PROVE SortInv'
<1>1. /\ Enter(g, s, "zero", "rank") /\ stage' = stage
      /\ counts' = [counts EXCEPT ![g] = [i \in DOMAIN @ |->
           IF SimdOf(i % TileSize) = s THEN 0 ELSE @[i]]]
      /\ UNCHANGED <<keys, lane, cur, out, tileHist, offset, pending, starts>>
  BY DEF ZeroCounts, segment
<1>2. /\ stage = "scatter" /\ at[g][s] = "zero" /\ at'[g][s] = "rank"
      /\ DOMAIN at' = Tiles /\ \A h \in Tiles : DOMAIN at'[h] = Simds
      /\ \A h \in Tiles : \A u \in Simds : h # g \/ u # s => at'[h][u] = at[h][u]
  BY <1>1, EnterFacts
<1>3. /\ TypeInv /\ lane < Lanes /\ N \in Nat /\ N > 0 /\ BarrierInv /\ CountsInv /\ OutInv
      /\ OffsetInv
  BY <1>2, ScatterTypes
<1>4. /\ N' = N /\ Rows' = Rows /\ Tiles' = Tiles /\ digit' = digit /\ rank' = rank
      /\ SortedInv' = SortedInv /\ Pairs' = Pairs
      /\ \A h, u, d : Matching(h, u, d)' = Matching(h, u, d)
  BY <1>1, Frame DEF Given
<1>5. TypeInv'
  BY <1>1, <1>3, TypeFrame DEF Given
<1>6. \A u \in Simds : ~ Counted(g, u)
  BY <1>2, <1>3 DEF BarrierInv
<1>7. BarrierInv'
  <2>1. ASSUME NEW h \in Tiles, NEW u \in Simds
        PROVE  /\ at'[h][u] \in {"zero", "rank", "scatter", "done"}
               /\ at'[h][u] \in {"scatter", "done"} => \A v \in Simds : at'[h][v] # "zero"
               /\ at'[h][u] = "done" => \A v \in Simds : at'[h][v] \in {"scatter", "done"}
    <3>1. CASE h = g
      BY <1>2, <1>3, <1>6, <3>1 DEF BarrierInv, Counted
    <3>2. CASE h # g
      BY <1>2, <1>3, <3>2 DEF BarrierInv, Counted
    <3>3. QED
      BY <3>1, <3>2
  <2>2. QED
    BY <1>4, <2>1 DEF BarrierInv, Counted, Simds
<1>8. CountsInv'
  <2>1. DOMAIN counts = Tiles /\ \A h \in Tiles : DOMAIN counts[h] = Entries
    BY <1>3 DEF CountsInv
  <2>2. DOMAIN counts' = Tiles /\ \A h \in Tiles : DOMAIN counts'[h] = Entries
    BY <1>1, <2>1
  <2>3. ASSUME NEW h \in Tiles, NEW e \in Entries
        PROVE  IF at'[h][e \div Radix] \in {"scatter", "done"}
               THEN counts'[h][e] = Cardinality(Matching(h, e \div Radix, e % Radix))
               ELSE at'[h][SimdOf(e % TileSize)] # "zero" => counts'[h][e] = 0
    <3>1. PICK u \in Simds, o \in Simds : u = e \div Radix /\ o = SimdOf(e % TileSize)
      BY EntryFacts
    <3>2. IF at[h][u] \in {"scatter", "done"}
          THEN counts[h][e] = Cardinality(Matching(h, u, e % Radix))
          ELSE at[h][o] # "zero" => counts[h][e] = 0
      BY <1>2, <1>3, <3>1 DEF CountsInv, Counted
    <3>3. CASE h # g
      <4>1. counts'[h][e] = counts[h][e] /\ at'[h][u] = at[h][u] /\ at'[h][o] = at[h][o]
        BY <1>1, <1>2, <2>1, <3>3
      <4>2. QED
        BY <3>1, <3>2, <4>1
    <3>4. CASE h = g
      <4>1. counts'[g][e] = IF o = s THEN 0 ELSE counts[g][e]
        BY <1>1, <2>1, <3>1
      <4>2. at'[g][u] \notin {"scatter", "done"}
        BY <1>2, <1>6 DEF Counted
      <4>3. o # s => at'[g][o] = at[g][o]
        BY <1>2
      <4>4. at[g][u] \notin {"scatter", "done"}
        BY <1>6 DEF Counted
      <4>5. QED
        BY <3>1, <3>2, <3>4, <4>1, <4>2, <4>3, <4>4
    <3>5. QED
      BY <3>3, <3>4
  <2>4. QED
    BY <1>4, <2>2, <2>3 DEF CountsInv, Counted, Entries
<1>9. OutInv'
  <2>1. \A i \in Rows : TileOf(i) \in Tiles /\ SimdOf(i) \in Simds
    BY <1>3, Geometry
  <2>2. \A i \in Rows : Scattered(i)' = Scattered(i)
    BY <1>2, <2>1 DEF Scattered
  <2>3. QED
    BY <1>1, <1>2, <1>3, <1>4, <2>2 DEF OutInv
<1>10. HistInv' /\ AtInv' /\ OffsetInv'
  BY <1>1, <1>2, <1>3, <1>4 DEF HistInv, AtInv, OffsetInv, Simds
<1>11. StartsInv'
  BY <1>1, <1>2, <1>4 DEF SortInv, StartsInv
<1>12. QED
  BY <1>4, <1>5, <1>7, <1>8, <1>9, <1>10, <1>11 DEF SortInv, PassInv

LEMMA CountDigitsStep ==
  ASSUME SortInv, NEW g \in Tiles, NEW s \in Simds, CountDigits(g, s) PROVE SortInv'
<1>1. /\ Enter(g, s, "rank", "scatter") /\ stage' = stage /\ Barrier(g, {"zero"})
      /\ counts' = [counts EXCEPT ![g] = [i \in DOMAIN @ |->
           IF i \div Radix = s /\ Matching(g, s, i % Radix) # {}
           THEN Cardinality(Matching(g, s, i % Radix)) ELSE @[i]]]
      /\ UNCHANGED <<keys, lane, cur, out, tileHist, offset, pending, starts>>
  BY DEF CountDigits, segment
<1>2. /\ stage = "scatter" /\ at[g][s] = "rank" /\ at'[g][s] = "scatter"
      /\ DOMAIN at' = Tiles /\ \A h \in Tiles : DOMAIN at'[h] = Simds
      /\ \A h \in Tiles : \A u \in Simds : h # g \/ u # s => at'[h][u] = at[h][u]
  BY <1>1, EnterFacts
<1>3. /\ TypeInv /\ lane < Lanes /\ N \in Nat /\ N > 0 /\ BarrierInv /\ CountsInv /\ OutInv
      /\ OffsetInv
  BY <1>2, ScatterTypes
<1>4. /\ N' = N /\ Rows' = Rows /\ Tiles' = Tiles /\ digit' = digit /\ rank' = rank
      /\ SortedInv' = SortedInv /\ Pairs' = Pairs
      /\ \A h, u, d : Matching(h, u, d)' = Matching(h, u, d)
  BY <1>1, Frame DEF Given
<1>5. TypeInv'
  BY <1>1, <1>3, TypeFrame DEF Given
<1>6. \A u \in Simds : at[g][u] # "zero" /\ at[g][u] # "done"
  <2>1. \A u \in Simds : at[g][u] # "zero"
    BY <1>1 DEF Barrier
  <2>2. \A u \in Simds : at[g][u] # "done"
    BY <1>2, <1>3 DEF BarrierInv, Counted
  <2>3. QED
    BY <2>1, <2>2
<1>7. BarrierInv'
  <2>1. ASSUME NEW h \in Tiles, NEW u \in Simds
        PROVE  /\ at'[h][u] \in {"zero", "rank", "scatter", "done"}
               /\ at'[h][u] \in {"scatter", "done"} => \A v \in Simds : at'[h][v] # "zero"
               /\ at'[h][u] = "done" => \A v \in Simds : at'[h][v] \in {"scatter", "done"}
    <3>1. CASE h = g
      BY <1>2, <1>3, <1>6, <3>1 DEF BarrierInv, Counted
    <3>2. CASE h # g
      BY <1>2, <1>3, <3>2 DEF BarrierInv, Counted
    <3>3. QED
      BY <3>1, <3>2
  <2>2. QED
    BY <1>4, <2>1 DEF BarrierInv, Counted, Simds
<1>8. CountsInv'
  <2>1. DOMAIN counts = Tiles /\ \A h \in Tiles : DOMAIN counts[h] = Entries
    BY <1>3 DEF CountsInv
  <2>2. DOMAIN counts' = Tiles /\ \A h \in Tiles : DOMAIN counts'[h] = Entries
    BY <1>1, <2>1
  <2>3. ASSUME NEW h \in Tiles, NEW e \in Entries
        PROVE  IF at'[h][e \div Radix] \in {"scatter", "done"}
               THEN counts'[h][e] = Cardinality(Matching(h, e \div Radix, e % Radix))
               ELSE at'[h][SimdOf(e % TileSize)] # "zero" => counts'[h][e] = 0
    <3>1. PICK u \in Simds, o \in Simds : u = e \div Radix /\ o = SimdOf(e % TileSize)
      BY EntryFacts
    <3>2. IF at[h][u] \in {"scatter", "done"}
          THEN counts[h][e] = Cardinality(Matching(h, u, e % Radix))
          ELSE at[h][o] # "zero" => counts[h][e] = 0
      BY <1>2, <1>3, <3>1 DEF CountsInv, Counted
    <3>3. CASE h # g \/ u # s
      <4>1. counts'[h][e] = counts[h][e]
        <5>1. CASE h # g
          BY <1>1, <2>1, <5>1
        <5>2. CASE h = g /\ u # s
          BY <1>1, <2>1, <3>1, <5>2
        <5>3. QED
          BY <3>3, <5>1, <5>2
      <4>2. at'[h][u] = at[h][u] /\ (at'[h][o] # "zero" => at[h][o] # "zero")
        BY <1>2, <1>6, <3>3
      <4>3. QED
        BY <3>1, <3>2, <4>1, <4>2
    <3>4. CASE h = g /\ u = s
      <4>1. counts[g][e] = 0
        BY <1>2, <1>6, <3>2, <3>4
      <4>2. counts'[g][e] = IF Matching(g, s, e % Radix) # {}
                            THEN Cardinality(Matching(g, s, e % Radix)) ELSE 0
        BY <1>1, <2>1, <3>1, <3>4, <4>1
      <4>3. counts'[g][e] = Cardinality(Matching(g, s, e % Radix))
        BY <4>2, FS_EmptySet
      <4>4. QED
        BY <1>2, <3>1, <3>4, <4>3
    <3>5. QED
      BY <3>3, <3>4
  <2>4. QED
    BY <1>4, <2>2, <2>3 DEF CountsInv, Counted, Entries
<1>9. OutInv'
  <2>1. \A i \in Rows : TileOf(i) \in Tiles /\ SimdOf(i) \in Simds
    BY <1>3, Geometry
  <2>2. \A i \in Rows : Scattered(i)' = Scattered(i)
    BY <1>2, <2>1 DEF Scattered
  <2>3. QED
    BY <1>1, <1>2, <1>3, <1>4, <2>2 DEF OutInv
<1>10. HistInv' /\ AtInv' /\ OffsetInv'
  BY <1>1, <1>2, <1>3, <1>4 DEF HistInv, AtInv, OffsetInv, Simds
<1>11. StartsInv'
  BY <1>1, <1>2, <1>4 DEF SortInv, StartsInv
<1>12. QED
  BY <1>4, <1>5, <1>7, <1>8, <1>9, <1>10, <1>11 DEF SortInv, PassInv

-----------------------------------------------------------------------------
\* The scatter.

\* The counts of the SIMD groups before s, added up.
LEMMA CrossRank ==
  ASSUME TypeInv, lane < Lanes, NEW g \in Tiles, NEW s \in Simds, NEW d \in Digits,
         NEW b, b = [u \in {v \in Simds : v < s} |-> Cardinality(Matching(g, u, d))]
  PROVE  SumFunction(b) = Cardinality({i \in InTile(g, d) : SimdOf(i) < s})
<1>1. PICK D : D = {i \in InTile(g, d) : SimdOf(i) < s}
  OBVIOUS
<1>2. PICK J : J = {v \in Simds : v < s}
  OBVIOUS
<1>3. IsFiniteSet(D)
  <2>1. D \in SUBSET Rows
    BY <1>1 DEF InTile
  <2>2. QED
    BY <2>1, Column, FS_Subset DEF TypeInv
<1>4. IsFiniteSet(J)
  <2>1. IsFiniteSet(0..(SimdsPerTile - 1))
    BY Bounds, FS_Interval
  <2>2. QED
    BY <1>2, <2>1, FS_Subset DEF Simds
<1>5. PICK class : class = [i \in D |-> SimdOf(i)]
  OBVIOUS
<1>6. \A i \in D : SimdOf(i) \in Simds
  BY <1>1, Column, Geometry DEF TypeInv, InTile
<1>7. class \in [D -> J]
  BY <1>1, <1>2, <1>5, <1>6
<1>8. \A u \in J : Class(class, u) = Matching(g, u, d)
  <2>1. \A u \in Simds : Matching(g, u, d) = {i \in InTile(g, d) : SimdOf(i) = u}
    BY TileOfSimds
  <2>2. QED
    BY <1>1, <1>2, <1>5, <2>1 DEF Class
<1>9. PICK f : f = [u \in J |-> Cardinality(Class(class, u))]
  OBVIOUS
<1>10. Classes(class, D, J)
  BY <1>4, <1>7 DEF Classes
<1>11. SumFunction(f) = Cardinality(D)
  BY ONLY <1>3, <1>4, <1>9, <1>10, SumOfClasses
<1>12. f = b
  BY <1>2, <1>8, <1>9
<1>13. QED
  BY <1>1, <1>11, <1>12

LEMMA SizeOfTwo ==
  ASSUME NEW A, NEW B, IsFiniteSet(A), IsFiniteSet(B), A \cap B = {}
  PROVE  /\ IsFiniteSet(A \cup B) /\ Cardinality(A \cup B) = Cardinality(A) + Cardinality(B)
         /\ Cardinality(A) \in Nat /\ Cardinality(B) \in Nat
<1>1. Cardinality(A) \in Nat /\ Cardinality(B) \in Nat
  BY FS_CardinalityType
<1>2. /\ IsFiniteSet(A \cup B)
      /\ Cardinality(A \cup B) = Cardinality(A) + Cardinality(B) - Cardinality(A \cap B)
  BY FS_Union
<1>3. Cardinality(A \cap B) = 0
  BY FS_EmptySet
<1>4. QED
  BY <1>1, <1>2, <1>3

\* The position a thread computes is the number of rows that come before its own: those of
\* lower digits, and of the same digit those of earlier tiles, of earlier SIMD groups of
\* the tile, and of lower lanes.
LEMMA PosIsRank ==
  ASSUME TypeInv, lane < Lanes, NEW g \in Tiles, NEW s \in Simds, NEW i \in Rows,
         TileOf(i) = g, SimdOf(i) = s,
         offset[g][digit[i]] = Cardinality({j \in Rows : digit[j] < digit[i]})
                                 + Cardinality({j \in Rows : digit[j] = digit[i] /\ TileOf(j) < g}),
         \A u \in Simds : counts[g][u * Radix + digit[i]] = Cardinality(Matching(g, u, digit[i]))
  PROVE  Pos(g, s, i) = rank[i]
<1>0. /\ digit[i] \in Digits /\ Digit(cur[i].key) = digit[i]
      /\ \A j \in Rows : digit[j] \in Nat
  BY DigitFacts, Bounds DEF Digits
<1>1. PICK d \in Digits : d = digit[i]
  BY <1>0
<1>2. N \in Nat /\ IsFiniteSet(Rows) /\ Rows = 0..(N - 1)
  BY Column DEF TypeInv, Rows
<1>3. PICK A : A = {j \in Rows : digit[j] < d}
  OBVIOUS
<1>4. PICK B : B = {j \in Rows : digit[j] = d /\ TileOf(j) < g}
  OBVIOUS
<1>5. PICK C : C = {j \in InTile(g, d) : SimdOf(j) < s}
  OBVIOUS
<1>6. PICK E : E = {j \in Matching(g, s, d) : j < i}
  OBVIOUS
<1>7. Pos(g, s, i) = (Cardinality(A) + Cardinality(B)) + Cardinality(C) + Cardinality(E)
  <2>1. PICK b : b = [u \in {v \in Simds : v < s} |-> Cardinality(Matching(g, u, d))]
    OBVIOUS
  <2>2. SumFunction(b) = Cardinality(C)
    BY <1>5, <2>1, CrossRank
  <2>3. b = [u \in {u \in Simds : u < s} |-> counts[g][u * Radix + d]]
    BY <1>1, <2>1
  <2>4. offset[g][d] = Cardinality(A) + Cardinality(B)
    BY <1>1, <1>3, <1>4
  <2>5. QED
    BY <1>0, <1>1, <1>6, <2>2, <2>3, <2>4 DEF Pos
<1>8. Matching(g, s, d) = {j \in InTile(g, d) : SimdOf(j) = s}
  BY TileOfSimds
<1>9. /\ A \in SUBSET Rows /\ B \in SUBSET Rows /\ C \in SUBSET Rows /\ E \in SUBSET Rows
  BY <1>3, <1>4, <1>5, <1>6, <1>8 DEF InTile
<1>10. IsFiniteSet(A) /\ IsFiniteSet(B) /\ IsFiniteSet(C) /\ IsFiniteSet(E)
  BY <1>2, <1>9, FS_Subset
<1>11. \A j \in Rows : TileOf(j) \in Tiles /\ SimdOf(j) \in Simds
  BY <1>2, Geometry
<1>12. A \cap B = {} /\ (A \cup B) \cap C = {} /\ (A \cup B \cup C) \cap E = {}
  <2>1. \A j \in A : ~(digit[j] = d)
    BY <1>0, <1>1, <1>3 DEF Digits
  <2>2. \A j \in B : digit[j] = d /\ TileOf(j) # g
    BY <1>4, <1>11 DEF Tiles
  <2>3. \A j \in C : digit[j] = d /\ TileOf(j) = g /\ SimdOf(j) # s
    BY <1>5, <1>11 DEF InTile, Simds
  <2>4. \A j \in E : digit[j] = d /\ TileOf(j) = g /\ SimdOf(j) = s
    BY <1>6, <1>8 DEF InTile
  <2>5. QED
    BY <2>1, <2>2, <2>3, <2>4
<1>13. A \cup B \cup C \cup E = Earlier(N, digit, i)
  <2>1. ASSUME NEW j \in Rows
        PROVE  Before(digit, j, i) <=> (j \in A \/ j \in B \/ j \in C \/ j \in E)
    <3>1. digit[j] \in Nat /\ d \in Nat /\ j \in Nat /\ i \in Nat /\ digit[i] = d
      BY <1>0, <1>1, <1>2
    <3>2. /\ j \in A <=> digit[j] < d
          /\ j \in B <=> digit[j] = d /\ TileOf(j) < g
          /\ j \in C <=> digit[j] = d /\ TileOf(j) = g /\ SimdOf(j) < s
          /\ j \in E <=> digit[j] = d /\ TileOf(j) = g /\ SimdOf(j) = s /\ j < i
      BY <1>3, <1>4, <1>5, <1>6, <1>8 DEF InTile
    <3>3. TileOf(j) \in Int /\ SimdOf(j) \in Int /\ g \in Int /\ s \in Int
      BY <1>11 DEF Tiles, Simds
    <3>4. j < i => TileOf(j) < g \/ (TileOf(j) = g /\ SimdOf(j) <= s)
      BY <1>2, Geometry
    <3>5. i < j => g < TileOf(j) \/ (TileOf(j) = g /\ s <= SimdOf(j))
      BY <1>2, Geometry
    <3>6. QED
      BY <3>1, <3>2, <3>3, <3>4, <3>5 DEF Before
  <2>2. Earlier(N, digit, i) = {j \in Rows : Before(digit, j, i)}
    BY <1>2 DEF Earlier
  <2>3. QED
    BY <1>9, <2>1, <2>2
<1>14. Cardinality(Earlier(N, digit, i))
         = ((Cardinality(A) + Cardinality(B)) + Cardinality(C)) + Cardinality(E)
  <2>1. IsFiniteSet(A \cup B) /\ Cardinality(A \cup B) = Cardinality(A) + Cardinality(B)
    BY <1>10, <1>12, SizeOfTwo
  <2>2. /\ IsFiniteSet((A \cup B) \cup C)
        /\ Cardinality((A \cup B) \cup C) = Cardinality(A \cup B) + Cardinality(C)
    BY <1>10, <1>12, <2>1, SizeOfTwo
  <2>3. Cardinality(((A \cup B) \cup C) \cup E) = Cardinality((A \cup B) \cup C) + Cardinality(E)
    BY <1>10, <1>12, <2>2, SizeOfTwo
  <2>4. QED
    BY <1>13, <2>1, <2>2, <2>3
<1>15. rank[i] = Cardinality(Earlier(N, digit, i))
  BY <1>2 DEF rank, RankIn
<1>16. QED
  BY <1>7, <1>14, <1>15

LEMMA ScatterStep ==
  ASSUME SortInv, NEW g \in Tiles, NEW s \in Simds, Scatter(g, s) PROVE SortInv'
<1> DEFINE mine == {i \in Rows : TileOf(i) = g /\ SimdOf(i) = s}
<1>1. /\ Enter(g, s, "scatter", "done") /\ stage' = stage /\ Barrier(g, {"zero", "rank"})
      /\ out' = [p \in DOMAIN out |->
           IF \E i \in mine : Pos(g, s, i) = p
           THEN cur[CHOOSE i \in mine : Pos(g, s, i) = p] ELSE out[p]]
      /\ UNCHANGED <<keys, lane, cur, tileHist, offset, counts, pending, starts>>
  BY DEF Scatter, segment
<1>2. /\ stage = "scatter" /\ at[g][s] = "scatter" /\ at'[g][s] = "done"
      /\ DOMAIN at' = Tiles /\ \A h \in Tiles : DOMAIN at'[h] = Simds
      /\ \A h \in Tiles : \A u \in Simds : h # g \/ u # s => at'[h][u] = at[h][u]
  BY <1>1, EnterFacts
<1>3. /\ TypeInv /\ lane < Lanes /\ N \in Nat /\ N > 0 /\ BarrierInv /\ CountsInv /\ OutInv
      /\ OffsetInv
  BY <1>2, ScatterTypes
<1>4. /\ N' = N /\ Rows' = Rows /\ Tiles' = Tiles /\ digit' = digit /\ rank' = rank
      /\ SortedInv' = SortedInv /\ Pairs' = Pairs
      /\ \A h, u, d : Matching(h, u, d)' = Matching(h, u, d)
  BY <1>1, Frame DEF Given
<1>5. TypeInv'
  BY <1>1, <1>3, TypeFrame DEF Given
<1>6. \A u \in Simds : Counted(g, u)
  BY <1>1, <1>2, <1>3 DEF Barrier, BarrierInv, Counted
<1>7. BarrierInv'
  <2>1. ASSUME NEW h \in Tiles, NEW u \in Simds
        PROVE  /\ at'[h][u] \in {"zero", "rank", "scatter", "done"}
               /\ at'[h][u] \in {"scatter", "done"} => \A v \in Simds : at'[h][v] # "zero"
               /\ at'[h][u] = "done" => \A v \in Simds : at'[h][v] \in {"scatter", "done"}
    <3>1. CASE h = g
      BY <1>2, <1>3, <1>6, <3>1 DEF BarrierInv, Counted
    <3>2. CASE h # g
      BY <1>2, <1>3, <3>2 DEF BarrierInv, Counted
    <3>3. QED
      BY <3>1, <3>2
  <2>2. QED
    BY <1>4, <2>1 DEF BarrierInv, Counted, Simds
<1>8. CountsInv'
  <2>1. ASSUME NEW h \in Tiles, NEW u \in Simds
        PROVE  /\ at'[h][u] \in {"scatter", "done"} <=> at[h][u] \in {"scatter", "done"}
               /\ at'[h][u] # "zero" <=> at[h][u] # "zero"
    <3>1. CASE h = g /\ u = s
      BY <1>2, <3>1
    <3>2. CASE h # g \/ u # s
      BY <1>2, <3>2
    <3>3. QED
      BY <3>1, <3>2
  <2>2. DOMAIN counts = Tiles /\ \A h \in Tiles : DOMAIN counts[h] = Entries
    BY <1>3 DEF CountsInv
  <2>3. ASSUME NEW h \in Tiles, NEW e \in Entries
        PROVE  IF at'[h][e \div Radix] \in {"scatter", "done"}
               THEN counts[h][e] = Cardinality(Matching(h, e \div Radix, e % Radix))
               ELSE at'[h][SimdOf(e % TileSize)] # "zero" => counts[h][e] = 0
    <3>1. PICK u \in Simds, o \in Simds : u = e \div Radix /\ o = SimdOf(e % TileSize)
      BY EntryFacts
    <3>2. IF at[h][u] \in {"scatter", "done"}
          THEN counts[h][e] = Cardinality(Matching(h, u, e % Radix))
          ELSE at[h][o] # "zero" => counts[h][e] = 0
      BY <1>2, <1>3, <3>1 DEF CountsInv, Counted
    <3>3. QED
      BY <2>1, <3>1, <3>2
  <2>4. QED
    BY <1>1, <1>4, <2>2, <2>3 DEF CountsInv, Counted, Entries
<1>9. ASSUME NEW i \in mine PROVE Pos(g, s, i) = rank[i]
  <2>1. digit[i] \in Digits
    BY <1>3, DigitFacts
  <2>2. \A u \in Simds : counts[g][u * Radix + digit[i]] = Cardinality(Matching(g, u, digit[i]))
    <3>1. ASSUME NEW u \in Simds
          PROVE  counts[g][u * Radix + digit[i]] = Cardinality(Matching(g, u, digit[i]))
      <4>1. PICK e \in Entries :
              e = u * Radix + digit[i] /\ e \div Radix = u /\ e % Radix = digit[i]
        BY <2>1, EntryFacts
      <4>2. Counted(g, u)
        BY <1>6
      <4>3. counts[g][e] = Cardinality(Matching(g, u, digit[i]))
        BY <1>2, <1>3, <4>1, <4>2 DEF CountsInv
      <4>4. QED
        BY <4>1, <4>3
    <3>2. QED
      BY <3>1
  <2>3. offset[g][digit[i]] = Cardinality({j \in Rows : digit[j] < digit[i]})
                       + Cardinality({j \in Rows : digit[j] = digit[i] /\ TileOf(j) < g})
    BY <1>2, <1>3, <2>1 DEF OffsetInv
  <2>4. QED
    BY <1>3, <2>2, <2>3, PosIsRank
<1>10. OutInv'
  <2>0. DOMAIN out = Rows
    BY <1>2, <1>3 DEF OutInv
  <2>1. \A i \in Rows : TileOf(i) \in Tiles /\ SimdOf(i) \in Simds
    BY <1>3, Geometry
  <2>2. /\ \A i \in Rows : rank[i] \in Rows
        /\ \A i, j \in Rows : rank[i] = rank[j] => i = j
    BY <1>3, DigitFacts
  <2>3. ASSUME NEW i \in Rows
        PROVE  out'[rank[i]] = IF at'[TileOf(i)][SimdOf(i)] = "done" THEN cur[i] ELSE NoPair
    <3>1. CASE i \in mine
      <4>1. PICK k : k = CHOOSE x \in mine : Pos(g, s, x) = rank[i]
        OBVIOUS
      <4>2. k \in mine /\ Pos(g, s, k) = rank[i]
        BY <1>9, <3>1, <4>1
      <4>3. k = i
        BY <1>9, <2>2, <4>2
      <4>4. out'[rank[i]] = cur[k]
        BY <1>1, <1>9, <2>0, <2>2, <3>1, <4>1
      <4>5. QED
        BY <1>2, <3>1, <4>3, <4>4
    <3>2. CASE i \notin mine
      <4>1. ~ \E k \in mine : Pos(g, s, k) = rank[i]
        BY <1>9, <2>2, <3>2
      <4>2. out'[rank[i]] = out[rank[i]]
        BY <1>1, <2>0, <2>2, <4>1
      <4>3. at'[TileOf(i)][SimdOf(i)] = at[TileOf(i)][SimdOf(i)]
        BY <1>2, <2>1, <3>2
      <4>4. QED
        BY <1>2, <1>3, <4>2, <4>3 DEF OutInv, Scattered
    <3>3. QED
      BY <3>1, <3>2
  <2>4. out' \in [Rows -> Pairs \cup {NoPair}]
    <3>1. \A i \in mine : cur[i] \in Pairs
      BY <1>3 DEF TypeInv
    <3>2. ASSUME NEW p \in Rows PROVE out'[p] \in Pairs \cup {NoPair}
      <4>1. CASE \E i \in mine : Pos(g, s, i) = p
        BY <1>1, <2>0, <3>1, <4>1
      <4>2. CASE ~ \E i \in mine : Pos(g, s, i) = p
        BY <1>1, <1>2, <1>3, <2>0, <4>2 DEF OutInv
      <4>3. QED
        BY <4>1, <4>2
    <3>3. out' = [p \in Rows |-> out'[p]]
      BY <1>1, <2>0
    <3>4. QED
      BY <3>2, <3>3
  <2>5. QED
    BY <1>1, <1>4, <2>3, <2>4 DEF OutInv, Scattered
<1>11. HistInv' /\ AtInv' /\ OffsetInv'
  BY <1>1, <1>2, <1>3, <1>4 DEF HistInv, AtInv, OffsetInv, Simds
<1>12. StartsInv'
  BY <1>1, <1>2, <1>4 DEF SortInv, StartsInv
<1>13. QED
  BY <1>4, <1>5, <1>7, <1>8, <1>10, <1>11, <1>12 DEF SortInv, PassInv

-----------------------------------------------------------------------------
\* The end of a pass: the output is in the order of one digit more.

\* All rows are scattered.
LEMMA PassOutput ==
  ASSUME SortInv, FinishPass
  PROVE  /\ stage = "scatter" /\ TypeInv /\ lane < Lanes /\ N \in Nat /\ N > 0
         /\ cur' = out /\ \A i \in Rows : out[rank[i]] = cur[i]
         /\ cur' \in [Rows -> Pairs]
<1>1. stage = "scatter" /\ cur' = out /\ \A g \in Tiles, s \in Simds : at[g][s] = "done"
  BY DEF FinishPass
<1>2. TypeInv /\ lane < Lanes /\ N \in Nat /\ N > 0 /\ OutInv
  BY <1>1, ScatterTypes
<1>3. \A i \in Rows : Scattered(i)
  BY <1>1, <1>2, Geometry DEF Scattered
<1>4. \A i \in Rows : out[rank[i]] = cur[i]
  BY <1>1, <1>2, <1>3 DEF OutInv
<1>5. ASSUME NEW p \in Rows PROVE out[p] \in Pairs
  <2>1. PICK i \in Rows : rank[i] = p
    BY <1>2, DigitFacts
  <2>2. QED
    BY <1>2, <1>4, <2>1 DEF TypeInv
<1>6. out \in [Rows -> Pairs]
  BY <1>1, <1>2, <1>5 DEF OutInv
<1>7. QED
  BY <1>1, <1>2, <1>4, <1>6

LEMMA FinishPassSorts ==
  ASSUME SortInv, FinishPass PROVE SortedInv'
<1>1. /\ stage = "scatter" /\ TypeInv /\ lane < Lanes /\ N \in Nat /\ N > 0
      /\ cur' = out /\ \A i \in Rows : out[rank[i]] = cur[i]
  BY PassOutput
<1>2. keys' = keys /\ lane' = lane + 1 /\ lane \in Nat
  BY <1>1 DEF FinishPass, TypeInv
<1>3. N' = N /\ Rows' = Rows
  BY <1>2 DEF N, Rows
<1>4. /\ \A i \in Rows : cur[i].key = keys[cur[i].row]
      /\ \A i, j \in Rows : i < j => InOrder(i, j)
      /\ \A i, j \in Rows : cur[i].row = cur[j].row => i = j
  BY DEF SortInv, SortedInv
<1>5. \A p \in Rows : \E i \in Rows : rank[i] = p /\ cur'[p] = cur[i]
  BY <1>1, DigitFacts
<1>6. ASSUME NEW p \in Rows PROVE cur'[p].key = keys[cur'[p].row]
  BY <1>4, <1>5
<1>7. ASSUME NEW p \in Rows, NEW q \in Rows, cur'[p].row = cur'[q].row PROVE p = q
  BY <1>4, <1>5, <1>7
<1>8. ASSUME NEW p \in Rows, NEW q \in Rows, p < q
      PROVE  InOrder(p, q)'
  <2>1. PICK i \in Rows : rank[i] = p /\ cur'[p] = cur[i]
    BY <1>5
  <2>2. PICK j \in Rows : rank[j] = q /\ cur'[q] = cur[j]
    BY <1>5
  <2>3. /\ digit[i] \in Nat /\ digit[j] \in Nat /\ i \in Nat /\ j \in Nat /\ p \in Nat /\ q \in Nat
        /\ digit[i] = cur[i].key[lane] /\ digit[j] = cur[j].key[lane]
    <3>1. digit[i] \in Digits /\ digit[j] \in Digits
      BY <1>1, DigitFacts
    <3>2. digit[i] = cur[i].key[lane] /\ digit[j] = cur[j].key[lane]
      BY <1>1, DigitFacts DEF Digit
    <3>3. QED
      BY <1>1, <3>1, <3>2, Bounds DEF Digits, Rows
  <2>4. Before(digit, i, j)
    <3>1. i = j \/ Before(digit, i, j) \/ Before(digit, j, i)
      BY <2>3 DEF Before
    <3>2. Before(digit, j, i) => q < p
      BY <1>1, <2>1, <2>2, DigitFacts
    <3>3. QED
      BY <1>8, <2>1, <2>2, <2>3, <3>1, <3>2
  <2>5. PICK k, r : k = cur[i].key /\ r = cur[j].key
    OBVIOUS
  <2>6. CASE digit[i] < digit[j]
    <3>1. lane \in 0..(lane' - 1) /\ \A m \in (lane + 1)..(lane' - 1) : k[m] = r[m]
      BY <1>2
    <3>2. k[lane] < r[lane]
      BY <2>3, <2>5, <2>6
    <3>3. Below(k, r)'
      BY <3>1, <3>2 DEF Below
    <3>4. QED
      BY <2>1, <2>2, <2>5, <3>3 DEF InOrder
  <2>7. CASE digit[i] = digit[j] /\ i < j
    <3>1. k[lane] = r[lane]
      BY <2>3, <2>5, <2>7
    <3>2. InOrder(i, j)
      BY <1>4, <2>7
    <3>3. CASE Below(k, r)
      <4>1. PICK l \in 0..(lane - 1) : k[l] < r[l] /\ \A m \in (l + 1)..(lane - 1) : k[m] = r[m]
        BY <3>3 DEF Below
      <4>2. l \in 0..(lane' - 1)
        BY <1>2
      <4>3. \A m \in (l + 1)..(lane' - 1) : m \in (l + 1)..(lane - 1) \/ m = lane
        BY <1>2
      <4>4. Below(k, r)'
        BY <3>1, <4>1, <4>2, <4>3 DEF Below
      <4>5. QED
        BY <2>1, <2>2, <2>5, <4>4 DEF InOrder
    <3>4. CASE Alike(k, r) /\ cur[i].row < cur[j].row
      <4>1. \A m \in 0..(lane' - 1) : m \in 0..(lane - 1) \/ m = lane
        BY <1>2
      <4>2. Alike(k, r)'
        BY <3>1, <3>4, <4>1 DEF Alike
      <4>3. QED
        BY <2>1, <2>2, <2>5, <3>4, <4>2 DEF InOrder
    <3>5. QED
      BY <2>5, <3>2, <3>3, <3>4 DEF InOrder
  <2>8. QED
    BY <2>4, <2>6, <2>7 DEF Before
<1>9. QED
  BY <1>2, <1>3, <1>6, <1>7, <1>8 DEF SortedInv

LEMMA FinishPassStep ==
  ASSUME SortInv, FinishPass PROVE SortInv'
<1>1. /\ stage = "scatter" /\ TypeInv /\ lane < Lanes /\ N \in Nat /\ N > 0
      /\ cur' \in [Rows -> Pairs]
  BY PassOutput
<1>2. /\ keys' = keys /\ lane' = lane + 1 /\ lane \in Nat /\ DOMAIN tileHist' = {}
      /\ counts' = counts /\ pending' = pending /\ starts' = starts
      /\ stage' = IF lane + 1 = Lanes THEN "segment" ELSE "histogram"
  BY <1>1 DEF FinishPass, segment, TypeInv
<1>3. N' = N /\ Rows' = Rows /\ Tiles' = Tiles /\ Pairs' = Pairs
  BY <1>2 DEF N, Rows, Tiles, Pairs
<1>4. TypeInv'
  BY <1>1, <1>2, <1>3, Bounds DEF TypeInv
<1>5. PassInv'
  <2>1. CountsInv'
    BY <1>1, <1>2, <1>3, ScatterTypes DEF CountsInv
  <2>2. QED
    BY <1>2, <2>1 DEF PassInv, HistInv, OffsetInv, AtInv, BarrierInv, OutInv
<1>6. StartsInv'
  <2>1. pending' = Rows /\ starts' = {}
    BY <1>1, <1>2 DEF SortInv, StartsInv
  <2>2. QED
    BY <1>2, <1>3, <2>1 DEF StartsInv
<1>7. QED
  BY <1>4, <1>5, <1>6, FinishPassSorts DEF SortInv

-----------------------------------------------------------------------------
\* The segments.

LEMMA MarkStartStep ==
  ASSUME SortInv, NEW i \in Rows, MarkStart(i) PROVE SortInv'
<1>1. /\ stage = "segment" /\ stage' = "segment" /\ i \in pending
      /\ pending' = pending \ {i} /\ starts' = IF IsStart(i) THEN starts \cup {i} ELSE starts
      /\ UNCHANGED <<keys, lane, cur, counts>>
  BY DEF MarkStart, pass
<1>2. /\ N' = N /\ Rows' = Rows /\ Tiles' = Tiles /\ SortedInv' = SortedInv
      /\ \A j : IsStart(j)' = IsStart(j)
  BY <1>1, Frame DEF Given
<1>3. TypeInv /\ N # 0 /\ N \in Nat
  BY <1>1, Column DEF SortInv, TypeInv
<1>4. TypeInv'
  BY <1>1, <1>3, TypeFrame DEF Given
<1>5. PassInv'
  <2>1. CountsInv'
    BY <1>1, <1>2 DEF SortInv, PassInv, CountsInv, Entries
  <2>2. QED
    BY <1>1, <2>1 DEF PassInv, HistInv, OffsetInv, AtInv, BarrierInv, OutInv
<1>6. StartsInv'
  <2>1. lane = Lanes /\ pending \subseteq Rows /\ starts = {j \in Rows \ pending : IsStart(j)}
    BY <1>1 DEF SortInv, StartsInv
  <2>2. starts' = {j \in Rows \ pending' : IsStart(j)}
    BY <1>1, <2>1
  <2>3. QED
    BY <1>1, <1>2, <2>1, <2>2 DEF StartsInv
<1>7. QED
  BY <1>2, <1>4, <1>5, <1>6 DEF SortInv

\* The host's last steps leave the buffers.
LEMMA HostStep ==
  ASSUME SortInv, AnswerEmpty \/ NumberGroups \/ Fails \/ UNCHANGED vars PROVE SortInv'
<1>1. UNCHANGED <<keys, lane, cur, out, tileHist, offset, counts, at, pending, starts>>
  BY DEF AnswerEmpty, NumberGroups, Fails, vars, pass, segment
<1>2. /\ N' = N /\ Rows' = Rows /\ Tiles' = Tiles /\ digit' = digit /\ rank' = rank
      /\ SortedInv' = SortedInv /\ Pairs' = Pairs
      /\ \A h, u, d : Matching(h, u, d)' = Matching(h, u, d)
      /\ \A h, d : InTile(h, d)' = InTile(h, d)
      /\ \A j : IsStart(j)' = IsStart(j)
  BY <1>1, Frame DEF Given
<1>3. \/ stage' = stage
      \/ stage' = "done" /\ N = 0
      \/ stage' = "done" /\ stage = "segment" /\ pending = {}
      \/ stage' = "failed" /\ N > 0
  BY DEF AnswerEmpty, NumberGroups, Fails, vars
<1>4. N \in Nat
  BY Column DEF SortInv, TypeInv
<1>5. TypeInv'
  BY <1>1, <1>2, <1>3, <1>4 DEF SortInv, TypeInv
<1>6. CountsInv' /\ HistInv' /\ OffsetInv' /\ AtInv' /\ BarrierInv' /\ OutInv'
  <2>1. CASE stage' = stage
    <3>1. HistInv' /\ OffsetInv'
      BY <1>1, <1>2, <2>1 DEF SortInv, PassInv, HistInv, OffsetInv, Digits
    <3>2. AtInv' /\ BarrierInv'
      BY <1>1, <1>2, <2>1 DEF SortInv, PassInv, AtInv, BarrierInv, Counted, Simds
    <3>3. CountsInv'
      BY <1>1, <1>2, <2>1 DEF SortInv, PassInv, CountsInv, Counted, Entries
    <3>4. OutInv'
      BY <1>1, <1>2, <2>1 DEF SortInv, PassInv, OutInv, Scattered
    <3>5. QED
      BY <3>1, <3>2, <3>3, <3>4
  <2>2. CASE stage' \in {"done", "failed"}
    <3>1. CountsInv'
      BY <1>1, <1>2, <2>2 DEF SortInv, PassInv, CountsInv, Entries
    <3>2. QED
      BY <2>2, <3>1 DEF HistInv, OffsetInv, AtInv, BarrierInv, OutInv
  <2>3. QED
    BY <1>3, <2>1, <2>2
<1>7. StartsInv'
  BY <1>1, <1>2, <1>3, <1>4 DEF SortInv, StartsInv
<1>8. QED
  BY <1>2, <1>5, <1>6, <1>7 DEF SortInv, PassInv

LEMMA SortStep == SortInv /\ [Next]_vars => SortInv'
<1> SUFFICES ASSUME SortInv, [Next]_vars PROVE SortInv'
  OBVIOUS
<1>1. CASE AnswerEmpty \/ NumberGroups \/ Fails \/ UNCHANGED vars
  BY <1>1, HostStep
<1>2. CASE HostScan
  BY <1>2, HostScanStep
<1>3. CASE FinishPass
  BY <1>3, FinishPassStep
<1>4. ASSUME NEW g \in Tiles, TileHist(g) PROVE SortInv'
  BY <1>4, TileHistStep
<1>5. ASSUME NEW g \in Tiles, NEW s \in Simds, ZeroCounts(g, s) PROVE SortInv'
  BY <1>5, ZeroCountsStep
<1>6. ASSUME NEW g \in Tiles, NEW s \in Simds, CountDigits(g, s) PROVE SortInv'
  BY <1>6, CountDigitsStep
<1>7. ASSUME NEW g \in Tiles, NEW s \in Simds, Scatter(g, s) PROVE SortInv'
  BY <1>7, ScatterStep
<1>8. ASSUME NEW i \in Rows, MarkStart(i) PROVE SortInv'
  BY <1>8, MarkStartStep
<1>9. QED
  BY <1>1, <1>2, <1>3, <1>4, <1>5, <1>6, <1>7, <1>8 DEF Next

\* The invariant of the sort: the state of each kernel, and the order of the pairs.
LEMMA SortInvariant == Spec => []SortInv
BY InitSorted, SortStep, PTL DEF Spec

\* In every pass of the sort the threads of the scatter kernel write to positions of their
\* own, inside the buffers: however the SIMD groups of the tiles interleave, and whatever
\* the threadgroup memory held.
THEOREM ScatterIsExclusive == Spec => []ScatterNeverCollides
<1>1. SortInv => ScatterNeverCollides
  <2> SUFFICES ASSUME SortInv, stage = "scatter"
               PROVE  Cardinality({p \in Rows : out[p] # NoPair})
                        = Cardinality({i \in Rows : Scattered(i)})
    BY DEF ScatterNeverCollides, Scattered
  <2>1. TypeInv /\ lane < Lanes /\ OutInv
    BY ScatterTypes
  <2>2. PICK A, B : A = {i \in Rows : Scattered(i)} /\ B = {p \in Rows : out[p] # NoPair}
    OBVIOUS
  <2>3. PICK f : f = [i \in A |-> rank[i]]
    OBVIOUS
  <2>4. /\ \A i \in Rows : rank[i] \in Rows
        /\ \A p \in Rows : \E i \in Rows : rank[i] = p
        /\ \A i, j \in Rows : rank[i] = rank[j] => i = j
    BY <2>1, DigitFacts
  <2>5. ASSUME NEW i \in Rows PROVE cur[i] # NoPair
    <3>1. cur[i] \in Pairs /\ cur[i].key = keys[cur[i].row]
      BY <2>1 DEF TypeInv, SortInv, SortedInv
    <3>2. PICK r \in Rows : r = cur[i].row /\ cur[i] = [key |-> keys[r], row |-> r]
      BY <3>1 DEF Pairs
    <3>3. QED
      BY <2>1, <3>2, Column DEF TypeInv
  <2>6. ASSUME NEW i \in Rows PROVE out[rank[i]] # NoPair <=> Scattered(i)
    BY <2>1, <2>5 DEF OutInv
  <2>7. f \in [A -> B]
    BY <2>2, <2>3, <2>4, <2>6
  <2>8. f \in Injection(A, B)
    BY <2>2, <2>3, <2>4, <2>7 DEF Injection, IsInjective
  <2>9. f \in Surjection(A, B)
    BY <2>2, <2>3, <2>4, <2>6, <2>7 DEF Surjection
  <2>10. ExistsBijection(A, B)
    BY <2>8, <2>9 DEF ExistsBijection, Bijection
  <2>11. IsFiniteSet(A)
    BY <2>1, <2>2, Column, FS_Subset DEF TypeInv
  <2>12. QED
    BY <2>2, <2>10, <2>11, FS_Bijection
<1>2. QED
  BY <1>1, SortInvariant, PTL

\* Each pass is stable, so that between passes the pairs are ordered by the digits done so
\* far and, among equals, by row: after the last pass by key and row.
THEOREM PassesAreStable == Spec => []StableByLowDigits
<1>1. SortInv => StableByLowDigits
  BY DEF SortInv, SortedInv, InOrder, StableByLowDigits
<1>2. QED
  BY <1>1, SortInvariant, PTL

-----------------------------------------------------------------------------
\* The groups of a column that is sorted and segmented.

Segmented ==
  /\ TypeInv /\ SortedInv /\ N > 0 /\ lane = Lanes
  /\ starts = {i \in Rows : IsStart(i)}

\* The order of whole keys.
LEMMA WholeKeys ==
  ASSUME lane = Lanes, NEW k \in Keys, NEW q \in Keys
  PROVE  /\ Alike(k, q) <=> k = q
         /\ ~Below(k, k)
         /\ \A r \in Keys : Below(k, q) /\ Below(q, r) => Below(k, r)
<1>1. ASSUME NEW x \in Keys, NEW l \in 0..(Lanes - 1) PROVE x[l] \in Nat
  BY Bounds DEF Keys, Digits
<1>2. Alike(k, q) <=> k = q
  <2>1. k = [l \in 0..(Lanes - 1) |-> k[l]] /\ q = [l \in 0..(Lanes - 1) |-> q[l]]
    BY DEF Keys
  <2>2. Alike(k, q) <=> \A l \in 0..(Lanes - 1) : k[l] = q[l]
    BY DEF Alike
  <2>3. QED
    BY <2>1, <2>2
<1>3. ~Below(k, k)
  BY <1>1 DEF Below
<1>4. ASSUME NEW r \in Keys, Below(k, q), Below(q, r) PROVE Below(k, r)
  <2>0. Lanes \in Nat
    BY Bounds
  <2>1. PICK l \in 0..(Lanes - 1) : k[l] < q[l] /\ \A m \in (l + 1)..(Lanes - 1) : k[m] = q[m]
    BY <1>4 DEF Below
  <2>2. PICK h \in 0..(Lanes - 1) : q[h] < r[h] /\ \A m \in (h + 1)..(Lanes - 1) : q[m] = r[m]
    BY <1>4 DEF Below
  <2>3. CASE l <= h
    <3>1. k[h] < r[h]
      BY <1>1, <2>0, <2>1, <2>2, <2>3
    <3>2. \A m \in (h + 1)..(Lanes - 1) : k[m] = r[m]
      BY <2>0, <2>1, <2>2, <2>3
    <3>3. QED
      BY <3>1, <3>2 DEF Below
  <2>4. CASE h < l
    <3>1. k[l] < r[l]
      BY <1>1, <2>0, <2>1, <2>2, <2>4
    <3>2. \A m \in (l + 1)..(Lanes - 1) : k[m] = r[m]
      BY <2>0, <2>1, <2>2, <2>4
    <3>3. QED
      BY <3>1, <3>2 DEF Below
  <2>5. QED
    BY <2>0, <2>3, <2>4
<1>5. QED
  BY <1>2, <1>3, <1>4

\* Group numbers do not fall, and rise by one at each start.
LEMMA GroupSteps ==
  ASSUME Segmented
  PROVE  /\ N \in Nat /\ 0 \in Rows /\ N - 1 \in Rows
         /\ \A i \in Rows : GroupAt(i) \in Nat
         /\ GroupAt(0) = 0
         /\ \A i, j \in Rows : i <= j => GroupAt(i) <= GroupAt(j)
         /\ \A i, j \in Rows : i < j =>
              (GroupAt(i) = GroupAt(j) <=> \A m \in (i + 1)..j : m \notin starts)
         /\ \A i \in Rows : i > 0 =>
              GroupAt(i) = GroupAt(i - 1) + (IF i \in starts THEN 1 ELSE 0)
<1> DEFINE Upto(i) == {j \in starts : 0 < j /\ j <= i}
<1>1. N \in Nat /\ IsFiniteSet(Rows) /\ 0 \in Rows /\ N - 1 \in Rows /\ Rows \subseteq Nat
  BY Column DEF Segmented, TypeInv, Rows
<1>2. starts \in SUBSET Rows /\ \A j \in starts : j \in Rows /\ j \in Nat
  <2>1. starts \in SUBSET Rows
    BY DEF Segmented
  <2>2. QED
    BY <1>1, <2>1
<1>3. ASSUME NEW i \in Rows
      PROVE  IsFiniteSet(Upto(i)) /\ GroupAt(i) = Cardinality(Upto(i)) /\ GroupAt(i) \in Nat
  <2>1. Upto(i) \in SUBSET Rows
    BY <1>2
  <2>2. IsFiniteSet(Upto(i))
    BY <1>1, <2>1, FS_Subset
  <2>3. QED
    BY <2>2, FS_CardinalityType DEF GroupAt
<1>4. GroupAt(0) = 0
  <2>1. Upto(0) = {}
    <3>1. \A j \in starts : ~(0 < j /\ j <= 0)
      BY <1>2
    <3>2. QED
      BY <3>1
  <2>2. QED
    BY <1>1, <1>3, <2>1, FS_EmptySet
<1>5. ASSUME NEW i \in Rows, NEW j \in Rows, i <= j
      PROVE  /\ Upto(i) \in SUBSET Upto(j) /\ GroupAt(i) <= GroupAt(j)
             /\ GroupAt(i) = GroupAt(j) => Upto(i) = Upto(j)
  <2>1. Upto(i) \in SUBSET Upto(j)
    <3>1. i \in Nat /\ j \in Nat
      BY <1>1
    <3>2. \A m \in starts : m <= i => m <= j
      BY <1>2, <1>5, <3>1
    <3>3. QED
      BY <3>2
  <2>2. /\ IsFiniteSet(Upto(j))
        /\ GroupAt(i) = Cardinality(Upto(i)) /\ GroupAt(j) = Cardinality(Upto(j))
    BY <1>3
  <2> HIDE DEF Upto
  <2>3. QED
    BY <2>1, <2>2, FS_Subset
<1>6. ASSUME NEW i \in Rows, NEW j \in Rows, i < j
      PROVE  GroupAt(i) = GroupAt(j) <=> \A m \in (i + 1)..j : m \notin starts
  <2>1. ASSUME NEW m \in (i + 1)..j, m \in starts PROVE m \in Upto(j) /\ m \notin Upto(i)
    BY <1>1, <1>2, <2>1
  <2>2. ASSUME \A m \in (i + 1)..j : m \notin starts PROVE Upto(i) = Upto(j)
    <3>1. ASSUME NEW m \in Upto(j), m \notin Upto(i) PROVE FALSE
      <4>1. m \in (i + 1)..j /\ m \in starts
        BY <1>1, <1>2, <3>1
      <4>2. QED
        BY <2>2, <4>1
    <3>2. i <= j
      BY <1>1, <1>6
    <3>3. Upto(i) \in SUBSET Upto(j)
      BY <1>5, <3>2
    <3> HIDE DEF Upto
    <3>4. QED
      BY <3>1, <3>3
  <2>3. i <= j
    BY <1>1, <1>6
  <2>4. QED
    BY <1>3, <1>5, <2>1, <2>2, <2>3
<1>7. ASSUME NEW i \in Rows, i > 0
      PROVE  GroupAt(i) = GroupAt(i - 1) + (IF i \in starts THEN 1 ELSE 0)
  <2>1. i - 1 \in Rows /\ i \in Nat /\ i - 1 \in Nat
    BY <1>1, <1>7 DEF Rows
  <2>2. CASE i \in starts
    <3>1. Upto(i) = Upto(i - 1) \cup {i} /\ i \notin Upto(i - 1)
      <4>1. \A j \in starts : j <= i <=> (j <= i - 1 \/ j = i)
        BY <1>2, <2>1
      <4>2. ~(i <= i - 1)
        BY <2>1
      <4>3. QED
        BY <1>7, <2>2, <4>1, <4>2
    <3>2. Cardinality(Upto(i - 1) \cup {i}) = Cardinality(Upto(i - 1)) + 1
      BY <1>3, <2>1, <3>1, FS_AddElement
    <3>3. QED
      BY <1>3, <2>1, <2>2, <3>1, <3>2
  <2>3. CASE i \notin starts
    <3>1. Upto(i) = Upto(i - 1)
      <4>1. \A j \in starts : j <= i <=> j <= i - 1
        BY <1>2, <2>1, <2>3
      <4>2. QED
        BY <4>1
    <3>2. GroupAt(i) = GroupAt(i - 1) /\ GroupAt(i - 1) \in Nat
      BY <1>3, <2>1, <3>1
    <3>3. QED
      BY <2>3, <3>2
  <2>4. QED
    BY <2>2, <2>3
<1>8. QED
  BY <1>1, <1>3, <1>4, <1>5, <1>6, <1>7

\* Positions are in one group exactly when they hold one key: equal keys are next to each
\* other in a sorted column.
LEMMA GroupsAreKeys ==
  ASSUME Segmented, NEW i \in Rows, NEW j \in Rows
  PROVE  GroupAt(i) = GroupAt(j) <=> cur[i].key = cur[j].key
<1>1. Rows \subseteq Nat /\ N \in Nat /\ Rows = 0..(N - 1)
  BY GroupSteps DEF Rows
<1>2. /\ \A p \in Rows : cur[p].key \in Keys
      /\ \A p, q \in Rows : p < q => InOrder(p, q)
      /\ lane = Lanes
  BY DEF Segmented, TypeInv, SortedInv, Pairs
<1>3. ASSUME NEW p \in Rows, NEW q \in Rows, p < q
      PROVE  cur[p].key = cur[q].key \/ Below(cur[p].key, cur[q].key)
  BY <1>2, <1>3, WholeKeys DEF InOrder
<1>4. ASSUME NEW p \in Rows, NEW q \in Rows, p < q
      PROVE  GroupAt(p) = GroupAt(q) <=> cur[p].key = cur[q].key
  <2>0. GroupAt(p) = GroupAt(q) <=> \A m \in (p + 1)..q : m \notin starts
    BY <1>4, GroupSteps
  <2>1. ASSUME NEW m \in (p + 1)..q
        PROVE  m \in Rows /\ m - 1 \in Rows /\ p <= m - 1 /\ m <= q /\ m > 0
               /\ (m \in starts <=> cur[m].key # cur[m - 1].key)
    <3>1. m \in Rows /\ m - 1 \in Rows /\ p <= m - 1 /\ m <= q /\ m > 0
      BY <1>1, <1>4
    <3>2. QED
      BY <3>1 DEF Segmented, IsStart
  <2>2. ASSUME cur[p].key = cur[q].key, NEW m \in (p + 1)..q, m \in starts PROVE FALSE
    <3>1. /\ m \in Rows /\ m - 1 \in Rows /\ p <= m - 1 /\ m <= q /\ m - 1 < m
          /\ cur[m].key # cur[m - 1].key
      BY <1>1, <2>1, <2>2
    <3>2. PICK a \in Keys, b \in Keys, c \in Keys :
            a = cur[p].key /\ b = cur[m - 1].key /\ c = cur[m].key
      BY <1>2, <3>1
    <3>3. Below(b, c)
      BY <1>3, <3>1, <3>2
    <3>4. a = b \/ Below(a, b)
      BY <1>1, <1>3, <3>1, <3>2
    <3>5. c = a \/ Below(c, a)
      BY <1>1, <1>3, <2>2, <3>1, <3>2
    <3>6. Below(a, c)
      BY <1>2, <3>3, <3>4, WholeKeys
    <3>7. Below(a, a)
      BY <1>2, <3>5, <3>6, WholeKeys
    <3>8. QED
      BY <1>2, <3>7, WholeKeys
  <2>3. ASSUME \A m \in (p + 1)..q : m \notin starts, cur[p].key # cur[q].key PROVE FALSE
    <3>1. PICK S : S = {m \in (p + 1)..q : cur[m].key # cur[p].key}
      OBVIOUS
    <3>2. S \in SUBSET Nat /\ q \in S
      BY <1>1, <1>4, <2>3, <3>1
    <3>3. PICK m \in S : \A n \in S : m <= n
      BY <3>2, LeastNumber
    <3>4. m \in (p + 1)..q /\ cur[m].key # cur[p].key
      BY <3>1
    <3>5. cur[m].key = cur[m - 1].key
      BY <2>1, <2>3, <3>4
    <3>6. m - 1 \in (p + 1)..q
      <4>1. m - 1 # p
        BY <3>4, <3>5
      <4>2. QED
        BY <1>1, <3>4, <4>1
    <3>7. m - 1 \in S
      BY <3>1, <3>4, <3>5, <3>6
    <3>8. QED
      BY <3>2, <3>3, <3>7
  <2>4. QED
    BY <2>0, <2>2, <2>3
<1>5. CASE i = j
  BY <1>5
<1>6. CASE i < j
  BY <1>4, <1>6
<1>7. CASE j < i
  BY <1>4, <1>7
<1>8. QED
  BY <1>1, <1>5, <1>6, <1>7

-----------------------------------------------------------------------------
\* The answer.

PositionOf(r)  == CHOOSE i \in Rows : cur[i].row = r
GroupOfRow     == [r \in Rows |-> GroupAt(PositionOf(r))]
StartOf(g)     == CHOOSE i \in Rows : GroupAt(i) = g /\ (i = 0 \/ i \in starts)
FirstRowOf     == [g \in 0..GroupAt(N - 1) |-> cur[StartOf(g)].row]
Answer         == [kind |-> "output", rowToGroup |-> GroupOfRow,
                   nGroups |-> GroupAt(N - 1) + 1, firstRow |-> FirstRowOf]

\* Every row is somewhere in the sorted column, and only there.
LEMMA Positions ==
  ASSUME Segmented
  PROVE  /\ \A i \in Rows : cur[i].row \in Rows /\ cur[i].key = keys[cur[i].row]
         /\ \A r \in Rows : PositionOf(r) \in Rows /\ cur[PositionOf(r)].row = r
         /\ \A i \in Rows : PositionOf(cur[i].row) = i
<1>1. /\ \A i \in Rows : cur[i].row \in Rows /\ cur[i].key = keys[cur[i].row]
      /\ \A i, j \in Rows : cur[i].row = cur[j].row => i = j
  BY DEF Segmented, TypeInv, SortedInv, Pairs
<1>2. PICK f : f = [i \in Rows |-> cur[i].row]
  OBVIOUS
<1>3. f \in Injection(Rows, Rows)
  BY <1>1, <1>2 DEF Injection, IsInjective
<1>4. f \in Surjection(Rows, Rows)
  BY <1>3, Column, FS_Injection DEF Segmented, TypeInv
<1>5. \A r \in Rows : \E i \in Rows : cur[i].row = r
  BY <1>2, <1>4 DEF Surjection
<1>6. \A r \in Rows : PositionOf(r) \in Rows /\ cur[PositionOf(r)].row = r
  BY <1>5 DEF PositionOf
<1>7. QED
  BY <1>1, <1>6

\* Every group number up to the last one has a start.
LEMMA StartsExist ==
  ASSUME Segmented, NEW g \in 0..GroupAt(N - 1)
  PROVE  /\ StartOf(g) \in Rows /\ GroupAt(StartOf(g)) = g
         /\ \A i \in Rows : GroupAt(i) = g => StartOf(g) <= i
<1>0. /\ N \in Nat /\ 0 \in Rows /\ N - 1 \in Rows /\ Rows = 0..(N - 1)
      /\ \A i \in Rows : GroupAt(i) \in Nat
      /\ GroupAt(0) = 0
  BY GroupSteps DEF Rows
<1>1. PICK S : S = {i \in Rows : g <= GroupAt(i)}
  OBVIOUS
<1>2. S \in SUBSET Nat /\ N - 1 \in S
  BY <1>0, <1>1
<1>3. PICK m \in S : \A i \in S : m <= i
  BY <1>2, LeastNumber
<1>4. m \in Rows /\ g <= GroupAt(m) /\ g \in Nat /\ m \in Nat
  BY <1>0, <1>1, <1>2
<1>5. GroupAt(m) = g /\ (m = 0 \/ m \in starts)
  <2>1. CASE m = 0
    BY <1>0, <1>4, <2>1
  <2>2. CASE m # 0
    <3>1. m - 1 \in Rows /\ m > 0
      BY <1>0, <1>4, <2>2
    <3>2. m - 1 \notin S
      BY <1>0, <1>3, <1>4, <3>1
    <3>3. GroupAt(m - 1) < g /\ GroupAt(m - 1) \in Nat
      BY <1>0, <1>1, <1>4, <3>1, <3>2
    <3>4. GroupAt(m) = GroupAt(m - 1) + (IF m \in starts THEN 1 ELSE 0)
      BY <1>4, <3>1, GroupSteps
    <3>5. QED
      BY <1>4, <3>3, <3>4
  <2>3. QED
    BY <2>1, <2>2
<1>6. StartOf(g) \in Rows /\ GroupAt(StartOf(g)) = g /\ (StartOf(g) = 0 \/ StartOf(g) \in starts)
  BY <1>4, <1>5 DEF StartOf
<1>7. ASSUME NEW i \in Rows, GroupAt(i) = g PROVE StartOf(g) <= i
  <2>1. PICK p \in Rows : p = StartOf(g)
    BY <1>6
  <2>2. ASSUME i < p PROVE FALSE
    <3>1. p \in (i + 1)..p /\ p # 0
      BY <1>0, <2>2
    <3>2. p \notin starts
      BY <1>6, <1>7, <2>1, <2>2, <3>1, GroupSteps
    <3>3. QED
      BY <1>6, <2>1, <3>1, <3>2
  <2>3. QED
    BY <1>0, <2>1, <2>2
<1>8. QED
  BY <1>6, <1>7

LEMMA AnswerIsGrouping ==
  ASSUME Segmented
  PROVE  /\ Abstract!IsGrouping(keys, GroupOfRow, GroupAt(N - 1) + 1)
         /\ Abstract!IsFirstRow(GroupOfRow, GroupAt(N - 1) + 1, FirstRowOf)
<1>0. /\ N \in Nat /\ N - 1 \in Rows /\ Rows = 0..(N - 1) /\ DOMAIN keys = Rows
      /\ \A i \in Rows : GroupAt(i) \in Nat
      /\ \A i, j \in Rows : i <= j => GroupAt(i) <= GroupAt(j)
  BY GroupSteps, Column DEF Segmented, TypeInv, Rows
<1>1. PICK last \in Nat : last = GroupAt(N - 1)
  BY <1>0
<1>2. \A i \in Rows : GroupAt(i) \in 0..last
  BY <1>0, <1>1
<1>3. GroupOfRow \in [Rows -> 0..last] /\ \A r \in Rows : GroupOfRow[r] = GroupAt(PositionOf(r))
  BY <1>2, Positions DEF GroupOfRow
<1>4. ASSUME NEW r \in Rows, NEW q \in Rows
      PROVE  GroupOfRow[r] = GroupOfRow[q] <=> keys[r] = keys[q]
  <2>1. PositionOf(r) \in Rows /\ PositionOf(q) \in Rows
        /\ cur[PositionOf(r)].key = keys[r] /\ cur[PositionOf(q)].key = keys[q]
    BY Positions
  <2>2. QED
    BY <1>3, <2>1, GroupsAreKeys
<1>5. ASSUME NEW g \in 0..last
      PROVE  /\ FirstRowOf[g] \in Rows /\ GroupOfRow[FirstRowOf[g]] = g
             /\ \A r \in Rows : GroupOfRow[r] = g => FirstRowOf[g] <= r
  <2>1. PICK p \in Rows : p = StartOf(g) /\ GroupAt(p) = g
                          /\ \A i \in Rows : GroupAt(i) = g => p <= i
    BY <1>1, StartsExist
  <2>2. FirstRowOf[g] = cur[p].row
    BY <1>1, <2>1 DEF FirstRowOf
  <2>3. cur[p].row \in Rows /\ PositionOf(cur[p].row) = p
    BY Positions
  <2>4. ASSUME NEW r \in Rows, GroupOfRow[r] = g PROVE cur[p].row <= r
    <3>1. PICK i \in Rows : i = PositionOf(r) /\ cur[i].row = r
      BY Positions
    <3>2. GroupAt(i) = g /\ p <= i
      BY <1>3, <2>1, <2>4, <3>1
    <3>3. CASE p = i
      BY <1>0, <3>1, <3>3
    <3>4. CASE p < i
      <4>1. cur[p].key = cur[i].key
        BY <2>1, <3>2, GroupsAreKeys
      <4>2. InOrder(p, i)
        BY <3>4 DEF Segmented, SortedInv
      <4>3. ~Below(cur[p].key, cur[p].key)
        BY WholeKeys DEF Segmented, TypeInv, Pairs
      <4>4. cur[p].row < cur[i].row
        BY <4>1, <4>2, <4>3 DEF InOrder
      <4>5. QED
        BY <1>0, <2>3, <3>1, <4>4
    <3>5. QED
      BY <1>0, <3>2, <3>3, <3>4
  <2>5. GroupOfRow[cur[p].row] = g
    BY <1>3, <2>1, <2>3
  <2>6. QED
    BY <2>2, <2>3, <2>4, <2>5
<1>6. 0..(GroupAt(N - 1) + 1 - 1) = 0..last
  BY <1>1
<1>7. Abstract!IsGrouping(keys, GroupOfRow, GroupAt(N - 1) + 1)
  BY <1>0, <1>3, <1>4, <1>5, <1>6 DEF Abstract!IsGrouping
<1>8. DOMAIN FirstRowOf = 0..last /\ DOMAIN GroupOfRow = Rows
  BY <1>1 DEF FirstRowOf, GroupOfRow
<1>9. Abstract!IsFirstRow(GroupOfRow, GroupAt(N - 1) + 1, FirstRowOf)
  <2>1. PICK f, r, n : f = FirstRowOf /\ r = GroupOfRow /\ n = GroupAt(N - 1) + 1
    OBVIOUS
  <2>2. DOMAIN f = 0..last /\ DOMAIN r = Rows /\ 0..(n - 1) = 0..last
    <3>1. n = last + 1
      BY <1>1, <2>1
    <3>2. QED
      BY <1>8, <2>1, <3>1
  <2>3. \A g \in 0..last :
          f[g] \in Rows /\ r[f[g]] = g /\ \A q \in Rows : r[q] = g => f[g] <= q
    BY <1>5, <2>1
  <2>4. Abstract!IsFirstRow(r, n, f)
    BY <2>2, <2>3 DEF Abstract!IsFirstRow
  <2>5. QED
    BY <2>1, <2>4
<1>10. QED
  BY <1>7, <1>9

-----------------------------------------------------------------------------
\* What the host answers with.
Result ==
  [kind |-> "output",
   rowToGroup |-> [r \in Rows |-> GroupAt(CHOOSE i \in Rows : cur[i].row = r)],
   nGroups |-> IF N = 0 THEN 0 ELSE GroupAt(N - 1) + 1,
   firstRow |-> [g \in 0..(IF N = 0 THEN -1 ELSE GroupAt(N - 1)) |->
     cur[CHOOSE i \in Rows : GroupAt(i) = g /\ (i = 0 \/ i \in starts)].row]]

LEMMA AnswerKept ==
  ASSUME UNCHANGED <<keys, lane, cur, starts>>
  PROVE  /\ BuildResult = IF stage # "done" THEN [kind |-> "none"] ELSE Result
         /\ BuildResult' = IF stage' # "done" THEN [kind |-> "none"] ELSE Result
<1>1. BuildResult = IF stage # "done" THEN [kind |-> "none"] ELSE Result
  BY DEF BuildResult, Result
<1>2. N' = N /\ Rows' = Rows
  BY DEF N, Rows
<1>3. Result' = Result
  BY <1>2 DEF Result, GroupAt
<1>4. BuildResult' = IF stage' # "done" THEN [kind |-> "none"] ELSE Result'
  BY DEF BuildResult, Result
<1>5. QED
  BY <1>1, <1>3, <1>4

LEMMA NumberGroupsImplements ==
  ASSUME SortInv, NumberGroups PROVE Abstract!Build
<1>1. stage = "segment" /\ stage' = "done" /\ pending = {} /\ UNCHANGED <<keys, lane, cur, starts>>
  BY DEF NumberGroups, segment
<1>2. BuildResult = [kind |-> "none"] /\ BuildResult' = Result
  BY <1>1, AnswerKept
<1>3. TypeInv /\ SortedInv /\ N # 0 /\ N \in Nat
  BY <1>1, Column DEF SortInv, TypeInv
<1>4. Segmented
  BY <1>1, <1>3 DEF SortInv, StartsInv, Segmented
<1>5. Result = Answer
  BY <1>3 DEF Result, Answer, GroupOfRow, FirstRowOf, PositionOf, StartOf
<1>6. PICK f, r, n : f = FirstRowOf /\ r = GroupOfRow /\ n = GroupAt(N - 1) + 1
  OBVIOUS
<1>7. Answer = [kind |-> "output", rowToGroup |-> r, nGroups |-> n, firstRow |-> f]
  BY <1>6 DEF Answer
<1>8. Abstract!IsGrouping(keys, r, n) /\ Abstract!IsFirstRow(r, n, f)
  BY <1>4, <1>6, AnswerIsGrouping
<1>9. Abstract!IsAnswer(BuildResult')
  BY <1>2, <1>5, <1>7, <1>8 DEF Abstract!IsAnswer
<1>10. QED
  BY <1>1, <1>2, <1>9 DEF Abstract!Build

LEMMA AnswerEmptyImplements ==
  ASSUME SortInv, AnswerEmpty PROVE Abstract!Build
<1>1. stage = "histogram" /\ stage' = "done" /\ N = 0 /\ UNCHANGED <<keys, lane, cur, starts>>
  BY DEF AnswerEmpty, segment
<1>2. BuildResult = [kind |-> "none"] /\ BuildResult' = Result
  BY <1>1, AnswerKept
<1>3. Rows = {} /\ DOMAIN keys = {}
  BY <1>1, Column DEF SortInv, TypeInv, Rows
<1>4. PICK r, f : r = Result.rowToGroup /\ f = Result.firstRow
  OBVIOUS
<1>5. Result.kind = "output" /\ Result.nGroups = 0 /\ DOMAIN r = {} /\ DOMAIN f = {}
      /\ r = [x \in {} |-> 0]
  BY <1>1, <1>3, <1>4 DEF Result
<1>6. 0..(0 - 1) = {}
  OBVIOUS
<1>7. Abstract!IsGrouping(keys, r, 0) /\ Abstract!IsFirstRow(r, 0, f)
  BY <1>3, <1>5, <1>6 DEF Abstract!IsGrouping, Abstract!IsFirstRow
<1>8. Abstract!IsAnswer(BuildResult')
  BY <1>2, <1>4, <1>5, <1>7 DEF Abstract!IsAnswer
<1>9. QED
  BY <1>1, <1>2, <1>8 DEF Abstract!Build

LEMMA SortStepImplements ==
  SortInv /\ [Next]_vars => [Abstract!Next]_<<keys, BuildResult>>
<1> SUFFICES ASSUME SortInv, [Next]_vars
             PROVE  Abstract!Next \/ UNCHANGED <<keys, BuildResult>>
  OBVIOUS
<1>1. CASE NumberGroups
  BY <1>1, NumberGroupsImplements DEF Abstract!Next
<1>2. CASE AnswerEmpty
  BY <1>2, AnswerEmptyImplements DEF Abstract!Next
<1>3. ASSUME stage # "done", stage' # "done", keys' = keys PROVE UNCHANGED <<keys, BuildResult>>
  BY <1>3 DEF BuildResult
<1>4. CASE Fails \/ HostScan \/ FinishPass
  BY <1>3, <1>4 DEF Fails, HostScan, FinishPass
<1>5. ASSUME NEW g \in Tiles, TileHist(g) PROVE UNCHANGED <<keys, BuildResult>>
  BY <1>3, <1>5 DEF TileHist
<1>6. ASSUME NEW g \in Tiles, NEW s \in Simds,
             ZeroCounts(g, s) \/ CountDigits(g, s) \/ Scatter(g, s)
      PROVE  UNCHANGED <<keys, BuildResult>>
  BY <1>3, <1>6 DEF ZeroCounts, CountDigits, Scatter, Enter
<1>7. ASSUME NEW i \in Rows, MarkStart(i) PROVE UNCHANGED <<keys, BuildResult>>
  BY <1>3, <1>7 DEF MarkStart
<1>8. CASE UNCHANGED vars
  <2>1. UNCHANGED <<keys, lane, cur, starts>> /\ stage' = stage
    BY <1>8 DEF vars, segment
  <2>2. QED
    BY <2>1, AnswerKept
<1>9. QED
  BY <1>1, <1>2, <1>4, <1>5, <1>6, <1>7, <1>8 DEF Next

\* The whole of A2 is one atomic step from the caller's keys to a grouping of them with
\* the first row of every group, or a failure that answers nothing.
THEOREM SortBuildImplements == Spec => ImplementsGroupBuild
<1>1. Init => Abstract!Init
  BY DEF Init, Abstract!Init, BuildResult
<1>2. QED
  BY <1>1, SortInvariant, SortStepImplements, PTL DEF Spec, ImplementsGroupBuild, Abstract!Spec

-----------------------------------------------------------------------------
\* Powers of two.

\* 1 << k is a function: its defining equation holds.
LEMMA ShlEquation == Shl = [k \in 0..30 |-> IF k = 0 THEN 1 ELSE 2 * Shl[k - 1]]
<1> DEFINE Doubles(h, m) == h = [k \in 0..m |-> IF k = 0 THEN 1 ELSE 2 * h[k - 1]]
           G == {m \in Nat : \E h : Doubles(h, m)}
<1>1. 0 \in G
  <2>1. Doubles([k \in {0} |-> 1], 0)
    OBVIOUS
  <2>2. QED
    BY <2>1
<1>2. ASSUME NEW m \in G PROVE m + 1 \in G
  <2>1. PICK h : Doubles(h, m)
    BY <1>2
  <2> DEFINE longer == [k \in 0..(m + 1) |-> IF k = m + 1 THEN 2 * h[m] ELSE h[k]]
  <2>2. Doubles(longer, m + 1)
    BY <2>1
  <2>3. \E g : Doubles(g, m + 1)
    <3> HIDE DEF longer, Doubles
    <3>1. QED
      BY <2>2
  <2>4. QED
    BY <2>3
<1>3. G = Nat
  <2>1. G \in SUBSET Nat
    OBVIOUS
  <2> HIDE DEF G
  <2>2. QED
    BY <1>1, <1>2, <2>1, NumberInduction
<1>4. \E h : Doubles(h, 30)
  BY <1>3
<1>5. QED
  BY <1>4 DEF Shl

\* Shifts add up.
LEMMA ShlFacts ==
  /\ Shl[0] = 1
  /\ \A k \in 0..30 : Shl[k] \in Nat \ {0}
  /\ \A a, b \in 0..30 : a + b <= 30 => Shl[a + b] = Shl[a] * Shl[b]
  /\ \A a, b \in 0..30 : a < b => Shl[a] < Shl[b]
<1>1. Shl[0] = 1
  BY ShlEquation
<1>2. \A k \in 0..29 : Shl[k + 1] = 2 * Shl[k]
  <2>1. ASSUME NEW k \in 0..29 PROVE Shl[k + 1] = 2 * Shl[k]
    <3>1. k + 1 \in 0..30 /\ k + 1 # 0 /\ (k + 1) - 1 = k
      OBVIOUS
    <3>2. QED
      BY <3>1, ShlEquation
  <2>2. QED
    BY <2>1
<1>3. \A k \in 0..30 : Shl[k] \in Nat \ {0}
  <2> DEFINE G == {k \in Nat : k <= 30 => Shl[k] \in Nat \ {0}}
  <2>1. 0 \in G
    BY <1>1
  <2>2. ASSUME NEW k \in G PROVE k + 1 \in G
    BY <1>2, <2>2
  <2>3. G = Nat
    <3>1. G \in SUBSET Nat
      OBVIOUS
    <3> HIDE DEF G
    <3>2. QED
      BY <2>1, <2>2, <3>1, NumberInduction
  <2>4. QED
    BY <2>3
<1>4. \A a, b \in 0..30 : a + b <= 30 => Shl[a + b] = Shl[a] * Shl[b]
  <2> SUFFICES ASSUME NEW a \in 0..30 PROVE \A b \in 0..30 : a + b <= 30 => Shl[a + b] = Shl[a] * Shl[b]
    OBVIOUS
  <2> DEFINE G == {b \in Nat : a + b <= 30 => Shl[a + b] = Shl[a] * Shl[b]}
  <2>1. 0 \in G
    BY <1>1, <1>3
  <2>2. ASSUME NEW b \in G PROVE b + 1 \in G
    <3> SUFFICES ASSUME a + (b + 1) <= 30 PROVE Shl[a + (b + 1)] = Shl[a] * Shl[b + 1]
      OBVIOUS
    <3>1. Shl[a + b] = Shl[a] * Shl[b]
      BY <2>2
    <3>2. Shl[b + 1] = 2 * Shl[b] /\ Shl[(a + b) + 1] = 2 * Shl[a + b]
      BY <1>2
    <3>3. Shl[a] \in Nat /\ Shl[b] \in Nat /\ a + (b + 1) = (a + b) + 1
      BY <1>3
    <3>4. ASSUME NEW x \in Nat, NEW y \in Nat PROVE 2 * (x * y) = x * (2 * y)
      OBVIOUS
    <3>5. QED
      BY <3>1, <3>2, <3>3, <3>4
  <2>3. G = Nat
    <3>1. G \in SUBSET Nat
      OBVIOUS
    <3> HIDE DEF G
    <3>2. QED
      BY <2>1, <2>2, <3>1, NumberInduction
  <2>4. \A b \in Nat : b \in G
    BY <2>3
  <2>5. \A b \in 0..30 : b \in Nat
    OBVIOUS
  <2>6. QED
    BY <2>4, <2>5
<1>5. \A a, b \in 0..30 : a < b => Shl[a] < Shl[b]
  <2> DEFINE G == {b \in Nat : b <= 30 => \A a \in 0..30 : a < b => Shl[a] < Shl[b]}
  <2>1. 0 \in G
    OBVIOUS
  <2>2. ASSUME NEW b \in G PROVE b + 1 \in G
    <3> SUFFICES ASSUME b + 1 <= 30, NEW a \in 0..30, a < b + 1 PROVE Shl[a] < Shl[b + 1]
      OBVIOUS
    <3>1. Shl[b + 1] = 2 * Shl[b] /\ Shl[b] \in Nat \ {0} /\ Shl[a] \in Nat
      BY <1>2, <1>3
    <3>2. a = b \/ Shl[a] < Shl[b]
      BY <2>2
    <3>3. QED
      BY <3>1, <3>2
  <2>3. G = Nat
    <3>1. G \in SUBSET Nat
      OBVIOUS
    <3> HIDE DEF G
    <3>2. QED
      BY <2>1, <2>2, <3>1, NumberInduction
  <2>4. QED
    BY <2>3
<1>6. QED
  BY <1>1, <1>3, <1>4, <1>5

LEMMA PowerType ==
  ASSUME NEW n, IsPow2(n)
  PROVE  n \in Nat \ {0} /\ Log2(n) \in 0..30
BY ShlFacts DEF IsPow2, Log2

\* A power of two is divided by every smaller one.
LEMMA PowerSplit ==
  ASSUME NEW n, IsPow2(n), NEW d, IsPow2(d), n > d
  PROVE  IsPow2(n \div d) /\ n = (n \div d) * d
<1>1. PICK a \in 0..30 : n = Shl[a]
  BY DEF IsPow2
<1>2. PICK b \in 0..30 : d = Shl[b]
  BY DEF IsPow2
<1>3. n \in Nat \ {0} /\ d \in Nat \ {0}
  BY PowerType
<1>4. b < a
  <2>1. a < b => Shl[a] < Shl[b]
    BY ShlFacts
  <2>2. QED
    BY <1>1, <1>2, <1>3, <2>1
<1>5. PICK c \in 0..30 : c + b = a
  <2>1. a - b \in 0..30 /\ (a - b) + b = a
    BY <1>4
  <2>2. QED
    BY <2>1
<1> DEFINE q == Shl[c]
<1>6. q \in Nat \ {0} /\ n = q * d
  <2>1. c + b <= 30
    BY <1>5
  <2>2. Shl[c + b] = Shl[c] * Shl[b] /\ q \in Nat \ {0}
    BY <2>1, ShlFacts
  <2>3. QED
    BY <1>1, <1>2, <1>5, <2>2
<1>7. IsPow2(q)
  BY DEF IsPow2
<1> HIDE DEF q
<1>8. n \div d = q
  <2>1. n \div d \in Int /\ n % d \in 0..(d - 1) /\ n = d * (n \div d) + (n % d)
    BY <1>3, DivMod
  <2>2. ASSUME NEW x \in Int, NEW r \in 0..(d - 1), q * d = d * x + r PROVE x = q
    <3>1. d * (q - x) = r
      BY <1>3, <1>6, <2>2
    <3>2. ~ (q - x >= 1) /\ ~ (q - x <= -1)
      BY <1>3, <1>6, <2>2, <3>1
    <3>3. QED
      BY <1>6, <2>2, <3>2
  <2>3. QED
    BY <1>6, <2>1, <2>2
<1>9. QED
  BY <1>6, <1>7, <1>8

-----------------------------------------------------------------------------
\* The radices of the stages.

LargestRadix(m) == Max(Radices(m))

\* What factorize does with m, given what it does with smaller numbers.
Divided(h, m) ==
  IF Radices(m) = {} THEN [rem |-> m, radices |-> <<>>]
  ELSE [rem |-> h[m \div LargestRadix(m)].rem, radices |-> <<LargestRadix(m)>> \o h[m \div LargestRadix(m)].radices]

LEMMA RadixDivides ==
  ASSUME NEW m \in Nat \ {0}, Radices(m) # {}
  PROVE  LargestRadix(m) \in 2..8 /\ m \div LargestRadix(m) \in 1..(m - 1)
<1>1. \E r \in Radices(m) : \A q \in Radices(m) : r >= q
  <2> DEFINE S == {8 - r : r \in Radices(m)}
  <2>1. S \in SUBSET Nat /\ S # {}
    BY DEF Radices
  <2>2. PICK x \in S : \A y \in S : x <= y
    <3> HIDE DEF S
    <3>1. QED
      BY <2>1, LeastNumber
  <2>3. PICK r \in Radices(m) : x = 8 - r
    BY <2>2
  <2>4. ASSUME NEW q \in Radices(m) PROVE r >= q
    <3>1. 8 - q \in S
      OBVIOUS
    <3>2. 8 - r <= 8 - q
      BY <2>2, <2>3, <3>1
    <3>3. QED
      BY <3>2 DEF Radices
  <2>5. QED
    BY <2>4
<1>2. LargestRadix(m) \in Radices(m)
  BY <1>1 DEF LargestRadix, Max
<1>3. PICK r \in 2..8 : r = LargestRadix(m) /\ m % r = 0
  BY <1>2 DEF Radices
<1>4. m \div r \in Int /\ m = r * (m \div r)
  <2>1. r \in Nat \ {0} /\ m \in Int
    OBVIOUS
  <2>2. m \div r \in Int /\ m % r \in 0..(r - 1) /\ m = r * (m \div r) + (m % r)
    BY <2>1, DivMod
  <2>3. QED
    BY <1>3, <2>2
<1>5. ASSUME NEW q \in Int, m = r * q PROVE q \in 1..(m - 1)
  BY <1>5
<1>6. QED
  BY <1>3, <1>4, <1>5

\* The recursive function of Factorize exists.
LEMMA FactorizeEquation ==
  ASSUME NEW n \in Nat \ {0}
  PROVE  \E h : h = [m \in 1..n |-> Divided(h, m)] /\ Factorize(n) = h[n]
<1> DEFINE Divides(h, k) == h = [m \in 1..k |-> Divided(h, m)]
           G == {k \in Nat : \E h : Divides(h, k)}
<1>1. 0 \in G
  <2>1. Divides([m \in {} |-> 0], 0)
    OBVIOUS
  <2>2. QED
    BY <2>1
<1>2. ASSUME NEW k \in G PROVE k + 1 \in G
  <2>1. PICK h : Divides(h, k)
    BY <1>2
  <2> DEFINE longer == [m \in 1..(k + 1) |-> IF m = k + 1 THEN Divided(h, k + 1) ELSE h[m]]
  <2>2. ASSUME NEW m \in 1..(k + 1) PROVE Divided(longer, m) = Divided(h, m)
    <3>1. CASE Radices(m) = {}
      BY <3>1 DEF Divided
    <3>2. CASE Radices(m) # {}
      <4>1. m \div LargestRadix(m) \in 1..(m - 1)
        BY <3>2, RadixDivides
      <4>2. m \div LargestRadix(m) \in 1..(k + 1) /\ m \div LargestRadix(m) # k + 1
        BY <4>1
      <4>3. longer[m \div LargestRadix(m)] = h[m \div LargestRadix(m)]
        BY <4>2
      <4> HIDE DEF longer
      <4>4. QED
        BY <3>2, <4>3 DEF Divided
    <3>3. QED
      BY <3>1, <3>2
  <2>3. ASSUME NEW m \in 1..(k + 1) PROVE longer[m] = Divided(longer, m)
    <3>1. m # k + 1 => m \in 1..k
      OBVIOUS
    <3>2. m # k + 1 => h[m] = Divided(h, m)
      BY <2>1, <3>1
    <3>3. longer[m] = IF m = k + 1 THEN Divided(h, k + 1) ELSE h[m]
      OBVIOUS
    <3>4. longer[m] = Divided(h, m)
      BY <3>2, <3>3
    <3>5. QED
      BY <2>2, <3>4
  <2>4. Divides(longer, k + 1)
    <3>1. longer = [m \in 1..(k + 1) |-> longer[m]]
      OBVIOUS
    <3> HIDE DEF longer
    <3>2. QED
      BY <2>3, <3>1
  <2>5. \E g : Divides(g, k + 1)
    <3> HIDE DEF longer, Divides
    <3>1. QED
      BY <2>4
  <2>6. QED
    BY <2>5
<1>3. G = Nat
  <2>1. G \in SUBSET Nat
    OBVIOUS
  <2> HIDE DEF G
  <2>2. QED
    BY <1>1, <1>2, <2>1, NumberInduction
<1> DEFINE rest == CHOOSE h : Divides(h, n)
<1>4. Divides(rest, n)
  BY <1>3
<1>5. Factorize(n) = rest[n]
  BY DEF Factorize, Divided, LargestRadix
<1>6. QED
  BY <1>4, <1>5

Positive == Nat \ {0}

LEMMA FactorizeType ==
  ASSUME NEW n \in Nat \ {0}
  PROVE  Factorize(n).radices \in Seq(Positive)
<1>1. PICK h : h = [m \in 1..n |-> Divided(h, m)] /\ Factorize(n) = h[n]
  BY FactorizeEquation
<1> DEFINE bad == {m \in 1..n : h[m].radices \notin Seq(Positive)}
<1>2. bad = {}
  <2> SUFFICES ASSUME bad # {} PROVE FALSE
    OBVIOUS
  <2>1. PICK m \in bad : \A k \in bad : m <= k
    <3>1. bad \in SUBSET Nat
      OBVIOUS
    <3> HIDE DEF bad
    <3>2. QED
      BY <3>1, LeastNumber
  <2>2. h[m] = Divided(h, m)
    BY <1>1
  <2>3. CASE Radices(m) = {}
    <3>1. h[m].radices = <<>>
      BY <2>2, <2>3 DEF Divided
    <3>2. <<>> \in Seq(Positive)
      OBVIOUS
    <3>3. QED
      BY <3>1, <3>2
  <2>4. CASE Radices(m) # {}
    <3>1. LargestRadix(m) \in 2..8 /\ m \div LargestRadix(m) \in 1..(m - 1)
      BY <2>4, RadixDivides
    <3>2. m \div LargestRadix(m) \in 1..n /\ m \div LargestRadix(m) \notin bad
      BY <2>1, <3>1
    <3>3. h[m \div LargestRadix(m)].radices \in Seq(Positive) /\ <<LargestRadix(m)>> \in Seq(Positive)
      BY <3>1, <3>2 DEF Positive
    <3>4. h[m].radices = <<LargestRadix(m)>> \o h[m \div LargestRadix(m)].radices
      BY <2>2, <2>4 DEF Divided
    <3>5. h[m].radices \in Seq(Positive)
      BY <3>3, <3>4
    <3>6. QED
      BY <3>5
  <2>5. QED
    BY <2>3, <2>4
<1>3. QED
  BY <1>1, <1>2

\* The recursive function of Combined exists; it counts at least one point.
LEMMA CombinedType ==
  ASSUME NEW radices \in Seq(Positive), NEW k \in 0..Len(radices)
  PROVE  Combined(radices)[k] \in Positive
<1> DEFINE Combines(h, n) == h = [i \in 0..n |-> IF i = 0 THEN 1 ELSE h[i - 1] * radices[i]]
           G == {n \in Nat : \E h : Combines(h, n)}
<1>1. 0 \in G
  <2>1. Combines([i \in {0} |-> 1], 0)
    OBVIOUS
  <2>2. QED
    BY <2>1
<1>2. ASSUME NEW n \in G PROVE n + 1 \in G
  <2>1. PICK h : Combines(h, n)
    BY <1>2
  <2> DEFINE longer == [i \in 0..(n + 1) |-> IF i = n + 1 THEN h[n] * radices[n + 1] ELSE h[i]]
  <2>2. Combines(longer, n + 1)
    BY <2>1
  <2>3. \E g : Combines(g, n + 1)
    <3> HIDE DEF longer, Combines
    <3>1. QED
      BY <2>2
  <2>4. QED
    <3> HIDE DEF Combines
    <3>1. QED
      BY <2>3
<1>3. G = Nat
  <2>1. G \in SUBSET Nat
    OBVIOUS
  <2> HIDE DEF G
  <2>2. QED
    BY <1>1, <1>2, <2>1, NumberInduction
<1> DEFINE points == Combined(radices)
<1>4. points = [i \in 0..Len(radices) |-> IF i = 0 THEN 1 ELSE points[i - 1] * radices[i]]
  <2>1. \E h : Combines(h, Len(radices))
    BY <1>3
  <2>2. QED
    BY <2>1 DEF Combined
<1> HIDE DEF points
<1> DEFINE W == {n \in Nat : n <= Len(radices) => points[n] \in Positive}
<1>5. 0 \in W
  BY <1>4 DEF Positive
<1>6. ASSUME NEW n \in W PROVE n + 1 \in W
  <2> SUFFICES ASSUME n + 1 <= Len(radices) PROVE points[n + 1] \in Positive
    OBVIOUS
  <2>1. n + 1 \in 0..Len(radices) /\ n + 1 # 0 /\ (n + 1) - 1 = n /\ n + 1 \in 1..Len(radices)
    OBVIOUS
  <2>2. points[n + 1] = points[n] * radices[n + 1]
    BY <1>4, <2>1
  <2>3. points[n] \in Positive /\ radices[n + 1] \in Positive
    BY <1>6, <2>1
  <2>4. ASSUME NEW x \in Positive, NEW y \in Positive PROVE x * y \in Positive
    BY DEF Positive
  <2>5. QED
    BY <2>2, <2>3, <2>4
<1>7. W = Nat
  <2>1. W \in SUBSET Nat
    OBVIOUS
  <2> HIDE DEF W
  <2>2. QED
    BY <1>5, <1>6, <2>1, NumberInduction
<1>8. k \in W
  BY <1>7
<1>9. QED
  BY <1>8 DEF points

\* Every kernel's stages have radices.
LEMMA StageRadicesType ==
  ASSUME NEW l, l.kernel = "mixed" => l.len \in Positive,
         l.kernel # "mixed" => IsPow2(Points(l))
  PROVE  StageRadices(l) \in Seq(Positive)
<1>1. CASE l.kernel = "mixed"
  BY <1>1, FactorizeType DEF StageRadices, Positive
<1>2. CASE l.kernel # "mixed"
  <2>1. Log2(Points(l)) \in Nat
    BY <1>2, PowerType
  <2>2. \A n \in Nat : [k \in 1..n |-> 2] \in Seq(Positive)
    BY DEF Positive
  <2>3. QED
    BY <1>2, <2>1, <2>2 DEF StageRadices
<1>3. QED
  BY <1>1, <1>2

-----------------------------------------------------------------------------
\* Indices.

\* A number has one quotient and one remainder.
LEMMA OneDigits ==
  ASSUME NEW m \in Positive, NEW a \in Int, NEW c \in Int, NEW b \in 0..(m - 1), NEW d \in 0..(m - 1),
         a * m + b = c * m + d
  PROVE  a = c /\ b = d
<1>1. m * (a - c) = d - b
  BY DEF Positive
<1>2. ~ (a - c >= 1) /\ ~ (a - c <= -1)
  BY <1>1 DEF Positive
<1>3. QED
  BY <1>2 DEF Positive

-----------------------------------------------------------------------------
\* Launches.

GroupKernels   == {"stockham", "mixed", "batched", "cols"}
ElementKernels == {"twiddle", "transpose", "copy"}

LaunchOk(l) ==
  /\ l.len \in Positive
  /\ l.kernel \in {"stockham", "batched"} => IsPow2(l.len)
  /\ l.kernel \in {"cols"} \cup ElementKernels => L2(l) \in Positive /\ l.len = L2(l) * Base

\* What fft_pass makes, given a base that is a power of two.
Launches == {l \in [kernel : GroupKernels \cup ElementKernels, len : Nat, batch : Nat] : LaunchOk(l)}
Passes   == {p \in [kernel : {"pass"}, len : Nat, batch : Nat, depth : Nat] : IsPow2(p.len)}

\* The points and the stages of a group kernel.
LEMMA GroupKernelTypes ==
  ASSUME NEW l \in Launches, l.kernel \in GroupKernels, IsPow2(Base)
  PROVE  /\ l.len \in Positive /\ Points(l) \in Positive
         /\ StageRadices(l) \in Seq(Positive) /\ Len(StageRadices(l)) \in Nat
<1>1. LaunchOk(l) /\ l.len \in Positive
  BY DEF Launches, LaunchOk
<1>2. l.kernel # "mixed" => IsPow2(Points(l))
  BY <1>1 DEF GroupKernels, LaunchOk, Points
<1>3. Points(l) \in Positive
  BY <1>1, PowerType DEF Points, Positive
<1>4. StageRadices(l) \in Seq(Positive)
  BY <1>1, <1>2, StageRadicesType
<1>5. QED
  BY <1>1, <1>3, <1>4

\* An interval of a group kernel is one of four.
LEMMA IntervalCases ==
  ASSUME IsPow2(Base), NEW l \in Launches, l.kernel \in GroupKernels, NEW g, NEW k \in DOMAIN Intervals(l, g)
  PROVE  \/ Intervals(l, g)[k] = Loads(l, g)
         \/ \E n \in 1..Len(StageRadices(l)) : Intervals(l, g)[k] = Butterflies(l, n)
         \/ Intervals(l, g)[k] = CopiesBack(l)
         \/ Intervals(l, g)[k] = Stores(l, g)
<1> DEFINE n == Len(StageRadices(l))
           S == {Loads(l, g), CopiesBack(l), Stores(l, g)} \cup {Butterflies(l, x) : x \in 1..n}
           stages == [x \in 1..n |-> Butterflies(l, x)]
           back == IF Odd(l) /\ InPlace(l) THEN <<CopiesBack(l)>> ELSE <<>>
<1>1. n \in Nat
  BY GroupKernelTypes
<1>2. stages \in Seq(S)
  BY <1>1
<1>3. back \in Seq(S) /\ <<Loads(l, g)>> \in Seq(S) /\ <<Stores(l, g)>> \in Seq(S)
  <2>1. Loads(l, g) \in S /\ CopiesBack(l) \in S /\ Stores(l, g) \in S
    OBVIOUS
  <2> HIDE DEF S
  <2>2. \A x \in S : <<x>> \in Seq(S)
    OBVIOUS
  <2>3. <<>> \in Seq(S)
    OBVIOUS
  <2>4. QED
    BY <2>1, <2>2, <2>3
<1>4. Intervals(l, g) = <<Loads(l, g)>> \o stages \o back \o <<Stores(l, g)>>
  BY DEF Intervals, GroupKernels
<1> HIDE DEF S, stages, back
<1>5. Intervals(l, g) \in Seq(S)
  BY <1>2, <1>3, <1>4
<1>6. Intervals(l, g)[k] \in S
  BY <1>5
<1>7. QED
  BY <1>6 DEF S

\* The places of the points of all groups are different.
LEMMA PlacesDiffer ==
  ASSUME IsPow2(Base), NEW l \in Launches, l.kernel \in GroupKernels,
         NEW g \in Groups(l), NEW h \in Groups(l),
         NEW i \in 0..(Points(l) - 1), NEW j \in 0..(Points(l) - 1),
         Place(l, g, i) = Place(l, h, j)
  PROVE  g = h /\ i = j
<1>1. l.len \in Positive /\ l.batch \in Nat /\ LaunchOk(l) /\ Base \in Positive
  BY PowerType DEF Launches, LaunchOk, Positive
<1>2. CASE l.kernel = "cols"
  <2> DEFINE n == L2(l)
  <2>1. n \in Positive /\ l.len = n * Base /\ Points(l) = Base
    BY <1>1, <1>2 DEF LaunchOk, Points
  <2>2. g \in 0..(l.batch * n - 1) /\ h \in 0..(l.batch * n - 1)
    BY <1>2 DEF Groups
  <2>3. /\ Place(l, g, i) = (g \div n) * l.len + (g % n) + i * n
        /\ Place(l, h, j) = (h \div n) * l.len + (h % n) + j * n
    BY <1>2 DEF Place
  <2> HIDE DEF n
  <2>4. /\ g \div n \in Int /\ g % n \in 0..(n - 1) /\ g = n * (g \div n) + (g % n)
        /\ h \div n \in Int /\ h % n \in 0..(n - 1) /\ h = n * (h \div n) + (h % n)
    <3>1. n \in Nat \ {0} /\ g \in Int /\ h \in Int
      BY <2>1, <2>2 DEF Positive
    <3>2. g \div n \in Int /\ g % n \in 0..(n - 1) /\ g = n * (g \div n) + (g % n)
      BY <3>1, DivMod
    <3>3. h \div n \in Int /\ h % n \in 0..(n - 1) /\ h = n * (h \div n) + (h % n)
      BY <3>1, DivMod
    <3>4. QED
      BY <3>2, <3>3
  <2>5. ASSUME NEW x \in 0..(Base - 1), NEW s \in 0..(n - 1) PROVE s + x * n \in 0..(l.len - 1)
    BY <1>1, <2>1, <2>5 DEF Positive
  <2>6. i \in 0..(Base - 1) /\ j \in 0..(Base - 1)
    BY <2>1
  <2>7. g \div n = h \div n /\ (g % n) + i * n = (h % n) + j * n
    <3>1. (g % n) + i * n \in 0..(l.len - 1) /\ (h % n) + j * n \in 0..(l.len - 1)
      BY <2>4, <2>5, <2>6
    <3>2. ASSUME NEW x \in Int, NEW y \in Int, NEW z \in Int PROVE x + y + z = x + (y + z)
      OBVIOUS
    <3>3. /\ (g \div n) * l.len \in Int /\ g % n \in Int /\ i * n \in Int
          /\ (h \div n) * l.len \in Int /\ h % n \in Int /\ j * n \in Int
      BY <1>1, <2>1, <2>4 DEF Positive
    <3>4. (g \div n) * l.len + ((g % n) + i * n) = (h \div n) * l.len + ((h % n) + j * n)
      BY <2>3, <3>2, <3>3
    <3>5. QED
      BY <1>1, <2>4, <3>1, <3>4, OneDigits
  <2>8. i * n + (g % n) = j * n + (h % n)
    BY <2>1, <2>4, <2>6, <2>7 DEF Positive
  <2>9. i = j /\ g % n = h % n
    BY <2>1, <2>4, <2>6, <2>8, OneDigits
  <2>10. QED
    BY <2>4, <2>7, <2>9
<1>3. CASE l.kernel # "cols"
  <2>1. g \in Int /\ h \in Int
    BY <1>1, <1>3 DEF Groups
  <2>2. Points(l) = l.len /\ Place(l, g, i) = g * l.len + i /\ Place(l, h, j) = h * l.len + j
    BY <1>3 DEF Points, Place
  <2>3. i \in 0..(l.len - 1) /\ j \in 0..(l.len - 1) /\ g * l.len + i = h * l.len + j
    BY <2>2
  <2>4. QED
    BY <1>1, <2>1, <2>3, OneDigits
<1>4. QED
  BY <1>2, <1>3

\* The words of an item.
Touched(it) == Range(it.from) \cup Range(it.to)

LEMMA OneWord ==
  ASSUME NEW w
  PROVE  Range(<<w>>) = {w}
<1>1. DOMAIN <<w>> = {1} /\ <<w>>[1] = w
  OBVIOUS
<1>2. QED
  BY <1>1 DEF Range

\* A butterfly writes what no other one of its stage writes.
LEMMA ButterfliesDiffer ==
  ASSUME NEW done \in Positive, NEW r \in Positive,
         NEW i \in Nat, NEW j \in Nat, NEW t \in 1..r, NEW u \in 1..r,
         (i \div done) * r * done + (i % done) + (t - 1) * done
           = (j \div done) * r * done + (j % done) + (u - 1) * done
  PROVE  i = j
<1>1. /\ i \div done \in Int /\ i % done \in 0..(done - 1) /\ i = done * (i \div done) + (i % done)
      /\ j \div done \in Int /\ j % done \in 0..(done - 1) /\ j = done * (j \div done) + (j % done)
  <2>1. done \in Nat \ {0} /\ i \in Int /\ j \in Int
    BY DEF Positive
  <2>2. i \div done \in Int /\ i % done \in 0..(done - 1) /\ i = done * (i \div done) + (i % done)
    BY <2>1, DivMod
  <2>3. j \div done \in Int /\ j % done \in 0..(done - 1) /\ j = done * (j \div done) + (j % done)
    BY <2>1, DivMod
  <2>4. QED
    BY <2>2, <2>3
<1>2. ASSUME NEW q \in Int, NEW x \in 1..r, NEW s \in 0..(done - 1)
      PROVE  q * r + (x - 1) \in Int /\ q * r * done + s + (x - 1) * done = (q * r + (x - 1)) * done + s
  BY <1>2 DEF Positive
<1> DEFINE a == (i \div done) * r + (t - 1)
           b == (j \div done) * r + (u - 1)
<1>3. a \in Int /\ b \in Int /\ a * done + (i % done) = b * done + (j % done)
  <2>1. a \in Int /\ (i \div done) * r * done + (i % done) + (t - 1) * done = a * done + (i % done)
    BY <1>1, <1>2
  <2>2. b \in Int /\ (j \div done) * r * done + (j % done) + (u - 1) * done = b * done + (j % done)
    BY <1>1, <1>2
  <2>3. QED
    BY <2>1, <2>2
<1> HIDE DEF a, b
<1>4. a = b /\ i % done = j % done
  BY <1>1, <1>3, OneDigits
<1>5. i \div done = j \div done
  <2>1. t - 1 \in 0..(r - 1) /\ u - 1 \in 0..(r - 1)
    BY DEF Positive
  <2>2. (i \div done) * r + (t - 1) = (j \div done) * r + (u - 1)
    BY <1>4 DEF a, b
  <2>3. QED
    BY <1>1, <2>1, <2>2, OneDigits
<1>6. QED
  BY <1>1, <1>4, <1>5

\* The words of a butterfly, of a load, of a copy back and of a store.
LEMMA ButterflyWords ==
  ASSUME NEW l, NEW n, NEW it \in Butterflies(l, n)
  PROVE  /\ it.index \in 0..((Points(l) \div StageRadices(l)[n]) - 1)
         /\ \A w \in Range(it.from) : w[1] = IF n % 2 = 1 THEN "a" ELSE "b"
         /\ \A w \in Range(it.to) :
              /\ w[1] = IF n % 2 = 1 THEN "b" ELSE "a"
              /\ \E t \in 1..StageRadices(l)[n] :
                   w[2] = (it.index \div Combined(StageRadices(l))[n - 1]) * StageRadices(l)[n]
                            * Combined(StageRadices(l))[n - 1]
                          + (it.index % Combined(StageRadices(l))[n - 1])
                          + (t - 1) * Combined(StageRadices(l))[n - 1]
         /\ \A other \in Butterflies(l, n) : other.index = it.index => other = it
<1> DEFINE r    == StageRadices(l)[n]
           done == Combined(StageRadices(l))[n - 1]
           m    == Points(l) \div r
           src  == IF n % 2 = 1 THEN "a" ELSE "b"
           dst  == IF n % 2 = 1 THEN "b" ELSE "a"
           from(i) == [t \in 1..r |-> <<src, i + (t - 1) * m>>]
           to(i)   == [t \in 1..r |-> <<dst, (i \div done) * r * done + (i % done) + (t - 1) * done>>]
           by(i)   == [t \in 1..r |-> Twiddle((t - 1) * (i % done), r * done, job.inverse /\ l.kernel = "stockham")]
           butterfly(i) == Item(i, from(i), to(i), by(i), FALSE)
<1>1. \A x \in Butterflies(l, n) : \E i \in 0..(m - 1) : x = butterfly(i)
  BY DEF Butterflies
<1>2. \A i : butterfly(i).index = i /\ butterfly(i).from = from(i) /\ butterfly(i).to = to(i)
  <2> HIDE DEF from, to, by
  <2>1. QED
    BY DEF Item
<1>3. PICK i \in 0..(m - 1) : it = butterfly(i)
  BY <1>1
<1>4. it.index = i /\ it.from = from(i) /\ it.to = to(i)
  BY <1>2, <1>3
<1>5. ASSUME NEW other \in Butterflies(l, n), other.index = it.index PROVE other = it
  <2>1. PICK j \in 0..(m - 1) : other = butterfly(j)
    BY <1>1
  <2> HIDE DEF butterfly
  <2>2. QED
    BY <1>2, <1>3, <1>5, <2>1
<1> HIDE DEF butterfly
<1>6. \A w \in Range(it.from) : w[1] = src
  BY <1>4 DEF Range
<1>7. \A w \in Range(it.to) : w[1] = dst
  BY <1>4 DEF Range
<1>8. \A w \in Range(it.to) : \E t \in 1..r : w[2] = (it.index \div done) * r * done + (it.index % done) + (t - 1) * done
  BY <1>4 DEF Range
<1>9. it.index \in 0..(m - 1)
  BY <1>4
<1> HIDE DEF from, to, by
<1>10. QED
  BY <1>5, <1>6, <1>7, <1>8, <1>9

LEMMA LoadWords ==
  ASSUME NEW l, NEW g, NEW it \in Loads(l, g)
  PROVE  /\ it.index \in 0..(Points(l) - 1)
         /\ Range(it.from) = {<<IF InPlace(l) THEN "data" ELSE "in", Place(l, g, it.index)>>}
         /\ Range(it.to) = {<<"a", it.index>>}
         /\ \A other \in Loads(l, g) : other.index = it.index => other = it
<1> DEFINE input == IF InPlace(l) THEN "data" ELSE "in"
           load(i) == Item(i, << <<input, Place(l, g, i)>> >>, << <<"a", i>> >>, <<One>>, Flip(l))
<1>1. \A x \in Loads(l, g) : \E i \in 0..(Points(l) - 1) : x = load(i)
  BY DEF Loads
<1>2. \A i : /\ load(i).index = i /\ load(i).from = << <<input, Place(l, g, i)>> >>
              /\ load(i).to = << <<"a", i>> >>
  <2> HIDE DEF input
  <2>1. QED
    BY DEF Item
<1> HIDE DEF load, input
<1>3. PICK i \in 0..(Points(l) - 1) : it = load(i)
  BY <1>1
<1>4. it.index = i /\ it.from = <<<<input, Place(l, g, it.index)>>>> /\ it.to = <<<<"a", it.index>>>>
  BY <1>2, <1>3
<1>5. Range(it.from) = {<<input, Place(l, g, it.index)>>} /\ Range(it.to) = {<<"a", it.index>>}
  BY <1>4, OneWord
<1>6. ASSUME NEW other \in Loads(l, g), other.index = it.index PROVE other = it
  BY <1>1, <1>2, <1>4, <1>6, <1>3
<1>7. QED
  BY <1>4, <1>5, <1>6 DEF input

LEMMA CopyBackWords ==
  ASSUME NEW l, NEW it \in CopiesBack(l)
  PROVE  /\ it.index \in 0..(Points(l) - 1)
         /\ Range(it.from) = {<<"b", it.index>>}
         /\ Range(it.to) = {<<"a", it.index>>}
         /\ \A other \in CopiesBack(l) : other.index = it.index => other = it
<1> DEFINE copy(i) == Move(i, <<"b", i>>, <<"a", i>>)
<1>1. \A x \in CopiesBack(l) : \E i \in 0..(Points(l) - 1) : x = copy(i)
  BY DEF CopiesBack
<1>2. \A i : copy(i).index = i /\ copy(i).from = << <<"b", i>> >> /\ copy(i).to = << <<"a", i>> >>
  BY DEF Item, Move
<1> HIDE DEF copy
<1>3. PICK i \in 0..(Points(l) - 1) : it = copy(i)
  BY <1>1
<1>4. it.index = i /\ it.from = <<<<"b", it.index>>>> /\ it.to = <<<<"a", it.index>>>>
  BY <1>2, <1>3
<1>5. Range(it.from) = {<<"b", it.index>>} /\ Range(it.to) = {<<"a", it.index>>}
  BY <1>4, OneWord
<1>6. ASSUME NEW other \in CopiesBack(l), other.index = it.index PROVE other = it
  BY <1>1, <1>2, <1>4, <1>6, <1>3
<1>7. QED
  BY <1>4, <1>5, <1>6

LEMMA StoreWords ==
  ASSUME NEW l, NEW g, NEW it \in Stores(l, g)
  PROVE  /\ it.index \in 0..(Points(l) - 1)
         /\ Range(it.from) = {<<IF Odd(l) /\ ~InPlace(l) THEN "b" ELSE "a", it.index>>}
         /\ Range(it.to) = {<<"data", Place(l, g, it.index)>>}
         /\ \A other \in Stores(l, g) : other.index = it.index => other = it
<1> DEFINE scale  == IF ~InPlace(l) /\ job.inverse THEN Reciprocal(l.len) ELSE One
           result == IF Odd(l) /\ ~InPlace(l) THEN "b" ELSE "a"
           store(i) == Item(i, << <<result, i>> >>, << <<"data", Place(l, g, i)>> >>, <<scale>>, Flip(l))
<1>1. \A x \in Stores(l, g) : \E i \in 0..(Points(l) - 1) : x = store(i)
  BY DEF Stores
<1>2. \A i : /\ store(i).index = i /\ store(i).from = << <<result, i>> >>
              /\ store(i).to = << <<"data", Place(l, g, i)>> >>
  <2> HIDE DEF result, scale
  <2>1. QED
    BY DEF Item
<1> HIDE DEF store, result
<1>3. PICK i \in 0..(Points(l) - 1) : it = store(i)
  BY <1>1
<1>4. it.index = i /\ it.from = <<<<result, it.index>>>> /\ it.to = <<<<"data", Place(l, g, it.index)>>>>
  BY <1>2, <1>3
<1>5. Range(it.from) = {<<result, it.index>>} /\ Range(it.to) = {<<"data", Place(l, g, it.index)>>}
  BY <1>4, OneWord
<1>6. ASSUME NEW other \in Stores(l, g), other.index = it.index PROVE other = it
  BY <1>1, <1>2, <1>4, <1>6, <1>3
<1>7. QED
  BY <1>4, <1>5, <1>6 DEF result

\* Within an interval, no item touches what another one writes.
LEMMA IntervalsAreRaceFree ==
  ASSUME IsPow2(Base), NEW l \in Launches, l.kernel \in GroupKernels,
         NEW g \in Groups(l), NEW k \in DOMAIN Intervals(l, g),
         NEW i \in Intervals(l, g)[k], NEW j \in Intervals(l, g)[k], i # j
  PROVE  Conflicts(i, j) = {}
<1> DEFINE S == Intervals(l, g)[k]
<1>1. CASE S = Loads(l, g)
  <2>1. i.index # j.index
    BY <1>1, LoadWords
  <2>2. /\ Range(i.to) = {<<"a", i.index>>} /\ Range(j.to) = {<<"a", j.index>>}
        /\ \A w \in Range(i.from) \cup Range(j.from) : w[1] # "a"
    BY <1>1, LoadWords
  <2>3. QED
    BY <2>1, <2>2 DEF Conflicts
<1>2. CASE S = CopiesBack(l)
  <2>1. i.index # j.index
    BY <1>2, CopyBackWords
  <2>2. /\ Range(i.to) = {<<"a", i.index>>} /\ Range(j.to) = {<<"a", j.index>>}
        /\ \A w \in Range(i.from) \cup Range(j.from) : w[1] # "a"
    BY <1>2, CopyBackWords
  <2>3. QED
    BY <2>1, <2>2 DEF Conflicts
<1>3. CASE S = Stores(l, g)
  <2>1. i.index # j.index /\ i.index \in 0..(Points(l) - 1) /\ j.index \in 0..(Points(l) - 1)
    BY <1>3, StoreWords
  <2>2. /\ Range(i.to) = {<<"data", Place(l, g, i.index)>>} /\ Range(j.to) = {<<"data", Place(l, g, j.index)>>}
        /\ \A w \in Range(i.from) \cup Range(j.from) : w[1] # "data"
    BY <1>3, StoreWords
  <2>3. Place(l, g, i.index) # Place(l, g, j.index)
    BY <2>1, PlacesDiffer
  <2>4. QED
    BY <2>2, <2>3 DEF Conflicts
<1>4. ASSUME NEW n \in 1..Len(StageRadices(l)), S = Butterflies(l, n) PROVE Conflicts(i, j) = {}
  <2> DEFINE r    == StageRadices(l)[n]
             done == Combined(StageRadices(l))[n - 1]
             src  == IF n % 2 = 1 THEN "a" ELSE "b"
             dst  == IF n % 2 = 1 THEN "b" ELSE "a"
             to(x, t) == (x \div done) * r * done + (x % done) + (t - 1) * done
  <2>1. StageRadices(l) \in Seq(Positive) /\ Points(l) \in Positive
    BY GroupKernelTypes
  <2>2. r \in Positive /\ done \in Positive
    <3>1. n - 1 \in 0..Len(StageRadices(l)) /\ n \in DOMAIN StageRadices(l)
      BY <2>1
    <3>2. QED
      BY <2>1, <3>1, CombinedType
  <2>3. i \in Butterflies(l, n) /\ j \in Butterflies(l, n)
    BY <1>4
  <2>4. /\ i.index \in Nat /\ j.index \in Nat /\ i.index # j.index
    <3>1. i.index # j.index /\ i.index \in 0..((Points(l) \div r) - 1) /\ j.index \in 0..((Points(l) \div r) - 1)
      BY <2>3, ButterflyWords
    <3>2. QED
      BY <3>1
  <2>5. /\ \A w \in Range(i.from) \cup Range(j.from) : w[1] = src
        /\ \A w \in Range(i.to) \cup Range(j.to) : w[1] = dst
    BY <2>3, ButterflyWords
  <2>6. /\ \A w \in Range(i.to) : \E t \in 1..r : w[2] = to(i.index, t)
        /\ \A w \in Range(j.to) : \E t \in 1..r : w[2] = to(j.index, t)
    BY <2>3, ButterflyWords
  <2>7. src # dst
    OBVIOUS
  <2>8. ASSUME NEW t \in 1..r, NEW u \in 1..r PROVE to(i.index, t) # to(j.index, u)
    BY <2>2, <2>4, ButterfliesDiffer
  <2> HIDE DEF to, src, dst, r, done
  <2>9. Range(i.to) \cap Range(j.to) = {}
    BY <2>6, <2>8
  <2>10. QED
    BY <2>5, <2>7, <2>9 DEF Conflicts
<1>5. QED
  BY <1>1, <1>2, <1>3, <1>4, IntervalCases

\* In device memory, an item touches the place of its own point only.
LEMMA DeviceWords ==
  ASSUME IsPow2(Base), NEW l \in Launches, l.kernel \in GroupKernels,
         NEW g \in Groups(l), NEW k \in DOMAIN Intervals(l, g), NEW it \in Intervals(l, g)[k],
         NEW w \in Touched(it), w[1] \in Buffers
  PROVE  it.index \in 0..(Points(l) - 1) /\ w[2] = Place(l, g, it.index)
<1> DEFINE S == Intervals(l, g)[k]
<1>1. CASE S = Loads(l, g)
  <2>1. /\ it.index \in 0..(Points(l) - 1) /\ Range(it.to) = {<<"a", it.index>>}
        /\ \A x \in Range(it.from) : x[2] = Place(l, g, it.index)
    BY <1>1, LoadWords
  <2>2. QED
    BY <2>1 DEF Touched, Buffers
<1>2. CASE S = CopiesBack(l)
  <2>1. Range(it.from) = {<<"b", it.index>>} /\ Range(it.to) = {<<"a", it.index>>}
    BY <1>2, CopyBackWords
  <2>2. QED
    BY <2>1 DEF Touched, Buffers
<1>3. CASE S = Stores(l, g)
  <2>1. /\ it.index \in 0..(Points(l) - 1) /\ Range(it.to) = {<<"data", Place(l, g, it.index)>>}
        /\ \A x \in Range(it.from) : x[1] \in {"a", "b"}
    BY <1>3, StoreWords
  <2>2. QED
    BY <2>1 DEF Touched, Buffers
<1>4. ASSUME NEW n \in 1..Len(StageRadices(l)), S = Butterflies(l, n) PROVE FALSE
  <2>1. \A x \in Range(it.from) : x[1] \in {"a", "b"}
    BY <1>4, ButterflyWords
  <2>2. \A x \in Range(it.to) : x[1] \in {"a", "b"}
    BY <1>4, ButterflyWords
  <2>3. QED
    BY <2>1, <2>2 DEF Touched, Buffers
<1>5. QED
  BY <1>1, <1>2, <1>3, <1>4, IntervalCases

\* A transposition moves no two elements to one place.
LEMMA TranspositionsDiffer ==
  ASSUME IsPow2(Base), NEW l \in Launches, l.kernel \in ElementKernels,
         NEW e \in Nat, NEW f \in Nat, Transposed(l, e) = Transposed(l, f)
  PROVE  e = f
<1> DEFINE n   == L2(l)
           row(x) == (x % l.len) \div n
           col(x) == (x % l.len) % n
<1>1. n \in Nat \ {0} /\ Base \in Nat \ {0} /\ l.len \in Nat \ {0} /\ l.len = n * Base
  BY PowerType DEF Launches, LaunchOk, Positive
<1>2. (e \div l.len) * l.len + col(e) * Base + row(e) = (f \div l.len) * l.len + col(f) * Base + row(f)
  BY DEF Transposed, ColOf, RowOf
<1> HIDE DEF n, row, col
<1>3. ASSUME NEW x \in Nat
      PROVE  /\ x \div l.len \in Int /\ x % l.len \in Int /\ x = l.len * (x \div l.len) + (x % l.len)
             /\ row(x) \in 0..(Base - 1) /\ col(x) \in 0..(n - 1) /\ x % l.len = n * row(x) + col(x)
             /\ col(x) * Base + row(x) \in 0..(l.len - 1)
  <2>1. x \div l.len \in Int /\ x % l.len \in 0..(l.len - 1) /\ x = l.len * (x \div l.len) + (x % l.len)
    <3>1. l.len \in Nat \ {0} /\ x \in Int
      BY <1>1
    <3>2. QED
      BY <3>1, DivMod
  <2>2. col(x) \in 0..(n - 1) /\ x % l.len = n * row(x) + col(x)
    <3>1. x % l.len \in Int
      BY <2>1
    <3>2. QED
      BY <1>1, <3>1, DivMod DEF row, col
  <2>3. row(x) \in 0..(Base - 1)
    <3>1. x % l.len \in 0..(n * Base - 1)
      BY <1>1, <2>1
    <3>2. QED
      BY <1>1, <3>1, DivBound DEF row
  <2>4. ASSUME NEW c \in 0..(n - 1), NEW r \in 0..(Base - 1) PROVE c * Base + r \in 0..(l.len - 1)
    BY <1>1, <2>4
  <2>5. QED
    BY <2>1, <2>2, <2>3, <2>4
<1>4. e \div l.len = f \div l.len /\ col(e) * Base + row(e) = col(f) * Base + row(f)
  <2>1. ASSUME NEW x \in Int, NEW y \in Int, NEW z \in Int PROVE x + y + z = x + (y + z)
    OBVIOUS
  <2>2. /\ (e \div l.len) * l.len \in Int /\ col(e) * Base \in Int /\ row(e) \in Int
        /\ (f \div l.len) * l.len \in Int /\ col(f) * Base \in Int /\ row(f) \in Int
    <3>1. /\ e \div l.len \in Int /\ col(e) \in Int /\ row(e) \in Int
          /\ f \div l.len \in Int /\ col(f) \in Int /\ row(f) \in Int
      BY <1>3
    <3>2. ASSUME NEW x \in Int, NEW y \in Nat PROVE x * y \in Int
      OBVIOUS
    <3>3. QED
      BY <1>1, <3>1, <3>2
  <2>3. (e \div l.len) * l.len + (col(e) * Base + row(e)) = (f \div l.len) * l.len + (col(f) * Base + row(f))
    BY <1>2, <2>1, <2>2
  <2>4. l.len \in Positive
    BY <1>1 DEF Positive
  <2>5. QED
    <3>1. /\ e \div l.len \in Int /\ col(e) * Base + row(e) \in 0..(l.len - 1)
          /\ f \div l.len \in Int /\ col(f) * Base + row(f) \in 0..(l.len - 1)
      BY <1>3
    <3>2. QED
      BY <2>3, <2>4, <3>1, OneDigits
<1>5. col(e) = col(f) /\ row(e) = row(f)
  <2>1. Base \in Positive /\ col(e) \in Int /\ col(f) \in Int
    BY <1>1, <1>3 DEF Positive
  <2>2. QED
    BY <1>3, <1>4, <2>1, OneDigits
<1>6. QED
  BY <1>3, <1>4, <1>5

\* Elements are moved, or multiplied, one by one.
LEMMA ElementsAreRaceFree ==
  ASSUME IsPow2(Base), NEW l \in Launches, l.kernel \in ElementKernels,
         NEW e \in Elements(l), NEW f \in Elements(l), e # f
  PROVE  Conflicts(ElementItem(l, e), ElementItem(l, f)) = {}
<1>1. e \in Nat /\ f \in Nat
  BY DEF Elements
<1>2. CASE l.kernel = "twiddle"
  <2>1. ASSUME NEW x
        PROVE  /\ ElementItem(l, x).from = << <<"data", x>> >> /\ ElementItem(l, x).to = << <<"data", x>> >>
    BY <1>2 DEF ElementItem, Item
  <2>2. ASSUME NEW x
        PROVE  /\ Range(ElementItem(l, x).from) = {<<"data", x>>} /\ Range(ElementItem(l, x).to) = {<<"data", x>>}
    BY <2>1, OneWord
  <2>3. QED
    BY <2>2 DEF Conflicts
<1>3. CASE l.kernel = "transpose"
  <2>1. ASSUME NEW x
        PROVE  /\ ElementItem(l, x).from = << <<"data", x>> >> /\ ElementItem(l, x).to = <<Transposed(l, x)>>
    BY <1>3 DEF ElementItem, Item, Move
  <2>2. ASSUME NEW x
        PROVE  /\ Range(ElementItem(l, x).from) = {<<"data", x>>} /\ Range(ElementItem(l, x).to) = {Transposed(l, x)}
    BY <2>1, OneWord
  <2>3. \A x : Transposed(l, x)[1] = "scratch"
    BY DEF Transposed
  <2>4. Transposed(l, e) # Transposed(l, f)
    BY <1>1, TranspositionsDiffer
  <2>5. \A x, y : Transposed(l, x) # <<"data", y>>
    BY <2>3
  <2>6. QED
    BY <2>2, <2>4, <2>5 DEF Conflicts
<1>4. CASE l.kernel = "copy"
  <2>1. ASSUME NEW x
        PROVE  /\ ElementItem(l, x).from = << <<"scratch", x>> >> /\ ElementItem(l, x).to = << <<"data", x>> >>
    BY <1>4 DEF ElementItem, Item, Move
  <2>2. ASSUME NEW x
        PROVE  /\ Range(ElementItem(l, x).from) = {<<"scratch", x>>} /\ Range(ElementItem(l, x).to) = {<<"data", x>>}
    BY <2>1, OneWord
  <2>3. QED
    BY <2>2 DEF Conflicts
<1>5. QED
  BY <1>2, <1>3, <1>4 DEF ElementKernels

\* What a launch of fft_pass does is race free.
LEMMA LaunchesAreRaceFree ==
  ASSUME IsPow2(Base), NEW l \in Launches,
         NEW g \in Groups(l), NEW h \in Groups(l),
         NEW k \in DOMAIN Intervals(l, g), NEW m \in DOMAIN Intervals(l, h),
         NEW i \in Intervals(l, g)[k], NEW j \in Intervals(l, h)[m]
  PROVE  IF g = h /\ k = m THEN i # j => Conflicts(i, j) = {}
         ELSE g # h \/ i.index # j.index => \A w \in Conflicts(i, j) : w[1] \notin Buffers
<1>1. CASE l.kernel \in GroupKernels
  <2>1. CASE g = h /\ k = m
    BY <1>1, <2>1, IntervalsAreRaceFree
  <2>2. ASSUME g # h \/ i.index # j.index, NEW w \in Conflicts(i, j), w[1] \in Buffers PROVE FALSE
    <3>1. w \in Touched(i) /\ w \in Touched(j)
      BY <2>2 DEF Conflicts, Touched
    <3>2. i.index \in 0..(Points(l) - 1) /\ w[2] = Place(l, g, i.index)
      BY <1>1, <2>2, <3>1, DeviceWords
    <3>3. j.index \in 0..(Points(l) - 1) /\ w[2] = Place(l, h, j.index)
      BY <1>1, <2>2, <3>1, DeviceWords
    <3>4. QED
      BY <1>1, <2>2, <3>2, <3>3, PlacesDiffer
  <2>3. QED
    BY <2>1, <2>2
<1>2. CASE l.kernel \in ElementKernels
  <2>1. Groups(l) = {0} /\ \A x : Intervals(l, x) = <<{ElementItem(l, e) : e \in Elements(l)}>>
    BY <1>2 DEF Groups, Intervals, ElementKernels
  <2>2. g = h /\ k = 1 /\ m = 1
    BY <2>1
  <2>3. PICK e \in Elements(l) : i = ElementItem(l, e)
    BY <2>1, <2>2
  <2>4. PICK f \in Elements(l) : j = ElementItem(l, f)
    BY <2>1, <2>2
  <2>5. i # j => e # f
    BY <2>3, <2>4
  <2>6. i # j => Conflicts(i, j) = {}
    BY <1>2, <2>3, <2>4, <2>5, ElementsAreRaceFree
  <2>7. QED
    BY <2>2, <2>6
<1>3. QED
  BY <1>1, <1>2 DEF Launches

-----------------------------------------------------------------------------
\* The binding.

Todos == Launches \cup Passes

\* The launches to come are those of an algorithm; the threadgroups are those of the next one.
\* Bluestein's transforms have a power of two of points.
FftInv ==
  /\ case \in Cases
  /\ todo \in Seq(Todos)
  /\ phase = "start" => todo = <<>>
  /\ tg # <<>> => /\ todo # <<>> /\ Head(todo).kernel # "pass"
                  /\ DOMAIN tg = Groups(Head(todo))
  /\ phase = "run" /\ Algorithm(case.n) = "bluestein"
       => job.n = Padded(case.n) /\ Fits(case.n) /\ case.n \in Positive

LEMMA BaseIsPower == ASSUME case \in Cases PROVE IsPow2(Base) /\ case.n \in Nat
BY CaseAssumption DEF Base

\* A size that has an algorithm of its own gets launches.
LEMMA JobLaunches ==
  ASSUME case \in Cases, NEW n \in Positive, Algorithm(n) \notin {"unsupported", "bluestein"},
         NEW j, j.n = n
  PROVE  LaunchesOf(j) \in Seq(Todos)
<1>1. CASE Algorithm(n) = "fourstep"
  <2>1. IsPow2(n)
    BY <1>1 DEF Algorithm
  <2>2. Pass(n, 1, 0) \in Passes
    BY <2>1, PowerType DEF Pass, Passes, Positive
  <2>3. QED
    BY <1>1, <2>2 DEF LaunchesOf, Todos
<1>2. CASE Algorithm(n) # "fourstep"
  <2>1. \/ Algorithm(n) = "stockham" /\ IsPow2(n)
        \/ Algorithm(n) = "mixed"
    BY <1>2 DEF Algorithm
  <2>2. Launch(Algorithm(n), n, 1) \in Launches
    BY <2>1 DEF Launch, Launches, LaunchOk, GroupKernels, ElementKernels, Positive
  <2>3. QED
    BY <1>2, <2>2 DEF LaunchesOf, Todos
<1>3. QED
  BY <1>1, <1>2

\* Bluestein's transforms are of a size that has one.
LEMMA PaddedSize ==
  ASSUME case \in Cases, NEW n \in Positive, Fits(n)
  PROVE  Padded(n) \in Positive /\ Algorithm(Padded(n)) \notin {"unsupported", "bluestein"}
<1> DEFINE Enough(k) == Shl[k] >= 2 * n - 1 /\ \A j \in 0..(k - 1) : Shl[j] < 2 * n - 1
<1>1. \E k \in 0..30 : Enough(k)
  <2> DEFINE S == {k \in 0..30 : Shl[k] >= 2 * n - 1}
  <2>1. S \in SUBSET Nat /\ 30 \in S
    <3>1. Shl[30] \in Nat
      <4>1. \A k \in 0..30 : Shl[k] \in Nat
        BY ShlFacts
      <4>2. 30 \in 0..30
        OBVIOUS
      <4>3. QED
        BY <4>1, <4>2
    <3>2. 2 * n - 1 <= Shl[30] /\ n \in Nat
      BY DEF Fits, Positive
    <3>3. QED
      BY <3>1, <3>2
  <2>2. PICK k \in S : \A j \in S : k <= j
    <3> HIDE DEF S
    <3>1. QED
      BY <2>1, LeastNumber
  <2>3. ASSUME NEW j \in 0..(k - 1) PROVE Shl[j] < 2 * n - 1
    <3>1. j \in 0..30 /\ j < k
      BY <2>2
    <3>2. j \notin S
      BY <2>2, <3>1
    <3>3. Shl[j] \in Nat /\ n \in Nat
      BY <3>1, ShlFacts DEF Positive
    <3>4. QED
      BY <3>1, <3>2, <3>3
  <2>4. QED
    BY <2>2, <2>3
<1>2. IsPow2(Padded(n))
  BY <1>1 DEF Padded, IsPow2
<1>3. Padded(n) \in Positive
  BY <1>2, PowerType DEF Positive
<1>4. Padded(n) <= MaxSize
  BY DEF Fits
<1>5. Base \in Nat
  BY BaseIsPower, PowerType
<1>6. Algorithm(Padded(n)) = "stockham" \/ Algorithm(Padded(n)) = "fourstep"
  <2>1. Padded(n) <= Base \/ Padded(n) > Base
    BY <1>3, <1>5 DEF Positive
  <2>2. QED
    BY <1>2, <1>4, <2>1 DEF Algorithm
<1>7. QED
  BY <1>3, <1>6

\* A level of the four steps.
LEMMA ExpandedTodos ==
  ASSUME case \in Cases, NEW p \in Passes
  PROVE  Expanded(p) \in Seq(Todos)
<1>1. IsPow2(Base) /\ Base \in Nat \ {0} /\ IsPow2(p.len) /\ p.len \in Nat \ {0} /\ p.batch \in Nat /\ p.depth \in Nat
  BY BaseIsPower, PowerType DEF Passes
<1>2. CASE p.len <= Base
  <2>1. Launch("batched", p.len, p.batch) \in Launches
    BY <1>1 DEF Launch, Launches, LaunchOk, GroupKernels, ElementKernels, Positive
  <2>2. QED
    BY <1>2, <2>1 DEF Expanded, Todos
<1>3. CASE p.len > Base
  <2> DEFINE n == p.len \div Base
  <2>1. IsPow2(n) /\ p.len = n * Base
    BY <1>1, <1>3, PowerSplit
  <2>2. n \in Nat \ {0} /\ p.batch * Base \in Nat
    BY <1>1, <2>1, PowerType
  <2>3. ASSUME NEW kernel \in {"cols"} \cup ElementKernels PROVE Launch(kernel, p.len, p.batch) \in Launches
    <3>1. LaunchOk(Launch(kernel, p.len, p.batch))
      BY <1>1, <2>1, <2>2, <2>3 DEF Launch, LaunchOk, L2, ElementKernels, Positive
    <3>2. QED
      BY <1>1, <3>1 DEF Launch, Launches, GroupKernels
  <2>4. Pass(n, p.batch * Base, p.depth + 1) \in Passes
    BY <1>1, <2>1, <2>2 DEF Pass, Passes
  <2>5. Expanded(p) = <<Launch("cols", p.len, p.batch), Launch("twiddle", p.len, p.batch),
                        Pass(n, p.batch * Base, p.depth + 1),
                        Launch("transpose", p.len, p.batch), Launch("copy", p.len, p.batch)>>
    BY <1>1, <1>3 DEF Expanded
  <2>6. ASSUME NEW a \in Todos, NEW b \in Todos, NEW c \in Todos, NEW d \in Todos, NEW e \in Todos
        PROVE  <<a, b, c, d, e>> \in Seq(Todos)
    OBVIOUS
  <2>7. QED
    BY <2>3, <2>4, <2>5, <2>6 DEF Todos, ElementKernels
<1>4. QED
  BY <1>1, <1>2, <1>3

LEMMA InitFftInv == FftInit => FftInv
<1> SUFFICES ASSUME FftInit PROVE FftInv
  OBVIOUS
<1>1. <<>> \in Seq(Todos)
  OBVIOUS
<1>2. QED
  BY <1>1 DEF FftInit, FftInv

LEMMA NextFftInv == FftInv /\ [FftNext]_fftVars => FftInv'
<1> SUFFICES ASSUME FftInv, [FftNext]_fftVars PROVE FftInv'
  OBVIOUS
<1>0. /\ case \in Cases /\ IsPow2(Base) /\ case.n \in Nat
      /\ todo \in Seq(Todos)
      /\ phase = "start" => todo = <<>>
      /\ tg # <<>> => todo # <<>> /\ Head(todo).kernel # "pass" /\ DOMAIN tg = Groups(Head(todo))
      /\ phase = "run" /\ Algorithm(case.n) = "bluestein"
           => job.n = Padded(case.n) /\ Fits(case.n) /\ case.n \in Positive
  BY BaseIsPower DEF FftInv
<1>1. case' = case
  BY DEF FftNext, Begin, ExpandPass, Dispatch, Advance, Wait, FinishJob, Fault, Done, FallBack, AnswerWith, StartJob, fftVars
<1>2. Todos' = Todos /\ Base' = Base /\ Algorithm(case.n)' = Algorithm(case.n)
  BY <1>1 DEF Todos, Launches, Passes, LaunchOk, L2, Base, Algorithm
<1>3. ASSUME NEW x, AnswerWith(x) PROVE FftInv'
  <2>1. <<>> \in Seq(Todos)
    OBVIOUS
  <2>2. QED
    BY <1>0, <1>1, <1>2, <1>3, <2>1 DEF AnswerWith, FftInv
<1>4. ASSUME NEW j, NEW n \in Positive, j.n = n, StartJob(j), todo = <<>>,
             Algorithm(n) \notin {"unsupported", "bluestein"},
             Algorithm(case.n) = "bluestein" => n = Padded(case.n) /\ Fits(case.n) /\ case.n \in Positive
      PROVE  FftInv'
  <2>1. LaunchesOf(j) \in Seq(Todos)
    BY <1>0, <1>4, JobLaunches
  <2>2. tg' = <<>> /\ todo' = LaunchesOf(j) /\ job' = j /\ phase' = "run"
    BY <1>0, <1>4 DEF StartJob
  <2>3. todo' \in Seq(Todos)'
    BY <1>2, <2>1, <2>2
  <2>4. (phase = "run" /\ Algorithm(case.n) = "bluestein"
           => job.n = Padded(case.n) /\ Fits(case.n) /\ case.n \in Positive)'
    BY <1>1, <1>2, <1>4, <2>2 DEF Padded, Fits
  <2>5. QED
    BY <1>0, <1>1, <2>2, <2>3, <2>4 DEF FftInv
<1>5. ASSUME phase' = phase, job' = job PROVE (phase = "run" /\ Algorithm(case.n) = "bluestein"
           => job.n = Padded(case.n) /\ Fits(case.n) /\ case.n \in Positive)'
  BY <1>0, <1>1, <1>2, <1>5 DEF Padded, Fits
<1>10. CASE Begin
  <2>1. ASSUME NEW x, AnswerWith(x) PROVE FftInv'
    BY <1>3, <2>1
  <2>2. CASE /\ case.n > 0 /\ Algorithm(case.n) = "bluestein"
             /\ StartJob(Job(Padded(case.n), FALSE, Chirped))
    <3>1. case.n \in Positive /\ Fits(case.n)
      BY <1>0, <2>2 DEF Algorithm, Positive
    <3>2. Padded(case.n) \in Positive /\ Algorithm(Padded(case.n)) \notin {"unsupported", "bluestein"}
      BY <1>0, <3>1, PaddedSize
    <3>3. Job(Padded(case.n), FALSE, Chirped).n = Padded(case.n)
      BY DEF Job
    <3>4. todo = <<>>
      BY <1>0, <1>10 DEF Begin
    <3>5. QED
      BY <1>4, <2>2, <3>1, <3>2, <3>3, <3>4
  <2>3. CASE /\ case.n > 0 /\ Algorithm(case.n) \notin {"unsupported", "bluestein"}
             /\ StartJob(Job(case.n, case.inverse, case.input))
    <3>1. case.n \in Positive /\ Job(case.n, case.inverse, case.input).n = case.n
      BY <1>0, <2>3 DEF Positive, Job
    <3>2. todo = <<>>
      BY <1>0, <1>10 DEF Begin
    <3>3. QED
      BY <1>4, <2>3, <3>1, <3>2
  <2>4. QED
    BY <1>10, <2>1, <2>2, <2>3 DEF Begin, FallBack
<1>11. CASE ExpandPass
  <2>1. todo # <<>> /\ Head(todo).kernel = "pass" /\ tg = <<>>
    BY <1>0, <1>11 DEF ExpandPass, Running
  <2>2. Head(todo) \in Passes /\ Tail(todo) \in Seq(Todos)
    <3>1. Head(todo) \in Todos /\ Tail(todo) \in Seq(Todos)
      BY <1>0, <2>1, HeadTailProperties
    <3>2. \A l \in Launches : l.kernel # "pass"
      BY DEF Launches, GroupKernels, ElementKernels
    <3>3. QED
      BY <2>1, <3>1, <3>2 DEF Todos
  <2>3. CASE Head(todo).depth > MaxDepth
    BY <1>3, <1>11, <2>3 DEF ExpandPass, FallBack
  <2>4. CASE ~(Head(todo).depth > MaxDepth)
    <3>1. /\ todo' = Expanded(Head(todo)) \o Tail(todo) /\ phase' = phase /\ job' = job /\ tg' = <<>>
          /\ phase = "run"
      BY <1>11, <2>1, <2>4 DEF ExpandPass, Running
    <3>2. todo' \in Seq(Todos)
      <4>1. Expanded(Head(todo)) \in Seq(Todos)
        BY <1>0, <2>2, ExpandedTodos
      <4>2. QED
        BY <2>2, <3>1, <4>1, ConcatProperties
    <3>3. QED
      BY <1>0, <1>1, <1>2, <1>5, <3>1, <3>2 DEF FftInv
  <2>5. QED
    BY <2>3, <2>4
<1>12. CASE Dispatch
  <2>1. /\ todo # <<>> /\ Head(todo).kernel # "pass" /\ phase = "run" /\ phase' = phase /\ job' = job /\ todo' = todo
        /\ tg' = [g \in Groups(Head(todo)) |-> [done |-> 0, local |-> <<>>]]
    BY <1>12 DEF Dispatch, Running
  <2>2. DOMAIN tg' = Groups(Head(todo)) /\ Groups(Head(todo))' = Groups(Head(todo))
    BY <1>1, <2>1 DEF Groups, L2, Base
  <2>3. QED
    BY <1>0, <1>1, <1>2, <1>5, <2>1, <2>2 DEF FftInv
<1>13. ASSUME NEW g \in DOMAIN tg, Advance(g) PROVE FftInv'
  <2>1. phase' = phase /\ job' = job /\ todo' = todo /\ DOMAIN tg' = DOMAIN tg
    BY <1>13 DEF Advance
  <2>2. tg # <<>>
    BY <1>13
  <2>3. Groups(Head(todo))' = Groups(Head(todo))
    BY <1>1, <2>1 DEF Groups, L2, Base
  <2>4. QED
    BY <1>0, <1>1, <1>2, <1>5, <2>1, <2>2, <2>3 DEF FftInv
<1>14. CASE Wait
  <2>1. todo # <<>> /\ phase' = phase /\ job' = job /\ todo' = Tail(todo) /\ tg' = <<>>
    BY <1>0, <1>14 DEF Wait
  <2>2. Tail(todo) \in Seq(Todos)
    BY <1>0, <2>1, HeadTailProperties
  <2>3. phase # "start"
    BY <1>0, <2>1
  <2>4. QED
    BY <1>0, <1>1, <1>2, <1>5, <2>1, <2>2, <2>3 DEF FftInv
<1>15. CASE FinishJob
  <2>1. phase = "run" /\ todo = <<>>
    BY <1>15 DEF FinishJob
  <2>2. ASSUME NEW input, NEW inverse, Algorithm(case.n) = "bluestein", StartJob(Job(job.n, inverse, input))
        PROVE  FftInv'
    <3>1. job.n = Padded(case.n) /\ Fits(case.n) /\ case.n \in Positive
      BY <1>0, <2>1, <2>2
    <3>2. Padded(case.n) \in Positive /\ Algorithm(Padded(case.n)) \notin {"unsupported", "bluestein"}
      BY <1>0, <3>1, PaddedSize
    <3>3. Job(job.n, inverse, input).n = Padded(case.n)
      BY <3>1 DEF Job
    <3>4. QED
      BY <1>4, <2>1, <2>2, <3>1, <3>2, <3>3
  <2>3. QED
    BY <1>3, <1>15, <2>2 DEF FinishJob
<1>16. CASE Fault
  BY <1>3, <1>16 DEF Fault, FallBack
<1>17. CASE UNCHANGED fftVars
  <2>1. phase' = phase /\ job' = job /\ todo' = todo /\ tg' = tg
    BY <1>17 DEF fftVars
  <2>2. Groups(Head(todo))' = Groups(Head(todo))
    BY <1>1, <2>1 DEF Groups, L2, Base
  <2>3. QED
    BY <1>0, <1>1, <1>2, <1>5, <2>1, <2>2 DEF FftInv
<1>20. QED
  BY <1>10, <1>11, <1>12, <1>13, <1>14, <1>15, <1>16, <1>17 DEF FftNext, Done

LEMMA FftInvHolds == FftSpec => []FftInv
BY InitFftInv, NextFftInv, PTL DEF FftSpec

\* No thread of a launch touches what another one writes, unless a barrier orders the two: for
\* every size and direction, every base that is a power of two, and at every level of the four
\* steps ("in-place over the shared data buffer is safe", fft.metal; fft_pass, fft_gpu_planar_core).
THEOREM LaunchesNeverRace == FftSpec => []RaceFree
<1>1. FftInv => RaceFree
  <2> SUFFICES ASSUME FftInv, tg # <<>>,
                      NEW g \in DOMAIN tg, NEW h \in DOMAIN tg,
                      NEW k \in DOMAIN Intervals(Head(todo), g), NEW m \in DOMAIN Intervals(Head(todo), h),
                      NEW i \in Intervals(Head(todo), g)[k], NEW j \in Intervals(Head(todo), h)[m]
               PROVE  IF g = h /\ k = m THEN i # j => Conflicts(i, j) = {}
                      ELSE g # h \/ i.index # j.index => \A w \in Conflicts(i, j) : w[1] \notin Buffers
    BY DEF RaceFree
  <2>1. todo # <<>> /\ Head(todo).kernel # "pass" /\ DOMAIN tg = Groups(Head(todo)) /\ IsPow2(Base)
    BY BaseIsPower DEF FftInv
  <2>2. Head(todo) \in Launches
    <3>1. Head(todo) \in Todos
      BY <2>1, HeadTailProperties DEF FftInv
    <3>2. QED
      BY <2>1, <3>1 DEF Todos, Passes
  <2>3. QED
    BY <2>1, <2>2, LaunchesAreRaceFree
<1>2. QED
  BY <1>1, FftInvHolds, PTL

-----------------------------------------------------------------------------

=============================================================================
