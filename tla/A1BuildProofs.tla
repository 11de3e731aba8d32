---------------------------- MODULE A1BuildProofs ----------------------------
(***************************************************************************)
(* The GPU group-by build as its callers see it, for any number of         *)
(* callers, any inputs and any number of partitions: the scratch buffers   *)
(* belong to one caller, are always large enough, and the answer of every  *)
(* call is a grouping of the caller's own keys.                            *)
(***************************************************************************)
EXTENDS A1Build, CountingLemmas

-----------------------------------------------------------------------------
\* The host's scan.

\* The recursive function of ExclusiveScan exists: its defining equation holds.
LEMMA ScanEquation ==
  ASSUME NEW f
  PROVE  ExclusiveScan(f)
           = [p \in 0..NParts |-> IF p = 0 THEN 0 ELSE ExclusiveScan(f)[p - 1] + f[p - 1]]
<1> DEFINE Scans(h, n) == h = [p \in 0..n |-> IF p = 0 THEN 0 ELSE h[p - 1] + f[p - 1]]
           without == {n \in Nat : ~ \E h : Scans(h, n)}
<1>1. without = {}
  <2> SUFFICES ASSUME without # {} PROVE FALSE
    OBVIOUS
  <2>1. PICK m \in without : \A n \in without : m <= n
    <3>1. without \in SUBSET Nat
      OBVIOUS
    <3> HIDE DEF without
    <3>2. QED
      BY <3>1, LeastNumber
  <2>2. m # 0
    <3>1. Scans([p \in {0} |-> 0], 0)
      OBVIOUS
    <3>2. QED
      BY <3>1
  <2>3. PICK h : Scans(h, m - 1)
    BY <2>1, <2>2
  <2> DEFINE longer == [p \in 0..m |-> IF p = m THEN h[m - 1] + f[m - 1] ELSE h[p]]
  <2>4. Scans(longer, m)
    BY <2>2, <2>3
  <2>5. QED
    BY <2>1, <2>4
<1>2. \E h : Scans(h, NParts)
  BY <1>1, PartitionAssumption
<1>3. QED
  BY <1>2 DEF ExclusiveScan

\* The scan of natural numbers: starts at 0, adds one number per partition, never
\* decreases.
LEMMA ScanFacts ==
  ASSUME NEW f, \A p \in Parts : f[p] \in Nat
  PROVE  LET sum == ExclusiveScan(f)
         IN  /\ sum \in [0..NParts -> Nat]
             /\ sum[0] = 0
             /\ \A p \in Parts : sum[p + 1] = sum[p] + f[p]
             /\ \A p, q \in 0..NParts : p <= q => sum[p] <= sum[q]
<1> DEFINE sum == ExclusiveScan(f)
<1> USE PartitionAssumption
<1>1. sum = [p \in 0..NParts |-> IF p = 0 THEN 0 ELSE sum[p - 1] + f[p - 1]]
  BY ScanEquation
<1> HIDE DEF sum
<1>2. sum[0] = 0
  BY <1>1
<1>3. ASSUME NEW p \in Parts PROVE sum[p + 1] = sum[p] + f[p]
  <2>1. p + 1 \in 0..NParts /\ p + 1 # 0 /\ (p + 1) - 1 = p
    BY DEF Parts
  <2>2. QED
    BY <1>1, <2>1
<1>4. \A p \in 0..NParts : sum[p] \in Nat
  <2> DEFINE bad == {p \in 0..NParts : sum[p] \notin Nat}
  <2> SUFFICES ASSUME bad # {} PROVE FALSE
    OBVIOUS
  <2>1. PICK m \in bad : \A n \in bad : m <= n
    <3>1. bad \in SUBSET Nat
      OBVIOUS
    <3> HIDE DEF bad
    <3>2. QED
      BY <3>1, LeastNumber
  <2>2. m - 1 \in Parts /\ m - 1 \in 0..NParts /\ m - 1 < m /\ (m - 1) + 1 = m
    BY <1>2, <2>1 DEF Parts
  <2>3. sum[m - 1] \in Nat
    BY <2>1, <2>2
  <2>4. sum[m] = sum[m - 1] + f[m - 1]
    BY <1>3, <2>2
  <2>5. QED
    BY <2>1, <2>2, <2>3, <2>4
<1>5. ASSUME NEW p \in 0..NParts PROVE \A q \in 0..NParts : p <= q => sum[p] <= sum[q]
  <2> DEFINE bad == {q \in 0..NParts : p <= q /\ ~(sum[p] <= sum[q])}
  <2> SUFFICES ASSUME bad # {} PROVE FALSE
    OBVIOUS
  <2>1. PICK m \in bad : \A n \in bad : m <= n
    <3>1. bad \in SUBSET Nat
      OBVIOUS
    <3> HIDE DEF bad
    <3>2. QED
      BY <3>1, LeastNumber
  <2>2. m # p
    BY <1>4, <2>1
  <2>3. m - 1 \in Parts /\ m - 1 \in 0..NParts /\ p <= m - 1 /\ m - 1 < m /\ (m - 1) + 1 = m
    BY <2>1, <2>2 DEF Parts
  <2>4. sum[p] <= sum[m - 1]
    BY <2>1, <2>3
  <2>5. sum[m] = sum[m - 1] + f[m - 1]
    BY <1>3, <2>3
  <2>6. sum[p] \in Nat /\ sum[m - 1] \in Nat /\ f[m - 1] \in Nat
    BY <1>4, <2>3
  <2>7. QED
    BY <2>1, <2>4, <2>5, <2>6
<1>6. sum \in [0..NParts -> Nat]
  BY <1>1, <1>4
<1>7. QED
  BY <1>2, <1>3, <1>5, <1>6 DEF sum

-----------------------------------------------------------------------------
\* The rows of a key column by partition.

KeyColumn(k) ==
  /\ k \in [DOMAIN k -> Keys]
  /\ IsFiniteSet(DOMAIN k) /\ DOMAIN k = 0..(NRows(k) - 1)

RowsIn(k, p)    == {r \in DOMAIN k : Part[k[r]] = p}
RowsBelow(k, p) == {r \in DOMAIN k : Part[k[r]] < p}

\* RowsBelow counts the rows partition by partition, up to all of them.
LEMMA RowCounts ==
  ASSUME NEW k, KeyColumn(k)
  PROVE  /\ NRows(k) \in Nat
         /\ \A r \in DOMAIN k : Part[k[r]] \in Parts
         /\ \A p \in Nat : Cardinality(RowsBelow(k, p)) \in Nat
                           /\ IsFiniteSet(RowsIn(k, p)) /\ Cardinality(RowsIn(k, p)) \in Nat
         /\ Cardinality(RowsBelow(k, 0)) = 0
         /\ \A p \in Nat : Cardinality(RowsBelow(k, p + 1))
                             = Cardinality(RowsBelow(k, p)) + Cardinality(RowsIn(k, p))
         /\ \A p, q \in Nat :
              p <= q => Cardinality(RowsBelow(k, p)) <= Cardinality(RowsBelow(k, q))
         /\ Cardinality(RowsBelow(k, NParts)) = NRows(k)
<1> USE PartitionAssumption DEF KeyColumn
<1>1. NRows(k) \in Nat
  BY FS_CardinalityType DEF NRows
<1>2. \A r \in DOMAIN k : Part[k[r]] \in Parts
  BY DEF Parts
<1>3. ASSUME NEW p \in Nat
      PROVE  /\ IsFiniteSet(RowsBelow(k, p)) /\ Cardinality(RowsBelow(k, p)) \in Nat
             /\ IsFiniteSet(RowsIn(k, p)) /\ Cardinality(RowsIn(k, p)) \in Nat
  <2>1. RowsBelow(k, p) \in SUBSET DOMAIN k /\ RowsIn(k, p) \in SUBSET DOMAIN k
    BY DEF RowsBelow, RowsIn
  <2>2. IsFiniteSet(RowsBelow(k, p)) /\ IsFiniteSet(RowsIn(k, p))
    BY <2>1, FS_Subset
  <2>3. QED
    BY <2>2, FS_CardinalityType
<1>4. Cardinality(RowsBelow(k, 0)) = 0
  <2>1. RowsBelow(k, 0) = {}
    BY <1>2 DEF RowsBelow, Parts
  <2>2. QED
    BY <2>1, FS_EmptySet
<1>5. ASSUME NEW p \in Nat
      PROVE  Cardinality(RowsBelow(k, p + 1))
               = Cardinality(RowsBelow(k, p)) + Cardinality(RowsIn(k, p))
  <2>1. RowsBelow(k, p + 1) = RowsBelow(k, p) \cup RowsIn(k, p)
    BY <1>2 DEF RowsBelow, RowsIn, Parts
  <2>2. RowsBelow(k, p) \cap RowsIn(k, p) = {}
    BY <1>2 DEF RowsBelow, RowsIn, Parts
  <2>3. Cardinality(RowsBelow(k, p) \cap RowsIn(k, p)) = 0
    BY <2>2, FS_EmptySet
  <2>4. QED
    BY <1>3, <2>1, <2>3, FS_Union
<1>6. ASSUME NEW p \in Nat, NEW q \in Nat, p <= q
      PROVE  Cardinality(RowsBelow(k, p)) <= Cardinality(RowsBelow(k, q))
  <2>1. RowsBelow(k, p) \in SUBSET RowsBelow(k, q)
    BY <1>2, <1>6 DEF RowsBelow, Parts
  <2>2. QED
    BY <1>3, <2>1, FS_Subset
<1>7. Cardinality(RowsBelow(k, NParts)) = NRows(k)
  <2>1. RowsBelow(k, NParts) = DOMAIN k
    BY <1>2 DEF RowsBelow, Parts
  <2>2. QED
    BY <2>1 DEF NRows
<1>8. QED
  BY <1>1, <1>2, <1>3, <1>4, <1>5, <1>6, <1>7

\* The scan of the partition counts is where each partition's slice begins.
LEMMA ScanOfCounts ==
  ASSUME NEW k, KeyColumn(k),
         NEW f, \A p \in Parts : f[p] = Cardinality(RowsIn(k, p))
  PROVE  \A p \in 0..NParts : ExclusiveScan(f)[p] = Cardinality(RowsBelow(k, p))
<1> DEFINE sum == ExclusiveScan(f)
           bad == {p \in 0..NParts : sum[p] # Cardinality(RowsBelow(k, p))}
<1>1. \A p \in Parts : f[p] \in Nat
  <2>1. \A p \in Nat : Cardinality(RowsIn(k, p)) \in Nat
    BY RowCounts
  <2>2. QED
    BY <2>1, PartitionAssumption DEF Parts
<1>2. sum[0] = 0 /\ \A p \in Parts : sum[p + 1] = sum[p] + f[p]
  BY <1>1, ScanFacts
<1> HIDE DEF sum
<1> SUFFICES ASSUME bad # {} PROVE FALSE
  BY DEF sum
<1>3. PICK m \in bad : \A n \in bad : m <= n
  <2>1. bad \in SUBSET Nat
    OBVIOUS
  <2> HIDE DEF bad
  <2>2. QED
    BY <2>1, LeastNumber
<1>4. m # 0
  BY <1>2, <1>3, RowCounts
<1>5. m - 1 \in Parts /\ m - 1 \in 0..NParts /\ m - 1 < m /\ (m - 1) + 1 = m /\ m - 1 \in Nat
  BY <1>3, <1>4, PartitionAssumption DEF Parts
<1>6. sum[m - 1] = Cardinality(RowsBelow(k, m - 1))
  BY <1>3, <1>5
<1>7. sum[m] = sum[m - 1] + f[m - 1]
  BY <1>2, <1>5
<1>8. Cardinality(RowsBelow(k, m)) = Cardinality(RowsBelow(k, m - 1)) + Cardinality(RowsIn(k, m - 1))
  BY <1>5, RowCounts
<1>9. QED
  BY <1>3, <1>5, <1>6, <1>7, <1>8

-----------------------------------------------------------------------------
\* The groupings the two paths answer with.

\* The first row of every group that is used exists.
LEMMA FirstRowsExist ==
  ASSUME NEW k, KeyColumn(k), NEW f, NEW n \in Nat, Kernel!IsGrouping(k, f, n)
  PROVE  Kernel!IsFirstRow(f, n, FirstRows(f, n))
<1> DEFINE Of(g) == {r \in DOMAIN f : f[r] = g}
<1>1. DOMAIN f = DOMAIN k /\ DOMAIN k \in SUBSET Nat
  BY RowCounts DEF Kernel!IsGrouping, KeyColumn
<1>2. ASSUME NEW g \in 0..(n - 1)
      PROVE  \E r \in DOMAIN f : f[r] = g /\ \A q \in DOMAIN f : f[q] = g => r <= q
  <2>1. Of(g) \in SUBSET Nat /\ Of(g) # {}
    BY <1>1 DEF Kernel!IsGrouping
  <2>2. PICK r \in Of(g) : \A q \in Of(g) : r <= q
    <3> HIDE DEF Of
    <3>1. QED
      BY <2>1, LeastNumber
  <2>3. QED
    BY <2>2
<1>3. ASSUME NEW g \in 0..(n - 1)
      PROVE  /\ FirstRows(f, n)[g] \in DOMAIN f
             /\ f[FirstRows(f, n)[g]] = g
             /\ \A q \in DOMAIN f : f[q] = g => FirstRows(f, n)[g] <= q
  BY <1>2 DEF FirstRows
<1>4. DOMAIN FirstRows(f, n) = 0..(n - 1)
  BY DEF FirstRows
<1>5. QED
  BY <1>3, <1>4 DEF Kernel!IsFirstRow

\* Local group ids, shifted by the groups of the partitions before, group the whole
\* column: keys of different partitions differ, and the shifted ranges do not meet.
LEMMA GlobalGroups ==
  ASSUME NEW k, KeyColumn(k), NEW f, \A p \in Parts : f[p] \in Nat,
         NEW part, \A r \in DOMAIN k : part[r] = Part[k[r]],
         NEW local,
         \A p \in Parts : Kernel!IsGrouping([r \in RowsIn(k, p) |-> k[r]],
                                            [r \in RowsIn(k, p) |-> local[r]], f[p])
  PROVE  LET sum == ExclusiveScan(f)
             group == [r \in DOMAIN k |-> sum[part[r]] + local[r]]
         IN  sum[NParts] \in Nat /\ Kernel!IsGrouping(k, group, sum[NParts])
<1> DEFINE sum == ExclusiveScan(f)
           group == [r \in DOMAIN k |-> sum[part[r]] + local[r]]
           P(r) == Part[k[r]]
<1> USE PartitionAssumption
<1>1. /\ sum \in [0..NParts -> Nat] /\ sum[0] = 0
      /\ \A p \in Parts : sum[p + 1] = sum[p] + f[p]
      /\ \A p, q \in 0..NParts : p <= q => sum[p] <= sum[q]
  BY ScanFacts
<1> HIDE DEF sum
<1>2. ASSUME NEW p \in Parts, NEW r \in RowsIn(k, p)
      PROVE  /\ local[r] \in 0..(f[p] - 1)
             /\ \A q \in RowsIn(k, p) : local[r] = local[q] <=> k[r] = k[q]
  BY <1>2 DEF Kernel!IsGrouping
<1>3. ASSUME NEW p \in Parts, NEW g \in 0..(f[p] - 1)
      PROVE  \E r \in RowsIn(k, p) : local[r] = g
  BY <1>3 DEF Kernel!IsGrouping
<1>4. ASSUME NEW r \in DOMAIN k
      PROVE  /\ P(r) \in Parts /\ r \in RowsIn(k, P(r))
             /\ group[r] = sum[P(r)] + local[r]
             /\ local[r] \in Nat /\ local[r] < f[P(r)]
             /\ sum[P(r)] \in Nat /\ sum[P(r) + 1] \in Nat
             /\ group[r] \in Nat /\ sum[P(r)] <= group[r] /\ group[r] < sum[P(r) + 1]
             /\ sum[P(r) + 1] <= sum[NParts]
  <2>1. P(r) \in Parts /\ r \in RowsIn(k, P(r))
    BY RowCounts DEF RowsIn
  <2>2. group[r] = sum[P(r)] + local[r]
    OBVIOUS
  <2>3. local[r] \in Nat /\ local[r] < f[P(r)]
    BY <1>2, <2>1
  <2>4. P(r) \in 0..NParts /\ P(r) + 1 \in 0..NParts /\ NParts \in 0..NParts
    BY <2>1 DEF Parts
  <2>5. sum[P(r)] \in Nat /\ sum[P(r) + 1] \in Nat /\ f[P(r)] \in Nat
        /\ sum[P(r) + 1] = sum[P(r)] + f[P(r)] /\ sum[P(r) + 1] <= sum[NParts]
    BY <1>1, <2>1, <2>4 DEF Parts
  <2> HIDE DEF group
  <2>6. QED
    BY <2>1, <2>2, <2>3, <2>5
<1>5. sum[NParts] \in Nat
  BY <1>1
<1>6. group \in [DOMAIN k -> 0..(sum[NParts] - 1)]
  <2>1. ASSUME NEW r \in DOMAIN k PROVE group[r] \in 0..(sum[NParts] - 1)
    <3> HIDE DEF group
    <3>1. QED
      BY <1>4, <1>5
  <2>2. QED
    BY <2>1
<1> HIDE DEF group
<1>7. ASSUME NEW r \in DOMAIN k, NEW q \in DOMAIN k, P(r) < P(q) PROVE group[r] < group[q]
  <2>1. P(r) + 1 \in 0..NParts /\ P(q) \in 0..NParts /\ P(r) + 1 <= P(q)
    BY <1>4, <1>7 DEF Parts
  <2>2. sum[P(r) + 1] <= sum[P(q)]
    BY <1>1, <2>1
  <2>3. QED
    BY <1>4, <2>2
<1>8. ASSUME NEW r \in DOMAIN k, NEW q \in DOMAIN k PROVE group[r] = group[q] <=> k[r] = k[q]
  <2>1. P(r) \in Nat /\ P(q) \in Nat /\ group[r] \in Nat /\ group[q] \in Nat
    BY <1>4 DEF Parts
  <2>2. CASE P(r) # P(q)
    <3>1. P(r) < P(q) \/ P(q) < P(r)
      BY <2>1, <2>2
    <3>2. group[r] # group[q]
      BY <1>7, <2>1, <3>1
    <3>3. QED
      BY <2>2, <3>2
  <2>3. CASE P(r) = P(q)
    <3>1. q \in RowsIn(k, P(r)) /\ r \in RowsIn(k, P(r)) /\ P(r) \in Parts
      BY <1>4, <2>3
    <3>2. local[r] = local[q] <=> k[r] = k[q]
      BY <1>2, <3>1
    <3>3. group[r] = sum[P(r)] + local[r] /\ group[q] = sum[P(r)] + local[q]
          /\ local[r] \in Nat /\ local[q] \in Nat /\ sum[P(r)] \in Nat
      BY <1>4, <2>3
    <3>4. QED
      BY <3>2, <3>3
  <2>4. QED
    BY <2>2, <2>3
<1>9. ASSUME NEW g \in 0..(sum[NParts] - 1) PROVE \E r \in DOMAIN k : group[r] = g
  <2> DEFINE above == {p \in Nat : p <= NParts /\ g < sum[p]}
  <2>1. NParts \in above
    BY <1>5
  <2>2. PICK p \in above : \A q \in above : p <= q
    <3>1. above \in SUBSET Nat /\ above # {}
      BY <2>1
    <3> HIDE DEF above
    <3>2. QED
      BY <3>1, LeastNumber
  <2>3. p # 0
    BY <1>1, <2>2
  <2>4. p - 1 \in Parts /\ p - 1 \in Nat /\ p - 1 \notin above /\ (p - 1) + 1 = p
        /\ p - 1 \in 0..NParts /\ p \in 0..NParts
    BY <2>2, <2>3 DEF Parts
  <2>5. sum[p - 1] <= g /\ g < sum[p] /\ sum[p] = sum[p - 1] + f[p - 1]
        /\ sum[p - 1] \in Nat /\ f[p - 1] \in Nat
    <3>1. sum[p - 1] \in Nat /\ f[p - 1] \in Nat /\ sum[p] = sum[p - 1] + f[p - 1]
      BY <1>1, <2>4
    <3>2. ~(g < sum[p - 1])
      BY <2>4
    <3>3. QED
      BY <2>2, <3>1, <3>2
  <2>6. PICK r \in RowsIn(k, p - 1) : local[r] = g - sum[p - 1]
    <3>1. g - sum[p - 1] \in 0..(f[p - 1] - 1)
      BY <2>5
    <3>2. QED
      BY <1>3, <2>4, <3>1
  <2>7. r \in DOMAIN k /\ P(r) = p - 1
    BY DEF RowsIn
  <2>8. group[r] = sum[p - 1] + local[r]
    BY <1>4, <2>7
  <2>9. QED
    BY <2>5, <2>6, <2>7, <2>8
<1>10. Kernel!IsGrouping(k, group, sum[NParts])
  BY <1>6, <1>8, <1>9 DEF Kernel!IsGrouping
<1>11. QED
  BY <1>5, <1>10 DEF group, sum

\* Numbering the keys in the order in which they first occur groups the column.
LEMMA CpuGroups ==
  ASSUME NEW k, KeyColumn(k)
  PROVE  LET FirstRow(x) ==
               CHOOSE r \in DOMAIN k : k[r] = x /\ \A q \in DOMAIN k : k[q] = x => r <= q
             firsts == {FirstRow(k[r]) : r \in DOMAIN k}
             group  == [r \in DOMAIN k |-> Cardinality({q \in firsts : q < FirstRow(k[r])})]
         IN  Cardinality(firsts) \in Nat /\ Kernel!IsGrouping(k, group, Cardinality(firsts))
<1> DEFINE FirstRow(x) ==
             CHOOSE r \in DOMAIN k : k[r] = x /\ \A q \in DOMAIN k : k[q] = x => r <= q
           firsts == {FirstRow(k[r]) : r \in DOMAIN k}
           group  == [r \in DOMAIN k |-> Cardinality({q \in firsts : q < FirstRow(k[r])})]
           rank   == [x \in firsts |-> Cardinality({y \in firsts : y < x})]
           Of(x)  == {r \in DOMAIN k : k[r] = x}
<1>1. DOMAIN k \in SUBSET Nat
  BY RowCounts DEF KeyColumn
<1>2. ASSUME NEW r \in DOMAIN k
      PROVE  FirstRow(k[r]) \in DOMAIN k /\ k[FirstRow(k[r])] = k[r]
  <2>1. Of(k[r]) \in SUBSET Nat /\ Of(k[r]) # {}
    BY <1>1
  <2>2. PICK m \in Of(k[r]) : \A q \in Of(k[r]) : m <= q
    <3> HIDE DEF Of
    <3>1. QED
      BY <2>1, LeastNumber
  <2>3. QED
    BY <2>2
<1> HIDE DEF FirstRow
<1>3. firsts \in SUBSET DOMAIN k /\ firsts \in SUBSET Nat
  BY <1>1, <1>2
<1>4. IsFiniteSet(firsts)
  BY <1>3, FS_Subset DEF KeyColumn
<1>5. /\ Cardinality(firsts) \in Nat
      /\ rank \in [firsts -> 0..(Cardinality(firsts) - 1)]
      /\ \A x, y \in firsts : x < y => rank[x] < rank[y]
      /\ \A g \in 0..(Cardinality(firsts) - 1) : \E x \in firsts : rank[x] = g
  <2> HIDE DEF firsts
  <2>1. QED
    BY <1>3, <1>4, RankNumbers
<1>6. ASSUME NEW r \in DOMAIN k
      PROVE  FirstRow(k[r]) \in firsts /\ group[r] = rank[FirstRow(k[r])]
  OBVIOUS
<1>7. \A x \in firsts : \E r \in DOMAIN k : x = FirstRow(k[r])
  OBVIOUS
<1>8. group \in [DOMAIN k -> 0..(Cardinality(firsts) - 1)]
  <2>1. \A r \in DOMAIN k : group[r] \in 0..(Cardinality(firsts) - 1)
    <3> HIDE DEF group, firsts, rank
    <3>1. QED
      BY <1>5, <1>6
  <2> HIDE DEF firsts
  <2>2. QED
    BY <2>1
<1> HIDE DEF group, firsts, rank
<1>9. ASSUME NEW r \in DOMAIN k, NEW q \in DOMAIN k PROVE group[r] = group[q] <=> k[r] = k[q]
  <2> DEFINE x == FirstRow(k[r])
             y == FirstRow(k[q])
  <2>1. x \in firsts /\ y \in firsts /\ x \in Nat /\ y \in Nat
        /\ group[r] = rank[x] /\ group[q] = rank[y]
    BY <1>3, <1>6
  <2>2. k[x] = k[r] /\ k[y] = k[q]
    BY <1>2
  <2>3. rank[x] = rank[y] <=> x = y
    <3>1. rank[x] \in Nat /\ rank[y] \in Nat
      BY <1>5, <2>1
    <3>2. x < y \/ x = y \/ y < x
      BY <2>1
    <3> HIDE DEF x, y
    <3>3. QED
      BY <1>5, <2>1, <3>1, <3>2
  <2>4. k[r] = k[q] => x = y
    OBVIOUS
  <2>5. QED
    BY <2>1, <2>2, <2>3, <2>4
<1>10. ASSUME NEW g \in 0..(Cardinality(firsts) - 1) PROVE \E r \in DOMAIN k : group[r] = g
  BY <1>5, <1>6, <1>7
<1>11. Kernel!IsGrouping(k, group, Cardinality(firsts))
  BY <1>8, <1>9, <1>10 DEF Kernel!IsGrouping
<1>12. QED
  BY <1>5, <1>11 DEF group, firsts, FirstRow

-----------------------------------------------------------------------------
\* The invariant.

PCs == {"idle", "dispatch", "cpu", "cache", "init", "lock"} \cup Locked

\* Every caller is between two calls with an answer, or in a call without one.
CallInv ==
  /\ pc \in [Callers -> PCs]
  /\ DOMAIN keys = Callers /\ DOMAIN answer = Callers
  /\ \A c \in Callers :
       /\ KeyColumn(keys[c])
       /\ answer[c].kind = IF pc[c] = "idle" THEN "output" ELSE "none"

\* The mutex, the command buffer and the capacities.
LockInv ==
  /\ holder \in Callers \cup {NoCaller}
  /\ gpu \in [kernel : Kernels \cup {"none"}, todo : SUBSET Nat, by : Callers \cup {NoCaller}]
  /\ gpu.kernel = "none" => gpu.todo = {}
  /\ \A c \in Callers, k \in Kernels : pc[c] = Waiting(k) => gpu.kernel = k
  /\ ScratchExclusive

CapacityInv ==
  /\ capRows \in Nat /\ capParts \in {0, NParts}
  /\ CapacityBacked

\* From write_keys on, the scratch holds the keys of the caller and has room for them.
Loaded(c) ==
  pc[c] \in Locked \ {"ensure"} =>
    /\ NRows(keys[c]) <= capRows /\ capParts = NParts
    /\ \A r \in DOMAIN keys[c] : keysBuf[r] = keys[c][r]
    /\ overflow \in {0, 1}

Counted(k, rows) == \A p \in Parts : counts[p] = Cardinality(RowsIn(k, p) \cap rows)
NoCursors == \A p \in Parts : cursors[p] = 0
Sliced(k) == \A p \in 0..NParts : offsets[p] = Cardinality(RowsBelow(k, p))

\* What the scatter kernel has written for rows: the start of each partition's slice.
Filled(p) == offsets[p]..(offsets[p] + cursors[p] - 1)
Scattered(k, rows) ==
  /\ \A p \in Parts : cursors[p] = Cardinality(RowsIn(k, p) \cap rows)
  /\ \A p \in Parts : \A i \in Filled(p) : rowIdx[i] \in RowsIn(k, p) \cap rows
  /\ \A r \in rows : /\ pid[r] = Part[k[r]]
                     /\ \E i \in Filled(Part[k[r]]) : rowIdx[i] = r

\* What a threadgroup of the build kernel leaves behind for its partition.
Grouped(k, p) ==
  /\ ngPerPart[p] \in Nat
  /\ Kernel!IsGrouping([r \in RowsIn(k, p) |-> k[r]], [r \in RowsIn(k, p) |-> r2lg[r]],
                       ngPerPart[p])

CountInv(c) ==
  /\ pc[c] = "count" => Counted(keys[c], {}) /\ NoCursors
  /\ pc[c] = "countWait" =>
       /\ gpu.todo \subseteq DOMAIN keys[c]
       /\ Counted(keys[c], DOMAIN keys[c] \ gpu.todo) /\ NoCursors

ScatterInv(c) ==
  /\ pc[c] = "scatter" => Sliced(keys[c]) /\ NoCursors
  /\ pc[c] = "scatterWait" =>
       /\ gpu.todo \subseteq DOMAIN keys[c]
       /\ Sliced(keys[c]) /\ Scattered(keys[c], DOMAIN keys[c] \ gpu.todo)

BuildInv(c) ==
  /\ pc[c] \in {"build", "buildWait"} =>
       Sliced(keys[c]) /\ Scattered(keys[c], DOMAIN keys[c])
  /\ pc[c] = "buildWait" =>
       /\ gpu.todo \subseteq Parts
       /\ overflow = 0 => \A p \in Parts \ gpu.todo : Grouped(keys[c], p)

Inside(c) == Loaded(c) /\ CountInv(c) /\ ScatterInv(c) /\ BuildInv(c)

A1Inv == CallInv /\ LockInv /\ CapacityInv /\ \A c \in Callers : Inside(c)

-----------------------------------------------------------------------------
\* Control.

LEMMA Labels ==
  /\ Locked = {"ensure", "count", "scatter", "build", "countWait", "scatterWait", "buildWait"}
  /\ Kernels = {"count", "scatter", "build"}
  /\ Waiting("count") = "countWait" /\ Waiting("scatter") = "scatterWait"
  /\ Waiting("build") = "buildWait"
BY DEF Locked, Kernels, Waiting

\* A caller outside the lock expects nothing of the scratch.
LEMMA OutsideInside ==
  /\ \A d \in Callers : pc[d] \notin Locked => Inside(d)
  /\ (\A d \in Callers : pc[d] \notin Locked => Inside(d))'
BY Labels DEF Inside, Loaded, CountInv, ScatterInv, BuildInv

\* What the one inside expects is kept by whoever leaves the scratch and the GPU alone.
LEMMA InsideFrame ==
  ASSUME NEW d \in Callers, Inside(d), UNCHANGED <<scratch, gpu>>,
         keys'[d] = keys[d], pc'[d] = pc[d]
  PROVE  Inside(d)'
BY DEF Inside, Loaded, CountInv, ScatterInv, BuildInv, Counted, NoCursors, Sliced,
       Scattered, Filled, Grouped, scratch, capacity, rowBufs, partBufs

LEMMA InitInv == Init => A1Inv
<1> SUFFICES ASSUME Init PROVE A1Inv
  OBVIOUS
<1> USE DEF Init
<1>1. CallInv
  <2>1. NRows(Empty) = 0 /\ IsFiniteSet(DOMAIN Empty) /\ DOMAIN Empty = {}
    BY FS_EmptySet DEF NRows, Empty
  <2>2. KeyColumn(Empty)
    BY <2>1 DEF KeyColumn, Empty
  <2>3. QED
    BY <2>2 DEF CallInv, PCs, Output
<1>2. \A c \in Callers : pc[c] \notin Locked
  BY Labels
<1>3. LockInv
  BY <1>2, Labels, InputAssumption DEF LockInv, ScratchExclusive, Idle
<1>4. CapacityInv
  BY PartitionAssumption DEF CapacityInv, CapacityBacked, Empty
<1>5. QED
  BY <1>1, <1>2, <1>3, <1>4, OutsideInside DEF A1Inv

-----------------------------------------------------------------------------
\* Three shapes of host steps.

\* A caller moves outside the lock.
LEMMA StepOutside ==
  ASSUME A1Inv, NEW c \in Callers, NEW label \in PCs \ Locked,
         pc[c] \notin Locked, Goto(c, label), UNCHANGED <<holder, scratch, gpu>>,
         CallInv', \A d \in Callers \ {c} : keys'[d] = keys[d]
  PROVE  A1Inv'
<1>1. pc' \in [Callers -> PCs] /\ pc'[c] = label /\ \A d \in Callers \ {c} : pc'[d] = pc[d]
  BY DEF Goto, A1Inv, CallInv
<1>2. LockInv'
  <2>1. \A d \in Callers : pc'[d] \in Locked <=> holder' = d
    BY <1>1 DEF A1Inv, LockInv, ScratchExclusive
  <2>2. \A d \in Callers, k \in Kernels : pc'[d] = Waiting(k) => gpu'.kernel = k
    BY <1>1, Labels DEF A1Inv, LockInv
  <2>3. gpu'.kernel # "none" => /\ gpu'.by = holder' /\ holder' # NoCaller
                                /\ pc'[holder'] = Waiting(gpu'.kernel)
    BY <1>1 DEF A1Inv, LockInv, ScratchExclusive
  <2>4. QED
    BY <2>1, <2>2, <2>3 DEF A1Inv, LockInv, ScratchExclusive
<1>3. CapacityInv'
  BY DEF A1Inv, CapacityInv, CapacityBacked, scratch, capacity, rowBufs, partBufs
<1>4. ASSUME NEW d \in Callers PROVE Inside(d)'
  BY <1>1, OutsideInside, InsideFrame DEF A1Inv
<1>5. QED
  BY <1>2, <1>3, <1>4 DEF A1Inv

\* The caller inside leaves and gives up the lock, the GPU being idle.
LEMMA StepOut ==
  ASSUME A1Inv, NEW c \in Callers, NEW label \in PCs \ Locked,
         pc[c] \in Locked, Goto(c, label), holder' = NoCaller,
         gpu' = Idle \/ (gpu' = gpu /\ gpu.kernel = "none"),
         CallInv', CapacityInv'
  PROVE  A1Inv'
<1>1. \A d \in Callers : pc'[d] \notin Locked
  BY DEF Goto, A1Inv, CallInv, LockInv, ScratchExclusive
<1>2. gpu'.kernel = "none" /\ gpu'.todo = {}
      /\ gpu' \in [kernel : Kernels \cup {"none"}, todo : SUBSET Nat, by : Callers \cup {NoCaller}]
  BY DEF A1Inv, LockInv, Idle
<1>3. LockInv'
  BY <1>1, <1>2, Labels, InputAssumption DEF LockInv, ScratchExclusive
<1>4. QED
  BY <1>1, <1>3, OutsideInside DEF A1Inv

\* The caller inside goes on, or the GPU does.
LEMMA StepInside ==
  ASSUME A1Inv, NEW c \in Callers, pc[c] \in Locked, pc'[c] \in Locked,
         pc' \in [Callers -> PCs], \A d \in Callers \ {c} : pc'[d] = pc[d],
         UNCHANGED <<keys, answer, holder>>,
         gpu' \in [kernel : Kernels \cup {"none"}, todo : SUBSET Nat, by : Callers \cup {NoCaller}],
         gpu'.kernel = "none" => gpu'.todo = {},
         gpu'.kernel # "none" => gpu'.by = c /\ pc'[c] = Waiting(gpu'.kernel),
         \A k \in Kernels : pc'[c] = Waiting(k) => gpu'.kernel = k,
         CapacityInv', Inside(c)'
  PROVE  A1Inv'
<1>1. holder = c /\ holder' = c /\ c # NoCaller
  BY InputAssumption DEF A1Inv, LockInv, ScratchExclusive
<1>2. \A d \in Callers \ {c} : pc'[d] \notin Locked
  BY <1>1 DEF A1Inv, LockInv, ScratchExclusive
<1>3. LockInv'
  BY <1>1, <1>2, Labels DEF LockInv, ScratchExclusive
<1>4. CallInv'
  <2>1. pc[c] # "idle" /\ pc'[c] # "idle"
    BY Labels
  <2>2. QED
    BY <2>1 DEF A1Inv, CallInv
<1>5. QED
  BY <1>2, <1>3, <1>4, OutsideInside DEF A1Inv

-----------------------------------------------------------------------------
\* The host steps outside the lock.

LEMMA InputsAreColumns == \A in \in Inputs : KeyColumn(in)
BY InputAssumption DEF KeyColumn, NRows

LEMMA CallKeeps == ASSUME A1Inv, NEW c \in Callers, Call(c) PROVE A1Inv'
<1>1. CallInv'
  BY InputsAreColumns, Labels DEF Call, Goto, A1Inv, CallInv, NoAnswer, PCs
<1>2. pc[c] \notin Locked /\ "dispatch" \in PCs \ Locked
  BY Labels DEF Call, PCs
<1>3. \A d \in Callers \ {c} : keys'[d] = keys[d]
  BY DEF Call, A1Inv, CallInv
<1>4. QED
  BY <1>1, <1>2, <1>3, StepOutside DEF Call

\* A call that answers is idle afterwards, with an output.
LEMMA AnswerCalls ==
  ASSUME A1Inv, NEW c \in Callers, NEW f, NEW n, NEW first, Answer(c, Output(f, n, first))
  PROVE  /\ CallInv'
         /\ Goto(c, "idle") /\ "idle" \in PCs \ Locked
         /\ \A d \in Callers : keys'[d] = keys[d]
BY Labels DEF Answer, Output, Goto, A1Inv, CallInv, PCs

\* A step from one control point of a call to another.
LEMMA GotoCalls ==
  ASSUME A1Inv, NEW c \in Callers, pc[c] # "idle", NEW label \in PCs \ {"idle"},
         Goto(c, label), UNCHANGED <<keys, answer>>
  PROVE  CallInv' /\ \A d \in Callers : keys'[d] = keys[d]
BY DEF Goto, A1Inv, CallInv

LEMMA OutsideKeeps ==
  ASSUME A1Inv, NEW c \in Callers,
         \/ AnswerEmpty(c) \/ ChoosePath(c) \/ CpuBuild(c)
         \/ GetCache(c) \/ InitCache(c) \/ InitCacheFails(c)
  PROVE  A1Inv'
<1>1. CASE AnswerEmpty(c)
  <2>1. pc[c] \notin Locked /\ UNCHANGED <<holder, scratch, gpu>>
    BY <1>1, Labels DEF AnswerEmpty
  <2>2. QED
    BY <1>1, <2>1, AnswerCalls, StepOutside DEF AnswerEmpty
<1>2. CASE CpuBuild(c)
  <2>1. pc[c] \notin Locked /\ UNCHANGED <<holder, scratch, gpu>>
    BY <1>2, Labels DEF CpuBuild
  <2>2. \E f, n, first : Answer(c, Output(f, n, first))
    BY <1>2 DEF CpuBuild
  <2>3. QED
    BY <2>1, <2>2, AnswerCalls, StepOutside
<1>3. CASE ChoosePath(c) \/ GetCache(c) \/ InitCache(c) \/ InitCacheFails(c)
  <2>1. pc[c] \notin Locked /\ pc[c] # "idle" /\ UNCHANGED <<keys, answer, holder, scratch, gpu>>
    BY <1>3, Labels DEF ChoosePath, GetCache, InitCache, InitCacheFails
  <2>2. PICK label \in {"cache", "cpu", "lock", "init"} : Goto(c, label)
    BY <1>3 DEF ChoosePath, GetCache, InitCache, InitCacheFails
  <2>3. label \in PCs \ Locked /\ label # "idle"
    BY Labels DEF PCs
  <2>4. QED
    BY <2>1, <2>2, <2>3, GotoCalls, StepOutside
<1>4. QED
  BY <1>1, <1>2, <1>3

\* While nobody holds the lock, the GPU is idle.
LEMMA LockKeeps == ASSUME A1Inv, NEW c \in Callers, Lock(c) PROVE A1Inv'
<1>1. /\ pc[c] = "lock" /\ holder = NoCaller /\ holder' = c /\ Goto(c, "ensure")
      /\ UNCHANGED <<keys, answer, scratch, gpu>>
  BY DEF Lock
<1>2. gpu.kernel = "none"
  BY <1>1 DEF A1Inv, LockInv, ScratchExclusive
<1>3. CallInv'
  BY <1>1, Labels, GotoCalls DEF PCs
<1>4. /\ pc'[c] = "ensure" /\ \A d \in Callers \ {c} : pc'[d] = pc[d] /\ pc[d] \notin Locked
  BY <1>1, InputAssumption DEF Goto, A1Inv, CallInv, LockInv, ScratchExclusive
<1>5. LockInv'
  BY <1>1, <1>2, <1>4, Labels, InputAssumption DEF A1Inv, LockInv, ScratchExclusive
<1>6. CapacityInv'
  BY <1>1 DEF A1Inv, CapacityInv, CapacityBacked, scratch, capacity, rowBufs, partBufs
<1>7. Inside(c)'
  BY <1>4 DEF Inside, Loaded, CountInv, ScatterInv, BuildInv
<1>8. QED
  BY <1>3, <1>4, <1>5, <1>6, <1>7, OutsideInside DEF A1Inv

-----------------------------------------------------------------------------
\* ensure, and the ways out of the lock.

LEMMA ZerosFacts ==
  \A n \in Nat : /\ DOMAIN Zeros(n) = 0..(n - 1)
                 /\ \A i \in 0..(n - 1) : Zeros(n)[i] = 0
BY DEF Zeros

LEMMA DeclineKeeps ==
  ASSUME A1Inv, NEW c \in Callers, pc[c] \in Locked, Decline(c), CapacityInv',
         gpu' = Idle \/ (gpu' = gpu /\ gpu.kernel = "none")
  PROVE  A1Inv'
<1>1. pc[c] # "idle" /\ "cpu" \in PCs \ Locked
  BY Labels DEF PCs
<1>2. CallInv'
  BY <1>1, GotoCalls, Labels DEF Decline
<1>3. QED
  BY <1>1, <1>2, StepOut DEF Decline

\* Before a commit the GPU is idle.
LEMMA IdleBefore ==
  ASSUME A1Inv, NEW c \in Callers, pc[c] \in {"ensure"} \cup Kernels
  PROVE  pc[c] \in Locked /\ gpu.kernel = "none"
<1>1. pc[c] \in Locked /\ holder = c
  BY Labels DEF A1Inv, LockInv, ScratchExclusive
<1>2. \A k \in Kernels : pc[c] # Waiting(k)
  BY Labels
<1>3. QED
  BY <1>1, <1>2 DEF A1Inv, LockInv, ScratchExclusive

LEMMA EnsurePartsFailsKeeps ==
  ASSUME A1Inv, NEW c \in Callers, EnsurePartsFails(c) PROVE A1Inv'
<1>1. pc[c] = "ensure" /\ NParts > capParts /\ Decline(c)
      /\ UNCHANGED <<capacity, rowBufs, ngPerPart, overflow, gpu>>
  BY DEF EnsurePartsFails
<1>2. capParts = 0
  BY <1>1, PartitionAssumption DEF A1Inv, CapacityInv
<1>3. CapacityInv'
  BY <1>1, <1>2 DEF A1Inv, CapacityInv, CapacityBacked, capacity, rowBufs
<1>4. QED
  BY <1>1, <1>3, IdleBefore, DeclineKeeps

LEMMA EnsureRowsFailsKeeps ==
  ASSUME A1Inv, NEW c \in Callers, EnsureRowsFails(c) PROVE A1Inv'
<1> DEFINE n == NRows(keys[c])
<1>1. pc[c] = "ensure" /\ n > capRows /\ Decline(c) /\ UNCHANGED <<capRows, r2lg, overflow, gpu>>
      /\ capParts' = NParts
  BY DEF EnsureRowsFails
<1>2. n \in Nat /\ capRows \in Nat /\ capParts \in {0, NParts} /\ NParts \in Nat
  BY RowCounts, PartitionAssumption DEF A1Inv, CallInv, CapacityInv
<1>3. /\ keysBuf' \in {Zeros(n), keysBuf} /\ rowIdx' \in {Zeros(n), rowIdx}
      /\ pid' \in {Zeros(n), pid}
  BY DEF EnsureRowsFails
<1>4. \A buf \in {keysBuf', rowIdx', pid', r2lg'} : 0..(capRows' - 1) \subseteq DOMAIN buf
  <2>1. 0..(capRows - 1) \subseteq 0..(n - 1)
    BY <1>1, <1>2
  <2>2. DOMAIN Zeros(n) = 0..(n - 1)
    BY <1>2, ZerosFacts
  <2>3. \A buf \in {keysBuf, rowIdx, pid, r2lg} : 0..(capRows - 1) \subseteq DOMAIN buf
    BY DEF A1Inv, CapacityInv, CapacityBacked
  <2>4. QED
    BY <1>1, <1>3, <2>1, <2>2, <2>3
<1>5. /\ \A buf \in {counts', cursors', ngPerPart'} : 0..(NParts - 1) \subseteq DOMAIN buf
      /\ DOMAIN offsets' = 0..NParts
  <2>1. CASE NParts > capParts
    <3>1. /\ counts' = Zeros(NParts) /\ cursors' = Zeros(NParts) /\ ngPerPart' = Zeros(NParts)
          /\ offsets' = Zeros(NParts + 1)
      BY <2>1 DEF EnsureRowsFails
    <3>2. QED
      BY <1>2, <3>1, ZerosFacts
  <2>2. CASE ~(NParts > capParts)
    <3>1. counts' = counts /\ cursors' = cursors /\ ngPerPart' = ngPerPart /\ offsets' = offsets
      BY <2>2 DEF EnsureRowsFails
    <3>2. capParts = NParts /\ capParts > 0
      BY <1>2, <2>2, PartitionAssumption
    <3>3. QED
      BY <3>1, <3>2 DEF A1Inv, CapacityInv, CapacityBacked
  <2>3. QED
    BY <2>1, <2>2
<1>6. CapacityInv'
  BY <1>1, <1>2, <1>4, <1>5 DEF CapacityInv, CapacityBacked
<1>7. QED
  BY <1>1, <1>6, IdleBefore, DeclineKeeps

LEMMA CommitFailsKeeps == ASSUME A1Inv, NEW c \in Callers, CommitFails(c) PROVE A1Inv'
<1>1. CapacityInv'
  BY DEF A1Inv, CapacityInv, CapacityBacked, CommitFails, scratch, capacity, rowBufs, partBufs
<1>2. QED
  BY <1>1, IdleBefore, DeclineKeeps DEF CommitFails

LEMMA GpuFailsKeeps ==
  ASSUME A1Inv, NEW c \in Callers, GpuFails(c) \/ BuildOverflowed(c) PROVE A1Inv'
<1>1. pc[c] \in Locked /\ gpu' = Idle /\ Decline(c) /\ UNCHANGED scratch
  BY Labels DEF GpuFails, BuildOverflowed
<1>2. CapacityInv'
  BY <1>1 DEF A1Inv, CapacityInv, CapacityBacked, scratch, capacity, rowBufs, partBufs
<1>3. QED
  BY <1>1, <1>2, DeclineKeeps

-----------------------------------------------------------------------------
\* The host steps under the lock.

LEMMA EmptyCounts ==
  ASSUME NEW k, KeyColumn(k), NEW p \in Parts
  PROVE  Cardinality(RowsIn(k, p) \cap {}) = 0
<1>1. RowsIn(k, p) \cap {} = {}
  OBVIOUS
<1>2. QED
  BY <1>1, FS_EmptySet

LEMMA PrepareKeeps == ASSUME A1Inv, NEW c \in Callers, Prepare(c) PROVE A1Inv'
<1> DEFINE n == NRows(keys[c])
<1>1. /\ pc[c] = "ensure" /\ Goto(c, "count") /\ UNCHANGED <<keys, answer, holder, gpu>>
      /\ overflow' = 0 /\ capRows' = IF n > capRows THEN n ELSE capRows
      /\ capParts' = IF NParts > capParts THEN NParts ELSE capParts
      /\ counts' = Zeros(NParts) /\ cursors' = Zeros(NParts)
  BY DEF Prepare
<1>2. n \in Nat /\ capRows \in Nat /\ capParts \in {0, NParts} /\ NParts \in Nat \ {0}
      /\ KeyColumn(keys[c])
  BY RowCounts, PartitionAssumption DEF A1Inv, CallInv, CapacityInv
<1>3. capRows' \in Nat /\ n <= capRows' /\ capParts' = NParts
  BY <1>1, <1>2
<1>4. \A buf \in {rowIdx', pid', r2lg', keysBuf'} : 0..(capRows' - 1) \subseteq DOMAIN buf
  <2>1. CASE n > capRows
    <3>1. rowIdx' = Zeros(n) /\ pid' = Zeros(n) /\ r2lg' = Zeros(n)
          /\ DOMAIN keysBuf' = DOMAIN Zeros(n)
      BY <2>1 DEF Prepare
    <3>2. QED
      BY <1>1, <1>2, <2>1, <3>1, ZerosFacts
  <2>2. CASE ~(n > capRows)
    <3>1. rowIdx' = rowIdx /\ pid' = pid /\ r2lg' = r2lg /\ DOMAIN keysBuf' = DOMAIN keysBuf
      BY <2>2 DEF Prepare
    <3>2. QED
      BY <1>1, <2>2, <3>1 DEF A1Inv, CapacityInv, CapacityBacked
  <2>3. QED
    BY <2>1, <2>2
<1>5. \A r \in DOMAIN keys[c] : keysBuf'[r] = keys[c][r]
  <2>1. DOMAIN keys[c] = 0..(n - 1)
    BY <1>2 DEF KeyColumn
  <2>2. ASSUME NEW r \in DOMAIN keys[c] PROVE r < n /\ r \in DOMAIN keysBuf'
    <3>1. r \in 0..(capRows' - 1) /\ r < n
      BY <1>2, <1>3, <2>1
    <3>2. 0..(capRows' - 1) \subseteq DOMAIN keysBuf'
      BY <1>4
    <3>3. QED
      BY <3>1, <3>2
  <2>3. \A r \in DOMAIN keysBuf' : r < n => keysBuf'[r] = keys[c][r]
    <3>1. CASE n > capRows
      BY <3>1 DEF Prepare
    <3>2. CASE ~(n > capRows)
      BY <3>2 DEF Prepare
    <3>3. QED
      BY <3>1, <3>2
  <2>4. QED
    BY <2>2, <2>3
<1>6. DOMAIN offsets' = 0..NParts /\ 0..(NParts - 1) \subseteq DOMAIN ngPerPart'
  <2>1. CASE NParts > capParts
    <3>1. offsets' = Zeros(NParts + 1) /\ ngPerPart' = Zeros(NParts)
      BY <2>1 DEF Prepare
    <3>2. QED
      BY <1>2, <3>1, ZerosFacts
  <2>2. CASE ~(NParts > capParts)
    <3>1. offsets' = offsets /\ ngPerPart' = ngPerPart
      BY <2>2 DEF Prepare
    <3>2. capParts = NParts /\ capParts > 0
      BY <1>2, <2>2
    <3>3. QED
      BY <3>1, <3>2 DEF A1Inv, CapacityInv, CapacityBacked
  <2>3. QED
    BY <2>1, <2>2
<1>7. CapacityInv'
  BY <1>1, <1>2, <1>3, <1>4, <1>6, ZerosFacts DEF CapacityInv, CapacityBacked
<1>8. pc' \in [Callers -> PCs] /\ pc'[c] = "count" /\ \A d \in Callers \ {c} : pc'[d] = pc[d]
  BY <1>1, Labels DEF Goto, A1Inv, CallInv, PCs
<1>9. Inside(c)'
  <2>1. (Counted(keys[c], {}) /\ NoCursors)'
    BY <1>1, <1>2, EmptyCounts, ZerosFacts DEF Counted, NoCursors, Parts
  <2>2. Loaded(c)'
    BY <1>1, <1>3, <1>5 DEF Loaded
  <2>3. QED
    BY <1>8, <2>1, <2>2 DEF Inside, CountInv, ScatterInv, BuildInv
<1>10. gpu.kernel = "none" /\ pc[c] \in Locked /\ pc'[c] \in Locked
  BY <1>1, <1>8, IdleBefore, Labels
<1>11. QED
  BY <1>1, <1>7, <1>8, <1>9, <1>10, StepInside, Labels DEF A1Inv, LockInv

\* The scratch is untouched by a commit and by the step over a finished kernel.
LEMMA CapacityFrame == CapacityInv /\ UNCHANGED scratch => CapacityInv'
BY DEF CapacityInv, CapacityBacked, scratch, capacity, rowBufs, partBufs

LEMMA CommitKeeps ==
  ASSUME A1Inv, NEW c \in Callers, NEW k \in Kernels, Commit(c, k) PROVE A1Inv'
<1> DEFINE work == IF k = "build" THEN Parts ELSE DOMAIN keys[c]
<1>1. /\ pc[c] = k /\ Goto(c, Waiting(k)) /\ UNCHANGED <<keys, answer, holder, scratch>>
      /\ gpu' = [kernel |-> k, by |-> c, todo |-> work]
  BY DEF Commit
<1>2. KeyColumn(keys[c]) /\ DOMAIN keys[c] \subseteq Nat /\ Parts \subseteq Nat
  <2>1. KeyColumn(keys[c])
    BY DEF A1Inv, CallInv
  <2>2. NRows(keys[c]) \in Nat /\ DOMAIN keys[c] = 0..(NRows(keys[c]) - 1)
    BY <2>1, RowCounts DEF KeyColumn
  <2>3. QED
    BY <2>1, <2>2, PartitionAssumption DEF Parts
<1>3. Waiting(k) \in Locked /\ Waiting(k) \in PCs
  BY Labels DEF PCs
<1>4. pc' \in [Callers -> PCs] /\ pc'[c] = Waiting(k) /\ \A d \in Callers \ {c} : pc'[d] = pc[d]
  BY <1>1, <1>3 DEF Goto, A1Inv, CallInv
<1>5. CapacityInv'
  BY <1>1, CapacityFrame DEF A1Inv
<1>6. gpu' \in [kernel : Kernels \cup {"none"}, todo : SUBSET Nat, by : Callers \cup {NoCaller}]
      /\ gpu'.kernel = k /\ gpu'.by = c /\ gpu'.todo = work
  BY <1>1, <1>2
<1>7. Loaded(c)'
  BY <1>1, Labels DEF A1Inv, Inside, Loaded, scratch, capacity, rowBufs
<1>8. Counted(keys[c], {})' = Counted(keys[c], {}) /\ NoCursors' = NoCursors
      /\ Sliced(keys[c])' = Sliced(keys[c])
  BY <1>1 DEF Counted, NoCursors, Sliced, scratch, partBufs
<1>9. CountInv(c)' /\ ScatterInv(c)' /\ BuildInv(c)'
  <2>1. CASE k = "count"
    <3>1. (Counted(keys[c], {}) /\ NoCursors)'
      BY <1>1, <1>8, <2>1 DEF A1Inv, Inside, CountInv
    <3>2. pc'[c] = "countWait" /\ DOMAIN keys'[c] \ gpu'.todo = {} /\ gpu'.todo \subseteq DOMAIN keys'[c]
      BY <1>1, <1>4, <1>6, <2>1, Labels
    <3>3. QED
      BY <3>1, <3>2 DEF CountInv, ScatterInv, BuildInv
  <2>2. CASE k = "scatter"
    <3>1. (Sliced(keys[c]) /\ NoCursors)'
      BY <1>1, <1>8, <2>2 DEF A1Inv, Inside, ScatterInv
    <3>2. pc'[c] = "scatterWait" /\ DOMAIN keys'[c] \ gpu'.todo = {} /\ gpu'.todo \subseteq DOMAIN keys'[c]
      BY <1>1, <1>4, <1>6, <2>2, Labels
    <3>3. Scattered(keys[c], {})'
      <4>1. \A p \in Parts : cursors'[p] = Cardinality(RowsIn(keys'[c], p) \cap {})
        BY <1>1, <1>2, <3>1, EmptyCounts DEF NoCursors
      <4>2. \A p \in Parts : offsets'[p] \in Nat
        <5>1. \A p \in Nat : Cardinality(RowsBelow(keys[c], p)) \in Nat
          BY <1>2, RowCounts
        <5>2. Parts \subseteq Nat /\ Parts \subseteq 0..NParts
          BY PartitionAssumption DEF Parts
        <5>3. \A p \in 0..NParts : offsets'[p] = Cardinality(RowsBelow(keys[c], p))
          BY <1>8, <1>1, <3>1 DEF Sliced
        <5>4. QED
          BY <5>1, <5>2, <5>3
      <4>3. \A p \in Parts : Filled(p)' = {}
        BY <3>1, <4>2 DEF NoCursors, Filled
      <4>4. QED
        BY <4>1, <4>3 DEF Scattered
    <3>4. QED
      BY <3>1, <3>2, <3>3 DEF CountInv, ScatterInv, BuildInv
  <2>3. CASE k = "build"
    <3>1. Sliced(keys[c])' /\ Scattered(keys[c], DOMAIN keys[c])'
      BY <1>1, <1>8, <2>3
      DEF A1Inv, Inside, BuildInv, Scattered, Filled, scratch, partBufs, rowBufs
    <3>2. pc'[c] = "buildWait" /\ gpu'.todo = Parts /\ keys' = keys
      BY <1>1, <1>4, <1>6, <2>3, Labels
    <3>3. QED
      BY <3>1, <3>2 DEF CountInv, ScatterInv, BuildInv
  <2>4. QED
    BY <2>1, <2>2, <2>3, Labels
<1>10. Inside(c)'
  BY <1>7, <1>9 DEF Inside
<1>11. \A j \in Kernels : pc'[c] = Waiting(j) => gpu'.kernel = j
  BY <1>4, <1>6, Labels
<1>12. pc[c] \in Locked /\ pc'[c] \in Locked /\ gpu'.kernel # "none"
  BY <1>1, <1>3, <1>4, <1>6, Labels
<1>13. QED
  BY <1>1, <1>4, <1>5, <1>6, <1>10, <1>11, <1>12, StepInside

\* The rows done are all rows when nothing is left.
LEMMA CountDoneKeeps == ASSUME A1Inv, NEW c \in Callers, CountDone(c) PROVE A1Inv'
<1> DEFINE k == keys[c]
<1>1. /\ pc[c] = "countWait" /\ gpu.todo = {} /\ gpu' = Idle /\ Goto(c, "scatter")
      /\ offsets' = ExclusiveScan(counts)
      /\ UNCHANGED <<keys, answer, holder, capRows, capParts, keysBuf, rowIdx, pid, r2lg,
                     counts, cursors, ngPerPart, overflow>>
  BY DEF CountDone, capacity, rowBufs
<1>2. KeyColumn(k) /\ pc[c] \in Locked
  BY <1>1, Labels DEF A1Inv, CallInv
<1>3. /\ pc' \in [Callers -> PCs] /\ pc'[c] = "scatter" /\ pc'[c] \in Locked
      /\ \A d \in Callers \ {c} : pc'[d] = pc[d]
  BY <1>1, Labels DEF Goto, A1Inv, CallInv, PCs
<1>4. capParts = NParts /\ Loaded(c) /\ NoCursors /\ Counted(k, DOMAIN k \ {})
  BY <1>1, <1>2, Labels DEF A1Inv, Inside, Loaded, CountInv
<1>5. \A p \in Parts : counts[p] = Cardinality(RowsIn(k, p))
  <2>1. \A p \in Parts : RowsIn(k, p) \cap (DOMAIN k \ {}) = RowsIn(k, p)
    BY DEF RowsIn
  <2>2. QED
    BY <1>4, <2>1 DEF Counted
<1>6. Sliced(k)'
  BY <1>1, <1>2, <1>5, ScanOfCounts DEF Sliced
<1>7. \A p \in Parts : counts[p] \in Nat
  <2>1. \A p \in Nat : Cardinality(RowsIn(k, p)) \in Nat
    BY <1>2, RowCounts
  <2>2. QED
    BY <1>5, <2>1, PartitionAssumption DEF Parts
<1>8. DOMAIN offsets' = 0..NParts
  BY <1>1, <1>7, ScanFacts
<1>9. CapacityInv'
  BY <1>1, <1>4, <1>8, PartitionAssumption DEF A1Inv, CapacityInv, CapacityBacked
<1>10. Inside(c)'
  <2>1. Loaded(c)' /\ NoCursors'
    BY <1>1, <1>2, <1>3, <1>4, Labels DEF Loaded, NoCursors
  <2>2. QED
    BY <1>1, <1>3, <1>6, <2>1 DEF Inside, CountInv, ScatterInv, BuildInv
<1>11. gpu' \in [kernel : Kernels \cup {"none"}, todo : SUBSET Nat, by : Callers \cup {NoCaller}]
       /\ gpu'.kernel = "none" /\ gpu'.todo = {}
  BY <1>1 DEF Idle
<1>12. \A j \in Kernels : pc'[c] # Waiting(j)
  BY <1>3, Labels
<1>13. QED
  BY <1>1, <1>2, <1>3, <1>9, <1>10, <1>11, <1>12, StepInside

LEMMA ScatterDoneKeeps == ASSUME A1Inv, NEW c \in Callers, ScatterDone(c) PROVE A1Inv'
<1> DEFINE k == keys[c]
<1>1. /\ pc[c] = "scatterWait" /\ gpu.todo = {} /\ gpu' = Idle /\ Goto(c, "build")
      /\ UNCHANGED <<keys, answer, holder, scratch>>
  BY DEF ScatterDone
<1>2. pc[c] \in Locked
  BY <1>1, Labels
<1>3. /\ pc' \in [Callers -> PCs] /\ pc'[c] = "build" /\ pc'[c] \in Locked
      /\ \A d \in Callers \ {c} : pc'[d] = pc[d]
  BY <1>1, Labels DEF Goto, A1Inv, CallInv, PCs
<1>4. Loaded(c) /\ Sliced(k) /\ Scattered(k, DOMAIN k)
  <2>1. DOMAIN k \ gpu.todo = DOMAIN k
    BY <1>1
  <2>2. QED
    BY <1>1, <2>1 DEF A1Inv, Inside, ScatterInv
<1>5. Inside(c)'
  <2>1. Loaded(c)'
    BY <1>1, <1>2, <1>3, <1>4, Labels DEF Loaded, scratch, capacity, rowBufs
  <2>2. Sliced(k)' /\ Scattered(k, DOMAIN k)'
    BY <1>1, <1>4 DEF Sliced, Scattered, Filled, scratch, rowBufs, partBufs
  <2>3. QED
    BY <1>1, <1>3, <2>1, <2>2 DEF Inside, CountInv, ScatterInv, BuildInv
<1>6. CapacityInv'
  BY <1>1, CapacityFrame DEF A1Inv
<1>7. gpu' \in [kernel : Kernels \cup {"none"}, todo : SUBSET Nat, by : Callers \cup {NoCaller}]
       /\ gpu'.kernel = "none" /\ gpu'.todo = {}
  BY <1>1 DEF Idle
<1>8. \A j \in Kernels : pc'[c] # Waiting(j)
  BY <1>3, Labels
<1>9. QED
  BY <1>1, <1>2, <1>3, <1>5, <1>6, <1>7, <1>8, StepInside

LEMMA BuildDoneKeeps == ASSUME A1Inv, NEW c \in Callers, BuildDone(c) PROVE A1Inv'
<1>1. /\ pc[c] = "buildWait" /\ gpu' = Idle /\ holder' = NoCaller /\ UNCHANGED scratch
      /\ \E f, n, first : Answer(c, Output(f, n, first))
  BY DEF BuildDone
<1>2. pc[c] \in Locked
  BY <1>1, Labels
<1>3. CapacityInv'
  BY <1>1, CapacityFrame DEF A1Inv
<1>4. QED
  BY <1>1, <1>2, <1>3, AnswerCalls, StepOut

-----------------------------------------------------------------------------
\* The kernels.

\* A kernel runs for the caller that waits for it, on that caller's rows.
LEMMA KernelCaller ==
  ASSUME A1Inv, gpu.kernel \in Kernels
  PROVE  \E c \in Callers :
           /\ pc[c] = Waiting(gpu.kernel) /\ pc[c] \in Locked /\ gpu.by = c
           /\ KeyColumn(keys[c]) /\ capParts = NParts
           /\ NRows(keys[c]) <= capRows
           /\ \A r \in DOMAIN keys[c] : keysBuf[r] = keys[c][r]
           /\ DOMAIN keys[c] \subseteq 0..(capRows - 1)
<1> DEFINE c == holder
<1>1. gpu.kernel # "none"
  BY Labels
<1>2. c \in Callers /\ gpu.by = c /\ pc[c] = Waiting(gpu.kernel)
  BY <1>1 DEF A1Inv, LockInv, ScratchExclusive
<1>3. pc[c] \in Locked \ {"ensure"}
  BY <1>2, Labels
<1>4. Loaded(c) /\ KeyColumn(keys[c]) /\ capRows \in Nat
  BY <1>2 DEF A1Inv, Inside, CallInv, CapacityInv
<1>5. NRows(keys[c]) <= capRows /\ capParts = NParts
      /\ \A r \in DOMAIN keys[c] : keysBuf[r] = keys[c][r]
  BY <1>3, <1>4 DEF Loaded
<1>6. DOMAIN keys[c] \subseteq 0..(capRows - 1)
  <2>1. DOMAIN keys[c] = 0..(NRows(keys[c]) - 1) /\ NRows(keys[c]) \in Nat
    BY <1>4, RowCounts DEF KeyColumn
  <2>2. QED
    BY <1>4, <1>5, <2>1
<1>7. QED
  BY <1>2, <1>3, <1>4, <1>5, <1>6

\* A kernel step leaves the callers alone.
LEMMA KernelStep ==
  ASSUME A1Inv, NEW c \in Callers, pc[c] = Waiting(gpu.kernel), gpu.kernel \in Kernels,
         gpu.by = c, UNCHANGED <<perCaller, holder>>, NEW i, Finish(i), CapacityInv', Inside(c)'
  PROVE  A1Inv'
<1>1. gpu' \in [kernel : Kernels \cup {"none"}, todo : SUBSET Nat, by : Callers \cup {NoCaller}]
      /\ gpu'.kernel = gpu.kernel /\ gpu'.by = gpu.by /\ gpu'.kernel # "none"
  BY Labels DEF Finish, A1Inv, LockInv
<1>2. pc' = pc /\ UNCHANGED <<keys, answer, holder>> /\ pc \in [Callers -> PCs]
  BY DEF perCaller, A1Inv, CallInv
<1>3. pc[c] \in Locked /\ \A k \in Kernels : pc[c] = Waiting(k) => k = gpu.kernel
  BY Labels
<1>4. QED
  BY <1>1, <1>2, <1>3, StepInside

\* One more row done adds one row to its own partition.
LEMMA OneMoreRow ==
  ASSUME NEW k, KeyColumn(k), NEW todo, NEW r \in DOMAIN k, r \in todo
  PROVE  \A p \in Parts :
           /\ Cardinality(RowsIn(k, p) \cap (DOMAIN k \ todo)) \in Nat
           /\ Cardinality(RowsIn(k, p) \cap (DOMAIN k \ (todo \ {r})))
                = Cardinality(RowsIn(k, p) \cap (DOMAIN k \ todo))
                    + IF p = Part[k[r]] THEN 1 ELSE 0
<1> TAKE p \in Parts
<1> DEFINE now == RowsIn(k, p) \cap (DOMAIN k \ todo)
           then == RowsIn(k, p) \cap (DOMAIN k \ (todo \ {r}))
<1>1. IsFiniteSet(RowsIn(k, p)) /\ now \in SUBSET RowsIn(k, p)
  BY RowCounts, PartitionAssumption DEF Parts
<1>2. IsFiniteSet(now)
  BY <1>1, FS_Subset
<1>3. Cardinality(now) \in Nat
  BY <1>2, FS_CardinalityType
<1>4. CASE p = Part[k[r]]
  <2>1. then = now \cup {r} /\ r \notin now
    BY <1>4 DEF RowsIn
  <2>2. QED
    BY <1>2, <1>3, <1>4, <2>1, FS_AddElement
<1>5. CASE p # Part[k[r]]
  <2>1. then = now
    BY <1>5 DEF RowsIn
  <2>2. QED
    BY <1>3, <1>5, <2>1
<1>6. QED
  BY <1>4, <1>5

LEMMA CountRowKeeps == ASSUME A1Inv, NEW r, CountRow(r) PROVE A1Inv'
<1>1. /\ gpu.kernel = "count" /\ r \in gpu.todo /\ Finish(r)
      /\ counts' = [counts EXCEPT ![Part[keysBuf[r]]] = @ + 1]
      /\ UNCHANGED <<perCaller, holder, capRows, capParts, keysBuf, rowIdx, pid, r2lg,
                     cursors, offsets, ngPerPart, overflow>>
  BY DEF CountRow, capacity, rowBufs
<1>2. PICK c \in Callers :
           /\ pc[c] = "countWait" /\ pc[c] \in Locked /\ gpu.by = c
           /\ KeyColumn(keys[c]) /\ capParts = NParts
           /\ \A q \in DOMAIN keys[c] : keysBuf[q] = keys[c][q]
  BY <1>1, KernelCaller, Labels
<1> DEFINE k == keys[c]
           p == Part[k[r]]
<1>3. gpu.todo \subseteq DOMAIN k /\ Counted(k, DOMAIN k \ gpu.todo) /\ NoCursors /\ Loaded(c)
  BY <1>2 DEF A1Inv, Inside, CountInv
<1>4. r \in DOMAIN k /\ Part[keysBuf[r]] = p /\ p \in Parts /\ Parts \subseteq DOMAIN counts
  <2>1. r \in DOMAIN k /\ Part[keysBuf[r]] = p
    BY <1>1, <1>2, <1>3
  <2>2. p \in Parts
    BY <1>2, <2>1, RowCounts
  <2>3. QED
    BY <1>2, <2>1, <2>2 DEF A1Inv, CapacityInv, CapacityBacked, Parts
<1>5. gpu'.todo = gpu.todo \ {r} /\ keys' = keys /\ pc' = pc
  BY <1>1 DEF Finish, A1Inv, LockInv, perCaller
<1>6. Counted(k, DOMAIN k \ (gpu.todo \ {r}))'
  <2>1. ASSUME NEW q \in Parts
        PROVE  counts'[q] = Cardinality(RowsIn(k, q) \cap (DOMAIN k \ (gpu.todo \ {r})))
    <3>1. KeyColumn(k) /\ r \in DOMAIN k /\ r \in gpu.todo
      BY <1>1, <1>2, <1>4
    <3> DEFINE now == Cardinality(RowsIn(k, q) \cap (DOMAIN k \ gpu.todo))
    <3>2. now \in Nat /\ Cardinality(RowsIn(k, q) \cap (DOMAIN k \ (gpu.todo \ {r})))
                          = now + IF q = p THEN 1 ELSE 0
      BY <3>1, OneMoreRow
    <3>3. counts[q] = now
      BY <1>3 DEF Counted
    <3> HIDE DEF now, p
    <3>4. counts'[q] = counts[q] + IF q = p THEN 1 ELSE 0
      BY <1>1, <1>4, <3>2, <3>3
    <3>5. QED
      BY <3>2, <3>3, <3>4
  <2>2. QED
    BY <1>5, <2>1 DEF Counted
<1>7. Inside(c)'
  <2>1. Loaded(c)' /\ NoCursors'
    BY <1>1, <1>3, <1>5 DEF Loaded, NoCursors
  <2>2. gpu'.todo \subseteq DOMAIN k /\ pc'[c] = "countWait"
    BY <1>2, <1>3, <1>5
  <2>3. Counted(keys[c], DOMAIN keys[c] \ gpu.todo)'
    BY <1>5, <1>6 DEF Counted
  <2>4. QED
    BY <1>5, <2>1, <2>2, <2>3 DEF Inside, CountInv, ScatterInv, BuildInv
<1>8. CapacityInv'
  BY <1>1 DEF A1Inv, CapacityInv, CapacityBacked
<1>9. QED
  BY <1>1, <1>2, <1>7, <1>8, KernelStep, Labels

\* Where the scatter kernel writes: the cursors of a partition stay within its slice, and
\* the slices follow each other up to the number of rows.
LEMMA SliceBounds ==
  ASSUME NEW k, KeyColumn(k), Sliced(k), NEW p \in Parts
  PROVE  /\ offsets[p] \in Nat /\ offsets[p + 1] \in Nat
         /\ offsets[p + 1] = offsets[p] + Cardinality(RowsIn(k, p))
         /\ offsets[p + 1] <= NRows(k)
         /\ \A q \in Parts : p < q => offsets[q] \in Nat /\ offsets[p + 1] <= offsets[q]
         /\ \A q \in Parts : q < p => offsets[q + 1] \in Nat /\ offsets[q + 1] <= offsets[p]
<1> USE PartitionAssumption
<1> DEFINE below(q) == Cardinality(RowsBelow(k, q))
<1>1. p \in Nat /\ p \in 0..NParts /\ p + 1 \in 0..NParts /\ p + 1 \in Nat /\ p + 1 <= NParts
  BY DEF Parts
<1>2. \A q \in 0..NParts : offsets[q] = below(q)
  BY DEF Sliced
<1>3. /\ \A q \in Nat : below(q) \in Nat
      /\ \A q \in Nat : below(q + 1) = below(q) + Cardinality(RowsIn(k, q))
      /\ \A q, s \in Nat : q <= s => below(q) <= below(s)
      /\ below(NParts) = NRows(k)
  BY RowCounts
<1> HIDE DEF below
<1>4. ASSUME NEW q \in Parts, p < q PROVE offsets[q] \in Nat /\ offsets[p + 1] <= offsets[q]
  <2>1. q \in Nat /\ q \in 0..NParts /\ p + 1 <= q
    BY <1>1, <1>4 DEF Parts
  <2>2. QED
    BY <1>1, <1>2, <1>3, <2>1
<1>5. ASSUME NEW q \in Parts, q < p PROVE offsets[q + 1] \in Nat /\ offsets[q + 1] <= offsets[p]
  <2>1. q + 1 \in Nat /\ q + 1 \in 0..NParts /\ q + 1 <= p
    BY <1>1, <1>5 DEF Parts
  <2>2. QED
    BY <1>1, <1>2, <1>3, <2>1
<1>6. QED
  BY <1>1, <1>2, <1>3, <1>4, <1>5

\* A row still to be scattered leaves room in its slice; no cursor leaves its slice.
LEMMA CursorBounds ==
  ASSUME NEW k, KeyColumn(k), NEW todo, NEW r \in DOMAIN k, r \in todo, NEW q \in Parts
  PROVE  LET done == Cardinality(RowsIn(k, q) \cap (DOMAIN k \ todo))
         IN  /\ done \in Nat /\ done <= Cardinality(RowsIn(k, q))
             /\ q = Part[k[r]] => done < Cardinality(RowsIn(k, q))
<1> DEFINE now == RowsIn(k, q) \cap (DOMAIN k \ todo)
<1>0. q \in Nat
  BY PartitionAssumption DEF Parts
<1>1. IsFiniteSet(RowsIn(k, q)) /\ Cardinality(RowsIn(k, q)) \in Nat /\ now \in SUBSET RowsIn(k, q)
  BY <1>0, RowCounts
<1>2. /\ IsFiniteSet(now) /\ Cardinality(now) <= Cardinality(RowsIn(k, q))
      /\ Cardinality(now) = Cardinality(RowsIn(k, q)) => now = RowsIn(k, q)
  BY <1>1, FS_Subset
<1>3. Cardinality(now) \in Nat
  BY <1>2, FS_CardinalityType
<1>4. q = Part[k[r]] => now # RowsIn(k, q)
  BY DEF RowsIn
<1> HIDE DEF now
<1>5. QED
  BY <1>1, <1>2, <1>3, <1>4 DEF now

LEMMA ScatterRowKeeps == ASSUME A1Inv, NEW r, ScatterRow(r) PROVE A1Inv'
<1>1. /\ gpu.kernel = "scatter" /\ r \in gpu.todo /\ Finish(r)
      /\ UNCHANGED <<perCaller, holder, capRows, capParts, keysBuf, r2lg,
                     counts, offsets, ngPerPart, overflow>>
  BY DEF ScatterRow, capacity
<1>2. PICK c \in Callers :
           /\ pc[c] = "scatterWait" /\ pc[c] \in Locked /\ gpu.by = c
           /\ KeyColumn(keys[c]) /\ capParts = NParts
           /\ NRows(keys[c]) <= capRows
           /\ \A q \in DOMAIN keys[c] : keysBuf[q] = keys[c][q]
           /\ DOMAIN keys[c] \subseteq 0..(capRows - 1)
  BY <1>1, KernelCaller, Labels
<1>k. PICK k : k = keys[c]
  OBVIOUS
<1>p. PICK p : p = Part[k[r]]
  OBVIOUS
<1>s. PICK slot : slot = offsets[p] + cursors[p]
  OBVIOUS
<1> DEFINE done(q) == Cardinality(RowsIn(k, q) \cap (DOMAIN k \ gpu.todo))
<1>3. gpu.todo \subseteq DOMAIN k /\ Sliced(k) /\ Scattered(k, DOMAIN k \ gpu.todo) /\ Loaded(c)
  BY <1>2, <1>k DEF A1Inv, Inside, ScatterInv
<1>4. r \in DOMAIN k /\ Part[keysBuf[r]] = p /\ p \in Parts
  <2>1. r \in DOMAIN k /\ Part[keysBuf[r]] = p
    BY <1>1, <1>2, <1>3, <1>k, <1>p
  <2>2. QED
    BY <1>2, <1>k, <1>p, <2>1, RowCounts
<1>5. /\ cursors' = [cursors EXCEPT ![p] = @ + 1]
      /\ rowIdx' = [rowIdx EXCEPT ![slot] = r]
      /\ pid' = [pid EXCEPT ![r] = p]
  BY <1>4, <1>s DEF ScatterRow
<1>6. gpu'.todo = gpu.todo \ {r} /\ keys' = keys /\ pc' = pc
  BY <1>1 DEF Finish, A1Inv, LockInv, perCaller
<1>7. ASSUME NEW q \in Parts
      PROVE  /\ cursors[q] = done(q) /\ done(q) \in Nat
             /\ offsets[q] \in Nat /\ offsets[q + 1] \in Nat
             /\ offsets[q] + cursors[q] <= offsets[q + 1] /\ offsets[q + 1] <= NRows(k)
             /\ q = p => offsets[q] + cursors[q] < offsets[q + 1]
             /\ Cardinality(RowsIn(k, q) \cap (DOMAIN k \ (gpu.todo \ {r})))
                  = done(q) + IF q = p THEN 1 ELSE 0
  <2>1. cursors[q] = done(q)
    BY <1>3 DEF Scattered
  <2>2. KeyColumn(k) /\ r \in DOMAIN k /\ r \in gpu.todo
    BY <1>1, <1>2, <1>4, <1>k
  <2>3. done(q) \in Nat /\ Cardinality(RowsIn(k, q) \cap (DOMAIN k \ (gpu.todo \ {r})))
                             = done(q) + IF q = p THEN 1 ELSE 0
    BY <1>p, <2>2, OneMoreRow, ZenonT(60)
  <2>4. done(q) <= Cardinality(RowsIn(k, q)) /\ (q = p => done(q) < Cardinality(RowsIn(k, q)))
    BY <1>p, <2>2, CursorBounds
  <2>5. /\ offsets[q] \in Nat /\ offsets[q + 1] \in Nat /\ offsets[q + 1] <= NRows(k)
        /\ offsets[q + 1] = offsets[q] + Cardinality(RowsIn(k, q))
    BY <1>3, <2>2, SliceBounds
  <2>6. Cardinality(RowsIn(k, q)) \in Nat
    <3>1. q \in Nat
      BY PartitionAssumption DEF Parts
    <3>2. QED
      BY <2>2, <3>1, RowCounts
  <2> HIDE DEF done
  <2>7. QED
    BY <2>1, <2>3, <2>4, <2>5, <2>6
<1> HIDE DEF done
<1>7a. /\ offsets[p] \in Nat /\ cursors[p] \in Nat /\ offsets[p + 1] \in Nat
       /\ slot = offsets[p] + cursors[p] /\ slot < offsets[p + 1] /\ offsets[p + 1] <= NRows(k)
  BY <1>4, <1>7, <1>s
<1>8. slot \in Nat /\ slot \in DOMAIN rowIdx /\ r \in DOMAIN pid /\ Parts \subseteq DOMAIN cursors
  <2>1. slot \in 0..(capRows - 1)
    <3>1. slot \in Nat /\ slot < NRows(k) /\ NRows(k) \in Nat
      <4>1. NRows(k) \in Nat
        BY <1>2, <1>k, RowCounts
      <4>2. QED
        BY <1>7a, <4>1
    <3>2. capRows \in Nat
      BY DEF A1Inv, CapacityInv
    <3>3. QED
      BY <1>2, <1>k, <3>1, <3>2
  <2>2. r \in 0..(capRows - 1)
    BY <1>2, <1>4, <1>k
  <2>3. /\ 0..(capRows - 1) \subseteq DOMAIN rowIdx /\ 0..(capRows - 1) \subseteq DOMAIN pid
        /\ Parts \subseteq DOMAIN cursors
    BY <1>2 DEF A1Inv, CapacityInv, CapacityBacked, Parts
  <2>4. QED
    BY <2>1, <2>2, <2>3
<1>9. ASSUME NEW q \in Parts PROVE \A i \in Filled(q) : i # slot
  <2>0. offsets[q] \in Nat /\ cursors[q] \in Nat /\ offsets[q + 1] \in Nat
        /\ offsets[q] + cursors[q] <= offsets[q + 1]
    BY <1>7
  <2>1. CASE q = p
    BY <1>7a, <2>1 DEF Filled
  <2>2. CASE q # p
    <3>1. q < p \/ p < q
      BY <1>4, <2>2, PartitionAssumption DEF Parts
    <3>2. CASE q < p
      <4>1. offsets[q + 1] <= offsets[p]
        BY <1>2, <1>3, <1>4, <1>k, <3>2, SliceBounds
      <4>2. QED
        BY <1>7a, <2>0, <4>1 DEF Filled
    <3>3. CASE p < q
      <4>1. offsets[p + 1] <= offsets[q]
        BY <1>2, <1>3, <1>4, <1>k, <3>3, SliceBounds
      <4>2. QED
        BY <1>7a, <2>0, <4>1 DEF Filled
    <3>4. QED
      BY <3>1, <3>2, <3>3
  <2>3. QED
    BY <2>1, <2>2
<1>10. ASSUME NEW q \in Parts
       PROVE  Filled(q)' = Filled(q) \cup (IF q = p THEN {slot} ELSE {})
  <2>1. CASE q = p
    <3>1. cursors'[q] = cursors[q] + 1 /\ offsets' = offsets
      BY <1>1, <1>5, <1>8, <2>1
    <3>2. QED
      BY <1>7a, <2>1, <3>1 DEF Filled
  <2>2. CASE q # p
    BY <1>1, <1>5, <1>8, <2>2 DEF Filled
  <2>3. QED
    BY <2>1, <2>2
<1>11. Scattered(k, DOMAIN k \ (gpu.todo \ {r}))'
  <2> DEFINE rows == DOMAIN k \ (gpu.todo \ {r})
  <2>1. ASSUME NEW q \in Parts PROVE cursors'[q] = Cardinality(RowsIn(k, q) \cap rows)
    <3>1. cursors'[q] = cursors[q] + IF q = p THEN 1 ELSE 0
      <4>1. cursors[q] \in Nat
        BY <1>7
      <4>2. QED
        BY <1>4, <1>5, <1>8, <4>1
    <3>2. QED
      BY <1>7, <3>1
  <2>2. ASSUME NEW q \in Parts, NEW i \in Filled(q)' PROVE rowIdx'[i] \in RowsIn(k, q) \cap rows
    <3>1. CASE i \in Filled(q)
      <4>1. rowIdx'[i] = rowIdx[i]
        BY <1>5, <1>9, <3>1
      <4>2. rowIdx[i] \in RowsIn(k, q) \cap (DOMAIN k \ gpu.todo)
        BY <1>3, <3>1 DEF Scattered
      <4>3. QED
        BY <4>1, <4>2
    <3>2. CASE i = slot /\ q = p
      <4>1. rowIdx'[i] = r
        BY <1>5, <1>8, <3>2
      <4>2. QED
        BY <1>4, <1>p, <3>2, <4>1 DEF RowsIn
    <3>3. QED
      BY <1>10, <3>1, <3>2
  <2>3. ASSUME NEW s \in rows
        PROVE  pid'[s] = Part[k[s]] /\ \E i \in Filled(Part[k[s]])' : rowIdx'[i] = s
    <3>1. CASE s = r
      <4>1. slot \in Filled(p)' /\ rowIdx'[slot] = r /\ pid'[r] = p
        <5>1. Filled(p)' = Filled(p) \cup {slot}
          BY <1>4, <1>10
        <5>2. QED
          BY <1>5, <1>8, <5>1
      <4>2. QED
        BY <1>p, <3>1, <4>1
    <3>2. CASE s # r
      <4>1. s \in DOMAIN k \ gpu.todo /\ Part[k[s]] \in Parts
        BY <1>2, <1>k, <3>2, RowCounts
      <4>2. pid[s] = Part[k[s]] /\ \E i \in Filled(Part[k[s]]) : rowIdx[i] = s
        BY <1>3, <4>1 DEF Scattered
      <4>3. pid'[s] = pid[s]
        BY <1>5, <3>2
      <4>4. \A i \in Filled(Part[k[s]]) : i \in Filled(Part[k[s]])' /\ rowIdx'[i] = rowIdx[i]
        <5>1. PICK q : q = Part[k[s]]
          OBVIOUS
        <5>2. q \in Parts
          BY <4>1, <5>1
        <5>3. \A i \in Filled(q) : i # slot /\ i \in Filled(q)'
          BY <1>9, <1>10, <5>2
        <5>4. \A i \in Filled(q) : i \in Filled(q)' /\ rowIdx'[i] = rowIdx[i]
          BY <1>5, <5>3
        <5>5. QED
          BY <5>1, <5>4
      <4>5. QED
        BY <4>2, <4>3, <4>4
    <3>3. QED
      BY <3>1, <3>2
  <2>4. QED
    BY <1>6, <2>1, <2>2, <2>3 DEF Scattered
<1>12. Inside(c)'
  <2>1. Loaded(c)' /\ Sliced(keys[c])'
    BY <1>1, <1>3, <1>6, <1>k DEF Loaded, Sliced
  <2>2. gpu'.todo \subseteq DOMAIN k /\ pc'[c] = "scatterWait"
    BY <1>2, <1>3, <1>6
  <2>3. Scattered(keys[c], DOMAIN keys[c] \ gpu.todo)'
    BY <1>6, <1>11, <1>k DEF Scattered
  <2>4. QED
    BY <1>6, <1>k, <2>1, <2>2, <2>3 DEF Inside, CountInv, ScatterInv, BuildInv
<1>13. CapacityInv'
  BY <1>1, <1>5 DEF A1Inv, CapacityInv, CapacityBacked
<1>14. QED
  BY <1>1, <1>2, <1>12, <1>13, KernelStep, Labels

\* After the scatter a partition's slice holds the rows of the partition, all of them.
LEMMA SliceIsPartition ==
  ASSUME NEW k, KeyColumn(k), Sliced(k), Scattered(k, DOMAIN k), NEW p \in Parts
  PROVE  /\ Slice(p) = RowsIn(k, p)
         /\ Filled(p) = offsets[p]..(offsets[p + 1] - 1)
<1>1. RowsIn(k, p) \cap DOMAIN k = RowsIn(k, p)
  BY DEF RowsIn
<1>2. cursors[p] = Cardinality(RowsIn(k, p))
  BY <1>1 DEF Scattered
<1>3. offsets[p] \in Nat /\ offsets[p + 1] = offsets[p] + cursors[p] /\ cursors[p] \in Nat
  <2>1. p \in Nat
    BY PartitionAssumption DEF Parts
  <2>2. QED
    BY <1>2, <2>1, SliceBounds, RowCounts
<1>4. Filled(p) = offsets[p]..(offsets[p + 1] - 1)
  BY <1>3 DEF Filled
<1>5. Slice(p) = {rowIdx[i] : i \in Filled(p)}
  BY <1>4 DEF Slice
<1>6. \A i \in Filled(p) : rowIdx[i] \in RowsIn(k, p)
  BY DEF Scattered
<1>7. \A r \in RowsIn(k, p) : \E i \in Filled(p) : rowIdx[i] = r
  BY DEF Scattered, RowsIn
<1>8. QED
  BY <1>4, <1>5, <1>6, <1>7

\* A threadgroup writes only the rows of its own partition.
LEMMA GroupedElsewhere ==
  ASSUME NEW k, NEW p \in Parts, NEW q \in Parts, p # q, Grouped(k, q),
         \A r \in RowsIn(k, q) : r2lg'[r] = r2lg[r], ngPerPart'[q] = ngPerPart[q]
  PROVE  Grouped(k, q)'
<1>1. [r \in RowsIn(k, q) |-> r2lg'[r]] = [r \in RowsIn(k, q) |-> r2lg[r]]
  OBVIOUS
<1>2. QED
  BY <1>1 DEF Grouped

LEMMA BuildKernelKeeps ==
  ASSUME A1Inv, NEW p, BuildPartition(p) \/ OverflowPartition(p) PROVE A1Inv'
<1>1. /\ gpu.kernel = "build" /\ p \in gpu.todo /\ Finish(p)
      /\ UNCHANGED <<perCaller, holder, capRows, capParts, keysBuf, rowIdx, pid,
                     counts, cursors, offsets>>
  BY DEF BuildPartition, OverflowPartition, capacity, partBufs
<1>2. PICK c \in Callers :
           /\ pc[c] = "buildWait" /\ pc[c] \in Locked /\ gpu.by = c
           /\ KeyColumn(keys[c]) /\ capParts = NParts
           /\ \A r \in DOMAIN keys[c] : keysBuf[r] = keys[c][r]
           /\ DOMAIN keys[c] \subseteq 0..(capRows - 1)
  BY <1>1, KernelCaller, Labels
<1>3. PICK k : k = keys[c]
  OBVIOUS
<1>4. /\ gpu.todo \subseteq Parts /\ Sliced(k) /\ Scattered(k, DOMAIN k) /\ Loaded(c)
      /\ overflow \in {0, 1}
      /\ overflow = 0 => \A q \in Parts \ gpu.todo : Grouped(k, q)
  BY <1>2, <1>3, Labels DEF A1Inv, Inside, BuildInv, Loaded
<1>5. p \in Parts /\ Slice(p) = RowsIn(k, p) /\ KeyColumn(k)
  BY <1>1, <1>2, <1>3, <1>4, SliceIsPartition
<1>6. gpu'.todo = gpu.todo \ {p} /\ keys' = keys /\ pc' = pc
  BY <1>1 DEF Finish, A1Inv, LockInv, perCaller
<1>7. DOMAIN k \subseteq DOMAIN r2lg /\ Parts \subseteq DOMAIN ngPerPart
  BY <1>2, <1>3 DEF A1Inv, CapacityInv, CapacityBacked, Parts
<1>8. /\ DOMAIN r2lg' = DOMAIN r2lg /\ DOMAIN ngPerPart' = DOMAIN ngPerPart
      /\ overflow' \in {0, 1}
  BY <1>4 DEF BuildPartition, OverflowPartition, partBufs
<1>9. CapacityInv'
  BY <1>1, <1>8 DEF A1Inv, CapacityInv, CapacityBacked
<1>10. ASSUME overflow' = 0, NEW q \in Parts \ gpu'.todo PROVE Grouped(k, q)'
  <2>1. BuildPartition(p) /\ overflow = 0
    BY <1>10 DEF BuildPartition, OverflowPartition
  <2>2. PICK slice : slice = Slice(p) /\ slice = RowsIn(k, p)
    BY <1>5
  <2>2a. PICK n \in 0..Cardinality(slice) : \E f \in [slice -> 0..(n - 1)] :
           /\ Kernel!IsGrouping([r \in slice |-> keysBuf[r]], f, n)
           /\ r2lg' = [r \in DOMAIN r2lg |-> IF r \in slice THEN f[r] ELSE r2lg[r]]
           /\ ngPerPart' = [ngPerPart EXCEPT ![p] = n]
    BY <2>1, <2>2, ZenonT(60) DEF BuildPartition
  <2>3. PICK f \in [slice -> 0..(n - 1)] :
           /\ Kernel!IsGrouping([r \in slice |-> keysBuf[r]], f, n)
           /\ r2lg' = [r \in DOMAIN r2lg |-> IF r \in slice THEN f[r] ELSE r2lg[r]]
           /\ ngPerPart' = [ngPerPart EXCEPT ![p] = n]
    BY <2>2a
  <2>4. CASE q = p
    <3>1. [r \in slice |-> keysBuf[r]] = [r \in slice |-> k[r]]
      BY <1>2, <1>3, <2>2 DEF RowsIn
    <3>2. [r \in slice |-> r2lg'[r]] = f
      <4>1. \A r \in slice : r \in DOMAIN r2lg
        BY <1>7, <2>2 DEF RowsIn
      <4>2. QED
        BY <2>3, <4>1
    <3>3. ngPerPart'[p] = n /\ n \in Nat
      <4>1. p \in Nat
        BY <1>5, PartitionAssumption DEF Parts
      <4>2. Cardinality(slice) \in Nat
        BY <1>5, <2>2, <4>1, RowCounts
      <4>3. QED
        BY <1>5, <1>7, <2>3, <4>2
    <3>4. QED
      BY <2>2, <2>3, <2>4, <3>1, <3>2, <3>3 DEF Grouped
  <2>5. CASE q # p
    <3>1. Grouped(k, q)
      BY <1>4, <1>6, <2>1, <2>5
    <3>2. \A r \in RowsIn(k, q) : r \notin RowsIn(k, p) /\ r \in DOMAIN r2lg
      BY <1>7, <2>5 DEF RowsIn
    <3>3. \A r \in RowsIn(k, q) : r2lg'[r] = r2lg[r]
      BY <2>2, <2>3, <3>2
    <3>4. ngPerPart'[q] = ngPerPart[q]
      BY <2>3, <2>5
    <3>5. QED
      BY <1>5, <2>5, <3>1, <3>3, <3>4, GroupedElsewhere
  <2>6. QED
    BY <2>4, <2>5
<1>11. Inside(c)'
  <2>1. Loaded(c)'
    BY <1>1, <1>4, <1>6, <1>8 DEF Loaded
  <2>2. Sliced(k)' /\ Scattered(k, DOMAIN k)'
    BY <1>1, <1>4 DEF Sliced, Scattered, Filled
  <2>3. pc'[c] = "buildWait" /\ keys'[c] = k /\ gpu'.todo \subseteq Parts
    BY <1>2, <1>3, <1>4, <1>6
  <2>4. (\A q \in Parts : Grouped(keys[c], q) <=> Grouped(k, q))'
    BY <2>3
  <2>5. BuildInv(c)'
    BY <1>10, <2>2, <2>3, <2>4 DEF BuildInv, Sliced, Scattered, Filled
  <2>6. QED
    BY <2>1, <2>3, <2>5 DEF Inside, CountInv, ScatterInv
<1>12. QED
  BY <1>1, <1>2, <1>9, <1>11, KernelStep, Labels

-----------------------------------------------------------------------------
\* The invariant holds, and what follows from it.

LEMMA StutterKeeps == A1Inv /\ UNCHANGED vars => A1Inv'
<1> SUFFICES ASSUME A1Inv, UNCHANGED vars PROVE A1Inv'
  OBVIOUS
<1>1. UNCHANGED <<keys, answer, calls, pc, cache, holder, scratch, gpu>>
  BY DEF vars, perCaller
<1>2. CallInv' /\ CapacityInv'
  BY <1>1, CapacityFrame DEF A1Inv, CallInv
<1>3. LockInv'
  BY <1>1 DEF A1Inv, LockInv, ScratchExclusive
<1>4. \A c \in Callers : Inside(c)'
  BY <1>1, InsideFrame DEF A1Inv
<1>5. QED
  BY <1>2, <1>3, <1>4 DEF A1Inv

LEMMA NextKeeps == A1Inv /\ [Next]_vars => A1Inv'
<1> SUFFICES ASSUME A1Inv, [Next]_vars PROVE A1Inv'
  OBVIOUS
<1>1. ASSUME NEW c \in Callers, Call(c) \/ Host(c) \/ HostFault(c) PROVE A1Inv'
  BY <1>1, CallKeeps, OutsideKeeps, LockKeeps, PrepareKeeps, CommitKeeps, CountDoneKeeps,
     ScatterDoneKeeps, BuildDoneKeeps, GpuFailsKeeps, EnsurePartsFailsKeeps,
     EnsureRowsFailsKeeps, CommitFailsKeeps
  DEF Host, HostFault
<1>2. ASSUME Gpu PROVE A1Inv'
  BY <1>2, CountRowKeeps, ScatterRowKeeps, BuildKernelKeeps DEF Gpu
<1>3. QED
  BY <1>1, <1>2, StutterKeeps DEF Next

LEMMA A1Invariant == Spec => []A1Inv
BY InitInv, NextKeeps, PTL DEF Spec

\* Whatever allocation failed in whatever call before, the capacities that later calls
\* rely on (BuildScratch::ensure) are backed by buffers of that size.
THEOREM CapacityAlwaysBacked == Spec => []CapacityBacked
<1>1. A1Inv => CapacityBacked
  BY DEF A1Inv, CapacityInv
<1>2. QED
  BY <1>1, A1Invariant, PTL

\* On every path of try_a1_build the scratch is used by the mutex holder only, and a
\* kernel runs only while its caller waits for it.
THEOREM ScratchAlwaysExclusive == Spec => []ScratchExclusive
<1>1. A1Inv => ScratchExclusive
  BY DEF A1Inv, LockInv
<1>2. QED
  BY <1>1, A1Invariant, PTL

\* However the rows of the scatter kernel interleave, they fill row_idx with a
\* permutation of the caller's rows, partition by partition.
THEOREM ScatterAlwaysPermutes == Spec => []ScatterIsPermutation
<1>1. ASSUME A1Inv PROVE ScatterIsPermutation
  <2> SUFFICES ASSUME NEW c \in Callers, pc[c] \in {"build", "buildWait"}
      PROVE  /\ \A r \in DOMAIN keys[c] : \E i \in DOMAIN keys[c] : rowIdx[i] = r
             /\ \A p \in Parts, i \in DOMAIN keys[c] :
                  i \in offsets[p]..(offsets[p + 1] - 1) => Part[keys[c][rowIdx[i]]] = p
             /\ offsets[NParts] = NRows(keys[c])
    BY DEF ScatterIsPermutation
  <2>1. PICK k : k = keys[c]
    OBVIOUS
  <2>2. KeyColumn(k) /\ Sliced(k) /\ Scattered(k, DOMAIN k)
    BY <1>1, <2>1 DEF A1Inv, CallInv, Inside, BuildInv
  <2>3. NRows(k) \in Nat /\ DOMAIN k = 0..(NRows(k) - 1)
        /\ \A r \in DOMAIN k : Part[k[r]] \in Parts
    BY <2>2, RowCounts DEF KeyColumn
  <2>4. ASSUME NEW r \in DOMAIN k PROVE \E i \in DOMAIN k : rowIdx[i] = r
    <3>1. PICK p \in Parts : p = Part[k[r]]
      BY <2>3
    <3>2. PICK i \in Filled(p) : rowIdx[i] = r
      BY <2>2, <3>1 DEF Scattered
    <3>3. i \in offsets[p]..(offsets[p + 1] - 1)
      BY <2>2, SliceIsPartition
    <3>4. offsets[p] \in Nat /\ offsets[p + 1] \in Nat /\ offsets[p + 1] <= NRows(k)
      BY <2>2, SliceBounds
    <3>5. i \in DOMAIN k
      BY <2>3, <3>3, <3>4
    <3>6. QED
      BY <3>2, <3>5
  <2>5. ASSUME NEW p \in Parts, NEW i \in offsets[p]..(offsets[p + 1] - 1)
        PROVE  Part[k[rowIdx[i]]] = p
    <3>1. rowIdx[i] \in RowsIn(k, p)
      BY <2>2, SliceIsPartition DEF Scattered
    <3>2. QED
      BY <3>1 DEF RowsIn
  <2>6. offsets[NParts] = NRows(k)
    <3>1. Cardinality(RowsBelow(k, NParts)) = NRows(k)
      BY <2>2, RowCounts
    <3>2. QED
      BY <2>2, <3>1, PartitionAssumption DEF Sliced
  <2>7. QED
    BY <2>1, <2>4, <2>5, <2>6
<1>2. QED
  BY <1>1, A1Invariant, PTL

-----------------------------------------------------------------------------
\* dispatch_build implements the atomic build.

ServiceStep == \A c \in Callers : Service(c)!Next \/ UNCHANGED <<keys[c], answer[c]>>

LEMMA AnswerIsBuild ==
  ASSUME A1Inv, NEW c \in Callers, pc[c] # "idle",
         NEW f, NEW n, NEW first, Answer(c, Output(f, n, first)),
         Kernel!IsGrouping(keys[c], f, n), Kernel!IsFirstRow(f, n, first)
  PROVE  ServiceStep
<1>1. answer[c].kind = "none" /\ DOMAIN answer = Callers /\ keys' = keys
  BY DEF A1Inv, CallInv, Answer
<1>2. answer'[c] = Output(f, n, first) /\ \A d \in Callers \ {c} : answer'[d] = answer[d]
  BY <1>1 DEF Answer
<1>3. Service(c)!IsGrouping(keys[c], f, n) /\ Service(c)!IsFirstRow(f, n, first)
  BY <1>1 DEF Kernel!IsGrouping, Kernel!IsFirstRow, Service!IsGrouping, Service!IsFirstRow
<1>4. Service(c)!IsAnswer(answer'[c])
  BY <1>2, <1>3
  DEF Service!IsAnswer, Service!IsGrouping, Service!IsFirstRow, Output
<1>5. Service(c)!Next
  BY <1>1, <1>4 DEF Service!Next, Service!Build
<1>6. QED
  BY <1>1, <1>2, <1>5 DEF ServiceStep

LEMMA EmptyImplements ==
  ASSUME A1Inv, NEW c \in Callers, AnswerEmpty(c) PROVE ServiceStep
<1>1. KeyColumn(keys[c]) /\ NRows(keys[c]) = 0 /\ pc[c] # "idle"
  BY DEF A1Inv, CallInv, AnswerEmpty
<1>2. DOMAIN keys[c] = {}
  BY <1>1 DEF KeyColumn
<1>3. DOMAIN Empty = {} /\ 0..(0 - 1) = {}
  BY DEF Empty
<1>4. Kernel!IsGrouping(keys[c], Empty, 0) /\ Kernel!IsFirstRow(Empty, 0, Empty)
  BY <1>2, <1>3 DEF Kernel!IsGrouping, Kernel!IsFirstRow, Empty
<1>5. QED
  BY <1>1, <1>4, AnswerIsBuild DEF AnswerEmpty

LEMMA CpuImplements ==
  ASSUME A1Inv, NEW c \in Callers, CpuBuild(c) PROVE ServiceStep
<1> DEFINE k == keys[c]
           FirstRow(x) ==
             CHOOSE r \in DOMAIN k : k[r] = x /\ \A q \in DOMAIN k : k[q] = x => r <= q
           firsts == {FirstRow(k[r]) : r \in DOMAIN k}
           group  == [r \in DOMAIN k |-> Cardinality({q \in firsts : q < FirstRow(k[r])})]
           n      == Cardinality(firsts)
<1>1. KeyColumn(k) /\ pc[c] # "idle"
  BY DEF A1Inv, CallInv, CpuBuild
<1>2. Answer(c, Output(group, n, FirstRows(group, n)))
  BY DEF CpuBuild
<1>3. n \in Nat /\ Kernel!IsGrouping(k, group, n)
  BY <1>1, CpuGroups
<1> HIDE DEF k, group, n
<1>4. Kernel!IsFirstRow(group, n, FirstRows(group, n))
  BY <1>1, <1>3, FirstRowsExist
<1>5. QED
  BY <1>1, <1>2, <1>3, <1>4, AnswerIsBuild DEF k

LEMMA BuildImplements ==
  ASSUME A1Inv, NEW c \in Callers, BuildDone(c) PROVE ServiceStep
<1>1. PICK k : k = keys[c]
  OBVIOUS
<1> DEFINE sum   == ExclusiveScan(ngPerPart)
           n     == sum[NParts]
           group == [r \in DOMAIN k |-> sum[pid[r]] + r2lg[r]]
<1>2. pc[c] = "buildWait" /\ gpu.todo = {} /\ overflow = 0
      /\ Answer(c, Output(group, n, FirstRows(group, n)))
  BY <1>1 DEF BuildDone
<1>3. KeyColumn(k) /\ Scattered(k, DOMAIN k) /\ \A p \in Parts : Grouped(k, p)
  BY <1>1, <1>2 DEF A1Inv, CallInv, Inside, BuildInv
<1>4. n \in Nat /\ Kernel!IsGrouping(k, group, n)
  <2>1. \A p \in Parts : ngPerPart[p] \in Nat
    BY <1>3 DEF Grouped
  <2>2. \A r \in DOMAIN k : pid[r] = Part[k[r]]
    BY <1>3 DEF Scattered
  <2>3. \A p \in Parts : Kernel!IsGrouping([r \in RowsIn(k, p) |-> k[r]],
                                           [r \in RowsIn(k, p) |-> r2lg[r]], ngPerPart[p])
    BY <1>3 DEF Grouped
  <2>4. QED
    BY <1>3, <2>1, <2>2, <2>3, GlobalGroups
<1> HIDE DEF group, n
<1>5. Kernel!IsFirstRow(group, n, FirstRows(group, n))
  BY <1>3, <1>4, FirstRowsExist
<1>6. QED
  BY <1>1, <1>2, <1>4, <1>5, AnswerIsBuild

LEMMA CallImplements ==
  ASSUME A1Inv, NEW c \in Callers, Call(c) PROVE ServiceStep
<1>1. /\ answer[c].kind = "output" /\ answer'[c].kind = "none"
      /\ \A d \in Callers \ {c} : keys'[d] = keys[d] /\ answer'[d] = answer[d]
  BY DEF A1Inv, CallInv, Call, NoAnswer
<1>2. Service(c)!Next
  BY <1>1 DEF Service!Next, Service!Call
<1>3. QED
  BY <1>1, <1>2 DEF ServiceStep

LEMMA StepImplements ==
  A1Inv /\ [Next]_vars => [ServiceStep]_<<keys, answer>>
<1> SUFFICES ASSUME A1Inv, [Next]_vars PROVE ServiceStep \/ UNCHANGED <<keys, answer>>
  OBVIOUS
<1>1. ASSUME NEW c \in Callers, Call(c) PROVE ServiceStep
  BY <1>1, CallImplements
<1>2. ASSUME NEW c \in Callers, Host(c) PROVE ServiceStep \/ UNCHANGED <<keys, answer>>
  <2>1. CASE AnswerEmpty(c)
    BY <2>1, EmptyImplements
  <2>2. CASE CpuBuild(c)
    BY <2>2, CpuImplements
  <2>3. CASE BuildDone(c)
    BY <2>3, BuildImplements
  <2>4. CASE \/ ChoosePath(c) \/ GetCache(c) \/ InitCache(c) \/ Lock(c) \/ Prepare(c)
             \/ \E k \in Kernels : Commit(c, k)
             \/ CountDone(c) \/ ScatterDone(c) \/ BuildOverflowed(c)
    BY <2>4 DEF ChoosePath, GetCache, InitCache, Lock, Prepare, Commit, CountDone,
                ScatterDone, BuildOverflowed, Decline
  <2>5. QED
    BY <1>2, <2>1, <2>2, <2>3, <2>4 DEF Host
<1>3. ASSUME NEW c \in Callers, HostFault(c) PROVE UNCHANGED <<keys, answer>>
  BY <1>3 DEF HostFault, InitCacheFails, EnsurePartsFails, EnsureRowsFails, CommitFails,
              GpuFails, Decline
<1>4. ASSUME Gpu PROVE UNCHANGED <<keys, answer>>
  BY <1>4 DEF Gpu, CountRow, ScatterRow, BuildPartition, OverflowPartition, perCaller
<1>5. ASSUME UNCHANGED vars PROVE UNCHANGED <<keys, answer>>
  BY <1>5 DEF vars, perCaller
<1>6. QED
  BY <1>1, <1>2, <1>3, <1>4, <1>5 DEF Next

\* dispatch_build is, to each of its concurrent callers, one atomic step from the caller's
\* own keys to a grouping of them with the first row of every group: whether the GPU
\* answers, or declines at any point and the CPU takes over.
THEOREM A1BuildImplements == Spec => ImplementsGroupBuild
<1>1. Init => \A c \in Callers : Service(c)!Init
  <2> SUFFICES ASSUME Init, NEW c \in Callers PROVE Service(c)!Init
    OBVIOUS
  <2>1. answer[c] = Output(Empty, 0, Empty) /\ keys[c] = Empty
    BY DEF Init
  <2>2. DOMAIN Empty = {} /\ 0..(0 - 1) = {}
    BY DEF Empty
  <2>3. Service(c)!IsAnswer(answer[c])
    BY <2>1, <2>2
    DEF Service!IsAnswer, Service!IsGrouping, Service!IsFirstRow, Output, Empty
  <2>4. QED
    BY <2>3 DEF Service!Init
<1>2. QED
  BY <1>1, A1Invariant, StepImplements, PTL DEF Spec, ImplementsGroupBuild, ServiceStep
=============================================================================
