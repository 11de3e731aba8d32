---------------------------- MODULE QueryProofs ----------------------------
(***************************************************************************)
(* Four things about one query.  Its way, from the walker's plan to the    *)
(* frame: whoever answers, no operation is lost, repeated or moved, and    *)
(* the shapes the dispatch functions are written for always run.  Its      *)
(* arena: the views it is given are disjoint and never dangle.  Its        *)
(* library: it is read whole and is one, and so is the pipeline state of a *)
(* key, for any number of threads, calls, shapes and keys.  And its        *)
(* aggregations: the kernels and CPU aggregators lose no row and count none*)
(* twice, for every column, grid and list of aggregations.                 *)
(***************************************************************************)
EXTENDS QueryRouting, BumpArena, ShaderLibrary, AggregateKernel, CountingLemmas,
        SequenceTheorems, FiniteSetTheorems, TLAPS

-----------------------------------------------------------------------------
\* The plans.
PlanNodes == Leaves \cup Inner

LEMMA PlanShape ==
  ASSUME NEW p, IsPlan(p)
  PROVE  /\ p \in Seq(PlanNodes) /\ Len(p) \in Nat /\ Len(p) >= 1
         /\ DOMAIN p = 1..Len(p)
         /\ p[1] \in Leaves
         /\ \A i \in 2..Len(p) : p[i] \in Inner
<1>1. PICK leaf \in Leaves, n \in 0..MaxInner : \E rest \in [1..n -> Inner] : p = <<leaf>> \o rest
  BY DEF IsPlan
<1>2. PICK rest \in [1..n -> Inner] : p = <<leaf>> \o rest
  BY <1>1
<1>3. n \in Nat /\ rest \in Seq(Inner) /\ Len(rest) = n
  BY <1>2, NodeAssumption
<1>4. <<leaf>> \in Seq(PlanNodes) /\ rest \in Seq(PlanNodes)
  BY <1>3 DEF PlanNodes
<1>5. p \in Seq(PlanNodes) /\ Len(p) = 1 + n
  BY <1>2, <1>3, <1>4
<1>6. p[1] = leaf
  BY <1>2, <1>3, <1>4
<1>7. ASSUME NEW i \in 2..Len(p) PROVE p[i] \in Inner
  <2>1. p[i] = rest[i - 1]
    BY <1>2, <1>3, <1>4, <1>5
  <2>2. i - 1 \in 1..n
    BY <1>3, <1>5
  <2>3. QED
    BY <1>2, <2>1, <2>2
<1>8. QED
  BY <1>3, <1>5, <1>6, <1>7

\* The kinds of the nodes of a plan.
LEMMA PlanKinds ==
  ASSUME NEW p, IsPlan(p)
  PROVE  /\ p[1].kind \in {"Scan", "Join"}
         /\ \A i \in 2..Len(p) : p[i].kind \in {"Project", "Filter", "GroupBy", "Sort", "HStack"}
         /\ \A i \in 2..Len(p) : p[i].kind = "GroupBy" => p[i].bits \in Nat
BY PlanShape, NodeAssumption

\* The body of a plan ends at its last node that is no Sort.
LEMMA BodyIs ==
  ASSUME NEW p, IsPlan(p)
  PROVE  \E m \in 1..Len(p) :
           /\ Body(p) = SubSeq(p, 1, m) /\ Body(p) \in Seq(PlanNodes) /\ Len(Body(p)) = m
           /\ \A i \in 1..m : Body(p)[i] = p[i]
           /\ p[m].kind # "Sort"
<1> DEFINE Top(n) == p[n].kind # "Sort" /\ \A i \in (n + 1)..Len(p) : p[i].kind = "Sort"
           m == CHOOSE n \in DOMAIN p : Top(n)
<1>0. p \in Seq(PlanNodes) /\ Len(p) \in Nat /\ Len(p) >= 1 /\ DOMAIN p = 1..Len(p) /\ p[1].kind # "Sort"
  BY PlanShape, PlanKinds
<1>1. \E n \in DOMAIN p : Top(n)
  <2> DEFINE above == {k \in Nat : k < Len(p) /\ p[Len(p) - k].kind # "Sort"}
  <2>1. Len(p) - 1 \in above
    BY <1>0
  <2>2. PICK k \in above : \A j \in above : k <= j
    <3>1. above \in SUBSET Nat /\ above # {}
      BY <2>1
    <3> HIDE DEF above
    <3>2. QED
      BY <3>1, LeastNumber
  <2>3. ASSUME NEW i \in (Len(p) - k + 1)..Len(p) PROVE p[i].kind = "Sort"
    <3>1. Len(p) - i \in Nat /\ Len(p) - i < k /\ Len(p) - i < Len(p) /\ Len(p) - (Len(p) - i) = i
      BY <1>0, <2>2, <2>3
    <3>2. Len(p) - i \notin above
      BY <2>2, <3>1
    <3>3. QED
      BY <3>1, <3>2
  <2>4. Len(p) - k \in DOMAIN p /\ p[Len(p) - k].kind # "Sort"
    BY <1>0, <2>2
  <2>5. QED
    BY <2>3, <2>4
<1>2. m \in DOMAIN p /\ Top(m)
  BY <1>1
<1>3. Body(p) = SubSeq(p, 1, m)
  BY DEF Body
<1> HIDE DEF m
<1>4. m \in 1..Len(p) /\ p[m].kind # "Sort"
  BY <1>0, <1>2
<1>5. /\ SubSeq(p, 1, m) \in Seq(PlanNodes) /\ Len(SubSeq(p, 1, m)) = m
      /\ \A i \in 1..m : SubSeq(p, 1, m)[i] = p[i]
  BY <1>0, <1>4, SubSeqProperties
<1>6. QED
  BY <1>3, <1>4, <1>5

-----------------------------------------------------------------------------
\* The wire form of a plan, and of its body.
WireNodes == PlanNodes \cup {Project}

\* The nodes that the wire form adds below node 2.
Shift(p) == IF p[1].kind = "Scan" /\ p[1].projected THEN 1 ELSE 0

LEMMA WireIs ==
  ASSUME NEW p \in Seq(PlanNodes), Len(p) >= 1
  PROVE  /\ Wire(p) \in Seq(WireNodes) /\ Len(Wire(p)) = Len(p) + Shift(p)
         /\ DOMAIN Wire(p) = 1..Len(Wire(p))
         /\ Wire(p)[1] = p[1]
         /\ Shift(p) = 1 => Wire(p)[2] = Project
         /\ \A i \in 2..Len(p) : Wire(p)[i + Shift(p)] = p[i]
<1>0. p \in Seq(WireNodes) /\ Len(p) \in Nat /\ p[1] \in WireNodes /\ Project \in WireNodes
  BY DEF WireNodes
<1>1. CASE p[1].kind = "Scan" /\ p[1].projected
  <2>1. Tail(p) \in Seq(WireNodes) /\ Len(Tail(p)) = Len(p) - 1 /\ \A i \in 1..(Len(p) - 1) : Tail(p)[i] = p[i + 1]
    BY <1>0
  <2>2. <<p[1], Project>> \in Seq(WireNodes) /\ Len(<<p[1], Project>>) = 2
        /\ <<p[1], Project>>[1] = p[1] /\ <<p[1], Project>>[2] = Project
    BY <1>0
  <2>3. Wire(p) = <<p[1], Project>> \o Tail(p) /\ Shift(p) = 1
    BY <1>1 DEF Wire, Shift
  <2>4. /\ Wire(p) \in Seq(WireNodes) /\ Len(Wire(p)) = Len(p) + 1
        /\ Wire(p)[1] = p[1] /\ Wire(p)[2] = Project
        /\ \A i \in 3..(Len(p) + 1) : Wire(p)[i] = Tail(p)[i - 2]
    BY <1>0, <2>1, <2>2, <2>3, ConcatProperties
  <2>5. ASSUME NEW i \in 2..Len(p) PROVE Wire(p)[i + 1] = p[i]
    <3>1. i + 1 \in 3..(Len(p) + 1) /\ (i + 1) - 2 = i - 1 /\ i - 1 \in 1..(Len(p) - 1) /\ (i - 1) + 1 = i
      BY <1>0
    <3>2. QED
      BY <2>1, <2>4, <3>1
  <2>6. QED
    BY <2>3, <2>4, <2>5
<1>2. CASE ~(p[1].kind = "Scan" /\ p[1].projected)
  BY <1>0, <1>2 DEF Wire, Shift
<1>3. QED
  BY <1>1, <1>2

\* The wire form of a body, followed by the sorts above it, is that of the plan.
LEMMA WireOfBody ==
  ASSUME NEW p \in Seq(PlanNodes), NEW m \in 1..Len(p)
  PROVE  Wire(SubSeq(p, 1, m)) \o SubSeq(p, m + 1, Len(p)) = Wire(p)
<1> DEFINE b == SubSeq(p, 1, m)
           s == SubSeq(p, m + 1, Len(p))
           k == Shift(p)
<1>0. Len(p) \in Nat /\ m \in Nat /\ k \in 0..1
  BY DEF Shift
<1>1. b \in Seq(PlanNodes) /\ Len(b) = m /\ \A i \in 1..m : b[i] = p[i]
  BY <1>0, SubSeqProperties
<1>2. s \in Seq(PlanNodes) /\ Len(s) = Len(p) - m /\ \A i \in 1..(Len(p) - m) : s[i] = p[m + i]
  <2>1. m + 1 <= Len(p) + 1
    BY <1>0
  <2>2. QED
    BY <1>0, <2>1
<1>3. Shift(b) = k
  BY <1>0, <1>1 DEF Shift
<1> HIDE DEF b, s, k
<1>4. /\ Wire(b) \in Seq(WireNodes) /\ Len(Wire(b)) = m + k /\ Wire(b)[1] = p[1]
      /\ k = 1 => Wire(b)[2] = Project
      /\ \A i \in 2..m : Wire(b)[i + k] = p[i]
  <2>1. Len(b) >= 1
    BY <1>0, <1>1
  <2>2. /\ Wire(b) \in Seq(WireNodes) /\ Len(Wire(b)) = Len(b) + Shift(b)
        /\ Wire(b)[1] = b[1]
        /\ Shift(b) = 1 => Wire(b)[2] = Project
        /\ \A i \in 2..Len(b) : Wire(b)[i + Shift(b)] = b[i]
    BY <1>1, <2>1, WireIs
  <2>3. Wire(b)[1] = p[1]
    BY <1>0, <1>1, <2>2
  <2>4. \A i \in 2..m : Wire(b)[i + k] = p[i]
    <3>1. \A i \in 2..m : i \in 1..m
      BY <1>0
    <3>2. QED
      BY <1>1, <1>3, <2>2, <3>1
  <2>5. QED
    BY <1>1, <1>3, <2>2, <2>3, <2>4
<1>5. /\ Wire(p) \in Seq(WireNodes) /\ Len(Wire(p)) = Len(p) + k /\ Wire(p)[1] = p[1]
      /\ k = 1 => Wire(p)[2] = Project
      /\ \A i \in 2..Len(p) : Wire(p)[i + k] = p[i]
  BY <1>0, WireIs DEF k
<1>6. s \in Seq(WireNodes)
  BY <1>2 DEF WireNodes
<1>7. /\ Wire(b) \o s \in Seq(WireNodes) /\ Len(Wire(b) \o s) = Len(p) + k
      /\ \A i \in 1..(m + k) : (Wire(b) \o s)[i] = Wire(b)[i]
      /\ \A i \in (m + k + 1)..(Len(p) + k) : (Wire(b) \o s)[i] = s[i - (m + k)]
  <2>1. Len(s) = Len(p) - m
    BY <1>2
  <2>2. /\ Wire(b) \o s \in Seq(WireNodes) /\ Len(Wire(b) \o s) = Len(Wire(b)) + Len(s)
        /\ \A i \in 1..(Len(Wire(b)) + Len(s)) :
             (Wire(b) \o s)[i] = IF i <= Len(Wire(b)) THEN Wire(b)[i] ELSE s[i - Len(Wire(b))]
    BY <1>4, <1>6, ConcatProperties
  <2>3. Len(Wire(b)) + Len(s) = Len(p) + k /\ Len(Wire(b)) = m + k
    BY <1>0, <1>4, <2>1
  <2>4. \A i \in 1..(m + k) : (Wire(b) \o s)[i] = Wire(b)[i]
    BY <1>0, <2>2, <2>3
  <2>5. \A i \in (m + k + 1)..(Len(p) + k) : (Wire(b) \o s)[i] = s[i - (m + k)]
    BY <1>0, <2>2, <2>3
  <2>6. QED
    BY <2>2, <2>3, <2>4, <2>5
<1>8. ASSUME NEW i \in 1..(Len(p) + k) PROVE (Wire(b) \o s)[i] = Wire(p)[i]
  <2>1. CASE i = 1
    BY <1>0, <1>4, <1>5, <1>7, <2>1
  <2>2. CASE i = 2 /\ k = 1
    BY <1>0, <1>4, <1>5, <1>7, <2>2
  <2>3. CASE i > 1 + k /\ i <= m + k
    <3>1. i - k \in 2..m /\ i - k \in 2..Len(p) /\ (i - k) + k = i
      BY <1>0, <2>3
    <3>2. QED
      BY <1>4, <1>5, <1>7, <2>3, <3>1
  <2>4. CASE i > m + k
    <3>1. i - k \in 2..Len(p) /\ (i - k) + k = i /\ i - (m + k) \in 1..(Len(p) - m) /\ m + (i - (m + k)) = i - k
      BY <1>0, <2>4
    <3>2. i \in (m + k + 1)..(Len(p) + k)
      BY <1>0, <2>4
    <3>3. QED
      BY <1>2, <1>5, <1>7, <3>1, <3>2
  <2>5. i = 1 \/ (i = 2 /\ k = 1) \/ (i > 1 + k /\ i <= m + k) \/ i > m + k
    BY <1>0
  <2>6. QED
    BY <2>1, <2>2, <2>3, <2>4, <2>5
<1>9. Wire(b) \o s = Wire(p)
  BY <1>0, <1>5, <1>7, <1>8, SeqEqual
<1>10. QED
  BY <1>9 DEF b, s

-----------------------------------------------------------------------------
\* What the dispatch functions run: node by node, what they answer at node i from what they
\* answer at the node below.
Served(w, i, below) ==
  IF ProjectOver(w, i, "HStack") \/ FusedHStack(w, i) THEN Then(below, w[i]) ELSE OverScan(w, i)

\* What reaches the dispatch functions: a scan and a chain above it.
IsWire(w) ==
  /\ w \in Seq(WireNodes) /\ Len(w) >= 1 /\ DOMAIN w = 1..Len(w)
  /\ w[1].kind = "Scan"
  /\ \A i \in 2..Len(w) : w[i].kind \in {"Project", "Filter", "GroupBy", "Sort", "HStack"}

LEMMA ScanServed ==
  ASSUME NEW w, IsWire(w), NEW below
  PROVE  Served(w, 1, below) = Upstream(w, 1)
BY DEF Served, IsWire, ProjectOver, FusedHStack, OverScan

LEMMA DispatchEquation ==
  ASSUME NEW w, IsWire(w)
  PROVE  /\ Dispatch(w)[1] = Upstream(w, 1)
         /\ \A i \in 2..Len(w) : Dispatch(w)[i] = Served(w, i, Dispatch(w)[i - 1])
<1> DEFINE Serves(h, m) == h = [i \in 1..m |-> Served(w, i, h[i - 1])]
           G == {m \in Nat : \E h : Serves(h, m)}
<1>0. Len(w) \in Nat /\ Len(w) >= 1 /\ DOMAIN w = 1..Len(w)
  BY DEF IsWire
<1>1. 0 \in G
  <2>1. Serves([i \in {} |-> 0], 0)
    OBVIOUS
  <2>2. QED
    BY <2>1
<1>2. ASSUME NEW m \in G PROVE m + 1 \in G
  <2>1. PICK h : Serves(h, m)
    BY <1>2
  <2> DEFINE longer == [i \in 1..(m + 1) |-> IF i = m + 1 THEN Served(w, m + 1, h[m]) ELSE h[i]]
  <2>2. Serves(longer, m + 1)
    <3>1. ASSUME NEW i \in 1..(m + 1) PROVE longer[i] = Served(w, i, longer[i - 1])
      <4>1. CASE i = 1
        <5>1. \A x : Served(w, 1, x) = Upstream(w, 1)
          BY ScanServed
        <5>2. m = 0 \/ h[1] = Upstream(w, 1)
          BY <2>1, <5>1
        <5>3. QED
          BY <4>1, <5>1, <5>2
      <4>2. CASE i > 1
        <5>1. longer[i - 1] = h[i - 1]
          BY <4>2
        <5>2. i = m + 1 \/ h[i] = Served(w, i, h[i - 1])
          BY <2>1
        <5>3. QED
          BY <5>1, <5>2
      <4>3. QED
        BY <4>1, <4>2
    <3>2. QED
      BY <3>1
  <2>3. \E g : Serves(g, m + 1)
    <3> HIDE DEF longer, Serves
    <3>1. QED
      BY <2>2
  <2> HIDE DEF longer, Serves
  <2>4. QED
    BY <2>3
<1>3. G = Nat
  <2>1. G \in SUBSET Nat
    OBVIOUS
  <2> HIDE DEF G
  <2>2. QED
    BY <1>1, <1>2, <2>1, NumberInduction
<1>4. \E h : Serves(h, Len(w))
  BY <1>0, <1>3
<1>5. Dispatch(w) = CHOOSE h : h = [i \in DOMAIN w |-> Served(w, i, h[i - 1])]
  BY DEF Dispatch, Served
<1>6. Serves(Dispatch(w), Len(w))
  <2>1. \E h : h = [i \in DOMAIN w |-> Served(w, i, h[i - 1])]
    BY <1>0, <1>4
  <2>2. Dispatch(w) = [i \in DOMAIN w |-> Served(w, i, Dispatch(w)[i - 1])]
    BY <1>5, <2>1
  <2>3. QED
    BY <1>0, <2>2
<1>7. \A i \in 1..Len(w) : Dispatch(w)[i] = Served(w, i, Dispatch(w)[i - 1])
  BY <1>6
<1>8. QED
  BY <1>0, <1>7, ScanServed

\* A frame that is one is that of the plan up to node i.
Tells(f, w, i) == f.ok => f.ops = SubSeq(w, 1, i)

LEMMA ThenTells ==
  ASSUME NEW w, IsWire(w), NEW i \in 2..Len(w), NEW f, Tells(f, w, i - 1)
  PROVE  Tells(Then(f, w[i]), w, i)
<1>1. CASE f.ok
  <2>1. Then(f, w[i]).ops = Append(SubSeq(w, 1, i - 1), w[i])
    BY <1>1 DEF Then, Frame, Tells
  <2>2. w \in Seq(WireNodes) /\ i \in 2..Len(w) /\ Len(w) \in Nat
    BY DEF IsWire
  <2>3. Append(SubSeq(w, 1, i - 1), w[i]) = SubSeq(w, 1, i)
    BY <2>2
  <2>4. QED
    BY <2>1, <2>3 DEF Tells
<1>2. CASE ~f.ok
  BY <1>2 DEF Then, Failure, Tells
<1>3. QED
  BY <1>1, <1>2

LEMMA UpstreamTells ==
  ASSUME NEW w, IsWire(w), NEW i \in 1..Len(w)
  PROVE  Tells(Upstream(w, i), w, i)
<1>1. CASE w[i].kind = "Scan"
  <2>1. i = 1
    BY <1>1 DEF IsWire
  <2>2. <<w[1]>> = SubSeq(w, 1, 1)
    <3>1. w \in Seq(WireNodes) /\ Len(w) >= 1 /\ Len(w) \in Nat
      BY DEF IsWire
    <3>2. QED
      BY <3>1
  <2>3. QED
    BY <1>1, <2>1, <2>2 DEF Upstream, Frame, Tells
<1>2. CASE w[i].kind # "Scan"
  BY <1>2 DEF Upstream, ExecutePlan, Frame, Failure, Tells
<1>3. QED
  BY <1>1, <1>2

LEMMA FilteredTells ==
  ASSUME NEW w, IsWire(w), NEW i \in 2..Len(w)
  PROVE  Tells(Filtered(w, i), w, i)
<1>1. i - 1 \in 1..Len(w)
  BY DEF IsWire
<1>2. QED
  BY <1>1, UpstreamTells, ThenTells DEF Filtered

LEMMA NotFirst ==
  ASSUME NEW w, IsWire(w), NEW i \in 1..Len(w), w[i].kind # "Scan"
  PROVE  i \in 2..Len(w) /\ i - 1 \in 1..Len(w)
BY DEF IsWire

LEMMA OverScanTells ==
  ASSUME NEW w, IsWire(w), NEW i \in 1..Len(w)
  PROVE  Tells(OverScan(w, i), w, i)
<1>1. CASE w[i].kind = "Filter"
  <2>1. i \in 2..Len(w)
    BY <1>1, NotFirst
  <2>2. OverScan(w, i) = Filtered(w, i)
    BY <1>1 DEF OverScan, ProjectOver
  <2>3. Tells(Filtered(w, i), w, i)
    BY <2>1, FilteredTells
  <2>4. QED
    BY <2>2, <2>3
<1>2. CASE w[i].kind # "Filter" /\ ProjectOver(w, i, "Filter")
  <2>1. i \in 2..Len(w) /\ i - 1 \in 1..Len(w) /\ w[i - 1].kind # "Scan"
    BY <1>2, NotFirst DEF ProjectOver
  <2>2. i - 1 \in 2..Len(w)
    BY <2>1, NotFirst
  <2>3. Tells(Then(Filtered(w, i - 1), w[i]), w, i)
    BY <2>1, <2>2, FilteredTells, ThenTells
  <2>4. QED
    BY <1>2, <2>3 DEF OverScan
<1>3. CASE w[i].kind # "Filter" /\ ~ProjectOver(w, i, "Filter")
  BY <1>3, UpstreamTells DEF OverScan
<1>4. QED
  BY <1>1, <1>2, <1>3

\* By induction over the nodes: no dispatch function loses, repeats or moves an operation.
LEMMA DispatchTells ==
  ASSUME NEW w, IsWire(w)
  PROVE  \A i \in 1..Len(w) : Tells(Dispatch(w)[i], w, i)
<1> DEFINE G == {n \in Nat : n + 1 \in 1..Len(w) => Tells(Dispatch(w)[n + 1], w, n + 1)}
<1>0. Len(w) \in Nat /\ Len(w) >= 1
  BY DEF IsWire
<1>1. 0 \in G
  BY <1>0, DispatchEquation, UpstreamTells
<1>2. ASSUME NEW n \in G PROVE n + 1 \in G
  <2> DEFINE i == n + 2
  <2> SUFFICES ASSUME i \in 1..Len(w) PROVE Tells(Dispatch(w)[i], w, i)
    OBVIOUS
  <2>1. i \in 2..Len(w) /\ i - 1 = n + 1
    OBVIOUS
  <2>2. Tells(Dispatch(w)[i - 1], w, i - 1)
    BY <2>1
  <2> HIDE DEF i
  <2>3. Dispatch(w)[i] = Served(w, i, Dispatch(w)[i - 1])
    BY <2>1, DispatchEquation
  <2>4. Tells(Then(Dispatch(w)[i - 1], w[i]), w, i)
    BY <2>1, <2>2, ThenTells
  <2>5. Tells(OverScan(w, i), w, i)
    BY <2>1, OverScanTells
  <2>6. QED
    BY <2>3, <2>4, <2>5 DEF Served
<1>3. G = Nat
  <2>1. G \in SUBSET Nat
    OBVIOUS
  <2> HIDE DEF G
  <2>2. QED
    BY <1>1, <1>2, <2>1, NumberInduction
<1>4. ASSUME NEW i \in 1..Len(w) PROVE Tells(Dispatch(w)[i], w, i)
  <2>1. i - 1 \in Nat /\ (i - 1) + 1 = i
    BY <1>0
  <2>2. \A n \in Nat : n \in G
    BY <1>3
  <2>3. QED
    BY <2>1, <2>2
<1>5. QED
  BY <1>4

-----------------------------------------------------------------------------
\* What reaches the dispatch functions is a wire form.
LEMMA WireOfScans ==
  ASSUME NEW p, IsPlan(p), ~HasJoin(p)
  PROVE  IsWire(Wire(Body(p)))
<1> DEFINE b == Body(p)
           w == Wire(b)
<1>1. PICK m \in 1..Len(p) : /\ b = SubSeq(p, 1, m) /\ b \in Seq(PlanNodes) /\ Len(b) = m
                             /\ \A i \in 1..m : b[i] = p[i]
  BY BodyIs
<1> HIDE DEF b
<1>2. Len(p) \in Nat /\ m \in Nat /\ m >= 1 /\ Shift(b) \in 0..1
  BY PlanShape DEF Shift
<1>3. /\ w \in Seq(WireNodes) /\ Len(w) = m + Shift(b) /\ DOMAIN w = 1..Len(w)
      /\ w[1] = b[1]
      /\ Shift(b) = 1 => w[2] = Project
      /\ \A i \in 2..m : w[i + Shift(b)] = b[i]
  BY <1>1, <1>2, WireIs
<1>4. w[1].kind = "Scan"
  BY <1>1, <1>2, <1>3, PlanKinds DEF HasJoin
<1> HIDE DEF w
<1>5. ASSUME NEW i \in 2..Len(w) PROVE w[i].kind \in {"Project", "Filter", "GroupBy", "Sort", "HStack"}
  <2>1. CASE i = 2 /\ Shift(b) = 1
    BY <1>3, <2>1 DEF Project
  <2>2. CASE i - Shift(b) \in 2..m
    <3>1. (i - Shift(b)) + Shift(b) = i /\ i - Shift(b) \in 1..m /\ i - Shift(b) \in 2..Len(p)
      BY <1>2, <2>2
    <3>2. w[i] = b[i - Shift(b)] /\ b[i - Shift(b)] = p[i - Shift(b)]
      BY <1>1, <1>3, <2>2, <3>1
    <3>3. QED
      BY <3>1, <3>2, PlanKinds
  <2>3. QED
    BY <1>2, <1>3, <2>1, <2>2
<1>6. QED
  BY <1>2, <1>3, <1>4, <1>5 DEF IsWire, w, b

\* What a GroupBy over no HStack is given, and what it answers.
LEMMA GroupByTells ==
  ASSUME NEW w, IsWire(w), w[Len(w)].kind = "GroupBy",
         w[Len(w)].fused \/ w[Len(w) - 1].kind # "HStack"
  PROVE  Tells(GroupBy(w, Len(w)), w, Len(w))
<1> DEFINE n == Len(w)
<1>1. n \in 2..Len(w) /\ n - 1 \in 1..Len(w)
  <2>1. n \in 1..Len(w)
    BY DEF IsWire
  <2>2. QED
    BY <2>1, NotFirst
<1> HIDE DEF n
<1>2. Tells(Then(Dispatch(w)[n - 1], w[n]), w, n)
  BY <1>1, DispatchTells, ThenTells
<1>3. Tells(Then(OverScan(w, n - 1), w[n]), w, n)
  BY <1>1, OverScanTells, ThenTells
<1>4. Tells(Failure, w, n)
  BY DEF Tells, Failure
<1>5. CASE w[n].fused
  <2>1. GroupBy(w, n) = Then(Dispatch(w)[n - 1], w[n])
    BY <1>5 DEF GroupBy
  <2>2. QED
    BY <1>2, <2>1 DEF n
<1>6. CASE ~w[n].fused
  <2>1. w[n - 1].kind # "HStack"
    BY <1>6 DEF n
  <2>2. GroupByInput(w, n) = OverScan(w, n - 1)
    BY <2>1 DEF GroupByInput
  <2>3. GroupBy(w, n) = Failure \/ GroupBy(w, n) = Then(GroupByInput(w, n), w[n])
    BY <1>6 DEF GroupBy
  <2>4. QED
    BY <1>3, <1>4, <2>2, <2>3 DEF n
<1>7. QED
  BY <1>5, <1>6

\* The frame of a UDF is that of its plan.
PlanUnderGroupBy(p) ==
  \E i \in 2..Len(p) : p[i].kind = "GroupBy" /\ ~p[i].fused /\ p[i - 1].kind = "HStack"

LEMMA UdfTells ==
  ASSUME NEW p, IsPlan(p), ~HasJoin(p), ~PlanUnderGroupBy(p), UdfResult(p).ok
  PROVE  UdfResult(p).ops = Wire(p)
<1> DEFINE b == Body(p)
           w == Wire(b)
           n == Len(w)
           f == IF w[n].kind = "GroupBy" THEN GroupBy(w, n) ELSE Dispatch(w)[n]
<1>1. PICK m \in 1..Len(p) : /\ b = SubSeq(p, 1, m) /\ b \in Seq(PlanNodes) /\ Len(b) = m
                             /\ \A i \in 1..m : b[i] = p[i]
  BY BodyIs
<1>2. p \in Seq(PlanNodes) /\ Len(p) \in Nat /\ m \in Nat /\ m >= 1 /\ Shift(b) \in 0..1
  BY PlanShape DEF Shift
<1>3. IsWire(w)
  BY WireOfScans
<1>4. UdfResult(p) = IF f.ok THEN Frame(f.ops \o SubSeq(p, Len(b) + 1, Len(p))) ELSE Failure
  BY DEF UdfResult
<1> HIDE DEF b
<1>5. /\ Len(w) = m + Shift(b)
      /\ Shift(b) = 1 => w[2] = Project
      /\ \A i \in 2..m : w[i + Shift(b)] = b[i]
      /\ w[1] = b[1]
  BY <1>1, <1>2, WireIs
<1> HIDE DEF w
<1>6. n \in Nat /\ n >= 1 /\ n \in 1..Len(w) /\ w \in Seq(WireNodes)
  BY <1>3 DEF IsWire
<1>7. Tells(f, w, n)
  <2>1. CASE w[n].kind = "GroupBy"
    <3>1. m >= 2 /\ w[n] = p[m]
      <4>1. n # 1 /\ ~(n = 2 /\ Shift(b) = 1)
        BY <1>3, <1>5, <2>1 DEF IsWire, Project
      <4>2. m >= 2 /\ m \in 2..m /\ m \in 1..m /\ m + Shift(b) = n
        BY <1>2, <1>5, <4>1
      <4>3. QED
        BY <1>1, <1>5, <4>2
    <3>2. w[n].fused \/ w[n - 1].kind # "HStack"
      <4> SUFFICES ASSUME ~w[n].fused, w[n - 1].kind = "HStack" PROVE FALSE
        OBVIOUS
      <4>1. p[m - 1].kind # "HStack"
        <5>1. m \in 2..Len(p)
          BY <1>2, <3>1
        <5>2. QED
          BY <2>1, <3>1, <5>1 DEF PlanUnderGroupBy
      <4>2. n - 1 # 1 /\ ~(n - 1 = 2 /\ Shift(b) = 1)
        BY <1>3, <1>5 DEF IsWire, Project
      <4>3. m - 1 \in 2..m /\ m - 1 \in 1..m /\ (m - 1) + Shift(b) = n - 1
        BY <1>2, <1>5, <3>1, <4>2
      <4>4. w[n - 1] = p[m - 1]
        BY <1>1, <1>5, <4>3
      <4>5. QED
        BY <4>1, <4>4
    <3>3. Tells(GroupBy(w, n), w, n)
      BY <1>3, <2>1, <3>2, GroupByTells
    <3>4. QED
      BY <2>1, <3>3
  <2>2. CASE w[n].kind # "GroupBy"
    <3>1. Tells(Dispatch(w)[n], w, n)
      BY <1>3, <1>6, DispatchTells
    <3>2. QED
      BY <2>2, <3>1
  <2>3. QED
    BY <2>1, <2>2
<1> HIDE DEF f
<1>8. f.ok
  BY <1>4 DEF Failure
<1>9. UdfResult(p).ops = f.ops \o SubSeq(p, m + 1, Len(p))
  <2>1. UdfResult(p) = Frame(f.ops \o SubSeq(p, Len(b) + 1, Len(p)))
    BY <1>4, <1>8
  <2>2. UdfResult(p) = Frame(f.ops \o SubSeq(p, m + 1, Len(p)))
    BY <1>1, <2>1
  <2>3. \A ops : Frame(ops).ops = ops
    BY DEF Frame
  <2>4. QED
    BY <2>2, <2>3
<1>10. f.ops = w
  <2>1. SubSeq(w, 1, n) = w
    BY <1>6
  <2>2. QED
    BY <1>7, <1>8, <2>1 DEF Tells
<1>11. Wire(SubSeq(p, 1, m)) \o SubSeq(p, m + 1, Len(p)) = Wire(p)
  BY <1>2, WireOfBody
<1>12. QED
  BY <1>1, <1>9, <1>10, <1>11 DEF w

-----------------------------------------------------------------------------
\* The simple shapes run.  What lies on scans without opaque columns, node by node.
NotOpaque(w) == ~(w[1].opaque /\ Len(w) > 1 /\ w[2].kind = "Project")

LEMMA ThenOk ==
  ASSUME NEW f, f.ok, NEW op
  PROVE  Then(f, op).ok
BY DEF Then, Frame

LEMMA ScansRun ==
  ASSUME NEW w, IsWire(w), NotOpaque(w), NEW c \in 1..Len(w),
         \A i \in 2..c : w[i].kind = "Project"
  PROVE  Upstream(w, c).ok
<1>1. CASE c = 1
  BY <1>1 DEF IsWire, Upstream, Frame
<1>2. CASE c > 1
  <2>1. Len(w) > 1 /\ 2 \in 2..c /\ c \in 2..c /\ Len(w) \in Nat
    BY <1>2 DEF IsWire
  <2>2. w[2].kind = "Project" /\ w[c].kind = "Project" /\ ~w[1].opaque
    BY <2>1 DEF NotOpaque
  <2>3. \A j \in 1..c : j = 1 \/ j \in 2..c
    BY <2>1
  <2>4. \A j \in 1..c : w[j].kind \in {"Scan", "Project"}
    BY <2>3 DEF IsWire
  <2>5. Deserialized(w, c)
    BY <2>2, <2>4 DEF Deserialized
  <2>6. QED
    BY <2>2, <2>4, <2>5 DEF Upstream, ExecutePlan, Frame
<1>3. QED
  BY <1>1, <1>2

\* Scans, a filter over scans, or a projection over a filter over scans.
OnScans(w, c) ==
  \/ \A i \in 2..c : w[i].kind = "Project"
  \/ w[c].kind = "Filter" /\ \A i \in 2..(c - 1) : w[i].kind = "Project"
  \/ /\ c > 2 /\ w[c].kind = "Project" /\ w[c - 1].kind = "Filter"
     /\ \A i \in 2..(c - 2) : w[i].kind = "Project"

LEMMA OnScansRuns ==
  ASSUME NEW w, IsWire(w), NotOpaque(w), NEW c \in 1..Len(w), OnScans(w, c)
  PROVE  OverScan(w, c).ok /\ Dispatch(w)[c].ok /\ w[c].kind \notin {"HStack", "GroupBy"}
<1>0. Len(w) \in Nat
  BY DEF IsWire
<1>1. CASE \A i \in 2..c : w[i].kind = "Project"
  <2>1. Upstream(w, c).ok
    BY <1>1, ScansRun
  <2>2. c = 1 \/ (c \in 2..c /\ (c - 1 = 1 \/ c - 1 \in 2..c))
    BY <1>0
  <2>3. w[c].kind \in {"Scan", "Project"} /\ ~ProjectOver(w, c, "Filter") /\ ~ProjectOver(w, c, "HStack")
    BY <1>1, <2>2 DEF ProjectOver, IsWire
  <2>4. OverScan(w, c) = Upstream(w, c)
    BY <2>3 DEF OverScan
  <2>5. c = 1 \/ Dispatch(w)[c] = OverScan(w, c)
    BY <2>2, <2>3, DispatchEquation DEF Served, FusedHStack
  <2>6. c = 1 => Dispatch(w)[c] = Upstream(w, c)
    BY DispatchEquation
  <2>7. QED
    BY <2>1, <2>3, <2>4, <2>5, <2>6
<1>2. CASE w[c].kind = "Filter" /\ \A i \in 2..(c - 1) : w[i].kind = "Project"
  <2>1. c \in 2..Len(w) /\ c - 1 \in 1..Len(w)
    BY <1>2, NotFirst
  <2>2. Upstream(w, c - 1).ok
    BY <1>2, <2>1, ScansRun
  <2>3. OverScan(w, c) = Filtered(w, c)
    BY <1>2 DEF OverScan, ProjectOver
  <2>4. OverScan(w, c).ok
    BY <2>2, <2>3, ThenOk DEF Filtered
  <2>5. Dispatch(w)[c] = OverScan(w, c)
    BY <1>2, <2>1, DispatchEquation DEF Served, ProjectOver, FusedHStack
  <2>6. QED
    BY <1>2, <2>4, <2>5
<1>3. CASE /\ c > 2 /\ w[c].kind = "Project" /\ w[c - 1].kind = "Filter"
           /\ \A i \in 2..(c - 2) : w[i].kind = "Project"
  <2>1. c \in 2..Len(w) /\ c - 1 \in 2..Len(w) /\ c - 2 \in 1..Len(w) /\ (c - 1) - 1 = c - 2
    BY <1>0, <1>3
  <2>2. Upstream(w, c - 2).ok
    BY <1>3, <2>1, ScansRun
  <2>3. OverScan(w, c) = Then(Filtered(w, c - 1), w[c])
    BY <1>3 DEF OverScan, ProjectOver
  <2>4. Filtered(w, c - 1).ok
    BY <2>1, <2>2, ThenOk DEF Filtered
  <2>5. OverScan(w, c).ok
    BY <2>3, <2>4, ThenOk
  <2>6. Dispatch(w)[c] = OverScan(w, c)
    BY <1>3, <2>1, DispatchEquation DEF Served, ProjectOver, FusedHStack
  <2>7. QED
    BY <1>3, <2>5, <2>6
<1>4. QED
  BY <1>1, <1>2, <1>3 DEF OnScans

\* Fused HStacks above it run, one after the other.
LEMMA HStacksRun ==
  ASSUME NEW w, IsWire(w), NEW c \in 1..Len(w), Dispatch(w)[c].ok, NEW n \in c..Len(w),
         \A i \in (c + 1)..n : FusedHStack(w, i)
  PROVE  Dispatch(w)[n].ok
<1> DEFINE G == {k \in Nat : c + k \in c..n => Dispatch(w)[c + k].ok}
<1>0. Len(w) \in Nat
  BY DEF IsWire
<1>1. 0 \in G
  OBVIOUS
<1>2. ASSUME NEW k \in G PROVE k + 1 \in G
  <2> DEFINE i == c + (k + 1)
  <2> SUFFICES ASSUME i \in c..n PROVE Dispatch(w)[i].ok
    OBVIOUS
  <2>1. i \in 2..Len(w) /\ i - 1 = c + k /\ i - 1 \in c..n /\ i \in (c + 1)..n
    BY <1>0
  <2>2. Dispatch(w)[i - 1].ok
    BY <2>1
  <2> HIDE DEF i
  <2>3. Dispatch(w)[i] = Then(Dispatch(w)[i - 1], w[i])
    BY <2>1, DispatchEquation DEF Served
  <2>4. QED
    BY <2>2, <2>3, ThenOk
<1>3. G = Nat
  <2>1. G \in SUBSET Nat
    OBVIOUS
  <2> HIDE DEF G
  <2>2. QED
    BY <1>1, <1>2, <2>1, NumberInduction
<1>4. n - c \in Nat /\ c + (n - c) = n /\ n \in c..n
  BY <1>0
<1>5. \A k \in Nat : k \in G
  BY <1>3
<1>6. QED
  BY <1>4, <1>5

-----------------------------------------------------------------------------
\* The node of a body that OnScans is about, in the body and in its wire form.
LEMMA SimpleWire ==
  ASSUME NEW p, IsPlan(p), SimpleShape(p)
  PROVE  /\ ~HasJoin(p) /\ NotOpaque(Wire(Body(p))) /\ IsWire(Wire(Body(p)))
         /\ Body(p) \in Seq(PlanNodes) /\ Len(Body(p)) \in 1..Len(p)
         /\ \A i \in 1..Len(Body(p)) : Body(p)[i] = p[i]
         /\ Len(Wire(Body(p))) = Len(Body(p)) + Shift(Body(p))
         /\ \A i \in 2..Len(Body(p)) : Wire(Body(p))[i + Shift(Body(p))] = p[i]
         /\ Shift(Body(p)) \in 0..1
         /\ Shift(Body(p)) = 1 => Wire(Body(p))[2] = Project
<1>1. ~HasJoin(p)
  BY DEF SimpleShape, HasJoin
<1>2. NotOpaque(Wire(Body(p)))
  BY DEF SimpleShape, NotOpaque
<1>3. PICK m \in 1..Len(p) : /\ Body(p) = SubSeq(p, 1, m) /\ Body(p) \in Seq(PlanNodes) /\ Len(Body(p)) = m
                             /\ \A i \in 1..m : Body(p)[i] = p[i]
  BY BodyIs
<1>4. Len(p) \in Nat /\ m \in Nat /\ m >= 1
  BY PlanShape
<1>5. /\ Len(Wire(Body(p))) = Len(Body(p)) + Shift(Body(p))
      /\ Shift(Body(p)) = 1 => Wire(Body(p))[2] = Project
      /\ \A i \in 2..Len(Body(p)) : Wire(Body(p))[i + Shift(Body(p))] = Body(p)[i]
  <2>1. Len(Body(p)) >= 1
    BY <1>3, <1>4
  <2>2. QED
    BY <1>3, <2>1, WireIs
<1>6. \A i \in 2..Len(Body(p)) : Wire(Body(p))[i + Shift(Body(p))] = p[i]
  <2>1. \A i \in 2..m : i \in 1..m
    BY <1>4
  <2>2. QED
    BY <1>3, <1>5, <2>1
<1>7. IsWire(Wire(Body(p)))
  BY <1>1, WireOfScans
<1>8. Shift(Body(p)) \in 0..1
  BY DEF Shift
<1>9. QED
  BY <1>1, <1>2, <1>3, <1>5, <1>6, <1>7, <1>8

\* What the wire form adds is one more projection on the scan.
LEMMA OnScansInWire ==
  ASSUME NEW b, NEW w, NEW k \in 0..1, NEW m \in Nat \ {0},
         k = 1 => w[2] = Project,
         \A i \in 2..m : w[i + k] = b[i],
         \/ \A i \in 2..m : b[i].kind = "Project"
         \/ b[m].kind = "Filter" /\ m # 1 /\ \A i \in 2..(m - 1) : b[i].kind = "Project"
         \/ /\ m > 2 /\ b[m].kind = "Project" /\ b[m - 1].kind = "Filter"
            /\ \A i \in 2..(m - 2) : b[i].kind = "Project"
  PROVE  OnScans(w, m + k)
<1>1. ASSUME NEW n \in 1..m, \A i \in 2..n : b[i].kind = "Project"
      PROVE  \A i \in 2..(n + k) : w[i].kind = "Project"
  <2> SUFFICES ASSUME NEW i \in 2..(n + k) PROVE w[i].kind = "Project"
    OBVIOUS
  <2>1. CASE i = 2 /\ k = 1
    BY <2>1 DEF Project
  <2>2. CASE ~(i = 2 /\ k = 1)
    <3>1. i - k \in 2..n /\ i - k \in 2..m /\ (i - k) + k = i
      BY <2>2
    <3>2. w[i] = b[i - k]
      BY <3>1
    <3>3. QED
      BY <1>1, <3>1, <3>2
  <2>3. QED
    BY <2>1, <2>2
<1>2. CASE \A i \in 2..m : b[i].kind = "Project"
  <2>1. \A i \in 2..(m + k) : w[i].kind = "Project"
    BY <1>1, <1>2
  <2>2. QED
    BY <2>1 DEF OnScans
<1>3. CASE b[m].kind = "Filter" /\ m # 1 /\ \A i \in 2..(m - 1) : b[i].kind = "Project"
  <2>1. m \in 2..m /\ m - 1 \in 1..m /\ (m - 1) + k = (m + k) - 1
    BY <1>3
  <2>2. w[m + k].kind = "Filter"
    BY <1>3, <2>1
  <2>3. \A i \in 2..((m - 1) + k) : w[i].kind = "Project"
    BY <1>1, <1>3, <2>1
  <2>4. \A i \in 2..((m + k) - 1) : w[i].kind = "Project"
    BY <2>1, <2>3
  <2>5. QED
    BY <2>2, <2>4 DEF OnScans
<1>4. CASE /\ m > 2 /\ b[m].kind = "Project" /\ b[m - 1].kind = "Filter"
           /\ \A i \in 2..(m - 2) : b[i].kind = "Project"
  <2>1. m \in 2..m /\ m - 1 \in 2..m /\ m - 2 \in 1..m /\ (m - 2) + k = (m + k) - 2 /\ (m - 1) + k = (m + k) - 1
    BY <1>4
  <2>2. w[m + k].kind = "Project" /\ w[(m + k) - 1].kind = "Filter" /\ m + k > 2
    BY <1>4, <2>1
  <2>3. \A i \in 2..((m - 2) + k) : w[i].kind = "Project"
    BY <1>1, <1>4, <2>1
  <2>4. \A i \in 2..((m + k) - 2) : w[i].kind = "Project"
    BY <2>1, <2>3
  <2>5. QED
    BY <2>2, <2>4 DEF OnScans
<1>5. QED
  BY <1>2, <1>3, <1>4

\* The UDF of a simple shape whose HStacks are fused answers.
LEMMA SimpleUdf ==
  ASSUME NEW p, IsPlan(p), SimpleShape(p), Handled(p)
  PROVE  CanBuild(p) /\ UdfResult(p).ok
<1> DEFINE b == Body(p)
           w == Wire(b)
           k == Shift(b)
           n == Len(w)
<1>1. /\ ~HasJoin(p) /\ NotOpaque(w) /\ IsWire(w)
      /\ b \in Seq(PlanNodes) /\ Len(b) \in 1..Len(p)
      /\ \A i \in 1..Len(b) : b[i] = p[i]
      /\ Len(w) = Len(b) + k
      /\ \A i \in 2..Len(b) : w[i + k] = p[i]
      /\ k \in 0..1
      /\ k = 1 => w[2] = Project
  BY SimpleWire
<1>2. PICK m \in 1..Len(b) :
        /\ \/ \A i \in 2..m : b[i].kind = "Project"
           \/ b[m].kind = "Filter" /\ \A i \in 2..(m - 1) : b[i].kind = "Project"
           \/ /\ m > 2 /\ b[m].kind = "Project" /\ b[m - 1].kind = "Filter"
              /\ \A i \in 2..(m - 2) : b[i].kind = "Project"
        /\ \/ Len(b) = m + 1 /\ b[Len(b)].kind = "GroupBy" /\ b[Len(b)].bits <= MaxBits
           \/ \A i \in (m + 1)..Len(b) : b[i].kind = "HStack"
           \/ /\ b[Len(b)].kind = "Project" /\ Len(b) > m + 1
              /\ \A i \in (m + 1)..(Len(b) - 1) : b[i].kind = "HStack"
  BY DEF SimpleShape
<1>3. p[1].kind = "Scan" /\ Len(p) \in Nat /\ DOMAIN p = 1..Len(p)
  BY PlanShape DEF SimpleShape
<1>5. DOMAIN b = 1..Len(b) /\ Len(b) \in Nat /\ m \in Nat \ {0} /\ b[1] = p[1]
  BY <1>1, <1>3
<1>6. UdfResult(p) = LET f == IF w[n].kind = "GroupBy" THEN GroupBy(w, n) ELSE Dispatch(w)[n]
                     IN  IF f.ok THEN Frame(f.ops \o SubSeq(p, Len(b) + 1, Len(p))) ELSE Failure
  BY DEF UdfResult
<1>7. \A i \in 2..Len(b) : p[i].kind = "HStack" => p[i].fused
  BY <1>1, <1>3 DEF Handled
<1> HIDE DEF b, w, k
<1>8. CanBuild(p)
  <2> SUFFICES ASSUME NEW i \in 1..Len(b) PROVE b[i].kind # "Sort"
    BY <1>1, <1>5 DEF CanBuild, b
  <2>1. CASE i <= m
    <3>1. i = 1 \/ i \in 2..m
      BY <2>1
    <3>2. i \in 2..(m - 2) \/ i = m - 1 \/ i = m \/ i = 1
      BY <3>1, <1>5
    <3>3. i \in 2..(m - 1) \/ i = m \/ i = 1
      BY <3>1, <1>5
    <3>4. QED
      BY <1>2, <1>3, <1>5, <3>1, <3>2, <3>3
  <2>2. CASE i > m
    <3> DEFINE l == Len(b)
    <3>1. l \in Nat /\ m \in Nat /\ i \in 1..l
      BY <1>5
    <3> HIDE DEF l
    <3>2. i \in (m + 1)..l /\ (i = l \/ i \in (m + 1)..(l - 1)) /\ (l = m + 1 => i = l)
      BY <2>2, <3>1
    <3>3. QED
      BY <1>2, <3>2 DEF l
  <2>3. QED
    BY <1>5, <2>1, <2>2
<1> DEFINE c == m + k
<1>9. c \in 1..n /\ n \in Nat /\ n >= 1 /\ n = Len(b) + k
  BY <1>1, <1>5
<1>10. OnScans(w, c)
  <2>1. \A i \in 2..m : i \in 2..Len(b) /\ i \in 1..Len(b)
    BY <1>5
  <2>2. \A i \in 2..m : w[i + k] = b[i]
    BY <1>1, <2>1
  <2>3. \/ \A i \in 2..m : b[i].kind = "Project"
        \/ b[m].kind = "Filter" /\ m # 1 /\ \A i \in 2..(m - 1) : b[i].kind = "Project"
        \/ /\ m > 2 /\ b[m].kind = "Project" /\ b[m - 1].kind = "Filter"
           /\ \A i \in 2..(m - 2) : b[i].kind = "Project"
    BY <1>2, <1>3, <1>5
  <2>4. QED
    BY <1>1, <1>5, <2>2, <2>3, OnScansInWire
<1>11. OverScan(w, c).ok /\ Dispatch(w)[c].ok /\ w[c].kind \notin {"HStack", "GroupBy"}
  BY <1>1, <1>9, <1>10, OnScansRuns
<1>12. ASSUME NEW e \in m..Len(b), \A i \in (m + 1)..e : b[i].kind = "HStack"
       PROVE  Dispatch(w)[e + k].ok /\ (e # m => w[e + k].kind = "HStack")
  <2>1. ASSUME NEW i \in (c + 1)..(e + k) PROVE FusedHStack(w, i)
    <3>1. i - k \in (m + 1)..e /\ i - k \in 2..Len(b) /\ i - k \in 1..Len(b) /\ (i - k) + k = i
      BY <1>1, <1>5, <1>9
    <3>2. w[i] = p[i - k] /\ p[i - k].kind = "HStack"
      BY <1>1, <1>12, <3>1
    <3>3. QED
      BY <1>7, <3>1, <3>2 DEF FusedHStack
  <2>2. e + k \in c..Len(w)
    BY <1>1, <1>5, <1>9
  <2>3. Dispatch(w)[e + k].ok
    BY <1>1, <1>9, <1>11, <2>1, <2>2, HStacksRun
  <2>4. e # m => e + k \in (c + 1)..(e + k)
    BY <1>1, <1>5
  <2>5. QED
    BY <2>1, <2>3, <2>4 DEF FusedHStack
<1>13. CASE \A i \in (m + 1)..Len(b) : b[i].kind = "HStack"
  <2>1. Len(b) \in m..Len(b)
    BY <1>5
  <2>2. Dispatch(w)[n].ok /\ (Len(b) # m => w[n].kind = "HStack")
    BY <1>9, <1>12, <1>13, <2>1
  <2>3. w[n].kind # "GroupBy"
    BY <1>9, <1>11, <2>2
  <2>4. QED
    BY <1>6, <1>8, <2>2, <2>3 DEF Frame
<1>14. CASE /\ b[Len(b)].kind = "Project" /\ Len(b) > m + 1
            /\ \A i \in (m + 1)..(Len(b) - 1) : b[i].kind = "HStack"
  <2>0. k \in Nat /\ Len(b) > m + 1
    BY <1>1, <1>14
  <2>1. /\ Len(b) - 1 \in m..Len(b) /\ Len(b) - 1 # m /\ (Len(b) - 1) + k = n - 1 /\ n \in 2..Len(w)
        /\ Len(b) \in 2..Len(b) /\ Len(b) \in 1..Len(b)
    <3> DEFINE l == Len(b)
    <3>1. l \in Nat /\ m \in Nat /\ l > m + 1 /\ n = l + k /\ n = Len(w)
      BY <1>5, <1>9, <2>0
    <3> HIDE DEF l, n
    <3>2. /\ l - 1 \in m..l /\ l - 1 # m /\ (l - 1) + k = n - 1 /\ n \in 2..n
          /\ l \in 2..l /\ l \in 1..l
      BY <2>0, <3>1
    <3>3. QED
      BY <3>1, <3>2 DEF l
  <2>2. Dispatch(w)[n - 1].ok /\ w[n - 1].kind = "HStack"
    BY <1>12, <1>14, <2>1
  <2>3. w[n].kind = "Project"
    BY <1>1, <1>9, <1>14, <2>1
  <2>4. Dispatch(w)[n] = Then(Dispatch(w)[n - 1], w[n])
    BY <1>1, <2>1, <2>2, <2>3, DispatchEquation DEF Served, ProjectOver
  <2>5. Dispatch(w)[n].ok
    BY <2>2, <2>4, ThenOk
  <2>6. QED
    BY <1>6, <1>8, <2>3, <2>5 DEF Frame
<1>15. CASE Len(b) = m + 1 /\ b[Len(b)].kind = "GroupBy" /\ b[Len(b)].bits <= MaxBits
  <2>1. n - 1 = c /\ Len(b) \in 2..Len(b) /\ Len(b) \in 1..Len(b) /\ Len(b) \in 2..Len(p)
    BY <1>1, <1>3, <1>5, <1>9, <1>15
  <2>2. w[n] = p[Len(b)] /\ w[n].kind = "GroupBy" /\ w[n].bits <= MaxBits /\ w[n].bits \in Nat
    BY <1>1, <1>9, <1>15, <2>1, PlanKinds
  <2>3. MaxBits \in Nat
    BY NodeAssumption
  <2>4. GroupByInput(w, n) = OverScan(w, c)
    BY <1>11, <2>1 DEF GroupByInput
  <2>5. Then(Dispatch(w)[n - 1], w[n]).ok /\ Then(GroupByInput(w, n), w[n]).ok
    BY <1>11, <2>1, <2>4, ThenOk
  <2>6. ~(w[n].bits > MaxBits)
    BY <2>2, <2>3
  <2>7. GroupBy(w, n) = Then(Dispatch(w)[n - 1], w[n]) \/ GroupBy(w, n) = Then(GroupByInput(w, n), w[n])
    BY <2>6 DEF GroupBy
  <2>8. QED
    BY <1>6, <1>8, <2>2, <2>5, <2>7 DEF Frame
<1>16. QED
  BY <1>2, <1>13, <1>14, <1>15

-----------------------------------------------------------------------------
\* What the callback promises while a UDF is installed and when the query is done.
RoutingInv ==
  /\ IsPlan(plan) /\ stage \in {"submitted", "installed", "done"}
  /\ stage # "done" => result = Failure
  /\ stage = "installed" =>
       \/ by = "udf" /\ ~HasJoin(plan) /\ Handled(plan) /\ CanBuild(plan)
       \/ by = "joinUdf" /\ HasJoin(plan) /\ HasParentChain(plan)
  /\ FrameIsThePlan /\ SimpleShapesRun

LEMMA FrameFacts ==
  /\ \A ops : Frame(ops).ok /\ Frame(ops).ops = ops
  /\ ~Failure.ok
BY DEF Frame, Failure

LEMMA RoutingStep == RoutingInv /\ [Next]_vars => RoutingInv'
<1> SUFFICES ASSUME RoutingInv, [Next]_vars PROVE RoutingInv'
  OBVIOUS
<1>0. IsPlan(plan) /\ stage \in {"submitted", "installed", "done"}
  BY DEF RoutingInv
<1>1. ASSUME OnCpu PROVE RoutingInv'
  <2>1. plan' = plan /\ stage' = "done" /\ result' = Frame(Wire(plan))
    BY <1>1 DEF OnCpu, Answer
  <2>2. result'.ok /\ result'.ops = Wire(plan')
    BY <2>1, FrameFacts
  <2>3. FrameIsThePlan' /\ SimpleShapesRun'
    BY <2>2 DEF FrameIsThePlan, SimpleShapesRun
  <2>4. QED
    BY <1>0, <2>1, <2>3 DEF RoutingInv
<1>2. CASE WalkerFallsBack
  BY <1>1, <1>2 DEF WalkerFallsBack
<1>3. CASE JoinToCpu
  BY <1>1, <1>3 DEF JoinToCpu
<1>4. CASE InstallJoin
  <2>1. /\ plan' = plan /\ result' = result /\ stage = "submitted" /\ stage' = "installed" /\ by' = "joinUdf"
        /\ HasJoin(plan) /\ HasParentChain(plan)
    BY <1>4 DEF InstallJoin
  <2>2. QED
    BY <1>0, <2>1 DEF RoutingInv, FrameIsThePlan, SimpleShapesRun, Done
<1>5. CASE Route
  <2>1. /\ plan' = plan /\ stage = "submitted" /\ Handled(plan) /\ ~HasJoin(plan)
        /\ \/ OnCpu
           \/ result' = result /\ CanBuild(plan) /\ stage' = "installed" /\ by' = "udf"
           \/ result' = result /\ ~CanBuild(plan) /\ stage' = "done"
    BY <1>5 DEF Route, OnCpu
  <2>2. CASE result' = result /\ CanBuild(plan) /\ stage' = "installed" /\ by' = "udf"
    BY <1>0, <2>1, <2>2 DEF RoutingInv, FrameIsThePlan, SimpleShapesRun, Done
  <2>3. CASE result' = result /\ ~CanBuild(plan) /\ stage' = "done"
    <3>1. result' = Failure
      BY <2>1, <2>3 DEF RoutingInv
    <3>2. FrameIsThePlan'
      BY <3>1, FrameFacts DEF FrameIsThePlan
    <3>3. SimpleShapesRun'
      BY <1>0, <2>1, <2>3, SimpleUdf DEF SimpleShapesRun
    <3>4. QED
      BY <1>0, <2>1, <2>3, <3>2, <3>3 DEF RoutingInv
  <2>4. QED
    BY <1>1, <2>1, <2>2, <2>3
<1>6. CASE RunUdf
  <2>1. plan' = plan /\ stage' = "done" /\ result' = UdfResult(plan)
        /\ ~HasJoin(plan) /\ Handled(plan) /\ CanBuild(plan)
    BY <1>6 DEF RunUdf, Answer, RoutingInv
  <2>2. FrameIsThePlan'
    <3>1. HStackUnderGroupBy' = PlanUnderGroupBy(plan)
      BY <2>1 DEF HStackUnderGroupBy, PlanUnderGroupBy
    <3>2. QED
      BY <1>0, <2>1, <3>1, UdfTells DEF FrameIsThePlan
  <2>3. SimpleShapesRun'
    BY <1>0, <2>1, SimpleUdf DEF SimpleShapesRun
  <2>4. QED
    BY <1>0, <2>1, <2>2, <2>3 DEF RoutingInv
<1>7. CASE RunJoinUdf
  <2>1. plan' = plan /\ stage' = "done" /\ result' = Frame(SubSeq(plan, 1, 2))
        /\ HasJoin(plan) /\ HasParentChain(plan)
    BY <1>7 DEF RunJoinUdf, Answer, RoutingInv
  <2>2. plan \in Seq(PlanNodes) /\ Len(plan) \in Nat
    BY <1>0, PlanShape
  <2>3. result'.ok /\ result'.ops = SubSeq(plan, 1, 2)
    BY <2>1, FrameFacts
  <2>4. ~OperationsAboveJoinChain' => Len(plan) = 2
    <3>1. plan[1].kind = "Join" /\ Len(plan) > 1
      BY <2>1 DEF HasJoin, HasParentChain
    <3>2. OperationsAboveJoinChain' <=> plan[1].kind = "Join" /\ Len(plan) > 2
      BY <2>1 DEF OperationsAboveJoinChain
    <3>3. QED
      <4> DEFINE l == Len(plan)
      <4>1. l \in Nat /\ l > 1 /\ (~OperationsAboveJoinChain' => ~(l > 2))
        BY <2>2, <3>1, <3>2
      <4> HIDE DEF l
      <4>2. ~OperationsAboveJoinChain' => l = 2
        BY <4>1
      <4>3. QED
        BY <4>2 DEF l
  <2>5. Len(plan) = 2 => SubSeq(plan, 1, 2) = plan
    BY <2>2
  <2>6. Wire(plan) = plan
    BY <2>1 DEF Wire, HasJoin
  <2>7. FrameIsThePlan' /\ SimpleShapesRun'
    BY <2>1, <2>3, <2>4, <2>5, <2>6 DEF FrameIsThePlan, SimpleShapesRun
  <2>8. QED
    BY <1>0, <2>1, <2>7 DEF RoutingInv
<1>8. CASE UNCHANGED vars
  BY <1>8 DEF vars, RoutingInv, FrameIsThePlan, SimpleShapesRun, Done, HStackUnderGroupBy, OperationsAboveJoinChain
<1>9. QED
  BY <1>2, <1>3, <1>4, <1>5, <1>6, <1>7, <1>8 DEF Next

LEMMA RoutingInvariant == Spec => []RoutingInv
<1>1. Init => RoutingInv
  BY FrameFacts DEF Init, RoutingInv, FrameIsThePlan, SimpleShapesRun, Done
<1>2. QED
  BY <1>1, RoutingStep, PTL DEF Spec

\* Whoever answers - Polars, the UDF of a chain, or that of a join - and through all of
\* peeling, recursion and nested UDFs, the frame of a query is its plan's, but for the two
\* shapes that FrameIsThePlan names.
THEOREM FramesArePlans == Spec => []FrameIsThePlan
BY RoutingInvariant, PTL DEF RoutingInv

\* A query of a shape the dispatch functions are written for raises neither in the callback
\* nor in its UDF, however many operations it has.
THEOREM SimpleShapesAlwaysRun == Spec => []SimpleShapesRun
BY RoutingInvariant, PTL DEF RoutingInv

-----------------------------------------------------------------------------
\* The arena of a query.
LEMMA MultipleMod ==
  ASSUME NEW q \in Int, NEW n \in Nat \ {0}
  PROVE  (n * q) % n = 0
OBVIOUS

\* Rounding up to a multiple of a.
LEMMA RoundUp ==
  ASSUME NEW c \in Nat, NEW a \in Nat \ {0}
  PROVE  LET s == ((c + a - 1) \div a) * a
         IN  s \in Nat /\ s >= c /\ s % a = 0
<1> DEFINE x == c + a - 1
           q == x \div a
           r == x % a
<1>1. x \in Nat
  OBVIOUS
<1>2. x = a * q + r /\ r \in 0..(a - 1) /\ q \in Int
  BY <1>1
<1>3. q >= 0
  BY <1>1
<1> HIDE DEF q, r
<1>4. q * a = a * q /\ a * q \in Int /\ a * q >= c
  BY <1>2
<1>5. (a * q) % a = 0
  BY <1>2, MultipleMod
<1>6. QED
  BY <1>3, <1>4, <1>5 DEF q

-----------------------------------------------------------------------------
\* Every view lies below the cursor, aligned and apart from the others.
RangeInv ==
  /\ ArenaTypeOK
  /\ \A v \in Views : len[v] > 0 => start[v] + len[v] <= cursor
  /\ ViewsDisjoint

LEMMA RangeAlloc ==
  ASSUME RangeInv, NEW v \in Views, NEW h \in Handles, NEW n \in Sizes, Alloc(v, h, n)
  PROVE  RangeInv'
<1>1. cursor \in Nat /\ Align \in Nat \ {0} /\ n \in Nat /\ Capacity \in Nat
  BY SizeAssumption DEF RangeInv, ArenaTypeOK
<1>2. AlignedStart \in Nat /\ AlignedStart >= cursor /\ AlignedStart % Align = 0
  BY <1>1, RoundUp DEF AlignedStart
<1>3. n > 0 /\ AlignedStart + n <= Capacity /\ cursor' = AlignedStart + n /\ len[v] = 0
  BY DEF Alloc, Fits
<1>4. /\ start'[v] = AlignedStart /\ len'[v] = n
      /\ \A w \in Views \ {v} : start'[w] = start[w] /\ len'[w] = len[w]
  BY DEF Alloc, RangeInv, ArenaTypeOK
<1> HIDE DEF AlignedStart
<1>5. ArenaTypeOK'
  BY <1>1, <1>2, <1>3 DEF RangeInv, ArenaTypeOK, Alloc, SetOwners, Owners
<1>6. \A w \in Views : len'[w] > 0 => start'[w] + len'[w] <= cursor'
  BY <1>1, <1>2, <1>3, <1>4 DEF RangeInv, ArenaTypeOK
<1>7. ASSUME NEW w \in Views, len'[w] > 0
      PROVE  start'[w] % Align = 0 /\ start'[w] + len'[w] <= Capacity
  BY <1>1, <1>2, <1>3, <1>4, <1>7 DEF RangeInv, ViewsDisjoint
<1>8. ASSUME NEW w \in Views, NEW u \in Views \ {w}, len'[w] > 0, len'[u] > 0
      PROVE  start'[w] + len'[w] <= start'[u] \/ start'[u] + len'[u] <= start'[w]
  <2>1. CASE w = v
    BY <1>1, <1>2, <1>4, <1>8, <2>1 DEF RangeInv, ArenaTypeOK
  <2>2. CASE u = v
    BY <1>1, <1>2, <1>4, <1>8, <2>2 DEF RangeInv, ArenaTypeOK
  <2>3. CASE w # v /\ u # v
    BY <1>4, <1>8, <2>3 DEF RangeInv, ViewsDisjoint
  <2>4. QED
    BY <2>1, <2>2, <2>3
<1>9. QED
  BY <1>5, <1>6, <1>7, <1>8 DEF RangeInv, ViewsDisjoint

LEMMA RangeInvariant == ArenaSpec => []RangeInv
<1>1. ArenaInit => RangeInv
  <2> SUFFICES ASSUME ArenaInit PROVE RangeInv
    OBVIOUS
  <2>1. ArenaTypeOK
    <3>1. Arena \in Owners /\ Capacity \in Nat
      BY SizeAssumption DEF Owners
    <3>2. owners \subseteq Owners
      BY <3>1 DEF ArenaInit
    <3>3. cursor \in 0..Capacity /\ start \in [Views -> 0..Capacity] /\ len \in [Views -> 0..Capacity]
      BY <3>1 DEF ArenaInit
    <3>4. freed \in BOOLEAN /\ mtl \subseteq Views /\ inFlight \subseteq Views
      BY DEF ArenaInit
    <3>5. QED
      BY <3>2, <3>3, <3>4 DEF ArenaTypeOK
  <2>2. \A v \in Views : ~(len[v] > 0)
    BY DEF ArenaInit
  <2>3. QED
    BY <2>1, <2>2 DEF RangeInv, ViewsDisjoint
<1>2. RangeInv /\ [ArenaNext]_arenaVars => RangeInv'
  <2> SUFFICES ASSUME RangeInv, [ArenaNext]_arenaVars PROVE RangeInv'
    OBVIOUS
  <2>1. ASSUME NEW v \in Views, NEW h \in Handles, NEW n \in Sizes, Alloc(v, h, n)
        PROVE  RangeInv'
    BY <2>1, RangeAlloc
  <2>2. ASSUME UNCHANGED <<cursor, start, len>>, owners' \subseteq Owners, freed' \in BOOLEAN,
               mtl' \subseteq Views, inFlight' \subseteq Views
        PROVE  RangeInv'
    BY <2>2 DEF RangeInv, ArenaTypeOK, ViewsDisjoint
  <2>3. ASSUME NEW v \in Views, NEW h \in Handles, ShallowClone(v, h) PROVE RangeInv'
    BY <2>2, <2>3 DEF ShallowClone, SetOwners, RangeInv, ArenaTypeOK, Owners
  <2>4. ASSUME NEW v \in Views, NEW h \in Handles, DropHandle(v, h) PROVE RangeInv'
    BY <2>2, <2>4 DEF DropHandle, SetOwners, RangeInv, ArenaTypeOK
  <2>5. ASSUME NEW v \in Views, Bind(v) \/ Complete(v) PROVE RangeInv'
    BY <2>2, <2>5 DEF Bind, Complete, SetOwners, RangeInv, ArenaTypeOK
  <2>6. ASSUME NEW i \in Shares, MakeShare(i) \/ DropShare(i) PROVE RangeInv'
    <3>1. Share(i) \in Owners
      BY DEF Owners
    <3>2. owners \subseteq Owners
      BY DEF RangeInv, ArenaTypeOK
    <3>3. owners' \subseteq Owners /\ freed' \in BOOLEAN
      BY <2>6, <3>1, <3>2 DEF MakeShare, DropShare, SetOwners
    <3>4. QED
      BY <2>2, <2>6, <3>3 DEF MakeShare, DropShare, RangeInv, ArenaTypeOK
  <2>7. CASE DropArena
    BY <2>2, <2>7 DEF DropArena, SetOwners, RangeInv, ArenaTypeOK
  <2>8. CASE UNCHANGED arenaVars
    BY <2>2, <2>8 DEF arenaVars, RangeInv, ArenaTypeOK
  <2>9. QED
    BY <2>1, <2>3, <2>4, <2>5, <2>6, <2>7, <2>8 DEF ArenaNext
<1>3. QED
  BY <1>1, <1>2, PTL DEF ArenaSpec

THEOREM ArenaTypes == ArenaSpec => []ArenaTypeOK
BY RangeInvariant, PTL DEF RangeInv

\* No two views the arena handed out overlap, each is aligned and inside.
THEOREM ViewsNeverOverlap == ArenaSpec => []ViewsDisjoint
BY RangeInvariant, PTL DEF RangeInv

-----------------------------------------------------------------------------
\* The MTLBuffer of a view exists while a handle or a command buffer retains it,
\* and its deallocator block owns the backing buffer for exactly as long.
OwnerInv ==
  /\ freed = (owners = {})
  /\ inFlight \subseteq mtl
  /\ \A v \in Views : HandlesOf(v) # {} => v \in mtl
  /\ \A v \in mtl : Block(v) \in owners

LEMMA OwnersDiffer ==
  /\ \A v, w, h : Block(v) # Handle(w, h)
  /\ \A v, i : Block(v) # Share(i)
  /\ \A v : Block(v) # Arena
  /\ \A v, w : Block(v) = Block(w) => v = w
  /\ \A v, w, h, g : Handle(v, h) = Handle(w, g) => v = w /\ h = g
  /\ \A w, h, i : Handle(w, h) # Share(i)
  /\ \A w, h : Handle(w, h) # Arena
BY DEF Block, Handle, Share, Arena

LEMMA OwnerStep == ArenaTypeOK /\ OwnerInv /\ [ArenaNext]_arenaVars => OwnerInv'
<1> SUFFICES ASSUME ArenaTypeOK, OwnerInv, [ArenaNext]_arenaVars PROVE OwnerInv'
  OBVIOUS
<1> USE OwnersDiffer DEF OwnerInv, HandlesOf, SetOwners
<1>1. ASSUME NEW v \in Views, NEW h \in Handles, NEW n \in Sizes, Alloc(v, h, n) PROVE OwnerInv'
  BY <1>1 DEF Alloc
<1>2. ASSUME NEW v \in Views, NEW h \in Handles, ShallowClone(v, h) PROVE OwnerInv'
  BY <1>2 DEF ShallowClone
<1>3. ASSUME NEW v \in Views, NEW h \in Handles, DropHandle(v, h) PROVE OwnerInv'
  BY <1>3 DEF DropHandle
<1>4. ASSUME NEW v \in Views, Bind(v) PROVE OwnerInv'
  BY <1>4 DEF Bind
<1>5. ASSUME NEW v \in Views, Complete(v) PROVE OwnerInv'
  BY <1>5 DEF Complete
<1>6. ASSUME NEW i \in Shares, MakeShare(i) \/ DropShare(i) PROVE OwnerInv'
  BY <1>6 DEF MakeShare, DropShare
<1>7. CASE DropArena
  BY <1>7 DEF DropArena
<1>8. CASE UNCHANGED arenaVars
  BY <1>8 DEF arenaVars
<1>9. QED
  BY <1>1, <1>2, <1>3, <1>4, <1>5, <1>6, <1>7, <1>8 DEF ArenaNext

\* The backing bytes outlive every handle and every command buffer on a view,
\* whether or not the arena itself is still there.
THEOREM ViewsNeverDangle == ArenaSpec => []NoAccessAfterFree
<1>1. ArenaInit => OwnerInv
  BY OwnersDiffer DEF ArenaInit, OwnerInv, HandlesOf
<1>2. OwnerInv => NoAccessAfterFree
  BY DEF OwnerInv, NoAccessAfterFree, HandlesOf
<1>3. QED
  BY <1>1, <1>2, OwnerStep, ArenaTypes, PTL DEF ArenaSpec

-----------------------------------------------------------------------------
\* The shader library and the caches of pipeline states.

\* What was handed out is what the cache holds, and the cache holds pipeline states
\* of the key they are filed under.
CacheInv ==
  /\ TypeOK
  /\ \A a \in handed : cache[KeyOf[a[1]]] = a[2]
  /\ \A t \in Threads : pc[t] = "insert" => fresh[t].shape = shape[t]
  /\ \A k \in HashKeys : cache[k] # NoPso => KeyOf[cache[k].shape] = k

LEMMA CacheInit == PsoInit => CacheInv
BY KeyAssumption, BoundAssumption DEF PsoInit, CacheInv, TypeOK, PCs

LEMMA CacheStep == CacheInv /\ [PsoNext]_psoVars => CacheInv'
<1> SUFFICES ASSUME CacheInv, [PsoNext]_psoVars PROVE CacheInv'
  OBVIOUS
<1> USE KeyAssumption, BoundAssumption, NoPsoAssumption DEF CacheInv, TypeOK, PCs, Goto, Key
<1>1. ASSUME NEW t \in Threads, Request(t) PROVE CacheInv'
  BY <1>1 DEF Request
<1>2. ASSUME NEW t \in Threads, Hit(t) PROVE CacheInv'
  BY <1>2 DEF Hit, Return
<1>3. ASSUME NEW t \in Threads, Miss(t) PROVE CacheInv'
  BY <1>3 DEF Miss
<1>4. ASSUME NEW t \in Threads, BuildPso(t) PROVE CacheInv'
  BY <1>4 DEF BuildPso, Psos
<1>5. ASSUME NEW t \in Threads, BuildFails(t) PROVE CacheInv'
  BY <1>5 DEF BuildFails
<1>6. ASSUME NEW t \in Threads, Insert(t) PROVE CacheInv'
  BY <1>6 DEF Insert, Return
<1>7. CASE UNCHANGED psoVars
  BY <1>7 DEF psoVars
<1>8. QED
  BY <1>1, <1>2, <1>3, <1>4, <1>5, <1>6, <1>7 DEF PsoNext, Answering

LEMMA CacheInvariant == PsoSpec => []CacheInv
BY CacheInit, CacheStep, PTL DEF PsoSpec

\* For any hash, and however the threads race: callers with one key get one pipeline state,
\* and it was compiled for a shape with that key.
THEOREM PointerIdentity == PsoSpec => []OnePsoPerKey
<1>1. CacheInv => OnePsoPerKey
  <2> SUFFICES ASSUME CacheInv, NEW a \in handed, NEW b \in handed
               PROVE  KeyOf[a[1]] = KeyOf[b[2].shape] <=> a[2] = b[2]
    BY DEF OnePsoPerKey
  <2>1. \A x \in handed : /\ x[1] \in Shapes /\ x[2] \in Psos
                          /\ cache[KeyOf[x[1]]] = x[2]
                          /\ KeyOf[x[2].shape] = KeyOf[x[1]]
    BY KeyAssumption, NoPsoAssumption DEF CacheInv, TypeOK
  <2>2. QED
    BY <2>1
<1>2. QED
  BY <1>1, CacheInvariant, PTL

\* Where no two shapes have the same key, as entry points have not, a caller gets the
\* pipeline state compiled for its own shape.
THEOREM RightPso ==
  ASSUME \A s1, s2 \in Shapes : KeyOf[s1] = KeyOf[s2] => s1 = s2
  PROVE  PsoSpec => []PsoMatchesShape
<1>1. TypeOK /\ OnePsoPerKey => PsoMatchesShape
  BY DEF TypeOK, Psos, OnePsoPerKey, PsoMatchesShape
<1>2. PsoSpec => []TypeOK
  BY CacheInvariant, PTL DEF CacheInv
<1>3. QED
  BY <1>1, <1>2, PointerIdentity, PTL

-----------------------------------------------------------------------------
(***************************************************************************)
(* The loading.  Each OnceLock is busy exactly while one thread is in its  *)
(* initialiser.                                                            *)
(***************************************************************************)

LoadPCs == {"idle", "shared", "materialize", "create", "write", "load"}
Results == {"unset", "busy", "ok", "err"}

\* The thread is inside the initialiser of TEMP_METALLIB ...
Materializing(t) == loadPc[t] \in {"create", "write"}

\* ... or inside the one of INSTANCE.
Sharing(t) == shared[t] /\ loadPc[t] \in {"materialize", "create", "write", "load"}

LoadTypeOK ==
  /\ loadPc \in [Threads -> LoadPCs]
  /\ shared \in [Threads -> BOOLEAN]
  /\ temp \in Results /\ instance \in Results

\* One thread writes the file, before TEMP_METALLIB is set; once it is set to a path, the
\* file is whole and stays so.
FileInv ==
  /\ \A t \in Threads : Materializing(t) => temp = "busy"
  /\ \A t, u \in Threads : Materializing(t) /\ Materializing(u) => t = u
  /\ temp = "ok" => file = "complete"
  /\ \A t \in Threads : loadPc[t] = "load" => temp = "ok"
  /\ read \subseteq {"complete"}

\* One thread loads for shared_library, before INSTANCE is set; what a caller returned is
\* what INSTANCE holds.
InstanceInv ==
  /\ \A t \in Threads : Sharing(t) => instance = "busy"
  /\ \A t, u \in Threads : Sharing(t) /\ Sharing(u) => t = u
  /\ outcomes # {} => instance \in {"ok", "err"} /\ outcomes = {instance}

LoadInv == LoadTypeOK /\ FileInv /\ InstanceInv

LEMMA LoadInit == Loader!Init => LoadInv
BY DEF Loader!Init, LoadInv, LoadTypeOK, LoadPCs, Results, FileInv, InstanceInv, Materializing, Sharing

\* One step per action of a thread.
LEMMA LoadStep == LoadInv /\ [Loader!Next]_loaderVars => LoadInv'
<1> SUFFICES ASSUME LoadInv, [Loader!Next]_loaderVars PROVE LoadInv'
  OBVIOUS
<1> USE DEF LoadInv, LoadTypeOK, LoadPCs, Results, FileInv, InstanceInv, Materializing, Sharing,
            Loader!Goto
<1>1. ASSUME NEW t \in Threads, Loader!CallShared(t) PROVE LoadInv'
  BY <1>1 DEF Loader!CallShared
<1>2. ASSUME NEW t \in Threads, Loader!CallLoad(t) PROVE LoadInv'
  BY <1>2 DEF Loader!CallLoad
<1>3. ASSUME NEW t \in Threads, Loader!EnterShared(t) PROVE LoadInv'
  BY <1>3 DEF Loader!EnterShared
<1>4. ASSUME NEW t \in Threads, Loader!ReturnShared(t) PROVE LoadInv'
  BY <1>4 DEF Loader!ReturnShared
<1>5. ASSUME NEW t \in Threads, Loader!EnterMaterialize(t) PROVE LoadInv'
  BY <1>5 DEF Loader!EnterMaterialize
<1>6. ASSUME NEW t \in Threads, Loader!Materialized(t) PROVE LoadInv'
  BY <1>6 DEF Loader!Materialized
<1>7. ASSUME NEW t \in Threads, Loader!MaterializeFailed(t) PROVE LoadInv'
  BY <1>7 DEF Loader!MaterializeFailed, Loader!Loaded
<1>8. ASSUME NEW t \in Threads, Loader!CreateFile(t) PROVE LoadInv'
  BY <1>8 DEF Loader!CreateFile
<1>9. ASSUME NEW t \in Threads, Loader!WriteFile(t) PROVE LoadInv'
  BY <1>9 DEF Loader!WriteFile
<1>10. ASSUME NEW t \in Threads, Loader!FileFails(t) PROVE LoadInv'
  BY <1>10 DEF Loader!FileFails
<1>11. ASSUME NEW t \in Threads, Loader!LoadLibrary(t) PROVE LoadInv'
  BY <1>11, ZenonT(60) DEF Loader!LoadLibrary, Loader!Loaded
<1>12. CASE UNCHANGED loaderVars
  BY <1>12 DEF loaderVars
<1>13. QED
  BY <1>1, <1>2, <1>3, <1>4, <1>5, <1>6, <1>7, <1>8, <1>9, <1>10, <1>11, <1>12
     DEF Loader!Next, Loader!Progress

\* Every step of the composition is a step of its loading and one of its cache.
LEMMA LibrarySteps ==
  [LibraryNext]_libraryVars => [Loader!Next]_loaderVars /\ [PsoNext]_psoVars
<1> SUFFICES ASSUME [LibraryNext]_libraryVars PROVE [Loader!Next]_loaderVars /\ [PsoNext]_psoVars
  OBVIOUS
<1>1. ASSUME NEW t \in Threads, CallLoader(t) PROVE Loader!Next /\ UNCHANGED psoVars
  BY <1>1 DEF CallLoader, Loader!Next
<1>2. ASSUME NEW t \in Threads, Loading(t) PROVE Loader!Next /\ UNCHANGED psoVars
  BY <1>2 DEF Loading, Loader!Next
<1>3. ASSUME NEW t \in Threads, RequestPipeline(t) PROVE PsoNext /\ UNCHANGED loaderVars
  BY <1>3 DEF RequestPipeline, PsoNext
<1>4. ASSUME NEW t \in Threads, Pipeline(t) PROVE PsoNext /\ UNCHANGED loaderVars
  BY <1>4 DEF Pipeline, PsoNext
<1>5. CASE UNCHANGED libraryVars
  BY <1>5 DEF libraryVars
<1>6. QED
  BY <1>1, <1>2, <1>3, <1>4, <1>5 DEF LibraryNext

LEMMA LoadInvariant == LibrarySpec => []LoadInv
<1>1. LibraryInit => LoadInv
  BY LoadInit DEF LibraryInit
<1>2. LoadInv /\ [LibraryNext]_libraryVars => LoadInv'
  BY LibrarySteps, LoadStep
<1>3. QED
  BY <1>1, <1>2, PTL DEF LibrarySpec

\* The composition refines both of its parts: load and pipeline do not reach into each
\* other's state.
THEOREM LibraryImplementsParts == LibrarySpec => PsoSpec /\ Loader!Spec
<1>1. LibraryInit => PsoInit /\ Loader!Init
  BY DEF LibraryInit
<1>2. [LibraryNext]_libraryVars => [PsoNext]_psoVars /\ [Loader!Next]_(Loader!vars)
  BY LibrarySteps DEF loaderVars, Loader!vars
<1>3. QED
  BY <1>1, <1>2, PTL DEF LibrarySpec, PsoSpec, Loader!Spec

\* However many threads materialise, load and fail, Metal reads the temporary metallib only
\* when write_all and sync_all have completed it.
THEOREM MetalReadsWholeFiles == LibrarySpec => []NoHalfWrittenRead
<1>1. LoadInv => NoHalfWrittenRead
  BY DEF LoadInv, FileInv, NoHalfWrittenRead, Loader!NoHalfWrittenRead
<1>2. QED
  BY <1>1, LoadInvariant, PTL

\* However many calls of shared_library race, all that return in a process return the result
\* of the first; a failure is not retried.
THEOREM CallersAgree == LibrarySpec => []OneOutcome
<1>1. LoadInv => OneOutcome
  \* The instance of ShaderLoad carries a Cardinality of its own.
  <2>0. Loader!Cardinality(outcomes) = Cardinality(outcomes)
    BY DEF Loader!Cardinality, Cardinality
  <2> SUFFICES ASSUME LoadInv PROVE Cardinality(outcomes) <= 1
    BY <2>0 DEF OneOutcome, Loader!OneOutcome
  <2>1. CASE outcomes = {}
    BY <2>1, FS_EmptySet
  <2>2. CASE outcomes = {instance}
    BY <2>2, FS_Singleton
  <2>3. QED
    BY <2>1, <2>2 DEF LoadInv, InstanceInv
<1>2. QED
  BY <1>1, LoadInvariant, PTL

-----------------------------------------------------------------------------
\* The slots of this query, and the values of a buffer.

SlotSet == [agg : Aggs, role : {"value", "count"}]

Values(s) == IF IsCounter(s) \/ (IsFloat(s) /\ SlotOp(s) = "Sum") THEN Int
             ELSE IF IsFloat(s) THEN -Infinity..Infinity ELSE -Half..(Half - 1)

Op(s) == [x \in Values(s) |-> [y \in Values(s) |-> Combine(s, x, y)]]

Chose == query \in Queries /\ column \in Columns

LEMMA Bounds ==
  /\ Half \in Nat \ {0} /\ Infinity \in Nat /\ Infinity > Half /\ Null \notin Int
  /\ MaxGroups \in Nat \ {0} /\ Lanes \in Nat \ {0} /\ Simds \in Nat \ {0} /\ MaxTgs \in Nat \ {0}
BY AggregateAssumption

LEMMA QueryFacts ==
  ASSUME Chose
  PROVE  /\ query.dtype \in {"I32", "F32", "I64", "F64"}
         /\ query.aggs \in Seq({"Sum", "Min", "Max", "Mean", "Count", "Len"})
         /\ Aggs = 1..Len(query.aggs) /\ Len(query.aggs) \in Nat
         /\ \A a \in Aggs : query.aggs[a] \in {"Sum", "Min", "Max", "Mean", "Count", "Len"}
<1>1. /\ query.dtype \in {"I32", "F32", "I64", "F64"}
      /\ query.aggs \in Seq({"Sum", "Min", "Max", "Mean", "Count", "Len"})
  BY AggregateAssumption DEF Chose
<1>2. QED
  BY <1>1 DEF Aggs

LEMMA SlotOps ==
  ASSUME Chose, NEW s \in SlotSet
  PROVE  SlotOp(s) \in {"Sum", "Min", "Max", "Count", "Len"}
<1>1. s.agg \in Aggs /\ s.role \in {"value", "count"}
  BY DEF SlotSet
<1>2. query.aggs[s.agg] \in {"Sum", "Min", "Max", "Mean", "Count", "Len"}
  BY <1>1, QueryFacts
<1>3. QED
  BY <1>1, <1>2 DEF SlotOp

\* What a slot does with two values is one of four things.
Adds(s)  == /\ Values(s) = Int /\ Identity(s) = 0 /\ SlotOp(s) \notin {"Min", "Max"}
            /\ \A x, y \in Int : Combine(s, x, y) = x + y
Wraps(s) == /\ Values(s) = -Half..(Half - 1) /\ Identity(s) = 0
            /\ SlotOp(s) \notin {"Min", "Max"} /\ ~IsFloat(s)
            /\ \A x, y \in Int : Combine(s, x, y) = Wrap(x + y)
Minimizes(s) == /\ \E lo \in Int, hi \in Int : lo <= hi /\ Values(s) = lo..hi /\ Identity(s) = hi
                /\ SlotOp(s) = "Min"
                /\ \A x, y \in Int : Combine(s, x, y) = IF y < x THEN y ELSE x
Maximizes(s) == /\ \E lo \in Int, hi \in Int : lo <= hi /\ Values(s) = lo..hi /\ Identity(s) = lo
                /\ SlotOp(s) = "Max"
                /\ \A x, y \in Int : Combine(s, x, y) = IF y > x THEN y ELSE x

LEMMA SlotKinds ==
  ASSUME Chose, NEW s \in SlotSet
  PROVE  Adds(s) \/ Wraps(s) \/ Minimizes(s) \/ Maximizes(s)
<1>1. SlotOp(s) \in {"Sum", "Min", "Max", "Count", "Len"}
  BY SlotOps
<1>2. Half \in Nat \ {0} /\ Infinity \in Nat
  BY Bounds
<1>3. CASE IsCounter(s)
  <2>1. SlotOp(s) \in {"Count", "Len"} /\ Values(s) = Int /\ Identity(s) = 0
    BY <1>3 DEF IsCounter, Values, Identity
  <2>2. \A x, y \in Int : Combine(s, x, y) = x + y
    BY <1>3, <2>1 DEF Combine
  <2>3. QED
    BY <2>1, <2>2 DEF Adds
<1>4. CASE SlotOp(s) = "Sum"
  <2>1. ~IsCounter(s) /\ Identity(s) = 0
    BY <1>4 DEF IsCounter, Identity
  <2>2. CASE IsFloat(s)
    <3>1. Values(s) = Int
      BY <1>4, <2>2 DEF Values
    <3>2. \A x, y \in Int : Combine(s, x, y) = x + y
      BY <1>4, <2>2 DEF Combine
    <3>3. QED
      BY <1>4, <2>1, <3>1, <3>2 DEF Adds
  <2>3. CASE ~IsFloat(s)
    <3>1. Values(s) = -Half..(Half - 1)
      BY <2>1, <2>3 DEF Values
    <3>2. \A x, y \in Int : Combine(s, x, y) = Wrap(x + y)
      BY <1>4, <2>1, <2>3 DEF Combine
    <3>3. QED
      BY <1>4, <2>1, <2>3, <3>1, <3>2 DEF Wraps
  <2>4. QED
    BY <2>2, <2>3
<1>5. CASE SlotOp(s) = "Min"
  <2>1. ~IsCounter(s)
    BY <1>5 DEF IsCounter
  <2>2. \A x, y \in Int : Combine(s, x, y) = IF y < x THEN y ELSE x
    BY <1>5 DEF Combine
  <2>3. \E lo \in Int, hi \in Int : lo <= hi /\ Values(s) = lo..hi /\ Identity(s) = hi
    <3>1. CASE IsFloat(s)
      <4>1. Values(s) = -Infinity..Infinity /\ Identity(s) = Infinity
        BY <1>5, <2>1, <3>1 DEF Values, Identity
      <4>2. QED
        BY <1>2, <4>1
    <3>2. CASE ~IsFloat(s)
      <4>1. Values(s) = -Half..(Half - 1) /\ Identity(s) = Half - 1
        BY <1>5, <2>1, <3>2 DEF Values, Identity
      <4>2. QED
        BY <1>2, <4>1
    <3>3. QED
      BY <3>1, <3>2
  <2>4. QED
    BY <1>5, <2>2, <2>3 DEF Minimizes
<1>6. CASE SlotOp(s) = "Max"
  <2>1. ~IsCounter(s)
    BY <1>6 DEF IsCounter
  <2>2. \A x, y \in Int : Combine(s, x, y) = IF y > x THEN y ELSE x
    BY <1>6 DEF Combine
  <2>3. \E lo \in Int, hi \in Int : lo <= hi /\ Values(s) = lo..hi /\ Identity(s) = lo
    <3>1. CASE IsFloat(s)
      <4>1. Values(s) = -Infinity..Infinity /\ Identity(s) = -Infinity
        BY <1>6, <2>1, <3>1 DEF Values, Identity
      <4>2. QED
        BY <1>2, <4>1
    <3>2. CASE ~IsFloat(s)
      <4>1. Values(s) = -Half..(Half - 1) /\ Identity(s) = -Half
        BY <1>6, <2>1, <3>2 DEF Values, Identity
      <4>2. QED
        BY <1>2, <4>1
    <3>3. QED
      BY <3>1, <3>2
  <2>4. QED
    BY <1>6, <2>2, <2>3 DEF Maximizes
<1>7. QED
  BY <1>1, <1>3, <1>4, <1>5, <1>6 DEF IsCounter

\* Wrapped addition.
LEMMA WrapCases ==
  ASSUME NEW x \in -Half..(Half - 1), NEW y \in -Half..(Half - 1)
  PROVE  Wrap(x + y) = IF x + y >= Half THEN x + y - 2 * Half
                       ELSE IF x + y < -Half THEN x + y + 2 * Half ELSE x + y
<1>1. Half \in Nat \ {0}
  BY Bounds
<1>2. PICK n \in Nat \ {0}, z \in Int : n = 2 * Half /\ z = x + y + Half
  BY <1>1
<1>3. /\ z >= 0 /\ z < n => z % n = z
      /\ z >= n /\ z < 2 * n => z % n = z - n
      /\ z < 0 /\ z >= -n => z % n = z + n
  BY ModRange
<1>4. Wrap(x + y) = (z % n) - Half
  BY <1>2 DEF Wrap
<1>5. QED
  BY <1>1, <1>2, <1>3, <1>4

LEMMA CombineMonoid ==
  ASSUME Chose, NEW s \in SlotSet
  PROVE  Monoid(Values(s), Op(s), Identity(s))
<1>0. PICK V, e : V = Values(s) /\ e = Identity(s)
  OBVIOUS
<1>1. CASE Adds(s)
  <2>1. V = Int /\ e = 0 /\ \A x, y \in Int : Combine(s, x, y) = x + y
    BY <1>0, <1>1 DEF Adds
  <2>2. Op(s) = [x \in Int |-> [y \in Int |-> x + y]]
    BY <1>0, <2>1 DEF Op
  <2>3. QED
    BY <1>0, <2>1, <2>2 DEF Monoid
<1>2. CASE Wraps(s)
  <2>0. Half \in Nat \ {0}
    BY Bounds
  <2>1. V = -Half..(Half - 1) /\ e = 0 /\ \A x, y \in Int : Combine(s, x, y) = Wrap(x + y)
    BY <1>0, <1>2 DEF Wraps
  <2>2. PICK m : m = Op(s)
    OBVIOUS
  <2>3. m = [x \in V |-> [y \in V |-> Combine(s, x, y)]]
    BY <1>0, <2>2 DEF Op
  <2>4. ASSUME NEW x \in V, NEW y \in V
        PROVE  m[x][y] = IF x + y >= Half THEN x + y - 2 * Half
                         ELSE IF x + y < -Half THEN x + y + 2 * Half ELSE x + y
    <3>1. x \in Int /\ y \in Int
      BY <2>1
    <3>2. m[x][y] = Wrap(x + y)
      BY <2>1, <2>3, <3>1
    <3>3. x \in -Half..(Half - 1) /\ y \in -Half..(Half - 1)
      BY <2>1
    <3>4. QED
      BY <3>2, <3>3, WrapCases
  <2>5. ASSUME NEW x \in V, NEW y \in V PROVE m[x][y] \in V
    <3>1. x \in -Half..(Half - 1) /\ y \in -Half..(Half - 1)
      BY <2>1
    <3>2. m[x][y] \in -Half..(Half - 1)
      BY <2>0, <2>4, <3>1
    <3>3. QED
      BY <2>1, <3>2
  <2>6. m \in [V -> [V -> V]]
    <3>1. \A x, y \in V : m[x][y] = Combine(s, x, y)
      BY <2>3
    <3>2. QED
      BY <2>3, <2>5, <3>1
  <2>7. ASSUME NEW x \in V PROVE m[e][x] = x
    <3>1. x \in -Half..(Half - 1) /\ e \in V /\ e = 0
      BY <2>0, <2>1
    <3>2. m[e][x] = IF e + x >= Half THEN e + x - 2 * Half
                    ELSE IF e + x < -Half THEN e + x + 2 * Half ELSE e + x
      BY <2>4, <3>1
    <3>3. QED
      BY <2>0, <3>1, <3>2
  <2>8. \A x, y \in V : m[x][y] = m[y][x]
    <3>1. SUFFICES ASSUME NEW x \in V, NEW y \in V PROVE m[x][y] = m[y][x]
      OBVIOUS
    <3>2. x \in Int /\ y \in Int
      BY <2>1
    <3>3. QED
      BY <2>0, <2>4, <3>2
  <2>9. ASSUME NEW x \in V, NEW y \in V, NEW z \in V PROVE m[x][m[y][z]] = m[m[x][y]][z]
    <3>1. PICK u \in V, v \in V : u = m[y][z] /\ v = m[x][y]
      BY <2>5
    <3>2. x \in -Half..(Half - 1) /\ y \in -Half..(Half - 1) /\ z \in -Half..(Half - 1)
          /\ u \in -Half..(Half - 1) /\ v \in -Half..(Half - 1)
      BY <2>1
    <3>3. u = IF y + z >= Half THEN y + z - 2 * Half
              ELSE IF y + z < -Half THEN y + z + 2 * Half ELSE y + z
      BY <2>4, <3>1
    <3>4. v = IF x + y >= Half THEN x + y - 2 * Half
              ELSE IF x + y < -Half THEN x + y + 2 * Half ELSE x + y
      BY <2>4, <3>1
    <3>5. m[x][u] = IF x + u >= Half THEN x + u - 2 * Half
                    ELSE IF x + u < -Half THEN x + u + 2 * Half ELSE x + u
      BY <2>4
    <3>6. m[v][z] = IF v + z >= Half THEN v + z - 2 * Half
                    ELSE IF v + z < -Half THEN v + z + 2 * Half ELSE v + z
      BY <2>4
    <3>7. m[x][u] = m[v][z]
      BY <2>0, <3>2, <3>3, <3>4, <3>5, <3>6
    <3>8. QED
      BY <3>1, <3>7
  <2>10. e \in V
    BY <2>0, <2>1
  <2>11. Monoid(V, m, e)
    BY <2>6, <2>7, <2>8, <2>9, <2>10 DEF Monoid
  <2>12. QED
    BY <1>0, <2>2, <2>11
<1>3. CASE Minimizes(s)
  <2>1. PICK lo \in Int, hi \in Int : lo <= hi /\ V = lo..hi /\ e = hi
    BY <1>0, <1>3 DEF Minimizes
  <2>2. \A x, y \in Int : Combine(s, x, y) = IF y < x THEN y ELSE x
    BY <1>3 DEF Minimizes
  <2>3. Op(s) = [x \in V |-> [y \in V |-> IF y < x THEN y ELSE x]]
    BY <1>0, <2>1, <2>2 DEF Op
  <2>4. QED
    BY <1>0, <2>1, <2>3 DEF Monoid
<1>4. CASE Maximizes(s)
  <2>1. PICK lo \in Int, hi \in Int : lo <= hi /\ V = lo..hi /\ e = lo
    BY <1>0, <1>4 DEF Maximizes
  <2>2. \A x, y \in Int : Combine(s, x, y) = IF y > x THEN y ELSE x
    BY <1>4 DEF Maximizes
  <2>3. Op(s) = [x \in V |-> [y \in V |-> IF y > x THEN y ELSE x]]
    BY <1>0, <2>1, <2>2 DEF Op
  <2>4. QED
    BY <1>0, <2>1, <2>3 DEF Monoid
<1>5. QED
  BY <1>1, <1>2, <1>3, <1>4, SlotKinds

\* Fold is the fold in this monoid.
LEMMA FoldIsFoldOf ==
  ASSUME Chose, NEW s \in SlotSet, NEW base \in Values(s), NEW D, NEW a,
         Family(a, D, Values(s))
  PROVE  Fold(s, base, a) = FoldOf(Op(s), base, a)
<1>1. PICK V, m : V = Values(s) /\ m = Op(s)
  OBVIOUS
<1>2. Monoid(V, m, Identity(s))
  BY <1>1, CombineMonoid
<1>3. IsFiniteSet(D) /\ DOMAIN a = D /\ \A x \in D : a[x] \in V
  BY <1>1 DEF Family
<1>4. \A x, y \in V : m[x][y] = Combine(s, x, y)
  BY <1>1 DEF Op
<1>5. PICK h : h = FoldMap(m, base, a)
  OBVIOUS
<1>6. FoldsOver(h, m, base, a, D, V) /\ FoldOf(m, base, a) = h[D]
  <2>1. Family(a, D, V) /\ base \in V
    BY <1>1
  <2>2. QED
    BY <1>2, <1>5, <2>1, FoldMapFacts
<1>7. h \in [SUBSET D -> V] /\ Folds(h, D, base, Applied(m, a))
  BY <1>6 DEF FoldsOver
<1> DEFINE Value(g, T) == IF T = {} THEN base ELSE Combine(s, a[Chosen(T)], g[T \ {Chosen(T)}])
<1>8. h = [T \in SUBSET D |-> Value(h, T)]
  <2>1. ASSUME NEW T \in SUBSET D PROVE h[T] = Value(h, T)
    <3>1. CASE T = {}
      BY <1>7, <3>1 DEF Folds
    <3>2. CASE T # {}
      <4>1. Chosen(T) \in T
        BY <3>2 DEF Chosen
      <4>2. h[T] = Applied(m, a)[Chosen(T)][h[T \ {Chosen(T)}]]
        BY <1>7, <3>2 DEF Folds
      <4>3. Applied(m, a)[Chosen(T)] = m[a[Chosen(T)]]
        BY <1>3, <4>1 DEF Applied
      <4>4. a[Chosen(T)] \in V /\ h[T \ {Chosen(T)}] \in V
        BY <1>3, <1>7, <4>1
      <4>5. QED
        BY <1>4, <3>2, <4>2, <4>3, <4>4
    <3>3. QED
      BY <3>1, <3>2
  <2>2. DOMAIN h = SUBSET D /\ h = [T \in DOMAIN h |-> h[T]]
    BY <1>7
  <2>3. QED
    BY <2>1, <2>2
<1>9. PICK g : g = CHOOSE f : f = [T \in SUBSET D |-> Value(f, T)]
  OBVIOUS
<1>10. g = [T \in SUBSET D |-> Value(g, T)]
  <2> HIDE DEF Value
  <2>1. \E f : f = [T \in SUBSET D |-> Value(f, T)]
    BY <1>8
  <2>2. QED
    BY <1>9, <2>1
<1>11. Fold(s, base, a) = g[D]
  BY <1>3, <1>9 DEF Fold, FoldFunction, FoldFunctionOnSet, MapThenFoldSet, Chosen
<1> DEFINE G == {T \in SUBSET D : g[T] = h[T]}
<1>12. ASSUME NEW T \in SUBSET D, T # {}, \A x \in T : T \ {x} \in G PROVE T \in G
  <2>1. Chosen(T) \in T
    BY <1>12 DEF Chosen
  <2>2. g[T \ {Chosen(T)}] = h[T \ {Chosen(T)}]
    BY <1>12, <2>1
  <2>3. g[T] = Value(g, T) /\ h[T] = Value(h, T)
    <3> HIDE DEF Value
    <3>1. QED
      BY <1>8, <1>10
  <2>4. QED
    BY <2>2, <2>3
<1>13. {} \in G
  <2>1. g[{}] = Value(g, {}) /\ h[{}] = Value(h, {})
    <3> HIDE DEF Value
    <3>1. QED
      BY <1>8, <1>10
  <2>2. QED
    BY <2>1
<1>14. G = SUBSET D
  <2>1. G \in SUBSET (SUBSET D)
    OBVIOUS
  <2> HIDE DEF G
  <2>2. QED
    BY <1>3, <1>12, <1>13, <2>1, SubsetInduction
<1>15. g[D] = h[D]
  BY <1>14
<1>16. QED
  BY <1>1, <1>6, <1>11, <1>15

-----------------------------------------------------------------------------
\* Rows and what is reduced from them.

Taken(s, R, g)   == {r \in R \cap Counted(s) : column.groups[r] = g}
Amounts(s, R, g) == [r \in Taken(s, R, g) |-> Amount(s, r)]

LEMMA ColumnFacts ==
  ASSUME Chose
  PROVE  /\ NRows \in Nat \ {0} /\ Rows = 1..NRows /\ IsFiniteSet(Rows)
         /\ \A r \in Rows : column.values[r] \in {Null} \cup -Half..(Half - 1)
         /\ \A r \in Rows : column.groups[r] \in Groups
         /\ NGroups \in Nat \ {0} /\ Groups = 0..(NGroups - 1)
<1>1. /\ column.values \in Seq({Null} \cup -Half..(Half - 1)) /\ column.values # <<>>
      /\ \E n \in 1..Len(column.values) :
           /\ column.groups \in [1..Len(column.values) -> 0..(n - 1)]
           /\ \A g \in 0..(n - 1) : \E r \in 1..Len(column.values) : column.groups[r] = g
  BY AggregateAssumption DEF Chose
<1>2. NRows \in Nat \ {0} /\ Rows = 1..NRows /\ NRows = Len(column.values)
      /\ \A r \in Rows : column.values[r] \in {Null} \cup -Half..(Half - 1)
  BY <1>1 DEF NRows, Rows
<1>3. IsFiniteSet(Rows)
  BY <1>2, FS_Interval
<1>4. PICK n \in 1..NRows : /\ column.groups \in [Rows -> 0..(n - 1)]
                            /\ \A g \in 0..(n - 1) : \E r \in Rows : column.groups[r] = g
  BY <1>1, <1>2
<1>5. Groups = 0..(n - 1)
  BY <1>4 DEF Groups
<1>6. NGroups = n
  <2>1. n \in Nat /\ n >= 1
    BY <1>2, <1>4
  <2>2. Cardinality(0..(n - 1)) = n
    BY <2>1, FS_Interval
  <2>3. QED
    BY <1>5, <2>2 DEF NGroups
<1>7. \A r \in Rows : column.groups[r] \in Groups
  BY DEF Groups
<1>8. QED
  BY <1>2, <1>3, <1>5, <1>6, <1>7

LEMMA CountedRows ==
  ASSUME Chose, NEW s
  PROVE  Counted(s) \in SUBSET Rows /\ IsFiniteSet(Counted(s))
BY ColumnFacts, FS_Subset DEF Counted

LEMMA AmountValue ==
  ASSUME Chose, NEW s \in SlotSet, NEW r \in Counted(s)
  PROVE  Amount(s, r) \in Values(s)
<1>0. Half \in Nat \ {0} /\ Infinity \in Nat /\ Infinity > Half /\ Null \notin Int
  BY Bounds
<1>1. CASE IsCounter(s)
  BY <1>1 DEF Amount, Values
<1>2. CASE ~IsCounter(s)
  <2>1. SlotOp(s) # "Len"
    BY <1>2 DEF IsCounter
  <2>2. column.values[r] \in -Half..(Half - 1)
    BY <2>1, ColumnFacts DEF Counted, Valid
  <2>3. Amount(s, r) = column.values[r]
    BY <1>2 DEF Amount
  <2>4. QED
    BY <1>0, <1>2, <2>2, <2>3 DEF Values
<1>3. QED
  BY <1>1, <1>2

LEMMA AmountsFamily ==
  ASSUME Chose, NEW s \in SlotSet, NEW R, NEW g
  PROVE  Family(Amounts(s, R, g), Taken(s, R, g), Values(s))
<1>1. Taken(s, R, g) \in SUBSET Counted(s)
  BY DEF Taken
<1>2. IsFiniteSet(Taken(s, R, g))
  BY <1>1, CountedRows, FS_Subset
<1>3. \A r \in Taken(s, R, g) : Amount(s, r) \in Values(s)
  BY <1>1, AmountValue
<1>4. QED
  BY <1>2, <1>3 DEF Family, Amounts

LEMMA ReduceIs ==
  ASSUME Chose, NEW s \in SlotSet, NEW R, NEW g
  PROVE  /\ Reduce(s, R, g) = FoldOf(Op(s), Identity(s), Amounts(s, R, g))
         /\ Reduce(s, R, g) \in Values(s)
         /\ Identity(s) \in Values(s)
<1>1. Monoid(Values(s), Op(s), Identity(s))
  BY CombineMonoid
<1>2. Identity(s) \in Values(s)
  BY <1>1 DEF Monoid
<1>3. Family(Amounts(s, R, g), Taken(s, R, g), Values(s))
  BY AmountsFamily
<1>4. Reduce(s, R, g) = Fold(s, Identity(s), Amounts(s, R, g))
  BY DEF Reduce, Amounts, Taken
<1>5. Fold(s, Identity(s), Amounts(s, R, g)) = FoldOf(Op(s), Identity(s), Amounts(s, R, g))
  BY <1>2, <1>3, FoldIsFoldOf
<1>6. FoldOf(Op(s), Identity(s), Amounts(s, R, g)) \in Values(s)
  BY <1>1, <1>2, <1>3, FoldOfValue
<1>7. QED
  BY <1>2, <1>4, <1>5, <1>6

\* Reducing the rows class by class.
LEMMA ReduceClasses ==
  ASSUME Chose, NEW s \in SlotSet, NEW R, NEW g, NEW J, IsFiniteSet(J), NEW class \in [R -> J],
         NEW b, b = [j \in J |-> Reduce(s, {r \in R : class[r] = j}, g)]
  PROVE  Family(b, J, Values(s)) /\ Fold(s, Identity(s), b) = Reduce(s, R, g)
<1>1. PICK V, m, e : V = Values(s) /\ m = Op(s) /\ e = Identity(s)
  OBVIOUS
<1>2. Monoid(V, m, e) /\ e \in V
  BY <1>1, CombineMonoid, ReduceIs
<1>3. PICK D, a : D = Taken(s, R, g) /\ a = Amounts(s, R, g)
  OBVIOUS
<1>4. Family(a, D, V)
  BY <1>1, <1>3, AmountsFamily
<1>5. PICK c : c = [x \in D |-> class[x]]
  OBVIOUS
<1>6. c \in [D -> J]
  BY <1>3, <1>5 DEF Taken
<1>7. ASSUME NEW j \in J PROVE b[j] = FoldOf(m, e, Restriction(a, Class(c, j)))
  <2>1. PICK C : C = {r \in R : class[r] = j}
    OBVIOUS
  <2>2. Taken(s, C, g) = Class(c, j)
    BY <1>3, <1>5, <2>1 DEF Taken, Class
  <2>3. Class(c, j) \subseteq D
    BY <1>5 DEF Class
  <2>4. Amounts(s, C, g) = Restriction(a, Class(c, j))
    BY <1>3, <2>2, <2>3 DEF Amounts, Restriction
  <2>5. b[j] = Reduce(s, C, g)
    BY <2>1
  <2>6. QED
    BY <1>1, <2>4, <2>5, ReduceIs
<1>8. FoldsClasses(b, m, e, a, c, J) /\ Classes(c, D, J)
  BY <1>6, <1>7 DEF FoldsClasses, Classes
<1>9. Family(b, J, V)
  <2>1. \A j \in J : b[j] \in V
    BY <1>1, ReduceIs
  <2>2. QED
    BY <2>1 DEF Family
<1>10. FoldOf(m, e, b) = FoldOf(m, e, a)
  BY <1>2, <1>4, <1>8, <1>9, FoldOfFolds
<1>11. Fold(s, Identity(s), b) = FoldOf(m, e, b)
  BY <1>1, <1>2, <1>9, FoldIsFoldOf
<1>12. QED
  BY <1>1, <1>3, <1>9, <1>10, <1>11, ReduceIs

LEMMA ReduceNone ==
  ASSUME Chose, NEW s \in SlotSet, NEW R, NEW g, Taken(s, R, g) = {}
  PROVE  Reduce(s, R, g) = Identity(s)
<1>1. Monoid(Values(s), Op(s), Identity(s)) /\ Identity(s) \in Values(s)
  BY CombineMonoid, ReduceIs
<1>2. Family(Amounts(s, R, g), {}, Values(s))
  BY AmountsFamily
<1>3. FoldOf(Op(s), Identity(s), Amounts(s, R, g)) = Identity(s)
  BY <1>1, <1>2, FoldOfNothing
<1>4. QED
  BY <1>3, ReduceIs

LEMMA ReduceOne ==
  ASSUME Chose, NEW s \in SlotSet, NEW r \in Counted(s)
  PROVE  Reduce(s, {r}, column.groups[r]) = Amount(s, r)
<1>1. Monoid(Values(s), Op(s), Identity(s))
  BY CombineMonoid
<1>2. PICK g, a : g = column.groups[r] /\ a = Amounts(s, {r}, g)
  OBVIOUS
<1>3. Taken(s, {r}, g) = {r}
  BY <1>2 DEF Taken
<1>4. Family(a, {r}, Values(s)) /\ a[r] = Amount(s, r)
  BY <1>2, <1>3, AmountsFamily DEF Amounts
<1>5. FoldOf(Op(s), Identity(s), a) = a[r]
  BY <1>1, <1>4, FoldOfOne
<1>6. QED
  BY <1>2, <1>4, <1>5, ReduceIs

LEMMA ReduceTwo ==
  ASSUME Chose, NEW s \in SlotSet, NEW A, NEW B, A \cap B = {}, NEW g
  PROVE  Combine(s, Reduce(s, A, g), Reduce(s, B, g)) = Reduce(s, A \cup B, g)
<1>1. PICK V, m, e : V = Values(s) /\ m = Op(s) /\ e = Identity(s)
  OBVIOUS
<1>2. Monoid(V, m, e) /\ e \in V
  BY <1>1, CombineMonoid, ReduceIs
<1>3. PICK D, a : D = Taken(s, A \cup B, g) /\ a = Amounts(s, A \cup B, g)
  OBVIOUS
<1>4. Family(a, D, V)
  BY <1>1, <1>3, AmountsFamily
<1>5. PICK p \in SUBSET D, q \in SUBSET D : /\ p = Taken(s, A, g) /\ q = Taken(s, B, g)
                                            /\ p \cap q = {} /\ p \cup q = D
  <2>1. /\ Taken(s, A, g) \subseteq D /\ Taken(s, B, g) \subseteq D
        /\ Taken(s, A, g) \cap Taken(s, B, g) = {} /\ Taken(s, A, g) \cup Taken(s, B, g) = D
    BY <1>3 DEF Taken
  <2>2. QED
    BY <2>1
<1>6. FoldMap(m, e, a)[p \cup q] = m[FoldMap(m, e, a)[p]][FoldMap(m, e, a)[q]]
  BY <1>2, <1>4, <1>5, FoldOfTwo
<1>7. FoldOf(m, e, a) = FoldMap(m, e, a)[D]
  BY <1>2, <1>4, FoldMapFacts
<1>8. FoldOf(m, e, Restriction(a, p)) = FoldMap(m, e, a)[p]
  BY <1>2, <1>4, FoldOfSubset
<1>9. FoldOf(m, e, Restriction(a, q)) = FoldMap(m, e, a)[q]
  BY <1>2, <1>4, FoldOfSubset
<1>10. Restriction(a, p) = Amounts(s, A, g) /\ Restriction(a, q) = Amounts(s, B, g)
  BY <1>3, <1>5 DEF Restriction, Amounts
<1>11. PICK x \in V, y \in V : x = Reduce(s, A, g) /\ y = Reduce(s, B, g)
  BY <1>1, ReduceIs
<1>12. x = FoldMap(m, e, a)[p] /\ y = FoldMap(m, e, a)[q]
  BY <1>1, <1>8, <1>9, <1>10, <1>11, ReduceIs
<1>13. m[x][y] = Combine(s, x, y)
  BY <1>1 DEF Op
<1>14. Reduce(s, A \cup B, g) = m[x][y]
  BY <1>1, <1>3, <1>5, <1>6, <1>7, <1>12, ReduceIs
<1>15. QED
  BY <1>11, <1>13, <1>14

-----------------------------------------------------------------------------
\* The grid.

LEMMA Grid ==
  ASSUME Chose
  PROVE  /\ TgWidth \in Nat \ {0} /\ NTgs \in Nat \ {0}
         /\ IsFiniteSet(0..(NTgs - 1)) /\ IsFiniteSet(0..(Simds - 1))
         /\ \A r \in Rows : /\ Thread(r) \div TgWidth \in 0..(NTgs - 1)
                            /\ (Thread(r) % TgWidth) \div Lanes \in 0..(Simds - 1)
<1>1. Lanes \in Nat \ {0} /\ Simds \in Nat \ {0} /\ MaxTgs \in Nat \ {0}
  BY Bounds
<1>2. NRows \in Nat \ {0} /\ Rows = 1..NRows
  BY ColumnFacts
<1>3. PICK w \in Nat \ {0} : w = TgWidth
  <2>1. TgWidth \in Nat \ {0}
    BY <1>1 DEF TgWidth
  <2>2. QED
    BY <2>1
<1>4. PICK target : target = (NRows + w - 1) \div w
  OBVIOUS
<1>5. target \in Nat \ {0}
  <2>1. PICK x \in Nat : x = NRows + w - 1
    BY <1>2
  <2>2. x \div w \in Int /\ x % w \in 0..(w - 1) /\ x = w * (x \div w) + (x % w)
    BY DivMod
  <2>3. x >= w
    BY <1>2, <2>1
  <2>4. PICK q \in Int : q = x \div w
    BY <2>2
  <2>5. x < w * q + w
    BY <2>2, <2>4
  <2>6. q >= 1
    BY <2>3, <2>5
  <2>7. QED
    BY <1>4, <2>1, <2>4, <2>6
<1>6. PICK k \in Nat \ {0} : k = NTgs
  <2>1. NTgs = IF target > MaxTgs THEN MaxTgs ELSE target
    BY <1>3, <1>4 DEF NTgs
  <2>2. QED
    BY <1>1, <1>5, <2>1
<1>7. IsFiniteSet(0..(k - 1))
  BY FS_Interval
<1>8. IsFiniteSet(0..(Simds - 1))
  BY <1>1, FS_Interval
<1>9. ASSUME NEW r \in Rows
      PROVE  /\ Thread(r) \div w \in 0..(k - 1)
             /\ (Thread(r) % w) \div Lanes \in 0..(Simds - 1)
  <2>1. PICK n \in Nat \ {0} : n = k * w
    OBVIOUS
  <2>2. PICK x \in Int : x = r - 1
    BY <1>2
  <2>3. x % n \in 0..(n - 1)
    BY DivMod
  <2>4. Thread(r) = x % n
    BY <1>3, <1>6, <2>1, <2>2 DEF Thread
  <2>5. PICK y \in Int : y = Thread(r) /\ y \in 0..(w * k - 1)
    BY <2>1, <2>3, <2>4
  <2>6. y \div w \in 0..(k - 1)
    BY <2>5, DivBound
  <2>7. y % w \in 0..(w - 1)
    BY DivMod
  <2>8. w = Lanes * Simds
    BY <1>3 DEF TgWidth
  <2>9. PICK z \in 0..(Lanes * Simds - 1) : z = y % w
    BY <2>7, <2>8
  <2>10. z \div Lanes \in 0..(Simds - 1)
    BY <1>1, DivBound
  <2>11. QED
    BY <2>5, <2>6, <2>9, <2>10
<1>10. QED
  BY <1>3, <1>6, <1>7, <1>8, <1>9

\* Thread 0 of a threadgroup that is ready combines what its rows reduce to.
LEMMA TotalOfThreadgroup ==
  ASSUME Chose, NEW s \in SlotSet, NEW f, NEW g,
         \A sg \in 0..(Simds - 1) : <<f, sg>> \in staged
  PROVE  Fold(s, Identity(s), [sg \in 0..(Simds - 1) |-> Partial(s, f, sg, g)])
           = Reduce(s, RowsOfTg(f), g)
<1>1. PICK J : J = 0..(Simds - 1) /\ IsFiniteSet(J)
  BY Grid
<1>2. PICK R : R = RowsOfTg(f)
  OBVIOUS
<1>3. PICK class : class = [r \in R |-> (Thread(r) % TgWidth) \div Lanes]
  OBVIOUS
<1>4. class \in [R -> J]
  BY <1>1, <1>2, <1>3, Grid DEF RowsOfTg
<1>5. \A j \in J : Partial(s, f, j, g) = Reduce(s, {r \in R : class[r] = j}, g)
  <2>1. \A j \in J : {r \in R : class[r] = j} = RowsOf(f, j)
    BY <1>2, <1>3 DEF RowsOf
  <2>2. QED
    BY <1>1, <2>1 DEF Partial
<1>6. PICK b : b = [j \in J |-> Reduce(s, {r \in R : class[r] = j}, g)]
  OBVIOUS
<1>7. b = [sg \in 0..(Simds - 1) |-> Partial(s, f, sg, g)]
  BY <1>1, <1>5, <1>6
<1>8. Fold(s, Identity(s), b) = Reduce(s, R, g)
  <2>1. IsFiniteSet(J)
    BY <1>1
  <2>2. QED
    BY <1>4, <1>6, <2>1, ReduceClasses
<1>9. QED
  BY <1>2, <1>7, <1>8

\* What flusher f is there to add.
ShareOf(f) == IF Prereduce THEN RowsOfTg(f) ELSE {f}

LEMMA SharesCover ==
  ASSUME Chose, NEW s \in SlotSet, NEW g
  PROVE  /\ IsFiniteSet(Flushers)
         /\ Fold(s, Identity(s), [f \in Flushers |-> Reduce(s, ShareOf(f), g)])
              = Reduce(s, Rows, g)
<1>1. PICK J : J = Flushers
  OBVIOUS
<1>2. IsFiniteSet(J)
  BY <1>1, Grid, ColumnFacts DEF Flushers
<1>3. PICK class : class = [r \in Rows |-> IF Prereduce THEN Thread(r) \div TgWidth ELSE r]
  OBVIOUS
<1>4. class \in [Rows -> J]
  BY <1>1, <1>3, Grid DEF Flushers
<1>5. \A j \in J : {r \in Rows : class[r] = j} = ShareOf(j)
  BY <1>1, <1>3 DEF ShareOf, RowsOfTg, Flushers
<1>6. PICK b : b = [j \in J |-> Reduce(s, {r \in Rows : class[r] = j}, g)]
  OBVIOUS
<1>7. b = [f \in Flushers |-> Reduce(s, ShareOf(f), g)]
  BY <1>1, <1>5, <1>6
<1>8. Fold(s, Identity(s), b) = Reduce(s, Rows, g)
  BY <1>2, <1>4, <1>6, ReduceClasses
<1>9. QED
  BY <1>1, <1>2, <1>7, <1>8

-----------------------------------------------------------------------------
\* A launch, and what its flushers add to.

LaunchOk(l) ==
  /\ l.slots \in Seq(SlotSet) /\ l.slots # <<>>
  /\ l.on # "prereduce" => Len(l.slots) = 1

LEMMA SlotFacts ==
  ASSUME LaunchOk(Kernel)
  PROVE  /\ NSlots \in Nat \ {0} /\ DOMAIN Slots = 1..NSlots
         /\ \A i \in DOMAIN Slots : Slots[i] \in SlotSet
         /\ ~Prereduce => NSlots = 1
BY DEF LaunchOk, NSlots, Slots, Prereduce

LEMMA TargetFacts ==
  ASSUME Chose, LaunchOk(Kernel), NEW f \in Flushers, NEW n \in DOMAIN Targets(f)
  PROVE  /\ n \in Nat \ {0} /\ Targets(f)[n].slot \in DOMAIN Slots /\ Targets(f)[n].group \in Groups
         /\ Targets(f)[n] = [slot |-> Targets(f)[n].slot, group |-> Targets(f)[n].group]
         /\ \A k \in DOMAIN Targets(f) : Targets(f)[k] = Targets(f)[n] => k = n
<1>1. NSlots \in Nat \ {0} /\ DOMAIN Slots = 1..NSlots /\ NGroups \in Nat \ {0}
      /\ Groups = 0..(NGroups - 1)
  BY SlotFacts, ColumnFacts
<1>2. CASE Prereduce
  <2>1. Targets(f) = [j \in 1..(NGroups * NSlots) |->
                       [slot |-> ((j - 1) % NSlots) + 1, group |-> (j - 1) \div NSlots]]
    BY <1>2 DEF Targets
  <2>2. NGroups * NSlots \in Nat
    BY <1>1
  <2>3. DOMAIN Targets(f) = 1..(NGroups * NSlots)
    BY <2>1
  <2>4. n \in Nat \ {0}
    BY <2>2, <2>3
  <2>5. Targets(f)[n] = [slot |-> ((n - 1) % NSlots) + 1, group |-> (n - 1) \div NSlots]
    BY <2>1, <2>3
  <2>6. PICK x \in 0..(NSlots * NGroups - 1) : x = n - 1
    BY <1>1, <2>2, <2>3
  <2>7. x \div NSlots \in 0..(NGroups - 1)
    BY <1>1, DivBound
  <2>8. x % NSlots \in 0..(NSlots - 1)
    BY <1>1, <2>4, <2>6, DivMod
  <2>9. ASSUME NEW k \in DOMAIN Targets(f), Targets(f)[k] = Targets(f)[n] PROVE k = n
    <3>1. k \in Nat \ {0}
      BY <2>2, <2>3
    <3>2. Targets(f)[k] = [slot |-> ((k - 1) % NSlots) + 1, group |-> (k - 1) \div NSlots]
      BY <2>1, <2>3
    <3>3. PICK y \in Int : y = k - 1
      BY <3>1
    <3>4. x \in Int
      BY <2>4, <2>6
    <3>5. y % NSlots \in 0..(NSlots - 1) /\ x % NSlots \in 0..(NSlots - 1)
      BY <1>1, <3>4, DivMod
    <3>6. y = NSlots * (y \div NSlots) + (y % NSlots) /\ x = NSlots * (x \div NSlots) + (x % NSlots)
      BY <1>1, <3>4, DivMod
    <3>7. (y % NSlots) + 1 = (x % NSlots) + 1 /\ y \div NSlots = x \div NSlots
      BY <2>5, <2>6, <2>9, <3>2, <3>3
    <3>8. y % NSlots = x % NSlots
      BY <1>1, <3>5, <3>7
    <3>9. y = x
      BY <3>6, <3>7, <3>8
    <3>10. QED
      BY <2>4, <2>6, <3>1, <3>3, <3>9
  <2>10. Targets(f)[n].slot = (x % NSlots) + 1 /\ Targets(f)[n].group = x \div NSlots
    BY <2>5, <2>6
  <2>11. (x % NSlots) + 1 \in 1..NSlots
    BY <1>1, <2>8
  <2>12. QED
    BY <1>1, <2>4, <2>5, <2>7, <2>9, <2>10, <2>11
<1>3. CASE ~Prereduce
  <2>1. f \in Rows
    BY <1>3 DEF Flushers
  <2>2. Targets(f) = IF f \in Counted(Slots[1]) THEN <<[slot |-> 1, group |-> column.groups[f]]>>
                                              ELSE <<>>
    BY <1>3 DEF Targets
  <2>3. Targets(f) = <<[slot |-> 1, group |-> column.groups[f]]>> /\ DOMAIN Targets(f) = {1}
    BY <2>2
  <2>4. column.groups[f] \in Groups
    BY <2>1, ColumnFacts
  <2>5. 1 \in DOMAIN Slots
    BY <1>1
  <2>6. QED
    BY <2>3, <2>4, <2>5
<1>4. QED
  BY <1>2, <1>3

LEMMA TargetExists ==
  ASSUME Chose, LaunchOk(Kernel), Prereduce, NEW f, NEW i \in DOMAIN Slots, NEW g \in Groups
  PROVE  \E n \in DOMAIN Targets(f) : n >= 1 /\ Targets(f)[n] = [slot |-> i, group |-> g]
<1>1. NSlots \in Nat \ {0} /\ i \in 1..NSlots /\ NGroups \in Nat \ {0} /\ g \in 0..(NGroups - 1)
  BY SlotFacts, ColumnFacts
<1>2. Targets(f) = [j \in 1..(NGroups * NSlots) |->
                     [slot |-> ((j - 1) % NSlots) + 1, group |-> (j - 1) \div NSlots]]
  BY DEF Targets
<1>3. PICK x \in Nat : x = NSlots * g + (i - 1)
  BY <1>1
<1>4. x \div NSlots = g /\ x % NSlots = i - 1
  BY <1>1, <1>3
<1>5. x < NGroups * NSlots
  <2>1. NSlots * g <= NSlots * (NGroups - 1)
    BY <1>1
  <2>2. NSlots * (NGroups - 1) = NGroups * NSlots - NSlots /\ NGroups * NSlots \in Nat
    BY <1>1
  <2>3. NSlots * g \in Nat
    BY <1>1
  <2>4. QED
    BY <1>1, <1>3, <2>1, <2>2, <2>3
<1>6. x + 1 \in 1..(NGroups * NSlots) /\ (x + 1) - 1 = x
  <2>1. NGroups * NSlots \in Nat
    BY <1>1
  <2>2. QED
    BY <1>5, <2>1
<1>7. Targets(f)[x + 1] = [slot |-> i, group |-> g]
  BY <1>1, <1>2, <1>4, <1>6
<1>8. QED
  BY <1>2, <1>6, <1>7

-----------------------------------------------------------------------------
\* The inductive invariant of a running kernel.  Due is Reduce, Left is Pending for a flusher
\* at a place of its list; they are over functions, for the lemmas of CountingLemmas.

Due(s, R, g) == FoldOf(Op(s), Identity(s), Amounts(s, R, g))

Left(f, at, i, g) ==
  IF \E n \in DOMAIN Targets(f) : n >= at /\ Targets(f)[n] = [slot |-> i, group |-> g]
    THEN Due(Slots[i], ShareOf(f), g) ELSE Identity(Slots[i])

Lefts(fl, i, g) == [f \in Flushers |-> Left(f, fl[f].at, i, g)]

\* What the buffers ou hold and what the flushers at fl have left make the whole.
Balanced(fl, ou) ==
  \A i \in DOMAIN Slots, g \in Groups :
    FoldOf(Op(Slots[i]), ou[i][g], Lefts(fl, i, g)) = Due(Slots[i], Rows, g)

BuffersOk(fl, ou) ==
  /\ DOMAIN fl = Flushers
  /\ \A f \in Flushers : fl[f].at \in Nat \ {0}
  /\ DOMAIN ou = DOMAIN Slots
  /\ \A i \in DOMAIN Slots : DOMAIN ou[i] = Groups
  /\ \A i \in DOMAIN Slots, g \in Groups : ou[i][g] \in Values(Slots[i])

\* A flusher that has loaded has its threadgroup's partials; of a minimum or maximum the
\* buffer has since become no worse than what it loaded.
LoadedOk(f, fl, ou) ==
  LET t == Targets(f)[fl[f].at]
      s == Slots[t.slot]
  IN  fl[f].old # Null =>
        /\ fl[f].at \in DOMAIN Targets(f) /\ Ready(f) /\ IsFloat(s) /\ fl[f].old \in Values(s)
        /\ SlotOp(s) \in {"Min", "Max"} =>
             Op(s)[ou[t.slot][t.group]][fl[f].old] = ou[t.slot][t.group]

KernelInv ==
  phase = "gpu" =>
    /\ BuffersOk(flush, out)
    /\ \A f \in Flushers : LoadedOk(f, flush, out)
    /\ Balanced(flush, out)

LEMMA DueIs ==
  ASSUME Chose, NEW s \in SlotSet, NEW R, NEW g
  PROVE  Reduce(s, R, g) = Due(s, R, g) /\ Due(s, R, g) \in Values(s)
BY ReduceIs DEF Due

LEMMA LeftValue ==
  ASSUME Chose, LaunchOk(Kernel), NEW i \in DOMAIN Slots, NEW f, NEW at, NEW g
  PROVE  Left(f, at, i, g) \in Values(Slots[i])
<1>1. Slots[i] \in SlotSet
  BY SlotFacts
<1>2. Identity(Slots[i]) \in Values(Slots[i])
  BY <1>1, ReduceIs
<1>3. Due(Slots[i], ShareOf(f), g) \in Values(Slots[i])
  BY <1>1, DueIs
<1>4. QED
  BY <1>2, <1>3 DEF Left

LEMMA LeftsFamily ==
  ASSUME Chose, LaunchOk(Kernel), NEW i \in DOMAIN Slots, NEW fl, NEW g
  PROVE  Family(Lefts(fl, i, g), Flushers, Values(Slots[i]))
<1>1. IsFiniteSet(Flushers)
  BY Grid, ColumnFacts DEF Flushers
<1>2. \A f \in Flushers : Left(f, fl[f].at, i, g) \in Values(Slots[i])
  BY LeftValue
<1>3. QED
  BY <1>1, <1>2 DEF Family, Lefts

\* Before anything is flushed everything is left.
LEMMA LeftAtFirst ==
  ASSUME Chose, LaunchOk(Kernel), NEW i \in DOMAIN Slots, NEW f \in Flushers, NEW g \in Groups
  PROVE  Left(f, 1, i, g) = Due(Slots[i], ShareOf(f), g)
<1>1. CASE Prereduce
  BY <1>1, TargetExists DEF Left
<1>2. CASE ~Prereduce
  <2>1. i = 1 /\ Slots[1] \in SlotSet
    BY <1>2, SlotFacts
  <2>2. ShareOf(f) = {f}
    BY <1>2 DEF ShareOf
  <2>3. Targets(f) = IF f \in Counted(Slots[1]) THEN <<[slot |-> 1, group |-> column.groups[f]]>>
                                              ELSE <<>>
    BY <1>2 DEF Targets
  <2>4. CASE f \in Counted(Slots[1]) /\ column.groups[f] = g
    <3>1. 1 \in DOMAIN Targets(f) /\ Targets(f)[1] = [slot |-> i, group |-> g]
      BY <2>1, <2>3, <2>4
    <3>2. QED
      BY <3>1 DEF Left
  <2>5. CASE ~(f \in Counted(Slots[1]) /\ column.groups[f] = g)
    <3>1. Taken(Slots[1], {f}, g) = {}
      BY <2>5 DEF Taken
    <3>2. Due(Slots[1], {f}, g) = Identity(Slots[1])
      BY <2>1, <3>1, ReduceNone, DueIs
    <3>3. QED
      BY <2>1, <2>2, <3>2 DEF Left
  <2>6. QED
    BY <2>4, <2>5
<1>3. QED
  BY <1>1, <1>2

LEMMA BalancedAtLaunch ==
  ASSUME Chose, LaunchOk(Kernel), NEW fl, NEW ou, \A f \in Flushers : fl[f].at = 1,
         \A i \in DOMAIN Slots, g \in Groups : ou[i][g] = Identity(Slots[i])
  PROVE  Balanced(fl, ou)
<1> SUFFICES ASSUME NEW i \in DOMAIN Slots, NEW g \in Groups
             PROVE  FoldOf(Op(Slots[i]), ou[i][g], Lefts(fl, i, g)) = Due(Slots[i], Rows, g)
  BY DEF Balanced
<1>1. PICK s \in SlotSet : s = Slots[i]
  BY SlotFacts
<1>2. PICK b : b = Lefts(fl, i, g)
  OBVIOUS
<1>3. b = [f \in Flushers |-> Reduce(s, ShareOf(f), g)]
  <2>1. \A f \in Flushers : Left(f, fl[f].at, i, g) = Reduce(s, ShareOf(f), g)
    BY <1>1, LeftAtFirst, DueIs
  <2>2. QED
    BY <1>2, <2>1 DEF Lefts
<1>4. Family(b, Flushers, Values(s))
  BY <1>1, <1>2, LeftsFamily
<1>5. Fold(s, Identity(s), b) = Reduce(s, Rows, g)
  BY <1>3, SharesCover
<1>6. Identity(s) \in Values(s)
  BY ReduceIs
<1>7. Fold(s, Identity(s), b) = FoldOf(Op(s), Identity(s), b)
  BY <1>4, <1>6, FoldIsFoldOf
<1>8. QED
  BY <1>1, <1>2, <1>5, <1>7, DueIs

\* A flusher has added its share to its target and goes to the next one.
Advanced(f, i, g, fl, ou, fl2, ou2) ==
  /\ DOMAIN fl2 = Flushers /\ DOMAIN ou2 = DOMAIN Slots
  /\ \A j \in DOMAIN Slots : DOMAIN ou2[j] = Groups
  /\ fl2[f].at = fl[f].at + 1 /\ fl2[f].old = Null
  /\ \A h \in Flushers \ {f} : fl2[h] = fl[h]
  /\ ou2[i][g] = Op(Slots[i])[ou[i][g]][Due(Slots[i], ShareOf(f), g)]
  /\ \A j \in DOMAIN Slots, k \in Groups : j # i \/ k # g => ou2[j][k] = ou[j][k]

At(f, n, i, g) == n \in DOMAIN Targets(f) /\ Targets(f)[n] = [slot |-> i, group |-> g]

LEMMA LeftAfter ==
  ASSUME Chose, LaunchOk(Kernel), NEW f \in Flushers, NEW n, NEW i, NEW g, At(f, n, i, g)
  PROVE  /\ n \in Nat \ {0} /\ i \in DOMAIN Slots /\ g \in Groups
         /\ Left(f, n, i, g) = Due(Slots[i], ShareOf(f), g)
         /\ Left(f, n + 1, i, g) = Identity(Slots[i])
         /\ \A j, k : j # i \/ k # g => Left(f, n + 1, j, k) = Left(f, n, j, k)
<1>1. n \in DOMAIN Targets(f) /\ Targets(f)[n] = [slot |-> i, group |-> g]
  BY DEF At
<1>2. n \in Nat \ {0} /\ i \in DOMAIN Slots /\ g \in Groups
  BY <1>1, TargetFacts
<1>3. Left(f, n, i, g) = Due(Slots[i], ShareOf(f), g)
  BY <1>1, <1>2 DEF Left
<1>4. ~ \E q \in DOMAIN Targets(f) : q >= n + 1 /\ Targets(f)[q] = [slot |-> i, group |-> g]
  <2>1. SUFFICES ASSUME NEW q \in DOMAIN Targets(f), q >= n + 1,
                        Targets(f)[q] = [slot |-> i, group |-> g]
                 PROVE  FALSE
    OBVIOUS
  <2>2. q = n
    BY <1>1, <2>1, TargetFacts
  <2>3. QED
    BY <1>2, <2>1, <2>2
<1>5. Left(f, n + 1, i, g) = Identity(Slots[i])
  BY <1>4 DEF Left
<1>6. ASSUME NEW j, NEW k, j # i \/ k # g PROVE Left(f, n + 1, j, k) = Left(f, n, j, k)
  <2>1. [slot |-> j, group |-> k] # [slot |-> i, group |-> g]
    BY <1>6
  <2>2. \A q \in DOMAIN Targets(f) : q \in Nat
    BY TargetFacts
  <2>3. \A q \in DOMAIN Targets(f) :
          Targets(f)[q] = [slot |-> j, group |-> k] => (q >= n <=> q >= n + 1)
    BY <1>1, <1>2, <2>1, <2>2
  <2>4. QED
    BY <2>3 DEF Left
<1>7. QED
  BY <1>2, <1>3, <1>5, <1>6

LEMMA AdvanceBuffers ==
  ASSUME Chose, LaunchOk(Kernel), NEW fl, NEW ou, BuffersOk(fl, ou), NEW f \in Flushers,
         NEW i, NEW g, At(f, fl[f].at, i, g),
         NEW fl2, NEW ou2, Advanced(f, i, g, fl, ou, fl2, ou2)
  PROVE  BuffersOk(fl2, ou2)
<1>1. i \in DOMAIN Slots /\ g \in Groups
  BY LeftAfter
<1>2. PICK s \in SlotSet : s = Slots[i]
  BY <1>1, SlotFacts
<1>3. PICK V, m, x, y : V = Values(s) /\ m = Op(s) /\ x = ou[i][g] /\ y = Due(s, ShareOf(f), g)
  OBVIOUS
<1>4. x \in V /\ y \in V
  BY <1>1, <1>2, <1>3, DueIs DEF BuffersOk
<1>5. Monoid(V, m, Identity(s))
  BY <1>3, CombineMonoid
<1>6. m[x][y] \in V
  BY <1>4, <1>5, MonoidLaws
<1>7. ou2[i][g] \in Values(Slots[i])
  BY <1>2, <1>3, <1>6 DEF Advanced
<1>8. ASSUME NEW j \in DOMAIN Slots, NEW k \in Groups PROVE ou2[j][k] \in Values(Slots[j])
  <2>1. CASE j = i /\ k = g
    BY <1>7, <2>1
  <2>2. CASE j # i \/ k # g
    BY <2>2 DEF Advanced, BuffersOk
  <2>3. QED
    BY <2>1, <2>2
<1>9. ASSUME NEW h \in Flushers PROVE fl2[h].at \in Nat \ {0}
  <2>1. fl[h].at \in Nat \ {0} /\ fl[f].at \in Nat \ {0}
    BY DEF BuffersOk
  <2>2. QED
    BY <2>1 DEF Advanced
<1>10. QED
  BY <1>8, <1>9 DEF BuffersOk, Advanced

LEMMA AdvanceBalanced ==
  ASSUME Chose, LaunchOk(Kernel), NEW fl, NEW ou, BuffersOk(fl, ou), Balanced(fl, ou),
         NEW f \in Flushers, NEW i, NEW g, At(f, fl[f].at, i, g),
         NEW fl2, NEW ou2, Advanced(f, i, g, fl, ou, fl2, ou2)
  PROVE  Balanced(fl2, ou2)
<1> SUFFICES ASSUME NEW j \in DOMAIN Slots, NEW k \in Groups
             PROVE  FoldOf(Op(Slots[j]), ou2[j][k], Lefts(fl2, j, k)) = Due(Slots[j], Rows, k)
  BY DEF Balanced
<1>1. FoldOf(Op(Slots[j]), ou[j][k], Lefts(fl, j, k)) = Due(Slots[j], Rows, k)
  BY DEF Balanced
<1>2. \A h \in Flushers \ {f} : fl2[h] = fl[h]
  BY DEF Advanced
<1>3. fl2[f].at = fl[f].at + 1
  BY DEF Advanced
<1>4. CASE j # i \/ k # g
  <2>1. ou2[j][k] = ou[j][k]
    BY <1>4 DEF Advanced
  <2>2. ASSUME NEW h \in Flushers PROVE Left(h, fl2[h].at, j, k) = Left(h, fl[h].at, j, k)
    <3>1. CASE h = f
      BY <1>3, <1>4, <3>1, LeftAfter
    <3>2. CASE h # f
      BY <1>2, <3>2
    <3>3. QED
      BY <3>1, <3>2
  <2>3. Lefts(fl2, j, k) = Lefts(fl, j, k)
    BY <2>2 DEF Lefts
  <2>4. QED
    BY <1>1, <2>1, <2>3
<1>5. CASE j = i /\ k = g
  <2>1. PICK s \in SlotSet : s = Slots[j]
    BY SlotFacts
  <2>2. PICK V, m, e, base, y :
          V = Values(s) /\ m = Op(s) /\ e = Identity(s) /\ base = ou[j][k] /\ y = Due(s, ShareOf(f), g)
    OBVIOUS
  <2>3. base \in V
    BY <2>1, <2>2 DEF BuffersOk
  <2>4. Monoid(V, m, e)
    BY <2>2, CombineMonoid
  <2>5. PICK a, b : a = Lefts(fl, j, k) /\ b = Lefts(fl2, j, k)
    OBVIOUS
  <2>6. Family(a, Flushers, V) /\ Family(b, Flushers, V)
    BY <2>1, <2>2, <2>5, LeftsFamily
  <2>7. a[f] = y /\ b[f] = e
    <3>1. Left(f, fl[f].at, i, g) = y /\ Left(f, fl[f].at + 1, i, g) = e
      BY <1>5, <2>1, <2>2, LeftAfter
    <3>2. QED
      BY <1>3, <1>5, <2>5, <3>1 DEF Lefts
  <2>8. \A h \in Flushers \ {f} : b[h] = a[h]
    BY <1>2, <2>5 DEF Lefts
  <2>9. FoldOf(m, m[base][a[f]], b) = FoldOf(m, base, a)
    BY <2>3, <2>4, <2>6, <2>7, <2>8, FoldMoveOne
  <2>10. ou2[j][k] = m[base][y]
    BY <1>5, <2>1, <2>2 DEF Advanced
  <2>11. QED
    BY <1>1, <2>1, <2>2, <2>5, <2>7, <2>9, <2>10
<1>6. QED
  BY <1>4, <1>5

LEMMA AdvanceLoaded ==
  ASSUME Chose, LaunchOk(Kernel), NEW fl, NEW ou, BuffersOk(fl, ou), NEW f \in Flushers,
         NEW i, NEW g, At(f, fl[f].at, i, g),
         NEW fl2, NEW ou2, Advanced(f, i, g, fl, ou, fl2, ou2),
         NEW h \in Flushers, LoadedOk(h, fl, ou)
  PROVE  LoadedOk(h, fl2, ou2)
<1>1. CASE h = f
  BY <1>1 DEF LoadedOk, Advanced
<1>2. CASE h # f
  <2>1. fl2[h] = fl[h]
    BY <1>2 DEF Advanced
  <2>2. SUFFICES ASSUME fl[h].old # Null PROVE LoadedOk(h, fl2, ou2)
    BY <2>1 DEF LoadedOk
  <2>3. PICK t, j, k, old : /\ t = Targets(h)[fl[h].at] /\ j = t.slot /\ k = t.group
                            /\ old = fl[h].old
    OBVIOUS
  <2>4. /\ fl[h].at \in DOMAIN Targets(h) /\ Ready(h) /\ IsFloat(Slots[j]) /\ old \in Values(Slots[j])
        /\ SlotOp(Slots[j]) \in {"Min", "Max"} => Op(Slots[j])[ou[j][k]][old] = ou[j][k]
    BY <2>2, <2>3 DEF LoadedOk
  <2>5. j \in DOMAIN Slots /\ k \in Groups
    BY <2>3, <2>4, TargetFacts
  <2>6. SlotOp(Slots[j]) \in {"Min", "Max"} => Op(Slots[j])[ou2[j][k]][old] = ou2[j][k]
    <3>1. CASE j # i \/ k # g
      BY <2>4, <2>5, <3>1 DEF Advanced
    <3>2. CASE j = i /\ k = g
      <4>1. PICK s \in SlotSet : s = Slots[j]
        BY <2>5, SlotFacts
      <4>2. PICK V, m, x, y :
              V = Values(s) /\ m = Op(s) /\ x = ou[j][k] /\ y = Due(s, ShareOf(f), g)
        OBVIOUS
      <4>3. x \in V /\ y \in V /\ old \in V
        BY <2>4, <2>5, <4>1, <4>2, DueIs DEF BuffersOk
      <4>4. Monoid(V, m, Identity(s))
        BY <4>2, CombineMonoid
      <4>5. ou2[j][k] = m[x][y]
        BY <3>2, <4>1, <4>2 DEF Advanced
      <4>6. SUFFICES ASSUME m[x][old] = x PROVE m[m[x][y]][old] = m[x][y]
        BY <2>4, <4>1, <4>2, <4>5
      <4>7. m[x][m[y][old]] = m[m[x][y]][old]
        BY <4>3, <4>4, MonoidLaws
      <4>8. m[x][m[y][old]] = m[y][m[x][old]]
        BY <4>3, <4>4, MonoidLaws
      <4>9. m[y][x] = m[x][y]
        BY <4>3, <4>4, MonoidLaws
      <4>10. QED
        BY <4>6, <4>7, <4>8, <4>9
    <3>3. QED
      BY <3>1, <3>2
  <2>7. QED
    BY <2>1, <2>3, <2>4, <2>6 DEF LoadedOk
<1>3. QED
  BY <1>1, <1>2

-----------------------------------------------------------------------------
\* What stays while a launch runs.

LEMMA SlotConstants ==
  ASSUME UNCHANGED <<query, column>>
  PROVE  /\ Chose' = Chose /\ SlotSet' = SlotSet /\ Rows' = Rows /\ Groups' = Groups
         /\ \A s : /\ Values(s)' = Values(s) /\ Op(s)' = Op(s) /\ Identity(s)' = Identity(s)
                   /\ SlotOp(s)' = SlotOp(s) /\ IsFloat(s)' = IsFloat(s)
                   /\ Counted(s)' = Counted(s)
         /\ \A s, R, g : Due(s, R, g)' = Due(s, R, g)
<1>1. Chose' = Chose /\ SlotSet' = SlotSet /\ Rows' = Rows /\ Groups' = Groups
  BY DEF Chose, SlotSet, Aggs, Rows, NRows, Groups
<1>2. ASSUME NEW s
      PROVE  SlotOp(s)' = SlotOp(s) /\ IsFloat(s)' = IsFloat(s) /\ IsCounter(s)' = IsCounter(s)
  BY DEF SlotOp, IsFloat, IsCounter
<1>3. ASSUME NEW s PROVE Values(s)' = Values(s) /\ Identity(s)' = Identity(s)
  BY <1>2 DEF Values, Identity
<1>4. ASSUME NEW s, NEW x, NEW y PROVE Combine(s, x, y)' = Combine(s, x, y)
  BY <1>2 DEF Combine, Wrap
<1>5. ASSUME NEW s PROVE Op(s)' = Op(s)
  BY <1>3, <1>4 DEF Op
<1>6. ASSUME NEW s PROVE Counted(s)' = Counted(s)
  BY <1>1, <1>2 DEF Counted, Valid
<1>7. ASSUME NEW s, NEW R, NEW g PROVE Due(s, R, g)' = Due(s, R, g)
  <2>1. Amounts(s, R, g)' = Amounts(s, R, g)
    BY <1>2, <1>6 DEF Amounts, Taken, Amount
  <2>2. QED
    BY <1>3, <1>5, <2>1 DEF Due
<1>8. QED
  BY <1>1, <1>2, <1>3, <1>5, <1>6, <1>7

LEMMA LaunchConstants ==
  ASSUME UNCHANGED <<query, column, todo>>
  PROVE  /\ Slots' = Slots /\ Kernel' = Kernel /\ Flushers' = Flushers
         /\ LaunchOk(Kernel)' = LaunchOk(Kernel) /\ Prereduce' = Prereduce
         /\ \A f : Targets(f)' = Targets(f)
         /\ \A f, at, i, g : Left(f, at, i, g)' = Left(f, at, i, g)
<1>1. Slots' = Slots /\ Kernel' = Kernel /\ Prereduce' = Prereduce
  BY DEF Slots, Kernel, Prereduce
<1>2. Rows' = Rows /\ Groups' = Groups /\ NTgs' = NTgs
  BY DEF Rows, NRows, Groups, NTgs, TgWidth
<1>3. Flushers' = Flushers
  BY <1>1, <1>2 DEF Flushers
<1>4. LaunchOk(Kernel)' = LaunchOk(Kernel)
  BY <1>1, SlotConstants DEF LaunchOk
<1>5. ASSUME NEW f PROVE Targets(f)' = Targets(f)
  <2>1. \A s : Counted(s)' = Counted(s)
    BY SlotConstants
  <2>2. NGroups' = NGroups /\ NSlots' = NSlots
    BY <1>1, <1>2 DEF NGroups, NSlots
  <2>3. QED
    BY <1>1, <2>1, <2>2 DEF Targets
<1>6. ASSUME NEW f, NEW at, NEW i, NEW g PROVE Left(f, at, i, g)' = Left(f, at, i, g)
  <2>1. ShareOf(f)' = ShareOf(f)
    BY <1>1, <1>2 DEF ShareOf, RowsOfTg, Thread, TgWidth
  <2>2. QED
    BY <1>1, <1>5, <2>1, SlotConstants DEF Left
<1>7. QED
  BY <1>1, <1>3, <1>4, <1>5, <1>6

\* The parts of the invariant after a step are those over the new flushers and buffers.
LEMMA InvAfter ==
  ASSUME UNCHANGED <<query, column, todo>>, staged \subseteq staged',
         BuffersOk(flush', out'), \A f \in Flushers : LoadedOk(f, flush', out'),
         Balanced(flush', out')
  PROVE  KernelInv'
<1>1. Slots' = Slots /\ Flushers' = Flushers /\ Groups' = Groups /\ Rows' = Rows
  BY SlotConstants, LaunchConstants
<1>2. BuffersOk(flush, out)'
  BY <1>1, SlotConstants DEF BuffersOk
<1>3. ASSUME NEW f \in Flushers PROVE LoadedOk(f, flush, out)'
  <2>1. Ready(f) => Ready(f)'
    BY LaunchConstants DEF Ready
  <2>2. Targets(f)' = Targets(f)
    BY LaunchConstants
  <2>3. LoadedOk(f, flush', out')
    OBVIOUS
  <2>4. QED
    BY <1>1, <2>1, <2>2, <2>3, SlotConstants DEF LoadedOk
<1>4. Balanced(flush, out)'
  <2>1. ASSUME NEW i, NEW g PROVE Lefts(flush, i, g)' = Lefts(flush', i, g)
    BY <1>1, LaunchConstants DEF Lefts
  <2>2. QED
    BY <1>1, <2>1, SlotConstants DEF Balanced
<1>5. QED
  BY <1>1, <1>2, <1>3, <1>4 DEF KernelInv

-----------------------------------------------------------------------------
\* The steps of the kernels.

Running == Chose /\ LaunchOk(Kernel) /\ phase = "gpu" /\ KernelInv

LEMMA FlushingFacts ==
  ASSUME Running, NEW f, Flushing(f)
  PROVE  \E i \in DOMAIN Slots, g \in Groups, s \in SlotSet :
           /\ f \in Flushers /\ At(f, flush[f].at, i, g)
           /\ Target(f).slot = i /\ Target(f).group = g /\ s = Slots[i] /\ s = TargetSlot(f)
           /\ Stored(f) = out[i][g] /\ out[i][g] \in Values(s)
           /\ LoadedOk(f, flush, out)
           /\ Monoid(Values(s), Op(s), Identity(s))
           /\ Due(s, ShareOf(f), g) \in Values(s)
           /\ Ready(f) => Total(f) = Due(s, ShareOf(f), g)
<1>1. /\ Chose /\ LaunchOk(Kernel) /\ BuffersOk(flush, out)
      /\ \A h \in Flushers : LoadedOk(h, flush, out)
  BY DEF Running, KernelInv
<1>2. f \in Flushers /\ flush[f].at \in DOMAIN Targets(f)
  BY <1>1 DEF Flushing, BuffersOk
<1>3. PICK i, g : i = Target(f).slot /\ g = Target(f).group
  OBVIOUS
<1>4. i \in DOMAIN Slots /\ g \in Groups /\ At(f, flush[f].at, i, g)
  BY <1>1, <1>2, <1>3, TargetFacts DEF Target, At
<1>5. PICK s \in SlotSet : s = Slots[i] /\ s = TargetSlot(f)
  BY <1>1, <1>3, <1>4, SlotFacts DEF TargetSlot
<1>6. Stored(f) = out[i][g] /\ out[i][g] \in Values(s)
  BY <1>1, <1>3, <1>4, <1>5 DEF Stored, BuffersOk
<1>7. Monoid(Values(s), Op(s), Identity(s))
  BY <1>1, CombineMonoid
<1>8. Due(s, ShareOf(f), g) \in Values(s)
  BY <1>1, DueIs
<1>9. ASSUME Ready(f) PROVE Total(f) = Due(s, ShareOf(f), g)
  <2>1. CASE Prereduce
    <3>1. \A sg \in 0..(Simds - 1) : <<f, sg>> \in staged
      BY <1>9, <2>1 DEF Ready
    <3>2. Total(f) = Fold(s, Identity(s), [sg \in 0..(Simds - 1) |-> Partial(s, f, sg, g)])
      BY <1>3, <1>5, <2>1 DEF Total
    <3>3. Total(f) = Reduce(s, RowsOfTg(f), g)
      BY <1>1, <3>1, <3>2, TotalOfThreadgroup
    <3>4. QED
      BY <1>1, <2>1, <3>3, DueIs DEF ShareOf
  <2>2. CASE ~Prereduce
    <3>1. Targets(f) = IF f \in Counted(Slots[1]) THEN <<[slot |-> 1, group |-> column.groups[f]]>>
                                                ELSE <<>>
      BY <2>2 DEF Targets
    <3>2. f \in Counted(Slots[1]) /\ Targets(f) = <<[slot |-> 1, group |-> column.groups[f]]>>
      BY <1>2, <3>1
    <3>3. flush[f].at = 1
      BY <1>2, <3>2
    <3>4. i = 1 /\ g = column.groups[f]
      BY <1>3, <3>2, <3>3 DEF Target
    <3>5. f \in Counted(s)
      BY <1>5, <3>2, <3>4
    <3>6. Reduce(s, {f}, g) = Amount(s, f)
      BY <1>1, <3>4, <3>5, ReduceOne
    <3>7. Total(f) = Amount(s, f)
      BY <1>5, <2>2 DEF Total
    <3>8. QED
      BY <1>1, <2>2, <3>6, <3>7, DueIs DEF ShareOf
  <2>3. QED
    BY <2>1, <2>2
<1>10. QED
  BY <1>1, <1>2, <1>3, <1>4, <1>5, <1>6, <1>7, <1>8, <1>9

\* A step of f to its next target, with the buffer what it was combined with f's share.
LEMMA AdvanceKeeps ==
  ASSUME Running, NEW f \in Flushers, NEW i \in DOMAIN Slots, NEW g \in Groups,
         At(f, flush[f].at, i, g), NextTarget(f), KernelUnchanged,
         DOMAIN out' = DOMAIN out, \A j \in DOMAIN Slots : DOMAIN out'[j] = DOMAIN out[j],
         out'[i][g] = Op(Slots[i])[out[i][g]][Due(Slots[i], ShareOf(f), g)],
         \A j \in DOMAIN Slots, k \in Groups : j # i \/ k # g => out'[j][k] = out[j][k]
  PROVE  KernelInv'
<1>1. /\ Chose /\ LaunchOk(Kernel) /\ BuffersOk(flush, out) /\ Balanced(flush, out)
      /\ \A h \in Flushers : LoadedOk(h, flush, out)
  BY DEF Running, KernelInv
<1>2. /\ DOMAIN flush' = Flushers /\ flush'[f].at = flush[f].at + 1 /\ flush'[f].old = Null
      /\ \A h \in Flushers \ {f} : flush'[h] = flush[h]
  BY <1>1 DEF NextTarget, BuffersOk
<1>3. Advanced(f, i, g, flush, out, flush', out')
  BY <1>1, <1>2 DEF Advanced, BuffersOk
<1>4. BuffersOk(flush', out')
  BY <1>1, <1>3, AdvanceBuffers
<1>5. Balanced(flush', out')
  BY <1>1, <1>3, AdvanceBalanced
<1>6. \A h \in Flushers : LoadedOk(h, flush', out')
  BY <1>1, <1>3, AdvanceLoaded
<1>7. UNCHANGED <<query, column, todo, staged>>
  BY DEF KernelUnchanged
<1>8. QED
  BY <1>4, <1>5, <1>6, <1>7, InvAfter

LEMMA OpIsCombine ==
  ASSUME NEW s, NEW x \in Values(s), NEW y \in Values(s)
  PROVE  Op(s)[x][y] = Combine(s, x, y)
BY DEF Op

LEMMA SkipKeeps ==
  ASSUME Running, NEW f, Skip(f)
  PROVE  KernelInv'
<1>1. Flushing(f) /\ Ready(f) /\ Skips(f) /\ NextTarget(f) /\ UNCHANGED out /\ KernelUnchanged
  BY DEF Skip
<1>2. PICK i \in DOMAIN Slots, g \in Groups, s \in SlotSet :
        /\ f \in Flushers /\ At(f, flush[f].at, i, g) /\ s = Slots[i] /\ s = TargetSlot(f)
        /\ out[i][g] \in Values(s) /\ Monoid(Values(s), Op(s), Identity(s))
        /\ Total(f) = Due(s, ShareOf(f), g)
  BY <1>1, FlushingFacts
<1>3. Due(s, ShareOf(f), g) = Identity(s)
  BY <1>1, <1>2 DEF Skips
<1>4. Op(s)[out[i][g]][Identity(s)] = out[i][g]
  BY <1>2, MonoidIdentity
<1>5. QED
  BY <1>1, <1>2, <1>3, <1>4, AdvanceKeeps

LEMMA WriteKeeps ==
  ASSUME Running, NEW f, Flushing(f), Ready(f), NextTarget(f), KernelUnchanged,
         Write(f, Combine(TargetSlot(f), Stored(f), Total(f)))
  PROVE  KernelInv'
<1>1. PICK i \in DOMAIN Slots, g \in Groups, s \in SlotSet :
        /\ f \in Flushers /\ At(f, flush[f].at, i, g) /\ s = Slots[i] /\ s = TargetSlot(f)
        /\ Target(f).slot = i /\ Target(f).group = g /\ Stored(f) = out[i][g]
        /\ out[i][g] \in Values(s) /\ Due(s, ShareOf(f), g) \in Values(s)
        /\ Total(f) = Due(s, ShareOf(f), g)
  BY FlushingFacts
<1>2. PICK v : v = Op(s)[out[i][g]][Due(s, ShareOf(f), g)]
  OBVIOUS
<1>3. Combine(TargetSlot(f), Stored(f), Total(f)) = v
  BY <1>1, <1>2, OpIsCombine
<1>4. out' = [out EXCEPT ![i][g] = v]
  BY <1>1, <1>3 DEF Write
<1>5. DOMAIN out = DOMAIN Slots /\ \A j \in DOMAIN Slots : DOMAIN out[j] = Groups
  BY DEF Running, KernelInv, BuffersOk
<1>6. /\ DOMAIN out' = DOMAIN out
      /\ \A j \in DOMAIN Slots : DOMAIN out'[j] = DOMAIN out[j]
  BY <1>4, <1>5
<1>7. \A j \in DOMAIN Slots, k \in Groups : j # i \/ k # g => out'[j][k] = out[j][k]
  BY <1>4, <1>5
<1>8. out'[i][g] = Op(Slots[i])[out[i][g]][Due(Slots[i], ShareOf(f), g)]
  BY <1>1, <1>2, <1>4, <1>5
<1>9. At(f, flush[f].at, i, g) /\ f \in Flushers
  BY <1>1
<1>10. QED
  BY <1>6, <1>7, <1>8, <1>9, AdvanceKeeps

LEMMA FetchOpKeeps ==
  ASSUME Running, NEW f, FetchOp(f)
  PROVE  KernelInv'
BY WriteKeeps DEF FetchOp

\* What f loads, first or after it has lost an exchange, is what is stored.
LEMMA LoadKeeps ==
  ASSUME Running, NEW f, Flushing(f), Ready(f), IsFloat(TargetSlot(f)), KernelUnchanged,
         UNCHANGED out, flush' = [flush EXCEPT ![f].old = Stored(f)]
  PROVE  KernelInv'
<1>1. PICK i \in DOMAIN Slots, g \in Groups, s \in SlotSet :
        /\ f \in Flushers /\ At(f, flush[f].at, i, g) /\ s = Slots[i] /\ s = TargetSlot(f)
        /\ Target(f).slot = i /\ Target(f).group = g /\ Stored(f) = out[i][g]
        /\ out[i][g] \in Values(s)
  BY FlushingFacts
<1>2. /\ Chose /\ LaunchOk(Kernel) /\ BuffersOk(flush, out) /\ Balanced(flush, out)
      /\ \A h \in Flushers : LoadedOk(h, flush, out)
  BY DEF Running, KernelInv
<1>3. PICK fl : fl = flush'
  OBVIOUS
<1>4. /\ DOMAIN fl = Flushers /\ \A h \in Flushers : fl[h].at = flush[h].at
      /\ fl[f].old = out[i][g] /\ \A h \in Flushers \ {f} : fl[h] = flush[h]
  BY <1>1, <1>2, <1>3 DEF BuffersOk
<1>5. BuffersOk(fl, out)
  BY <1>2, <1>4 DEF BuffersOk
<1>6. Balanced(fl, out)
  <2>1. ASSUME NEW j, NEW k PROVE Lefts(fl, j, k) = Lefts(flush, j, k)
    BY <1>4 DEF Lefts
  <2>2. QED
    BY <1>2, <2>1 DEF Balanced
<1>7. ASSUME NEW h \in Flushers PROVE LoadedOk(h, fl, out)
  <2>1. CASE h = f
    <3>1. Targets(f)[fl[f].at] = [slot |-> i, group |-> g] /\ fl[f].at \in DOMAIN Targets(f)
      BY <1>1, <1>4 DEF At
    <3>2. SlotOp(s) \in {"Min", "Max"} => Op(s)[out[i][g]][out[i][g]] = out[i][g]
      <4>1. ASSUME SlotOp(s) \in {"Min", "Max"}
            PROVE  Combine(s, out[i][g], out[i][g]) = out[i][g]
        BY <4>1 DEF Combine
      <4>2. QED
        BY <1>1, <4>1, OpIsCombine
    <3>3. PICK t : t = Targets(f)[fl[f].at] /\ t.slot = i /\ t.group = g
      BY <3>1
    <3>4. /\ Ready(f) /\ IsFloat(Slots[i]) /\ fl[f].old \in Values(Slots[i])
          /\ SlotOp(Slots[i]) \in {"Min", "Max"} => Op(Slots[i])[out[i][g]][fl[f].old] = out[i][g]
      BY <1>1, <1>4, <3>2
    <3>5. LoadedOk(f, fl, out)
      BY <3>1, <3>3, <3>4 DEF LoadedOk
    <3>6. QED
      BY <2>1, <3>5
  <2>2. CASE h # f
    BY <1>2, <1>4, <2>2 DEF LoadedOk
  <2>3. QED
    BY <2>1, <2>2
<1>8. UNCHANGED <<query, column, todo, staged, out>>
  BY DEF KernelUnchanged
<1>9. QED
  BY <1>3, <1>5, <1>6, <1>7, <1>8, InvAfter

\* What f has loaded, if anything, allows it to go on.
LEMMA LoadedFacts ==
  ASSUME Running, NEW f, Flushing(f), flush[f].old # Null
  PROVE  /\ Ready(f) /\ IsFloat(TargetSlot(f)) /\ flush[f].old \in Values(TargetSlot(f))
         /\ SlotOp(TargetSlot(f)) \in {"Min", "Max"} =>
              Op(TargetSlot(f))[Stored(f)][flush[f].old] = Stored(f)
<1>1. LoadedOk(f, flush, out)
  BY FlushingFacts
<1>2. QED
  BY <1>1 DEF LoadedOk, TargetSlot, Target, Stored

\* A minimum or maximum that f would not improve is no better than what is stored.
LEMMA GiveUpKeeps ==
  ASSUME Running, NEW f, Flushing(f), flush[f].old # Null, ~Improves(f), NextTarget(f),
         UNCHANGED out, KernelUnchanged
  PROVE  KernelInv'
<1>1. PICK i \in DOMAIN Slots, g \in Groups, s \in SlotSet :
        /\ f \in Flushers /\ At(f, flush[f].at, i, g) /\ s = Slots[i] /\ s = TargetSlot(f)
        /\ Stored(f) = out[i][g]
        /\ out[i][g] \in Values(s) /\ Monoid(Values(s), Op(s), Identity(s))
        /\ Due(s, ShareOf(f), g) \in Values(s)
        /\ Ready(f) => Total(f) = Due(s, ShareOf(f), g)
  BY FlushingFacts
<1>2. PICK V, m, x, y, old : /\ V = Values(s) /\ m = Op(s) /\ x = out[i][g]
                             /\ y = Due(s, ShareOf(f), g) /\ old = flush[f].old
  OBVIOUS
<1>3. SlotOp(s) \in {"Min", "Max"} /\ Combine(s, old, Total(f)) = old
  BY <1>1, <1>2 DEF Improves
<1>4. Ready(f) /\ old \in V /\ m[x][old] = x
  BY <1>1, <1>2, <1>3, LoadedFacts
<1>5. m[old][y] = old
  BY <1>1, <1>2, <1>3, <1>4, OpIsCombine
<1>6. x \in V /\ y \in V /\ Monoid(V, m, Identity(s))
  BY <1>1, <1>2
<1>7. m[x][m[old][y]] = m[m[x][old]][y]
  BY <1>4, <1>6, MonoidLaws
<1>8. m[x][y] = x
  BY <1>4, <1>5, <1>7
<1>9. out'[i][g] = Op(Slots[i])[out[i][g]][Due(Slots[i], ShareOf(f), g)]
  BY <1>1, <1>2, <1>8
<1>10. At(f, flush[f].at, i, g) /\ f \in Flushers
  BY <1>1
<1>11. QED
  BY <1>9, <1>10, AdvanceKeeps

LEMMA ExchangeKeeps ==
  ASSUME Running, NEW f, CompareExchange(f)
  PROVE  KernelInv'
<1>1. Flushing(f) /\ flush[f].old # Null /\ KernelUnchanged
  BY DEF CompareExchange
<1>2. Ready(f) /\ IsFloat(TargetSlot(f))
  BY <1>1, LoadedFacts
<1>3. CASE ~Improves(f) /\ NextTarget(f) /\ UNCHANGED out
  BY <1>1, <1>3, GiveUpKeeps
<1>4. CASE /\ Stored(f) = flush[f].old
           /\ Write(f, Combine(TargetSlot(f), flush[f].old, Total(f))) /\ NextTarget(f)
  <2>1. Write(f, Combine(TargetSlot(f), Stored(f), Total(f)))
    BY <1>4
  <2>2. QED
    BY <1>1, <1>2, <1>4, <2>1, WriteKeeps
<1>5. CASE flush' = [flush EXCEPT ![f].old = Stored(f)] /\ UNCHANGED out
  BY <1>1, <1>2, <1>5, LoadKeeps
<1>6. QED
  BY <1>3, <1>4, <1>5 DEF CompareExchange

LEMMA LoadActionKeeps ==
  ASSUME Running, NEW f, Load(f)
  PROVE  KernelInv'
BY LoadKeeps DEF Load

LEMMA StageKeeps ==
  ASSUME Running, NEW t, NEW sg, Stage(t, sg)
  PROVE  KernelInv'
<1>1. /\ BuffersOk(flush, out) /\ Balanced(flush, out)
      /\ \A h \in Flushers : LoadedOk(h, flush, out)
  BY DEF Running, KernelInv
<1>2. UNCHANGED <<query, column, todo, flush, out>> /\ staged \subseteq staged'
  BY DEF Stage
<1>3. QED
  BY <1>1, <1>2, InvAfter

LEMMA LaunchKeeps ==
  ASSUME Chose, LaunchOk(Kernel), Launch
  PROVE  KernelInv'
<1>1. UNCHANGED <<query, column, todo>>
  BY DEF Launch
<1>2. /\ DOMAIN flush' = Flushers
      /\ \A f \in Flushers : flush'[f].at = 1 /\ flush'[f].old = Null
  BY DEF Launch
<1>3. /\ DOMAIN out' = DOMAIN Slots
      /\ \A i \in DOMAIN Slots : DOMAIN out'[i] = Groups
      /\ \A i \in DOMAIN Slots, g \in Groups : out'[i][g] = Identity(Slots[i])
  BY DEF Launch
<1>4. BuffersOk(flush', out')
  <2>1. \A i \in DOMAIN Slots : Identity(Slots[i]) \in Values(Slots[i])
    BY SlotFacts, ReduceIs
  <2>2. QED
    BY <1>2, <1>3, <2>1 DEF BuffersOk
<1>5. \A f \in Flushers : LoadedOk(f, flush', out')
  BY <1>2 DEF LoadedOk
<1>6. Balanced(flush', out')
  BY <1>2, <1>3, BalancedAtLaunch
<1>7. KernelInv'
  <2>1. Slots' = Slots /\ Flushers' = Flushers /\ Groups' = Groups /\ Rows' = Rows
    BY <1>1, SlotConstants, LaunchConstants
  <2>2. BuffersOk(flush, out)'
    BY <1>1, <1>4, <2>1, SlotConstants DEF BuffersOk
  <2>3. \A f \in Flushers : LoadedOk(f, flush, out)'
    BY <1>2 DEF LoadedOk
  <2>4. Balanced(flush, out)'
    <3>1. ASSUME NEW i, NEW g PROVE Lefts(flush, i, g)' = Lefts(flush', i, g)
      BY <1>1, <2>1, LaunchConstants DEF Lefts
    <3>2. QED
      BY <1>1, <1>6, <2>1, <3>1, SlotConstants DEF Balanced
  <2>5. QED
    BY <2>1, <2>2, <2>3, <2>4 DEF KernelInv
<1>8. QED
  BY <1>7

-----------------------------------------------------------------------------
\* Sequences of sequences, laid end to end.
EndToEnd(f, seqs, n) == f = [i \in 1..n |-> IF i = 1 THEN seqs[i] ELSE f[i - 1] \o seqs[i]]

LEMMA EndToEndExists ==
  ASSUME NEW seqs, NEW n \in Nat
  PROVE  \E f : EndToEnd(f, seqs, n)
<1> DEFINE G == {k \in Nat : \E f : EndToEnd(f, seqs, k)}
<1>1. 0 \in G
  <2>1. EndToEnd([i \in 1..0 |-> seqs[i]], seqs, 0)
    BY DEF EndToEnd
  <2>2. QED
    BY <2>1
<1>2. ASSUME NEW k \in G PROVE k + 1 \in G
  <2>1. PICK f : EndToEnd(f, seqs, k)
    OBVIOUS
  <2>2. k \in Nat /\ k + 1 \in Nat
    OBVIOUS
  <2> DEFINE longer == [i \in 1..(k + 1) |-> IF i = 1 THEN seqs[i] ELSE f[i - 1] \o seqs[i]]
  <2>3. ASSUME NEW i \in 1..(k + 1), i # 1 PROVE longer[i - 1] = f[i - 1]
    <3>1. i - 1 \in 1..k /\ i - 1 \in 1..(k + 1)
      BY <2>2, <2>3
    <3>2. f[i - 1] = IF i - 1 = 1 THEN seqs[i - 1] ELSE f[(i - 1) - 1] \o seqs[i - 1]
      BY <2>1, <3>1 DEF EndToEnd
    <3>3. QED
      BY <3>1, <3>2
  <2>4. EndToEnd(longer, seqs, k + 1)
    BY <2>3 DEF EndToEnd
  <2> HIDE DEF longer
  <2>5. QED
    BY <2>2, <2>4
<1>3. G = Nat
  <2>1. G \in SUBSET Nat
    OBVIOUS
  <2> HIDE DEF G
  <2>2. QED
    BY <1>1, <1>2, <2>1, NumberInduction
<1>4. QED
  BY <1>3

Holds(seq, x) == \E j \in DOMAIN seq : seq[j] = x

LEMMA ConcatHolds ==
  ASSUME NEW S, NEW s \in Seq(S), NEW t \in Seq(S)
  PROVE  /\ s \o t \in Seq(S)
         /\ \A x : Holds(s, x) \/ Holds(t, x) => Holds(s \o t, x)
<1>1. /\ s \o t \in Seq(S) /\ Len(s) \in Nat /\ Len(t) \in Nat
      /\ DOMAIN s = 1..Len(s) /\ DOMAIN t = 1..Len(t) /\ DOMAIN (s \o t) = 1..(Len(s) + Len(t))
      /\ \A j \in 1..Len(s) : (s \o t)[j] = s[j]
  OBVIOUS
<1>2. \A j \in 1..Len(t) : (s \o t)[Len(s) + j] = t[j]
  BY <1>1
<1>3. ASSUME NEW x, Holds(s, x) PROVE Holds(s \o t, x)
  <2>1. PICK j \in DOMAIN s : s[j] = x
    BY <1>3 DEF Holds
  <2>2. j \in DOMAIN (s \o t) /\ (s \o t)[j] = x
    BY <1>1, <2>1
  <2>3. QED
    BY <2>2 DEF Holds
<1>4. ASSUME NEW x, Holds(t, x) PROVE Holds(s \o t, x)
  <2>1. PICK j \in DOMAIN t : t[j] = x
    BY <1>4 DEF Holds
  <2>2. Len(s) + j \in DOMAIN (s \o t) /\ (s \o t)[Len(s) + j] = x
    BY <1>1, <1>2, <2>1
  <2>3. QED
    BY <2>2 DEF Holds
<1>5. QED
  BY <1>1, <1>3, <1>4

LEMMA FlattenFacts ==
  ASSUME NEW S, NEW n \in Nat, NEW seqs, DOMAIN seqs = 1..n, Len(seqs) = n, n = 0 => seqs = <<>>,
         \A a \in 1..n : seqs[a] \in Seq(S)
  PROVE  /\ FlattenSeq(seqs) \in Seq(S)
         /\ \A a \in 1..n : \A x : Holds(seqs[a], x) => Holds(FlattenSeq(seqs), x)
<1>1. CASE n = 0
  BY <1>1 DEF FlattenSeq
<1>2. CASE n # 0
  <2>1. PICK f : f = CHOOSE h : h = [i \in 1..n |-> IF i = 1 THEN seqs[i] ELSE h[i - 1] \o seqs[i]]
    OBVIOUS
  <2>2. EndToEnd(f, seqs, n)
    <3>1. \E h : h = [i \in 1..n |-> IF i = 1 THEN seqs[i] ELSE h[i - 1] \o seqs[i]]
      BY EndToEndExists DEF EndToEnd
    <3>2. QED
      BY <2>1, <3>1 DEF EndToEnd
  <2>3. FlattenSeq(seqs) = f[n]
    BY <1>2, <2>1 DEF FlattenSeq
  <2> DEFINE Good(k) == /\ f[k] \in Seq(S)
                        /\ \A a \in 1..k : \A x : Holds(seqs[a], x) => Holds(f[k], x)
             G == {k \in Nat : k \in 1..n => Good(k)}
  <2>4. 0 \in G
    OBVIOUS
  <2>5. ASSUME NEW k \in G PROVE k + 1 \in G
    <3>1. SUFFICES ASSUME k + 1 \in 1..n PROVE Good(k + 1)
      OBVIOUS
    <3>2. CASE k = 0
      <4>1. f[1] = seqs[1]
        BY <2>2, <3>1, <3>2 DEF EndToEnd
      <4>2. QED
        BY <3>1, <3>2, <4>1
    <3>3. CASE k # 0
      <4>1. k \in 1..n /\ Good(k) /\ k + 1 # 1 /\ (k + 1) - 1 = k
        BY <3>1, <3>3
      <4>2. f[k + 1] = f[k] \o seqs[k + 1]
        BY <2>2, <3>1, <4>1 DEF EndToEnd
      <4>3. PICK s \in Seq(S), t \in Seq(S) : s = f[k] /\ t = seqs[k + 1]
        BY <3>1, <4>1
      <4>4. s \o t \in Seq(S) /\ \A x : Holds(s, x) \/ Holds(t, x) => Holds(s \o t, x)
        BY ConcatHolds
      <4>5. \A a \in 1..(k + 1) : a \in 1..k \/ a = k + 1
        BY <4>1
      <4>6. QED
        BY <4>1, <4>2, <4>3, <4>4, <4>5
    <3>4. QED
      BY <3>2, <3>3
  <2>6. G = Nat
    <3>1. G \in SUBSET Nat
      OBVIOUS
    <3> HIDE DEF G
    <3>2. QED
      BY <2>4, <2>5, <3>1, NumberInduction
  <2>7. Good(n)
    <3>1. n \in 1..n
      BY <1>2
    <3> HIDE DEF Good
    <3>2. QED
      BY <2>6, <3>1
  <2>8. QED
    BY <2>3, <2>7
<1>3. QED
  BY <1>1, <1>2

-----------------------------------------------------------------------------
\* The host's part: the launches to come are well formed, what has been collected is right, and
\* every buffer the answer is made of is collected or still to come.

Needed(s) == \/ s.role = "value" \/ query.aggs[s.agg] = "Mean"
             \/ query.aggs[s.agg] \in {"Min", "Max"} /\ ~Fused

LaunchSet == {l \in [slots : Seq(SlotSet), on : {"cpu", "perRow", "prereduce"}] : LaunchOk(l)}

Promised(s, td) == \E n \in DOMAIN td : Holds(td[n].slots, s)

TodoOk(td)         == td \in Seq(LaunchSet)
ResultsOk(res)     == \A s \in DOMAIN res : s \in SlotSet /\ \A g \in Groups : res[s][g] = Due(s, Rows, g)
AllPromised(td, res)  == \A s \in SlotSet : Needed(s) => s \in DOMAIN res \/ Promised(s, td)

HostInv ==
  /\ Chose
  /\ TodoOk(todo)
  /\ phase = "gpu" => todo # <<>>
  /\ ResultsOk(results)
  /\ AllPromised(todo, results)

LEMMA AggSlots ==
  ASSUME Chose, NEW a \in Aggs
  PROVE  Slot(a, "value") \in SlotSet /\ Slot(a, "count") \in SlotSet
BY DEF Slot, SlotSet

LEMMA SlotIs ==
  ASSUME NEW s \in SlotSet
  PROVE  s.agg \in Aggs /\ s.role \in {"value", "count"} /\ s = Slot(s.agg, s.role)
BY DEF Slot, SlotSet

LEMMA OneLaunch ==
  ASSUME Chose, NEW s \in SlotSet
  PROVE  Launch1(s) \in LaunchSet /\ Launch1(s).slots = <<s>>
<1>1. <<s>> \in Seq(SlotSet) /\ <<s>> # <<>> /\ Len(<<s>>) = 1
  OBVIOUS
<1>2. Launch1(s).on \in {"cpu", "perRow", "prereduce"} /\ Launch1(s).slots = <<s>>
  BY DEF Launch1
<1>3. Launch1(s) \in [slots : Seq(SlotSet), on : {"cpu", "perRow", "prereduce"}]
  BY <1>1, <1>2 DEF Launch1
<1>4. QED
  BY <1>1, <1>2, <1>3 DEF LaunchSet, LaunchOk

\* An aggregation's own launches, or its slots in the fused one, have what it needs.
LEMMA OneAggFacts ==
  ASSUME Chose, NEW a \in Aggs
  PROVE  /\ OneAgg(a) \in Seq(LaunchSet)
         /\ \A s \in SlotSet : s.agg = a /\ Needed(s) => Promised(s, OneAgg(a))
<1>1. PICK v \in SlotSet, c \in SlotSet : v = Slot(a, "value") /\ c = Slot(a, "count")
  BY AggSlots
<1>2. PICK p \in LaunchSet, q \in LaunchSet :
        p = Launch1(v) /\ q = Launch1(c) /\ p.slots = <<v>> /\ q.slots = <<c>>
  BY OneLaunch
<1>3. PICK both : both = (query.aggs[a] \in {"Min", "Max", "Mean"})
  OBVIOUS
<1>4. OneAgg(a) = IF both THEN <<p, q>> ELSE <<p>>
  BY <1>1, <1>2, <1>3 DEF OneAgg
<1>5. OneAgg(a) \in Seq(LaunchSet)
  BY <1>4
<1>6. ASSUME NEW s \in SlotSet, s.agg = a, Needed(s) PROVE Promised(s, OneAgg(a))
  <2>1. s = v \/ (s = c /\ both)
    BY <1>1, <1>3, <1>6, SlotIs DEF Needed
  <2>2. CASE s = v
    <3>1. 1 \in DOMAIN OneAgg(a) /\ OneAgg(a)[1] = p
      BY <1>4
    <3>2. Holds(p.slots, s)
      BY <1>2, <2>2 DEF Holds
    <3>3. QED
      BY <3>1, <3>2 DEF Promised
  <2>3. CASE s = c /\ both
    <3>1. 2 \in DOMAIN OneAgg(a) /\ OneAgg(a)[2] = q
      BY <1>4, <2>3
    <3>2. Holds(q.slots, s)
      BY <1>2, <2>3 DEF Holds
    <3>3. QED
      BY <3>1, <3>2 DEF Promised
  <2>4. QED
    BY <2>1, <2>2, <2>3
<1>7. QED
  BY <1>5, <1>6

LEMMA FusedSlotFacts ==
  ASSUME Chose, Fused, NEW a \in Aggs
  PROVE  /\ FusedSlots(a) \in Seq(SlotSet)
         /\ \A s \in SlotSet : s.agg = a /\ Needed(s) => Holds(FusedSlots(a), s)
<1>1. PICK v \in SlotSet, c \in SlotSet : v = Slot(a, "value") /\ c = Slot(a, "count")
  BY AggSlots
<1>2. FusedSlots(a) = IF query.aggs[a] = "Mean" THEN <<v, c>> ELSE <<v>>
  BY <1>1 DEF FusedSlots
<1>3. ASSUME NEW s \in SlotSet, s.agg = a, Needed(s) PROVE Holds(FusedSlots(a), s)
  <2>1. s = v \/ (s = c /\ query.aggs[a] = "Mean")
    BY <1>1, <1>3, SlotIs DEF Needed
  <2>2. CASE s = v
    <3>1. 1 \in DOMAIN FusedSlots(a) /\ FusedSlots(a)[1] = s
      BY <1>2, <2>2
    <3>2. QED
      BY <3>1 DEF Holds
  <2>3. CASE s = c /\ query.aggs[a] = "Mean"
    <3>1. 2 \in DOMAIN FusedSlots(a) /\ FusedSlots(a)[2] = s
      BY <1>2, <2>3
    <3>2. QED
      BY <3>1 DEF Holds
  <2>4. QED
    BY <2>1, <2>2, <2>3
<1>4. QED
  BY <1>2, <1>3

LEMMA LengthOf ==
  ASSUME NEW S, NEW n \in Nat, NEW D, D = 1..n, NEW seqs, seqs = [a \in D |-> seqs[a]],
         \A a \in 1..n : seqs[a] \in S
  PROVE  DOMAIN seqs = 1..n /\ Len(seqs) = n /\ (n = 0 => seqs = <<>>)
<1>1. seqs \in [1..n -> S]
  OBVIOUS
<1>2. seqs \in Seq(S)
  BY <1>1
<1>3. DOMAIN seqs = 1..n
  BY <1>1
<1>4. Len(seqs) = n
  BY <1>2, <1>3
<1>5. n = 0 => seqs = <<>>
  BY <1>2, <1>4
<1>6. QED
  BY <1>3, <1>4, <1>5

LEMMA LaunchesOk ==
  ASSUME Chose
  PROVE  /\ TodoOk(Launches)
         /\ \A s \in SlotSet : Needed(s) => Promised(s, Launches)
<1>1. PICK n \in Nat : n = Len(query.aggs) /\ Aggs = 1..n
  BY QueryFacts
<1>2. CASE Fused
  <2>1. PICK seqs : seqs = [a \in Aggs |-> FusedSlots(a)]
    OBVIOUS
  <2>2. n >= 2
    BY <1>1, <1>2 DEF Fused
  <2>3. \A a \in 1..n : seqs[a] = FusedSlots(a) /\ seqs[a] \in Seq(SlotSet)
    BY <1>1, <1>2, <2>1, FusedSlotFacts
  <2>4. DOMAIN seqs = 1..n /\ Len(seqs) = n /\ (n = 0 => seqs = <<>>)
    BY <1>1, <2>1, <2>2, <2>3, LengthOf
  <2>5. PICK flat : flat = FlattenSeq(seqs)
    OBVIOUS
  <2>6. flat \in Seq(SlotSet) /\ \A a \in 1..n : \A x : Holds(seqs[a], x) => Holds(flat, x)
    <3>1. \A a \in 1..n : seqs[a] \in Seq(SlotSet)
      BY <2>3
    <3>2. QED
      BY <2>4, <2>5, <3>1, FlattenFacts
  <2>7. ASSUME NEW s \in SlotSet, Needed(s) PROVE Holds(flat, s)
    <3>1. s.agg \in 1..n
      BY <1>1, SlotIs
    <3>2. Holds(FusedSlots(s.agg), s)
      BY <1>1, <1>2, <2>7, <3>1, FusedSlotFacts
    <3>3. QED
      BY <2>3, <2>6, <3>1, <3>2
  <2>8. flat # <<>>
    <3>1. 1 \in Aggs
      BY <1>1, <2>2
    <3>2. PICK s \in SlotSet : s = Slot(1, "value")
      BY <3>1, AggSlots
    <3>3. Holds(flat, s)
      BY <2>7, <3>2 DEF Needed, Slot
    <3>4. QED
      BY <3>3 DEF Holds
  <2>9. PICK l : l = [slots |-> flat, on |-> "prereduce"]
    OBVIOUS
  <2>10. l \in LaunchSet /\ l.slots = flat
    BY <2>6, <2>8, <2>9 DEF LaunchSet, LaunchOk
  <2>11. Launches = <<l>>
    BY <1>2, <2>1, <2>5, <2>9 DEF Launches
  <2>12. ASSUME NEW s \in SlotSet, Needed(s) PROVE Promised(s, Launches)
    <3>1. 1 \in DOMAIN Launches /\ Launches[1] = l
      BY <2>11
    <3>2. Holds(l.slots, s)
      BY <2>7, <2>10, <2>12
    <3>3. QED
      BY <3>1, <3>2 DEF Promised
  <2>13. TodoOk(Launches)
    BY <2>10, <2>11 DEF TodoOk
  <2>14. QED
    BY <2>12, <2>13
<1>3. CASE ~Fused
  <2>1. PICK seqs : seqs = [a \in Aggs |-> OneAgg(a)]
    OBVIOUS
  <2>2. \A a \in 1..n : seqs[a] = OneAgg(a) /\ seqs[a] \in Seq(LaunchSet)
    BY <1>1, <2>1, OneAggFacts
  <2>3. DOMAIN seqs = 1..n /\ Len(seqs) = n /\ (n = 0 => seqs = <<>>)
    BY <1>1, <2>1, <2>2, LengthOf
  <2>5. PICK flat : flat = FlattenSeq(seqs)
    OBVIOUS
  <2>6. flat \in Seq(LaunchSet) /\ \A a \in 1..n : \A x : Holds(seqs[a], x) => Holds(flat, x)
    <3>1. \A a \in 1..n : seqs[a] \in Seq(LaunchSet)
      BY <2>2
    <3>2. QED
      BY <2>3, <2>5, <3>1, FlattenFacts
  <2>7. Launches = flat
    BY <1>3, <2>1, <2>5 DEF Launches
  <2>8. ASSUME NEW s \in SlotSet, Needed(s) PROVE Promised(s, flat)
    <3>1. s.agg \in 1..n /\ s.agg \in Aggs
      BY <1>1, SlotIs
    <3>2. Promised(s, OneAgg(s.agg))
      BY <2>8, <3>1, OneAggFacts
    <3>3. PICK k \in DOMAIN OneAgg(s.agg) : Holds(OneAgg(s.agg)[k].slots, s)
      BY <3>2 DEF Promised
    <3>4. PICK l : l = OneAgg(s.agg)[k]
      OBVIOUS
    <3>5. Holds(seqs[s.agg], l)
      BY <2>2, <3>1, <3>4 DEF Holds
    <3>6. Holds(flat, l)
      BY <2>6, <3>1, <3>5
    <3>7. QED
      BY <3>3, <3>4, <3>6 DEF Promised, Holds
  <2>9. QED
    BY <2>6, <2>7, <2>8 DEF TodoOk
<1>4. QED
  BY <1>2, <1>3

-----------------------------------------------------------------------------
\* The steps of the host.

LEMMA FirstLaunch ==
  ASSUME TodoOk(todo), todo # <<>>
  PROVE  /\ Kernel \in LaunchSet /\ LaunchOk(Kernel) /\ TodoOk(Tail(todo))
         /\ \A s : Promised(s, todo) => Promised(s, Tail(todo)) \/ Holds(Slots, s)
<1>1. todo \in Seq(LaunchSet)
  BY DEF TodoOk
<1>2. Kernel \in LaunchSet /\ Kernel = todo[1] /\ Tail(todo) \in Seq(LaunchSet)
  BY <1>1 DEF Kernel
<1>3. LaunchOk(Kernel)
  BY <1>2 DEF LaunchSet
<1>4. ASSUME NEW s, Promised(s, todo) PROVE Promised(s, Tail(todo)) \/ Holds(Slots, s)
  <2>1. PICK n \in DOMAIN todo : Holds(todo[n].slots, s)
    BY <1>4 DEF Promised
  <2>2. n \in 1..Len(todo) /\ Len(todo) \in Nat
    BY <1>1
  <2>3. CASE n = 1
    BY <1>2, <2>1, <2>3 DEF Slots
  <2>4. CASE n # 1
    <3>1. n - 1 \in DOMAIN Tail(todo) /\ Tail(todo)[n - 1] = todo[n]
      BY <1>1, <2>2, <2>4
    <3>2. QED
      BY <2>1, <3>1 DEF Promised
  <2>5. QED
    BY <2>3, <2>4
<1>5. QED
  BY <1>2, <1>3, <1>4 DEF TodoOk

\* The host's part after a step.
LEMMA HostAfter ==
  ASSUME UNCHANGED <<query, column>>, Chose, TodoOk(todo'), phase' = "gpu" => todo' # <<>>,
         ResultsOk(results'), AllPromised(todo', results')
  PROVE  HostInv'
<1>1. /\ SlotSet' = SlotSet /\ Rows' = Rows /\ Groups' = Groups /\ Chose'
      /\ \A s, R, g : Due(s, R, g)' = Due(s, R, g)
  BY SlotConstants
<1>2. LaunchSet' = LaunchSet
  BY <1>1 DEF LaunchSet, LaunchOk
<1>3. ASSUME NEW s PROVE Needed(s)' = Needed(s)
  BY <1>1 DEF Needed, Fused, Wide
<1>4. TodoOk(todo)'
  BY <1>2 DEF TodoOk
<1>5. ResultsOk(results)'
  BY <1>1 DEF ResultsOk
<1>6. AllPromised(todo, results)'
  BY <1>1, <1>3 DEF AllPromised, Promised
<1>7. QED
  BY <1>1, <1>4, <1>5, <1>6 DEF HostInv

\* The buffers bufs, one for every slot of the launch that has ended, join the results.
LEMMA HostGains ==
  ASSUME HostInv, todo # <<>>, UNCHANGED <<query, column>>, phase' # "gpu",
         NEW bufs, \A s : Holds(Slots, s) => s \in DOMAIN bufs, ResultsOk(bufs),
         results' = Gained(bufs), todo' = Tail(todo)
  PROVE  HostInv'
<1>1. Chose /\ TodoOk(todo) /\ ResultsOk(results) /\ AllPromised(todo, results)
  BY DEF HostInv
<1>2. /\ TodoOk(Tail(todo))
      /\ \A s : Promised(s, todo) => Promised(s, Tail(todo)) \/ Holds(Slots, s)
  BY <1>1, FirstLaunch
<1>3. /\ DOMAIN results' = DOMAIN bufs \cup DOMAIN results
      /\ \A s \in DOMAIN bufs : results'[s] = bufs[s]
      /\ \A s \in DOMAIN results \ DOMAIN bufs : results'[s] = results[s]
  BY DEF Gained
<1>4. ResultsOk(results')
  BY <1>1, <1>3 DEF ResultsOk
<1>5. AllPromised(todo', results')
  BY <1>1, <1>2, <1>3 DEF AllPromised
<1>6. QED
  BY <1>1, <1>2, <1>4, <1>5, HostAfter

\* When every flusher is through its list, the buffers hold what they should.
LEMMA FinishedBuffers ==
  ASSUME Running, \A f \in DOMAIN flush : Finished(f), NEW i \in DOMAIN Slots, NEW g \in Groups
  PROVE  out[i][g] = Due(Slots[i], Rows, g)
<1>1. Chose /\ LaunchOk(Kernel) /\ BuffersOk(flush, out) /\ Balanced(flush, out)
  BY DEF Running, KernelInv
<1>2. PICK s \in SlotSet : s = Slots[i]
  BY <1>1, SlotFacts
<1>3. PICK V, m, e, base, a :
        V = Values(s) /\ m = Op(s) /\ e = Identity(s) /\ base = out[i][g] /\ a = Lefts(flush, i, g)
  OBVIOUS
<1>4. Monoid(V, m, e) /\ base \in V /\ Family(a, Flushers, V)
  BY <1>1, <1>2, <1>3, CombineMonoid, LeftsFamily DEF BuffersOk
<1>5. ASSUME NEW f \in Flushers PROVE a[f] = e
  <2>1. flush[f].at \notin DOMAIN Targets(f) /\ flush[f].at \in Nat \ {0}
    BY <1>1 DEF BuffersOk, Finished
  <2>2. \E k \in Nat : DOMAIN Targets(f) = 1..k
    <3>1. CASE Prereduce
      <4>1. NGroups * NSlots \in Nat
        BY <1>1, SlotFacts, ColumnFacts
      <4>2. DOMAIN Targets(f) = 1..(NGroups * NSlots)
        BY <3>1 DEF Targets
      <4>3. QED
        BY <4>1, <4>2
    <3>2. CASE ~Prereduce
      <4>1. Targets(f) = <<[slot |-> 1, group |-> column.groups[f]]>> \/ Targets(f) = <<>>
        BY <3>2 DEF Targets
      <4>2. DOMAIN Targets(f) = 1..1 \/ DOMAIN Targets(f) = 1..0
        BY <4>1
      <4>3. QED
        BY <4>2
    <3>3. QED
      BY <3>1, <3>2
  <2>3. ~ \E n \in DOMAIN Targets(f) : n >= flush[f].at /\ Targets(f)[n] = [slot |-> i, group |-> g]
    BY <2>1, <2>2
  <2>4. QED
    BY <1>2, <1>3, <2>3 DEF Lefts, Left
<1>6. FoldOf(m, base, a) = base
  BY <1>4, <1>5, FoldOntoBase
<1>7. FoldOf(Op(Slots[i]), out[i][g], Lefts(flush, i, g)) = Due(Slots[i], Rows, g)
  BY <1>1 DEF Balanced
<1>8. QED
  BY <1>2, <1>3, <1>6, <1>7

LEMMA CollectKeeps ==
  ASSUME HostInv, KernelInv, Collect
  PROVE  HostInv'
<1>1. /\ phase = "gpu" /\ \A f \in DOMAIN flush : Finished(f)
      /\ phase' = "host" /\ results' = Gained(Named(out)) /\ todo' = Tail(todo)
      /\ UNCHANGED <<query, column>>
  BY DEF Collect
<1>2. Chose /\ todo # <<>> /\ LaunchOk(Kernel)
  BY <1>1, FirstLaunch DEF HostInv
<1>3. Running
  BY <1>1, <1>2 DEF Running
<1>4. PICK bufs : bufs = Named(out)
  OBVIOUS
<1>5. \A s : s \in DOMAIN bufs <=> Holds(Slots, s)
  BY <1>4 DEF Named, Holds
<1>6. ASSUME NEW s \in DOMAIN bufs
      PROVE  s \in SlotSet /\ \A g \in Groups : bufs[s][g] = Due(s, Rows, g)
  <2>1. PICK i \in DOMAIN Slots : i = CHOOSE k \in DOMAIN Slots : Slots[k] = s
    BY <1>5 DEF Holds
  <2>2. Slots[i] = s
    BY <1>5, <2>1 DEF Holds
  <2>3. bufs[s] = out[i]
    BY <1>4, <1>5, <2>1 DEF Named, Holds
  <2>4. s \in SlotSet
    BY <1>2, <2>2, SlotFacts
  <2>5. \A g \in Groups : out[i][g] = Due(s, Rows, g)
    BY <1>1, <1>3, <2>2, FinishedBuffers
  <2>6. QED
    BY <2>3, <2>4, <2>5
<1>7. ResultsOk(bufs)
  BY <1>6 DEF ResultsOk
<1>8. QED
  BY <1>1, <1>2, <1>4, <1>5, <1>7, HostGains

LEMMA CpuKeeps ==
  ASSUME HostInv, CpuAggregate
  PROVE  HostInv'
<1>1. PICK s : s = Slots[1]
  OBVIOUS
<1>2. PICK cut \in 0..NRows :
        results' = Gained([x \in {s} |->
                            [g \in Groups |-> Combine(s, Reduce(s, 1..cut, g),
                                                         Reduce(s, (cut + 1)..NRows, g))]])
  BY <1>1 DEF CpuAggregate
<1>3. /\ phase = "host" /\ todo # <<>> /\ Kernel.on = "cpu"
      /\ UNCHANGED <<query, column, phase>> /\ todo' = Tail(todo)
  BY DEF CpuAggregate
<1>4. Chose /\ LaunchOk(Kernel)
  BY <1>3, FirstLaunch DEF HostInv
<1>5. s \in SlotSet /\ DOMAIN Slots = {1}
  <2>1. NSlots = 1
    BY <1>3, <1>4 DEF LaunchOk, NSlots, Slots
  <2>2. DOMAIN Slots = 1..NSlots /\ \A i \in DOMAIN Slots : Slots[i] \in SlotSet
    BY <1>4, SlotFacts
  <2>3. QED
    BY <1>1, <2>1, <2>2
<1>6. ASSUME NEW g
      PROVE  Combine(s, Reduce(s, 1..cut, g), Reduce(s, (cut + 1)..NRows, g)) = Due(s, Rows, g)
  <2>1. NRows \in Nat /\ Rows = 1..NRows
    BY <1>4, ColumnFacts
  <2>2. PICK A, B : A = 1..cut /\ B = (cut + 1)..NRows
    OBVIOUS
  <2>3. A \cap B = {} /\ A \cup B = Rows
    BY <2>1, <2>2
  <2>4. Combine(s, Reduce(s, A, g), Reduce(s, B, g)) = Reduce(s, Rows, g)
    BY <1>4, <1>5, <2>3, ReduceTwo
  <2>5. QED
    BY <1>4, <1>5, <2>2, <2>4, DueIs
<1>7. PICK buf : buf = [g \in Groups |-> Combine(s, Reduce(s, 1..cut, g),
                                                   Reduce(s, (cut + 1)..NRows, g))]
  OBVIOUS
<1>8. PICK bufs : bufs = [x \in {s} |-> buf]
  OBVIOUS
<1>9. DOMAIN bufs = {s} /\ bufs[s] = buf
  BY <1>8
<1>10. ResultsOk(bufs)
  BY <1>5, <1>6, <1>7, <1>9 DEF ResultsOk
<1>11. \A x : Holds(Slots, x) => x \in DOMAIN bufs
  BY <1>1, <1>5, <1>9 DEF Holds
<1>12. results' = Gained(bufs)
  BY <1>2, <1>7, <1>8
<1>13. QED
  BY <1>3, <1>10, <1>11, <1>12, HostGains

-----------------------------------------------------------------------------
\* The answer.

\* The aggregate as the engine computes it, over Due; and what may stand for it.
Best(a, g) ==
  LET n == Due(Slot(a, "count"), Rows, g)
      v == Due(Slot(a, "value"), Rows, g)
  IN  CASE query.aggs[a] \in {"Min", "Max"} -> IF n = 0 THEN Null ELSE v
        [] query.aggs[a] = "Mean"           -> IF n = 0 THEN Null ELSE Mean(v, n)
        [] OTHER                            -> v

RightAnswer(a, g, x) == \/ x = Best(a, g)
                        \/ Fused /\ query.aggs[a] \in {"Min", "Max"} /\ Best(a, g) = Null

AnswerInv == phase = "answered" => \A a \in Aggs, g \in Groups : RightAnswer(a, g, answer[a][g])

\* The rows an exact sum goes over, and their values.
ExactRows(g)    == {r \in Rows : Valid(r) /\ column.groups[r] = g}
ExactAmounts(g) == [r \in ExactRows(g) |-> column.values[r]]

Plus == [x \in Int |-> [y \in Int |-> x + y]]

LEMMA ExactFamily ==
  ASSUME Chose, NEW g
  PROVE  /\ Monoid(Int, Plus, 0)
         /\ Family(ExactAmounts(g), ExactRows(g), Int)
         /\ \A r \in ExactRows(g) : column.values[r] \in -Half..(Half - 1)
<1>1. Monoid(Int, Plus, 0)
  BY DEF Monoid, Plus
<1>2. ExactRows(g) \in SUBSET Rows /\ IsFiniteSet(ExactRows(g))
  BY ColumnFacts, FS_Subset DEF ExactRows
<1>3. \A r \in ExactRows(g) : column.values[r] \in -Half..(Half - 1)
  BY ColumnFacts DEF ExactRows, Valid
<1>4. \A r \in ExactRows(g) : column.values[r] \in Int
  BY <1>3, Bounds
<1>5. QED
  BY <1>1, <1>2, <1>3, <1>4 DEF Family, ExactAmounts

\* ExactSum is the fold in the integers.
LEMMA ExactIsFoldOf ==
  ASSUME Chose, NEW g
  PROVE  ExactSum(g) = FoldOf(Plus, 0, ExactAmounts(g))
<1>1. PICK D, a : D = ExactRows(g) /\ a = ExactAmounts(g)
  OBVIOUS
<1>2. Monoid(Int, Plus, 0) /\ Family(a, D, Int) /\ 0 \in Int
  BY <1>1, ExactFamily
<1>3. IsFiniteSet(D) /\ DOMAIN a = D /\ \A x \in D : a[x] \in Int
  BY <1>2 DEF Family
<1>4. PICK h : h = FoldMap(Plus, 0, a)
  OBVIOUS
<1>5. FoldsOver(h, Plus, 0, a, D, Int) /\ FoldOf(Plus, 0, a) = h[D]
  BY <1>2, <1>4, FoldMapFacts
<1>6. h \in [SUBSET D -> Int] /\ Folds(h, D, 0, Applied(Plus, a))
  BY <1>5 DEF FoldsOver
<1> DEFINE Value(f, T) == IF T = {} THEN 0 ELSE a[Chosen(T)] + f[T \ {Chosen(T)}]
<1>7. h = [T \in SUBSET D |-> Value(h, T)]
  <2>1. ASSUME NEW T \in SUBSET D PROVE h[T] = Value(h, T)
    <3>1. CASE T = {}
      BY <1>6, <3>1 DEF Folds
    <3>2. CASE T # {}
      <4>1. Chosen(T) \in T
        BY <3>2 DEF Chosen
      <4>2. h[T] = Applied(Plus, a)[Chosen(T)][h[T \ {Chosen(T)}]]
        BY <1>6, <3>2 DEF Folds
      <4>3. Applied(Plus, a)[Chosen(T)] = Plus[a[Chosen(T)]]
        BY <1>3, <4>1 DEF Applied
      <4>4. a[Chosen(T)] \in Int /\ h[T \ {Chosen(T)}] \in Int
        BY <1>3, <1>6, <4>1
      <4>5. QED
        BY <3>2, <4>2, <4>3, <4>4 DEF Plus
    <3>3. QED
      BY <3>1, <3>2
  <2>2. DOMAIN h = SUBSET D /\ h = [T \in DOMAIN h |-> h[T]]
    BY <1>6
  <2>3. QED
    BY <2>1, <2>2
<1>8. PICK e : e = CHOOSE f : f = [T \in SUBSET D |-> Value(f, T)]
  OBVIOUS
<1>9. e = [T \in SUBSET D |-> Value(e, T)]
  <2> HIDE DEF Value
  <2>1. \E f : f = [T \in SUBSET D |-> Value(f, T)]
    BY <1>7
  <2>2. QED
    BY <1>8, <2>1
<1>10. ExactSum(g) = e[D]
  <2>1. ExactSum(g) = SumOf(a)
    BY <1>1 DEF ExactSum, ExactAmounts, ExactRows
  <2>2. SumOf(a) = e[D]
    BY <1>3, <1>8 DEF SumOf, FoldFunction, FoldFunctionOnSet, MapThenFoldSet, Chosen
  <2>3. QED
    BY <2>1, <2>2
<1> DEFINE G == {T \in SUBSET D : e[T] = h[T]}
<1>11. ASSUME NEW T \in SUBSET D, T # {}, \A x \in T : T \ {x} \in G PROVE T \in G
  <2>1. Chosen(T) \in T
    BY <1>11 DEF Chosen
  <2>2. e[T \ {Chosen(T)}] = h[T \ {Chosen(T)}]
    BY <1>11, <2>1
  <2>3. e[T] = Value(e, T) /\ h[T] = Value(h, T)
    <3> HIDE DEF Value
    <3>1. QED
      BY <1>7, <1>9
  <2>4. QED
    BY <2>2, <2>3
<1>12. {} \in G
  <2>1. e[{}] = Value(e, {}) /\ h[{}] = Value(h, {})
    <3> HIDE DEF Value
    <3>1. QED
      BY <1>7, <1>9
  <2>2. QED
    BY <2>1
<1>13. G = SUBSET D
  <2>1. G \in SUBSET (SUBSET D)
    OBVIOUS
  <2> HIDE DEF G
  <2>2. QED
    BY <1>3, <1>11, <1>12, <2>1, SubsetInduction
<1>14. e[D] = h[D]
  BY <1>13
<1>15. QED
  BY <1>1, <1>5, <1>10, <1>14

\* A multiple of n that is smaller than n is nothing.
LEMMA SmallMultiple ==
  ASSUME NEW n \in Nat \ {0}, NEW k \in Int, k * n < n, k * n > -n
  PROVE  k * n = 0
<1>1. CASE k >= 1
  <2>1. k * n >= n
    BY <1>1
  <2>2. QED
    BY <2>1
<1>2. CASE k <= -1
  <2>1. k * n <= -n
    BY <1>2
  <2>2. QED
    BY <2>1
<1>3. CASE k = 0
  BY <1>3
<1>4. QED
  BY <1>1, <1>2, <1>3

\* A wrapped sum that fits is the exact one: on every set of rows the two differ by a multiple
\* of the width.
LEMMA WrappedThatFits ==
  ASSUME Chose, NEW s \in SlotSet, Wraps(s), ~IsCounter(s), NEW g,
         ExactSum(g) \in -Half..(Half - 1)
  PROVE  Due(s, Rows, g) = ExactSum(g)
<1>0. Half \in Nat \ {0}
  BY Bounds
<1>1. PICK D, a, V, m : /\ D = ExactRows(g) /\ a = ExactAmounts(g)
                        /\ V = -Half..(Half - 1) /\ m = Op(s)
  OBVIOUS
<1>2. Values(s) = V /\ Identity(s) = 0 /\ \A x, y \in Int : Combine(s, x, y) = Wrap(x + y)
  BY <1>1 DEF Wraps
<1>3. Amounts(s, Rows, g) = a
  <2>1. SlotOp(s) # "Len"
    BY DEF IsCounter
  <2>2. Taken(s, Rows, g) = D
    BY <1>1, <2>1 DEF Taken, Counted, ExactRows
  <2>3. \A r \in D : Amount(s, r) = column.values[r]
    BY DEF Amount
  <2>4. QED
    BY <1>1, <2>2, <2>3 DEF Amounts, ExactAmounts
<1>4. Monoid(V, m, 0) /\ Family(a, D, V) /\ 0 \in V
  <2>1. Monoid(V, m, 0)
    BY <1>1, <1>2, CombineMonoid
  <2>2. Family(a, D, V)
    BY <1>1, ExactFamily DEF Family, ExactAmounts
  <2>3. QED
    BY <2>1, <2>2 DEF Monoid
<1>5. Monoid(Int, Plus, 0) /\ Family(a, D, Int)
  BY <1>1, ExactFamily
<1>6. PICK w, e : w = FoldMap(m, 0, a) /\ e = FoldMap(Plus, 0, a)
  OBVIOUS
<1>7. FoldsOver(w, m, 0, a, D, V) /\ FoldOf(m, 0, a) = w[D]
  BY <1>4, <1>6, FoldMapFacts
<1>8. FoldsOver(e, Plus, 0, a, D, Int) /\ FoldOf(Plus, 0, a) = e[D]
  BY <1>5, <1>6, FoldMapFacts
<1>9. PICK n \in Nat \ {0} : n = 2 * Half
  BY <1>0
<1> DEFINE G == {T \in SUBSET D : \E k \in Int : w[T] = e[T] + k * n}
<1>10. {} \in G
  <2>1. w[{}] = 0 /\ e[{}] = 0
    BY <1>7, <1>8 DEF FoldsOver
  <2>2. w[{}] = e[{}] + 0 * n
    BY <1>9, <2>1
  <2>3. QED
    BY <2>2
<1>11. ASSUME NEW T \in SUBSET D, T # {}, \A x \in T : T \ {x} \in G PROVE T \in G
  <2>1. PICK x \in T : TRUE
    BY <1>11
  <2>2. PICK R \in SUBSET D : R = T \ {x}
    OBVIOUS
  <2>3. PICK k \in Int : w[R] = e[R] + k * n
    BY <1>11, <2>2
  <2>4. a[x] \in V /\ w[R] \in V /\ e[R] \in Int /\ a[x] \in Int
    BY <1>4, <1>5, <1>7, <1>8, <2>1 DEF FoldsOver, Family
  <2>5. e[T] = a[x] + e[R]
    <3>1. e[T] = Plus[a[x]][e[R]]
      BY <1>8, <2>1, <2>2 DEF FoldsOver
    <3>2. QED
      BY <2>4, <3>1 DEF Plus
  <2>6. w[T] = Wrap(a[x] + w[R])
    <3>1. w[T] = m[a[x]][w[R]]
      BY <1>7, <2>1, <2>2 DEF FoldsOver
    <3>2. m[a[x]][w[R]] = Combine(s, a[x], w[R])
      BY <1>1, <1>2, <2>4 DEF Op
    <3>3. a[x] \in Int /\ w[R] \in Int
      BY <1>0, <1>1, <2>4
    <3>4. QED
      BY <1>2, <3>1, <3>2, <3>3
  <2>7. PICK u \in Int, v \in Int, y \in Int : u = a[x] /\ v = w[R] /\ y = e[R]
    BY <1>0, <1>1, <2>4
  <2>8. \/ w[T] = u + v \/ w[T] = u + v - n \/ w[T] = u + v + n
    BY <1>0, <1>1, <1>9, <2>4, <2>6, <2>7, WrapCases
  <2>9. PICK p \in Int : p = k * n
    BY <1>9
  <2>10. (k - 1) * n = p - n /\ (k + 1) * n = p + n
    BY <1>9, <2>9
  <2>11. \/ w[T] = e[T] + k * n \/ w[T] = e[T] + (k - 1) * n \/ w[T] = e[T] + (k + 1) * n
    BY <1>9, <2>3, <2>5, <2>7, <2>8, <2>9, <2>10
  <2>12. k - 1 \in Int /\ k + 1 \in Int
    OBVIOUS
  <2>13. QED
    BY <2>11, <2>12
<1>12. D \in G
  <2>1. IsFiniteSet(D) /\ G \in SUBSET (SUBSET D)
    BY <1>4 DEF Family
  <2> HIDE DEF G
  <2>2. G = SUBSET D
    BY <1>10, <1>11, <2>1, SubsetInduction
  <2>3. QED
    BY <2>2
<1>13. PICK k \in Int : w[D] = e[D] + k * n
  BY <1>12
<1>14. e[D] = ExactSum(g) /\ w[D] = Due(s, Rows, g)
  <2>1. e[D] = ExactSum(g)
    BY <1>1, <1>8, ExactIsFoldOf
  <2>2. w[D] = Due(s, Rows, g)
    BY <1>1, <1>2, <1>3, <1>7 DEF Due
  <2>3. QED
    BY <2>1, <2>2
<1>15. w[D] \in -Half..(Half - 1) /\ e[D] \in -Half..(Half - 1)
  BY <1>1, <1>7, <1>14 DEF FoldsOver
<1>16. PICK p \in Int : p = k * n
  BY <1>9
<1>17. p < n /\ p > -n
  BY <1>0, <1>9, <1>13, <1>15, <1>16
<1>18. p = 0
  BY <1>16, <1>17, SmallMultiple
<1>19. QED
  BY <1>0, <1>13, <1>14, <1>15, <1>16, <1>18

\* Without a width there is nothing to wrap.
LEMMA FloatsAreExact ==
  ASSUME Chose, NEW s \in SlotSet, Adds(s), ~IsCounter(s), NEW g
  PROVE  Due(s, Rows, g) = ExactSum(g)
<1>1. SlotOp(s) # "Len"
  BY DEF IsCounter
<1>2. Taken(s, Rows, g) = ExactRows(g)
  BY <1>1 DEF Taken, Counted, ExactRows
<1>3. \A r \in ExactRows(g) : Amount(s, r) = column.values[r]
  BY DEF Amount
<1>4. Amounts(s, Rows, g) = ExactAmounts(g)
  BY <1>2, <1>3 DEF Amounts, ExactAmounts
<1>5. Values(s) = Int /\ Identity(s) = 0 /\ \A x, y \in Int : Combine(s, x, y) = x + y
  BY DEF Adds
<1>6. Op(s) = Plus
  BY <1>5 DEF Op, Plus
<1>7. QED
  BY <1>4, <1>5, <1>6, ExactIsFoldOf DEF Due

\* What is answered is what Polars computes, but for the integer mean of a sum that wraps.
LEMMA BestIsExpected ==
  ASSUME Chose, NEW a \in Aggs, NEW g
  PROVE  /\ Best(a, g) = Expected(a, g) \/ MeanOverflows(a, g)
         /\ query.aggs[a] # "Mean" => Best(a, g) = Expected(a, g)
<1>1. PICK v \in SlotSet, c \in SlotSet : v = Slot(a, "value") /\ c = Slot(a, "count")
  BY AggSlots
<1>2. /\ Reduce(v, Rows, g) = Due(v, Rows, g)
      /\ Reduce(c, Rows, g) = Due(c, Rows, g)
  BY DueIs
<1>3. CASE query.aggs[a] # "Mean"
  BY <1>1, <1>2, <1>3 DEF Best, Expected
<1>4. CASE query.aggs[a] = "Mean"
  <2>1. SlotOp(v) = "Sum" /\ ~IsCounter(v)
    BY <1>1, <1>4 DEF SlotOp, IsCounter, Slot
  <2>2. Adds(v) \/ Wraps(v)
    BY <2>1, SlotKinds DEF Minimizes, Maximizes
  <2>3. ~MeanOverflows(a, g) => Due(v, Rows, g) = ExactSum(g)
    <3>1. CASE Adds(v)
      BY <2>1, <3>1, FloatsAreExact
    <3>2. CASE Wraps(v)
      <4>1. ~IsFloat(v)
        BY <3>2 DEF Wraps
      <4>2. ~MeanOverflows(a, g) => ExactSum(g) \in -Half..(Half - 1)
        BY <1>1, <1>4, <4>1 DEF MeanOverflows
      <4>3. QED
        BY <2>1, <3>2, <4>2, WrappedThatFits
    <3>3. QED
      BY <2>2, <3>1, <3>2
  <2>4. /\ Best(a, g) = IF Due(c, Rows, g) = 0 THEN Null ELSE Mean(Due(v, Rows, g), Due(c, Rows, g))
        /\ Expected(a, g) = IF Due(c, Rows, g) = 0 THEN Null ELSE Mean(ExactSum(g), Due(c, Rows, g))
    BY <1>1, <1>2, <1>4 DEF Best, Expected
  <2>5. QED
    BY <1>4, <2>3, <2>4
<1>5. QED
  BY <1>3, <1>4

LEMMA BestStays ==
  ASSUME UNCHANGED <<query, column>>
  PROVE  /\ Aggs' = Aggs /\ Groups' = Groups
         /\ \A a, g, x : RightAnswer(a, g, x)' = RightAnswer(a, g, x)
<1>1. Rows' = Rows /\ Groups' = Groups /\ \A s, R, g : Due(s, R, g)' = Due(s, R, g)
  BY SlotConstants
<1>2. ASSUME NEW a, NEW g PROVE Best(a, g)' = Best(a, g)
  BY <1>1 DEF Best, Slot, Mean
<1>3. Fused' = Fused /\ Aggs' = Aggs
  BY <1>1 DEF Fused, Wide, Aggs
<1>4. QED
  BY <1>1, <1>2, <1>3 DEF RightAnswer

LEMMA FinishAnswers ==
  ASSUME HostInv, Finish
  PROVE  AnswerInv'
<1>1. /\ todo = <<>> /\ UNCHANGED <<query, column>> /\ phase' = "answered"
      /\ answer' = [a \in Aggs |-> [g \in Groups |-> Finalized(a, g)]]
  BY DEF Finish
<1>2. Chose /\ ResultsOk(results) /\ AllPromised(todo, results)
  BY DEF HostInv
<1>3. ASSUME NEW s \in SlotSet, Needed(s), NEW g \in Groups
      PROVE  results[s][g] = Due(s, Rows, g)
  <2>1. ~Promised(s, todo)
    BY <1>1 DEF Promised
  <2>2. QED
    BY <1>2, <1>3, <2>1 DEF AllPromised, ResultsOk
<1>4. ASSUME NEW a \in Aggs, NEW g \in Groups PROVE RightAnswer(a, g, Finalized(a, g))
  <2>1. PICK v \in SlotSet, c \in SlotSet : v = Slot(a, "value") /\ c = Slot(a, "count")
    BY <1>2, AggSlots
  <2>2. v.role = "value" /\ v.agg = a /\ c.role = "count" /\ c.agg = a
    BY <2>1 DEF Slot
  <2>3. results[v][g] = Due(v, Rows, g)
    BY <1>3, <2>2 DEF Needed
  <2>4. CASE query.aggs[a] = "Mean"
    <3>1. results[c][g] = Due(c, Rows, g)
      BY <1>3, <2>2, <2>4 DEF Needed
    <3>2. Finalized(a, g) = Best(a, g)
      BY <2>1, <2>3, <2>4, <3>1 DEF Finalized, Best
    <3>3. QED
      BY <3>2 DEF RightAnswer
  <2>5. CASE query.aggs[a] \in {"Min", "Max"} /\ ~Fused
    <3>1. results[c][g] = Due(c, Rows, g)
      BY <1>3, <2>2, <2>5 DEF Needed
    <3>2. Finalized(a, g) = Best(a, g)
      BY <2>1, <2>3, <2>5, <3>1 DEF Finalized, Best
    <3>3. QED
      BY <3>2 DEF RightAnswer
  <2>6. CASE query.aggs[a] \in {"Min", "Max"} /\ Fused
    <3>1. Finalized(a, g) = Due(v, Rows, g)
      BY <2>1, <2>3, <2>6 DEF Finalized
    <3>2. Best(a, g) = Null \/ Best(a, g) = Due(v, Rows, g)
      BY <2>1, <2>6 DEF Best
    <3>3. QED
      BY <2>6, <3>1, <3>2 DEF RightAnswer
  <2>7. CASE query.aggs[a] \notin {"Min", "Max", "Mean"}
    <3>1. Finalized(a, g) = Best(a, g)
      BY <2>1, <2>3, <2>7 DEF Finalized, Best
    <3>2. QED
      BY <3>1 DEF RightAnswer
  <2>8. QED
    BY <2>4, <2>5, <2>6, <2>7
<1>5. \A a \in Aggs, g \in Groups : RightAnswer(a, g, answer'[a][g])
  BY <1>1, <1>4
<1>6. QED
  BY <1>1, <1>5, BestStays DEF AnswerInv

-----------------------------------------------------------------------------
\* The inductive invariant.

AggInv == HostInv /\ KernelInv /\ AnswerInv

LEMMA AggInit == AggregateInit => AggInv
<1> SUFFICES ASSUME AggregateInit PROVE AggInv
  OBVIOUS
<1>1. Chose /\ phase = "host" /\ todo = Launches /\ results = <<>>
  BY DEF AggregateInit, Chose
<1>2. TodoOk(todo) /\ AllPromised(todo, results)
  BY <1>1, LaunchesOk DEF AllPromised
<1>3. ResultsOk(results)
  BY <1>1 DEF ResultsOk
<1>4. HostInv
  BY <1>1, <1>2, <1>3 DEF HostInv
<1>5. QED
  BY <1>1, <1>4 DEF AggInv, KernelInv, AnswerInv

\* The host's part of the invariant when a step leaves the launches and the results alone.
LEMMA HostStays ==
  ASSUME HostInv, UNCHANGED <<query, column, todo, results>>, phase' = "gpu" => todo # <<>>
  PROVE  HostInv'
BY HostAfter DEF HostInv

LEMMA GpuStep ==
  ASSUME HostInv, phase = "gpu", UNCHANGED <<query, column, phase, todo, results>>, KernelInv'
  PROVE  AggInv'
<1>1. HostInv'
  BY HostStays DEF HostInv
<1>2. QED
  BY <1>1 DEF AggInv, AnswerInv

LEMMA AggStep == AggInv /\ [AggregateNext]_aggregateVars => AggInv'
<1> SUFFICES ASSUME AggInv, [AggregateNext]_aggregateVars PROVE AggInv'
  OBVIOUS
<1>1. HostInv /\ KernelInv /\ AnswerInv
  BY DEF AggInv
<1>2. todo # <<>> => LaunchOk(Kernel)
  BY <1>1, FirstLaunch DEF HostInv
<1>3. phase = "gpu" => Running
  BY <1>1, <1>2 DEF Running, HostInv
<1>4. CASE Launch
  <2>1. phase' = "gpu" /\ todo # <<>> /\ UNCHANGED <<query, column, todo, results>>
    BY <1>4 DEF Launch
  <2>2. HostInv'
    BY <1>1, <2>1, HostStays
  <2>3. KernelInv'
    BY <1>1, <1>2, <1>4, <2>1, LaunchKeeps DEF HostInv
  <2>4. QED
    BY <2>1, <2>2, <2>3 DEF AggInv, AnswerInv
<1>5. CASE Collect
  <2>1. phase' = "host"
    BY <1>5 DEF Collect
  <2>2. QED
    BY <1>1, <1>5, <2>1, CollectKeeps DEF AggInv, KernelInv, AnswerInv
<1>6. CASE CpuAggregate
  <2>1. phase' = "host"
    BY <1>6 DEF CpuAggregate
  <2>2. QED
    BY <1>1, <1>6, <2>1, CpuKeeps DEF AggInv, KernelInv, AnswerInv
<1>7. CASE Finish
  <2>1. phase' = "answered" /\ UNCHANGED <<query, column, todo, results>>
    BY <1>7 DEF Finish
  <2>2. HostInv'
    BY <1>1, <2>1, HostStays
  <2>3. AnswerInv'
    BY <1>1, <1>7, FinishAnswers
  <2>4. QED
    BY <2>1, <2>2, <2>3 DEF AggInv, KernelInv
<1>8. CASE Fail
  <2>1. phase' = "failed" /\ UNCHANGED <<query, column, todo, results>>
    BY <1>8 DEF Fail
  <2>2. HostInv'
    BY <1>1, <2>1, HostStays
  <2>3. QED
    BY <2>1, <2>2 DEF AggInv, KernelInv, AnswerInv
<1>9. ASSUME NEW t, NEW sg, Stage(t, sg) PROVE AggInv'
  <2>1. phase = "gpu" /\ UNCHANGED <<query, column, phase, todo, results>>
    BY <1>9 DEF Stage
  <2>2. KernelInv'
    BY <1>3, <1>9, <2>1, StageKeeps
  <2>3. QED
    BY <1>1, <2>1, <2>2, GpuStep
<1>10. ASSUME NEW f, Skip(f) \/ FetchOp(f) \/ Load(f) \/ CompareExchange(f) PROVE AggInv'
  <2>1. phase = "gpu" /\ UNCHANGED <<query, column, phase, todo, results>>
    BY <1>10 DEF Skip, FetchOp, Load, CompareExchange, Flushing, KernelUnchanged
  <2>2. KernelInv'
    BY <1>3, <1>10, <2>1, SkipKeeps, FetchOpKeeps, LoadActionKeeps, ExchangeKeeps
  <2>3. QED
    BY <1>1, <2>1, <2>2, GpuStep
<1>11. CASE UNCHANGED aggregateVars
  <2>1. UNCHANGED <<query, column, phase, todo, staged, flush, out, results, answer>>
    BY <1>11 DEF aggregateVars
  <2>2. HostInv'
    BY <1>1, <2>1, HostStays DEF HostInv
  <2>3. KernelInv'
    <3>1. CASE phase = "gpu"
      <4>1. BuffersOk(flush', out') /\ Balanced(flush', out')
            /\ \A h \in Flushers : LoadedOk(h, flush', out')
        BY <1>1, <2>1, <3>1 DEF KernelInv
      <4>2. QED
        BY <2>1, <4>1, InvAfter
    <3>2. CASE phase # "gpu"
      BY <2>1, <3>2 DEF KernelInv
    <3>3. QED
      BY <3>1, <3>2
  <2>4. AnswerInv'
    <3>1. Aggs' = Aggs /\ Groups' = Groups
          /\ \A a, g, x : RightAnswer(a, g, x)' = RightAnswer(a, g, x)
      BY <2>1, BestStays
    <3>2. QED
      BY <1>1, <2>1, <3>1 DEF AnswerInv
  <2>5. QED
    BY <2>2, <2>3, <2>4 DEF AggInv
<1>12. QED
  BY <1>4, <1>5, <1>6, <1>7, <1>8, <1>9, <1>10, <1>11 DEF AggregateNext, Step

\* What is in a buffer and what its flushers have left is Fold and Pending of the property.
LEMMA BalanceIsProperty == AggInv => NoLostUpdate
<1> SUFFICES ASSUME AggInv, phase = "gpu", NEW i \in DOMAIN Slots, NEW g \in Groups
             PROVE  Fold(Slots[i], out[i][g], [f \in DOMAIN flush |-> Pending(f, i, g)])
                      = Reduce(Slots[i], Rows, g)
  BY DEF NoLostUpdate
<1>1. Chose /\ BuffersOk(flush, out) /\ Balanced(flush, out) /\ LaunchOk(Kernel)
  BY FirstLaunch DEF AggInv, HostInv, KernelInv
<1>2. PICK s \in SlotSet : s = Slots[i]
  BY <1>1, SlotFacts
<1>3. PICK a : a = Lefts(flush, i, g)
  OBVIOUS
<1>4. ASSUME NEW f \in Flushers PROVE Pending(f, i, g) = Left(f, flush[f].at, i, g)
  <2>1. Reduce(s, ShareOf(f), g) = Due(s, ShareOf(f), g)
    BY <1>1, DueIs
  <2>2. QED
    BY <1>2, <2>1 DEF Pending, Left, ShareOf
<1>5. [f \in DOMAIN flush |-> Pending(f, i, g)] = a
  BY <1>1, <1>3, <1>4 DEF Lefts, BuffersOk
<1>6. Family(a, Flushers, Values(s)) /\ out[i][g] \in Values(s)
  BY <1>1, <1>2, <1>3, LeftsFamily DEF BuffersOk
<1>7. Fold(s, out[i][g], a) = FoldOf(Op(s), out[i][g], a)
  BY <1>1, <1>6, FoldIsFoldOf
<1>8. FoldOf(Op(s), out[i][g], a) = Due(s, Rows, g)
  BY <1>1, <1>2, <1>3 DEF Balanced
<1>9. QED
  BY <1>1, <1>2, <1>5, <1>7, <1>8, DueIs

\* Whatever the threads of a kernel interleave and however often a compare-exchange loses, what
\* is in a buffer and what is still to be added make the aggregate of all rows (the atomic
\* loops of shaders/aggregate.metal and emit_final_flush), for every column and grid.
THEOREM UpdatesAreKept == AggregateSpec => []NoLostUpdate
<1>1. AggregateInit => AggInv
  BY AggInit
<1>2. AggInv /\ [AggregateNext]_aggregateVars => AggInv'
  BY AggStep
<1>3. AggInv => NoLostUpdate
  BY BalanceIsProperty
<1>4. QED
  BY <1>1, <1>2, <1>3, PTL DEF AggregateSpec

\* The answer is what Polars computes of each group's rows on the per-aggregation, the fused
\* and the CPU path (run_one_agg, finalize_slots), but for the fused Min and Max of a group
\* without a valid row, and for an integer mean whose sum does not fit the column's width.
THEOREM AnswersAreAggregates == AggregateSpec => []AnswerIsAggregate
<1>1. AggregateInit => AggInv
  BY AggInit
<1>2. AggInv /\ [AggregateNext]_aggregateVars => AggInv'
  BY AggStep
<1>3. AggInv => AnswerIsAggregate
  <2> SUFFICES ASSUME AggInv, phase = "answered", NEW a \in Aggs, NEW g \in Groups
               PROVE  answer[a][g] = Expected(a, g) \/ MeanOverflows(a, g) \/ Seeded(a, g)
    BY DEF AnswerIsAggregate
  <2>1. Chose /\ RightAnswer(a, g, answer[a][g])
    BY DEF AggInv, HostInv, AnswerInv
  <2>2. CASE answer[a][g] = Best(a, g)
    BY <2>1, <2>2, BestIsExpected
  <2>3. CASE Fused /\ query.aggs[a] \in {"Min", "Max"} /\ Best(a, g) = Null
    BY <2>1, <2>3, BestIsExpected DEF Seeded
  <2>4. QED
    BY <2>1, <2>2, <2>3 DEF RightAnswer
<1>4. QED
  BY <1>1, <1>2, <1>3, PTL DEF AggregateSpec

=============================================================================
