---------------------------- MODULE FusionProofs -----------------------------
(***************************************************************************)
(* What is proved of one fused expression, for every arena, schema, frame  *)
(* and float format: that it has the dtype it is declared to have; that    *)
(* its column, the value graph with the nulls its binding joins or its     *)
(* validity graph finds, is the one Polars makes, value by value and null  *)
(* by null; and why the value graph may stand in for three-valued logic.   *)
(***************************************************************************)
EXTENDS FusionAnalyzer, CountingLemmas, FiniteSetTheorems, SequenceTheorems, TLAPS

-----------------------------------------------------------------------------
\* Sequences, and longer ones.
LEMMA SequenceFacts ==
  ASSUME NEW s, IsSequence(s)
  PROVE  /\ Len(s) \in Nat /\ DOMAIN s = 1..Len(s)
         /\ s \in Seq({s[i] : i \in 1..Len(s)})
         /\ s # <<>> => Len(s) >= 1
<1>1. Len(s) \in Nat /\ DOMAIN s = 1..Len(s) /\ s = [i \in 1..Len(s) |-> s[i]]
  BY DEF IsSequence
<1>2. s \in Seq({s[i] : i \in 1..Len(s)})
  BY <1>1
<1>3. s # <<>> => Len(s) # 0
  BY <1>2
<1>4. QED
  BY <1>1, <1>2, <1>3

LEMMA AppendedSequence ==
  ASSUME NEW s, IsSequence(s), NEW x
  PROVE  /\ IsSequence(Append(s, x)) /\ Len(Append(s, x)) = Len(s) + 1
         /\ \A i \in 1..Len(s) : Append(s, x)[i] = s[i]
         /\ Append(s, x)[Len(s) + 1] = x
<1>0. PICK q : q = Append(s, x)
  OBVIOUS
<1>1. PICK T : s \in Seq(T) /\ x \in T
  <2>1. Len(s) \in Nat /\ s = [i \in 1..Len(s) |-> s[i]]
    BY DEF IsSequence
  <2>2. PICK T : T = {s[i] : i \in 1..Len(s)} \cup {x}
    OBVIOUS
  <2>3. s \in Seq(T) /\ x \in T
    BY <2>1, <2>2
  <2>4. QED
    BY <2>3
<1>2. q \in Seq(T) /\ Len(q) = Len(s) + 1 /\ (\A i \in 1..Len(s) : q[i] = s[i]) /\ q[Len(s) + 1] = x
  BY <1>0, <1>1
<1>3. Len(q) \in Nat /\ q = [i \in 1..Len(q) |-> q[i]]
  <2>1. Len(q) \in Nat /\ q \in [1..Len(q) -> T]
    BY <1>2, LenProperties
  <2>2. QED
    BY <2>1
<1>4. QED
  BY <1>0, <1>2, <1>3 DEF IsSequence

-----------------------------------------------------------------------------
\* The attributes of an expression, node by node.

\* A claim about nodes holds if it holds of a node whenever it does of all before it.
LEMMA NodeInduction ==
  ASSUME NEW N \in Nat, NEW G, \A i \in 1..N : (\A j \in 1..(i - 1) : j \in G) => i \in G
  PROVE  \A i \in 1..N : i \in G
<1> DEFINE bad == {i \in 1..N : i \notin G}
<1> SUFFICES ASSUME bad # {} PROVE FALSE
  OBVIOUS
<1>1. bad \in SUBSET Nat
  OBVIOUS
<1>2. PICK i \in bad : \A j \in bad : i <= j
  BY <1>1, LeastNumber
<1>3. i \in 1..N /\ \A j \in 1..(i - 1) : j \in 1..N /\ ~(i <= j)
  BY <1>2
<1>4. \A j \in 1..(i - 1) : j \in G
  BY <1>2, <1>3
<1>5. QED
  BY <1>2, <1>3, <1>4

\* The operands of the i-th node, in the attributes attr of the nodes.
Operands(e, i, attr) == [j \in DOMAIN e[i].args |-> attr[e[i].args[j]]]

\* Nodes whose operands come before them.
IsArena(e) ==
  /\ Len(e) \in Nat /\ Len(e) >= 1 /\ DOMAIN e = 1..Len(e)
  /\ \A i \in 1..Len(e) : /\ Len(e[i].args) \in Nat /\ DOMAIN e[i].args = 1..Len(e[i].args)
                          /\ \A j \in DOMAIN e[i].args : e[i].args[j] \in 1..(i - 1)

LEMMA ExpressionIsArena ==
  ASSUME NEW e, NEW s, IsExpression(e, s)
  PROVE  /\ IsArena(e)
         /\ \A i \in 1..Len(e) : DOMAIN e[i].args = 1..Arity(e[i])
         /\ \A i \in 1..(Len(e) - 1) : \E k \in 1..Len(e) : \E j \in DOMAIN e[k].args : e[k].args[j] = i
<1>1. /\ IsSequence(e) /\ e # <<>>
      /\ \A i \in DOMAIN e :
           /\ IsSequence(e[i].args) /\ Len(e[i].args) = Arity(e[i])
           /\ Range(e[i].args) \subseteq 1..(i - 1)
           /\ i # Len(e) => \E k \in DOMAIN e : i \in Range(e[k].args)
  BY DEF IsExpression
<1>2. Len(e) \in Nat /\ DOMAIN e = 1..Len(e)
  BY <1>1 DEF IsSequence
<1>3. Len(e) >= 1
  <2>1. ASSUME Len(e) = 0 PROVE FALSE
    <3>1. e = [i \in 1..0 |-> e[i]]
      BY <1>1, <2>1 DEF IsSequence
    <3>2. QED
      BY <1>1, <3>1
  <2>2. QED
    BY <1>2, <2>1
<1>4. ASSUME NEW i \in 1..Len(e)
      PROVE  /\ Len(e[i].args) \in Nat /\ DOMAIN e[i].args = 1..Len(e[i].args)
             /\ Len(e[i].args) = Arity(e[i])
             /\ \A j \in DOMAIN e[i].args : e[i].args[j] \in 1..(i - 1)
  <2>1. i \in DOMAIN e
    BY <1>2
  <2>2. /\ IsSequence(e[i].args) /\ Len(e[i].args) = Arity(e[i])
        /\ Range(e[i].args) \subseteq 1..(i - 1)
    BY <1>1, <2>1
  <2>3. PICK g : g = e[i].args
    OBVIOUS
  <2>4. Len(g) \in Nat /\ g = [j \in 1..Len(g) |-> g[j]]
    BY <2>2, <2>3 DEF IsSequence
  <2>5. DOMAIN g = 1..Len(g)
    BY <2>4
  <2>6. \A j \in DOMAIN g : g[j] \in 1..(i - 1)
    BY <2>2, <2>3 DEF Range
  <2>7. QED
    BY <2>2, <2>3, <2>4, <2>5, <2>6
<1>5. ASSUME NEW i \in 1..(Len(e) - 1)
      PROVE  \E k \in 1..Len(e) : \E j \in DOMAIN e[k].args : e[k].args[j] = i
  <2>1. i \in DOMAIN e /\ i # Len(e)
    <3>1. PICK n \in Nat : n = Len(e)
      BY <1>2
    <3>2. i \in 1..(n - 1)
      BY <3>1
    <3>3. i \in 1..n /\ i # n
      BY <3>2
    <3>4. QED
      BY <1>2, <3>1, <3>3
  <2>2. QED
    BY <1>1, <1>2, <2>1 DEF Range
<1>6. QED
  BY <1>2, <1>3, <1>4, <1>5 DEF IsArena

\* The attributes there are.
Attribute(kind, n, a, s, f, x) ==
  CASE kind = "dtype"     -> PolarsNode(n, a, s)
    [] kind = "tag"       -> GraphNode(n, a, s, x)
    [] kind = "predicate" -> PredicateNode(n, a)
    [] kind = "class"     -> Classify(n, a)
    [] kind = "mask"      -> HasMask(n, a, x)
    [] kind = "head"      -> HeadNode(n, a)
    [] kind = "value"     -> ValueNode(n, a, f, s)
    [] kind = "validity"  -> ValidityNode(n, a, f, s)
    [] kind = "polars"    -> PolarsColumn(n, a, f)

LEMMA TupleOfOperands ==
  ASSUME NEW e, IsArena(e), NEW i \in 1..Len(e), NEW h
  PROVE  Operands(e, i, h) \o <<>> = Operands(e, i, h)
<1>1. PICK S : S = {h[e[i].args[j]] : j \in DOMAIN e[i].args}
  OBVIOUS
<1>2. PICK m \in Nat : DOMAIN e[i].args = 1..m
  BY DEF IsArena
<1>3. Operands(e, i, h) \in Seq(S)
  <2>1. Operands(e, i, h) \in [1..m -> S]
    BY <1>1, <1>2 DEF Operands
  <2>2. QED
    BY <2>1
<1>4. QED
  BY <1>3, ConcatEmptySeq

\* What the nodes have, if every attribute exists.
IsAttribute(h, kind, e, s, f, x) ==
  /\ h = [i \in 1..Len(e) |-> h[i]]
  /\ \A i \in 1..Len(e) : h[i] = Attribute(kind, e[i], Operands(e, i, h), s, f, x)
AttributeOf(kind, e, s, f, x) == CHOOSE h : IsAttribute(h, kind, e, s, f, x)

LEMMA AttributeExists ==
  ASSUME NEW e, IsArena(e), NEW kind, NEW s, NEW f, NEW x
  PROVE  IsAttribute(AttributeOf(kind, e, s, f, x), kind, e, s, f, x)
<1> DEFINE Given(h, i) == Attribute(kind, e[i], Operands(e, i, h), s, f, x)
           Partial(h, m) == h = [i \in 1..m |-> Given(h, i)]
           G == {m \in Nat : m <= Len(e) => \E h : Partial(h, m)}
<1>0. ASSUME NEW h, NEW g, NEW m \in Nat, m <= Len(e), \A k \in 1..(m - 1) : h[k] = g[k], NEW i \in 1..m
      PROVE  Given(h, i) = Given(g, i)
  <2>1. \A j \in DOMAIN e[i].args : e[i].args[j] \in 1..(m - 1)
    <3>1. i \in 1..Len(e)
      BY <1>0 DEF IsArena
    <3>2. QED
      BY <1>0, <3>1 DEF IsArena
  <2>2. Operands(e, i, h) = Operands(e, i, g)
    BY <1>0, <2>1 DEF Operands
  <2>3. QED
    BY <2>2
<1> HIDE DEF Given
<1>1. 0 \in G
  <2>1. Partial([i \in {} |-> 0], 0)
    OBVIOUS
  <2>2. QED
    BY <2>1
<1>2. ASSUME NEW m \in G PROVE m + 1 \in G
  <2> SUFFICES ASSUME m + 1 <= Len(e) PROVE \E h : Partial(h, m + 1)
    BY <1>2
  <2>0. m \in Nat /\ m <= Len(e) /\ m + 1 \in Nat
    BY DEF IsArena
  <2>1. PICK h : Partial(h, m)
    BY <1>2, <2>0
  <2> DEFINE longer == [i \in 1..(m + 1) |-> Given(h, i)]
  <2>2. \A k \in 1..((m + 1) - 1) : h[k] = longer[k]
    BY <2>0, <2>1
  <2>3. \A i \in 1..(m + 1) : Given(h, i) = Given(longer, i)
    <3> HIDE DEF longer
    <3>1. QED
      BY <1>0, <2>0, <2>2
  <2>4. longer = [i \in 1..(m + 1) |-> Given(longer, i)]
    BY <2>3
  <2> HIDE DEF longer
  <2>5. QED
    BY <2>4
<1>3. G = Nat
  <2>1. G \in SUBSET Nat
    OBVIOUS
  <2> HIDE DEF G
  <2>2. QED
    BY <1>1, <1>2, <2>1, NumberInduction
<1>4. PICK h : Partial(h, Len(e))
  BY <1>3 DEF IsArena
<1>5. h = [i \in 1..Len(e) |-> h[i]] /\ \A i \in 1..Len(e) : h[i] = Given(h, i)
  BY <1>4
<1>6. IsAttribute(h, kind, e, s, f, x)
  BY <1>5 DEF Given, IsAttribute
<1>7. QED
  BY <1>6 DEF AttributeOf

\* The dtypes of the nodes in Polars.
DtypeOf(e, s) == Attributes(e, LAMBDA n, a : PolarsNode(n, a, s))

LEMMA DtypeEquation ==
  ASSUME NEW e, IsArena(e), NEW s
  PROVE  \A i \in 1..Len(e) : DtypeOf(e, s)[i] = PolarsNode(e[i], Operands(e, i, DtypeOf(e, s)), s)
<1> DEFINE Given(h, i) == Only({PolarsNode(e[i], a, s) : a \in {Operands(e, i, h) \o <<>>}})
<1>1. ASSUME NEW h, NEW i \in 1..Len(e) PROVE Given(h, i) = PolarsNode(e[i], Operands(e, i, h), s)
  BY TupleOfOperands DEF Only
<1>2. PICK g : g = DtypeOf(e, s)
  OBVIOUS
<1>3. g = CHOOSE h : h = [i \in DOMAIN e |-> Given(h, i)]
  BY <1>2 DEF DtypeOf, Attributes, Operands
<1> HIDE DEF Given
<1>4. PICK h : h = AttributeOf("dtype", e, s, 0, 0)
  OBVIOUS
<1>5. /\ h = [i \in 1..Len(e) |-> h[i]]
      /\ \A i \in 1..Len(e) : h[i] = PolarsNode(e[i], Operands(e, i, h), s)
  <2>1. IsAttribute(h, "dtype", e, s, 0, 0)
    BY <1>4, AttributeExists
  <2>2. QED
    BY <2>1 DEF IsAttribute, Attribute
<1>6. h = [i \in DOMAIN e |-> Given(h, i)]
  <2>1. \A i \in 1..Len(e) : h[i] = Given(h, i)
    BY <1>1, <1>5
  <2>2. QED
    BY <1>5, <2>1 DEF IsArena
<1>7. g = [i \in DOMAIN e |-> Given(g, i)]
  BY <1>3, <1>6
<1>8. ASSUME NEW i \in 1..Len(e) PROVE g[i] = PolarsNode(e[i], Operands(e, i, g), s)
  <2>1. g[i] = Given(g, i)
    BY <1>7 DEF IsArena
  <2>2. QED
    BY <1>1, <2>1
<1>9. QED
  BY <1>2, <1>8

\* What MLX computes in.
TagOf(e, s, tag) == Attributes(e, LAMBDA n, a : GraphNode(n, a, s, tag))

LEMMA TagEquation ==
  ASSUME NEW e, IsArena(e), NEW s, NEW tag
  PROVE  \A i \in 1..Len(e) : TagOf(e, s, tag)[i] = GraphNode(e[i], Operands(e, i, TagOf(e, s, tag)), s, tag)
<1> DEFINE Given(h, i) == Only({GraphNode(e[i], a, s, tag) : a \in {Operands(e, i, h) \o <<>>}})
<1>1. ASSUME NEW h, NEW i \in 1..Len(e) PROVE Given(h, i) = GraphNode(e[i], Operands(e, i, h), s, tag)
  BY TupleOfOperands DEF Only
<1>2. PICK g : g = TagOf(e, s, tag)
  OBVIOUS
<1>3. g = CHOOSE h : h = [i \in DOMAIN e |-> Given(h, i)]
  BY <1>2 DEF TagOf, Attributes, Operands
<1> HIDE DEF Given
<1>4. PICK h : h = AttributeOf("tag", e, s, 0, tag)
  OBVIOUS
<1>5. /\ h = [i \in 1..Len(e) |-> h[i]]
      /\ \A i \in 1..Len(e) : h[i] = GraphNode(e[i], Operands(e, i, h), s, tag)
  <2>1. IsAttribute(h, "tag", e, s, 0, tag)
    BY <1>4, AttributeExists
  <2>2. QED
    BY <2>1 DEF IsAttribute, Attribute
<1>6. h = [i \in DOMAIN e |-> Given(h, i)]
  <2>1. \A i \in 1..Len(e) : h[i] = Given(h, i)
    BY <1>1, <1>5
  <2>2. QED
    BY <1>5, <2>1 DEF IsArena
<1>7. g = [i \in DOMAIN e |-> Given(g, i)]
  BY <1>3, <1>6
<1>8. ASSUME NEW i \in 1..Len(e) PROVE g[i] = GraphNode(e[i], Operands(e, i, g), s, tag)
  <2>1. g[i] = Given(g, i)
    BY <1>7 DEF IsArena
  <2>2. QED
    BY <1>1, <2>1
<1>9. QED
  BY <1>2, <1>8

\* What is noted of the predicates.
NotesOf(e) == Attributes(e, PredicateNode)

LEMMA PredicateEquation ==
  ASSUME NEW e, IsArena(e)
  PROVE  \A i \in 1..Len(e) : NotesOf(e)[i] = PredicateNode(e[i], Operands(e, i, NotesOf(e)))
<1> DEFINE Given(h, i) == Only({PredicateNode(e[i], a) : a \in {Operands(e, i, h) \o <<>>}})
<1>1. ASSUME NEW h, NEW i \in 1..Len(e) PROVE Given(h, i) = PredicateNode(e[i], Operands(e, i, h))
  BY TupleOfOperands DEF Only
<1>2. PICK g : g = NotesOf(e)
  OBVIOUS
<1>3. g = CHOOSE h : h = [i \in DOMAIN e |-> Given(h, i)]
  BY <1>2 DEF NotesOf, Attributes, Operands
<1> HIDE DEF Given
<1>4. PICK h : h = AttributeOf("predicate", e, 0, 0, 0)
  OBVIOUS
<1>5. /\ h = [i \in 1..Len(e) |-> h[i]]
      /\ \A i \in 1..Len(e) : h[i] = PredicateNode(e[i], Operands(e, i, h))
  <2>1. IsAttribute(h, "predicate", e, 0, 0, 0)
    BY <1>4, AttributeExists
  <2>2. QED
    BY <2>1 DEF IsAttribute, Attribute
<1>6. h = [i \in DOMAIN e |-> Given(h, i)]
  <2>1. \A i \in 1..Len(e) : h[i] = Given(h, i)
    BY <1>1, <1>5
  <2>2. QED
    BY <1>5, <2>1 DEF IsArena
<1>7. g = [i \in DOMAIN e |-> Given(g, i)]
  BY <1>3, <1>6
<1>8. ASSUME NEW i \in 1..Len(e) PROVE g[i] = PredicateNode(e[i], Operands(e, i, g))
  <2>1. g[i] = Given(g, i)
    BY <1>7 DEF IsArena
  <2>2. QED
    BY <1>1, <2>1
<1>9. QED
  BY <1>2, <1>8

\* How nulls go through.
ClassOf(e) == Attributes(e, Classify)

LEMMA ClassEquation ==
  ASSUME NEW e, IsArena(e)
  PROVE  \A i \in 1..Len(e) : ClassOf(e)[i] = Classify(e[i], Operands(e, i, ClassOf(e)))
<1> DEFINE Given(h, i) == Only({Classify(e[i], a) : a \in {Operands(e, i, h) \o <<>>}})
<1>1. ASSUME NEW h, NEW i \in 1..Len(e) PROVE Given(h, i) = Classify(e[i], Operands(e, i, h))
  BY TupleOfOperands DEF Only
<1>2. PICK g : g = ClassOf(e)
  OBVIOUS
<1>3. g = CHOOSE h : h = [i \in DOMAIN e |-> Given(h, i)]
  BY <1>2 DEF ClassOf, Attributes, Operands
<1> HIDE DEF Given
<1>4. PICK h : h = AttributeOf("class", e, 0, 0, 0)
  OBVIOUS
<1>5. /\ h = [i \in 1..Len(e) |-> h[i]]
      /\ \A i \in 1..Len(e) : h[i] = Classify(e[i], Operands(e, i, h))
  <2>1. IsAttribute(h, "class", e, 0, 0, 0)
    BY <1>4, AttributeExists
  <2>2. QED
    BY <2>1 DEF IsAttribute, Attribute
<1>6. h = [i \in DOMAIN e |-> Given(h, i)]
  <2>1. \A i \in 1..Len(e) : h[i] = Given(h, i)
    BY <1>1, <1>5
  <2>2. QED
    BY <1>5, <2>1 DEF IsArena
<1>7. g = [i \in DOMAIN e |-> Given(g, i)]
  BY <1>3, <1>6
<1>8. ASSUME NEW i \in 1..Len(e) PROVE g[i] = Classify(e[i], Operands(e, i, g))
  <2>1. g[i] = Given(g, i)
    BY <1>7 DEF IsArena
  <2>2. QED
    BY <1>1, <2>1
<1>9. QED
  BY <1>2, <1>8

\* Whether there is a validity graph.
MaskOf(e, x) == Attributes(e, LAMBDA n, a : HasMask(n, a, x))

LEMMA MaskEquation ==
  ASSUME NEW e, IsArena(e), NEW x
  PROVE  \A i \in 1..Len(e) : MaskOf(e, x)[i] = HasMask(e[i], Operands(e, i, MaskOf(e, x)), x)
<1> DEFINE Given(h, i) == Only({HasMask(e[i], a, x) : a \in {Operands(e, i, h) \o <<>>}})
<1>1. ASSUME NEW h, NEW i \in 1..Len(e) PROVE Given(h, i) = HasMask(e[i], Operands(e, i, h), x)
  BY TupleOfOperands DEF Only
<1>2. PICK g : g = MaskOf(e, x)
  OBVIOUS
<1>3. g = CHOOSE h : h = [i \in DOMAIN e |-> Given(h, i)]
  BY <1>2 DEF MaskOf, Attributes, Operands
<1> HIDE DEF Given
<1>4. PICK h : h = AttributeOf("mask", e, 0, 0, x)
  OBVIOUS
<1>5. /\ h = [i \in 1..Len(e) |-> h[i]]
      /\ \A i \in 1..Len(e) : h[i] = HasMask(e[i], Operands(e, i, h), x)
  <2>1. IsAttribute(h, "mask", e, 0, 0, x)
    BY <1>4, AttributeExists
  <2>2. QED
    BY <2>1 DEF IsAttribute, Attribute
<1>6. h = [i \in DOMAIN e |-> Given(h, i)]
  <2>1. \A i \in 1..Len(e) : h[i] = Given(h, i)
    BY <1>1, <1>5
  <2>2. QED
    BY <1>5, <2>1 DEF IsArena
<1>7. g = [i \in DOMAIN e |-> Given(g, i)]
  BY <1>3, <1>6
<1>8. ASSUME NEW i \in 1..Len(e) PROVE g[i] = HasMask(e[i], Operands(e, i, g), x)
  <2>1. g[i] = Given(g, i)
    BY <1>7 DEF IsArena
  <2>2. QED
    BY <1>1, <2>1
<1>9. QED
  BY <1>2, <1>8

\* Shifts, and scans over them.
HeadOf(e) == Attributes(e, HeadNode)

LEMMA HeadEquation ==
  ASSUME NEW e, IsArena(e)
  PROVE  \A i \in 1..Len(e) : HeadOf(e)[i] = HeadNode(e[i], Operands(e, i, HeadOf(e)))
<1> DEFINE Given(h, i) == Only({HeadNode(e[i], a) : a \in {Operands(e, i, h) \o <<>>}})
<1>1. ASSUME NEW h, NEW i \in 1..Len(e) PROVE Given(h, i) = HeadNode(e[i], Operands(e, i, h))
  BY TupleOfOperands DEF Only
<1>2. PICK g : g = HeadOf(e)
  OBVIOUS
<1>3. g = CHOOSE h : h = [i \in DOMAIN e |-> Given(h, i)]
  BY <1>2 DEF HeadOf, Attributes, Operands
<1> HIDE DEF Given
<1>4. PICK h : h = AttributeOf("head", e, 0, 0, 0)
  OBVIOUS
<1>5. /\ h = [i \in 1..Len(e) |-> h[i]]
      /\ \A i \in 1..Len(e) : h[i] = HeadNode(e[i], Operands(e, i, h))
  <2>1. IsAttribute(h, "head", e, 0, 0, 0)
    BY <1>4, AttributeExists
  <2>2. QED
    BY <2>1 DEF IsAttribute, Attribute
<1>6. h = [i \in DOMAIN e |-> Given(h, i)]
  <2>1. \A i \in 1..Len(e) : h[i] = Given(h, i)
    BY <1>1, <1>5
  <2>2. QED
    BY <1>5, <2>1 DEF IsArena
<1>7. g = [i \in DOMAIN e |-> Given(g, i)]
  BY <1>3, <1>6
<1>8. ASSUME NEW i \in 1..Len(e) PROVE g[i] = HeadNode(e[i], Operands(e, i, g))
  <2>1. g[i] = Given(g, i)
    BY <1>7 DEF IsArena
  <2>2. QED
    BY <1>1, <2>1
<1>9. QED
  BY <1>2, <1>8

\* The columns of the three graphs.
ValueOf(e, f, s) == Attributes(e, LAMBDA n, a : ValueNode(n, a, f, s))

LEMMA ValueEquation ==
  ASSUME NEW e, IsArena(e), NEW f, NEW s
  PROVE  \A i \in 1..Len(e) : ValueOf(e, f, s)[i] = ValueNode(e[i], Operands(e, i, ValueOf(e, f, s)), f, s)
<1> DEFINE Given(h, i) == Only({ValueNode(e[i], a, f, s) : a \in {Operands(e, i, h) \o <<>>}})
<1>1. ASSUME NEW h, NEW i \in 1..Len(e) PROVE Given(h, i) = ValueNode(e[i], Operands(e, i, h), f, s)
  BY TupleOfOperands DEF Only
<1>2. PICK g : g = ValueOf(e, f, s)
  OBVIOUS
<1>3. g = CHOOSE h : h = [i \in DOMAIN e |-> Given(h, i)]
  BY <1>2 DEF ValueOf, Attributes, Operands
<1> HIDE DEF Given
<1>4. PICK h : h = AttributeOf("value", e, s, f, 0)
  OBVIOUS
<1>5. /\ h = [i \in 1..Len(e) |-> h[i]]
      /\ \A i \in 1..Len(e) : h[i] = ValueNode(e[i], Operands(e, i, h), f, s)
  <2>1. IsAttribute(h, "value", e, s, f, 0)
    BY <1>4, AttributeExists
  <2>2. QED
    BY <2>1 DEF IsAttribute, Attribute
<1>6. h = [i \in DOMAIN e |-> Given(h, i)]
  <2>1. \A i \in 1..Len(e) : h[i] = Given(h, i)
    BY <1>1, <1>5
  <2>2. QED
    BY <1>5, <2>1 DEF IsArena
<1>7. g = [i \in DOMAIN e |-> Given(g, i)]
  BY <1>3, <1>6
<1>8. ASSUME NEW i \in 1..Len(e) PROVE g[i] = ValueNode(e[i], Operands(e, i, g), f, s)
  <2>1. g[i] = Given(g, i)
    BY <1>7 DEF IsArena
  <2>2. QED
    BY <1>1, <2>1
<1>9. QED
  BY <1>2, <1>8

ValidityOf(e, f, s) == Attributes(e, LAMBDA n, a : ValidityNode(n, a, f, s))

LEMMA ValidityEquation ==
  ASSUME NEW e, IsArena(e), NEW f, NEW s
  PROVE  \A i \in 1..Len(e) : ValidityOf(e, f, s)[i] = ValidityNode(e[i], Operands(e, i, ValidityOf(e, f, s)), f, s)
<1> DEFINE Given(h, i) == Only({ValidityNode(e[i], a, f, s) : a \in {Operands(e, i, h) \o <<>>}})
<1>1. ASSUME NEW h, NEW i \in 1..Len(e) PROVE Given(h, i) = ValidityNode(e[i], Operands(e, i, h), f, s)
  BY TupleOfOperands DEF Only
<1>2. PICK g : g = ValidityOf(e, f, s)
  OBVIOUS
<1>3. g = CHOOSE h : h = [i \in DOMAIN e |-> Given(h, i)]
  BY <1>2 DEF ValidityOf, Attributes, Operands
<1> HIDE DEF Given
<1>4. PICK h : h = AttributeOf("validity", e, s, f, 0)
  OBVIOUS
<1>5. /\ h = [i \in 1..Len(e) |-> h[i]]
      /\ \A i \in 1..Len(e) : h[i] = ValidityNode(e[i], Operands(e, i, h), f, s)
  <2>1. IsAttribute(h, "validity", e, s, f, 0)
    BY <1>4, AttributeExists
  <2>2. QED
    BY <2>1 DEF IsAttribute, Attribute
<1>6. h = [i \in DOMAIN e |-> Given(h, i)]
  <2>1. \A i \in 1..Len(e) : h[i] = Given(h, i)
    BY <1>1, <1>5
  <2>2. QED
    BY <1>5, <2>1 DEF IsArena
<1>7. g = [i \in DOMAIN e |-> Given(g, i)]
  BY <1>3, <1>6
<1>8. ASSUME NEW i \in 1..Len(e) PROVE g[i] = ValidityNode(e[i], Operands(e, i, g), f, s)
  <2>1. g[i] = Given(g, i)
    BY <1>7 DEF IsArena
  <2>2. QED
    BY <1>1, <2>1
<1>9. QED
  BY <1>2, <1>8

PolarsOf(e, f) == Attributes(e, LAMBDA n, a : PolarsColumn(n, a, f))

LEMMA PolarsEquation ==
  ASSUME NEW e, IsArena(e), NEW f
  PROVE  \A i \in 1..Len(e) : PolarsOf(e, f)[i] = PolarsColumn(e[i], Operands(e, i, PolarsOf(e, f)), f)
<1> DEFINE Given(h, i) == Only({PolarsColumn(e[i], a, f) : a \in {Operands(e, i, h) \o <<>>}})
<1>1. ASSUME NEW h, NEW i \in 1..Len(e) PROVE Given(h, i) = PolarsColumn(e[i], Operands(e, i, h), f)
  BY TupleOfOperands DEF Only
<1>2. PICK g : g = PolarsOf(e, f)
  OBVIOUS
<1>3. g = CHOOSE h : h = [i \in DOMAIN e |-> Given(h, i)]
  BY <1>2 DEF PolarsOf, Attributes, Operands
<1> HIDE DEF Given
<1>4. PICK h : h = AttributeOf("polars", e, 0, f, 0)
  OBVIOUS
<1>5. /\ h = [i \in 1..Len(e) |-> h[i]]
      /\ \A i \in 1..Len(e) : h[i] = PolarsColumn(e[i], Operands(e, i, h), f)
  <2>1. IsAttribute(h, "polars", e, 0, f, 0)
    BY <1>4, AttributeExists
  <2>2. QED
    BY <2>1 DEF IsAttribute, Attribute
<1>6. h = [i \in DOMAIN e |-> Given(h, i)]
  <2>1. \A i \in 1..Len(e) : h[i] = Given(h, i)
    BY <1>1, <1>5
  <2>2. QED
    BY <1>5, <2>1 DEF IsArena
<1>7. g = [i \in DOMAIN e |-> Given(g, i)]
  BY <1>3, <1>6
<1>8. ASSUME NEW i \in 1..Len(e) PROVE g[i] = PolarsColumn(e[i], Operands(e, i, g), f)
  <2>1. g[i] = Given(g, i)
    BY <1>7 DEF IsArena
  <2>2. QED
    BY <1>1, <2>1
<1>9. QED
  BY <1>2, <1>8

-----------------------------------------------------------------------------
\* The rows of a column.

\* A column of H rows.
IsColumn(v, H) == v = [r \in 1..H |-> v[r]]

LEMMA ColumnTuple ==
  ASSUME NEW H \in Nat, NEW v, IsColumn(v, H)
  PROVE  v \o <<>> = v /\ DOMAIN v = 1..H /\ Len(v) = H /\ IsSequence(v)
<1>1. DOMAIN v = 1..H
  BY DEF IsColumn
<1>2. PICK S : S = {v[r] : r \in 1..H}
  OBVIOUS
<1>3. v \in [1..H -> S]
  BY <1>2 DEF IsColumn
<1>4. v \in Seq(S) /\ Len(v) = H
  BY <1>1, <1>3, LenProperties
<1>5. v \o <<>> = v
  BY <1>4, ConcatEmptySeq
<1>6. QED
  BY <1>1, <1>4, <1>5 DEF IsColumn, IsSequence

\* The operators that work row by row.
RowOps == CompareOps \cup {"Add", "And", "Cast", "Where"}

LEMMA OperatorsDiffer ==
  /\ RowOps \cap ({"Shift", "Column", "Literal"} \cup Scans) = {}
  /\ Scans \cap {"Shift", "Column", "Literal"} = {}
  /\ CompareOps \cap {"Add", "And", "Cast", "Where"} = {}
BY DEF RowOps, CompareOps, Scans

LEMMA PolarsRows ==
  ASSUME NEW H \in Nat, NEW n, n.op \in RowOps, NEW a, IsColumn(a[1], H)
  PROVE  /\ IsColumn(PolarsOp(n, a), H)
         /\ \A r \in 1..H : PolarsOp(n, a)[r] = PolarsRow(n, Row(a, r))
<1>1. PICK g : g = [r \in 1..H |-> PolarsRow(n, Row(a, r))]
  OBVIOUS
<1>2. IsColumn(g, H)
  BY <1>1 DEF IsColumn
<1>3. n.op \notin {"Shift", "Column", "Literal"} \cup Scans
  BY OperatorsDiffer
<1>4. PolarsOp(n, a) = g \o <<>>
  <2>1. DOMAIN a[1] = 1..H
    BY ColumnTuple
  <2>2. PolarsOp(n, a) = [r \in DOMAIN a[1] |-> PolarsRow(n, Row(a, r))] \o <<>>
    BY <1>3 DEF PolarsOp, PerRow
  <2>3. QED
    BY <1>1, <2>1, <2>2
<1>5. PolarsOp(n, a) = g
  BY <1>2, <1>4, ColumnTuple
<1>6. QED
  BY <1>1, <1>2, <1>5

LEMMA MlxRows ==
  ASSUME NEW H \in Nat, NEW n, n.op \in RowOps, NEW a, IsColumn(a[1], H)
  PROVE  /\ IsColumn(MlxOp(n, a), H)
         /\ \A r \in 1..H : MlxOp(n, a)[r] = RowOp(n, Row(a, r), IeeeOrder)
<1>1. PICK g : g = [r \in 1..H |-> RowOp(n, Row(a, r), IeeeOrder)]
  OBVIOUS
<1>2. IsColumn(g, H)
  BY <1>1 DEF IsColumn
<1>3. n.op \notin {"Shift", "Column", "Literal"} \cup Scans
  BY OperatorsDiffer
<1>4. MlxOp(n, a) = g \o <<>>
  <2>1. DOMAIN a[1] = 1..H
    BY ColumnTuple
  <2>2. MlxOp(n, a) = [r \in DOMAIN a[1] |-> RowOp(n, Row(a, r), IeeeOrder)] \o <<>>
    BY <1>3 DEF MlxOp, PerRow
  <2>3. QED
    BY <1>1, <2>1, <2>2
<1>5. MlxOp(n, a) = g
  BY <1>2, <1>4, ColumnTuple
<1>6. QED
  BY <1>1, <1>2, <1>5

LEMMA ShiftedRows ==
  ASSUME NEW H \in Nat, NEW v, IsColumn(v, H), NEW w \in Nat, NEW fill
  PROVE  /\ IsColumn(Shifted(v, w, fill), H)
         /\ \A r \in 1..H : Shifted(v, w, fill)[r] = IF r > w THEN v[r - w] ELSE fill
<1>1. PICK g : g = [r \in 1..H |-> IF r > w THEN v[r - w] ELSE fill]
  OBVIOUS
<1>2. IsColumn(g, H)
  BY <1>1 DEF IsColumn
<1>3. Shifted(v, w, fill) = g \o <<>>
  <2>1. DOMAIN v = 1..H
    BY ColumnTuple
  <2>2. QED
    BY <1>1, <2>1 DEF Shifted, PerRow
<1>4. Shifted(v, w, fill) = g
  BY <1>2, <1>3, ColumnTuple
<1>5. QED
  BY <1>1, <1>2, <1>4

LEMMA BroadcastRows ==
  ASSUME NEW f, FrameHeight(f) \in Nat, NEW v
  PROVE  /\ IsColumn(Broadcast(f, v), FrameHeight(f))
         /\ \A r \in 1..FrameHeight(f) : Broadcast(f, v)[r] = v
<1>1. PICK g, H : H = FrameHeight(f) /\ g = [r \in 1..H |-> v]
  OBVIOUS
<1>2. IsColumn(g, H) /\ H \in Nat
  BY <1>1 DEF IsColumn
<1>3. Broadcast(f, v) = g \o <<>>
  BY <1>1 DEF Broadcast
<1>4. Broadcast(f, v) = g
  BY <1>2, <1>3, ColumnTuple
<1>5. QED
  BY <1>1, <1>2, <1>4

LEMMA SummandRows ==
  ASSUME NEW H \in Nat, NEW v, IsColumn(v, H), NEW n
  PROVE  /\ IsColumn(Summands(n, v), H)
         /\ \A r \in 1..H : Summands(n, v)[r] = IF n.op = "CumMax" THEN v[r] ELSE AsNumber(n, v[r])
<1>1. PICK g : g = [r \in 1..H |-> AsNumber(n, v[r])]
  OBVIOUS
<1>2. IsColumn(g, H)
  BY <1>1 DEF IsColumn
<1>3. CASE n.op = "CumMax"
  BY <1>3 DEF Summands
<1>4. CASE n.op # "CumMax"
  <2>1. DOMAIN v = 1..H
    BY ColumnTuple
  <2>2. Summands(n, v) = g \o <<>>
    BY <1>1, <1>4, <2>1 DEF Summands, PerRow
  <2>3. Summands(n, v) = g
    BY <1>2, <2>2, ColumnTuple
  <2>4. QED
    BY <1>1, <1>2, <1>4, <2>3
<1>5. QED
  BY <1>3, <1>4

-----------------------------------------------------------------------------
\* The running operators, row by row.

LEMMA RunningEquation ==
  ASSUME NEW H \in Nat, NEW q, IsColumn(q, H), NEW op
  PROVE  /\ IsColumn(Running(op, q), H)
         /\ \A r \in 1..H : Running(op, q)[r] = IF r = 1 THEN q[1] ELSE Accumulated(op, Running(op, q)[r - 1], q[r])
<1>1. PICK f : f = Running(op, q)
  OBVIOUS
<1> DEFINE Given(h, r) == IF r = 1 THEN q[1] ELSE Accumulated(op, h[r - 1], q[r])
           Runs(h, m) == h = [r \in 1..m |-> Given(h, r)]
           G == {m \in Nat : \E h : Runs(h, m)}
<1>2. f = CHOOSE h : Runs(h, H)
  BY <1>1, ColumnTuple DEF Running
<1>0. \A h, g, r : h[r - 1] = g[r - 1] => Given(h, r) = Given(g, r)
  OBVIOUS
<1>00. \A h, g : Given(h, 1) = Given(g, 1)
  OBVIOUS
<1> HIDE DEF Given
<1>3. 0 \in G
  <2>1. Runs([r \in {} |-> 0], 0)
    OBVIOUS
  <2>2. QED
    BY <2>1
<1>4. ASSUME NEW m \in G PROVE m + 1 \in G
  <2>1. PICK h : Runs(h, m)
    BY <1>4
  <2> DEFINE longer == [r \in 1..(m + 1) |-> Given(h, r)]
  <2>2. \A r \in 1..(m + 1) : r # 1 => h[r - 1] = longer[r - 1]
    <3>1. \A r \in 1..(m + 1) : r # 1 => r - 1 \in 1..m /\ r - 1 \in 1..(m + 1)
      OBVIOUS
    <3>2. QED
      BY <2>1, <3>1
  <2>3. \A r \in 1..(m + 1) : Given(h, r) = Given(longer, r)
    <3> HIDE DEF longer
    <3>1. QED
      BY <1>0, <1>00, <2>2
  <2>4. Runs(longer, m + 1)
    BY <2>3
  <2>5. \E g : Runs(g, m + 1)
    <3> HIDE DEF longer, Runs
    <3>1. QED
      BY <2>4
  <2> HIDE DEF longer, Runs
  <2>6. QED
    BY <2>5
<1>5. G = Nat
  <2>1. G \in SUBSET Nat
    OBVIOUS
  <2> HIDE DEF G
  <2>2. QED
    BY <1>3, <1>4, <2>1, NumberInduction
<1>6. \E h : Runs(h, H)
  BY <1>5
<1>7. Runs(f, H)
  <2> HIDE DEF Runs
  <2>1. QED
    BY <1>2, <1>6
<1>8. IsColumn(f, H) /\ \A r \in 1..H : f[r] = Given(f, r)
  BY <1>7 DEF IsColumn
<1>9. QED
  BY <1>1, <1>8 DEF Given

LEMMA AccumulationEquation ==
  ASSUME NEW H \in Nat, NEW q, IsColumn(q, H), NEW op, NEW total, total = Accumulation(op, q)
  PROVE  /\ total[0] = Null
         /\ \A r \in 1..H :
              total[r] = IF q[r] = Null THEN total[r - 1]
                         ELSE IF total[r - 1] = Null THEN q[r] ELSE Accumulated(op, total[r - 1], q[r])
<1> DEFINE Given(h, r) == IF r = 0 THEN Null
                         ELSE CASE q[r] = Null     -> h[r - 1]
                                [] h[r - 1] = Null -> q[r]
                                [] OTHER           -> Accumulated(op, h[r - 1], q[r])
           Runs(h, m) == h = [r \in 0..m |-> Given(h, r)]
           G == {m \in Nat : \E h : Runs(h, m)}
<1>1. total = CHOOSE h : Runs(h, H)
  BY ColumnTuple DEF Accumulation
<1>0. \A h, g, r : h[r - 1] = g[r - 1] => Given(h, r) = Given(g, r)
  OBVIOUS
<1>00. \A h : Given(h, 0) = Null
  OBVIOUS
<1>000. \A h : \A r \in 1..H : q[r] # Null => Given(h, r) = IF h[r - 1] = Null THEN q[r] ELSE Accumulated(op, h[r - 1], q[r])
  OBVIOUS
<1>0000. \A h : \A r \in 1..H : q[r] = Null => Given(h, r) = h[r - 1]
  <2> SUFFICES ASSUME NEW h, NEW r \in 1..H, q[r] = Null PROVE Given(h, r) = h[r - 1]
    OBVIOUS
  <2>1. CASE h[r - 1] # Null
    BY <2>1
  <2>2. CASE h[r - 1] = Null
    BY <2>2
  <2>3. QED
    BY <2>1, <2>2
<1> HIDE DEF Given
<1>3. 0 \in G
  <2>1. Runs([r \in 0..0 |-> Null], 0)
    BY <1>00
  <2>2. QED
    BY <2>1
<1>4. ASSUME NEW m \in G PROVE m + 1 \in G
  <2>1. PICK h : Runs(h, m)
    BY <1>4
  <2> DEFINE longer == [r \in 0..(m + 1) |-> Given(h, r)]
  <2>2. \A r \in 0..(m + 1) : r # 0 => h[r - 1] = longer[r - 1]
    <3>1. \A r \in 0..(m + 1) : r # 0 => r - 1 \in 0..m /\ r - 1 \in 0..(m + 1)
      OBVIOUS
    <3>2. QED
      BY <2>1, <3>1
  <2>3. \A r \in 0..(m + 1) : Given(h, r) = Given(longer, r)
    <3> HIDE DEF longer
    <3>1. QED
      BY <1>0, <1>00, <2>2
  <2>4. Runs(longer, m + 1)
    BY <2>3
  <2>5. \E g : Runs(g, m + 1)
    <3> HIDE DEF longer, Runs
    <3>1. QED
      BY <2>4
  <2> HIDE DEF longer, Runs
  <2>6. QED
    BY <2>5
<1>5. G = Nat
  <2>1. G \in SUBSET Nat
    OBVIOUS
  <2> HIDE DEF G
  <2>2. QED
    BY <1>3, <1>4, <2>1, NumberInduction
<1>6. \E h : Runs(h, H)
  BY <1>5
<1>7. Runs(total, H)
  <2> HIDE DEF Runs
  <2>1. QED
    BY <1>1, <1>6
<1>8. total[0] = Given(total, 0) /\ \A r \in 1..H : total[r] = Given(total, r)
  BY <1>7
<1>9. total[0] = Null
  BY <1>00, <1>8
<1>10. QED
  BY <1>8, <1>9, <1>000, <1>0000

-----------------------------------------------------------------------------
\* One row of an operator.

\* What a column of dtype t has where it is not null; numbers are those of D, integers or NaN, or
\* integers where they are compared.
Values(t, D) == IF t = "Bool" THEN BOOLEAN ELSE D
NumbersFor(D, op) == D \in {Int, Int \cup {NaN}} /\ (op \in CompareOps => D = Int)

\* The operands of a row: of the dtypes d, or Null.
TypedRow(n, d, x, D) ==
  /\ DOMAIN x = 1..Arity(n) /\ WellTyped(n, d) /\ NumbersFor(D, n.op)
  /\ \A j \in 1..Arity(n) : x[j] \in Values(d[j], D) \cup {Null}

LEMMA NumberFacts ==
  ASSUME NEW D, D \in {Int, Int \cup {NaN}}
  PROVE  /\ \A x, y \in D : AddNumbers(x, y) \in D
         /\ \A x, y \in D : \A op : Accumulated(op, x, y) \in D
         /\ Null \notin D /\ 0 \in D /\ 1 \in D
         /\ \A x \in D : AddNumbers(0, x) = x
<1>1. ASSUME NEW x \in D, NEW y \in D PROVE AddNumbers(x, y) \in D
  <2>1. CASE x \in Int /\ y \in Int
    BY <2>1, NaNAssumption DEF AddNumbers
  <2>2. CASE ~(x \in Int /\ y \in Int)
    BY <2>2 DEF AddNumbers
  <2>3. QED
    BY <2>1, <2>2
<1>2. \A x, y \in D : \A op : Accumulated(op, x, y) \in D
  BY <1>1 DEF Accumulated
<1>3. Null \notin D /\ 0 \in D /\ 1 \in D
  BY NaNAssumption, CaseAssumption
<1>4. ASSUME NEW x \in D PROVE AddNumbers(0, x) = x
  <2>1. CASE x \in Int
    BY <2>1, NaNAssumption DEF AddNumbers
  <2>2. CASE x \notin Int
    BY <2>2 DEF AddNumbers
  <2>3. QED
    BY <2>1, <2>2
<1>5. QED
  BY <1>1, <1>2, <1>3, <1>4

\* Both worlds compare integers alike.
LEMMA IntegersCompare ==
  ASSUME NEW op \in CompareOps, NEW x \in Int, NEW y \in Int
  PROVE  NanLastOrder(op, x, y) = IeeeOrder(op, x, y) /\ IeeeOrder(op, x, y) \in BOOLEAN
<1>1. x # NaN /\ y # NaN
  BY NaNAssumption
<1>2. NanLastOrder(op, x, y) = Order(op, x, y) /\ IeeeOrder(op, x, y) = Order(op, x, y)
  BY <1>1 DEF NanLastOrder, IeeeOrder
<1>3. CASE op = "Eq"
  BY <1>2, <1>3 DEF Order
<1>4. CASE op = "Ne"
  BY <1>2, <1>4 DEF Order
<1>5. CASE op = "Lt"
  BY <1>2, <1>5 DEF Order
<1>6. CASE op = "Le"
  BY <1>2, <1>6 DEF Order
<1>7. CASE op = "Gt"
  BY <1>2, <1>7 DEF Order
<1>8. CASE op = "Ge"
  BY <1>2, <1>8 DEF Order
<1>9. QED
  BY <1>2, <1>3, <1>4, <1>5, <1>6, <1>7, <1>8 DEF CompareOps

\* A Boolean is counted, a number kept.
LEMMA CountedNumber ==
  ASSUME NEW D, D \in {Int, Int \cup {NaN}}, NEW n, NEW t, n.from = "Bool" <=> t = "Bool",
         NEW x \in Values(t, D)
  PROVE  AsNumber(n, x) \in D /\ x # Null /\ AsNumber(n, x) # Null
<1>1. Null \notin D /\ 0 \in D /\ 1 \in D /\ Null \notin BOOLEAN
  BY NumberFacts, CaseAssumption
<1>2. CASE t = "Bool"
  BY <1>1, <1>2 DEF AsNumber, Values
<1>3. CASE t # "Bool"
  BY <1>1, <1>3 DEF AsNumber, Values
<1>4. QED
  BY <1>2, <1>3

LEMMA NodeArity ==
  ASSUME NEW n
  PROVE  /\ n.op \in CompareOps \cup {"Add", "And"} => Arity(n) = 2
         /\ n.op = "Where" => Arity(n) = 3
         /\ n.op \in {"Cast", "Shift"} \cup Scans => Arity(n) = 1
         /\ n.op \in {"Column", "Literal"} => Arity(n) = 0
BY DEF Arity, CompareOps, Scans

\* A row without nulls: both worlds agree.
LEMMA CleanRow ==
  ASSUME NEW n, n.op \in RowOps, NEW d, NEW x, NEW D, NEW s, TypedRow(n, d, x, D), Admitted(n, s),
         \A j \in 1..Arity(n) : x[j] # Null
  PROVE  /\ PolarsRow(n, x) = RowOp(n, x, IeeeOrder)
         /\ PolarsRow(n, x) \in Values(PolarsNode(n, d, s), D)
<1>1. /\ DOMAIN x = 1..Arity(n) /\ WellTyped(n, d)
      /\ D \in {Int, Int \cup {NaN}} /\ (n.op \in CompareOps => D = Int)
      /\ \A j \in 1..Arity(n) : x[j] \in Values(d[j], D)
  BY DEF TypedRow, NumbersFor
<1>2. n.op \notin {"And", "Where"} => PolarsRow(n, x) = RowOp(n, x, NanLastOrder)
  BY <1>1 DEF PolarsRow, Range
<1>3. CASE n.op \in CompareOps
  <2>1. Arity(n) = 2 /\ 1 \in 1..2 /\ 2 \in 1..2
    BY <1>3, NodeArity
  <2>2. d[1] # "Bool" /\ d[2] # "Bool" /\ D = Int
    BY <1>1, <1>3 DEF WellTyped, CompareOps
  <2>3. x[1] \in Int /\ x[2] \in Int
    BY <1>1, <2>1, <2>2 DEF Values
  <2>4. /\ RowOp(n, x, NanLastOrder) = NanLastOrder(n.op, x[1], x[2])
        /\ RowOp(n, x, IeeeOrder) = IeeeOrder(n.op, x[1], x[2])
    BY <1>3 DEF RowOp, CompareOps
  <2>5. PolarsNode(n, d, s) = "Bool"
    BY <1>3 DEF PolarsNode, CompareOps
  <2>6. n.op \notin {"And", "Where"}
    BY <1>3, OperatorsDiffer
  <2>7. QED
    BY <1>2, <1>3, <2>3, <2>4, <2>5, <2>6, IntegersCompare DEF Values
<1>4. CASE n.op = "Add"
  <2>1. Arity(n) = 2 /\ 1 \in 1..2 /\ 2 \in 1..2
    BY <1>4, NodeArity
  <2>2. d[1] # "Bool" /\ d[1] = d[2]
    BY <1>1, <1>4 DEF WellTyped, CompareOps
  <2>3. x[1] \in D /\ x[2] \in D
    BY <1>1, <2>1, <2>2 DEF Values
  <2>4. /\ RowOp(n, x, NanLastOrder) = AddNumbers(x[1], x[2])
        /\ RowOp(n, x, IeeeOrder) = AddNumbers(x[1], x[2])
    BY <1>4 DEF RowOp, CompareOps
  <2>5. PolarsNode(n, d, s) = d[1]
    BY <1>4 DEF PolarsNode, CompareOps
  <2>6. AddNumbers(x[1], x[2]) \in D
    BY <1>1, <2>3, NumberFacts
  <2>7. QED
    BY <1>2, <1>4, <2>2, <2>4, <2>5, <2>6 DEF Values
<1>5. CASE n.op = "And"
  <2>1. Arity(n) = 2 /\ 1 \in 1..2 /\ 2 \in 1..2
    BY <1>5, NodeArity
  <2>2. d[1] = "Bool" /\ d[2] = "Bool"
    BY <1>1, <1>5 DEF WellTyped, CompareOps
  <2>3. x[1] \in BOOLEAN /\ x[2] \in BOOLEAN
    BY <1>1, <2>1, <2>2 DEF Values
  <2>4. RowOp(n, x, IeeeOrder) = (x[1] /\ x[2])
    BY <1>5 DEF RowOp, CompareOps
  <2>5. PolarsRow(n, x) = KleeneLogical("And", x[1], x[2])
    BY <1>5 DEF PolarsRow
  <2>6. KleeneLogical("And", x[1], x[2]) = (x[1] /\ x[2])
    BY <2>3, CaseAssumption DEF KleeneLogical
  <2>7. PolarsNode(n, d, s) = "Bool"
    BY <1>5 DEF PolarsNode
  <2>8. (x[1] /\ x[2]) \in BOOLEAN
    BY <2>3
  <2>9. QED
    BY <2>4, <2>5, <2>6, <2>7, <2>8 DEF Values
<1>6. CASE n.op = "Cast"
  <2>1. Arity(n) = 1 /\ 1 \in 1..1
    BY <1>6, NodeArity
  <2>2. n.from = "Bool" <=> d[1] = "Bool"
    BY <1>1, <1>6 DEF WellTyped
  <2>3. x[1] \in Values(d[1], D) /\ x[1] # Null
    BY <1>1, <2>1
  <2>4. /\ RowOp(n, x, NanLastOrder) = AsNumber(n, x[1])
        /\ RowOp(n, x, IeeeOrder) = AsNumber(n, x[1])
    BY <1>6 DEF RowOp, CompareOps
  <2>5. PolarsNode(n, d, s) = "F32"
    BY <1>6 DEF PolarsNode, Admitted, CompareOps, Scans
  <2>6. AsNumber(n, x[1]) \in D
    BY <1>1, <2>2, <2>3, CountedNumber
  <2>7. QED
    BY <1>2, <1>6, <2>4, <2>5, <2>6 DEF Values
<1>7. CASE n.op = "Where"
  <2>1. Arity(n) = 3 /\ 1 \in 1..3 /\ 2 \in 1..3 /\ 3 \in 1..3
    BY <1>7, NodeArity
  <2>2. d[1] = "Bool" /\ d[2] = d[3]
    BY <1>1, <1>7 DEF WellTyped, CompareOps
  <2>3. x[1] \in BOOLEAN /\ x[2] \in Values(d[2], D) /\ x[3] \in Values(d[2], D)
    <3>1. x[1] \in Values(d[1], D) /\ x[2] \in Values(d[2], D) /\ x[3] \in Values(d[3], D)
      BY <1>1, <2>1
    <3>2. QED
      BY <2>2, <3>1 DEF Values
  <2>4. RowOp(n, x, IeeeOrder) = IF x[1] THEN x[2] ELSE x[3]
    BY <1>7 DEF RowOp, CompareOps
  <2>5. PolarsRow(n, x) = IF x[1] = TRUE THEN x[2] ELSE x[3]
    BY <1>7 DEF PolarsRow
  <2>6. PolarsNode(n, d, s) = d[2]
    BY <1>7 DEF PolarsNode, CompareOps
  <2>7. QED
    BY <2>3, <2>4, <2>5, <2>6
<1>8. QED
  BY <1>3, <1>4, <1>5, <1>6, <1>7 DEF RowOps

\* A null goes through arithmetic and comparisons.
LEMMA RowOfNull ==
  ASSUME NEW n, n.op \notin {"And", "Where"}, NEW x, NEW j \in DOMAIN x, x[j] = Null
  PROVE  PolarsRow(n, x) = Null
<1>1. Null \in Range(x)
  BY DEF Range
<1>2. QED
  BY <1>1 DEF PolarsRow

\* Whatever its operands, a row is of the dtype Polars declares, or Null.
LEMMA RowType ==
  ASSUME NEW n, n.op \in RowOps, NEW d, NEW x, NEW D, NEW s, TypedRow(n, d, x, D), Admitted(n, s)
  PROVE  PolarsRow(n, x) \in Values(PolarsNode(n, d, s), D) \cup {Null}
<1>1. CASE \A j \in 1..Arity(n) : x[j] # Null
  BY <1>1, CleanRow
<1>2. CASE n.op \notin {"And", "Where"} /\ \E j \in 1..Arity(n) : x[j] = Null
  <2>1. PICK j \in DOMAIN x : x[j] = Null
    BY <1>2 DEF TypedRow
  <2>2. PolarsRow(n, x) = Null
    BY <1>2, <2>1, RowOfNull
  <2>3. QED
    BY <2>2
<1>3. CASE n.op = "And"
  <2>1. Arity(n) = 2 /\ 1 \in 1..2 /\ 2 \in 1..2
    BY <1>3, NodeArity
  <2>2. d[1] = "Bool" /\ d[2] = "Bool"
    BY <1>3 DEF WellTyped, CompareOps, TypedRow
  <2>3. x[1] \in BOOLEAN \cup {Null} /\ x[2] \in BOOLEAN \cup {Null}
    BY <2>1, <2>2 DEF Values, TypedRow
  <2>4. PolarsRow(n, x) = KleeneLogical("And", x[1], x[2])
    BY <1>3 DEF PolarsRow
  <2>5. PolarsNode(n, d, s) = "Bool"
    BY <1>3 DEF PolarsNode
  <2>6. KleeneLogical("And", x[1], x[2]) \in BOOLEAN \cup {Null}
    BY <2>3, Zenon DEF KleeneLogical
  <2>7. QED
    BY <2>4, <2>5, <2>6 DEF Values
<1>4. CASE n.op = "Where"
  <2>1. Arity(n) = 3 /\ 1 \in 1..3 /\ 2 \in 1..3 /\ 3 \in 1..3
    BY <1>4, NodeArity
  <2>2. d[2] = d[3]
    BY <1>4 DEF WellTyped, CompareOps, TypedRow
  <2>3. x[2] \in Values(d[2], D) \cup {Null} /\ x[3] \in Values(d[2], D) \cup {Null}
    BY <2>1, <2>2 DEF TypedRow
  <2>4. PolarsRow(n, x) = IF x[1] = TRUE THEN x[2] ELSE x[3]
    BY <1>4 DEF PolarsRow
  <2>5. PolarsNode(n, d, s) = d[2]
    BY <1>4 DEF PolarsNode, CompareOps
  <2>6. QED
    BY <2>3, <2>4, <2>5
<1>5. QED
  BY <1>1, <1>2, <1>3, <1>4

-----------------------------------------------------------------------------
\* The scans.

\* What is accumulated is a number, once there has been one.
LEMMA AccumulationType ==
  ASSUME NEW H \in Nat, NEW q, IsColumn(q, H), NEW op, NEW D, D \in {Int, Int \cup {NaN}},
         \A r \in 1..H : q[r] \in D \cup {Null}, NEW total, total = Accumulation(op, q)
  PROVE  /\ \A r \in 0..H : total[r] \in D \cup {Null}
         /\ \A r \in 1..H : q[r] # Null => total[r] \in D
<1>1. /\ total[0] = Null
      /\ \A r \in 1..H :
              total[r] = IF q[r] = Null THEN total[r - 1]
                         ELSE IF total[r - 1] = Null THEN q[r] ELSE Accumulated(op, total[r - 1], q[r])
  BY AccumulationEquation
<1>2. \A x, y \in D : Accumulated(op, x, y) \in D
  BY NumberFacts
<1>3. ASSUME NEW r \in 1..H, total[r - 1] \in D \cup {Null}
      PROVE  total[r] \in D \cup {Null} /\ (q[r] # Null => total[r] \in D)
  <2>1. CASE q[r] = Null
    BY <1>1, <1>3, <2>1
  <2>2. CASE q[r] # Null /\ total[r - 1] = Null
    BY <1>1, <1>3, <2>2
  <2>3. CASE q[r] # Null /\ total[r - 1] # Null
    <3>1. q[r] \in D /\ total[r - 1] \in D /\ total[r] = Accumulated(op, total[r - 1], q[r])
      BY <1>1, <1>3, <2>3
    <3>2. QED
      BY <1>2, <3>1
  <2>4. QED
    BY <2>1, <2>2, <2>3
<1> DEFINE G == {r \in Nat : r <= H => total[r] \in D \cup {Null}}
<1>4. 0 \in G
  BY <1>1
<1>5. ASSUME NEW m \in G PROVE m + 1 \in G
  <2>1. m + 1 <= H => m + 1 \in 1..H /\ (m + 1) - 1 = m /\ m <= H
    OBVIOUS
  <2>2. QED
    BY <1>3, <2>1
<1>6. G = Nat
  <2>1. G \in SUBSET Nat
    OBVIOUS
  <2> HIDE DEF G
  <2>2. QED
    BY <1>4, <1>5, <2>1, NumberInduction
<1>7. \A r \in 0..H : total[r] \in D \cup {Null}
  BY <1>6
<1>8. \A r \in 1..H : r - 1 \in 0..H
  OBVIOUS
<1>9. QED
  BY <1>3, <1>7, <1>8

\* What Polars and the graph have in two columns: w nulls for which the graph has zeros, and then
\* the same numbers.
Headed(q, v, w, H, D) ==
  \A r \in 1..H : IF r > w THEN v[r] = q[r] /\ v[r] \in D ELSE q[r] = Null /\ v[r] = 0

\* So they have of a running sum, and of a running maximum if there are no nulls.
LEMMA RunsAgree ==
  ASSUME NEW H \in Nat, NEW w \in Nat, NEW q, IsColumn(q, H), NEW v, IsColumn(v, H), NEW op, w = 0 \/ op # "CumMax",
         NEW D, D \in {Int, Int \cup {NaN}}, Headed(q, v, w, H, D),
         NEW total, total = Accumulation(op, q), NEW run, run = Running(op, v)
  PROVE  Headed(total, run, w, H, D)
<1> USE DEF Headed
<1>1. /\ total[0] = Null
      /\ \A r \in 1..H :
              total[r] = IF q[r] = Null THEN total[r - 1]
                         ELSE IF total[r - 1] = Null THEN q[r] ELSE Accumulated(op, total[r - 1], q[r])
  BY AccumulationEquation
<1>2. \A r \in 1..H : run[r] = IF r = 1 THEN v[1] ELSE Accumulated(op, run[r - 1], v[r])
  BY RunningEquation
<1>3. Null \notin D /\ 0 \in D /\ (\A x, y \in D : Accumulated(op, x, y) \in D) /\ (\A x \in D : AddNumbers(0, x) = x)
  BY NumberFacts
<1>4. op # "CumMax" => \A x, y : Accumulated(op, x, y) = AddNumbers(x, y)
  BY DEF Accumulated
<1> DEFINE Right(r) == IF r > w THEN total[r] = run[r] /\ run[r] \in D ELSE total[r] = Null /\ run[r] = 0
           G == {r \in Nat : r \in 1..H => Right(r)}
<1>5. ASSUME NEW r \in 1..H, r # 1 => Right(r - 1) PROVE Right(r)
  <2>1. CASE r = 1 /\ w = 0
    <3>1. q[r] \in D /\ v[r] = q[r] /\ q[r] # Null /\ r > w /\ r - 1 = 0
      BY <1>3, <2>1
    <3>2. total[r] = q[r] /\ run[r] = v[r]
      BY <1>1, <1>2, <2>1, <3>1
    <3>3. QED
      BY <3>1, <3>2
  <2>2. CASE r <= w
    <3>1. q[r] = Null /\ v[r] = 0 /\ ~(r > w) /\ op # "CumMax"
      BY <2>2
    <3>2. CASE r = 1
      BY <1>1, <1>2, <3>1, <3>2
    <3>3. CASE r # 1
      <4>1. total[r - 1] = Null /\ run[r - 1] = 0
        BY <1>5, <2>2, <3>3
      <4>2. total[r] = Null
        BY <1>1, <3>1, <4>1
      <4>3. run[r] = AddNumbers(0, 0)
        BY <1>2, <1>4, <3>1, <3>3, <4>1
      <4>4. QED
        BY <1>3, <3>1, <4>2, <4>3
    <3>4. QED
      BY <3>2, <3>3
  <2>3. CASE r # 1 /\ r - 1 = w
    <3>1. q[r] \in D /\ v[r] = q[r] /\ q[r] # Null /\ r > w /\ op # "CumMax"
      BY <1>3, <2>3
    <3>2. total[r - 1] = Null /\ run[r - 1] = 0
      BY <1>5, <2>3
    <3>3. total[r] = q[r]
      BY <1>1, <3>1, <3>2
    <3>4. run[r] = AddNumbers(0, q[r])
      BY <1>2, <1>4, <2>3, <3>1, <3>2
    <3>5. QED
      BY <1>3, <3>1, <3>3, <3>4
  <2>4. CASE r # 1 /\ r - 1 > w
    <3>1. q[r] \in D /\ v[r] = q[r] /\ q[r] # Null /\ r > w
      BY <1>3, <2>4
    <3>2. total[r - 1] = run[r - 1] /\ run[r - 1] \in D /\ total[r - 1] # Null
      BY <1>3, <1>5, <2>4
    <3>3. total[r] = Accumulated(op, total[r - 1], q[r])
      BY <1>1, <3>1, <3>2
    <3>4. run[r] = Accumulated(op, run[r - 1], v[r])
      BY <1>2, <2>4
    <3>5. QED
      BY <1>3, <3>1, <3>2, <3>3, <3>4
  <2>5. QED
    BY <2>1, <2>2, <2>3, <2>4
<1>6. 0 \in G
  OBVIOUS
<1>7. ASSUME NEW m \in G PROVE m + 1 \in G
  <2>1. m + 1 \in 1..H => (m + 1) - 1 = m /\ (m + 1 # 1 => m \in 1..H)
    OBVIOUS
  <2> HIDE DEF Right
  <2>2. QED
    BY <1>5, <2>1
<1>8. G = Nat
  <2>1. G \in SUBSET Nat
    OBVIOUS
  <2> HIDE DEF G
  <2>2. QED
    BY <1>6, <1>7, <2>1, NumberInduction
<1>9. \A r \in 1..H : Right(r)
  <2> HIDE DEF Right
  <2>1. QED
    BY <1>8
<1>10. QED
  BY <1>9

-----------------------------------------------------------------------------
\* The rows of the other columns.

LEMMA PolarsScanRows ==
  ASSUME NEW H \in Nat, NEW n, n.op \in Scans, NEW a, IsColumn(a[1], H), NEW q, q = Summands(n, a[1])
  PROVE  /\ IsColumn(PolarsOp(n, a), H)
         /\ \A r \in 1..H : PolarsOp(n, a)[r] = IF q[r] = Null THEN Null ELSE Accumulation(n.op, q)[r]
<1>1. PICK g : g = [r \in 1..H |-> IF q[r] = Null THEN Null ELSE Accumulation(n.op, q)[r]]
  OBVIOUS
<1>2. IsColumn(g, H)
  BY <1>1 DEF IsColumn
<1>3. DOMAIN q = 1..H
  BY SummandRows, ColumnTuple
<1>4. PolarsOp(n, a) = PolarsRunning(n.op, q)
  BY OperatorsDiffer DEF PolarsOp
<1>5. PolarsRunning(n.op, q) = g \o <<>>
  BY <1>1, <1>3 DEF PolarsRunning, PerRow
<1>6. PolarsOp(n, a) = g
  BY <1>2, <1>4, <1>5, ColumnTuple
<1>7. QED
  BY <1>1, <1>2, <1>6

LEMMA MlxScanRows ==
  ASSUME NEW H \in Nat, NEW n, n.op \in Scans, NEW a, IsColumn(a[1], H), NEW q, q = Summands(n, a[1])
  PROVE  IsColumn(MlxOp(n, a), H) /\ MlxOp(n, a) = Running(n.op, q)
<1>1. IsColumn(Running(n.op, q), H)
  BY SummandRows, RunningEquation
<1>2. MlxOp(n, a) = Running(n.op, q) \o <<>>
  BY OperatorsDiffer DEF MlxOp
<1>3. QED
  BY <1>1, <1>2, ColumnTuple

\* A column of the frame: of the dtype t of the schema, one that a graph reads, and of numbers.
FrameColumn(c, t, H, D) ==
  /\ t \in IntTags \cup {"F32"} /\ c.dtype = t /\ IsColumn(c.values, H)
  /\ \A r \in 1..H : c.values[r] \in D \cup {Null}

LEMMA StagedRows ==
  ASSUME NEW H \in Nat, NEW D, NEW c, NEW t, FrameColumn(c, t, H, D)
  PROVE  /\ IsColumn(Staged(c, t), H)
         /\ \A r \in 1..H : Staged(c, t)[r] = IF c.values[r] # Null THEN c.values[r]
                                              ELSE IF t = "F32" THEN NaN ELSE 0
<1>0. "F32" \notin IntTags
  BY DEF IntTags
<1>1. PICK g : g = [r \in 1..H |-> IF c.values[r] # Null THEN c.values[r] ELSE IF t = "F32" THEN NaN ELSE 0]
  OBVIOUS
<1>2. IsColumn(g, H)
  BY <1>1 DEF IsColumn
<1>3. DOMAIN c.values = 1..H
  BY ColumnTuple DEF FrameColumn
<1>4. c.dtype \notin IntTags \/ t # "F32"
  BY <1>0 DEF FrameColumn
<1>5. Staged(c, t) = g \o <<>>
  <2>1. Staged(c, t) = [r \in 1..H |-> IF c.values[r] # Null THEN c.values[r] ELSE IF c.dtype = "F32" THEN NaN ELSE 0] \o <<>>
    BY <1>3, <1>4 DEF Staged, PerRow
  <2>2. QED
    BY <1>1, <2>1 DEF FrameColumn
<1>6. Staged(c, t) = g
  BY <1>2, <1>5, ColumnTuple
<1>7. QED
  BY <1>1, <1>2, <1>6

\* The second graph reads a column of floats as the first does.
LEMMA MisreadRows ==
  ASSUME NEW H \in Nat, NEW D, NEW c, NEW t, FrameColumn(c, t, H, D)
  PROVE  /\ IsColumn(Misread(c, t), H)
         /\ t = "F32" => Misread(c, t) = Staged(c, t)
<1>1. DOMAIN c.values = 1..H
  BY ColumnTuple DEF FrameColumn
<1>2. CASE t = "F32"
  <2>1. PICK g : g = [r \in 1..H |-> IF c.values[r] = Null THEN NaN ELSE c.values[r]]
    OBVIOUS
  <2>2. IsColumn(g, H)
    BY <2>1 DEF IsColumn
  <2>3. Misread(c, t) = g \o <<>>
    BY <1>1, <1>2, <2>1 DEF Misread, PerRow
  <2>4. Misread(c, t) = g
    BY <2>2, <2>3, ColumnTuple
  <2>5. IsColumn(Staged(c, t), H) /\ \A r \in 1..H : Staged(c, t)[r] = g[r]
    BY <1>2, <2>1, StagedRows
  <2>6. Staged(c, t) = g
    BY <2>2, <2>5 DEF IsColumn
  <2>7. QED
    BY <2>2, <2>4, <2>6
<1>3. CASE t # "F32"
  <2>1. PICK g : g = [r \in 1..H |-> IF c.values[r] = Null THEN NanBits ELSE FloatBits(c.values[r])]
    OBVIOUS
  <2>2. IsColumn(g, H)
    BY <2>1 DEF IsColumn
  <2>3. Misread(c, t) = g \o <<>>
    BY <1>1, <1>3, <2>1 DEF Misread, PerRow
  <2>4. QED
    BY <1>3, <2>2, <2>3, ColumnTuple
<1>4. QED
  BY <1>2, <1>3

LEMMA ValidRows ==
  ASSUME NEW H \in Nat, NEW c, IsColumn(c.values, H)
  PROVE  /\ IsColumn(Valid(c), H)
         /\ \A r \in 1..H : Valid(c)[r] <=> c.values[r] # Null
<1>1. PICK g : g = [r \in 1..H |-> c.values[r] # Null]
  OBVIOUS
<1>2. IsColumn(g, H)
  BY <1>1 DEF IsColumn
<1>3. DOMAIN c.values = 1..H
  BY ColumnTuple
<1>4. Valid(c) = g \o <<>>
  BY <1>1, <1>3 DEF Valid, PerRow
<1>5. Valid(c) = g
  BY <1>2, <1>4, ColumnTuple
<1>6. QED
  BY <1>1, <1>2, <1>5

-----------------------------------------------------------------------------
\* One node.

\* The operands of a node: columns of H rows.
OperandColumns(n, a, H) == DOMAIN a = 1..Arity(n) /\ \A j \in 1..Arity(n) : IsColumn(a[j], H)

\* They have the dtypes d.
TypedOperands(n, d, a, H, D) ==
  /\ OperandColumns(n, a, H) /\ WellTyped(n, d) /\ NumbersFor(D, n.op)
  /\ \A j \in 1..Arity(n) : \A r \in 1..H : a[j][r] \in Values(d[j], D) \cup {Null}

LEMMA OperatorKinds ==
  ASSUME NEW n, NEW s, Admitted(n, s), n.op \notin {"Column", "Literal"}
  PROVE  n.op \in RowOps \cup Scans \cup {"Shift"} /\ 1 \in 1..Arity(n)
<1>1. n.op \in CompareOps \cup Scans \cup {"Cast", "Shift", "Add", "And", "Where"}
  BY DEF Admitted, CompareOps, Scans
<1>2. Arity(n) \in {1, 2, 3}
  BY <1>1, NodeArity
<1>3. QED
  BY <1>1, <1>2 DEF RowOps

LEMMA RowFacts ==
  ASSUME NEW H \in Nat, NEW n, NEW d, NEW a, NEW D, TypedOperands(n, d, a, H, D), NEW r \in 1..H
  PROVE  /\ TypedRow(n, d, Row(a, r), D)
         /\ \A j \in 1..Arity(n) : Row(a, r)[j] = a[j][r]
<1>1. DOMAIN Row(a, r) = 1..Arity(n) /\ \A j \in 1..Arity(n) : Row(a, r)[j] = a[j][r]
  BY DEF Row, TypedOperands, OperandColumns
<1>2. QED
  BY <1>1 DEF TypedRow, TypedOperands

\* The numbers a scan runs over.
LEMMA SummandTypes ==
  ASSUME NEW H \in Nat, NEW n, n.op \in Scans, NEW d, NEW a, NEW D,
         TypedOperands(n, d, a, H, D), NEW q, q = Summands(n, a[1])
  PROVE  /\ IsColumn(q, H) /\ IsColumn(a[1], H)
         /\ \A r \in 1..H : q[r] \in D \cup {Null} /\ (q[r] = Null <=> a[1][r] = Null)
<1>1. Arity(n) = 1 /\ 1 \in 1..1
  BY NodeArity
<1>2. /\ IsColumn(a[1], H) /\ \A r \in 1..H : a[1][r] \in Values(d[1], D) \cup {Null}
  BY <1>1 DEF TypedOperands, OperandColumns
<1>3. /\ IsColumn(q, H)
      /\ \A r \in 1..H : q[r] = IF n.op = "CumMax" THEN a[1][r] ELSE AsNumber(n, a[1][r])
  BY <1>2, SummandRows
<1>4. D \in {Int, Int \cup {NaN}} /\ WellTyped(n, d)
  BY DEF TypedOperands, NumbersFor
<1>5. CASE n.op = "CumMax"
  <2>1. d[1] # "Bool"
    BY <1>4, <1>5 DEF WellTyped, CompareOps
  <2>2. QED
    BY <1>2, <1>3, <1>5, <2>1 DEF Values
<1>6. CASE n.op # "CumMax"
  <2>1. n.from = "Bool" <=> d[1] = "Bool"
    BY <1>4, <1>6 DEF WellTyped, CompareOps, Scans
  <2>2. ASSUME NEW r \in 1..H
        PROVE  AsNumber(n, a[1][r]) \in D \cup {Null} /\ (AsNumber(n, a[1][r]) = Null <=> a[1][r] = Null)
    <3>1. PICK t, x : t = d[1] /\ x = a[1][r]
      OBVIOUS
    <3>2. (n.from = "Bool" <=> t = "Bool") /\ (x \in Values(t, D) \/ x = Null)
      BY <1>2, <2>1, <3>1
    <3>3. CASE x \in Values(t, D)
      BY <1>4, <3>1, <3>2, <3>3, CountedNumber
    <3>4. CASE x = Null
      BY <3>1, <3>4 DEF AsNumber
    <3>5. QED
      BY <3>2, <3>3, <3>4
  <2>3. QED
    BY <1>2, <1>3, <1>6, <2>2
<1>7. QED
  BY <1>5, <1>6

\* A node has the dtype that Polars declares.
LEMMA NodeType ==
  ASSUME NEW H \in Nat, NEW n, NEW s, Admitted(n, s), n.op \notin {"Column", "Literal"},
         n.op = "Shift" => n.offset \in Nat,
         NEW d, NEW a, NEW D, TypedOperands(n, d, a, H, D)
  PROVE  /\ IsColumn(PolarsOp(n, a), H)
         /\ \A r \in 1..H : PolarsOp(n, a)[r] \in Values(PolarsNode(n, d, s), D) \cup {Null}
<1>1. 1 \in 1..Arity(n) /\ IsColumn(a[1], H) /\ \A r \in 1..H : a[1][r] \in Values(d[1], D) \cup {Null}
  BY OperatorKinds DEF TypedOperands, OperandColumns
<1>2. WellTyped(n, d) /\ D \in {Int, Int \cup {NaN}}
  BY DEF TypedOperands, NumbersFor
<1>3. CASE n.op \in RowOps
  <2>1. IsColumn(PolarsOp(n, a), H) /\ \A r \in 1..H : PolarsOp(n, a)[r] = PolarsRow(n, Row(a, r))
    BY <1>1, <1>3, PolarsRows
  <2>2. ASSUME NEW r \in 1..H
        PROVE  PolarsRow(n, Row(a, r)) \in Values(PolarsNode(n, d, s), D) \cup {Null}
    <3>1. TypedRow(n, d, Row(a, r), D)
      BY RowFacts
    <3>2. QED
      BY <1>3, <3>1, RowType
  <2>3. QED
    BY <2>1, <2>2
<1>4. CASE n.op \in Scans
  <2>1. PICK q : q = Summands(n, a[1])
    OBVIOUS
  <2>2. IsColumn(q, H) /\ \A r \in 1..H : q[r] \in D \cup {Null}
    BY <1>4, <2>1, SummandTypes
  <2>3. \A r \in 1..H : q[r] # Null => Accumulation(n.op, q)[r] \in D
    BY <1>2, <2>2, AccumulationType
  <2>4. /\ IsColumn(PolarsOp(n, a), H)
        /\ \A r \in 1..H : PolarsOp(n, a)[r] = IF q[r] = Null THEN Null ELSE Accumulation(n.op, q)[r]
    BY <1>1, <1>4, <2>1, PolarsScanRows
  <2>5. PolarsNode(n, d, s) # "Bool"
    <3>1. n.op = "CumMax" => PolarsNode(n, d, s) = d[1] /\ d[1] # "Bool"
      BY <1>2 DEF PolarsNode, WellTyped, CompareOps
    <3>2. n.op = "CumSum" => PolarsNode(n, d, s) = Summed(d[1])
      BY DEF PolarsNode, CompareOps
    <3>3. Summed(d[1]) # "Bool"
      BY DEF Summed
    <3>4. QED
      BY <1>4, <3>1, <3>2, <3>3 DEF Scans
  <2>6. QED
    BY <2>3, <2>4, <2>5 DEF Values
<1>6. CASE n.op = "Shift"
  <2>1. PolarsOp(n, a) = Shifted(a[1], n.offset, Null)
    BY <1>6 DEF PolarsOp, Scans
  <2>2. PolarsNode(n, d, s) = d[1]
    BY <1>6 DEF PolarsNode, CompareOps
  <2>3. n.offset \in Nat
    BY <1>6
  <2>4. /\ IsColumn(PolarsOp(n, a), H)
        /\ \A r \in 1..H : PolarsOp(n, a)[r] = IF r > n.offset THEN a[1][r - n.offset] ELSE Null
    BY <1>1, <2>1, <2>3, ShiftedRows
  <2>5. \A r \in 1..H : r > n.offset => r - n.offset \in 1..H
    BY <2>3
  <2>6. QED
    BY <1>1, <2>2, <2>4, <2>5
<1>7. QED
  BY <1>3, <1>4, <1>6, OperatorKinds

LEMMA MlxNodeColumn ==
  ASSUME NEW H \in Nat, NEW n, NEW s, Admitted(n, s), n.op \notin {"Column", "Literal"},
         n.op = "Shift" => n.offset \in Nat, NEW b, OperandColumns(n, b, H)
  PROVE  IsColumn(MlxOp(n, b), H)
<1>1. IsColumn(b[1], H)
  BY OperatorKinds DEF OperandColumns
<1>2. CASE n.op \in RowOps
  BY <1>1, <1>2, MlxRows
<1>3. CASE n.op \in Scans
  BY <1>1, <1>3, MlxScanRows
<1>5. CASE n.op = "Shift"
  <2>1. PICK fill : fill = IF n.from = "Bool" THEN FALSE ELSE 0
    OBVIOUS
  <2>2. MlxOp(n, b) = Shifted(b[1], n.offset, fill)
    BY <1>5, <2>1 DEF MlxOp, Scans
  <2>3. QED
    <3>1. n.offset \in Nat
      BY <1>5
    <3>2. QED
      BY <1>1, <2>2, <3>1, ShiftedRows
<1>6. QED
  BY <1>2, <1>3, <1>5, OperatorKinds

\* Over operands without nulls, both worlds agree, whatever the operator but a shift.
LEMMA CleanNode ==
  ASSUME NEW H \in Nat, NEW n, NEW s, Admitted(n, s), n.op \notin {"Column", "Literal", "Shift"},
         NEW d, NEW a, NEW D, TypedOperands(n, d, a, H, D),
         \A j \in 1..Arity(n) : \A r \in 1..H : a[j][r] # Null
  PROVE  MlxOp(n, a) = PolarsOp(n, a) /\ \A r \in 1..H : PolarsOp(n, a)[r] # Null
<1>1. 1 \in 1..Arity(n) /\ IsColumn(a[1], H) /\ \A r \in 1..H : a[1][r] # Null
  BY OperatorKinds DEF TypedOperands, OperandColumns
<1>2. D \in {Int, Int \cup {NaN}} /\ Null \notin D /\ Null \notin BOOLEAN
  BY NumberFacts, CaseAssumption DEF TypedOperands, NumbersFor
<1>3. CASE n.op \in RowOps
  <2>1. /\ IsColumn(PolarsOp(n, a), H) /\ \A r \in 1..H : PolarsOp(n, a)[r] = PolarsRow(n, Row(a, r))
        /\ IsColumn(MlxOp(n, a), H) /\ \A r \in 1..H : MlxOp(n, a)[r] = RowOp(n, Row(a, r), IeeeOrder)
    BY <1>1, <1>3, PolarsRows, MlxRows
  <2>2. ASSUME NEW r \in 1..H
        PROVE  MlxOp(n, a)[r] = PolarsOp(n, a)[r] /\ PolarsOp(n, a)[r] # Null
    <3>1. TypedRow(n, d, Row(a, r), D) /\ \A j \in 1..Arity(n) : Row(a, r)[j] # Null
      BY RowFacts
    <3>2. /\ PolarsRow(n, Row(a, r)) = RowOp(n, Row(a, r), IeeeOrder)
          /\ PolarsRow(n, Row(a, r)) \in Values(PolarsNode(n, d, s), D)
      BY <1>3, <3>1, CleanRow
    <3>3. Null \notin Values(PolarsNode(n, d, s), D)
      BY <1>2 DEF Values
    <3>4. QED
      BY <2>1, <3>2, <3>3
  <2>3. QED
    BY <2>1, <2>2 DEF IsColumn
<1>4. ASSUME n.op \in Scans, NEW q, q = Summands(n, a[1]), NEW op, op = n.op
      PROVE  \A r \in 1..H : q[r] # Null /\ Accumulation(op, q)[r] = Running(op, q)[r] /\ Running(op, q)[r] \in D
  <2>1. IsColumn(q, H) /\ \A r \in 1..H : q[r] \in D \cup {Null} /\ (q[r] = Null <=> a[1][r] = Null)
    BY <1>4, SummandTypes
  <2>2. \A r \in 1..H : q[r] \in D /\ q[r] # Null
    BY <1>1, <2>1
  <2>3. PICK w \in Nat : w = 0
    OBVIOUS
  <2>5. PICK v, total, run : v = q /\ total = Accumulation(op, q) /\ run = Running(op, v)
    OBVIOUS
  <2>4. Headed(q, v, w, H, D)
    BY <2>2, <2>3, <2>5 DEF Headed
  <2>6. Headed(total, run, w, H, D)
    <3>1. IsColumn(q, H) /\ IsColumn(v, H) /\ (w = 0 \/ op # "CumMax") /\ D \in {Int, Int \cup {NaN}}
      BY <1>2, <2>1, <2>3, <2>5
    <3>2. QED
      BY <2>4, <2>5, <3>1, RunsAgree
  <2>7. QED
    BY <2>2, <2>3, <2>5, <2>6 DEF Headed
<1>5. CASE n.op \in Scans
  <2>1. PICK q : q = Summands(n, a[1])
    OBVIOUS
  <2>2. \A r \in 1..H : q[r] # Null /\ Accumulation(n.op, q)[r] = Running(n.op, q)[r] /\ Running(n.op, q)[r] \in D
    BY <1>4, <1>5, <2>1
  <2>3. /\ IsColumn(PolarsOp(n, a), H)
        /\ \A r \in 1..H : PolarsOp(n, a)[r] = IF q[r] = Null THEN Null ELSE Accumulation(n.op, q)[r]
    BY <1>1, <1>5, <2>1, PolarsScanRows
  <2>4. IsColumn(MlxOp(n, a), H) /\ MlxOp(n, a) = Running(n.op, q)
    BY <1>1, <1>5, <2>1, MlxScanRows
  <2>5. \A r \in 1..H : MlxOp(n, a)[r] = PolarsOp(n, a)[r] /\ PolarsOp(n, a)[r] # Null
    BY <1>2, <2>2, <2>3, <2>4
  <2>6. QED
    BY <2>3, <2>4, <2>5 DEF IsColumn
<1>7. QED
  BY <1>3, <1>5, OperatorKinds

\* A null goes through arithmetic, casts and comparisons, in either world; what is not null is the same.
LEMMA ElementRow ==
  ASSUME NEW H \in Nat, NEW n, NEW s, Admitted(n, s), n.op \in RowOps \ {"And", "Where"},
         NEW d, NEW a, NEW D, TypedOperands(n, d, a, H, D), NEW b, OperandColumns(n, b, H), NEW r \in 1..H,
         \A j \in 1..Arity(n) : a[j][r] # Null => b[j][r] = a[j][r]
  PROVE  /\ PolarsOp(n, a)[r] # Null <=> \A j \in 1..Arity(n) : a[j][r] # Null
         /\ PolarsOp(n, a)[r] # Null => MlxOp(n, b)[r] = PolarsOp(n, a)[r]
<1>1. n.op \in RowOps /\ n.op \notin {"And", "Where"} /\ n.op \notin {"Column", "Literal"}
  BY OperatorsDiffer
<1>2. 1 \in 1..Arity(n) /\ IsColumn(a[1], H) /\ IsColumn(b[1], H)
  BY <1>1, OperatorKinds DEF TypedOperands, OperandColumns
<1>3. PolarsOp(n, a)[r] = PolarsRow(n, Row(a, r)) /\ MlxOp(n, b)[r] = RowOp(n, Row(b, r), IeeeOrder)
  BY <1>1, <1>2, PolarsRows, MlxRows
<1>4. TypedRow(n, d, Row(a, r), D) /\ \A j \in 1..Arity(n) : Row(a, r)[j] = a[j][r]
  BY RowFacts
<1>5. CASE \A j \in 1..Arity(n) : a[j][r] # Null
  <2>1. /\ PolarsRow(n, Row(a, r)) = RowOp(n, Row(a, r), IeeeOrder)
        /\ PolarsRow(n, Row(a, r)) \in Values(PolarsNode(n, d, s), D)
    BY <1>1, <1>4, <1>5, CleanRow
  <2>2. Row(b, r) = Row(a, r)
    <3>1. DOMAIN a = 1..Arity(n) /\ DOMAIN b = 1..Arity(n) /\ \A j \in 1..Arity(n) : b[j][r] = a[j][r]
      BY <1>5 DEF TypedOperands, OperandColumns
    <3>2. QED
      BY <3>1 DEF Row
  <2>3. Null \notin Values(PolarsNode(n, d, s), D)
    <3>1. Null \notin D /\ Null \notin BOOLEAN
      BY NumberFacts, CaseAssumption DEF TypedOperands, NumbersFor
    <3>2. QED
      BY <3>1 DEF Values
  <2>4. QED
    BY <1>3, <1>5, <2>1, <2>2, <2>3
<1>6. CASE ~\A j \in 1..Arity(n) : a[j][r] # Null
  <2>1. PICK j \in 1..Arity(n) : a[j][r] = Null
    BY <1>6
  <2>2. PICK x : x = Row(a, r)
    OBVIOUS
  <2>3. j \in DOMAIN x /\ x[j] = Null
    BY <1>4, <2>1, <2>2 DEF TypedRow
  <2>4. PolarsRow(n, x) = Null
    BY <1>1, <2>3, RowOfNull
  <2>5. QED
    BY <1>3, <1>6, <2>2, <2>4
<1>7. QED
  BY <1>5, <1>6

\* What a node of the second graph gets, and its validity: that of all its operands, of the branch
\* that a when takes, or moved down.
ValidOperands(n, c, H) ==
  DOMAIN c = 1..Arity(n) /\ \A j \in 1..Arity(n) : IsColumn(c[j].val, H) /\ IsColumn(c[j].ok, H)

OkColumn(ok, n, c, H) ==
  /\ IsColumn(ok, H)
  /\ n.op = "Where" => \A r \in 1..H : ok[r] = IF c[1].val[r] THEN c[2].ok[r] ELSE c[3].ok[r]
  /\ n.op = "Shift" => \A r \in 1..H : ok[r] = IF r > n.offset THEN c[1].ok[r - n.offset] ELSE FALSE
  /\ n.op \notin {"Where", "Shift"} => \A r \in 1..H : ok[r] = \A j \in 1..Arity(n) : c[j].ok[r]

LEMMA OkRows ==
  ASSUME NEW H \in Nat, NEW n, NEW s, Admitted(n, s), n.op \notin {"Column", "Literal"}, NEW f, NEW t,
         n.op = "Shift" => n.offset \in Nat,
         NEW c, ValidOperands(n, c, H),
         NEW ok, ok = ValidityNode(n, c, f, t).ok
  PROVE  OkColumn(ok, n, c, H)
<1>1. 1 \in 1..Arity(n) /\ IsColumn(c[1].val, H) /\ IsColumn(c[1].ok, H)
  BY OperatorKinds DEF ValidOperands
<1>2. DOMAIN c[1].val = 1..H /\ DOMAIN c[1].ok = 1..H
  BY <1>1, ColumnTuple
<1>3. CASE n.op = "Where"
  <2>1. PICK g : g = [r \in 1..H |-> IF c[1].val[r] THEN c[2].ok[r] ELSE c[3].ok[r]]
    OBVIOUS
  <2>2. IsColumn(g, H)
    BY <2>1 DEF IsColumn
  <2>3. ok = WhereValidity(c[1].val, c[2].ok, c[3].ok)
    BY <1>3 DEF ValidityNode
  <2>4. ok = g \o <<>>
    BY <1>2, <2>1, <2>3 DEF WhereValidity, PerRow
  <2>5. ok = g
    BY <2>2, <2>4, ColumnTuple
  <2>6. QED
    BY <1>3, <2>1, <2>2, <2>5 DEF OkColumn
<1>4. CASE n.op = "Shift"
  <2>1. ok = Shifted(c[1].ok, n.offset, FALSE)
    BY <1>4 DEF ValidityNode
  <2>2. n.offset \in Nat
    BY <1>4
  <2>3. PICK v, w, fill : v = c[1].ok /\ w = n.offset /\ fill = FALSE
    OBVIOUS
  <2>4. IsColumn(v, H) /\ w \in Nat
    BY <1>1, <2>2, <2>3
  <2>5. IsColumn(Shifted(v, w, fill), H) /\ \A r \in 1..H : Shifted(v, w, fill)[r] = IF r > w THEN v[r - w] ELSE fill
    BY <2>4, ShiftedRows
  <2>6. ok = Shifted(v, w, fill)
    BY <2>1, <2>3
  <2>7. IsColumn(ok, H) /\ \A r \in 1..H : ok[r] = IF r > n.offset THEN c[1].ok[r - n.offset] ELSE FALSE
    BY <2>3, <2>5, <2>6
  <2>8. QED
    BY <1>4, <2>7 DEF OkColumn
<1>5. CASE n.op \notin {"Where", "Shift"}
  <2>1. PICK g : g = [r \in 1..H |-> \A j \in 1..Arity(n) : c[j].ok[r]]
    OBVIOUS
  <2>2. IsColumn(g, H)
    BY <2>1 DEF IsColumn
  <2>3. ok = PerRow(c[1].ok, LAMBDA r : \A j \in DOMAIN c : c[j].ok[r])
    BY <1>5 DEF ValidityNode, PerRow
  <2>4. ok = g \o <<>>
    BY <1>2, <2>1, <2>3 DEF PerRow, ValidOperands
  <2>5. ok = g
    BY <2>2, <2>4, ColumnTuple
  <2>6. QED
    BY <1>5, <2>1, <2>2, <2>5 DEF OkColumn
<1>6. QED
  BY <1>3, <1>4, <1>5

-----------------------------------------------------------------------------
\* A binding: its expression, over a schema and a frame of H rows, whose numbers are those of D.

Setting(e, s, f, H, D) ==
  /\ IsArena(e) /\ H \in Nat /\ H = FrameHeight(f)
  /\ \A i \in 1..Len(e) :
       /\ Admitted(e[i], s) /\ DOMAIN e[i].args = 1..Arity(e[i])
       /\ WellTyped(e[i], Operands(e, i, DtypeOf(e, s))) /\ NumbersFor(D, e[i].op)
       /\ e[i].op = "Shift" => e[i].offset \in Nat
       /\ e[i].op = "Literal" => e[i].value \in Values(e[i].dtype, D)
       /\ e[i].op = "Column" => FrameColumn(f[e[i].name], s[e[i].name], H, D)

TypedColumn(p, t, H, D) == IsColumn(p, H) /\ \A r \in 1..H : p[r] \in Values(t, D) \cup {Null}

\* The operands of a node have an attribute that all before it have.
LEMMA OperandFacts ==
  ASSUME NEW e, IsArena(e), NEW i \in 1..Len(e), DOMAIN e[i].args = 1..Arity(e[i]), NEW h
  PROVE  /\ DOMAIN Operands(e, i, h) = 1..Arity(e[i])
         /\ \A j \in 1..Arity(e[i]) : /\ Operands(e, i, h)[j] = h[e[i].args[j]]
                                      /\ e[i].args[j] \in 1..(i - 1) /\ e[i].args[j] \in 1..Len(e)
<1>1. DOMAIN Operands(e, i, h) = 1..Arity(e[i]) /\ \A j \in 1..Arity(e[i]) : Operands(e, i, h)[j] = h[e[i].args[j]]
  BY DEF Operands
<1>2. ASSUME NEW j \in 1..Arity(e[i]) PROVE e[i].args[j] \in 1..(i - 1) /\ e[i].args[j] \in 1..Len(e)
  <2>1. Len(e) \in Nat /\ e[i].args[j] \in 1..(i - 1)
    BY DEF IsArena
  <2>2. QED
    BY <2>1
<1>3. QED
  BY <1>1, <1>2

LEMMA OperandsTyped ==
  ASSUME NEW e, NEW s, NEW f, NEW H, NEW D, Setting(e, s, f, H, D), NEW i \in 1..Len(e), NEW p,
         \A j \in 1..(i - 1) : TypedColumn(p[j], DtypeOf(e, s)[j], H, D)
  PROVE  TypedOperands(e[i], Operands(e, i, DtypeOf(e, s)), Operands(e, i, p), H, D)
<1>1. PICK d : d = DtypeOf(e, s)
  OBVIOUS
<1>2. IsArena(e) /\ DOMAIN e[i].args = 1..Arity(e[i]) /\ WellTyped(e[i], Operands(e, i, d)) /\ NumbersFor(D, e[i].op)
  BY <1>1 DEF Setting
<1>3. /\ DOMAIN Operands(e, i, p) = 1..Arity(e[i])
      /\ \A j \in 1..Arity(e[i]) : /\ Operands(e, i, p)[j] = p[e[i].args[j]] /\ Operands(e, i, d)[j] = d[e[i].args[j]]
                                   /\ TypedColumn(p[e[i].args[j]], d[e[i].args[j]], H, D)
  BY <1>1, <1>2, OperandFacts
<1>4. QED
  BY <1>1, <1>2, <1>3 DEF TypedOperands, OperandColumns, TypedColumn

\* The columns of Polars have the dtypes it declares.
LEMMA NodesTyped ==
  ASSUME NEW e, NEW s, NEW f, NEW H, NEW D, Setting(e, s, f, H, D)
  PROVE  \A i \in 1..Len(e) : TypedColumn(PolarsOf(e, f)[i], DtypeOf(e, s)[i], H, D)
<1>0. IsArena(e) /\ Len(e) \in Nat /\ H \in Nat /\ H = FrameHeight(f)
  BY DEF Setting, IsArena
<1>1. PICK p, d : p = PolarsOf(e, f) /\ d = DtypeOf(e, s)
  OBVIOUS
<1>2. \A i \in 1..Len(e) : /\ p[i] = PolarsColumn(e[i], Operands(e, i, p), f)
                           /\ d[i] = PolarsNode(e[i], Operands(e, i, d), s)
  BY <1>0, <1>1, PolarsEquation, DtypeEquation
<1> DEFINE Right(i) == TypedColumn(p[i], d[i], H, D)
           G == {i \in 1..Len(e) : Right(i)}
<1>3. ASSUME NEW i \in 1..Len(e), \A j \in 1..(i - 1) : Right(j) PROVE Right(i)
  <2>1. PICK n, a, b : n = e[i] /\ a = Operands(e, i, p) /\ b = Operands(e, i, d)
    OBVIOUS
  <2>2. p[i] = PolarsColumn(n, a, f) /\ d[i] = PolarsNode(n, b, s) /\ Admitted(n, s)
    BY <1>2, <2>1 DEF Setting
  <2>3. CASE n.op = "Column"
    <3>1. FrameColumn(f[n.name], s[n.name], H, D)
      BY <2>1, <2>3 DEF Setting
    <3>2. p[i] = f[n.name].values /\ d[i] = s[n.name]
      BY <2>2, <2>3 DEF PolarsColumn, PolarsNode, CompareOps
    <3>3. s[n.name] # "Bool"
      BY <3>1 DEF FrameColumn, IntTags
    <3>4. QED
      BY <3>1, <3>2, <3>3 DEF FrameColumn, TypedColumn, Values
  <2>4. CASE n.op = "Literal"
    <3>1. n.value \in Values(n.dtype, D)
      BY <2>1, <2>4 DEF Setting
    <3>2. p[i] = Broadcast(f, n.value) /\ d[i] = n.dtype
      BY <2>2, <2>4 DEF PolarsColumn, PolarsNode, CompareOps
    <3>3. IsColumn(p[i], H) /\ \A r \in 1..H : p[i][r] = n.value
      BY <1>0, <3>2, BroadcastRows
    <3>4. QED
      BY <3>1, <3>2, <3>3 DEF TypedColumn
  <2>5. CASE n.op \notin {"Column", "Literal"}
    <3>1. TypedOperands(n, b, a, H, D)
      BY <1>1, <1>3, <2>1, OperandsTyped
    <3>2. p[i] = PolarsOp(n, a)
      BY <2>2, <2>5 DEF PolarsColumn
    <3>3. n.op = "Shift" => n.offset \in Nat
      BY <2>1 DEF Setting
    <3>4. /\ IsColumn(PolarsOp(n, a), H)
          /\ \A r \in 1..H : PolarsOp(n, a)[r] \in Values(PolarsNode(n, b, s), D) \cup {Null}
      BY <1>0, <2>2, <2>5, <3>1, <3>3, NodeType
    <3>5. QED
      BY <2>2, <3>2, <3>4 DEF TypedColumn
  <2>6. QED
    BY <2>3, <2>4, <2>5
<1>4. \A i \in 1..Len(e) : (\A j \in 1..(i - 1) : j \in G) => i \in G
  <2> HIDE DEF Right
  <2>1. QED
    BY <1>3
<1>5. \A i \in 1..Len(e) : i \in G
  <2> HIDE DEF G
  <2>1. QED
    BY <1>0, <1>4, NodeInduction
<1>6. QED
  BY <1>1, <1>5

\* The columns of the two graphs are as long.
LEMMA GraphColumns ==
  ASSUME NEW e, NEW s, NEW f, NEW H, NEW D, Setting(e, s, f, H, D)
  PROVE  \A i \in 1..Len(e) : /\ IsColumn(ValueOf(e, f, s)[i], H)
                              /\ IsColumn(ValidityOf(e, f, s)[i].val, H) /\ IsColumn(ValidityOf(e, f, s)[i].ok, H)
<1>0. IsArena(e) /\ Len(e) \in Nat /\ H \in Nat /\ H = FrameHeight(f)
  BY DEF Setting, IsArena
<1>1. PICK v, w : v = ValueOf(e, f, s) /\ w = ValidityOf(e, f, s)
  OBVIOUS
<1>2. \A i \in 1..Len(e) : /\ v[i] = ValueNode(e[i], Operands(e, i, v), f, s)
                           /\ w[i] = ValidityNode(e[i], Operands(e, i, w), f, s)
  BY <1>0, <1>1, ValueEquation, ValidityEquation
<1> DEFINE Right(i) == IsColumn(v[i], H) /\ IsColumn(w[i].val, H) /\ IsColumn(w[i].ok, H)
           G == {i \in 1..Len(e) : Right(i)}
<1>3. ASSUME NEW i \in 1..Len(e), \A j \in 1..(i - 1) : Right(j) PROVE Right(i)
  <2>1. PICK n, a, c : n = e[i] /\ a = Operands(e, i, v) /\ c = Operands(e, i, w)
    OBVIOUS
  <2>2. v[i] = ValueNode(n, a, f, s) /\ w[i] = ValidityNode(n, c, f, s) /\ Admitted(n, s)
    BY <1>2, <2>1 DEF Setting
  <2>3. CASE n.op = "Column"
    <3>1. FrameColumn(f[n.name], s[n.name], H, D)
      BY <2>1, <2>3 DEF Setting
    <3>2. /\ v[i] = Staged(f[n.name], s[n.name])
          /\ w[i].val = Misread(f[n.name], s[n.name]) /\ w[i].ok = Valid(f[n.name])
      BY <2>2, <2>3 DEF ValueNode, ValidityNode
    <3>3. IsColumn(Staged(f[n.name], s[n.name]), H) /\ IsColumn(Misread(f[n.name], s[n.name]), H)
      BY <1>0, <3>1, StagedRows, MisreadRows
    <3>4. IsColumn(f[n.name].values, H)
      BY <3>1 DEF FrameColumn
    <3>5. IsColumn(Valid(f[n.name]), H)
      BY <1>0, <3>4, ValidRows
    <3>6. QED
      BY <3>2, <3>3, <3>5
  <2>4. CASE n.op = "Literal"
    <3>1. v[i] = Broadcast(f, n.value) /\ w[i].val = Broadcast(f, n.value) /\ w[i].ok = Broadcast(f, TRUE)
      BY <2>2, <2>4 DEF ValueNode, ValidityNode
    <3>2. QED
      BY <1>0, <3>1, BroadcastRows
  <2>5. CASE n.op \notin {"Column", "Literal"}
    <3>0. DOMAIN n.args = 1..Arity(n) /\ (n.op = "Shift" => n.offset \in Nat)
      BY <2>1 DEF Setting
    <3>1. /\ DOMAIN a = 1..Arity(n) /\ DOMAIN c = 1..Arity(n)
          /\ \A j \in 1..Arity(n) : /\ a[j] = v[n.args[j]] /\ c[j] = w[n.args[j]]
                                    /\ Right(n.args[j])
      BY <1>0, <1>3, <2>1, <3>0, OperandFacts
    <3>2. OperandColumns(n, a, H)
      BY <3>1 DEF OperandColumns
    <3>3. PICK b : b = [j \in DOMAIN c |-> c[j].val]
      OBVIOUS
    <3>4. OperandColumns(n, b, H)
      BY <3>1, <3>3 DEF OperandColumns
    <3>5. v[i] = MlxOp(n, a) /\ w[i].val = MlxOp(n, b)
      BY <2>2, <2>5, <3>3 DEF ValueNode, ValidityNode
    <3>6. IsColumn(MlxOp(n, a), H) /\ IsColumn(MlxOp(n, b), H)
      BY <1>0, <2>2, <2>5, <3>0, <3>2, <3>4, MlxNodeColumn
    <3>7. IsColumn(w[i].ok, H)
      <4>1. ValidOperands(n, c, H)
        BY <3>1 DEF ValidOperands
      <4>2. PICK ok : ok = ValidityNode(n, c, f, s).ok
        OBVIOUS
      <4>3. IsColumn(ok, H)
        BY <1>0, <2>2, <2>5, <3>0, <4>1, <4>2, OkRows DEF OkColumn
      <4>4. QED
        BY <2>2, <4>2, <4>3
    <3>8. QED
      BY <3>5, <3>6, <3>7
  <2>6. QED
    BY <2>3, <2>4, <2>5
<1>4. \A i \in 1..Len(e) : (\A j \in 1..(i - 1) : j \in G) => i \in G
  <2> HIDE DEF Right
  <2>1. QED
    BY <1>3
<1>5. \A i \in 1..Len(e) : i \in G
  <2> HIDE DEF G
  <2>1. QED
    BY <1>0, <1>4, NodeInduction
<1>6. QED
  BY <1>1, <1>5

-----------------------------------------------------------------------------
\* From a node to what is below it.

\* A node and all below it.
Under(e, i) == {e[i]} \cup NotesOf(e)[i].below

LEMMA EqualColumns ==
  ASSUME NEW H, NEW v, IsColumn(v, H), NEW w, IsColumn(w, H), \A r \in 1..H : v[r] = w[r]
  PROVE  v = w
BY DEF IsColumn

\* What holds of the root, and of the operands of whatever it holds of, holds of every node.
LEMMA RootReaches ==
  ASSUME NEW e, NEW s, IsExpression(e, s), NEW S, Len(e) \in S,
         \A i \in 1..Len(e) : i \in S => \A j \in DOMAIN e[i].args : e[i].args[j] \in S
  PROVE  \A i \in 1..Len(e) : i \in S
<1>1. /\ IsArena(e)
      /\ \A i \in 1..(Len(e) - 1) : \E k \in 1..Len(e) : \E j \in DOMAIN e[k].args : e[k].args[j] = i
  BY ExpressionIsArena
<1>2. Len(e) \in Nat /\ Len(e) >= 1
  BY <1>1 DEF IsArena
<1>3. PICK N \in Nat : N = Len(e)
  BY <1>2
<1> DEFINE G == {i \in 1..N : N + 1 - i \in S}
<1>4. ASSUME NEW i \in 1..N, \A j \in 1..(i - 1) : j \in G PROVE i \in G
  <2>1. CASE i = 1
    <3>1. N + 1 - i = N
      BY <2>1
    <3>2. QED
      BY <1>3, <3>1
  <2>2. CASE i # 1
    <3>1. N + 1 - i \in 1..(N - 1)
      BY <2>2
    <3>2. PICK k \in 1..N : \E j \in DOMAIN e[k].args : e[k].args[j] = N + 1 - i
      BY <1>1, <1>3, <3>1
    <3>3. PICK j \in DOMAIN e[k].args : e[k].args[j] = N + 1 - i
      BY <3>2
    <3>4. e[k].args[j] \in 1..(k - 1)
      BY <1>1, <1>3 DEF IsArena
    <3>5. N + 1 - k \in 1..(i - 1)
      BY <3>3, <3>4
    <3>6. N + 1 - (N + 1 - k) \in S
      BY <1>4, <3>5
    <3>7. k \in S
      <4>1. N + 1 - (N + 1 - k) = k
        OBVIOUS
      <4>2. QED
        BY <3>6, <4>1
    <3>8. N + 1 - i \in S
      BY <1>3, <3>3, <3>7
    <3>9. QED
      BY <3>8
  <2>3. QED
    BY <2>1, <2>2
<1>5. \A i \in 1..N : i \in G
  <2> HIDE DEF G
  <2>1. QED
    BY <1>4, NodeInduction
<1>6. ASSUME NEW i \in 1..Len(e) PROVE i \in S
  <2>1. N + 1 - i \in 1..N
    BY <1>3
  <2>2. N + 1 - (N + 1 - i) \in S
    BY <1>5, <2>1
  <2>3. N + 1 - (N + 1 - i) = i
    BY <1>3
  <2>4. QED
    BY <2>2, <2>3
<1>7. QED
  BY <1>6

\* What is noted of a node is noted of those above it.
LEMMA NotesFacts ==
  ASSUME NEW e, IsArena(e), NEW i \in 1..Len(e), DOMAIN e[i].args = 1..Arity(e[i])
  PROVE  /\ \A j \in 1..Arity(e[i]) : Under(e, e[i].args[j]) \subseteq NotesOf(e)[i].below
         /\ e[i].op # "Where" => \A j \in 1..Arity(e[i]) : NotesOf(e)[e[i].args[j]].cond \subseteq NotesOf(e)[i].cond
         /\ e[i].op = "Where" => /\ NotesOf(e)[e[i].args[1]].below \subseteq NotesOf(e)[i].cond
                                 /\ NotesOf(e)[e[i].args[2]].cond \subseteq NotesOf(e)[i].cond
                                 /\ NotesOf(e)[e[i].args[3]].cond \subseteq NotesOf(e)[i].cond
<1>1. PICK n, h, a : n = e[i] /\ h = NotesOf(e) /\ a = Operands(e, i, h)
  OBVIOUS
<1>2. h[i] = PredicateNode(n, a)
  BY <1>1, PredicateEquation
<1>3. DOMAIN a = 1..Arity(n) /\ \A j \in 1..Arity(n) : a[j] = h[n.args[j]]
  BY <1>1, OperandFacts
<1>4. e[i] \in Under(e, i) /\ \A k : Under(e, k) = {e[k]} \cup h[k].below
  BY <1>1 DEF Under
<1>5. ASSUME NEW k \in 1..Len(e) PROVE h[k].node = e[k]
  <2>1. h[k] = PredicateNode(e[k], Operands(e, k, h))
    BY <1>1, PredicateEquation
  <2>2. QED
    BY <2>1 DEF PredicateNode
<1>6. ASSUME NEW j \in 1..Arity(n) PROVE Under(e, n.args[j]) \subseteq h[i].below
  <2>1. n.args[j] \in 1..Len(e)
    BY <1>1, OperandFacts
  <2>2. Under(e, n.args[j]) = {a[j].node} \cup a[j].below
    BY <1>3, <1>4, <1>5, <2>1
  <2>3. h[i].below = UNION {{a[k].node} \cup a[k].below : k \in DOMAIN a}
    BY <1>2 DEF PredicateNode
  <2>4. QED
    BY <1>3, <2>2, <2>3
<1>7. ASSUME n.op # "Where", NEW j \in 1..Arity(n) PROVE h[n.args[j]].cond \subseteq h[i].cond
  <2>1. h[i].cond = UNION {a[k].cond : k \in DOMAIN a}
    BY <1>2, <1>7 DEF PredicateNode
  <2>2. QED
    BY <1>3, <2>1
<1>8. ASSUME n.op = "Where"
      PROVE  h[n.args[1]].below \subseteq h[i].cond /\ h[n.args[2]].cond \subseteq h[i].cond
             /\ h[n.args[3]].cond \subseteq h[i].cond
  <2>1. h[i].cond = a[1].below \cup a[2].cond \cup a[3].cond
    BY <1>2, <1>8 DEF PredicateNode
  <2>2. Arity(n) = 3
    BY <1>8, NodeArity
  <2>3. a[1] = h[n.args[1]] /\ a[2] = h[n.args[2]] /\ a[3] = h[n.args[3]]
    BY <1>3, <2>2
  <2>4. QED
    BY <2>1, <2>3
<1>9. QED
  BY <1>1, <1>6, <1>7, <1>8

\* What is below a node is a node; there is a shift if one is noted.
LEMMA UnderFacts ==
  ASSUME NEW e, IsArena(e), \A i \in 1..Len(e) : DOMAIN e[i].args = 1..Arity(e[i])
  PROVE  \A i \in 1..Len(e) : /\ \A m \in Under(e, i) : \E k \in 1..Len(e) : m = e[k]
                              /\ HeadOf(e)[i].shifts => \E m \in Under(e, i) : m.op = "Shift"
<1>0. Len(e) \in Nat
  BY DEF IsArena
<1>1. PICK h, v : h = HeadOf(e) /\ v = NotesOf(e)
  OBVIOUS
<1>2. \A i \in 1..Len(e) : /\ h[i] = HeadNode(e[i], Operands(e, i, h))
                           /\ v[i] = PredicateNode(e[i], Operands(e, i, v))
  BY <1>1, HeadEquation, PredicateEquation
<1> DEFINE Right(i) == /\ \A m \in Under(e, i) : \E k \in 1..Len(e) : m = e[k]
                       /\ h[i].shifts => \E m \in Under(e, i) : m.op = "Shift"
           G == {i \in 1..Len(e) : Right(i)}
<1>3. ASSUME NEW i \in 1..Len(e), \A j \in 1..(i - 1) : Right(j) PROVE Right(i)
  <2>1. PICK n, a, c : n = e[i] /\ a = Operands(e, i, h) /\ c = Operands(e, i, v)
    OBVIOUS
  <2>2. h[i] = HeadNode(n, a) /\ v[i] = PredicateNode(n, c)
    BY <1>2, <2>1
  <2>3. /\ DOMAIN a = 1..Arity(n) /\ DOMAIN c = 1..Arity(n)
        /\ \A j \in 1..Arity(n) : /\ a[j] = h[n.args[j]] /\ c[j] = v[n.args[j]]
                                  /\ n.args[j] \in 1..(i - 1) /\ n.args[j] \in 1..Len(e)
    BY <1>3, <2>1, OperandFacts
  <2>4. Under(e, i) = {n} \cup UNION {Under(e, n.args[j]) : j \in 1..Arity(n)}
    <3>1. v[i].below = UNION {{c[j].node} \cup c[j].below : j \in DOMAIN c}
      BY <2>2 DEF PredicateNode
    <3>2. ASSUME NEW j \in 1..Arity(n) PROVE {c[j].node} \cup c[j].below = Under(e, n.args[j])
      <4>1. v[n.args[j]] = PredicateNode(e[n.args[j]], Operands(e, n.args[j], v))
        BY <1>2, <2>3
      <4>2. v[n.args[j]].node = e[n.args[j]]
        BY <4>1 DEF PredicateNode
      <4>3. QED
        BY <1>1, <2>3, <4>2 DEF Under
    <3>3. QED
      BY <1>1, <2>1, <2>3, <3>1, <3>2 DEF Under
  <2>5. \A m \in Under(e, i) : \E k \in 1..Len(e) : m = e[k]
    BY <1>3, <2>1, <2>3, <2>4
  <2>6. h[i].shifts => \E m \in Under(e, i) : m.op = "Shift"
    <3>1. h[i].shifts = (n.op = "Shift" \/ \E j \in DOMAIN a : a[j].shifts)
      BY <2>2 DEF HeadNode
    <3>2. ASSUME h[i].shifts PROVE \E m \in Under(e, i) : m.op = "Shift"
      <4>1. n.op = "Shift" \/ \E j \in 1..Arity(n) : a[j].shifts
        BY <2>3, <3>1, <3>2
      <4>2. CASE n.op = "Shift"
        BY <2>4, <4>2
      <4>3. ASSUME NEW j \in 1..Arity(n), a[j].shifts PROVE \E m \in Under(e, i) : m.op = "Shift"
        <5>1. PICK m \in Under(e, n.args[j]) : m.op = "Shift"
          BY <1>3, <2>3, <4>3
        <5>2. QED
          BY <2>4, <5>1
      <4>4. QED
        BY <4>1, <4>2, <4>3
    <3>3. QED
      BY <3>2
  <2>8. QED
    BY <2>5, <2>6
<1>4. \A i \in 1..Len(e) : (\A j \in 1..(i - 1) : j \in G) => i \in G
  <2> HIDE DEF Right
  <2>1. QED
    BY <1>3
<1>5. \A i \in 1..Len(e) : i \in G
  <2> HIDE DEF G
  <2>1. QED
    BY <1>0, <1>4, NodeInduction
<1>6. QED
  BY <1>1, <1>5

-----------------------------------------------------------------------------
\* Where there are no nulls, and where each row has those of its columns.

CleanFrame(e, f, H) ==
  \A i \in 1..Len(e) : e[i].op = "Column" => \A r \in 1..H : f[e[i].name].values[r] # Null

\* Two operands lists of the same columns.
LEMMA SameOperands ==
  ASSUME NEW e, IsArena(e), NEW i \in 1..Len(e), DOMAIN e[i].args = 1..Arity(e[i]), NEW g, NEW h,
         \A j \in 1..Arity(e[i]) : g[e[i].args[j]] = h[e[i].args[j]]
  PROVE  Operands(e, i, g) = Operands(e, i, h)
BY DEF Operands

\* A column read, or a literal, where it is not null.
LEMMA LeafValues ==
  ASSUME NEW e, NEW s, NEW f, NEW H, NEW D, Setting(e, s, f, H, D), NEW i \in 1..Len(e),
         e[i].op \in {"Column", "Literal"}, NEW p, p = PolarsOf(e, f)[i], NEW v, v = ValueOf(e, f, s)[i],
         NEW w, w = ValidityOf(e, f, s)[i]
  PROVE  /\ \A r \in 1..H : (w.ok[r] <=> p[r] # Null) /\ (p[r] # Null => v[r] = p[r])
         /\ e[i].op = "Column" => \A r \in 1..H : p[r] = f[e[i].name].values[r]
         /\ e[i].op = "Literal" => \A r \in 1..H : p[r] # Null
         /\ e[i].op = "Column" /\ s[e[i].name] = "F32" =>
              w.val = v /\ \A r \in 1..H : v[r] = IF p[r] = Null THEN NaN ELSE p[r]
         /\ e[i].op = "Literal" => w.val = v
<1>0. IsArena(e) /\ Len(e) \in Nat /\ H \in Nat /\ H = FrameHeight(f)
  BY DEF Setting, IsArena
<1>1. PICK n, a, b, c : n = e[i] /\ a = Operands(e, i, PolarsOf(e, f)) /\ b = Operands(e, i, ValueOf(e, f, s))
                        /\ c = Operands(e, i, ValidityOf(e, f, s))
  OBVIOUS
<1>2. p = PolarsColumn(n, a, f) /\ v = ValueNode(n, b, f, s) /\ w = ValidityNode(n, c, f, s)
  BY <1>0, <1>1, PolarsEquation, ValueEquation, ValidityEquation
<1>3. CASE n.op = "Column"
  <2>1. PICK k, t : k = f[n.name] /\ t = s[n.name]
    OBVIOUS
  <2>2. FrameColumn(k, t, H, D) /\ IsColumn(k.values, H)
    BY <1>1, <1>3, <2>1 DEF Setting, FrameColumn
  <2>3. p = k.values /\ v = Staged(k, t) /\ w.val = Misread(k, t) /\ w.ok = Valid(k)
    BY <1>2, <1>3, <2>1 DEF PolarsColumn, ValueNode, ValidityNode
  <2>4. \A r \in 1..H : v[r] = IF p[r] # Null THEN p[r] ELSE IF t = "F32" THEN NaN ELSE 0
    BY <1>0, <2>2, <2>3, StagedRows
  <2>5. \A r \in 1..H : w.ok[r] <=> p[r] # Null
    BY <1>0, <2>2, <2>3, ValidRows
  <2>6. t = "F32" => w.val = v
    BY <1>0, <2>2, <2>3, MisreadRows
  <2>7. QED
    BY <1>1, <1>3, <2>1, <2>3, <2>4, <2>5, <2>6
<1>4. CASE n.op = "Literal"
  <2>1. p = Broadcast(f, n.value) /\ v = Broadcast(f, n.value) /\ w.val = Broadcast(f, n.value) /\ w.ok = Broadcast(f, TRUE)
    BY <1>2, <1>4 DEF PolarsColumn, ValueNode, ValidityNode
  <2>2. \A r \in 1..H : Broadcast(f, n.value)[r] = n.value /\ Broadcast(f, TRUE)[r] = TRUE
    BY <1>0, BroadcastRows
  <2>3. n.value # Null
    BY <1>1, <1>4 DEF Setting, Admitted, CompareOps, Scans
  <2>4. QED
    BY <1>1, <1>4, <2>1, <2>2, <2>3
<1>5. QED
  BY <1>1, <1>3, <1>4

\* Without nulls in its columns, nor a shift, an expression has the values of Polars, none of them null.
LEMMA CleanNodes ==
  ASSUME NEW e, NEW s, NEW f, NEW H, NEW D, Setting(e, s, f, H, D), CleanFrame(e, f, H)
  PROVE  \A i \in 1..Len(e) : ~HeadOf(e)[i].shifts =>
           /\ ValueOf(e, f, s)[i] = PolarsOf(e, f)[i]
           /\ \A r \in 1..H : PolarsOf(e, f)[i][r] # Null
<1>0. IsArena(e) /\ Len(e) \in Nat /\ H \in Nat /\ H = FrameHeight(f)
  BY DEF Setting, IsArena
<1>1. PICK p, v, d, h : p = PolarsOf(e, f) /\ v = ValueOf(e, f, s) /\ d = DtypeOf(e, s) /\ h = HeadOf(e)
  OBVIOUS
<1>2. \A i \in 1..Len(e) : /\ p[i] = PolarsColumn(e[i], Operands(e, i, p), f)
                           /\ v[i] = ValueNode(e[i], Operands(e, i, v), f, s)
                           /\ h[i] = HeadNode(e[i], Operands(e, i, h))
  BY <1>0, <1>1, PolarsEquation, ValueEquation, HeadEquation
<1>t. \A i \in 1..Len(e) : TypedColumn(p[i], d[i], H, D) /\ IsColumn(v[i], H)
  BY <1>1, NodesTyped, GraphColumns
<1> DEFINE Right(i) == ~h[i].shifts => v[i] = p[i] /\ \A r \in 1..H : p[i][r] # Null
           G == {i \in 1..Len(e) : Right(i)}
<1>3. ASSUME NEW i \in 1..Len(e), \A j \in 1..(i - 1) : Right(j), ~h[i].shifts
      PROVE  v[i] = p[i] /\ \A r \in 1..H : p[i][r] # Null
  <2>1. PICK n, a, b, c, t : /\ n = e[i] /\ a = Operands(e, i, p) /\ b = Operands(e, i, v)
                             /\ c = Operands(e, i, h) /\ t = Operands(e, i, d)
    OBVIOUS
  <2>2. p[i] = PolarsColumn(n, a, f) /\ v[i] = ValueNode(n, b, f, s) /\ h[i] = HeadNode(n, c) /\ Admitted(n, s)
        /\ DOMAIN n.args = 1..Arity(n)
    BY <1>2, <2>1 DEF Setting
  <2>3. CASE n.op \in {"Column", "Literal"}
    <3>1. \A r \in 1..H : p[i][r] # Null
      <4>1. /\ n.op = "Column" => \A r \in 1..H : p[i][r] = f[n.name].values[r]
            /\ n.op = "Literal" => \A r \in 1..H : p[i][r] # Null
        BY <1>1, <2>1, <2>3, LeafValues
      <4>2. QED
        BY <2>1, <2>3, <4>1 DEF CleanFrame
    <3>2. \A r \in 1..H : p[i][r] # Null => v[i][r] = p[i][r]
      BY <1>1, <2>1, <2>3, LeafValues
    <3>3. IsColumn(p[i], H) /\ IsColumn(v[i], H) /\ \A r \in 1..H : v[i][r] = p[i][r]
      BY <1>t, <3>1, <3>2 DEF TypedColumn
    <3>4. QED
      BY <3>1, <3>3, EqualColumns
  <2>4. CASE n.op \notin {"Column", "Literal"}
    <3>1. n.op # "Shift" /\ \A j \in DOMAIN c : ~c[j].shifts
      <4>1. h[i].shifts = (n.op = "Shift" \/ \E j \in DOMAIN c : c[j].shifts)
        BY <2>2 DEF HeadNode
      <4>2. QED
        BY <1>3, <4>1
    <3>2. \A j \in 1..Arity(n) : /\ n.args[j] \in 1..(i - 1) /\ c[j] = h[n.args[j]] /\ j \in DOMAIN c
                                 /\ a[j] = p[n.args[j]]
      <4>1. /\ DOMAIN c = 1..Arity(n)
            /\ \A j \in 1..Arity(n) : n.args[j] \in 1..(i - 1) /\ c[j] = h[n.args[j]]
        BY <1>0, <2>1, <2>2, OperandFacts
      <4>2. \A j \in 1..Arity(n) : a[j] = p[n.args[j]]
        BY <1>0, <2>1, <2>2, OperandFacts
      <4>3. QED
        BY <4>1, <4>2
    <3>3. \A j \in 1..Arity(n) : v[n.args[j]] = p[n.args[j]] /\ \A r \in 1..H : a[j][r] # Null
      BY <1>3, <3>1, <3>2
    <3>4. b = a
      BY <1>0, <2>1, <2>2, <3>3, SameOperands
    <3>5. TypedOperands(n, t, a, H, D)
      <4>1. \A j \in 1..(i - 1) : TypedColumn(p[j], d[j], H, D)
        BY <1>0, <1>t
      <4>2. QED
        BY <1>1, <2>1, <4>1, OperandsTyped
    <3>6. MlxOp(n, a) = PolarsOp(n, a) /\ \A r \in 1..H : PolarsOp(n, a)[r] # Null
      BY <1>0, <2>2, <2>4, <3>1, <3>3, <3>5, CleanNode
    <3>7. v[i] = MlxOp(n, a) /\ p[i] = PolarsOp(n, a)
      BY <2>2, <2>4, <3>4 DEF ValueNode, PolarsColumn
    <3>8. QED
      BY <3>6, <3>7
  <2>5. QED
    BY <2>3, <2>4
<1>4. \A i \in 1..Len(e) : (\A j \in 1..(i - 1) : j \in G) => i \in G
  <2>1. ASSUME NEW i \in 1..Len(e), \A j \in 1..(i - 1) : Right(j) PROVE Right(i)
    BY <1>3, <2>1
  <2> HIDE DEF Right
  <2>2. QED
    BY <2>1
<1>5. \A i \in 1..Len(e) : i \in G
  <2> HIDE DEF G
  <2>1. QED
    BY <1>0, <1>4, NodeInduction
<1>6. QED
  BY <1>1, <1>5

LEMMA NoShiftBelow ==
  ASSUME NEW e, IsArena(e), \A i \in 1..Len(e) : DOMAIN e[i].args = 1..Arity(e[i]), ~HasShift(e)
  PROVE  \A i \in 1..Len(e) : ~HeadOf(e)[i].shifts
<1>1. ASSUME NEW i \in 1..Len(e), HeadOf(e)[i].shifts PROVE FALSE
  <2>1. PICK m \in Under(e, i) : m.op = "Shift"
    BY <1>1, UnderFacts
  <2>2. PICK k \in 1..Len(e) : m = e[k]
    BY <1>1, UnderFacts
  <2>3. QED
    BY <2>1, <2>2 DEF HasShift, Uses, IsArena
<1>2. QED
  BY <1>1

\* The operators of an expression whose nulls go through row by row.
LEMMA ElementwiseOps ==
  ASSUME NEW e, NEW s, IsExpression(e, s), \A i \in 1..Len(e) : Admitted(e[i], s), NullMode(e) = "elementwise"
  PROVE  \A i \in 1..Len(e) : e[i].op \in {"Column", "Literal"} \cup (RowOps \ {"And", "Where"})
<1>0. IsArena(e) /\ Len(e) \in Nat /\ Len(e) >= 1 /\ \A i \in 1..Len(e) : DOMAIN e[i].args = 1..Arity(e[i])
  BY ExpressionIsArena DEF IsArena
<1>1. PICK h : h = ClassOf(e)
  OBVIOUS
<1>2. \A i \in 1..Len(e) : h[i] = Classify(e[i], Operands(e, i, h))
  BY <1>0, <1>1, ClassEquation
<1>3. h[Len(e)].ok /\ ~h[Len(e)].where
  BY <1>1 DEF NullMode, Synthesize, ClassOf
<1> DEFINE S == {i \in 1..Len(e) : h[i].ok /\ ~h[i].where}
<1>4. ASSUME NEW i \in S
      PROVE  e[i].op \notin Scans \cup {"And", "Where", "Shift"} /\ \A j \in DOMAIN e[i].args : e[i].args[j] \in S
  <2>1. PICK n, a : n = e[i] /\ a = Operands(e, i, h)
    OBVIOUS
  <2>2. /\ h[i].where = (n.op \in {"Where", "Shift"} \/ \E j \in DOMAIN a : a[j].where)
        /\ n.op # "Where" => h[i].ok = (n.op \notin Scans \cup {"And"} /\ \A j \in DOMAIN a : a[j].ok)
    <3>1. h[i] = Classify(n, a)
      BY <1>2, <2>1
    <3>2. h[i].where = (n.op \in {"Where", "Shift"} \/ \E j \in DOMAIN a : a[j].where)
      BY <3>1 DEF Classify
    <3>3. ASSUME n.op # "Where" PROVE h[i].ok = (n.op \notin Scans \cup {"And"} /\ \A j \in DOMAIN a : a[j].ok)
      BY <3>1, <3>3 DEF Classify
    <3>4. QED
      BY <3>2, <3>3
  <2>3. n.op \notin {"Where", "Shift"} /\ \A j \in DOMAIN a : ~a[j].where
    BY <1>4, <2>2
  <2>4. n.op \notin Scans \cup {"And"} /\ \A j \in DOMAIN a : a[j].ok
    BY <1>4, <2>2, <2>3
  <2>5. /\ DOMAIN a = 1..Arity(n) /\ DOMAIN n.args = 1..Arity(n)
        /\ \A j \in 1..Arity(n) : a[j] = h[n.args[j]] /\ n.args[j] \in 1..Len(e)
    BY <1>0, <2>1, OperandFacts
  <2>6. QED
    BY <2>1, <2>3, <2>4, <2>5
<1>5. \A i \in 1..Len(e) : i \in S
  <2>1. Len(e) \in S
    BY <1>0, <1>3
  <2>2. \A i \in 1..Len(e) : i \in S => \A j \in DOMAIN e[i].args : e[i].args[j] \in S
    BY <1>4
  <2> HIDE DEF S
  <2>3. QED
    BY <2>1, <2>2, RootReaches
<1>6. ASSUME NEW i \in 1..Len(e) PROVE e[i].op \in {"Column", "Literal"} \cup (RowOps \ {"And", "Where"})
  <2>1. e[i].op \notin Scans \cup {"And", "Where", "Shift"}
    BY <1>4, <1>5
  <2>2. CASE e[i].op \notin {"Column", "Literal"}
    BY <2>1, <2>2, OperatorKinds
  <2>3. QED
    BY <2>1, <2>2
<1>7. QED
  BY <1>6

\* Nodes that work row by row: a row is null in Polars if one of the columns is null in it, and
\* otherwise the graph has its value.
LEMMA ElementwiseNodes ==
  ASSUME NEW e, NEW s, NEW f, NEW H, NEW D, Setting(e, s, f, H, D), IsExpression(e, s),
         NullMode(e) = "elementwise", NEW r \in 1..H
  PROVE  /\ PolarsOf(e, f)[Len(e)][r] # Null <=> \A x \in InputNames(e) : f[x].values[r] # Null
         /\ PolarsOf(e, f)[Len(e)][r] # Null => ValueOf(e, f, s)[Len(e)][r] = PolarsOf(e, f)[Len(e)][r]
<1>0. IsArena(e) /\ Len(e) \in Nat /\ Len(e) >= 1 /\ H \in Nat /\ H = FrameHeight(f)
  BY DEF Setting, IsArena
<1>1. PICK p, v, d : p = PolarsOf(e, f) /\ v = ValueOf(e, f, s) /\ d = DtypeOf(e, s)
  OBVIOUS
<1>2. \A i \in 1..Len(e) : /\ p[i] = PolarsColumn(e[i], Operands(e, i, p), f)
                           /\ v[i] = ValueNode(e[i], Operands(e, i, v), f, s)
                           /\ Admitted(e[i], s) /\ DOMAIN e[i].args = 1..Arity(e[i])
  BY <1>0, <1>1, PolarsEquation, ValueEquation DEF Setting
<1>t. \A i \in 1..Len(e) : TypedColumn(p[i], d[i], H, D) /\ IsColumn(v[i], H)
  BY <1>1, NodesTyped, GraphColumns
<1>o. \A i \in 1..Len(e) : e[i].op \in {"Column", "Literal"} \cup (RowOps \ {"And", "Where"})
  BY <1>2, ElementwiseOps
\* The step of both directions.
<1> DEFINE Here(i) == p[i][r] # Null => v[i][r] = p[i][r]
<1>3. ASSUME NEW i \in 1..Len(e), e[i].op \notin {"Column", "Literal"}, \A j \in 1..(i - 1) : Here(j)
      PROVE  Here(i) /\ (p[i][r] # Null <=> \A j \in DOMAIN e[i].args : p[e[i].args[j]][r] # Null)
  <2>1. PICK n, a, b, t : n = e[i] /\ a = Operands(e, i, p) /\ b = Operands(e, i, v) /\ t = Operands(e, i, d)
    OBVIOUS
  <2>2. p[i] = PolarsOp(n, a) /\ v[i] = MlxOp(n, b) /\ Admitted(n, s) /\ n.op \in RowOps \ {"And", "Where"}
    BY <1>2, <1>3, <1>o, <2>1 DEF PolarsColumn, ValueNode
  <2>3. /\ DOMAIN a = 1..Arity(n)
        /\ \A j \in 1..Arity(n) : n.args[j] \in 1..(i - 1) /\ n.args[j] \in 1..Len(e) /\ a[j] = p[n.args[j]]
    BY <1>0, <1>2, <2>1, OperandFacts
  <2>4. DOMAIN b = 1..Arity(n) /\ \A j \in 1..Arity(n) : b[j] = v[n.args[j]]
    BY <1>0, <1>2, <2>1, OperandFacts
  <2>5. TypedOperands(n, t, a, H, D)
    <3>1. \A j \in 1..(i - 1) : TypedColumn(p[j], d[j], H, D)
      BY <1>0, <1>t
    <3>2. QED
      BY <1>1, <2>1, <3>1, OperandsTyped
  <2>6. OperandColumns(n, b, H)
    BY <1>t, <2>3, <2>4 DEF OperandColumns
  <2>7. \A j \in 1..Arity(n) : a[j][r] # Null => b[j][r] = a[j][r]
    BY <1>3, <2>3, <2>4
  <2>8. /\ PolarsOp(n, a)[r] # Null <=> \A j \in 1..Arity(n) : a[j][r] # Null
        /\ PolarsOp(n, a)[r] # Null => MlxOp(n, b)[r] = PolarsOp(n, a)[r]
    BY <1>0, <2>2, <2>5, <2>6, <2>7, ElementRow
  <2>9. DOMAIN n.args = 1..Arity(n)
    BY <1>2, <2>1
  <2>10. QED
    BY <2>1, <2>2, <2>3, <2>8, <2>9
<1>l. ASSUME NEW i \in 1..Len(e), e[i].op \in {"Column", "Literal"}
      PROVE  /\ Here(i)
             /\ e[i].op = "Column" => p[i][r] = f[e[i].name].values[r]
             /\ e[i].op = "Literal" => p[i][r] # Null
  BY <1>1, <1>l, LeafValues
<1>4. \A i \in 1..Len(e) : Here(i)
  <2> DEFINE G == {i \in 1..Len(e) : Here(i)}
  <2>1. ASSUME NEW i \in 1..Len(e), \A j \in 1..(i - 1) : Here(j) PROVE Here(i)
    <3> HIDE DEF Here
    <3>1. QED
      BY <1>3, <1>l, <2>1
  <2>2. \A i \in 1..Len(e) : (\A j \in 1..(i - 1) : j \in G) => i \in G
    <3> HIDE DEF Here
    <3>1. QED
      BY <2>1
  <2>3. \A i \in 1..Len(e) : i \in G
    <3> HIDE DEF G
    <3>1. QED
      BY <1>0, <2>2, NodeInduction
  <2>4. QED
    BY <2>3
<1>5. ASSUME NEW i \in 1..Len(e), e[i].op \notin {"Column", "Literal"}
      PROVE  p[i][r] # Null <=> \A j \in DOMAIN e[i].args : p[e[i].args[j]][r] # Null
  <2>1. \A j \in 1..(i - 1) : Here(j)
    BY <1>0, <1>4
  <2> HIDE DEF Here
  <2>2. QED
    BY <1>3, <1>5, <2>1
<1>6. ASSUME p[Len(e)][r] # Null, NEW x \in InputNames(e) PROVE f[x].values[r] # Null
  <2> DEFINE S == {i \in 1..Len(e) : p[i][r] # Null}
  <2>1. Len(e) \in S
    BY <1>0, <1>6
  <2>2. ASSUME NEW i \in 1..Len(e), i \in S, NEW j \in DOMAIN e[i].args PROVE e[i].args[j] \in S
    <3>1. e[i].args[j] \in 1..Len(e) /\ Arity(e[i]) # 0
      <4>1. DOMAIN e[i].args = 1..Arity(e[i])
        BY <1>2
      <4>2. QED
        BY <1>0, <2>2, <4>1, OperandFacts
    <3>2. e[i].op \notin {"Column", "Literal"}
      BY <3>1, NodeArity
    <3>3. QED
      BY <1>5, <2>2, <3>1, <3>2
  <2>3. \A i \in 1..Len(e) : i \in S
    <3> HIDE DEF S
    <3>1. QED
      BY <2>1, <2>2, RootReaches
  <2>4. PICK i \in 1..Len(e) : e[i].op = "Column" /\ x = e[i].name
    BY <1>0 DEF InputNames, IsArena
  <2>5. p[i][r] # Null
    BY <2>3
  <2>6. QED
    BY <1>l, <2>4, <2>5
<1>7. ASSUME \A x \in InputNames(e) : f[x].values[r] # Null PROVE p[Len(e)][r] # Null
  <2> DEFINE G == {i \in 1..Len(e) : p[i][r] # Null}
  <2>1. ASSUME NEW i \in 1..Len(e), \A j \in 1..(i - 1) : p[j][r] # Null PROVE p[i][r] # Null
    <3>1. CASE e[i].op = "Column"
      <4>1. e[i].name \in InputNames(e)
        BY <1>0, <3>1 DEF InputNames, IsArena
      <4>2. QED
        BY <1>7, <1>l, <3>1, <4>1
    <3>2. CASE e[i].op = "Literal"
      BY <1>l, <3>2
    <3>3. CASE e[i].op \notin {"Column", "Literal"}
      <4>1. ASSUME NEW j \in DOMAIN e[i].args PROVE e[i].args[j] \in 1..(i - 1)
        <5>1. DOMAIN e[i].args = 1..Arity(e[i])
          BY <1>2
        <5>2. QED
          BY <1>0, <4>1, <5>1, OperandFacts
      <4>2. QED
        BY <1>5, <2>1, <3>3, <4>1
    <3>4. QED
      BY <3>1, <3>2, <3>3
  <2>2. \A i \in 1..Len(e) : (\A j \in 1..(i - 1) : j \in G) => i \in G
    BY <2>1
  <2>3. \A i \in 1..Len(e) : i \in G
    <3> HIDE DEF G
    <3>1. QED
      BY <1>0, <2>2, NodeInduction
  <2>4. QED
    BY <1>0, <2>3
<1>8. p[Len(e)][r] # Null => v[Len(e)][r] = p[Len(e)][r]
  BY <1>0, <1>4
<1>9. QED
  BY <1>1, <1>6, <1>7, <1>8

-----------------------------------------------------------------------------
\* A node above the leaves: its columns, from those of its operands.

Vals(c) == [j \in DOMAIN c |-> c[j].val]

LEMMA InnerNode ==
  ASSUME NEW e, NEW s, NEW f, NEW H, NEW D, Setting(e, s, f, H, D), NEW i \in 1..Len(e),
         e[i].op \notin {"Column", "Literal"},
         NEW p, p = PolarsOf(e, f), NEW v, v = ValueOf(e, f, s), NEW w, w = ValidityOf(e, f, s), NEW d, d = DtypeOf(e, s),
         NEW n, n = e[i], NEW a, a = Operands(e, i, p), NEW b, b = Operands(e, i, v), NEW c, c = Operands(e, i, w),
         NEW t, t = Operands(e, i, d)
  PROVE  /\ p[i] = PolarsOp(n, a) /\ v[i] = MlxOp(n, b) /\ w[i].val = MlxOp(n, Vals(c)) /\ w[i].ok = ValidityNode(n, c, f, s).ok
         /\ d[i] = PolarsNode(n, t, s)
         /\ TypedOperands(n, t, a, H, D) /\ OperandColumns(n, b, H) /\ OperandColumns(n, Vals(c), H)
         /\ DOMAIN n.args = 1..Arity(n) /\ DOMAIN c = 1..Arity(n) /\ ValidOperands(n, c, H)
         /\ \A j \in 1..Arity(n) : /\ n.args[j] \in 1..(i - 1) /\ n.args[j] \in 1..Len(e)
                                   /\ a[j] = p[n.args[j]] /\ b[j] = v[n.args[j]] /\ c[j] = w[n.args[j]]
                                   /\ t[j] = d[n.args[j]]
                                   /\ IsColumn(c[j].val, H) /\ IsColumn(c[j].ok, H)
<1>0. IsArena(e) /\ Len(e) \in Nat /\ H \in Nat /\ H = FrameHeight(f) /\ DOMAIN n.args = 1..Arity(n)
  BY DEF Setting, IsArena
<1>1. /\ p[i] = PolarsColumn(n, a, f) /\ v[i] = ValueNode(n, b, f, s) /\ w[i] = ValidityNode(n, c, f, s)
      /\ d[i] = PolarsNode(n, t, s)
  BY <1>0, PolarsEquation, ValueEquation, ValidityEquation, DtypeEquation
<1>2. p[i] = PolarsOp(n, a) /\ v[i] = MlxOp(n, b) /\ w[i].val = MlxOp(n, Vals(c)) /\ w[i].ok = ValidityNode(n, c, f, s).ok
  BY <1>1 DEF PolarsColumn, ValueNode, ValidityNode, Vals
<1>3. DOMAIN a = 1..Arity(n) /\ \A j \in 1..Arity(n) : /\ n.args[j] \in 1..(i - 1) /\ n.args[j] \in 1..Len(e)
                                                       /\ a[j] = p[n.args[j]]
  BY <1>0, OperandFacts
<1>4. DOMAIN b = 1..Arity(n) /\ \A j \in 1..Arity(n) : b[j] = v[n.args[j]]
  BY <1>0, OperandFacts
<1>5. DOMAIN c = 1..Arity(n) /\ \A j \in 1..Arity(n) : c[j] = w[n.args[j]]
  BY <1>0, OperandFacts
<1>6. \A j \in 1..Arity(n) : t[j] = d[n.args[j]]
  BY <1>0, OperandFacts
<1>7. \A j \in 1..Arity(n) : IsColumn(b[j], H) /\ IsColumn(c[j].val, H) /\ IsColumn(c[j].ok, H)
  BY <1>3, <1>4, <1>5, GraphColumns
<1>8. TypedOperands(n, t, a, H, D)
  <2>1. \A j \in 1..(i - 1) : TypedColumn(p[j], d[j], H, D)
    BY <1>0, NodesTyped
  <2>2. QED
    BY <2>1, OperandsTyped
<1>9. OperandColumns(n, b, H) /\ OperandColumns(n, Vals(c), H)
  BY <1>4, <1>5, <1>7 DEF OperandColumns, Vals
<1>v. ValidOperands(n, c, H)
  BY <1>5, <1>7 DEF ValidOperands
<1>10. QED
  BY <1>0, <1>1, <1>2, <1>3, <1>4, <1>5, <1>6, <1>7, <1>8, <1>9, <1>v

\* A node above columns of floats has the same value in both graphs.
LEMMA FloatNodes ==
  ASSUME NEW e, NEW s, NEW f, NEW H, NEW D, Setting(e, s, f, H, D)
  PROVE  \A i \in 1..Len(e) : (\A m \in Under(e, i) : m.op = "Column" => s[m.name] = "F32") =>
           ValidityOf(e, f, s)[i].val = ValueOf(e, f, s)[i]
<1>0. IsArena(e) /\ Len(e) \in Nat
  BY DEF Setting, IsArena
<1>1. PICK p, v, w, d : p = PolarsOf(e, f) /\ v = ValueOf(e, f, s) /\ w = ValidityOf(e, f, s) /\ d = DtypeOf(e, s)
  OBVIOUS
<1> DEFINE OverFloats(i) == \A m \in Under(e, i) : m.op = "Column" => s[m.name] = "F32"
           Right(i) == OverFloats(i) => w[i].val = v[i]
           G == {i \in 1..Len(e) : Right(i)}
<1>3. ASSUME NEW i \in 1..Len(e), \A j \in 1..(i - 1) : Right(j), OverFloats(i) PROVE w[i].val = v[i]
  <2>1. PICK n : n = e[i]
    OBVIOUS
  <2>2. n \in Under(e, i)
    BY <2>1 DEF Under
  <2>3. CASE n.op \in {"Column", "Literal"}
    <3>1. PICK x, y, z : x = w[i] /\ y = v[i] /\ z = p[i]
      OBVIOUS
    <3>2. n.op = "Column" => s[n.name] = "F32"
      BY <1>3, <2>2
    <3>3. x.val = y
      BY <1>1, <2>1, <2>3, <3>1, <3>2, LeafValues
    <3>4. QED
      BY <3>1, <3>3
  <2>4. CASE n.op \notin {"Column", "Literal"}
    <3>1. PICK a, b, c, t : a = Operands(e, i, p) /\ b = Operands(e, i, v) /\ c = Operands(e, i, w) /\ t = Operands(e, i, d)
      OBVIOUS
    <3>2. /\ v[i] = MlxOp(n, b) /\ w[i].val = MlxOp(n, Vals(c)) /\ OperandColumns(n, b, H)
          /\ DOMAIN n.args = 1..Arity(n) /\ DOMAIN c = 1..Arity(n)
          /\ \A j \in 1..Arity(n) : n.args[j] \in 1..(i - 1) /\ b[j] = v[n.args[j]] /\ c[j] = w[n.args[j]]
      BY <1>1, <2>1, <2>4, <3>1, InnerNode
    <3>3. \A j \in 1..Arity(n) : Under(e, n.args[j]) \subseteq Under(e, i)
      BY <1>0, <2>1, <3>2, NotesFacts DEF Under
    <3>4. \A j \in 1..Arity(n) : c[j].val = b[j]
      BY <1>3, <3>2, <3>3
    <3>5. Vals(c) = b
      <4>1. b = [j \in 1..Arity(n) |-> v[n.args[j]]]
        BY <2>1, <3>1, <3>2 DEF Operands
      <4>2. QED
        BY <3>2, <3>4, <4>1 DEF Vals
    <3>6. QED
      BY <3>2, <3>5
  <2>5. QED
    BY <2>3, <2>4
<1>4. \A i \in 1..Len(e) : (\A j \in 1..(i - 1) : j \in G) => i \in G
  <2>1. ASSUME NEW i \in 1..Len(e), \A j \in 1..(i - 1) : Right(j) PROVE Right(i)
    BY <1>3, <2>1
  <2> HIDE DEF Right
  <2>2. QED
    BY <2>1
<1>5. \A i \in 1..Len(e) : i \in G
  <2> HIDE DEF G
  <2>1. QED
    BY <1>0, <1>4, NodeInduction
<1>6. QED
  BY <1>1, <1>5

\* Additions of columns of floats and of literals: a null is NaN in the graphs.
PlainNode(m, s) == m.op \in {"Literal", "Cast", "Add"} \/ (m.op = "Column" /\ s[m.name] = "F32")

NullsAreNaN(v, p, H) == \A r \in 1..H : v[r] = IF p[r] = Null THEN NaN ELSE p[r]

PlainOperands(n, t, b, a, H) ==
  \A j \in 1..Arity(n) : NullsAreNaN(b[j], a[j], H) /\ (t[j] = "Bool" => \A r \in 1..H : a[j][r] # Null)

LEMMA PlainStep ==
  ASSUME NEW H \in Nat, NEW n, NEW s, Admitted(n, s), n.op \in {"Cast", "Add"}, NEW t, NEW a, NEW b, NEW D,
         TypedOperands(n, t, a, H, D), OperandColumns(n, b, H), PlainOperands(n, t, b, a, H)
  PROVE  NullsAreNaN(MlxOp(n, b), PolarsOp(n, a), H) /\ PolarsNode(n, t, s) # "Bool"
<1>1. n.op \in RowOps /\ n.op \in RowOps \ {"And", "Where"} /\ n.op \notin CompareOps
  BY DEF RowOps, CompareOps
<1>2. WellTyped(n, t) /\ IsColumn(a[1], H) /\ IsColumn(b[1], H) /\ DOMAIN b = 1..Arity(n)
  <2>1. 1 \in 1..Arity(n)
    BY NodeArity
  <2>2. QED
    BY <2>1 DEF TypedOperands, OperandColumns
<1>3. PolarsNode(n, t, s) # "Bool"
  <2>1. CASE n.op = "Cast"
    BY <2>1 DEF PolarsNode, Admitted, CompareOps, Scans
  <2>2. CASE n.op = "Add"
    BY <1>2, <2>2 DEF PolarsNode, WellTyped, CompareOps
  <2>3. QED
    BY <2>1, <2>2
<1>4. ASSUME NEW r \in 1..H
      PROVE  MlxOp(n, b)[r] = IF PolarsOp(n, a)[r] = Null THEN NaN ELSE PolarsOp(n, a)[r]
  <2>1. \A j \in 1..Arity(n) : b[j][r] = IF a[j][r] = Null THEN NaN ELSE a[j][r]
    BY DEF NullsAreNaN, PlainOperands
  <2>2. /\ PolarsOp(n, a)[r] # Null <=> \A j \in 1..Arity(n) : a[j][r] # Null
        /\ PolarsOp(n, a)[r] # Null => MlxOp(n, b)[r] = PolarsOp(n, a)[r]
    <3>1. \A j \in 1..Arity(n) : a[j][r] # Null => b[j][r] = a[j][r]
      BY <2>1
    <3>2. QED
      BY <1>1, <3>1, ElementRow
  <2>3. CASE \A j \in 1..Arity(n) : a[j][r] # Null
    BY <2>2, <2>3
  <2>4. ASSUME NEW j \in 1..Arity(n), a[j][r] = Null PROVE MlxOp(n, b)[r] = NaN
    <3>1. b[j][r] = NaN /\ t[j] # "Bool"
      BY <2>1, <2>4 DEF PlainOperands
    <3>2. MlxOp(n, b)[r] = RowOp(n, Row(b, r), IeeeOrder)
      BY <1>1, <1>2, MlxRows
    <3>3. PICK x : x = Row(b, r)
      OBVIOUS
    <3>4. x[j] = NaN
      BY <1>2, <3>1, <3>3 DEF Row
    <3>5. CASE n.op = "Cast"
      <4>1. j = 1
        BY <2>4, <3>5, NodeArity
      <4>2. n.from # "Bool"
        BY <1>2, <3>1, <3>5, <4>1 DEF WellTyped, CompareOps
      <4>3. RowOp(n, x, IeeeOrder) = AsNumber(n, x[1])
        BY <3>5 DEF RowOp, CompareOps
      <4>4. QED
        BY <3>2, <3>3, <3>4, <4>1, <4>2, <4>3 DEF AsNumber
    <3>6. CASE n.op = "Add"
      <4>1. j = 1 \/ j = 2
        BY <2>4, <3>6, NodeArity
      <4>2. RowOp(n, x, IeeeOrder) = AddNumbers(x[1], x[2])
        BY <3>6 DEF RowOp, CompareOps
      <4>3. QED
        BY <3>2, <3>3, <3>4, <4>1, <4>2 DEF AddNumbers
    <3>7. QED
      BY <3>5, <3>6
  <2>5. QED
    BY <2>2, <2>3, <2>4
<1>5. QED
  BY <1>3, <1>4 DEF NullsAreNaN

LEMMA PlainNodes ==
  ASSUME NEW e, NEW s, NEW f, NEW H, NEW D, Setting(e, s, f, H, D)
  PROVE  \A i \in 1..Len(e) : (\A m \in Under(e, i) : PlainNode(m, s)) =>
           /\ NullsAreNaN(ValueOf(e, f, s)[i], PolarsOf(e, f)[i], H)
           /\ DtypeOf(e, s)[i] = "Bool" => \A r \in 1..H : PolarsOf(e, f)[i][r] # Null
<1>0. IsArena(e) /\ Len(e) \in Nat /\ H \in Nat
  BY DEF Setting, IsArena
<1>1. PICK p, v, w, d : p = PolarsOf(e, f) /\ v = ValueOf(e, f, s) /\ w = ValidityOf(e, f, s) /\ d = DtypeOf(e, s)
  OBVIOUS
<1> DEFINE Plain(i) == \A m \in Under(e, i) : PlainNode(m, s)
           Here(i) == NullsAreNaN(v[i], p[i], H) /\ (d[i] = "Bool" => \A r \in 1..H : p[i][r] # Null)
           Right(i) == Plain(i) => Here(i)
           G == {i \in 1..Len(e) : Right(i)}
<1>3. ASSUME NEW i \in 1..Len(e), \A j \in 1..(i - 1) : Right(j), Plain(i) PROVE Here(i)
  <2>1. PICK n : n = e[i]
    OBVIOUS
  <2>2. PlainNode(n, s)
    BY <1>3, <2>1 DEF Under
  <2>3. CASE n.op \in {"Column", "Literal"}
    <3>1. PICK x, y, z : x = w[i] /\ y = v[i] /\ z = p[i]
      OBVIOUS
    <3>2. CASE n.op = "Column"
      <4>1. s[n.name] = "F32"
        BY <2>2, <3>2 DEF PlainNode
      <4>2. \A r \in 1..H : y[r] = IF z[r] = Null THEN NaN ELSE z[r]
        BY <1>1, <2>1, <3>1, <3>2, <4>1, LeafValues
      <4>3. d[i] = PolarsNode(n, Operands(e, i, d), s)
        BY <1>0, <1>1, <2>1, DtypeEquation
      <4>4. d[i] = "F32"
        BY <3>2, <4>1, <4>3 DEF PolarsNode, CompareOps
      <4>5. QED
        BY <3>1, <4>2, <4>4 DEF NullsAreNaN
    <3>3. CASE n.op = "Literal"
      <4>1. \A r \in 1..H : z[r] # Null
        BY <1>1, <2>1, <3>1, <3>3, LeafValues
      <4>2. \A r \in 1..H : z[r] # Null => y[r] = z[r]
        BY <1>1, <2>1, <2>3, <3>1, LeafValues
      <4>3. QED
        BY <3>1, <4>1, <4>2 DEF NullsAreNaN
    <3>4. QED
      BY <2>3, <3>2, <3>3
  <2>4. CASE n.op \notin {"Column", "Literal"}
    <3>1. PICK a, b, c, t : a = Operands(e, i, p) /\ b = Operands(e, i, v) /\ c = Operands(e, i, w) /\ t = Operands(e, i, d)
      OBVIOUS
    <3>2. /\ p[i] = PolarsOp(n, a) /\ v[i] = MlxOp(n, b) /\ d[i] = PolarsNode(n, t, s)
          /\ TypedOperands(n, t, a, H, D) /\ OperandColumns(n, b, H) /\ DOMAIN n.args = 1..Arity(n)
          /\ \A j \in 1..Arity(n) : n.args[j] \in 1..(i - 1) /\ a[j] = p[n.args[j]] /\ b[j] = v[n.args[j]] /\ t[j] = d[n.args[j]]
      BY <1>1, <2>1, <2>4, <3>1, InnerNode
    <3>3. \A j \in 1..Arity(n) : Under(e, n.args[j]) \subseteq Under(e, i)
      BY <1>0, <2>1, <3>2, NotesFacts DEF Under
    <3>4. \A j \in 1..Arity(n) : Here(n.args[j])
      BY <1>3, <3>2, <3>3
    <3>5. PlainOperands(n, t, b, a, H)
      BY <3>2, <3>4 DEF PlainOperands
    <3>6. n.op \in {"Cast", "Add"} /\ Admitted(n, s)
      BY <2>1, <2>2, <2>4 DEF PlainNode, Setting
    <3>7. NullsAreNaN(MlxOp(n, b), PolarsOp(n, a), H) /\ PolarsNode(n, t, s) # "Bool"
      BY <1>0, <3>2, <3>5, <3>6, PlainStep
    <3>8. QED
      BY <3>2, <3>7
  <2>5. QED
    BY <2>3, <2>4
<1>4. \A i \in 1..Len(e) : (\A j \in 1..(i - 1) : j \in G) => i \in G
  <2>1. ASSUME NEW i \in 1..Len(e), \A j \in 1..(i - 1) : Right(j) PROVE Right(i)
    BY <1>3, <2>1
  <2> HIDE DEF Right
  <2>2. QED
    BY <2>1
<1>5. \A i \in 1..Len(e) : i \in G
  <2> HIDE DEF G
  <2>1. QED
    BY <1>0, <1>4, NodeInduction
<1>6. QED
  BY <1>1, <1>5

-----------------------------------------------------------------------------
\* Predicates.

\* A comparison that is false of NaN, of numbers that are NaN where they are null: true where Polars' is.
LEMMA ComparedNulls ==
  ASSUME NEW H \in Nat, NEW n, NEW s, Admitted(n, s), n.op \in CompareOps, NanSafe(n.op), NEW t, NEW a, NEW b, NEW D,
         TypedOperands(n, t, a, H, D), OperandColumns(n, b, H), PlainOperands(n, t, b, a, H), NEW r \in 1..H
  PROVE  MlxOp(n, b)[r] <=> PolarsOp(n, a)[r] = TRUE
<1>1. n.op \in RowOps /\ n.op \in RowOps \ {"And", "Where"} /\ n.op \notin {"Column", "Literal"} /\ n.op # "Shift"
  BY DEF RowOps, CompareOps
<1>2. Arity(n) = 2
  BY NodeArity
<1>3. IsColumn(b[1], H) /\ DOMAIN b = 1..2
  BY <1>2 DEF OperandColumns
<1>4. \A j \in 1..Arity(n) : b[j][r] = IF a[j][r] = Null THEN NaN ELSE a[j][r]
  BY DEF PlainOperands, NullsAreNaN
<1>5. /\ PolarsOp(n, a)[r] # Null <=> \A j \in 1..Arity(n) : a[j][r] # Null
      /\ PolarsOp(n, a)[r] # Null => MlxOp(n, b)[r] = PolarsOp(n, a)[r]
  <2>1. \A j \in 1..Arity(n) : a[j][r] # Null => b[j][r] = a[j][r]
    BY <1>4
  <2>2. QED
    BY <1>1, <2>1, ElementRow
<1>6. CASE \A j \in 1..Arity(n) : a[j][r] # Null
  <2>1. PolarsOp(n, a)[r] \in Values(PolarsNode(n, t, s), D) \cup {Null}
    BY <1>1, NodeType
  <2>2. PolarsNode(n, t, s) = "Bool"
    BY DEF PolarsNode, CompareOps
  <2>3. PolarsOp(n, a)[r] \in BOOLEAN
    BY <1>5, <1>6, <2>1, <2>2 DEF Values
  <2>4. QED
    BY <1>5, <1>6, <2>3
<1>7. CASE ~\A j \in 1..Arity(n) : a[j][r] # Null
  <2>1. PolarsOp(n, a)[r] = Null
    BY <1>5, <1>7
  <2>2. Null # TRUE
    BY CaseAssumption
  <2>3. MlxOp(n, b)[r] = RowOp(n, Row(b, r), IeeeOrder)
    BY <1>1, <1>3, MlxRows
  <2>4. Row(b, r)[1] = b[1][r] /\ Row(b, r)[2] = b[2][r]
    BY <1>3 DEF Row
  <2>5. RowOp(n, Row(b, r), IeeeOrder) = IeeeOrder(n.op, b[1][r], b[2][r])
    <3>1. PICK x : x = Row(b, r)
      OBVIOUS
    <3>2. RowOp(n, x, IeeeOrder) = IeeeOrder(n.op, x[1], x[2])
      BY DEF RowOp, CompareOps
    <3>3. QED
      BY <2>4, <3>1, <3>2
  <2>6. NaN \in {b[1][r], b[2][r]}
    BY <1>2, <1>4, <1>7
  <2>7. IeeeOrder(n.op, b[1][r], b[2][r]) = (n.op = "Ne")
    BY <2>6 DEF IeeeOrder
  <2>8. n.op # "Ne"
    BY DEF NanSafe
  <2>9. QED
    BY <2>1, <2>2, <2>3, <2>5, <2>7, <2>8
<1>8. QED
  BY <1>6, <1>7

\* What is admitted in predicates that the second graph and the first read alike.
CalmPredicates(e, s, clean) ==
  \A m \in Predicated(e) : /\ m.op # "Shift" /\ (m.op = "Column" => s[m.name] = "F32")
                           /\ clean \/ m.op \notin CompareOps \cup Scans \cup {"And", "Where"}

\* The predicate of a when: both graphs take it to be true where Polars does.
PredicateAgrees(w, v, p, H) == w = v /\ \A r \in 1..H : v[r] <=> p[r] = TRUE

LEMMA PredicateRight ==
  ASSUME NEW e, NEW s, NEW f, NEW H, NEW D, Setting(e, s, f, H, D), NEW clean \in BOOLEAN, CalmPredicates(e, s, clean),
         clean => CleanFrame(e, f, H), NEW k \in 1..Len(e), NotesOf(e)[k].below \subseteq Predicated(e),
         DtypeOf(e, s)[k] = "Bool", clean \/ NanSafe(e[k].op)
  PROVE  PredicateAgrees(ValidityOf(e, f, s)[k].val, ValueOf(e, f, s)[k], PolarsOf(e, f)[k], H)
<1>0. IsArena(e) /\ Len(e) \in Nat /\ H \in Nat /\ DOMAIN e[k].args = 1..Arity(e[k]) /\ Admitted(e[k], s)
      /\ \A i \in 1..Len(e) : DOMAIN e[i].args = 1..Arity(e[i]) /\ Admitted(e[i], s)
  BY DEF Setting, IsArena
<1>1. PICK p, v, w, d : p = PolarsOf(e, f) /\ v = ValueOf(e, f, s) /\ w = ValidityOf(e, f, s) /\ d = DtypeOf(e, s)
  OBVIOUS
<1>2. PICK n : n = e[k]
  OBVIOUS
<1>3. \A r \in 1..H : p[k][r] \in BOOLEAN \cup {Null}
  <2>1. TypedColumn(p[k], d[k], H, D)
    BY <1>1, NodesTyped
  <2>2. QED
    BY <1>1, <2>1 DEF TypedColumn, Values
<1>4. n.op # "Column"
  <2>1. ASSUME n.op = "Column" PROVE FALSE
    <3>1. FrameColumn(f[n.name], s[n.name], H, D)
      BY <1>2, <2>1 DEF Setting
    <3>2. s[n.name] # "Bool"
      BY <3>1 DEF FrameColumn, IntTags
    <3>3. d[k] = PolarsNode(n, Operands(e, k, d), s)
      BY <1>0, <1>1, <1>2, DtypeEquation
    <3>4. d[k] = s[n.name]
      BY <2>1, <3>3 DEF PolarsNode, CompareOps
    <3>5. QED
      BY <1>1, <3>2, <3>4
  <2>2. QED
    BY <2>1
<1>5. w[k].val = v[k]
  <2>1. \A m \in Under(e, k) : m.op = "Column" => s[m.name] = "F32"
    BY <1>2, <1>4 DEF Under, CalmPredicates
  <2>2. QED
    BY <1>1, <2>1, FloatNodes
<1>6. CASE ~clean
  <2>1. n.op \in CompareOps
    BY <1>2, <1>6 DEF NanSafe
  <2>2. n.op \notin {"Column", "Literal"}
    BY <2>1 DEF CompareOps
  <2>3. PICK a, b, c, t : a = Operands(e, k, p) /\ b = Operands(e, k, v) /\ c = Operands(e, k, w) /\ t = Operands(e, k, d)
    OBVIOUS
  <2>4. /\ p[k] = PolarsOp(n, a) /\ v[k] = MlxOp(n, b)
        /\ TypedOperands(n, t, a, H, D) /\ OperandColumns(n, b, H)
        /\ \A j \in 1..Arity(n) : n.args[j] \in 1..Len(e) /\ a[j] = p[n.args[j]] /\ b[j] = v[n.args[j]] /\ t[j] = d[n.args[j]]
    BY <1>1, <1>2, <2>2, <2>3, InnerNode
  <2>5. ASSUME NEW j \in 1..Arity(n), NEW m \in Under(e, n.args[j]) PROVE PlainNode(m, s)
    <3>1. Under(e, n.args[j]) \subseteq NotesOf(e)[k].below
      BY <1>0, <1>2, NotesFacts
    <3>2. m \in Predicated(e)
      BY <2>5, <3>1
    <3>3. m \in Under(e, k)
      BY <2>5, <3>1 DEF Under
    <3>5. PICK i \in 1..Len(e) : m = e[i]
      BY <1>0, <3>3, UnderFacts
    <3>6. Admitted(m, s)
      BY <1>0, <3>5
    <3>7. CASE m.op \in {"Column", "Literal"}
      BY <3>2, <3>7 DEF CalmPredicates, PlainNode
    <3>8. CASE m.op \notin {"Column", "Literal"}
      <4>1. m.op \in RowOps \cup Scans \cup {"Shift"}
        BY <3>6, <3>8, OperatorKinds
      <4>2. m.op # "Shift" /\ m.op \notin CompareOps \cup Scans \cup {"And", "Where"}
        BY <1>6, <3>2 DEF CalmPredicates
      <4>3. QED
        BY <4>1, <4>2 DEF RowOps, PlainNode
    <3>9. QED
      BY <3>7, <3>8
  <2>6. PlainOperands(n, t, b, a, H)
    <3>1. ASSUME NEW j \in 1..Arity(n)
          PROVE  NullsAreNaN(v[n.args[j]], p[n.args[j]], H) /\ (d[n.args[j]] = "Bool" => \A r \in 1..H : p[n.args[j]][r] # Null)
      BY <1>1, <2>4, <2>5, PlainNodes
    <3>2. QED
      BY <2>4, <3>1 DEF PlainOperands
  <2>7. \A r \in 1..H : MlxOp(n, b)[r] <=> PolarsOp(n, a)[r] = TRUE
    BY <1>0, <1>2, <1>6, <2>1, <2>4, <2>6, ComparedNulls
  <2>8. QED
    BY <1>1, <1>5, <2>4, <2>7 DEF PredicateAgrees
<1>7. CASE clean /\ ~HeadOf(e)[k].shifts
  <2>1. v[k] = p[k] /\ \A r \in 1..H : p[k][r] # Null
    BY <1>1, <1>7, CleanNodes
  <2>2. QED
    BY <1>1, <1>3, <1>5, <2>1 DEF PredicateAgrees
<1>8. CASE clean /\ HeadOf(e)[k].shifts
  <2>1. PICK h, q : h = HeadOf(e) /\ q = Operands(e, k, h)
    OBVIOUS
  <2>2. h[k] = HeadNode(n, q)
    BY <1>0, <1>2, <2>1, HeadEquation
  <2>3. DOMAIN q = 1..Arity(n) /\ \A j \in 1..Arity(n) : q[j] = h[n.args[j]] /\ n.args[j] \in 1..Len(e)
    BY <1>0, <1>2, <2>1, OperandFacts
  <2>4. ASSUME NEW j \in 1..Arity(n) PROVE ~h[n.args[j]].shifts
    <3>1. ASSUME h[n.args[j]].shifts PROVE FALSE
      <4>1. PICK m \in Under(e, n.args[j]) : m.op = "Shift"
        BY <1>0, <2>1, <2>3, <3>1, UnderFacts
      <4>2. Under(e, n.args[j]) \subseteq NotesOf(e)[k].below
        BY <1>0, <1>2, NotesFacts
      <4>3. QED
        BY <4>1, <4>2 DEF CalmPredicates
    <3>2. QED
      BY <3>1
  <2>5. n.op = "Shift"
    <3>1. h[k].shifts = (n.op = "Shift" \/ \E j \in DOMAIN q : q[j].shifts)
      BY <2>2 DEF HeadNode
    <3>2. QED
      BY <1>8, <2>1, <2>3, <2>4, <3>1
  <2>6. 1 \in 1..Arity(n) /\ n.offset \in Nat
    BY <1>2, <2>5, NodeArity DEF Setting
  <2>7. PICK a, b, c, t : a = Operands(e, k, p) /\ b = Operands(e, k, v) /\ c = Operands(e, k, w) /\ t = Operands(e, k, d)
    OBVIOUS
  <2>8. /\ p[k] = PolarsOp(n, a) /\ v[k] = MlxOp(n, b) /\ d[k] = PolarsNode(n, t, s)
        /\ TypedOperands(n, t, a, H, D) /\ OperandColumns(n, b, H)
        /\ n.args[1] \in 1..Len(e) /\ a[1] = p[n.args[1]] /\ b[1] = v[n.args[1]] /\ t[1] = d[n.args[1]]
    <3>1. n.op \notin {"Column", "Literal"}
      BY <2>5
    <3>2. QED
      BY <1>1, <1>2, <2>6, <2>7, <3>1, InnerNode
  <2>9. b[1] = a[1] /\ \A r \in 1..H : a[1][r] # Null
    BY <1>1, <1>8, <2>1, <2>4, <2>6, <2>8, CleanNodes
  <2>10. t[1] = "Bool"
    BY <1>1, <2>5, <2>8 DEF PolarsNode, CompareOps
  <2>11. n.from = "Bool"
    BY <2>5, <2>8, <2>10 DEF TypedOperands, WellTyped, CompareOps
  <2>12. PICK u, o : u = a[1] /\ o = n.offset
    OBVIOUS
  <2>13. IsColumn(u, H) /\ o \in Nat /\ \A r \in 1..H : u[r] \in BOOLEAN
    <3>1. IsColumn(a[1], H) /\ \A r \in 1..H : a[1][r] \in Values(t[1], D) \cup {Null}
      BY <2>6, <2>8 DEF TypedOperands, OperandColumns
    <3>2. QED
      BY <2>6, <2>9, <2>10, <2>12, <3>1 DEF Values
  <2>14. /\ \A r \in 1..H : Shifted(u, o, FALSE)[r] = IF r > o THEN u[r - o] ELSE FALSE
         /\ \A r \in 1..H : Shifted(u, o, Null)[r] = IF r > o THEN u[r - o] ELSE Null
    <3>1. PICK x, y : x = FALSE /\ y = Null
      OBVIOUS
    <3>2. \A r \in 1..H : Shifted(u, o, x)[r] = IF r > o THEN u[r - o] ELSE x
      BY <1>0, <2>13, ShiftedRows
    <3>3. \A r \in 1..H : Shifted(u, o, y)[r] = IF r > o THEN u[r - o] ELSE y
      BY <1>0, <2>13, ShiftedRows
    <3>4. \A r \in 1..H : Shifted(u, o, FALSE)[r] = IF r > o THEN u[r - o] ELSE FALSE
      BY <3>1, <3>2
    <3>5. \A r \in 1..H : Shifted(u, o, Null)[r] = IF r > o THEN u[r - o] ELSE Null
      BY <3>1, <3>3
    <3>6. QED
      BY <3>4, <3>5
  <2>15. v[k] = Shifted(u, o, FALSE) /\ p[k] = Shifted(u, o, Null)
    BY <2>5, <2>8, <2>9, <2>11, <2>12 DEF MlxOp, PolarsOp, Scans
  <2>16. ASSUME NEW r \in 1..H PROVE v[k][r] <=> p[k][r] = TRUE
    <3>1. CASE r > o
      <4>1. r - o \in 1..H
        BY <1>0, <2>13, <3>1
      <4>2. u[r - o] \in BOOLEAN
        BY <2>13, <4>1
      <4>3. v[k][r] = u[r - o] /\ p[k][r] = u[r - o]
        BY <2>14, <2>15, <3>1
      <4>4. QED
        BY <4>2, <4>3
    <3>2. CASE ~(r > o)
      <4>1. Null # TRUE
        BY CaseAssumption
      <4>2. v[k][r] = FALSE /\ p[k][r] = Null
        BY <2>14, <2>15, <3>2
      <4>3. QED
        BY <4>1, <4>2
    <3>3. QED
      BY <3>1, <3>2
  <2>17. QED
    BY <1>1, <1>5, <2>16 DEF PredicateAgrees
<1>9. QED
  BY <1>6, <1>7, <1>8

-----------------------------------------------------------------------------
\* The nodes that the second graph has validities for.

Masks(e, i, clean) ==
  /\ MaskOf(e, clean)[i] /\ NotesOf(e)[i].cond \subseteq Predicated(e)
  /\ IF clean THEN ~HeadOf(e)[i].found ELSE ClassOf(e)[i].ok

\* Below one of them there are others.
LEMMA MaskSteps ==
  ASSUME NEW e, IsArena(e), NEW i \in 1..Len(e), NEW n, n = e[i], DOMAIN n.args = 1..Arity(n), NEW clean \in BOOLEAN,
         Masks(e, i, clean)
  PROVE  /\ n.op # "And" /\ (n.op \in Scans => clean)
         /\ n.op # "Where" => \A j \in 1..Arity(n) : Masks(e, n.args[j], clean)
         /\ n.op = "Where" => /\ Masks(e, n.args[2], clean) /\ Masks(e, n.args[3], clean)
                              /\ clean \/ NanSafe(e[n.args[1]].op)
                              /\ NotesOf(e)[n.args[1]].below \subseteq Predicated(e)
         /\ n.op = "CumMax" => ~HeadOf(e)[n.args[1]].shifts
         /\ n.op = "CumSum" /\ HeadOf(e)[n.args[1]].shifts =>
              e[n.args[1]].op = "Shift" /\ ~HeadOf(e)[n.args[1]].lower
<1>1. PICK q, h, c : q = MaskOf(e, clean) /\ h = HeadOf(e) /\ c = ClassOf(e)
  OBVIOUS
<1>2. PICK qa, ha, ca : qa = Operands(e, i, q) /\ ha = Operands(e, i, h) /\ ca = Operands(e, i, c)
  OBVIOUS
<1>3. q[i] = HasMask(n, qa, clean) /\ h[i] = HeadNode(n, ha) /\ c[i] = Classify(n, ca)
  BY <1>1, <1>2, MaskEquation, HeadEquation, ClassEquation
<1>4. DOMAIN qa = 1..Arity(n) /\ \A j \in 1..Arity(n) : qa[j] = q[n.args[j]] /\ n.args[j] \in 1..Len(e)
  BY <1>2, OperandFacts
<1>5. DOMAIN ha = 1..Arity(n) /\ \A j \in 1..Arity(n) : ha[j] = h[n.args[j]]
  BY <1>2, OperandFacts
<1>6. DOMAIN ca = 1..Arity(n) /\ \A j \in 1..Arity(n) : ca[j] = c[n.args[j]]
  BY <1>2, OperandFacts
<1>7. q[i] /\ NotesOf(e)[i].cond \subseteq Predicated(e) /\ (clean => ~h[i].found) /\ (~clean => c[i].ok)
  BY <1>1 DEF Masks
\* What is found below a node is found at the node.
<1>8. ASSUME clean
      PROVE  /\ \A j \in 1..Arity(n) : ~h[n.args[j]].found
             /\ ~(n.op = "CumMax" /\ ha[1].shifts)
             /\ ~(n.op = "CumSum" /\ ha[1].shifts /\ (ha[1].op # "Shift" \/ ha[1].lower))
  <2>1. h[i].found = (\/ \E j \in DOMAIN ha : ha[j].found
                      \/ n.op = "CumMax" /\ ha[1].shifts
                      \/ n.op = "CumSum" /\ ha[1].shifts /\ (ha[1].op # "Shift" \/ ha[1].lower))
    BY <1>3 DEF HeadNode
  <2>2. /\ ~\E j \in DOMAIN ha : ha[j].found
        /\ ~(n.op = "CumMax" /\ ha[1].shifts)
        /\ ~(n.op = "CumSum" /\ ha[1].shifts /\ (ha[1].op # "Shift" \/ ha[1].lower))
    BY <1>7, <1>8, <2>1
  <2>3. QED
    BY <1>5, <2>2
<1>n. \A k \in 1..Len(e) : h[k].op = e[k].op /\ c[k].op = e[k].op
  <2>1. ASSUME NEW k \in 1..Len(e) PROVE h[k].op = e[k].op /\ c[k].op = e[k].op
    <3>1. h[k] = HeadNode(e[k], Operands(e, k, h)) /\ c[k] = Classify(e[k], Operands(e, k, c))
      BY <1>1, HeadEquation, ClassEquation
    <3>2. QED
      BY <3>1 DEF HeadNode, Classify
  <2>2. QED
    BY <2>1
<1>9. CASE n.op = "Where"
  <2>1. Arity(n) = 3
    BY <1>9, NodeArity
  <2>2. qa[2] /\ qa[3]
    <3>1. \A j \in DOMAIN qa : qa[j] \/ (n.op = "Where" /\ j = 1)
      BY <1>3, <1>7 DEF HasMask
    <3>2. 2 \in DOMAIN qa /\ 3 \in DOMAIN qa
      BY <1>4, <2>1
    <3>3. QED
      BY <3>1, <3>2
  <2>3. ~clean => NanSafe(ca[1].op) /\ ca[2].ok /\ ca[3].ok
    <3>1. c[i].ok = (NanSafe(ca[1].op) /\ ca[2].ok /\ ca[3].ok)
      BY <1>3, <1>9 DEF Classify
    <3>2. QED
      BY <1>7, <3>1
  <2>4. /\ NotesOf(e)[n.args[1]].below \subseteq NotesOf(e)[i].cond
        /\ NotesOf(e)[n.args[2]].cond \subseteq NotesOf(e)[i].cond
        /\ NotesOf(e)[n.args[3]].cond \subseteq NotesOf(e)[i].cond
    BY <1>9, NotesFacts
  <2>5. ASSUME NEW j \in {2, 3} PROVE Masks(e, n.args[j], clean)
    <3>1. q[n.args[j]]
      BY <1>4, <2>1, <2>2
    <3>2. NotesOf(e)[n.args[j]].cond \subseteq Predicated(e)
      BY <1>7, <2>4
    <3>3. clean => ~h[n.args[j]].found
      BY <1>8, <2>1
    <3>4. ~clean => c[n.args[j]].ok
      BY <1>6, <2>1, <2>3
    <3>5. QED
      BY <1>1, <3>1, <3>2, <3>3, <3>4 DEF Masks
  <2>6. clean \/ NanSafe(e[n.args[1]].op)
    BY <1>1, <1>4, <1>6, <1>n, <2>1, <2>3
  <2>7. n.op # "And" /\ n.op \notin Scans /\ n.op # "CumMax" /\ n.op # "CumSum"
    BY <1>9 DEF Scans
  <2>8. NotesOf(e)[n.args[1]].below \subseteq Predicated(e)
    BY <1>7, <2>4
  <2>9. QED
    BY <1>9, <2>5, <2>6, <2>7, <2>8
<1>10. CASE n.op # "Where"
  <2>1. n.op # "And" /\ (n.op \in Scans => clean) /\ \A j \in DOMAIN qa : qa[j]
    BY <1>3, <1>7, <1>10 DEF HasMask
  <2>2. ~clean => \A j \in DOMAIN ca : ca[j].ok
    <3>1. c[i].ok = (n.op \notin Scans \cup {"And"} /\ \A j \in DOMAIN ca : ca[j].ok)
      BY <1>3, <1>10 DEF Classify
    <3>2. QED
      BY <1>7, <3>1
  <2>3. \A j \in 1..Arity(n) : NotesOf(e)[n.args[j]].cond \subseteq NotesOf(e)[i].cond
    BY <1>10, NotesFacts
  <2>4. ASSUME NEW j \in 1..Arity(n) PROVE Masks(e, n.args[j], clean)
    <3>1. q[n.args[j]]
      BY <1>4, <2>1
    <3>2. NotesOf(e)[n.args[j]].cond \subseteq Predicated(e)
      BY <1>7, <2>3
    <3>3. clean => ~h[n.args[j]].found
      BY <1>8
    <3>4. ~clean => c[n.args[j]].ok
      BY <1>6, <2>2
    <3>5. QED
      BY <1>1, <3>1, <3>2, <3>3, <3>4 DEF Masks
  <2>5. n.op \in {"CumMax", "CumSum"} => clean /\ 1 \in 1..Arity(n)
    BY <2>1, NodeArity DEF Scans
  <2>6. n.op \in {"CumMax", "CumSum"} => ha[1] = h[n.args[1]] /\ h[n.args[1]].op = e[n.args[1]].op
    BY <1>4, <1>5, <1>n, <2>5
  <2>7. n.op = "CumMax" => ~h[n.args[1]].shifts
    BY <1>8, <2>5, <2>6
  <2>8. n.op = "CumSum" /\ h[n.args[1]].shifts => e[n.args[1]].op = "Shift" /\ ~h[n.args[1]].lower
    BY <1>8, <2>5, <2>6
  <2>9. QED
    BY <1>1, <1>10, <2>1, <2>4, <2>7, <2>8
<1>11. QED
  BY <1>9, <1>10

\* The validity ok is that of the column p of Polars, whose values the column v has where there are any.
RightColumn(ok, v, p, H) == \A r \in 1..H : (ok[r] <=> p[r] # Null) /\ (p[r] # Null => v[r] = p[r])

RightOperands(n, c, b, a, H) == \A j \in 1..Arity(n) : RightColumn(c[j].ok, b[j], a[j], H)

LEMMA MaskedRows ==
  ASSUME NEW H \in Nat, NEW n, NEW s, Admitted(n, s), n.op \in RowOps \ {"And", "Where"}, NEW f, NEW t, NEW a, NEW b, NEW D,
         TypedOperands(n, t, a, H, D), OperandColumns(n, b, H),
         NEW c, ValidOperands(n, c, H),
         RightOperands(n, c, b, a, H), NEW ok, ok = ValidityNode(n, c, f, s).ok
  PROVE  RightColumn(ok, MlxOp(n, b), PolarsOp(n, a), H)
<1>1. n.op \notin {"Column", "Literal", "Where", "Shift"}
  BY OperatorsDiffer
<1>2. \A r \in 1..H : ok[r] = \A j \in 1..Arity(n) : c[j].ok[r]
  <2>1. OkColumn(ok, n, c, H)
    BY <1>1, OkRows
  <2>2. QED
    BY <1>1, <2>1 DEF OkColumn
<1>3. ASSUME NEW r \in 1..H
      PROVE  (ok[r] <=> PolarsOp(n, a)[r] # Null) /\ (PolarsOp(n, a)[r] # Null => MlxOp(n, b)[r] = PolarsOp(n, a)[r])
  <2>1. \A j \in 1..Arity(n) : (c[j].ok[r] <=> a[j][r] # Null) /\ (a[j][r] # Null => b[j][r] = a[j][r])
    BY DEF RightOperands, RightColumn
  <2>2. /\ PolarsOp(n, a)[r] # Null <=> \A j \in 1..Arity(n) : a[j][r] # Null
        /\ PolarsOp(n, a)[r] # Null => MlxOp(n, b)[r] = PolarsOp(n, a)[r]
    BY <2>1, ElementRow
  <2>3. ok[r] = \A j \in 1..Arity(n) : c[j].ok[r]
    BY <1>2
  <2>4. QED
    BY <2>1, <2>2, <2>3
<1>4. QED
  BY <1>3 DEF RightColumn

LEMMA MaskedShift ==
  ASSUME NEW H \in Nat, NEW n, NEW s, Admitted(n, s), n.op = "Shift", n.offset \in Nat, NEW f, NEW a, NEW b,
         IsColumn(a[1], H), IsColumn(b[1], H),
         NEW c, ValidOperands(n, c, H),
         RightOperands(n, c, b, a, H), NEW ok, ok = ValidityNode(n, c, f, s).ok
  PROVE  RightColumn(ok, MlxOp(n, b), PolarsOp(n, a), H)
<1>1. 1 \in 1..Arity(n) /\ n.op \notin {"Column", "Literal"}
  BY NodeArity
<1>2. \A r \in 1..H : ok[r] = IF r > n.offset THEN c[1].ok[r - n.offset] ELSE FALSE
  <2>1. OkColumn(ok, n, c, H)
    BY <1>1, OkRows
  <2>2. QED
    BY <2>1 DEF OkColumn
<1>3. PICK w, x, y, fill, k : w = n.offset /\ x = a[1] /\ y = b[1] /\ fill = (IF n.from = "Bool" THEN FALSE ELSE 0) /\ k = c[1].ok
  OBVIOUS
<1>4. w \in Nat /\ IsColumn(x, H) /\ IsColumn(y, H)
  BY <1>3
<1>5. \A r \in 1..H : Shifted(x, w, Null)[r] = IF r > w THEN x[r - w] ELSE Null
  <2>1. PICK z : z = Null
    OBVIOUS
  <2>2. \A r \in 1..H : Shifted(x, w, z)[r] = IF r > w THEN x[r - w] ELSE z
    BY <1>4, ShiftedRows
  <2>3. QED
    BY <2>1, <2>2
<1>6. \A r \in 1..H : Shifted(y, w, fill)[r] = IF r > w THEN y[r - w] ELSE fill
  BY <1>4, ShiftedRows
<1>7. MlxOp(n, b) = Shifted(y, w, fill) /\ PolarsOp(n, a) = Shifted(x, w, Null)
  BY <1>3 DEF MlxOp, PolarsOp, Scans
<1>8. RightColumn(k, y, x, H)
  BY <1>1, <1>3 DEF RightOperands
<1>9. ASSUME NEW r \in 1..H
      PROVE  (ok[r] <=> PolarsOp(n, a)[r] # Null) /\ (PolarsOp(n, a)[r] # Null => MlxOp(n, b)[r] = PolarsOp(n, a)[r])
  <2>1. CASE r > w
    <3>1. r - w \in 1..H
      BY <1>4, <2>1
    <3>2. (k[r - w] <=> x[r - w] # Null) /\ (x[r - w] # Null => y[r - w] = x[r - w])
      BY <1>8, <3>1 DEF RightColumn
    <3>3. ok[r] = k[r - w] /\ PolarsOp(n, a)[r] = x[r - w] /\ MlxOp(n, b)[r] = y[r - w]
      BY <1>2, <1>3, <1>5, <1>6, <1>7, <2>1
    <3>4. QED
      BY <3>2, <3>3
  <2>2. CASE ~(r > w)
    <3>1. ok[r] = FALSE /\ PolarsOp(n, a)[r] = Null
      BY <1>2, <1>3, <1>5, <1>7, <2>2
    <3>2. QED
      BY <3>1
  <2>3. QED
    BY <2>1, <2>2
<1>10. QED
  BY <1>9 DEF RightColumn

LEMMA MaskedWhere ==
  ASSUME NEW H \in Nat, NEW n, NEW s, Admitted(n, s), n.op = "Where", NEW f, NEW a, NEW b,
         IsColumn(a[1], H), IsColumn(b[1], H), DOMAIN a = 1..3, DOMAIN b = 1..3,
         NEW c, ValidOperands(n, c, H),
         c[1].val = b[1], \A r \in 1..H : b[1][r] <=> a[1][r] = TRUE,
         RightColumn(c[2].ok, b[2], a[2], H), RightColumn(c[3].ok, b[3], a[3], H), NEW ok, ok = ValidityNode(n, c, f, s).ok
  PROVE  RightColumn(ok, MlxOp(n, b), PolarsOp(n, a), H)
<1>1. n.op \in RowOps /\ n.op \notin {"Column", "Literal"}
  BY DEF RowOps
<1>2. \A r \in 1..H : ok[r] = IF c[1].val[r] THEN c[2].ok[r] ELSE c[3].ok[r]
  <2>1. OkColumn(ok, n, c, H)
    BY <1>1, OkRows
  <2>2. QED
    BY <2>1 DEF OkColumn
<1>3. ASSUME NEW r \in 1..H
      PROVE  (ok[r] <=> PolarsOp(n, a)[r] # Null) /\ (PolarsOp(n, a)[r] # Null => MlxOp(n, b)[r] = PolarsOp(n, a)[r])
  <2>1. PICK x, y : x = Row(a, r) /\ y = Row(b, r)
    OBVIOUS
  <2>2. x[1] = a[1][r] /\ x[2] = a[2][r] /\ x[3] = a[3][r] /\ y[1] = b[1][r] /\ y[2] = b[2][r] /\ y[3] = b[3][r]
    BY <2>1 DEF Row
  <2>3. PolarsOp(n, a)[r] = PolarsRow(n, x)
    BY <1>1, <2>1, PolarsRows
  <2>4. MlxOp(n, b)[r] = RowOp(n, y, IeeeOrder)
    BY <1>1, <2>1, MlxRows
  <2>5. PolarsRow(n, x) = IF x[1] = TRUE THEN x[2] ELSE x[3]
    BY DEF PolarsRow
  <2>6. RowOp(n, y, IeeeOrder) = IF y[1] THEN y[2] ELSE y[3]
    BY DEF RowOp, CompareOps
  <2>7. ok[r] = IF c[1].val[r] THEN c[2].ok[r] ELSE c[3].ok[r]
    BY <1>2
  <2>8. /\ (c[2].ok[r] <=> a[2][r] # Null) /\ (a[2][r] # Null => b[2][r] = a[2][r])
        /\ (c[3].ok[r] <=> a[3][r] # Null) /\ (a[3][r] # Null => b[3][r] = a[3][r])
    BY DEF RightColumn
  <2>9. CASE a[1][r] = TRUE
    <3>1. b[1][r]
      BY <2>9
    <3>2. ok[r] = c[2].ok[r]
      BY <2>7, <3>1
    <3>3. PolarsOp(n, a)[r] = a[2][r] /\ MlxOp(n, b)[r] = b[2][r]
      BY <2>2, <2>3, <2>4, <2>5, <2>6, <2>9, <3>1
    <3>4. QED
      BY <2>8, <3>2, <3>3
  <2>10. CASE a[1][r] # TRUE
    <3>1. ~b[1][r]
      BY <2>10
    <3>2. ok[r] = c[3].ok[r]
      BY <2>7, <3>1
    <3>3. PolarsOp(n, a)[r] = a[3][r] /\ MlxOp(n, b)[r] = b[3][r]
      BY <2>2, <2>3, <2>4, <2>5, <2>6, <2>10, <3>1
    <3>4. QED
      BY <2>8, <3>2, <3>3
  <2>11. QED
    BY <2>9, <2>10
<1>4. QED
  BY <1>3 DEF RightColumn

\* The operand of a scan: w nulls that the graph counts as zeros, and then what Polars has.
HeadedOperand(n, v, p, w, H) ==
  \A r \in 1..H : IF r > w THEN p[r] # Null /\ v[r] = p[r] ELSE p[r] = Null /\ AsNumber(n, v[r]) = 0

SummandColumn(q, n, v, H) ==
  IsColumn(q, H) /\ \A r \in 1..H : q[r] = IF n.op = "CumMax" THEN v[r] ELSE AsNumber(n, v[r])

LEMMA SummandsOf ==
  ASSUME NEW H \in Nat, NEW v, IsColumn(v, H), NEW n, NEW q, q = Summands(n, v)
  PROVE  SummandColumn(q, n, v, H)
BY SummandRows DEF SummandColumn

LEMMA MaskedScan ==
  ASSUME NEW H \in Nat, NEW n, NEW s, Admitted(n, s), n.op \in Scans, NEW f, NEW t, NEW a, NEW b, NEW D,
         TypedOperands(n, t, a, H, D), OperandColumns(n, b, H),
         NEW w \in Nat, w = 0 \/ n.op # "CumMax", HeadedOperand(n, b[1], a[1], w, H),
         NEW c, ValidOperands(n, c, H), RightOperands(n, c, b, a, H), NEW ok, ok = ValidityNode(n, c, f, s).ok
  PROVE  RightColumn(ok, MlxOp(n, b), PolarsOp(n, a), H)
<1>1. n.op \notin {"Column", "Literal", "Where", "Shift"} /\ n.op \in Scans /\ Arity(n) = 1
  BY NodeArity DEF Scans
<1>2. IsColumn(a[1], H) /\ IsColumn(b[1], H) /\ D \in {Int, Int \cup {NaN}}
  BY <1>1 DEF OperandColumns, TypedOperands, NumbersFor
<1>3. PICK q, u, op : q = Summands(n, a[1]) /\ u = Summands(n, b[1]) /\ op = n.op
  OBVIOUS
<1>4. IsColumn(q, H) /\ \A r \in 1..H : q[r] \in D \cup {Null} /\ (q[r] = Null <=> a[1][r] = Null)
  BY <1>1, <1>3, SummandTypes
<1>5. \A r \in 1..H : q[r] = IF op = "CumMax" THEN a[1][r] ELSE AsNumber(n, a[1][r])
  <2>1. SummandColumn(q, n, a[1], H)
    BY <1>2, <1>3, SummandsOf
  <2>2. QED
    BY <1>3, <2>1 DEF SummandColumn
<1>6. IsColumn(u, H) /\ \A r \in 1..H : u[r] = IF op = "CumMax" THEN b[1][r] ELSE AsNumber(n, b[1][r])
  <2>1. SummandColumn(u, n, b[1], H)
    BY <1>2, <1>3, SummandsOf
  <2>2. QED
    BY <1>3, <2>1 DEF SummandColumn
<1>7. ASSUME NEW r \in 1..H PROVE IF r > w THEN u[r] = q[r] /\ u[r] \in D ELSE q[r] = Null /\ u[r] = 0
  <2>1. IF r > w THEN a[1][r] # Null /\ b[1][r] = a[1][r] ELSE a[1][r] = Null /\ AsNumber(n, b[1][r]) = 0
    BY DEF HeadedOperand
  <2>2. CASE r > w
    BY <1>4, <1>5, <1>6, <2>1, <2>2
  <2>3. CASE ~(r > w)
    <3>1. op # "CumMax"
      BY <1>3, <2>3
    <3>2. QED
      BY <1>4, <1>6, <2>1, <2>3, <3>1
  <2>4. QED
    BY <2>2, <2>3
<1>8. Headed(q, u, w, H, D)
  BY <1>7 DEF Headed
<1>9. PICK total, run : total = Accumulation(op, q) /\ run = Running(op, u)
  OBVIOUS
<1>10. Headed(total, run, w, H, D)
  BY <1>2, <1>3, <1>4, <1>6, <1>8, <1>9, RunsAgree
<1>11. \A r \in 1..H : PolarsOp(n, a)[r] = IF q[r] = Null THEN Null ELSE total[r]
  BY <1>2, <1>3, <1>9, PolarsScanRows
<1>12. MlxOp(n, b) = run
  BY <1>2, <1>3, <1>9, MlxScanRows
<1>13. \A r \in 1..H : ok[r] <=> a[1][r] # Null
  <2>1. OkColumn(ok, n, c, H)
    BY <1>1, OkRows
  <2>2. \A r \in 1..H : ok[r] = \A j \in 1..1 : c[j].ok[r]
    BY <1>1, <2>1 DEF OkColumn
  <2>3. \A r \in 1..H : c[1].ok[r] <=> a[1][r] # Null
    BY <1>1 DEF RightOperands, RightColumn
  <2>4. ASSUME NEW r \in 1..H PROVE ok[r] <=> a[1][r] # Null
    <3>1. (\A j \in 1..1 : c[j].ok[r]) <=> c[1].ok[r]
      OBVIOUS
    <3>2. ok[r] = (\A j \in 1..1 : c[j].ok[r])
      BY <2>2
    <3>3. c[1].ok[r] <=> a[1][r] # Null
      BY <2>3
    <3>4. QED
      BY <3>1, <3>2, <3>3
  <2>5. QED
    BY <2>4
<1>14. ASSUME NEW r \in 1..H
       PROVE  (ok[r] <=> PolarsOp(n, a)[r] # Null) /\ (PolarsOp(n, a)[r] # Null => MlxOp(n, b)[r] = PolarsOp(n, a)[r])
  <2>1. IF r > w THEN run[r] = total[r] /\ run[r] \in D ELSE total[r] = Null /\ run[r] = 0
    BY <1>10 DEF Headed
  <2>2. Null \notin D
    BY <1>2, NumberFacts
  <2>3. CASE r > w
    <3>1. q[r] # Null /\ a[1][r] # Null
      BY <1>2, <1>4, <1>7, <2>2, <2>3
    <3>2. PolarsOp(n, a)[r] = run[r] /\ run[r] # Null
      BY <1>11, <2>1, <2>2, <2>3, <3>1
    <3>3. QED
      BY <1>12, <1>13, <3>1, <3>2
  <2>4. CASE ~(r > w)
    <3>1. q[r] = Null /\ a[1][r] = Null
      BY <1>4, <1>7, <2>4
    <3>2. PolarsOp(n, a)[r] = Null
      BY <1>11, <3>1
    <3>3. QED
      BY <1>13, <3>1, <3>2
  <2>5. QED
    BY <2>3, <2>4
<1>15. QED
  BY <1>14 DEF RightColumn

\* A scan over columns without nulls: nothing is shifted below it, or by its operand only.
LEMMA ScannedOperand ==
  ASSUME NEW e, NEW s, NEW f, NEW H, NEW D, Setting(e, s, f, H, D), CleanFrame(e, f, H), NEW i \in 1..Len(e),
         NEW n, n = e[i], n.op \in Scans, NEW k, k = n.args[1],
         n.op = "CumMax" => ~HeadOf(e)[k].shifts,
         n.op = "CumSum" /\ HeadOf(e)[k].shifts => e[k].op = "Shift" /\ ~HeadOf(e)[k].lower
  PROVE  \E w \in Nat : (w = 0 \/ n.op # "CumMax") /\ HeadedOperand(n, ValueOf(e, f, s)[k], PolarsOf(e, f)[k], w, H)
<1>0. IsArena(e) /\ Len(e) \in Nat /\ H \in Nat /\ DOMAIN n.args = 1..Arity(n)
  BY DEF Setting, IsArena
<1>1. PICK p, v, w, d : p = PolarsOf(e, f) /\ v = ValueOf(e, f, s) /\ w = ValidityOf(e, f, s) /\ d = DtypeOf(e, s)
  OBVIOUS
<1>2. 1 \in 1..Arity(n) /\ k \in 1..Len(e)
  <2>1. 1 \in 1..Arity(n)
    BY NodeArity DEF Scans
  <2>2. QED
    BY <1>0, <2>1, OperandFacts
<1>3. CASE ~HeadOf(e)[k].shifts
  <2>1. v[k] = p[k] /\ \A r \in 1..H : p[k][r] # Null
    BY <1>1, <1>2, <1>3, CleanNodes
  <2>2. \A r \in 1..H : r > 0
    BY <1>0
  <2>3. HeadedOperand(n, v[k], p[k], 0, H)
    BY <2>1, <2>2 DEF HeadedOperand
  <2>4. QED
    BY <1>1, <2>3
<1>4. CASE HeadOf(e)[k].shifts
  <2>1. n.op = "CumSum" /\ e[k].op = "Shift" /\ ~HeadOf(e)[k].lower
    BY <1>4 DEF Scans
  <2>2. PICK m : m = e[k]
    OBVIOUS
  <2>3. 1 \in 1..Arity(m) /\ m.offset \in Nat /\ m.op \notin {"Column", "Literal"} /\ DOMAIN m.args = 1..Arity(m)
    BY <1>2, <2>1, <2>2, NodeArity DEF Setting
  <2>4. PICK a, b, c, t : a = Operands(e, k, p) /\ b = Operands(e, k, v) /\ c = Operands(e, k, w) /\ t = Operands(e, k, d)
    OBVIOUS
  <2>5. /\ p[k] = PolarsOp(m, a) /\ v[k] = MlxOp(m, b) /\ d[k] = PolarsNode(m, t, s)
        /\ TypedOperands(m, t, a, H, D)
        /\ m.args[1] \in 1..Len(e) /\ a[1] = p[m.args[1]] /\ b[1] = v[m.args[1]] /\ t[1] = d[m.args[1]]
    BY <1>1, <1>2, <2>2, <2>3, <2>4, InnerNode
  <2>6. ~HeadOf(e)[m.args[1]].shifts
    <3>1. PICK h, q : h = HeadOf(e) /\ q = Operands(e, k, h)
      OBVIOUS
    <3>2. h[k] = HeadNode(m, q)
      BY <1>0, <1>2, <2>2, <3>1, HeadEquation
    <3>3. DOMAIN q = 1..Arity(m) /\ q[1] = h[m.args[1]]
      BY <1>0, <1>2, <2>2, <2>3, <3>1, OperandFacts
    <3>4. h[k].lower = (\E j \in DOMAIN q : q[j].shifts)
      BY <3>2 DEF HeadNode
    <3>5. QED
      BY <2>1, <2>3, <3>1, <3>3, <3>4
  <2>7. b[1] = a[1] /\ \A r \in 1..H : a[1][r] # Null
    BY <1>1, <2>5, <2>6, CleanNodes
  <2>8. PICK u, o, fill, null : u = a[1] /\ o = m.offset /\ fill = (IF m.from = "Bool" THEN FALSE ELSE 0) /\ null = Null
    OBVIOUS
  <2>9. IsColumn(u, H) /\ o \in Nat
    BY <2>3, <2>5, <2>8 DEF TypedOperands, OperandColumns
  <2>10. v[k] = Shifted(u, o, fill) /\ p[k] = Shifted(u, o, null)
    BY <2>1, <2>2, <2>5, <2>7, <2>8 DEF MlxOp, PolarsOp, Scans
  <2>11. \A r \in 1..H : v[k][r] = IF r > o THEN u[r - o] ELSE fill
    BY <1>0, <2>9, <2>10, ShiftedRows
  <2>12. \A r \in 1..H : p[k][r] = IF r > o THEN u[r - o] ELSE null
    BY <1>0, <2>9, <2>10, ShiftedRows
  <2>13. AsNumber(n, fill) = 0
    <3>1. d[k] = t[1]
      BY <2>1, <2>2, <2>5 DEF PolarsNode, CompareOps
    <3>2. m.from = "Bool" <=> t[1] = "Bool"
      <4>1. WellTyped(m, t)
        BY <2>5 DEF TypedOperands
      <4>2. QED
        BY <2>1, <2>2, <4>1 DEF WellTyped, CompareOps
    <3>3. n.from = "Bool" <=> d[k] = "Bool"
      <4>1. PICK g : g = Operands(e, i, d)
        OBVIOUS
      <4>2. WellTyped(n, g)
        BY <1>1, <4>1 DEF Setting
      <4>3. g[1] = d[k]
        BY <1>0, <1>2, <4>1, OperandFacts
      <4>4. QED
        BY <2>1, <4>2, <4>3 DEF WellTyped, CompareOps
    <3>4. Null # FALSE /\ (n.from = "Bool" => fill = FALSE) /\ (n.from # "Bool" => fill = 0)
      BY <2>8, <3>1, <3>2, <3>3, CaseAssumption
    <3>5. QED
      BY <3>4 DEF AsNumber
  <2>14. HeadedOperand(n, v[k], p[k], o, H)
    <3>1. ASSUME NEW r \in 1..H
          PROVE  IF r > o THEN p[k][r] # Null /\ v[k][r] = p[k][r] ELSE p[k][r] = Null /\ AsNumber(n, v[k][r]) = 0
      <4>1. CASE r > o
        <5>1. r - o \in 1..H
          BY <1>0, <2>9, <4>1
        <5>2. u[r - o] # Null
          BY <2>7, <2>8, <5>1
        <5>3. QED
          BY <2>11, <2>12, <4>1, <5>2
      <4>2. CASE ~(r > o)
        <5>1. v[k][r] = fill /\ p[k][r] = Null
          BY <2>8, <2>11, <2>12, <4>2
        <5>2. QED
          BY <2>13, <4>2, <5>1
      <4>3. QED
        BY <4>1, <4>2
    <3>2. QED
      BY <3>1 DEF HeadedOperand
  <2>15. n.op # "CumMax"
    BY <2>1
  <2>16. QED
    BY <1>1, <2>9, <2>14, <2>15
<1>5. QED
  BY <1>3, <1>4

\* Every node with a validity has that of Polars' column, and its values.
LEMMA MaskedNodes ==
  ASSUME NEW e, NEW s, NEW f, NEW H, NEW D, Setting(e, s, f, H, D), NEW clean \in BOOLEAN, CalmPredicates(e, s, clean),
         clean => CleanFrame(e, f, H)
  PROVE  \A i \in 1..Len(e) : Masks(e, i, clean) =>
           RightColumn(ValidityOf(e, f, s)[i].ok, ValueOf(e, f, s)[i], PolarsOf(e, f)[i], H)
<1>0. IsArena(e) /\ Len(e) \in Nat /\ H \in Nat
  BY DEF Setting, IsArena
<1>1. PICK p, v, w, d : p = PolarsOf(e, f) /\ v = ValueOf(e, f, s) /\ w = ValidityOf(e, f, s) /\ d = DtypeOf(e, s)
  OBVIOUS
<1> DEFINE Here(i) == RightColumn(w[i].ok, v[i], p[i], H)
           Right(i) == Masks(e, i, clean) => Here(i)
           G == {i \in 1..Len(e) : Right(i)}
<1>3. ASSUME NEW i \in 1..Len(e), \A j \in 1..(i - 1) : Right(j), Masks(e, i, clean) PROVE Here(i)
  <2>1. PICK n : n = e[i]
    OBVIOUS
  <2>2. Admitted(n, s) /\ DOMAIN n.args = 1..Arity(n) /\ (n.op = "Shift" => n.offset \in Nat)
    BY <2>1 DEF Setting
  <2>3. CASE n.op \in {"Column", "Literal"}
    <3>1. PICK x, y, z : x = w[i] /\ y = v[i] /\ z = p[i]
      OBVIOUS
    <3>2. \A r \in 1..H : (x.ok[r] <=> z[r] # Null) /\ (z[r] # Null => y[r] = z[r])
      BY <1>1, <2>1, <2>3, <3>1, LeafValues
    <3>3. QED
      BY <3>1, <3>2 DEF RightColumn
  <2>4. CASE n.op \notin {"Column", "Literal"}
    <3>1. PICK a, b, c, t : a = Operands(e, i, p) /\ b = Operands(e, i, v) /\ c = Operands(e, i, w) /\ t = Operands(e, i, d)
      OBVIOUS
    <3>2. /\ p[i] = PolarsOp(n, a) /\ v[i] = MlxOp(n, b) /\ w[i].ok = ValidityNode(n, c, f, s).ok
          /\ TypedOperands(n, t, a, H, D) /\ OperandColumns(n, b, H) /\ ValidOperands(n, c, H)
          /\ \A j \in 1..Arity(n) : /\ n.args[j] \in 1..(i - 1) /\ n.args[j] \in 1..Len(e)
                                    /\ a[j] = p[n.args[j]] /\ b[j] = v[n.args[j]] /\ c[j] = w[n.args[j]] /\ t[j] = d[n.args[j]]
      BY <1>1, <2>1, <2>4, <3>1, InnerNode
    <3>3. PICK ok : ok = w[i].ok
      OBVIOUS
    <3>4. ok = ValidityNode(n, c, f, s).ok
      BY <3>2, <3>3
    <3>5. /\ n.op # "And" /\ (n.op \in Scans => clean)
          /\ n.op # "Where" => \A j \in 1..Arity(n) : Masks(e, n.args[j], clean)
          /\ n.op = "Where" => /\ Masks(e, n.args[2], clean) /\ Masks(e, n.args[3], clean)
                               /\ clean \/ NanSafe(e[n.args[1]].op)
                               /\ NotesOf(e)[n.args[1]].below \subseteq Predicated(e)
          /\ n.op = "CumMax" => ~HeadOf(e)[n.args[1]].shifts
          /\ n.op = "CumSum" /\ HeadOf(e)[n.args[1]].shifts =>
               e[n.args[1]].op = "Shift" /\ ~HeadOf(e)[n.args[1]].lower
      BY <1>0, <1>3, <2>1, <2>2, MaskSteps
    <3>6. n.op # "Where" => RightOperands(n, c, b, a, H)
      <4>1. ASSUME n.op # "Where", NEW j \in 1..Arity(n) PROVE RightColumn(c[j].ok, b[j], a[j], H)
        <5>1. Here(n.args[j])
          BY <1>3, <3>2, <3>5, <4>1
        <5>2. QED
          BY <3>2, <5>1
      <4>2. QED
        BY <4>1 DEF RightOperands
    <3>7. RightColumn(ok, MlxOp(n, b), PolarsOp(n, a), H)
      <4>1. CASE n.op \in RowOps \ {"And", "Where"}
        BY <1>0, <2>2, <3>2, <3>4, <3>6, <4>1, MaskedRows
      <4>2. CASE n.op = "Shift"
        <5>1. IsColumn(a[1], H) /\ IsColumn(b[1], H)
          BY <3>2, <4>2, NodeArity DEF TypedOperands, OperandColumns
        <5>2. QED
          BY <1>0, <2>2, <3>2, <3>4, <3>6, <4>2, <5>1, MaskedShift
      <4>3. CASE n.op = "Where"
        <5>1. Arity(n) = 3
          BY <4>3, NodeArity
        <5>2. PICK k : k = n.args[1]
          OBVIOUS
        <5>3. DOMAIN a = 1..3 /\ DOMAIN b = 1..3 /\ IsColumn(a[1], H) /\ IsColumn(b[1], H) /\ k \in 1..Len(e)
          BY <3>2, <5>1, <5>2 DEF TypedOperands, OperandColumns
        <5>4. d[k] = "Bool"
          <6>1. t[1] = "Bool"
            BY <3>2, <4>3 DEF TypedOperands, WellTyped, CompareOps
          <6>2. QED
            BY <3>2, <5>1, <5>2, <6>1
        <5>5. /\ NotesOf(e)[k].below \subseteq Predicated(e)
              /\ clean \/ NanSafe(e[k].op)
          BY <3>5, <4>3, <5>2
        <5>6. w[k].val = v[k] /\ \A r \in 1..H : v[k][r] <=> p[k][r] = TRUE
          <6>1. DtypeOf(e, s)[k] = "Bool"
            BY <1>1, <5>4
          <6>2. PredicateAgrees(ValidityOf(e, f, s)[k].val, ValueOf(e, f, s)[k], PolarsOf(e, f)[k], H)
            BY <5>3, <5>5, <6>1, PredicateRight
          <6>3. QED
            BY <1>1, <6>2 DEF PredicateAgrees
        <5>7. c[1].val = b[1] /\ \A r \in 1..H : b[1][r] <=> a[1][r] = TRUE
          BY <3>2, <5>1, <5>2, <5>6
        <5>8. RightColumn(c[2].ok, b[2], a[2], H) /\ RightColumn(c[3].ok, b[3], a[3], H)
          <6>1. Here(n.args[2]) /\ Here(n.args[3])
            BY <1>3, <3>2, <3>5, <4>3, <5>1
          <6>2. QED
            BY <3>2, <5>1, <6>1
        <5>9. QED
          BY <1>0, <2>2, <3>2, <3>4, <4>3, <5>3, <5>7, <5>8, MaskedWhere
      <4>4. CASE n.op \in Scans
        <5>1. clean /\ CleanFrame(e, f, H) /\ n.op # "Where"
          BY <3>5, <4>4 DEF Scans
        <5>2. PICK k : k = n.args[1]
          OBVIOUS
        <5>3. \E u \in Nat : (u = 0 \/ n.op # "CumMax") /\ HeadedOperand(n, ValueOf(e, f, s)[k], PolarsOf(e, f)[k], u, H)
          BY <2>1, <3>5, <4>4, <5>1, <5>2, ScannedOperand
        <5>4. PICK u \in Nat : (u = 0 \/ n.op # "CumMax") /\ HeadedOperand(n, v[k], p[k], u, H)
          BY <1>1, <5>3
        <5>5. b[1] = v[k] /\ a[1] = p[k]
          BY <3>2, <4>4, <5>2, NodeArity
        <5>6. HeadedOperand(n, b[1], a[1], u, H) /\ RightOperands(n, c, b, a, H)
          BY <3>6, <5>1, <5>4, <5>5
        <5>7. QED
          BY <1>0, <2>2, <3>2, <3>4, <4>4, <5>4, <5>6, MaskedScan
      <4>5. QED
        BY <2>2, <2>4, <3>5, <4>1, <4>2, <4>3, <4>4, OperatorKinds
    <3>8. QED
      BY <3>2, <3>3, <3>7
  <2>5. QED
    BY <2>3, <2>4
<1>4. \A i \in 1..Len(e) : (\A j \in 1..(i - 1) : j \in G) => i \in G
  <2>1. ASSUME NEW i \in 1..Len(e), \A j \in 1..(i - 1) : Right(j) PROVE Right(i)
    BY <1>3, <2>1
  <2> HIDE DEF Right
  <2>2. QED
    BY <2>1
<1>5. \A i \in 1..Len(e) : i \in G
  <2> HIDE DEF G
  <2>1. QED
    BY <1>0, <1>4, NodeInduction
<1>6. QED
  BY <1>1, <1>5

\* The validity a binding gets.
IsValidity(valid, how, e, f, s, H) ==
  /\ how = "none" => valid = Broadcast(f, TRUE)
  /\ how = "elementwise" => valid = [r \in 1..H |-> \A x \in InputNames(e) : f[x].values[r] # Null]
  /\ how = "where" => valid = ValidityGraph(e, f, s)

\* What is done about the nulls of a binding is right: its column is that of Polars.
LEMMA BindingRight ==
  ASSUME NEW e, NEW s, NEW f, NEW H, NEW D, Setting(e, s, f, H, D), IsExpression(e, s), NEW clean \in BOOLEAN,
         clean => CleanFrame(e, f, H), NEW how, how = NullHandling(e, clean), how # "fallback",
         how = "where" => CalmPredicates(e, s, clean) /\ (clean => ~ScannedHead(e)),
         NEW got, got = ValueGraph(e, f, s), NEW valid, IsValidity(valid, how, e, f, s, H)
  PROVE  /\ [r \in DOMAIN got |-> IF valid[r] THEN got[r] ELSE Null] = PolarsValue(e, f)
         /\ IsColumn(PolarsValue(e, f), H) /\ DOMAIN got = 1..H
         /\ \A r \in 1..H : PolarsValue(e, f)[r] \in Values(PolarsDtype(e, s), D) \cup {Null}
<1>0. /\ IsArena(e) /\ Len(e) \in Nat /\ Len(e) \in 1..Len(e) /\ H \in Nat /\ H = FrameHeight(f)
      /\ \A i \in 1..Len(e) : DOMAIN e[i].args = 1..Arity(e[i])
  BY DEF Setting, IsArena
<1>1. PICK p, v, w : p = PolarsOf(e, f)[Len(e)] /\ v = ValueOf(e, f, s)[Len(e)] /\ w = ValidityOf(e, f, s)[Len(e)]
  OBVIOUS
<1>2. got = v /\ PolarsValue(e, f) = p /\ (how = "where" => valid = w.ok) /\ PolarsDtype(e, s) = DtypeOf(e, s)[Len(e)]
  BY <1>1 DEF ValueGraph, PolarsValue, ValidityGraph, Synthesize, ValueOf, PolarsOf, ValidityOf, IsValidity, PolarsDtype, DtypeOf
<1>3. IsColumn(p, H) /\ IsColumn(v, H) /\ DOMAIN v = 1..H
      /\ \A r \in 1..H : p[r] \in Values(PolarsDtype(e, s), D) \cup {Null}
  BY <1>0, <1>1, <1>2, NodesTyped, GraphColumns, ColumnTuple DEF TypedColumn
<1>4. SUFFICES \A r \in 1..H : p[r] = IF valid[r] THEN v[r] ELSE Null
  <2>1. ASSUME \A r \in 1..H : p[r] = IF valid[r] THEN v[r] ELSE Null
        PROVE  [r \in DOMAIN got |-> IF valid[r] THEN got[r] ELSE Null] = PolarsValue(e, f)
    <3>1. p = [r \in 1..H |-> p[r]]
      BY <1>3 DEF IsColumn
    <3>2. QED
      BY <1>2, <1>3, <2>1, <3>1
  <2>2. QED
    BY <1>2, <1>3, <2>1
<1>5. CASE how = "none"
  <2>1. clean /\ ~HasShift(e)
    BY <1>5 DEF NullHandling
  <2>2. v = p /\ \A r \in 1..H : p[r] # Null
    BY <1>0, <1>1, <2>1, NoShiftBelow, CleanNodes
  <2>3. \A r \in 1..H : valid[r] = TRUE
    BY <1>0, <1>5, BroadcastRows DEF IsValidity
  <2>4. QED
    BY <2>2, <2>3
<1>6. CASE how = "elementwise"
  <2>1. NullMode(e) = "elementwise"
    BY <1>6 DEF NullHandling
  <2>2. ASSUME NEW r \in 1..H PROVE p[r] = IF valid[r] THEN v[r] ELSE Null
    <3>1. /\ p[r] # Null <=> \A x \in InputNames(e) : f[x].values[r] # Null
          /\ p[r] # Null => v[r] = p[r]
      BY <1>1, <2>1, ElementwiseNodes
    <3>2. valid[r] = \A x \in InputNames(e) : f[x].values[r] # Null
      BY <1>6 DEF IsValidity
    <3>3. QED
      BY <3>1, <3>2
  <2>3. QED
    BY <2>2
<1>7. CASE how = "where"
  <2>1. /\ clean => HasShift(e) /\ HasValidity(e, TRUE)
        /\ ~clean => NullMode(e) = "where" /\ HasValidity(e, FALSE)
    BY <1>7 DEF NullHandling
  <2>2. MaskOf(e, clean)[Len(e)]
    <3>1. HasValidity(e, clean)
      BY <2>1
    <3>2. QED
      BY <3>1 DEF HasValidity, Synthesize, MaskOf
  <2>3. NotesOf(e)[Len(e)].cond = Predicated(e)
    BY DEF Predicated, Synthesize, NotesOf
  <2>4. clean => ~HeadOf(e)[Len(e)].found
    BY <1>7 DEF ScannedHead, Synthesize, HeadOf
  <2>5. ~clean => ClassOf(e)[Len(e)].ok
    BY <2>1 DEF NullMode, Synthesize, ClassOf
  <2>6. Masks(e, Len(e), clean)
    BY <2>2, <2>3, <2>4, <2>5 DEF Masks
  <2>7. RightColumn(w.ok, v, p, H)
    BY <1>0, <1>1, <1>7, <2>6, MaskedNodes
  <2>8. ASSUME NEW r \in 1..H PROVE p[r] = IF valid[r] THEN v[r] ELSE Null
    <3>1. (w.ok[r] <=> p[r] # Null) /\ (p[r] # Null => v[r] = p[r]) /\ valid = w.ok
      BY <1>2, <1>7, <2>7 DEF RightColumn
    <3>2. QED
      BY <3>1
  <2>9. QED
    BY <2>8
<1>8. how \in {"none", "elementwise", "where"}
  BY DEF NullHandling
<1>9. QED
  BY <1>5, <1>6, <1>7, <1>8

-----------------------------------------------------------------------------
\* The dtypes of a fused expression, node by node.

\* The dtypes p in Polars of what the graph has in tag, the dtype the walker has stamped: tag
\* itself; I8, which is that of literals if the columns have another; and F32, which is that of
\* literals if the columns are integers, unless narrow ones may have been summed.
Computed(p, tag) ==
  \/ p = tag
  \/ tag \in IntTags /\ p \in {"I8", "F32"}
Agree(n, p, g, tag) == \A j \in 1..Arity(n) : Computed(p[j], tag) => g[j] = tag

\* A node that the graph has in the dtype stamped: tag is of all the columns, or F32.
StampedNode(n, s, tag) ==
  /\ Admitted(n, s) /\ tag \in IntTags \cup {"F32"}
  /\ tag \in IntTags => n.op # "Cast" /\ (n.op = "Column" => s[n.name] = tag)

\* The operands of a node are of one dtype, if it has one of them.
OneDtype(n, p) == /\ n.op = "Add" => p[1] = p[2]
                  /\ n.op = "Where" => p[2] = p[3]

LEMMA AdmittedOps ==
  ASSUME NEW n, NEW s, Admitted(n, s)
  PROVE  /\ n.op \in CompareOps \cup Scans
                       \cup {"Column", "Literal", "Cast", "Shift", "Add", "And", "Where"}
         /\ Arity(n) \in 0..3
         /\ n.op \in {"Shift"} \cup Scans => Arity(n) = 1
         /\ n.op \in CompareOps \cup {"Add", "And"} => Arity(n) = 2
         /\ n.op = "Where" => Arity(n) = 3
         /\ n.op = "Column" => n.name \in DOMAIN s /\ s[n.name] \in GraphTags
         /\ n.op = "Cast" => n.to = "F32"
BY DEF Admitted, Arity, CompareOps, Scans

LEMMA NodeFollows ==
  ASSUME NEW n, NEW s, NEW tag, StampedNode(n, s, tag),
         NEW p, NEW g, Agree(n, p, g, tag), OneDtype(n, p)
  PROVE  Computed(PolarsNode(n, p, s), tag) => GraphNode(n, g, s, tag) = tag
<1>0. "Bool" # tag /\ tag \in IntTags \cup {"F32"}
  BY DEF StampedNode, IntTags
<1>1. Admitted(n, s)
  BY DEF StampedNode
<1>2. CASE n.op = "Column"
  <2>1. PolarsNode(n, p, s) = s[n.name] /\ GraphNode(n, g, s, tag) = s[n.name]
    BY <1>2 DEF PolarsNode, GraphNode, CompareOps
  <2>2. tag \in IntTags => s[n.name] = tag
    BY <1>2 DEF StampedNode
  <2>3. Computed(s[n.name], tag) => s[n.name] = tag
    BY <2>2 DEF Computed
  <2>4. QED
    BY <2>1, <2>3
<1>3. CASE n.op = "Literal"
  BY <1>3 DEF GraphNode, CompareOps
<1>4. CASE n.op = "Cast"
  <2>1. GraphNode(n, g, s, tag) = "F32" /\ tag = "F32"
    BY <1>0, <1>4 DEF GraphNode, StampedNode, CompareOps
  <2>2. QED
    BY <2>1
<1>5. CASE n.op \in CompareOps \cup {"And"}
  <2>1. PolarsNode(n, p, s) = "Bool"
    BY <1>5 DEF PolarsNode, CompareOps
  <2>2. ~Computed("Bool", tag)
    BY <1>0 DEF Computed
  <2>3. QED
    BY <2>1, <2>2
<1>6. CASE n.op = "Add"
  <2>1. 1 \in 1..Arity(n) /\ 2 \in 1..Arity(n)
    BY <1>6, NodeArity
  <2>2. PolarsNode(n, p, s) = p[1] /\ GraphNode(n, g, s, tag) = Promoted(g[1], g[2])
    BY <1>6 DEF PolarsNode, GraphNode, CompareOps
  <2>3. Computed(p[1], tag) => g[1] = tag /\ g[2] = tag
    BY <1>6, <2>1 DEF Agree, OneDtype
  <2>4. QED
    BY <2>2, <2>3 DEF Promoted
<1>7. CASE n.op = "Where"
  <2>1. 2 \in 1..Arity(n) /\ 3 \in 1..Arity(n)
    BY <1>7, NodeArity
  <2>2. PolarsNode(n, p, s) = p[2] /\ GraphNode(n, g, s, tag) = Promoted(g[2], g[3])
    BY <1>7 DEF PolarsNode, GraphNode, CompareOps
  <2>3. Computed(p[2], tag) => g[2] = tag /\ g[3] = tag
    BY <1>7, <2>1 DEF Agree, OneDtype
  <2>4. QED
    BY <2>2, <2>3 DEF Promoted
<1>8. CASE n.op \in {"Shift"} \cup Scans
  <2>1. 1 \in 1..Arity(n)
    BY <1>8, NodeArity
  <2>2. Computed(p[1], tag) => g[1] = tag
    BY <2>1 DEF Agree
  <2>3. CASE n.op \in {"Shift", "CumMax"}
    <3>1. PolarsNode(n, p, s) = p[1] /\ GraphNode(n, g, s, tag) = g[1]
      BY <2>3 DEF PolarsNode, GraphNode, CompareOps
    <3>2. QED
      BY <2>2, <3>1
  <2>4. CASE n.op = "CumSum"
    <3>1. PolarsNode(n, p, s) = Summed(p[1]) /\ GraphNode(n, g, s, tag) = MlxSummed(g[1])
      BY <2>4 DEF PolarsNode, GraphNode, CompareOps
    <3>2. ASSUME Computed(Summed(p[1]), tag) PROVE MlxSummed(g[1]) = tag
      <4>2. Summed(p[1]) # "I8" /\ Summed(p[1]) # "Bool"
        BY DEF Summed
      <4>3. CASE p[1] = "I8"
        BY <1>0, <2>2, <3>2, <4>2, <4>3 DEF Summed, MlxSummed, Computed, IntTags
      <4>4. CASE p[1] = "Bool"
        BY <1>0, <3>2, <4>4 DEF Summed, Computed, IntTags
      <4>5. CASE p[1] # "I8" /\ p[1] # "Bool"
        <5>1. Summed(p[1]) = p[1]
          BY <4>5 DEF Summed
        <5>2. g[1] = tag
          BY <2>2, <3>2, <5>1
        <5>3. QED
          BY <1>0, <5>2 DEF MlxSummed
      <4>6. QED
        BY <4>3, <4>4, <4>5
    <3>3. QED
      BY <3>1, <3>2
  <2>5. QED
    BY <1>8, <2>3, <2>4 DEF Scans
<1>9. QED
  BY <1>1, <1>2, <1>3, <1>4, <1>5, <1>6, <1>7, <1>8, AdmittedOps

\* What an expression is, node by node.
LEMMA ExpressionFacts ==
  ASSUME NEW e, NEW s, IsExpression(e, s)
  PROVE  /\ IsArena(e) /\ Len(e) \in Nat /\ Len(e) >= 1 /\ Len(e) \in 1..Len(e) /\ DOMAIN e = 1..Len(e)
         /\ \A i \in 1..Len(e) : /\ DOMAIN e[i].args = 1..Arity(e[i])
                                 /\ WellTyped(e[i], Operands(e, i, DtypeOf(e, s)))
                                 /\ e[i].op = "Shift" => e[i].offset \in Int
<1>1. IsArena(e) /\ \A i \in 1..Len(e) : DOMAIN e[i].args = 1..Arity(e[i])
  BY ExpressionIsArena
<1>2. Len(e) \in Nat /\ Len(e) >= 1 /\ Len(e) \in 1..Len(e) /\ DOMAIN e = 1..Len(e)
  BY <1>1 DEF IsArena
<1>3. ASSUME NEW i \in 1..Len(e)
      PROVE  WellTyped(e[i], Operands(e, i, DtypeOf(e, s))) /\ (e[i].op = "Shift" => e[i].offset \in Int)
  BY <1>2, <1>3 DEF IsExpression, Operands, DtypeOf
<1>4. QED
  BY <1>1, <1>2, <1>3

LEMMA NodesAgree ==
  ASSUME NEW e, NEW s, IsExpression(e, s), NEW tag,
         \A i \in 1..Len(e) : StampedNode(e[i], s, tag)
  PROVE  \A i \in 1..Len(e) : Computed(DtypeOf(e, s)[i], tag) => TagOf(e, s, tag)[i] = tag
<1>0. IsArena(e) /\ Len(e) \in Nat /\ \A i \in 1..Len(e) : DOMAIN e[i].args = 1..Arity(e[i])
  BY ExpressionFacts
<1>1. PICK d, h : d = DtypeOf(e, s) /\ h = TagOf(e, s, tag)
  OBVIOUS
<1>2. \A i \in 1..Len(e) : d[i] = PolarsNode(e[i], Operands(e, i, d), s) /\ h[i] = GraphNode(e[i], Operands(e, i, h), s, tag)
  BY <1>0, <1>1, DtypeEquation, TagEquation
<1> DEFINE Right(i) == Computed(d[i], tag) => h[i] = tag
           G == {i \in 1..Len(e) : Right(i)}
<1>3. ASSUME NEW i \in 1..Len(e), \A j \in 1..(i - 1) : Right(j) PROVE Right(i)
  <2>1. PICK n, p, g : n = e[i] /\ p = Operands(e, i, d) /\ g = Operands(e, i, h)
    OBVIOUS
  <2>2. \A j \in 1..Arity(n) : p[j] = d[n.args[j]] /\ n.args[j] \in 1..(i - 1)
    BY <1>0, <2>1, OperandFacts
  <2>3. \A j \in 1..Arity(n) : g[j] = h[n.args[j]]
    BY <1>0, <2>1, OperandFacts
  <2>4. Agree(n, p, g, tag)
    BY <1>3, <2>2, <2>3 DEF Agree
  <2>5. OneDtype(n, p)
    <3>1. WellTyped(n, p)
      BY <1>1, <2>1, ExpressionFacts
    <3>2. QED
      BY <3>1 DEF WellTyped, OneDtype, CompareOps
  <2>6. StampedNode(n, s, tag)
    BY <2>1
  <2>7. Computed(PolarsNode(n, p, s), tag) => GraphNode(n, g, s, tag) = tag
    BY <2>4, <2>5, <2>6, NodeFollows
  <2>8. QED
    BY <1>2, <2>1, <2>7
<1>4. \A i \in 1..Len(e) : (\A j \in 1..(i - 1) : j \in G) => i \in G
  <2> HIDE DEF Right
  <2>1. QED
    BY <1>3
<1>5. \A i \in 1..Len(e) : i \in G
  <2> HIDE DEF G
  <2>1. QED
    BY <1>0, <1>4, NodeInduction
<1>6. QED
  BY <1>1, <1>5

\* The dtype stamped on an output is that of all the columns, or F32.
LEMMA Stamps ==
  ASSUME NEW e, NEW s, IsExpression(e, s), Fusable(e, s)
  PROVE  \A i \in 1..Len(e) : StampedNode(e[i], s, OutTag(e, s))
<1>1. Len(e) \in Nat /\ DOMAIN e = 1..Len(e)
  BY ExpressionFacts
<1>2. PICK tags, tag : tags = {s[x] : x \in InputNames(e)} /\ tag = OutTag(e, s)
  OBVIOUS
<1>3. CASE ~Uses(e, {"Cast"}) /\ Cardinality(tags) = 1 /\ tags \subseteq IntTags
  <2>1. tag = CHOOSE t \in tags : TRUE
    BY <1>2, <1>3 DEF OutTag
  <2>2. IsFiniteSet(tags)
    <3>1. IntTags = {"I8"} \cup {"I32"} \cup {"I64"} \cup {"U64"}
      BY DEF IntTags
    <3>2. IsFiniteSet(IntTags)
      BY <3>1, FS_Singleton, FS_Union
    <3>3. QED
      BY <1>3, <3>2, FS_Subset
  <2>3. PICK u : tags = {u}
    BY <1>3, <2>2, FS_Singleton
  <2>4. tag = u /\ tag \in IntTags
    BY <1>3, <2>1, <2>3
  <2>5. ASSUME NEW i \in 1..Len(e)
        PROVE  e[i].op # "Cast" /\ (e[i].op = "Column" => s[e[i].name] = tag)
    <3>1. e[i].op # "Cast"
      BY <1>1, <1>3 DEF Uses
    <3>2. e[i].op = "Column" => e[i].name \in InputNames(e)
      BY <1>1 DEF InputNames
    <3>3. QED
      BY <1>2, <2>3, <2>4, <3>1, <3>2
  <2>6. QED
    BY <1>1, <1>2, <2>4, <2>5 DEF StampedNode, Fusable
<1>4. CASE ~(~Uses(e, {"Cast"}) /\ Cardinality(tags) = 1 /\ tags \subseteq IntTags)
  <2>1. tag = "F32" /\ "F32" \notin IntTags
    BY <1>2, <1>4 DEF OutTag, IntTags
  <2>2. QED
    BY <1>1, <1>2, <2>1 DEF StampedNode, Fusable
<1>5. QED
  BY <1>3, <1>4

\* The dtype that analyze_ir_with_columns declares for the output of a lowered binding is the one
\* that the graph computes, for every expression and schema: the guard of eval_into_typed against
\* a wrong inference never fires, whatever the literals are staged as and wherever MLX promotes.
THEOREM DeclaredDtypes ==
  ASSUME NEW e, NEW s, IsExpression(e, s), BindingLowered(e, s)
  PROVE  GraphDtype(e, s, OutTag(e, s)) = OutTag(e, s)
<1>1. Fusable(e, s) /\ Len(e) \in Nat
  BY ExpressionFacts DEF BindingLowered
<1>2. PICK tag : tag = OutTag(e, s)
  OBVIOUS
<1>4. \A i \in 1..Len(e) : StampedNode(e[i], s, tag)
  BY <1>1, <1>2, Stamps DEF StampedNode
<1>5. Len(e) \in 1..Len(e)
  BY ExpressionFacts
<1>6. PICK p, g : p = DtypeOf(e, s)[Len(e)] /\ g = TagOf(e, s, tag)[Len(e)]
  OBVIOUS
<1>7. Computed(p, tag) => g = tag
  BY <1>4, <1>5, <1>6, NodesAgree
<1>8. PolarsDtype(e, s) = p /\ GraphDtype(e, s, tag) = g
  BY <1>6 DEF PolarsDtype, GraphDtype, Synthesize, DtypeOf, TagOf
<1>9. Computed(p, tag)
  <2>1. p = "F32" \/ (tag \in IntTags /\ p = tag)
    BY <1>2, <1>8 DEF BindingLowered
  <2>2. tag \in IntTags \cup {"F32"}
    BY <1>4, <1>5 DEF StampedNode
  <2>3. "F32" \notin IntTags
    BY DEF IntTags
  <2>4. QED
    BY <2>1, <2>2, <2>3 DEF Computed
<1>10. QED
  BY <1>2, <1>7, <1>8, <1>9

LEMMA ValueGraphCauses ==
  ASSUME NEW e, NEW s, IsExpression(e, s), BindingLowered(e, s), ValueGraphFails(e, s)
  PROVE  \E x \in InputNames(e) : s[x] \in {"F64", "Bool"}
BY DeclaredDtypes DEF ValueGraphFails

\* What is below a predicate is a node of the expression.
LEMMA PredicatedNodes ==
  ASSUME NEW e, NEW s, IsExpression(e, s)
  PROVE  Predicated(e) \subseteq {e[i] : i \in 1..Len(e)}
<1>0. /\ IsArena(e) /\ Len(e) \in Nat /\ Len(e) \in 1..Len(e)
      /\ \A i \in 1..Len(e) : DOMAIN e[i].args = 1..Arity(e[i])
  BY ExpressionFacts
<1>1. PICK h, K : h = NotesOf(e) /\ K = {e[i] : i \in 1..Len(e)}
  OBVIOUS
<1>2. \A i \in 1..Len(e) : h[i] = PredicateNode(e[i], Operands(e, i, h))
  BY <1>0, <1>1, PredicateEquation
<1>3. \A i \in 1..Len(e) : h[i].below \subseteq K
  <2>1. ASSUME NEW i \in 1..Len(e), NEW m \in h[i].below PROVE m \in K
    <3>1. m \in Under(e, i)
      BY <1>1, <2>1 DEF Under
    <3>2. PICK k \in 1..Len(e) : m = e[k]
      BY <1>0, <3>1, UnderFacts
    <3>3. QED
      BY <1>1, <3>2
  <2>2. QED
    BY <2>1
<1> DEFINE Right(i) == h[i].cond \subseteq K
           G == {i \in 1..Len(e) : Right(i)}
<1>4. ASSUME NEW i \in 1..Len(e), \A j \in 1..(i - 1) : Right(j) PROVE Right(i)
  <2>1. PICK n, a : n = e[i] /\ a = Operands(e, i, h)
    OBVIOUS
  <2>2. DOMAIN a = 1..Arity(n) /\ \A j \in 1..Arity(n) : a[j] = h[n.args[j]] /\ n.args[j] \in 1..(i - 1) /\ n.args[j] \in 1..Len(e)
    BY <1>0, <2>1, OperandFacts
  <2>n. h[i] = PredicateNode(n, a)
    BY <1>2, <2>1
  <2>3. \A j \in 1..Arity(n) : a[j].cond \subseteq K /\ a[j].below \subseteq K
    BY <1>3, <1>4, <2>2
  <2>4. CASE n.op = "Where"
    <3>1. h[i].cond = a[1].below \cup a[2].cond \cup a[3].cond
      BY <2>4, <2>n DEF PredicateNode
    <3>2. Arity(n) = 3
      BY <2>4, NodeArity
    <3>3. QED
      BY <2>3, <3>1, <3>2
  <2>5. CASE n.op # "Where"
    <3>1. h[i].cond = UNION {a[j].cond : j \in DOMAIN a}
      BY <2>5, <2>n DEF PredicateNode
    <3>2. QED
      BY <2>2, <2>3, <3>1
  <2>6. QED
    BY <2>4, <2>5
<1>5. \A i \in 1..Len(e) : (\A j \in 1..(i - 1) : j \in G) => i \in G
  <2> HIDE DEF Right
  <2>1. QED
    BY <1>4
<1>6. \A i \in 1..Len(e) : i \in G
  <2> HIDE DEF G
  <2>1. QED
    BY <1>0, <1>5, NodeInduction
<1>7. Predicated(e) = h[Len(e)].cond
  BY <1>1 DEF Predicated, Synthesize, NotesOf
<1>8. QED
  BY <1>0, <1>1, <1>6, <1>7

\* The validity graph fails for a column that the value graph cannot have, or for integers that
\* are not of 32 bits.
LEMMA ValidityGraphCauses ==
  ASSUME NEW e, NEW s, IsExpression(e, s), Fusable(e, s), ValidityGraphFails(e, s)
  PROVE  \/ \E x \in InputNames(e) : s[x] \in {"F64", "Bool"}
         \/ PredicateTags(e, s) \cap {"I8", "I64", "U64"} # {}
<1>1. PICK t \in PredicateTags(e, s) : t \notin {"F32", "I32"}
  BY DEF ValidityGraphFails
<1>2. PICK n \in Predicated(e) : n.op = "Column" /\ t = s[n.name]
  BY <1>1 DEF PredicateTags
<1>3. PICK i \in 1..Len(e) : n = e[i]
  BY <1>2, PredicatedNodes
<1>4. DOMAIN e = 1..Len(e)
  BY ExpressionFacts
<1>5. n.name \in InputNames(e) /\ s[n.name] \in GraphTags
  BY <1>2, <1>3, <1>4, AdmittedOps DEF InputNames, Fusable
<1>6. t \in {"I8", "I64", "U64", "F64", "Bool"}
  BY <1>1, <1>2, <1>5 DEF GraphTags, IntTags
<1>7. QED
  BY <1>1, <1>2, <1>5, <1>6

-----------------------------------------------------------------------------
\* A row of a float column as it is staged.
StagedRow(x) == IF x = Null THEN NaN ELSE x

\* The node of op, and what a when over a comparison chooses, in either world.
Op(op) == [op |-> op]
GraphChoice(op, x, y, then, else) ==
  RowOp(Op("Where"), <<RowOp(Op(op), <<StagedRow(x), StagedRow(y)>>, IeeeOrder), then, else>>, IeeeOrder)
PolarsChoice(op, x, y, then, else) ==
  PolarsRow(Op("Where"), <<PolarsRow(Op(op), <<x, y>>), then, else>>)

\* A null goes through the arithmetic of the value graph (build_op) as NaN.
LEMMA NullsTravelAsNaN ==
  ASSUME NEW x \in Int \cup {Null}, NEW y \in Int \cup {Null}, Null \notin Int, NaN \notin Int
  PROVE  RowOp(Op("Add"), <<StagedRow(x), StagedRow(y)>>, IeeeOrder)
           = StagedRow(PolarsRow(Op("Add"), <<x, y>>))
<1>1. CASE x = Null \/ y = Null
  <2>1. Null \in Range(<<x, y>>)
    BY <1>1 DEF Range
  <2>2. PolarsRow(Op("Add"), <<x, y>>) = Null
    BY <2>1 DEF PolarsRow, Op
  <2>3. RowOp(Op("Add"), <<StagedRow(x), StagedRow(y)>>, IeeeOrder) = NaN
    BY <1>1 DEF RowOp, Op, CompareOps, AddNumbers, StagedRow
  <2>4. QED BY <2>2, <2>3 DEF StagedRow
<1>2. CASE x \in Int /\ y \in Int
  <2>1. Null \notin Range(<<x, y>>)
    BY <1>2 DEF Range
  <2>2. PolarsRow(Op("Add"), <<x, y>>) = x + y
    BY <1>2, <2>1 DEF PolarsRow, RowOp, Op, CompareOps, AddNumbers
  <2>3. RowOp(Op("Add"), <<StagedRow(x), StagedRow(y)>>, IeeeOrder) = x + y
    BY <1>2 DEF RowOp, Op, CompareOps, AddNumbers, StagedRow
  <2>4. QED BY <1>2, <2>2, <2>3 DEF StagedRow
<1>3. QED BY <1>1, <1>2

\* Why a when may run on the GPU although its predicate meets nulls: for the comparisons that
\* _is_nan_safe_predicate admits, and no others, the value graph takes the branch Polars takes,
\* so that the validity graph asks the right branch (_visit_validity).
THEOREM NullTakesElse ==
  ASSUME NEW op \in CompareOps, NEW x \in Int \cup {Null}, NEW y \in Int \cup {Null},
         NEW then, NEW else, then # else, x = Null \/ y = Null, Null \notin Int, NaN \notin Int,
         Null # TRUE
  PROVE  (GraphChoice(op, x, y, then, else) = PolarsChoice(op, x, y, then, else)) <=> NanSafe(op)
<1>1. PolarsChoice(op, x, y, then, else) = else
  <2>1. Null \in Range(<<x, y>>)
    BY DEF Range
  <2>2. PolarsRow(Op(op), <<x, y>>) = Null
    BY <2>1 DEF PolarsRow, Op, CompareOps
  <2>3. QED BY <2>2 DEF PolarsChoice, PolarsRow, Op
<1>2. GraphChoice(op, x, y, then, else) = IF op = "Ne" THEN then ELSE else
  <2>1. IeeeOrder(op, StagedRow(x), StagedRow(y)) = (op = "Ne")
    BY DEF IeeeOrder, StagedRow
  <2>2. CASE op = "Ne"
    <3>1. RowOp(Op(op), <<StagedRow(x), StagedRow(y)>>, IeeeOrder) = TRUE
      BY <2>1, <2>2 DEF RowOp, Op, CompareOps
    <3>2. QED BY <3>1, <2>2 DEF GraphChoice, RowOp, Op, CompareOps
  <2>3. CASE op # "Ne"
    <3>1. RowOp(Op(op), <<StagedRow(x), StagedRow(y)>>, IeeeOrder) = FALSE
      BY <2>1, <2>3 DEF RowOp, Op, CompareOps
    <3>2. QED BY <3>1, <2>3 DEF GraphChoice, RowOp, Op, CompareOps
  <2>4. QED BY <2>2, <2>3
<1>3. QED BY <1>1, <1>2 DEF NanSafe

=============================================================================
