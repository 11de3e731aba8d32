-------------------------- MODULE HStackQueryProofs --------------------------
(***************************************************************************)
(* What is proved of a query with fused HStacks, for every frame,          *)
(* predicate, layer, float format and interleaving: that it takes no step  *)
(* that a query without them could not take on their common variables, so  *)
(* that all of GroupByQueryProofs holds of it; what alone an HStack fails  *)
(* for; and that the frame of fused HStacks is the one Polars makes.       *)
(***************************************************************************)
EXTENDS HStackQuery, GroupByQueryProofs, FusionProofs

-----------------------------------------------------------------------------
\* What is below an HStack.

\* No step of an HStack is a step of the query below it.
LEMMA HStacksLeaveQuery == [HQueryNext]_hquery => [QueryNext]_query
<1> SUFFICES ASSUME [HQueryNext]_hquery PROVE [QueryNext]_query
  OBVIOUS
<1>1. CASE HStackStep \/ HStackFault
  BY <1>1 DEF HStackStep, HStackFault, AnalyzeLayer, AnalyzeInput, StampNulls, TakeInput,
         BindEmpty, DispatchValue, AttachNulls, AppendColumns
<1>2. CASE QueryStep \/ QueryNext
  BY <1>2 DEF QueryNext
<1>3. CASE UNCHANGED hquery
  BY <1>3 DEF hquery
<1>4. QED BY <1>1, <1>2, <1>3 DEF HQueryNext, HQueryStep

\* The HStacks (_dispatch_hstack_fused) are no part of what is below them: without their own
\* variables, a query is one of the Filters and GroupBys of GroupByQuery.
THEOREM HStacksImplementQuery == HQuerySpec => QueryInit /\ [][QueryNext]_query
<1>1. HStackInit => QueryInit
  BY DEF HStackInit
<1>2. QED BY <1>1, HStacksLeaveQuery, PTL DEF HQuerySpec

\* The Filter below a GroupBy or an HStack (_dispatch_groupby and _dispatch_hstack_fused, through
\* _dispatch_filter) fails for no other cause, and falls back no more often, than one by itself.
THEOREM FilterBelow == HQuerySpec => [](FailureJustified /\ FallbackOnce /\ ScatterFits)
<1>1. IInv => FailureJustified /\ FallbackOnce /\ ScatterFits
  BY PrefixFits DEF IInv, CallInv
<1>2. QED BY <1>1, HStacksImplementQuery, QueryInvariant, PTL

\* And so does the Filter below a GroupBy or an HStack.
THEOREM FiltersBelowSelect == HQuerySpec => []FilterIsSelection
<1>1. QueryInit => IInv /\ SelInv
  BY InitIInv, InitSelInv DEF QueryInit
<1>2. IInv /\ SelInv /\ [QueryNext]_query => (IInv /\ SelInv)'
  BY NextIInv, NextSelInv, QuerySteps DEF FilterStep
<1>3. QED
  BY <1>1, <1>2, SelectionOfAnswer, HStacksImplementQuery, PTL

\* However often the keys are encoded, again after the fused path gave up (udf/groupby/mod.rs),
\* the lanes the rows are grouped by identify their keys.
THEOREM QueryLanesAreKeys == HQuerySpec => []LaneIdentifiesKey
<1>1. EncInv => LaneIdentifiesKey
  BY LanesIdentify
<1>2. QED BY <1>1, HStacksImplementQuery, QueryInvariant, PTL

\* execute_groupby and its dispatchers (udf/groupby/mod.rs) turn a lifted GroupBy away for no
\* other cause than a failed Filter, a dtype without a tag, a Boolean to aggregate or keys of
\* more than 128 bits: for every query, also after the fused path gave up.
THEOREM GroupBysFailForCause == HQuerySpec => []GroupByFailsForCause
<1>1. CauseInv => GroupByFailsForCause
  BY DEF CauseInv
<1>2. QED
  BY <1>1, InitCauseInv, NextCauseInv, HStacksImplementQuery, QueryInvariant, PTL

\* Whatever the frame, the keys, the aggregations, the predicate below, the numbering of the
\* groups and the path taken, given up or restarted, execute_groupby (udf/groupby/mod.rs)
\* answers with one row per key of the rows the Filter selects, and over their values.
THEOREM GroupBysAnswer == HQuerySpec => []AnswerIsGroupBy
<1>1. QueryInv => AnswerIsGroupBy
  BY AnswerOfQuery
<1>2. QED
  BY <1>1, InitQueryInv, NextQueryInv, HStacksImplementQuery, PTL

-----------------------------------------------------------------------------
\* The schema above the bindings bs, and the schemas layer by layer.
SchemaAbove(s, bs) == WithColumns(s, bs, LAMBDA i : PolarsDtype(bs[i].expr, s))

LEMMA SchemasEquation ==
  ASSUME NEW c, Len(c.layers) \in Nat
  PROVE  /\ Schemas(c)[1] = [x \in DOMAIN c.frame |-> c.frame[x].dtype]
         /\ \A k \in 1..Len(c.layers) : Schemas(c)[k + 1] = SchemaAbove(Schemas(c)[k], c.layers[k])
<1> DEFINE Upper(s, bs)  == Only({SchemaAbove(u, bs) : u \in {s}})
<1>1. \A x, y : Upper(x, y) = SchemaAbove(x, y)
  BY DEF Only
<1>2. PICK f, n, d : f = Schemas(c) /\ n = Len(c.layers) + 1 /\ d = [x \in DOMAIN c.frame |-> c.frame[x].dtype]
  OBVIOUS
<1>3. f = CHOOSE h : h = [k \in 1..n |-> IF k = 1 THEN d ELSE Upper(h[k - 1], c.layers[k - 1])]
  BY <1>2 DEF Schemas, SchemaAbove
<1> DEFINE Builds(h, m) == h = [k \in 1..(m + 1) |-> IF k = 1 THEN d ELSE Upper(h[k - 1], c.layers[k - 1])]
           G == {m \in Nat : \E h : Builds(h, m)}
<1> HIDE DEF Upper
<1>4. 0 \in G
  <2>1. Builds([k \in {1} |-> d], 0)
    OBVIOUS
  <2>2. QED
    BY <2>1
<1>5. ASSUME NEW m \in G PROVE m + 1 \in G
  <2>1. PICK h : Builds(h, m)
    BY <1>5
  <2> DEFINE longer == [k \in 1..(m + 2) |-> IF k = m + 2 THEN Upper(h[m + 1], c.layers[m + 1]) ELSE h[k]]
  <2>2. Builds(longer, m + 1)
    BY <2>1
  <2>3. \E g : Builds(g, m + 1)
    <3> HIDE DEF longer, Builds
    <3>1. QED
      BY <2>2
  <2> HIDE DEF longer, Builds
  <2>4. QED
    BY <2>3
<1>6. G = Nat
  <2>1. G \in SUBSET Nat
    OBVIOUS
  <2> HIDE DEF G
  <2>2. QED
    BY <1>4, <1>5, <2>1, NumberInduction
<1>7. \E h : Builds(h, Len(c.layers))
  BY <1>6
<1>8. Builds(f, Len(c.layers))
  BY <1>2, <1>3, <1>7
<1>9. \A k \in 1..n : f[k] = IF k = 1 THEN d ELSE Upper(f[k - 1], c.layers[k - 1])
  BY <1>2, <1>8
<1>10. n \in Nat /\ 1 \in 1..n
  BY <1>2
<1>11. \A k \in 1..Len(c.layers) : k + 1 \in 1..n /\ k + 1 # 1 /\ (k + 1) - 1 = k
  BY <1>2
<1>12. f[1] = d /\ \A k \in 1..Len(c.layers) : f[k + 1] = Upper(f[k], c.layers[k])
  BY <1>9, <1>10, <1>11
<1>13. QED
  BY <1>1, <1>2, <1>12

-----------------------------------------------------------------------------
\* Why an HStack fails.

\* The stages, and the layer at hand in them.
LayerInv ==
  /\ case \in Cases /\ (Layers = <<>> => hstage = "none")
  /\ hstage = "analyze" => layer \in 0..Len(Layers)
  /\ hstage \in {"nulls", "bind"} => layer \in 1..Len(Layers)
  /\ hstage = "input" => layer = 1

\* What the walker has lowered: the layers above the one at hand, in the end all.
LoweredLayer(k) == \A i \in DOMAIN Layers[k] : BindingLowered(Layers[k][i].expr, SchemaBelow(k))
LoweredLayers ==
  /\ hstage = "analyze" => \A k \in 1..Len(Layers) : k > layer => LoweredLayer(k)
  /\ hstage \in {"nulls", "input", "bind"} => \A k \in 1..Len(Layers) : LoweredLayer(k)

\* The columns made so far, in the dtypes stamped on them.
MadeColumns(bs, s) ==
  /\ IsSequence(made) /\ Len(made) <= Len(bs)
  /\ \A i \in 1..Len(made) : made[i].dtype = OutTag(bs[i].expr, s)
MadeInv ==
  /\ hstage \in {"analyze", "nulls", "input"} => made = <<>> /\ value = NoValue
  /\ hstage = "bind" =>
       /\ MadeColumns(Layers[layer], Schema)
       /\ value # NoValue => More /\ FrameHeight(frame) > 0

\* A column is in its dtype of the schema unless a lower HStack has made it in another.
RetypedBelow(x, k) ==
  \E j \in 1..(k - 1) : \E i \in DOMAIN Layers[j] : Layers[j][i].name = x /\ Retyped(Layers[j][i], j)
FrameBelow(k) ==
  \A x \in DOMAIN SchemaBelow(k) :
    x \in DOMAIN frame /\ (frame[x].dtype # SchemaBelow(k)[x] => RetypedBelow(x, k))
FrameInv == hstage = "bind" => FrameBelow(layer)

HCauseInv == LayerInv /\ LoweredLayers /\ MadeInv /\ FrameInv /\ HStackFailsForCause

LEMMA LayerFacts ==
  ASSUME case \in Cases, Layers # <<>>
  PROVE  /\ Len(Layers) \in Nat /\ Len(Layers) >= 1 /\ DOMAIN Layers = 1..Len(Layers)
         /\ \A k \in 1..Len(Layers) :
              /\ Len(Layers[k]) \in Nat /\ DOMAIN Layers[k] = 1..Len(Layers[k])
              /\ \A i \in 1..Len(Layers[k]) : Fusable(Layers[k][i].expr, SchemaBelow(k))
                                                => IsExpression(Layers[k][i].expr, SchemaBelow(k))
<1>1. IsSequence(Layers)
  BY LayerAssumption DEF Layers
<1>2. Len(Layers) \in Nat /\ Len(Layers) >= 1 /\ DOMAIN Layers = 1..Len(Layers)
  BY <1>1, SequenceFacts
<1>3. \A k \in 1..Len(Layers) :
        /\ IsSequence(Layers[k])
        /\ \A i \in DOMAIN Layers[k] : Fusable(Layers[k][i].expr, SchemaBelow(k))
                                         => IsExpression(Layers[k][i].expr, SchemaBelow(k))
  BY <1>2, LayerAssumption DEF Layers, SchemaBelow
<1>4. QED
  BY <1>2, <1>3, SequenceFacts

LEMMA SchemaSteps ==
  ASSUME case \in Cases, Layers # <<>>
  PROVE  /\ SchemaBelow(1) = [x \in Names |-> Dtype(x)]
         /\ \A k \in 1..Len(Layers) : SchemaBelow(k + 1) = SchemaAbove(SchemaBelow(k), Layers[k])
<1>1. Len(case.layers) \in Nat
  BY LayerFacts DEF Layers
<1>2. QED
  BY <1>1, SchemasEquation DEF SchemaBelow, Layers, Names, Dtype

\* What the case alone says.
LEMMA SameLayers ==
  ASSUME UNCHANGED case
  PROVE  /\ Layers' = Layers
         /\ \A k : SchemaBelow(k)' = SchemaBelow(k)
         /\ \A k : LoweredLayer(k)' <=> LoweredLayer(k)
         /\ \A x, k : RetypedBelow(x, k)' <=> RetypedBelow(x, k)
<1>1. Layers' = Layers
  BY DEF Layers
<1>2. \A k : SchemaBelow(k)' = SchemaBelow(k)
  BY DEF SchemaBelow
<1>3. \A k : LoweredLayer(k)' <=> LoweredLayer(k)
  BY <1>1, <1>2 DEF LoweredLayer
<1>4. \A b, k : Retyped(b, k)' <=> Retyped(b, k)
  BY <1>2 DEF Retyped
<1>5. \A x, k : RetypedBelow(x, k)' <=> RetypedBelow(x, k)
  BY <1>1, <1>4 DEF RetypedBelow
<1>6. QED
  BY <1>1, <1>2, <1>3, <1>5

\* What an HStack fails for.
BindingCause(b, k) ==
  \/ ReadsRetyped(b, k)
  \/ \E x \in InputNames(b.expr) : SchemaBelow(k)[x] \in {"F64", "Bool"}
  \/ Masked(b, k) /\ PredicateTags(b.expr, SchemaBelow(k)) \cap {"I8", "I64", "U64"} # {}
HStackCause == phase = "failed" \/ \E k \in DOMAIN Layers : \E i \in DOMAIN Layers[k] : BindingCause(Layers[k][i], k)

LEMMA CausesOfFailure == HStackFailsForCause <=> (hstage = "failed" => HStackCause)
BY DEF HStackFailsForCause, HStackCause, BindingCause, SomeBinding

LEMMA SameCause ==
  ASSUME UNCHANGED <<case, handling, phase>>
  PROVE  HStackCause' <=> HStackCause
<1>1. Layers' = Layers /\ \A k : SchemaBelow(k)' = SchemaBelow(k)
  BY SameLayers
<1>2. \A b, k : Retyped(b, k)' <=> Retyped(b, k)
  BY <1>1 DEF Retyped
<1>3. \A b, k : ReadsRetyped(b, k)' <=> ReadsRetyped(b, k)
  BY <1>1, <1>2 DEF ReadsRetyped
<1>4. \A b, k : Masked(b, k)' <=> Masked(b, k)
  BY <1>1 DEF Masked
<1>5. \A b, k : BindingCause(b, k)' <=> BindingCause(b, k)
  BY <1>1, <1>3, <1>4 DEF BindingCause
<1>6. QED
  BY <1>1, <1>5 DEF HStackCause

LEMMA InitHCauseInv == HStackInit => HCauseInv
<1> SUFFICES ASSUME HStackInit PROVE HCauseInv
  OBVIOUS
<1>1. case \in Cases /\ made = <<>> /\ value = NoValue /\ layer = Len(Layers)
  BY DEF HStackInit, QueryInit, Init
<1>2. hstage = IF Layers = <<>> THEN "none" ELSE "analyze"
  BY DEF HStackInit
<1>3. Layers # <<>> => Len(Layers) \in Nat
  BY <1>1, LayerFacts
<1>4. LayerInv /\ LoweredLayers /\ MadeInv /\ FrameInv /\ HStackFailsForCause
  BY <1>1, <1>2, <1>3 DEF LayerInv, LoweredLayers, MadeInv, FrameInv, HStackFailsForCause
<1>5. QED BY <1>4 DEF HCauseInv

\* The walker.
LEMMA AnalyzeCauses ==
  ASSUME HCauseInv, UNCHANGED case, AnalyzeLayer \/ AnalyzeInput \/ StampNulls
  PROVE  HCauseInv'
<1>1. LayerInv /\ LoweredLayers /\ MadeInv
  BY DEF HCauseInv
<1>2. hstage \in {"analyze", "nulls"} /\ case \in Cases /\ Layers # <<>>
  BY <1>1 DEF LayerInv, AnalyzeLayer, AnalyzeInput, StampNulls
<1>3. Len(Layers) \in Nat /\ Len(Layers) >= 1 /\ DOMAIN Layers = 1..Len(Layers)
  BY <1>2, LayerFacts
<1>4. made = <<>> /\ value = NoValue /\ made' = made /\ value' = value
  BY <1>1, <1>2 DEF MadeInv, AnalyzeLayer, AnalyzeInput, StampNulls
<1>5. CASE AnalyzeLayer
  <2>1. /\ layer \in 1..Len(Layers) /\ hstage = "analyze"
        /\ \/ LoweredLayer(layer) /\ layer' = layer - 1 /\ hstage' = "analyze"
           \/ hstage' = "left to Polars"
    <3>1. hstage = "analyze" /\ layer > 0
      BY <1>5 DEF AnalyzeLayer
    <3>2. layer \in 1..Len(Layers)
      BY <1>1, <1>3, <3>1 DEF LayerInv
    <3>3. CASE LoweredLayer(layer)
      BY <1>5, <3>1, <3>2, <3>3 DEF AnalyzeLayer, LoweredLayer
    <3>4. CASE ~LoweredLayer(layer)
      BY <1>5, <3>1, <3>2, <3>4 DEF AnalyzeLayer, LoweredLayer, LeaveToPolars
    <3>5. QED BY <3>3, <3>4
  <2>2. CASE hstage' = "analyze" /\ layer' = layer - 1 /\ LoweredLayer(layer)
    <3>1. \A k \in 1..Len(Layers) : k > layer' => k > layer \/ k = layer
      BY <1>3, <2>1, <2>2
    <3>2. \A k \in 1..Len(Layers) : k > layer' => LoweredLayer(k)
      BY <1>1, <2>1, <2>2, <3>1 DEF LoweredLayers
    <3>3. layer' \in 0..Len(Layers)
      BY <1>3, <2>1, <2>2
    <3>4. LayerInv' /\ LoweredLayers'
      BY <1>2, <2>2, <3>2, <3>3, SameLayers DEF LayerInv, LoweredLayers
    <3>5. MadeInv' /\ FrameInv' /\ HStackFailsForCause'
      BY <1>4, <2>2 DEF MadeInv, NoValue, FrameInv, HStackFailsForCause
    <3>6. QED BY <3>4, <3>5 DEF HCauseInv
  <2>3. CASE hstage' = "left to Polars"
    BY <1>2, <2>3, SameLayers DEF HCauseInv, LayerInv, LoweredLayers, MadeInv, FrameInv, HStackFailsForCause
  <2>4. QED BY <2>1, <2>2, <2>3
<1>6. CASE AnalyzeInput \/ StampNulls
  <2>1. \/ hstage' = "left to Polars"
        \/ hstage' = "nulls" /\ layer' = 1 /\ hstage = "analyze" /\ layer = 0
        \/ hstage' = "input" /\ layer' = 1 /\ hstage = "nulls"
        \/ hstage' = "nulls" /\ layer' = layer + 1 /\ hstage = "nulls" /\ layer # Len(Layers)
    BY <1>6 DEF AnalyzeInput, StampNulls, LeaveToPolars
  <2>2. CASE hstage' = "left to Polars"
    BY <1>2, <2>2, SameLayers DEF HCauseInv, LayerInv, LoweredLayers, MadeInv, FrameInv, HStackFailsForCause
  <2>3. CASE hstage' \in {"nulls", "input"}
    <3>1. \A k \in 1..Len(Layers) : LoweredLayer(k)
      <4>1. CASE hstage = "analyze"
        <5>1. layer = 0
          BY <2>1, <2>3, <4>1
        <5>2. \A k \in 1..Len(Layers) : k > layer
          BY <1>3, <5>1
        <5>3. QED BY <1>1, <4>1, <5>2 DEF LoweredLayers
      <4>2. CASE hstage = "nulls"
        BY <4>2, <1>1 DEF LoweredLayers
      <4>3. QED BY <1>2, <4>1, <4>2
    <3>2. layer' \in 1..Len(Layers) /\ (hstage' = "input" => layer' = 1)
      <4>1. hstage = "nulls" => layer \in 1..Len(Layers)
        BY <1>1 DEF LayerInv
      <4>2. \/ layer' = 1
            \/ hstage' = "nulls" /\ layer' = layer + 1 /\ hstage = "nulls" /\ layer # Len(Layers)
        BY <2>1, <2>3
      <4>3. QED BY <1>3, <4>1, <4>2
    <3>3. LayerInv' /\ LoweredLayers'
      BY <1>2, <2>3, <3>1, <3>2, SameLayers DEF LayerInv, LoweredLayers
    <3>4. MadeInv' /\ FrameInv' /\ HStackFailsForCause'
      BY <1>4, <2>3 DEF MadeInv, NoValue, FrameInv, HStackFailsForCause
    <3>5. QED BY <3>3, <3>4 DEF HCauseInv
  <2>4. QED BY <2>1, <2>2, <2>3
<1>7. QED BY <1>5, <1>6

\* Steps that leave the stages in which anything is claimed.
LEMMA EndCauses ==
  ASSUME HCauseInv, UNCHANGED case, Layers # <<>>, hstage' \in {"answered", "faulted", "failed"},
         hstage' = "failed" => HStackCause'
  PROVE  HCauseInv'
<1>1. case \in Cases
  BY DEF HCauseInv, LayerInv
<1>2. LayerInv' /\ LoweredLayers' /\ MadeInv' /\ FrameInv'
  BY <1>1, SameLayers DEF LayerInv, LoweredLayers, MadeInv, FrameInv
<1>3. HStackFailsForCause'
  <2>1. hstage' = "failed" => HStackCause'
    OBVIOUS
  <2>2. QED BY <2>1 DEF HStackFailsForCause, HStackCause, BindingCause, SomeBinding
<1>4. QED BY <1>2, <1>3 DEF HCauseInv

LEMMA InputCauses ==
  ASSUME HCauseInv, UNCHANGED case, TakeInput
  PROVE  HCauseInv'
<1>1. LayerInv /\ LoweredLayers /\ MadeInv
  BY DEF HCauseInv
<1>2. /\ hstage = "input" /\ case \in Cases /\ Layers # <<>> /\ layer = 1 /\ layer' = layer
      /\ made = <<>> /\ made' = made /\ value = NoValue /\ value' = value
      /\ UNCHANGED <<phase, handling>>
  BY <1>1 DEF LayerInv, MadeInv, TakeInput, query, vars
<1>3. Len(Layers) \in Nat /\ Len(Layers) >= 1 /\ Len(Layers[1]) \in Nat
  <2>1. Len(Layers) \in Nat /\ Len(Layers) >= 1
    BY <1>2, LayerFacts
  <2>2. 1 \in 1..Len(Layers)
    BY <2>1
  <2>3. QED BY <1>2, <2>1, <2>2, LayerFacts
<1>4. CASE hstage' = "failed" /\ phase = "failed"
  BY <1>2, <1>4, EndCauses DEF HStackCause
<1>5. CASE hstage' = "bind" /\ \E f : frame' = Columns(f)
  <2>1. LayerInv' /\ LoweredLayers'
    BY <1>1, <1>2, <1>3, <1>5, SameLayers DEF LayerInv, LoweredLayers
  <2>2. MadeInv'
    <3>1. IsSequence(<<>>) /\ Len(<<>>) = 0
      BY DEF IsSequence
    <3>2. MadeColumns(Layers[1], SchemaBelow(1))'
      <4>1. Layers' = Layers /\ made' = <<>>
        BY <1>2, SameLayers
      <4>2. QED BY <1>3, <3>1, <4>1 DEF MadeColumns
    <3>3. value' = NoValue'
      BY <1>2 DEF NoValue
    <3>4. QED BY <1>2, <1>5, <3>2, <3>3 DEF MadeInv, Schema
  <2>3. FrameInv'
    <3>1. PICK f : frame' = Columns(f)
      BY <1>5
    <3>2. DOMAIN frame' = Names /\ \A x \in Names : frame'[x].dtype = Dtype(x)
      BY <3>1 DEF Columns
    <3>3. SchemaBelow(1) = [x \in Names |-> Dtype(x)]
      BY <1>2, SchemaSteps
    <3>4. \A x \in DOMAIN SchemaBelow(1) : x \in DOMAIN frame' /\ frame'[x].dtype = SchemaBelow(1)[x]
      BY <3>2, <3>3
    <3>5. FrameBelow(1)'
      BY <3>4, SameLayers DEF FrameBelow
    <3>6. QED BY <1>2, <3>5 DEF FrameInv
  <2>4. HStackFailsForCause'
    BY <1>5 DEF HStackFailsForCause
  <2>5. QED BY <2>1, <2>2, <2>3, <2>4 DEF HCauseInv
<1>6. QED BY <1>4, <1>5 DEF TakeInput

\* The bindings of the HStack at hand, over the schema and the frame below it.
Binding(L, s) ==
  /\ case \in Cases /\ Layers # <<>> /\ layer \in 1..Len(Layers)
  /\ L = Layers[layer] /\ s = SchemaBelow(layer)
  /\ Len(L) \in Nat /\ DOMAIN L = 1..Len(L)
  /\ \A i \in 1..Len(L) : BindingLowered(L[i].expr, s) /\ IsExpression(L[i].expr, s)
  /\ MadeColumns(L, s) /\ Len(made) \in Nat
  /\ FrameBelow(layer)

LEMMA BindingFacts ==
  ASSUME HCauseInv, hstage = "bind"
  PROVE  Binding(Layers[layer], Schema)
<1>1. /\ case \in Cases /\ Layers # <<>> /\ layer \in 1..Len(Layers)
      /\ LoweredLayer(layer) /\ MadeColumns(Layers[layer], Schema) /\ FrameBelow(layer)
  <2>1. "bind" # "none"
    OBVIOUS
  <2>2. QED BY <2>1 DEF HCauseInv, LayerInv, LoweredLayers, MadeInv, FrameInv
<1>2. PICK L, s : L = Layers[layer] /\ s = SchemaBelow(layer)
  OBVIOUS
<1>3. /\ Len(L) \in Nat /\ DOMAIN L = 1..Len(L)
      /\ \A i \in 1..Len(L) : Fusable(L[i].expr, s) => IsExpression(L[i].expr, s)
  BY <1>1, <1>2, LayerFacts
<1>4. \A i \in 1..Len(L) : BindingLowered(L[i].expr, s)
  BY <1>1, <1>2, <1>3 DEF LoweredLayer
<1>5. \A i \in 1..Len(L) : IsExpression(L[i].expr, s)
  BY <1>3, <1>4 DEF BindingLowered
<1>6. MadeColumns(L, s) /\ Len(made) \in Nat
  BY <1>1, <1>2 DEF MadeColumns, IsSequence, Schema
<1>7. QED
  BY <1>1, <1>2, <1>3, <1>4, <1>5, <1>6 DEF Binding, Schema

\* The binding at hand is one of the case: what it fails for is a cause.
LEMMA CauseAtHand ==
  ASSUME NEW L, NEW s, Binding(L, s), More, BindingCause(Next1, layer)
  PROVE  HStackCause
<1>1. layer \in DOMAIN Layers /\ Len(made) + 1 \in DOMAIN Layers[layer]
  <2>1. Len(made) + 1 \in DOMAIN L /\ L = Layers[layer]
    BY DEF Binding, More
  <2>2. DOMAIN Layers = 1..Len(Layers)
    BY LayerFacts DEF Binding
  <2>3. QED BY <2>1, <2>2 DEF Binding
<1>2. QED
  BY <1>1 DEF HStackCause, Next1

LEMMA NextBinding ==
  ASSUME NEW L, NEW s, Binding(L, s), More
  PROVE  /\ Next1 = L[Len(made) + 1] /\ Len(made) + 1 \in 1..Len(L)
         /\ BindingLowered(Next1.expr, s) /\ IsExpression(Next1.expr, s) /\ Fusable(Next1.expr, s)
<1>1. Next1 = L[Len(made) + 1] /\ Len(made) + 1 \in 1..Len(L)
  BY DEF Binding, More, Next1
<1>2. BindingLowered(Next1.expr, s) /\ IsExpression(Next1.expr, s)
  BY <1>1 DEF Binding
<1>3. QED
  BY <1>1, <1>2 DEF BindingLowered

LEMMA ValueCauses ==
  ASSUME HCauseInv, UNCHANGED case, DispatchValue
  PROVE  HCauseInv'
<1>1. /\ hstage = "bind" /\ More /\ UNCHANGED <<phase, handling, layer, made, frame>>
      /\ FrameHeight(frame) > 0
      /\ \/ hstage' = "failed" /\ (ValueGraphFails(Next1.expr, Schema) \/ Misstaged(Next1.expr))
         \/ hstage' = hstage
  BY DEF DispatchValue, query, vars
<1>2. PICK L, s : L = Layers[layer] /\ s = Schema /\ Binding(L, s)
  BY <1>1, BindingFacts
<1>3. Layers # <<>> /\ s = SchemaBelow(layer)
  BY <1>2 DEF Binding
<1>4. CASE hstage' = "failed" /\ ValueGraphFails(Next1.expr, s)
  <2>1. \E x \in InputNames(Next1.expr) : s[x] \in {"F64", "Bool"}
    BY <1>1, <1>2, <1>4, NextBinding, ValueGraphCauses
  <2>2. BindingCause(Next1, layer)
    BY <1>3, <2>1 DEF BindingCause
  <2>3. HStackCause'
    BY <1>1, <1>2, <2>2, CauseAtHand, SameCause
  <2>4. QED BY <1>3, <1>4, <2>3, EndCauses
<1>5. CASE hstage' = "failed" /\ Misstaged(Next1.expr)
  <2>1. PICK x \in InputNames(Next1.expr) : frame[x].dtype # s[x]
    BY <1>2, <1>5 DEF Misstaged
  <2>2. x \in DOMAIN s
    <3>1. Fusable(Next1.expr, s)
      BY <1>1, <1>2, NextBinding
    <3>2. PICK k \in DOMAIN Next1.expr : Next1.expr[k].op = "Column" /\ x = Next1.expr[k].name
      BY DEF InputNames
    <3>3. Admitted(Next1.expr[k], s)
      BY <3>1 DEF Fusable
    <3>4. QED BY <3>2, <3>3, AdmittedOps
  <2>3. RetypedBelow(x, layer)
    BY <1>2, <1>3, <2>1, <2>2 DEF Binding, FrameBelow
  <2>4. BindingCause(Next1, layer)
    BY <2>3 DEF BindingCause, ReadsRetyped, RetypedBelow
  <2>5. HStackCause'
    BY <1>1, <1>2, <2>4, CauseAtHand, SameCause
  <2>6. QED BY <1>3, <1>5, <2>5, EndCauses
<1>6. CASE hstage' = hstage
  <2>1. LayerInv /\ LoweredLayers /\ MadeInv /\ FrameInv
    BY DEF HCauseInv
  <2>2. Layers' = Layers /\ (\A k : SchemaBelow(k)' = SchemaBelow(k))
    BY SameLayers
  <2>3. LayerInv' /\ LoweredLayers'
    BY <1>1, <1>6, <2>1, <2>2, SameLayers DEF LayerInv, LoweredLayers
  <2>4. MadeInv'
    <3>1. Schema' = Schema /\ (More' <=> More)
      BY <1>1, <2>2 DEF Schema, More
    <3>2. MadeColumns(Layers[layer], Schema)' <=> MadeColumns(Layers[layer], Schema)
      BY <1>1, <2>2, <3>1 DEF MadeColumns
    <3>3. QED BY <1>1, <1>6, <2>1, <3>1, <3>2 DEF MadeInv
  <2>5. FrameInv'
    <3>1. FrameBelow(layer)' <=> FrameBelow(layer)
      BY <1>1, <2>2, SameLayers DEF FrameBelow
    <3>2. QED BY <1>1, <1>6, <2>1, <3>1 DEF FrameInv
  <2>6. HStackFailsForCause'
    BY <1>1, <1>6 DEF HStackFailsForCause
  <2>7. QED BY <2>3, <2>4, <2>5, <2>6 DEF HCauseInv
<1>7. QED BY <1>1, <1>2, <1>4, <1>5, <1>6

\* A step that makes columns, over the same frame.
LEMMA MadeCauses ==
  ASSUME HCauseInv, UNCHANGED case, hstage = "bind", UNCHANGED <<hstage, layer, frame>>,
         NEW L, NEW s, Binding(L, s), IsSequence(made'), Len(made') <= Len(L),
         \A i \in 1..Len(made') : made'[i].dtype = OutTag(L[i].expr, s),
         value' # NoValue => More' /\ FrameHeight(frame) > 0
  PROVE  HCauseInv'
<1>1. LayerInv /\ LoweredLayers /\ FrameInv
  BY DEF HCauseInv
<1>2. L = Layers[layer] /\ s = SchemaBelow(layer)
  BY DEF Binding
<1>3. Layers' = Layers /\ (\A k : SchemaBelow(k)' = SchemaBelow(k))
  BY SameLayers
<1>4. LayerInv' /\ LoweredLayers'
  BY <1>1, <1>3, SameLayers DEF LayerInv, LoweredLayers
<1>5. MadeInv'
  <2>1. Layers'[layer'] = L /\ Schema' = s
    BY <1>2, <1>3 DEF Schema
  <2>2. MadeColumns(Layers[layer], Schema)'
    BY <2>1 DEF MadeColumns
  <2>3. NoValue' = NoValue
    BY DEF NoValue
  <2>4. QED BY <2>2, <2>3 DEF MadeInv
<1>6. FrameInv'
  <2>1. FrameBelow(layer)' <=> FrameBelow(layer)
    BY <1>3, SameLayers DEF FrameBelow
  <2>2. QED BY <1>1, <2>1 DEF FrameInv
<1>7. HStackFailsForCause'
  BY DEF HStackFailsForCause
<1>8. QED BY <1>4, <1>5, <1>6, <1>7 DEF HCauseInv

LEMMA EmptyCauses ==
  ASSUME HCauseInv, UNCHANGED case, BindEmpty
  PROVE  HCauseInv'
<1>1. /\ hstage = "bind" /\ UNCHANGED <<hstage, layer, frame, value>> /\ made = <<>>
      /\ made' = [i \in DOMAIN Layers[layer] |->
                   [dtype |-> OutTag(Layers[layer][i].expr, Schema), values |-> <<>>]]
  BY DEF BindEmpty
<1>2. PICK L, s : L = Layers[layer] /\ s = Schema /\ Binding(L, s)
  BY <1>1, BindingFacts
<1>3. Len(L) \in Nat /\ made' = [i \in 1..Len(L) |-> [dtype |-> OutTag(L[i].expr, s), values |-> <<>>]]
  BY <1>1, <1>2 DEF Binding
<1>4. IsSequence(made') /\ Len(made') = Len(L)
  <2>1. made' \in Seq({made'[i] : i \in 1..Len(L)}) /\ Len(made') = Len(L)
    BY <1>3
  <2>2. made' = [i \in 1..Len(made') |-> made'[i]]
    BY <1>3, <2>1
  <2>3. QED BY <1>3, <2>1, <2>2 DEF IsSequence
<1>5. \A i \in 1..Len(made') : made'[i].dtype = OutTag(L[i].expr, s)
  BY <1>3, <1>4
<1>6. value' = NoValue
  <2>1. ~(FrameHeight(frame) > 0)
    BY DEF BindEmpty
  <2>2. QED BY <1>1, <2>1 DEF HCauseInv, MadeInv
<1>7. QED
  BY <1>1, <1>2, <1>3, <1>4, <1>5, <1>6, MadeCauses

LEMMA AttachCauses ==
  ASSUME HCauseInv, UNCHANGED case, AttachNulls
  PROVE  HCauseInv'
<1>1. /\ hstage = "bind" /\ UNCHANGED <<phase, handling, layer, frame>>
      /\ \/ /\ hstage' = "failed" /\ handling[layer][Len(made) + 1] = "where"
            /\ ValidityGraphFails(Next1.expr, Schema)
         \/ /\ UNCHANGED hstage /\ value' = NoValue
            /\ \E c : made' = Append(made, c) /\ c.dtype = OutTag(Next1.expr, Schema)
  BY DEF AttachNulls, query, vars
<1>2. PICK L, s : L = Layers[layer] /\ s = Schema /\ Binding(L, s)
  BY <1>1, BindingFacts
<1>3. Layers # <<>> /\ s = SchemaBelow(layer)
  BY <1>2 DEF Binding
<1>4. More
  BY <1>1 DEF HCauseInv, MadeInv, AttachNulls
<1>5. /\ Next1 = L[Len(made) + 1] /\ Len(made) + 1 \in 1..Len(L)
      /\ IsExpression(Next1.expr, s) /\ Fusable(Next1.expr, s)
  BY <1>2, <1>4, NextBinding
<1>6. CASE hstage' = "failed" /\ handling[layer][Len(made) + 1] = "where" /\ ValidityGraphFails(Next1.expr, s)
  <2>1. \/ \E x \in InputNames(Next1.expr) : s[x] \in {"F64", "Bool"}
        \/ PredicateTags(Next1.expr, s) \cap {"I8", "I64", "U64"} # {}
    BY <1>5, <1>6, ValidityGraphCauses
  <2>2. Masked(Next1, layer)
    <3>1. Len(made) + 1 \in DOMAIN Layers[layer] /\ Layers[layer][Len(made) + 1] = Next1
      BY <1>2, <1>5 DEF Binding
    <3>2. QED BY <1>6, <3>1 DEF Masked
  <2>3. BindingCause(Next1, layer)
    BY <1>3, <2>1, <2>2 DEF BindingCause
  <2>4. HStackCause'
    BY <1>1, <1>2, <1>4, <2>3, CauseAtHand, SameCause
  <2>5. QED BY <1>3, <1>6, <2>4, EndCauses
<1>7. ASSUME UNCHANGED hstage, value' = NoValue, NEW c, made' = Append(made, c),
             c.dtype = OutTag(Next1.expr, s)
      PROVE  HCauseInv'
  <2>1. /\ IsSequence(made) /\ Len(made) \in Nat /\ Len(L) \in Nat
        /\ \A i \in 1..Len(made) : made[i].dtype = OutTag(L[i].expr, s)
    BY <1>2 DEF Binding, MadeColumns
  <2>2. /\ IsSequence(made') /\ Len(made') = Len(made) + 1
        /\ \A i \in 1..Len(made) : made'[i] = made[i]
        /\ made'[Len(made) + 1] = c
    <3>1. PICK m, q : m = made /\ q = made'
      OBVIOUS
    <3>2. IsSequence(m) /\ q = Append(m, c)
      BY <1>7, <2>1, <3>1
    <3>3. /\ IsSequence(q) /\ Len(q) = Len(m) + 1
          /\ \A i \in 1..Len(m) : q[i] = m[i]
          /\ q[Len(m) + 1] = c
      BY <3>2, AppendedSequence
    <3>4. QED BY <3>1, <3>3
  <2>3. Len(made') <= Len(L)
    BY <1>5, <2>1, <2>2
  <2>4. \A i \in 1..Len(made') : i \in 1..Len(made) \/ i = Len(made) + 1
    BY <2>1, <2>2
  <2>5. \A i \in 1..Len(made') : made'[i].dtype = OutTag(L[i].expr, s)
    BY <1>5, <1>7, <2>1, <2>2, <2>4
  <2>6. QED
    BY <1>1, <1>2, <1>7, <2>2, <2>3, <2>5, MadeCauses
<1>8. QED BY <1>1, <1>2, <1>6, <1>7

\* An HStack whose columns are made: the next one finds them in their dtypes, or finds them
\* made in others.
LEMMA AppendCauses ==
  ASSUME HCauseInv, UNCHANGED case, AppendColumns
  PROVE  HCauseInv'
<1>1. hstage = "bind" /\ ~More /\ made' = <<>> /\ value' = value
  BY DEF AppendColumns
<1>2. PICK L, s : L = Layers[layer] /\ s = Schema /\ Binding(L, s)
  BY <1>1, BindingFacts
<1>3. Layers # <<>> /\ layer \in 1..Len(Layers) /\ case \in Cases /\ s = SchemaBelow(layer)
  BY <1>2 DEF Binding
<1>4. Len(Layers) \in Nat /\ Len(Layers) >= 1
  BY <1>3, LayerFacts
<1>5. \/ hstage' = "answered"
      \/ hstage' = "bind" /\ layer' = layer + 1 /\ layer # Len(Layers)
  BY <1>1 DEF AppendColumns
<1>6. CASE hstage' = "answered"
  BY <1>3, <1>6, EndCauses
<1>7. CASE hstage' = "bind" /\ layer' = layer + 1 /\ layer # Len(Layers)
  <2>1. layer + 1 \in 1..Len(Layers)
    BY <1>3, <1>4, <1>7
  <2>2. LayerInv' /\ LoweredLayers'
    <3>1. \A k \in 1..Len(Layers) : LoweredLayer(k)
      BY <1>1 DEF HCauseInv, LoweredLayers
    <3>2. QED
      BY <1>3, <1>7, <2>1, <3>1, SameLayers DEF LayerInv, LoweredLayers
  <2>3. MadeInv'
    <3>1. value = NoValue
      BY <1>1 DEF HCauseInv, MadeInv
    <3>2. IsSequence(<<>>) /\ Len(<<>>) = 0
      BY DEF IsSequence
    <3>3. Len(Layers[layer + 1]) \in Nat
      BY <1>3, <2>1, LayerFacts
    <3>4. PICK k : k = layer + 1 /\ k = layer'
      BY <1>7
    <3>5. MadeColumns(Layers[k], SchemaBelow(k))'
      <4>1. Layers' = Layers /\ made' = <<>>
        BY <1>1, SameLayers
      <4>2. QED BY <3>2, <3>3, <3>4, <4>1 DEF MadeColumns
    <3>6. QED BY <1>1, <1>7, <3>1, <3>4, <3>5 DEF MadeInv, NoValue, Schema
  <2>4. FrameInv'
    <3>1. PICK N : N = {L[i].name : i \in DOMAIN L}
      OBVIOUS
    <3>2. /\ Len(made) = Len(L) /\ IsSequence(made) /\ DOMAIN made = DOMAIN L
          /\ \A i \in DOMAIN L : made[i].dtype = OutTag(L[i].expr, s)
      <4>1. Len(made) = Len(L) /\ IsSequence(made) /\ Len(made) \in Nat /\ DOMAIN L = 1..Len(L)
        BY <1>1, <1>2 DEF Binding, MadeColumns, More
      <4>2. DOMAIN made = 1..Len(made)
        BY <4>1 DEF IsSequence
      <4>3. QED BY <1>2, <4>1, <4>2 DEF Binding, MadeColumns
    <3>3. /\ DOMAIN frame' = N \cup DOMAIN frame
          /\ \A x \in N : frame'[x] = made[Binder(L, x)]
          /\ \A x \in DOMAIN frame \ N : frame'[x] = frame[x]
      BY <1>2, <3>1, <3>2 DEF AppendColumns, WithColumns
    <3>4. \A x \in N : Binder(L, x) \in DOMAIN L /\ L[Binder(L, x)].name = x
      BY <3>1 DEF Binder
    <3>5. SchemaBelow(layer + 1) = SchemaAbove(s, L)
      BY <1>2, <1>3, SchemaSteps
    <3>6. /\ DOMAIN SchemaAbove(s, L) = DOMAIN s \cup N
          /\ \A x \in N : SchemaAbove(s, L)[x] = PolarsDtype(L[Binder(L, x)].expr, s)
          /\ \A x \in DOMAIN s \ N : SchemaAbove(s, L)[x] = s[x]
      BY <3>1 DEF SchemaAbove, WithColumns
    <3>7. ASSUME NEW x \in N
          PROVE  /\ x \in DOMAIN frame'
                 /\ frame'[x].dtype # SchemaAbove(s, L)[x] => RetypedBelow(x, layer + 1)
      <4>1. PICK i \in DOMAIN L : i = Binder(L, x) /\ L[i].name = x
        BY <3>4
      <4>2. frame'[x].dtype = OutTag(L[i].expr, s) /\ SchemaAbove(s, L)[x] = PolarsDtype(L[i].expr, s)
        BY <3>2, <3>3, <3>6, <4>1
      <4>3. frame'[x].dtype # SchemaAbove(s, L)[x] => Retyped(L[i], layer)
        BY <1>3, <4>2 DEF Retyped
      <4>4. layer \in 1..((layer + 1) - 1) /\ i \in DOMAIN Layers[layer] /\ Layers[layer][i] = L[i]
        BY <1>2, <1>3, <1>4, <4>1
      <4>5. Retyped(L[i], layer) => RetypedBelow(x, layer + 1)
        BY <4>1, <4>4 DEF RetypedBelow
      <4>6. QED BY <3>3, <4>3, <4>5
    <3>8. ASSUME NEW x \in DOMAIN s \ N
          PROVE  /\ x \in DOMAIN frame'
                 /\ frame'[x].dtype # SchemaAbove(s, L)[x] => RetypedBelow(x, layer + 1)
      <4>1. x \in DOMAIN frame /\ (frame[x].dtype # s[x] => RetypedBelow(x, layer))
        BY <1>2, <1>3 DEF Binding, FrameBelow
      <4>2. frame'[x] = frame[x] /\ SchemaAbove(s, L)[x] = s[x]
        BY <3>3, <3>6, <4>1
      <4>3. RetypedBelow(x, layer) => RetypedBelow(x, layer + 1)
        <5>1. \A j \in 1..(layer - 1) : j \in 1..((layer + 1) - 1)
          BY <1>3, <1>4
        <5>2. QED BY <5>1 DEF RetypedBelow
      <4>4. QED BY <3>3, <4>1, <4>2, <4>3
    <3>9. \A x \in DOMAIN SchemaBelow(layer + 1) :
            x \in DOMAIN frame' /\ (frame'[x].dtype # SchemaBelow(layer + 1)[x] => RetypedBelow(x, layer + 1))
      BY <3>5, <3>6, <3>7, <3>8
    <3>10. PICK k : k = layer + 1 /\ k = layer'
      BY <1>7
    <3>11. FrameBelow(k)'
      BY <3>9, <3>10, SameLayers DEF FrameBelow
    <3>12. QED BY <3>10, <3>11 DEF FrameInv
  <2>5. HStackFailsForCause'
    BY <1>7 DEF HStackFailsForCause
  <2>6. QED BY <2>2, <2>3, <2>4, <2>5 DEF HCauseInv
<1>8. QED BY <1>5, <1>6, <1>7

\* The queries below, and the Filter below an HStack, leave the HStacks where they are.
LEMMA OtherCauses ==
  ASSUME HCauseInv, UNCHANGED case, OtherRuns
  PROVE  HCauseInv'
<1>1. LayerInv /\ LoweredLayers /\ MadeInv /\ FrameInv
  BY DEF HCauseInv
<1>2. /\ Layers = <<>> \/ hstage = "input"
      /\ UNCHANGED <<hstage, layer, handling, frame, made, value>>
  BY DEF OtherRuns, hvars
<1>3. hstage \in {"none", "input"}
  BY <1>1, <1>2 DEF LayerInv
<1>4. LayerInv' /\ LoweredLayers'
  BY <1>1, <1>2, <1>3, SameLayers DEF LayerInv, LoweredLayers
<1>5. MadeInv' /\ FrameInv' /\ HStackFailsForCause'
  BY <1>1, <1>2, <1>3 DEF MadeInv, NoValue, FrameInv, HStackFailsForCause
<1>6. QED BY <1>4, <1>5 DEF HCauseInv

LEMMA StutterCauses ==
  ASSUME HCauseInv, UNCHANGED hquery
  PROVE  HCauseInv'
<1>1. UNCHANGED <<case, phase, hstage, layer, handling, frame, made, value>>
  BY DEF hquery, hvars, query, vars
<1>2. Layers' = Layers /\ (\A k : SchemaBelow(k)' = SchemaBelow(k))
  BY <1>1, SameLayers
<1>3. LayerInv' /\ LoweredLayers'
  BY <1>1, <1>2, SameLayers DEF HCauseInv, LayerInv, LoweredLayers
<1>4. MadeInv'
  <2>1. Schema' = Schema /\ (More' <=> More)
    BY <1>1, <1>2 DEF Schema, More
  <2>2. MadeColumns(Layers[layer], Schema)' <=> MadeColumns(Layers[layer], Schema)
    BY <1>1, <1>2, <2>1 DEF MadeColumns
  <2>3. QED BY <1>1, <2>1, <2>2 DEF HCauseInv, MadeInv, NoValue
<1>5. FrameInv'
  <2>1. FrameBelow(layer)' <=> FrameBelow(layer)
    BY <1>1, <1>2, SameLayers DEF FrameBelow
  <2>2. QED BY <1>1, <2>1 DEF HCauseInv, FrameInv
<1>6. HStackFailsForCause'
  <2>1. hstage = "failed" => HStackCause
    BY CausesOfFailure DEF HCauseInv
  <2>2. hstage' = "failed" => HStackCause'
    BY <1>1, <2>1, SameCause
  <2>3. QED BY <2>2 DEF HStackFailsForCause, HStackCause, BindingCause, SomeBinding
<1>7. QED BY <1>3, <1>4, <1>5, <1>6 DEF HCauseInv

LEMMA NextHCauseInv == HCauseInv /\ [HQueryNext]_hquery => HCauseInv'
<1> SUFFICES ASSUME HCauseInv, [HQueryNext]_hquery PROVE HCauseInv'
  OBVIOUS
<1>1. CASE HStackStep \/ HStackFault
  <2>1. UNCHANGED case
    BY <1>1 DEF HStackStep, HStackFault, AnalyzeLayer, AnalyzeInput, StampNulls, TakeInput,
           BindEmpty, DispatchValue, AttachNulls, AppendColumns, query, vars
  <2>2. CASE AnalyzeLayer \/ AnalyzeInput \/ StampNulls
    BY <2>1, <2>2, AnalyzeCauses
  <2>3. CASE TakeInput
    BY <2>1, <2>3, InputCauses
  <2>4. CASE BindEmpty
    BY <2>1, <2>4, EmptyCauses
  <2>5. CASE DispatchValue
    BY <2>1, <2>5, ValueCauses
  <2>6. CASE AttachNulls
    BY <2>1, <2>6, AttachCauses
  <2>7. CASE AppendColumns
    BY <2>1, <2>7, AppendCauses
  <2>8. CASE HStackFault
    <3>1. hstage' = "faulted" /\ hstage = "bind"
      BY <2>8 DEF HStackFault
    <3>2. Layers # <<>>
      BY <3>1 DEF HCauseInv, LayerInv
    <3>3. QED BY <2>1, <3>1, <3>2, EndCauses
  <2>9. QED BY <1>1, <2>2, <2>3, <2>4, <2>5, <2>6, <2>7, <2>8 DEF HStackStep
<1>2. CASE OtherRuns /\ (QueryStep \/ QueryNext)
  <2>1. [QueryNext]_query
    BY <1>2 DEF QueryNext
  <2>2. UNCHANGED case
    BY <2>1, QuerySteps, CaseStays
  <2>3. QED BY <1>2, <2>2, OtherCauses
<1>3. CASE UNCHANGED hquery
  BY <1>3, StutterCauses
<1>4. QED BY <1>1, <1>2, <1>3 DEF HQueryNext, HQueryStep

\* The fused path (_hstack_fused_over_upstream, execute_fused_expr) turns a lowered HStack away
\* for no other cause than a failed Filter, a column MLX has no dtype for or cannot read, a
\* predicate over integers that are not of 32 bits, or a column that a lower HStack has made in
\* another dtype than the walker takes it to be: for all expressions, HStacks and frames.  The
\* guard of eval_into_typed against a wrong inference of the result's dtype never fires.
THEOREM HStacksFailForCause == HQuerySpec => []HStackFailsForCause
<1>1. HCauseInv => HStackFailsForCause
  BY DEF HCauseInv
<1>2. QED
  BY <1>1, InitHCauseInv, NextHCauseInv, PTL DEF HQuerySpec

-----------------------------------------------------------------------------
\* What Polars makes of the frame, HStack by HStack.

LEMMA ReferencesEquation ==
  ASSUME Len(Layers) \in Nat
  PROVE  /\ ReferenceFrames[0] = Columns(Selected(InputRowsOfCase))
         /\ \A k \in 1..Len(Layers) : ReferenceFrames[k] = ReferenceLayer(ReferenceFrames[k - 1], k)
<1> DEFINE Upper(f, k)  == Only({ReferenceLayer(u, k) : u \in {f}})
<1>1. \A x, y : Upper(x, y) = ReferenceLayer(x, y)
  BY DEF Only
<1>2. PICK f, n, d : f = ReferenceFrames /\ n = Len(Layers) /\ d = Columns(Selected(InputRowsOfCase))
  OBVIOUS
<1>3. f = CHOOSE h : h = [k \in 0..n |-> IF k = 0 THEN d ELSE Upper(h[k - 1], k)]
  BY <1>2 DEF ReferenceFrames
<1> DEFINE Builds(h, m) == h = [k \in 0..m |-> IF k = 0 THEN d ELSE Upper(h[k - 1], k)]
           G == {m \in Nat : \E h : Builds(h, m)}
<1> HIDE DEF Upper
<1>4. 0 \in G
  <2>1. Builds([k \in {0} |-> d], 0)
    OBVIOUS
  <2>2. QED
    BY <2>1
<1>5. ASSUME NEW m \in G PROVE m + 1 \in G
  <2>1. PICK h : Builds(h, m)
    BY <1>5
  <2> DEFINE longer == [k \in 0..(m + 1) |-> IF k = m + 1 THEN Upper(h[m], k) ELSE h[k]]
  <2>2. Builds(longer, m + 1)
    BY <2>1
  <2>3. \E g : Builds(g, m + 1)
    <3> HIDE DEF longer, Builds
    <3>1. QED
      BY <2>2
  <2> HIDE DEF longer, Builds
  <2>4. QED
    BY <2>3
<1>6. G = Nat
  <2>1. G \in SUBSET Nat
    OBVIOUS
  <2> HIDE DEF G
  <2>2. QED
    BY <1>4, <1>5, <2>1, NumberInduction
<1>7. \E h : Builds(h, n)
  BY <1>2, <1>6
<1>8. Builds(f, n)
  BY <1>2, <1>3, <1>7
<1>9. \A k \in 0..n : f[k] = IF k = 0 THEN d ELSE Upper(f[k - 1], k)
  BY <1>2, <1>8
<1>10. QED
  BY <1>1, <1>2, <1>9

\* What the case alone says of them.
LEMMA SameReferences ==
  ASSUME UNCHANGED case
  PROVE  ReferenceFrames' = ReferenceFrames
<1>1. Layers' = Layers /\ (\A k : SchemaBelow(k)' = SchemaBelow(k))
  BY SameLayers
<1>2. Rows' = Rows /\ Names' = Names /\ (\A x : Dtype(x)' = Dtype(x)) /\ TrueRows' = TrueRows
  BY SameCase, SameTruth
<1>3. Columns(Selected(InputRowsOfCase))' = Columns(Selected(InputRowsOfCase))
  <2>1. \A x, r : Value(x, r)' = Value(x, r)
    BY DEF Value
  <2>2. OverFilter' <=> OverFilter
    BY DEF OverFilter
  <2>3. InputRowsOfCase' = InputRowsOfCase
    BY <1>2, <2>2 DEF InputRowsOfCase
  <2>4. Selected(InputRowsOfCase)' = Selected(InputRowsOfCase)
    BY <1>2, <2>1, <2>3 DEF Selected
  <2>5. QED
    BY <1>2, <2>4 DEF Columns
<1>4. \A f, k : ReferenceLayer(f, k)' = ReferenceLayer(f, k)
  BY <1>1 DEF ReferenceLayer, WithColumns
<1> DEFINE Built(h) == h = [k \in 0..Len(Layers) |-> IF k = 0 THEN Columns(Selected(InputRowsOfCase))
                                                ELSE Only({ReferenceLayer(u, k) : u \in {h[k - 1]}})]
<1>5. \A h : Built(h)' <=> Built(h)
  BY <1>1, <1>3, <1>4
<1>6. ReferenceFrames = CHOOSE h : Built(h)
  BY DEF ReferenceFrames
<1>7. ReferenceFrames' = CHOOSE h : Built(h)'
  BY DEF ReferenceFrames
<1>8. (CHOOSE h : Built(h)') = CHOOSE h : Built(h)
  <2> HIDE DEF Built
  <2>1. QED BY <1>5
<1>9. QED
  BY <1>6, <1>7, <1>8

-----------------------------------------------------------------------------
\* The frame below the HStacks.

\* A scan is read from its slices.
LEMMA MaterializedRows ==
  ASSUME case \in Cases, NEW x \in Names
  PROVE  Materialize(x) = [i \in 1..case.height |-> Value(x, i)]
<1>1. IsCase(case) /\ case.height \in Nat
  BY CaseAssumption, SourceFacts
<1>2. PICK h \in Nat : h = case.height
  BY <1>1
<1>3. PICK s, f : s = case.frame[x].parent /\ f = case.frame[x].offset
  OBVIOUS
<1>4. f \in Nat /\ IsSequence(s) /\ f + h <= Len(s)
  BY <1>1, <1>2, <1>3 DEF IsCase, Names
<1>5. Len(s) \in Nat /\ DOMAIN s = 1..Len(s)
  BY <1>4 DEF IsSequence
<1>6. PICK m, S, u, v : /\ m = SubSeq(s, u, v) /\ S = {s[i] : i \in DOMAIN s}
                        /\ u = f + 1 /\ v = f + h
  OBVIOUS
<1>7. u \in Int /\ v \in Int /\ \A j \in u..v : s[j] \in S
  <2>1. u \in Int /\ v \in Int /\ u >= 1 /\ v <= Len(s)
    BY <1>2, <1>4, <1>6
  <2>2. \A j \in u..v : j \in DOMAIN s
    BY <1>5, <2>1
  <2>3. QED BY <1>6, <2>1, <2>2
<1>8. /\ m \in Seq(S) /\ Len(m) = (IF u <= v THEN v - u + 1 ELSE 0)
      /\ \A i \in 1..(v - u + 1) : m[i] = s[u + i - 1]
  BY <1>6, <1>7, SubSeqProperties
<1>9. Len(m) = h /\ \A i \in 1..h : m[i] = s[f + i]
  <2>1. (u <= v <=> h > 0) /\ v - u + 1 = h /\ \A i \in 1..h : u + i - 1 = f + i
    BY <1>4, <1>6
  <2>2. QED BY <1>8, <2>1
<1>10. m = [i \in 1..h |-> s[f + i]]
  BY <1>8, <1>9
<1>11. QED BY <1>2, <1>3, <1>6, <1>10 DEF Materialize, Value

\* The rows it has.
LEMMA InputRows ==
  ASSUME case \in Cases
  PROVE  \E n \in Nat : /\ DOMAIN InputRowsOfCase = 1..n
                        /\ \A i \in 1..n : InputRowsOfCase[i] \in Rows
                        /\ ~OverFilter => n = case.height /\ InputRowsOfCase = [i \in 1..n |-> i]
<1>1. case.height \in Nat /\ Rows = 1..case.height
  BY SourceFacts
<1>2. PICK S : S = IF OverFilter THEN TrueRows ELSE Rows
  OBVIOUS
<1>3. S \in SUBSET Rows /\ S \in SUBSET Nat
  BY <1>1, <1>2 DEF TrueRows
<1>4. IsFiniteSet(S)
  <2>1. IsFiniteSet(Rows)
    BY <1>1, FS_Interval
  <2>2. QED BY <1>3, <2>1, FS_Subset
<1>5. Cardinality(S) \in Nat /\ Enumerates(Ascending(S), S)
  BY <1>3, <1>4, AscendingEnumerates
<1>6. /\ DOMAIN Ascending(S) = 1..Cardinality(S)
      /\ \A i \in 1..Cardinality(S) : Ascending(S)[i] \in S
  BY <1>5 DEF Enumerates
<1>7. ASSUME ~OverFilter
      PROVE  Cardinality(S) = case.height /\ Ascending(S) = [i \in 1..case.height |-> i]
  <2>1. S = 1..case.height
    BY <1>1, <1>2, <1>7
  <2>2. PICK n \in Nat : n = case.height
    BY <1>1
  <2>3. Ascending(S) = [i \in 1..n |-> i]
    BY <2>1, <2>2, AscendingInterval
  <2>4. DOMAIN Ascending(S) = 1..n
    BY <2>3
  <2>5. QED BY <1>5, <1>6, <2>2, <2>3, <2>4, FS_Interval, <2>1
<1>8. InputRowsOfCase = Ascending(S)
  BY <1>2 DEF InputRowsOfCase
<1>9. QED
  BY <1>3, <1>5, <1>6, <1>7, <1>8

\* What TakeInput takes.
LEMMA InputFrame ==
  ASSUME case \in Cases, IInv, SelInv, Lowered, OverFilter => phase = "answered", ~NanFiltered
  PROVE  (IF OverFilter THEN result ELSE [x \in Names |-> Materialize(x)]) = Selected(InputRowsOfCase)
<1>1. CASE OverFilter
  <2>1. result = Selected(Ascending(Kept))
    BY <1>1, KeptOfAnswer DEF FilterIsKept, FrameOfKept, Answered, OverFilter
  <2>2. Kept = TrueRows
    BY <1>1, KeptIsSelection DEF Selecting, OverFilter, NanFiltered
  <2>4. Selected(Ascending(Kept)) = Selected(InputRowsOfCase)
    BY <1>1, <2>2 DEF InputRowsOfCase
  <2>3. QED BY <1>1, <2>1, <2>4
<1>2. CASE ~OverFilter
  <2>1. InputRowsOfCase = [i \in 1..case.height |-> i]
    BY <1>2, InputRows
  <2>2. \A x \in Names : Materialize(x) = [i \in 1..case.height |-> Value(x, i)]
    BY MaterializedRows
  <2>3. QED BY <1>2, <2>1, <2>2 DEF Selected
<1>3. QED BY <1>1, <1>2

-----------------------------------------------------------------------------
\* Whatever its dtypes, a column of Polars has the rows of the frame.

LEMMA OperatorColumn ==
  ASSUME NEW H \in Nat, NEW n, NEW s, Admitted(n, s), n.op \notin {"Column", "Literal"},
         n.op = "Shift" => n.offset \in Nat, NEW a, IsColumn(a[1], H)
  PROVE  IsColumn(PolarsOp(n, a), H)
<1>1. n.op \in RowOps \cup Scans \cup {"Shift"}
  BY OperatorKinds
<1>2. CASE n.op \in RowOps
  BY <1>2, PolarsRows
<1>3. CASE n.op \in Scans
  <2>1. PICK q : q = Summands(n, a[1])
    OBVIOUS
  <2>2. QED BY <1>3, <2>1, PolarsScanRows
<1>4. CASE n.op = "Shift"
  <2>1. n.offset \in Nat /\ PolarsOp(n, a) = Shifted(a[1], n.offset, Null)
    BY <1>4 DEF PolarsOp, Scans
  <2>2. QED BY <2>1, ShiftedRows
<1>5. QED BY <1>1, <1>2, <1>3, <1>4

LEMMA ExpressionColumn ==
  ASSUME NEW e, NEW s, IsExpression(e, s), Fusable(e, s), NEW f, NEW H \in Nat, H = FrameHeight(f),
         \A x \in InputNames(e) : IsColumn(f[x].values, H)
  PROVE  IsColumn(PolarsValue(e, f), H)
<1>0. /\ IsArena(e) /\ Len(e) \in Nat /\ Len(e) \in 1..Len(e) /\ DOMAIN e = 1..Len(e)
      /\ \A i \in 1..Len(e) : /\ DOMAIN e[i].args = 1..Arity(e[i]) /\ Admitted(e[i], s)
                              /\ e[i].op = "Shift" => e[i].offset \in Nat
  <2>1. /\ IsArena(e) /\ Len(e) \in Nat /\ Len(e) \in 1..Len(e) /\ DOMAIN e = 1..Len(e)
        /\ \A i \in 1..Len(e) : DOMAIN e[i].args = 1..Arity(e[i]) /\ (e[i].op = "Shift" => e[i].offset \in Int)
    BY ExpressionFacts
  <2>2. \A i \in 1..Len(e) : Admitted(e[i], s)
    BY <2>1 DEF Fusable
  <2>3. ASSUME NEW i \in 1..Len(e), e[i].op = "Shift" PROVE e[i].offset \in Nat
    <3>1. PICK n : n = e[i]
      OBVIOUS
    <3>2. Admitted(n, s) /\ n.op = "Shift"
      BY <2>2, <2>3, <3>1
    <3>3. n.offset >= 0
      BY <3>2 DEF Admitted, Scans, CompareOps
    <3>4. n.offset \in Int
      BY <2>1, <2>3, <3>1
    <3>5. QED BY <3>1, <3>3, <3>4
  <2>4. QED BY <2>1, <2>2, <2>3
<1>1. PICK p : p = PolarsOf(e, f)
  OBVIOUS
<1>2. \A i \in 1..Len(e) : p[i] = PolarsColumn(e[i], Operands(e, i, p), f)
  BY <1>0, <1>1, PolarsEquation
<1> DEFINE G == {i \in 1..Len(e) : IsColumn(p[i], H)}
<1>3. ASSUME NEW i \in 1..Len(e), \A j \in 1..(i - 1) : IsColumn(p[j], H) PROVE IsColumn(p[i], H)
  <2>1. PICK n, a : n = e[i] /\ a = Operands(e, i, p)
    OBVIOUS
  <2>2. p[i] = PolarsColumn(n, a, f) /\ Admitted(n, s) /\ (n.op = "Shift" => n.offset \in Nat)
    BY <1>0, <1>2, <2>1
  <2>3. CASE n.op = "Column"
    <3>1. n.name \in InputNames(e)
      BY <1>0, <2>1, <2>3 DEF InputNames
    <3>2. p[i] = f[n.name].values
      BY <2>2, <2>3 DEF PolarsColumn
    <3>3. QED BY <3>1, <3>2
  <2>4. CASE n.op = "Literal"
    <3>1. p[i] = Broadcast(f, n.value)
      BY <2>2, <2>4 DEF PolarsColumn
    <3>2. QED BY <3>1, BroadcastRows
  <2>5. CASE n.op \notin {"Column", "Literal"}
    <3>1. p[i] = PolarsOp(n, a)
      BY <2>2, <2>5 DEF PolarsColumn
    <3>2. 1 \in 1..Arity(n)
      BY <2>2, <2>5, OperatorKinds
    <3>3. a[1] = p[e[i].args[1]] /\ e[i].args[1] \in 1..(i - 1)
      BY <1>0, <2>1, <3>2, OperandFacts
    <3>4. IsColumn(a[1], H)
      BY <1>3, <3>3
    <3>5. QED BY <2>2, <2>5, <3>1, <3>4, OperatorColumn
  <2>6. QED BY <2>3, <2>4, <2>5
<1>4. \A i \in 1..Len(e) : (\A j \in 1..(i - 1) : j \in G) => i \in G
  BY <1>3
<1>5. \A i \in 1..Len(e) : i \in G
  <2> HIDE DEF G
  <2>1. QED BY <1>0, <1>4, NodeInduction
<1>6. PolarsValue(e, f) = p[Len(e)]
  BY <1>1 DEF PolarsValue, Synthesize, PolarsOf
<1>7. QED BY <1>0, <1>5, <1>6

-----------------------------------------------------------------------------
\* The frame of fused HStacks.

\* The shapes that HStackIsPolars sets apart are not there.
Clear ==
  /\ ~RecomputedName /\ ~ShiftedPredicate /\ ~IntegerPredicate /\ ~NestedCondition /\ ~NanCompared
  /\ ~NanFiltered
  /\ ~SomeBinding(LAMBDA b, k : ScannedHead(b.expr) \/ Retyped(b, k))

\* What the columns that bindings read have where they are not null.
Numbers == IF SomeBinding(LAMBDA b, k : ReadsNaN(b.expr)) THEN Int \cup {NaN} ELSE Int

\* What the walker has found to be done about the nulls of an HStack, from the columns of the scan.
CleanBinding(b) == \A x \in InputNames(b.expr) : NullFree(x)
Stamp(b) == IF CleanBinding(b) THEN NullHandling(b.expr, TRUE) ELSE NullHandling(b.expr, FALSE)
StampedLayer(k) == \A i \in DOMAIN Layers[k] : handling[k][i] = Stamp(Layers[k][i]) /\ handling[k][i] # "fallback"
StampInv ==
  /\ hstage = "analyze" => handling = <<>>
  /\ hstage = "nulls" => /\ IsSequence(handling) /\ Len(handling) = layer - 1
                         /\ \A k \in 1..(layer - 1) : StampedLayer(k)
  /\ hstage \in {"input", "bind"} => \A k \in 1..Len(Layers) : StampedLayer(k)
  /\ hstage \in {"nulls", "input"} => Lowered

\* The frame is what Polars makes of the HStacks so far: columns as long as each other, of the
\* dtypes of the schema, those of the scan that no HStack has replaced, and new ones of numbers.
InputColumn(x) == [dtype |-> Dtype(x), values |-> [i \in DOMAIN InputRowsOfCase |-> Value(x, InputRowsOfCase[i])]]
ColumnOfLength(c, t, H) == c.dtype = t /\ IsColumn(c.values, H)
Numeric(c, H) == \A r \in 1..H : c.values[r] \in Numbers \cup {Null}
RightFrame(f, k, H) ==
  /\ f = ReferenceFrames[k - 1] /\ H \in Nat /\ H = FrameHeight(f)
  /\ DOMAIN f = DOMAIN SchemaBelow(k) /\ DOMAIN f # {}
  /\ \A x \in DOMAIN f : ColumnOfLength(f[x], SchemaBelow(k)[x], H)
  /\ \A x \in DOMAIN f : IF x \in Names /\ ~BoundBelow(x, k) THEN f[x] = InputColumn(x) ELSE Numeric(f[x], H)

\* So are the columns made of it, and what the value graph has computed is what it computes.
IsPolarsColumn(c, e, f, s, H) ==
  c = [dtype |-> PolarsDtype(e, s), values |-> PolarsValue(e, f)] /\ IsColumn(c.values, H) /\ Numeric(c, H)
RightMade(L, f, s, H) == \A i \in 1..Len(made) : IsPolarsColumn(made[i], L[i].expr, f, s, H)
RightValue(e, f, s) == value # NoValue => value = ValueGraph(e, f, s) /\ ~ValueGraphFails(e, s)

BindInv ==
  hstage = "bind" /\ Clear =>
    /\ RightFrame(frame, layer, FrameHeight(frame))
    /\ RightMade(Layers[layer], frame, Schema, FrameHeight(frame))
    /\ RightValue(Next1.expr, frame, Schema)

HRightInv == StampInv /\ BindInv /\ HStackIsPolars

LEMMA ClearFrames == HStackIsPolars <=> (hstage = "answered" /\ Clear => frame = PolarsFrame)
BY DEF HStackIsPolars, Clear

\* What is clear of a binding.
LEMMA ClearBinding ==
  ASSUME Clear, NEW k \in DOMAIN Layers, NEW i \in DOMAIN Layers[k], NEW b, b = Layers[k][i]
  PROVE  /\ \A x \in InputNames(b.expr) : x \in Names => ~BoundBelow(x, k)
         /\ ~Retyped(b, k) /\ ~ScannedHead(b.expr)
         /\ \A n \in Predicated(b.expr) : n.op # "Shift"
         /\ handling[k][i] = "where" =>
              /\ PredicateTags(b.expr, SchemaBelow(k)) \cap IntTags = {}
              /\ \A n \in Predicated(b.expr) : n.op \notin CompareOps \cup Scans \cup {"And", "Where"}
<1>1. \A x \in InputNames(b.expr) : x \in Names => ~BoundBelow(x, k)
  BY DEF Clear, RecomputedName, SomeBinding
<1>2. ~Retyped(b, k) /\ ~ScannedHead(b.expr)
  BY DEF Clear, SomeBinding
<1>3. \A n \in Predicated(b.expr) : n.op # "Shift"
  BY DEF Clear, ShiftedPredicate, SomeBinding
<1>4. ASSUME handling[k][i] = "where"
      PROVE  /\ PredicateTags(b.expr, SchemaBelow(k)) \cap IntTags = {}
             /\ \A n \in Predicated(b.expr) : n.op \notin CompareOps \cup Scans \cup {"And", "Where"}
  <2>1. Masked(b, k)
    BY <1>4 DEF Masked
  <2>2. PredicateTags(b.expr, SchemaBelow(k)) \cap IntTags = {}
    BY <2>1 DEF Clear, IntegerPredicate, SomeBinding
  <2>3. \A n \in Predicated(b.expr) : n.op \notin CompareOps \cup Scans \cup {"And", "Where"}
    BY <2>1 DEF Clear, NestedCondition, SomeBinding
  <2>4. QED BY <2>2, <2>3
<1>5. QED BY <1>1, <1>2, <1>3, <1>4

\* The numbers of a binding: NaN is among them if some binding reads it, and then nothing compares.
LEMMA ClearNumbers ==
  ASSUME Clear, NEW k \in DOMAIN Layers, NEW i \in DOMAIN Layers[k], NEW e, e = Layers[k][i].expr
  PROVE  /\ \A j \in DOMAIN e : NumbersFor(Numbers, e[j].op)
         /\ \A v \in Int \cup {NaN} : v \in Numbers \/ (v = NaN /\ ~ReadsNaN(e))
<1>1. Numbers \in {Int, Int \cup {NaN}}
  BY DEF Numbers
<1>2. CASE SomeBinding(LAMBDA b, l : ReadsNaN(b.expr))
  <2>1. ~Uses(e, CompareOps \cup {"CumMax"})
    BY <1>2 DEF Clear, NanCompared, SomeBinding
  <2>2. \A j \in DOMAIN e : e[j].op \notin CompareOps
    BY <2>1 DEF Uses
  <2>3. Numbers = Int \cup {NaN}
    BY <1>2 DEF Numbers
  <2>4. QED BY <2>2, <2>3 DEF NumbersFor
<1>3. CASE ~SomeBinding(LAMBDA b, l : ReadsNaN(b.expr))
  <2>1. ~ReadsNaN(e)
    BY <1>3 DEF SomeBinding
  <2>2. Numbers = Int
    BY <1>3 DEF Numbers
  <2>3. QED BY <2>1, <2>2 DEF NumbersFor
<1>4. QED BY <1>2, <1>3

\* A column that the scan has, as a binding reads it.
LEMMA ScannedColumn ==
  ASSUME case \in Cases, Layers # <<>>, NEW x \in Names, Dtype(x) \in IntTags \cup {"F32"}, NEW e,
         x \in InputNames(e), \A v \in Int \cup {NaN} : v \in Numbers \/ (v = NaN /\ ~ReadsNaN(e))
  PROVE  \A r \in DOMAIN InputColumn(x).values :
           /\ InputColumn(x).values[r] \in Numbers \cup {Null}
           /\ NullFree(x) => InputColumn(x).values[r] # Null
<1>1. PICK n \in Nat : /\ DOMAIN InputRowsOfCase = 1..n
                       /\ \A i \in 1..n : InputRowsOfCase[i] \in Rows
  BY InputRows
<1>2. SUFFICES ASSUME NEW i \in 1..n
               PROVE  /\ Value(x, InputRowsOfCase[i]) \in Numbers \cup {Null}
                      /\ NullFree(x) => Value(x, InputRowsOfCase[i]) # Null
  BY <1>1 DEF InputColumn
<1>3. PICK q : q = InputRowsOfCase[i] /\ q \in Rows
  BY <1>1, <1>2
<1>4. Value(x, q) \in Int \cup {NaN, Null}
  <2>1. IsCase(case) /\ case.height \in Nat /\ Rows = 1..case.height
    BY CaseAssumption, SourceFacts
  <2>2. PICK h, g, t : h = case.height /\ g = case.frame[x].parent /\ t = case.frame[x].offset
    OBVIOUS
  <2>3. t \in Nat /\ IsSequence(g) /\ t + h <= Len(g)
    BY <2>1, <2>2 DEF IsCase, Names
  <2>4. Len(g) \in Nat /\ DOMAIN g = 1..Len(g)
    BY <2>3 DEF IsSequence
  <2>5. t + q \in 1..Len(g)
    BY <1>3, <2>1, <2>2, <2>3, <2>4
  <2>6. \A j \in DOMAIN g : g[j] \in Int \cup {NaN, Null}
    BY <2>2, LayerAssumption DEF Layers, Names, Dtype
  <2>7. QED BY <2>2, <2>4, <2>5, <2>6 DEF Value
<1>5. Value(x, q) = NaN => ReadsNaN(e)
  BY <1>3 DEF ReadsNaN
<1>6. QED BY <1>3, <1>4, <1>5 DEF NullFree

LEMMA BindingColumn ==
  ASSUME case \in Cases, Layers # <<>>, Clear, NEW k \in DOMAIN Layers, NEW i \in DOMAIN Layers[k],
         NEW b, b = Layers[k][i], NEW e, e = b.expr, NEW s, s = SchemaBelow(k), Fusable(e, s), ~ValueGraphFails(e, s),
         NEW f, NEW H, RightFrame(f, k, H), NEW x \in InputNames(e), x \in DOMAIN s, s[x] \in GraphTags
  PROVE  /\ FrameColumn(f[x], s[x], H, Numbers)
         /\ CleanBinding(b) => \A r \in 1..H : f[x].values[r] # Null
<1>1. s[x] \in IntTags \cup {"F32"}
  BY DEF ValueGraphFails, GraphTags
<1>2. x \in DOMAIN f /\ f[x].dtype = s[x] /\ IsColumn(f[x].values, H)
  BY DEF RightFrame, ColumnOfLength
<1>3. DOMAIN f[x].values = 1..H
  BY <1>2 DEF IsColumn
<1>4. CASE x \in Names
  <2>1. ~BoundBelow(x, k)
    BY <1>4, ClearBinding
  <2>2. f[x] = InputColumn(x)
    BY <1>2, <1>4, <2>1 DEF RightFrame
  <2>3. Dtype(x) = s[x]
    BY <1>2, <2>2 DEF InputColumn
  <2>4. \A v \in Int \cup {NaN} : v \in Numbers \/ (v = NaN /\ ~ReadsNaN(e))
    BY ClearNumbers
  <2>5. \A r \in DOMAIN InputColumn(x).values : /\ InputColumn(x).values[r] \in Numbers \cup {Null}
                                                /\ NullFree(x) => InputColumn(x).values[r] # Null
    BY <1>1, <1>4, <2>3, <2>4, ScannedColumn
  <2>6. CleanBinding(b) => NullFree(x)
    BY DEF CleanBinding
  <2>7. QED BY <1>1, <1>2, <1>3, <2>2, <2>5, <2>6 DEF FrameColumn
<1>5. CASE x \notin Names
  <2>1. Numeric(f[x], H)
    BY <1>2, <1>5 DEF RightFrame
  <2>2. ~CleanBinding(b)
    BY <1>5 DEF CleanBinding, NullFree
  <2>3. QED BY <1>1, <1>2, <2>1, <2>2 DEF FrameColumn, Numeric
<1>6. QED BY <1>4, <1>5

LEMMA BindingSetting ==
  ASSUME case \in Cases, Layers # <<>>, Clear, NEW k \in DOMAIN Layers, NEW i \in DOMAIN Layers[k],
         NEW b, b = Layers[k][i], NEW e, e = b.expr, NEW s, s = SchemaBelow(k), Fusable(e, s), IsExpression(e, s),
         ~ValueGraphFails(e, s), NEW f, NEW H, RightFrame(f, k, H)
  PROVE  Setting(e, s, f, H, Numbers) /\ (CleanBinding(b) => CleanFrame(e, f, H))
<1>1. /\ IsArena(e) /\ DOMAIN e = 1..Len(e) /\ H \in Nat /\ H = FrameHeight(f)
      /\ \A j \in 1..Len(e) : /\ DOMAIN e[j].args = 1..Arity(e[j])
                              /\ WellTyped(e[j], Operands(e, j, DtypeOf(e, s)))
                              /\ e[j].op = "Shift" => e[j].offset \in Int
  BY ExpressionFacts DEF RightFrame
<1>2. ASSUME NEW j \in 1..Len(e), NEW n, n = e[j]
      PROVE  /\ Admitted(n, s) /\ NumbersFor(Numbers, n.op)
             /\ n.op = "Shift" => n.offset \in Nat
             /\ n.op = "Literal" => n.value \in Values(n.dtype, Numbers)
             /\ n.op = "Column" => FrameColumn(f[n.name], s[n.name], H, Numbers)
             /\ n.op = "Column" /\ CleanBinding(b) => \A r \in 1..H : f[n.name].values[r] # Null
  <2>1. Admitted(n, s)
    BY <1>1, <1>2 DEF Fusable
  <2>2. /\ NumbersFor(Numbers, n.op)
        /\ \A v \in Int \cup {NaN} : v \in Numbers \/ (v = NaN /\ ~ReadsNaN(e))
    BY <1>1, <1>2, ClearNumbers
  <2>3. ASSUME n.op = "Shift" PROVE n.offset \in Nat
    <3>1. n.offset >= 0
      BY <2>1, <2>3 DEF Admitted, CompareOps, Scans
    <3>2. n.offset \in Int
      BY <1>1, <1>2, <2>3
    <3>3. QED BY <3>1, <3>2
  <2>4. ASSUME n.op = "Literal" PROVE n.value \in Values(n.dtype, Numbers)
    <3>1. PICK a : a = Operands(e, j, DtypeOf(e, s))
      OBVIOUS
    <3>2. WellTyped(n, a)
      BY <1>1, <1>2, <3>1
    <3>3. n.value \in IF n.dtype = "Bool" THEN BOOLEAN ELSE Int \cup {NaN}
      BY <2>4, <3>2 DEF WellTyped, CompareOps
    <3>4. ASSUME n.value = NaN PROVE ReadsNaN(e)
      BY <1>1, <1>2, <2>4, <3>4 DEF ReadsNaN
    <3>5. QED BY <2>2, <3>3, <3>4 DEF Values
  <2>5. ASSUME n.op = "Column"
        PROVE  /\ FrameColumn(f[n.name], s[n.name], H, Numbers)
               /\ CleanBinding(b) => \A r \in 1..H : f[n.name].values[r] # Null
    <3>1. PICK x : x = n.name
      OBVIOUS
    <3>2. x \in InputNames(e) /\ x \in DOMAIN s /\ s[x] \in GraphTags
      BY <1>1, <1>2, <2>1, <2>5, <3>1, AdmittedOps DEF InputNames
    <3>3. FrameColumn(f[x], s[x], H, Numbers) /\ (CleanBinding(b) => \A r \in 1..H : f[x].values[r] # Null)
      BY <3>2, BindingColumn
    <3>4. QED BY <3>1, <3>3
  <2>6. QED BY <2>1, <2>2, <2>3, <2>4, <2>5
<1>3. Setting(e, s, f, H, Numbers)
  BY <1>1, <1>2 DEF Setting
<1>4. CleanBinding(b) => CleanFrame(e, f, H)
  BY <1>2 DEF CleanFrame
<1>5. QED BY <1>3, <1>4

\* Its predicates, if the second graph runs.
LEMMA BindingCalm ==
  ASSUME Clear, NEW k \in DOMAIN Layers, NEW i \in DOMAIN Layers[k],
         NEW b, b = Layers[k][i], NEW e, e = b.expr, NEW s, s = SchemaBelow(k), Fusable(e, s), IsExpression(e, s),
         ~ValueGraphFails(e, s), handling[k][i] = "where", NEW clean
  PROVE  CalmPredicates(e, s, clean)
<1>1. SUFFICES ASSUME NEW m \in Predicated(e)
               PROVE  /\ m.op # "Shift" /\ (m.op = "Column" => s[m.name] = "F32")
                      /\ m.op \notin CompareOps \cup Scans \cup {"And", "Where"}
  BY DEF CalmPredicates
<1>2. /\ m.op # "Shift" /\ m.op \notin CompareOps \cup Scans \cup {"And", "Where"}
      /\ PredicateTags(e, s) \cap IntTags = {}
  BY <1>1, ClearBinding
<1>3. ASSUME m.op = "Column" PROVE s[m.name] = "F32"
  <2>1. PICK j \in 1..Len(e) : m = e[j]
    BY <1>1, PredicatedNodes
  <2>2. DOMAIN e = 1..Len(e)
    BY ExpressionFacts
  <2>3. Admitted(m, s) /\ m.name \in InputNames(e)
    BY <1>3, <2>1, <2>2 DEF Fusable, InputNames
  <2>4. s[m.name] \in GraphTags
    BY <1>3, <2>3, AdmittedOps
  <2>5. s[m.name] \in PredicateTags(e, s)
    BY <1>1, <1>3 DEF PredicateTags
  <2>6. QED BY <1>2, <2>3, <2>4, <2>5 DEF ValueGraphFails, GraphTags
<1>4. QED BY <1>2, <1>3

\* What the case says of it all, and the nulls found.
LEMMA SameScan ==
  ASSUME UNCHANGED case
  PROVE  /\ \A b : CleanBinding(b)' <=> CleanBinding(b)
         /\ \A x, k : BoundBelow(x, k)' <=> BoundBelow(x, k)
         /\ \A x : InputColumn(x)' = InputColumn(x)
         /\ \A e : ReadsNaN(e)' <=> ReadsNaN(e)
         /\ \A b, k : Retyped(b, k)' <=> Retyped(b, k)
         /\ Names' = Names /\ (Lowered' <=> Lowered) /\ Numbers' = Numbers
<1>1. Layers' = Layers /\ (\A k : SchemaBelow(k)' = SchemaBelow(k))
  BY SameLayers
<1>2. /\ Rows' = Rows /\ Names' = Names /\ (\A x : Dtype(x)' = Dtype(x)) /\ TrueRows' = TrueRows
      /\ Lowered' <=> Lowered
  BY SameCase, SameTruth
<1>3. \A x, r : Value(x, r)' = Value(x, r)
  BY DEF Value
<1>4. \A x : NullFree(x)' <=> NullFree(x)
  BY <1>2, <1>3 DEF NullFree
<1>5. \A b : CleanBinding(b)' <=> CleanBinding(b)
  BY <1>4 DEF CleanBinding
<1>6. \A x, k : BoundBelow(x, k)' <=> BoundBelow(x, k)
  BY <1>1 DEF BoundBelow
<1>7. InputRowsOfCase' = InputRowsOfCase
  <2>1. OverFilter' <=> OverFilter
    BY DEF OverFilter
  <2>2. QED BY <1>2, <2>1 DEF InputRowsOfCase
<1>8. \A x : InputColumn(x)' = InputColumn(x)
  BY <1>2, <1>3, <1>7 DEF InputColumn
<1>9. \A e : ReadsNaN(e)' <=> ReadsNaN(e)
  BY <1>2, <1>3 DEF ReadsNaN
<1>10. \A b, k : Retyped(b, k)' <=> Retyped(b, k)
  BY <1>1 DEF Retyped
<1>11. Numbers' = Numbers
  <2>1. SomeBinding(LAMBDA b, k : ReadsNaN(b.expr))' <=> SomeBinding(LAMBDA b, k : ReadsNaN(b.expr))
    BY <1>1, <1>9 DEF SomeBinding
  <2>2. QED BY <2>1 DEF Numbers
<1>12. QED BY <1>2, <1>5, <1>6, <1>8, <1>9, <1>10, <1>11

LEMMA SameFrames ==
  ASSUME UNCHANGED case
  PROVE  /\ \A f, k, H : RightFrame(f, k, H)' <=> RightFrame(f, k, H)
         /\ \A c, e, f, s, H : IsPolarsColumn(c, e, f, s, H)' <=> IsPolarsColumn(c, e, f, s, H)
<1>1. \A k : SchemaBelow(k)' = SchemaBelow(k)
  BY SameLayers
<1>2. /\ \A x, k : BoundBelow(x, k)' <=> BoundBelow(x, k)
      /\ \A x : InputColumn(x)' = InputColumn(x)
      /\ Names' = Names /\ Numbers' = Numbers
  BY SameScan
<1>3. ReferenceFrames' = ReferenceFrames
  BY SameReferences
<1>4. \A c, H : Numeric(c, H)' <=> Numeric(c, H)
  BY <1>2 DEF Numeric
<1>5. \A f, k, H : RightFrame(f, k, H)' <=> RightFrame(f, k, H)
  BY <1>1, <1>2, <1>3, <1>4 DEF RightFrame
<1>6. \A c, e, f, s, H : IsPolarsColumn(c, e, f, s, H)' <=> IsPolarsColumn(c, e, f, s, H)
  BY <1>4 DEF IsPolarsColumn
<1>7. QED BY <1>5, <1>6

LEMMA SameStamps ==
  ASSUME UNCHANGED <<case, handling>>
  PROVE  (\A k : StampedLayer(k)' <=> StampedLayer(k)) /\ (Clear' <=> Clear)
<1>1. Layers' = Layers /\ (\A k : SchemaBelow(k)' = SchemaBelow(k))
  BY SameLayers
<1>2. /\ \A b : CleanBinding(b)' <=> CleanBinding(b)
      /\ \A x, k : BoundBelow(x, k)' <=> BoundBelow(x, k)
      /\ \A e : ReadsNaN(e)' <=> ReadsNaN(e)
      /\ \A b, k : Retyped(b, k)' <=> Retyped(b, k)
      /\ Names' = Names
  BY SameScan
<1>3. \A k : StampedLayer(k)' <=> StampedLayer(k)
  <2>1. \A b : Stamp(b)' = Stamp(b)
    BY <1>2 DEF Stamp
  <2>2. QED BY <1>1, <2>1 DEF StampedLayer
<1>4. \A b, k : Masked(b, k)' <=> Masked(b, k)
  BY <1>1 DEF Masked
<1>5. RecomputedName' <=> RecomputedName
  BY <1>1, <1>2 DEF RecomputedName, SomeBinding
<1>6. ShiftedPredicate' <=> ShiftedPredicate
  BY <1>1 DEF ShiftedPredicate, SomeBinding
<1>7. IntegerPredicate' <=> IntegerPredicate
  BY <1>1, <1>4 DEF IntegerPredicate, SomeBinding
<1>8. NestedCondition' <=> NestedCondition
  BY <1>1, <1>4 DEF NestedCondition, SomeBinding
<1>9. NanCompared' <=> NanCompared
  <2>1. SomeBinding(LAMBDA b, k : ReadsNaN(b.expr))' <=> SomeBinding(LAMBDA b, k : ReadsNaN(b.expr))
    BY <1>1, <1>2 DEF SomeBinding
  <2>2. SomeBinding(LAMBDA b, k : Uses(b.expr, CompareOps \cup {"CumMax"}))'
          <=> SomeBinding(LAMBDA b, k : Uses(b.expr, CompareOps \cup {"CumMax"}))
    BY <1>1 DEF SomeBinding
  <2>3. QED BY <2>1, <2>2 DEF NanCompared
<1>10. SomeBinding(LAMBDA b, k : ScannedHead(b.expr) \/ Retyped(b, k))'
         <=> SomeBinding(LAMBDA b, k : ScannedHead(b.expr) \/ Retyped(b, k))
  BY <1>1, <1>2 DEF SomeBinding
<1>11. NanFiltered' <=> NanFiltered
  BY SameTruth DEF NanFiltered, OverFilter
<1>12. Clear' <=> Clear
  BY <1>5, <1>6, <1>7, <1>8, <1>9, <1>10, <1>11 DEF Clear
<1>13. QED BY <1>3, <1>12

\* Of layers and those below.
LEMMA LayerNumbers ==
  ASSUME NEW n \in Nat, NEW l \in 1..n
  PROVE  /\ l \in Nat /\ l \in Int /\ l - 1 \in Nat /\ (l - 1) + 1 = l /\ (l + 1) - 1 = l
         /\ \A k \in 1..l : k = l \/ k \in 1..(l - 1)
         /\ l # n => l + 1 \in 1..n
OBVIOUS

\* The walker decides about nulls, HStack by HStack.
LEMMA StampSteps ==
  ASSUME HCauseInv, StampInv, UNCHANGED case, StampNulls, hstage' # "left to Polars"
  PROVE  StampInv'
<1>1. /\ hstage = "nulls" /\ case \in Cases /\ Layers # <<>> /\ layer \in 1..Len(Layers)
      /\ Len(Layers) \in Nat /\ layer \in Nat
  <2>1. hstage = "nulls"
    BY DEF StampNulls
  <2>2. LayerInv
    BY DEF HCauseInv
  <2>3. case \in Cases /\ Layers # <<>> /\ layer \in 1..Len(Layers)
    BY <2>1, <2>2 DEF LayerInv
  <2>4. PICK n \in Nat : n = Len(Layers)
    BY <2>3, LayerFacts
  <2>5. layer \in Nat
    BY <2>3, <2>4, LayerNumbers
  <2>6. QED BY <2>1, <2>3, <2>4, <2>5
<1>2. PICK h, q : h = handling /\ q = handling'
  OBVIOUS
<1>3. IsSequence(h) /\ Len(h) = layer - 1 /\ (\A k \in 1..(layer - 1) : StampedLayer(k)) /\ Lowered
  BY <1>1, <1>2 DEF StampInv
<1> DEFINE stamp(b) == NullHandling(b.expr, \A x \in InputNames(b.expr) : NullFree(x))
           stamps   == [i \in DOMAIN Layers[layer] |-> stamp(Layers[layer][i])]
<1>4. PICK S : S = stamps /\ ~("fallback" \in Range(S)) /\ q = Append(h, S)
  BY <1>2 DEF StampNulls, LeaveToPolars
<1>5. \/ hstage' = "input" /\ layer' = 1 /\ layer = Len(Layers)
      \/ hstage' = "nulls" /\ layer' = layer + 1
  BY <1>1 DEF StampNulls, LeaveToPolars
<1>6. \A b : stamp(b) = Stamp(b)
  <2> SUFFICES ASSUME NEW b PROVE stamp(b) = Stamp(b)
    OBVIOUS
  <2>1. CASE CleanBinding(b)
    BY <2>1 DEF Stamp, CleanBinding, NullHandling
  <2>2. CASE ~CleanBinding(b)
    BY <2>2 DEF Stamp, CleanBinding, NullHandling
  <2>3. QED BY <2>1, <2>2
<1>7. \A i \in DOMAIN Layers[layer] : S[i] = Stamp(Layers[layer][i]) /\ S[i] # "fallback"
  <2>1. S = [i \in DOMAIN Layers[layer] |-> Stamp(Layers[layer][i])]
    BY <1>4, <1>6
  <2>2. QED BY <1>4, <2>1 DEF Range
<1> HIDE DEF stamp, stamps
<1>8. /\ IsSequence(q) /\ Len(q) = layer
      /\ \A k \in 1..(layer - 1) : q[k] = h[k]
      /\ q[layer] = S
  <2>1. /\ IsSequence(q) /\ Len(q) = Len(h) + 1
        /\ \A k \in 1..Len(h) : q[k] = h[k]
        /\ q[Len(h) + 1] = S
    BY <1>3, <1>4, AppendedSequence
  <2>2. Len(h) + 1 = layer /\ Len(h) = layer - 1
    BY <1>1, <1>3, LayerNumbers
  <2>3. QED BY <2>1, <2>2
<1>9. \A k \in 1..layer : StampedLayer(k)'
  <2>1. Layers' = Layers
    BY SameLayers
  <2>2. \A b : Stamp(b)' = Stamp(b)
    BY SameScan DEF Stamp
  <2>3. ASSUME NEW k \in 1..layer PROVE StampedLayer(k)'
    <3>1. CASE k = layer
      BY <1>2, <1>7, <1>8, <2>1, <2>2, <3>1 DEF StampedLayer
    <3>2. CASE k # layer
      <4>1. k \in 1..(layer - 1)
        BY <1>1, <2>3, <3>2, LayerNumbers
      <4>2. StampedLayer(k) /\ handling'[k] = handling[k]
        BY <1>2, <1>3, <1>8, <4>1
      <4>3. QED BY <2>1, <2>2, <4>2 DEF StampedLayer
    <3>3. QED BY <3>1, <3>2
  <2>4. QED BY <2>3
<1>10. Lowered' /\ Layers' = Layers
  BY <1>3, SameScan, SameLayers
<1>11. CASE hstage' = "input" /\ layer = Len(Layers)
  BY <1>9, <1>10, <1>11 DEF StampInv
<1>12. CASE hstage' = "nulls" /\ layer' = layer + 1
  <2>1. Len(q) = layer' - 1 /\ 1..(layer' - 1) = 1..layer
    BY <1>1, <1>8, <1>12
  <2>2. QED BY <1>2, <1>8, <1>9, <1>10, <1>12, <2>1 DEF StampInv
<1>13. QED BY <1>5, <1>11, <1>12

LEMMA WalkerRight ==
  ASSUME HCauseInv, HRightInv, UNCHANGED case, AnalyzeLayer \/ AnalyzeInput \/ StampNulls
  PROVE  HRightInv'
<1>1. StampInv
  BY DEF HRightInv
<1>2. hstage' \in {"analyze", "nulls", "input", "left to Polars"}
  BY DEF AnalyzeLayer, AnalyzeInput, StampNulls, LeaveToPolars
<1>3. BindInv' /\ HStackIsPolars'
  BY <1>2 DEF BindInv, HStackIsPolars
<1>4. ASSUME hstage' = "left to Polars" PROVE StampInv'
  BY <1>4 DEF StampInv
<1>5. ASSUME AnalyzeLayer, hstage' # "left to Polars" PROVE StampInv'
  <2>1. hstage = "analyze" /\ hstage' = "analyze" /\ handling' = handling
    BY <1>5 DEF AnalyzeLayer, LeaveToPolars
  <2>2. QED BY <1>1, <2>1 DEF StampInv
<1>6. ASSUME AnalyzeInput, hstage' # "left to Polars" PROVE StampInv'
  <2>1. hstage = "analyze" /\ hstage' = "nulls" /\ handling' = handling /\ layer' = 1 /\ Lowered
    BY <1>6 DEF AnalyzeInput, LeaveToPolars
  <2>2. handling' = <<>> /\ Lowered'
    BY <1>1, <2>1, SameScan DEF StampInv
  <2>3. IsSequence(<<>>) /\ Len(<<>>) = 0 /\ 1..(1 - 1) = {}
    BY DEF IsSequence
  <2>4. QED BY <2>1, <2>2, <2>3 DEF StampInv
<1>7. ASSUME StampNulls, hstage' # "left to Polars" PROVE StampInv'
  BY <1>1, <1>7, StampSteps
<1>8. StampInv'
  BY <1>4, <1>5, <1>6, <1>7
<1>9. QED BY <1>3, <1>8 DEF HRightInv

\* Every column of a frame is as long as the frame.
LEMMA HeightOfColumns ==
  ASSUME NEW f, DOMAIN f # {}, NEW H \in Nat, \A x \in DOMAIN f : IsColumn(f[x].values, H)
  PROVE  FrameHeight(f) = H
<1>1. PICK x \in DOMAIN f : x = CHOOSE y \in DOMAIN f : TRUE
  OBVIOUS
<1>2. PICK v : v = f[x].values /\ IsColumn(v, H)
  BY <1>1
<1>3. Len(v) = H
  BY <1>2, ColumnTuple
<1>4. QED BY <1>1, <1>2, <1>3 DEF FrameHeight

\* An HStack that has not begun has no columns.
LEMMA NothingMade ==
  ASSUME made' = <<>>, value' = NoValue
  PROVE  \A L, f, s, H, e : RightMade(L, f, s, H)' /\ RightValue(e, f, s)'
<1>1. Len(<<>>) = 0 /\ 1..0 = {}
  OBVIOUS
<1>2. \A L, f, s, H : RightMade(L, f, s, H)'
  BY <1>1 DEF RightMade
<1>3. \A e, f, s : RightValue(e, f, s)'
  BY DEF RightValue, NoValue
<1>4. QED BY <1>2, <1>3

\* The HStacks start from the rows of the Filter, or of the scan.
LEMMA InputIsRight ==
  ASSUME case \in Cases, Layers # <<>>
  PROVE  \E H \in Nat : RightFrame(Columns(Selected(InputRowsOfCase)), 1, H)
<1>1. PICK n \in Nat : DOMAIN InputRowsOfCase = 1..n
  BY InputRows
<1>2. PICK f : f = Columns(Selected(InputRowsOfCase))
  OBVIOUS
<1>3. DOMAIN f = Names /\ \A x \in Names : f[x] = InputColumn(x)
  BY <1>2 DEF Columns, Selected, InputColumn
<1>4. SchemaBelow(1) = [x \in Names |-> Dtype(x)]
  BY SchemaSteps
<1>5. \A x \in Names : InputColumn(x).dtype = Dtype(x) /\ IsColumn(InputColumn(x).values, n)
  BY <1>1 DEF InputColumn, IsColumn
<1>6. Names # {}
  BY LayerAssumption DEF Layers, Names
<1>7. FrameHeight(f) = n
  BY <1>3, <1>5, <1>6, HeightOfColumns
<1>8. f = ReferenceFrames[1 - 1]
  <2>1. Len(Layers) \in Nat
    BY LayerFacts
  <2>2. QED BY <1>2, <2>1, ReferencesEquation
<1>9. \A x : ~BoundBelow(x, 1)
  BY DEF BoundBelow
<1>10. /\ \A x \in DOMAIN f : ColumnOfLength(f[x], SchemaBelow(1)[x], n)
       /\ \A x \in DOMAIN f : x \in Names /\ ~BoundBelow(x, 1) /\ f[x] = InputColumn(x)
       /\ DOMAIN f = DOMAIN SchemaBelow(1) /\ DOMAIN f # {}
  BY <1>3, <1>4, <1>5, <1>6, <1>9 DEF ColumnOfLength
<1>11. RightFrame(f, 1, n)
  BY <1>7, <1>8, <1>10 DEF RightFrame
<1>12. QED BY <1>2, <1>11

LEMMA InputRight ==
  ASSUME HCauseInv, QueryInv, HRightInv, UNCHANGED case, TakeInput
  PROVE  HRightInv'
<1>1. /\ hstage = "input" /\ UNCHANGED <<handling, made, value, layer>>
      /\ OverFilter => phase \in {"answered", "failed"}
  BY DEF TakeInput
<1>2. /\ case \in Cases /\ Layers # <<>> /\ layer = 1 /\ made = <<>> /\ value = NoValue
      /\ Lowered /\ \A k \in 1..Len(Layers) : StampedLayer(k)
  BY <1>1 DEF HCauseInv, LayerInv, MadeInv, HRightInv, StampInv
<1>3. CASE hstage' = "failed"
  BY <1>3 DEF HRightInv, StampInv, BindInv, HStackIsPolars
<1>4. CASE hstage' = "bind" /\ ~(OverFilter /\ phase = "failed")
  <2>1. frame' = Columns(IF OverFilter THEN result ELSE [x \in Names |-> Materialize(x)])
    BY <1>4 DEF TakeInput
  <2>2. StampInv'
    BY <1>1, <1>2, <1>4, SameLayers, SameStamps DEF StampInv
  <2>3. ASSUME Clear PROVE BindInv'
    <3>1. (IF OverFilter THEN result ELSE [x \in Names |-> Materialize(x)]) = Selected(InputRowsOfCase)
      <4>1. IInv /\ SelInv /\ (OverFilter => phase = "answered") /\ ~NanFiltered
        BY <1>1, <1>4, <2>3 DEF QueryInv, Clear
      <4>2. QED BY <1>2, <4>1, InputFrame
    <3>2. PICK f, H : f = frame' /\ RightFrame(f, 1, H)
      <4>1. frame' = Columns(Selected(InputRowsOfCase))
        BY <2>1, <3>1
      <4>2. PICK g : g = Columns(Selected(InputRowsOfCase))
        OBVIOUS
      <4>3. \E H \in Nat : RightFrame(g, 1, H)
        BY <1>2, <4>2, InputIsRight
      <4>4. QED BY <4>1, <4>2, <4>3
    <3>3. RightFrame(f, 1, FrameHeight(f))
      BY <3>2 DEF RightFrame
    <3>4. RightFrame(f, 1, FrameHeight(f))'
      BY <3>3, SameFrames
    <3>5. frame' = f /\ layer' = 1 /\ made' = <<>> /\ value' = NoValue
      BY <1>1, <1>2, <3>2 DEF NoValue
    <3>6. \A L, g, s, h, e : RightMade(L, g, s, h)' /\ RightValue(e, g, s)'
      BY <3>5, NothingMade
    <3>7. QED BY <3>4, <3>5, <3>6 DEF BindInv
  <2>6. BindInv'
    <3>1. Clear' <=> Clear
      BY <1>1, SameStamps
    <3>2. QED BY <2>3, <3>1 DEF BindInv
  <2>7. HStackIsPolars'
    BY <1>4 DEF HStackIsPolars
  <2>8. QED BY <2>2, <2>6, <2>7 DEF HRightInv
<1>5. QED BY <1>3, <1>4 DEF TakeInput

\* Steps that neither read a new frame nor leave the HStack.
LEMMA KeptFrame ==
  ASSUME HCauseInv, HRightInv, hstage = "bind", UNCHANGED <<case, hstage, layer, handling, frame>>,
         Clear => /\ RightMade(Layers[layer], frame, Schema, FrameHeight(frame))'
                  /\ RightValue(Next1.expr, frame, Schema)'
  PROVE  HRightInv'
<1>1. StampInv /\ BindInv
  BY DEF HRightInv
<1>2. StampInv'
  BY <1>1, SameLayers, SameStamps DEF StampInv
<1>3. BindInv'
  <2>1. Clear' <=> Clear
    BY SameStamps
  <2>2. RightFrame(frame, layer, FrameHeight(frame))' <=> RightFrame(frame, layer, FrameHeight(frame))
    BY SameFrames
  <2>3. QED BY <1>1, <2>1, <2>2 DEF BindInv
<1>4. HStackIsPolars'
  BY DEF HStackIsPolars
<1>5. QED BY <1>2, <1>3, <1>4 DEF HRightInv

\* A binding reads columns that the frame has.
LEMMA InputColumns ==
  ASSUME NEW k, NEW f, NEW H, RightFrame(f, k, H), NEW s, s = SchemaBelow(k), NEW e, Fusable(e, s)
  PROVE  \A x \in InputNames(e) : x \in DOMAIN s /\ IsColumn(f[x].values, H)
<1>1. SUFFICES ASSUME NEW x \in InputNames(e) PROVE x \in DOMAIN s /\ IsColumn(f[x].values, H)
  OBVIOUS
<1>2. PICK j \in DOMAIN e : e[j].op = "Column" /\ x = e[j].name
  BY <1>1 DEF InputNames
<1>3. Admitted(e[j], s)
  BY DEF Fusable
<1>4. x \in DOMAIN s
  BY <1>2, <1>3, AdmittedOps
<1>5. QED BY <1>4 DEF RightFrame, ColumnOfLength

LEMMA EmptyRight ==
  ASSUME HCauseInv, HRightInv, UNCHANGED case, BindEmpty
  PROVE  HRightInv'
<1>1. /\ hstage = "bind" /\ UNCHANGED <<hstage, layer, handling, frame, value>> /\ FrameHeight(frame) = 0
      /\ made' = [i \in DOMAIN Layers[layer] |->
                   [dtype |-> OutTag(Layers[layer][i].expr, Schema), values |-> <<>>]]
  BY DEF BindEmpty
<1>2. PICK L, s, f : L = Layers[layer] /\ s = Schema /\ f = frame /\ Binding(L, s)
  BY <1>1, BindingFacts
<1>3. Layers # <<>> /\ layer \in 1..Len(Layers) /\ case \in Cases /\ s = SchemaBelow(layer)
  BY <1>2 DEF Binding
<1>4. Layers' = Layers /\ Schema' = s
  BY <1>1, <1>2, SameLayers DEF Schema
<1>5. Len(L) \in Nat /\ DOMAIN L = 1..Len(L) /\ made' = [i \in 1..Len(L) |-> [dtype |-> OutTag(L[i].expr, s), values |-> <<>>]]
  BY <1>1, <1>2 DEF Binding
<1>6. ASSUME Clear PROVE RightMade(L, f, s, 0)'
  <2>1. RightFrame(f, layer, 0)
    BY <1>1, <1>2, <1>6 DEF HRightInv, BindInv
  <2>2. Len(made') = Len(L)
    BY <1>5
  <2>3. ASSUME NEW i \in 1..Len(L)
        PROVE  IsPolarsColumn(made'[i], L[i].expr, f, s, 0)
    <3>1. PICK b, e : b = L[i] /\ e = b.expr
      OBVIOUS
    <3>2. IsExpression(e, s) /\ Fusable(e, s)
      BY <1>2, <3>1 DEF Binding, BindingLowered
    <3>3. IsColumn(PolarsValue(e, f), 0)
      <4>1. \A x \in InputNames(e) : IsColumn(f[x].values, 0)
        BY <1>3, <2>1, <3>2, InputColumns
      <4>2. 0 = FrameHeight(f) /\ 0 \in Nat
        BY <1>1, <1>2
      <4>3. PICK H \in Nat : H = 0 /\ H = FrameHeight(f) /\ \A x \in InputNames(e) : IsColumn(f[x].values, H)
        BY <4>1, <4>2
      <4>4. IsColumn(PolarsValue(e, f), H)
        BY <3>2, <4>3, ExpressionColumn
      <4>5. QED BY <4>3, <4>4
    <3>4. PolarsValue(e, f) = <<>>
      <4>1. PICK v : v = PolarsValue(e, f)
        OBVIOUS
      <4>2. v = [r \in 1..0 |-> v[r]]
        BY <3>3, <4>1 DEF IsColumn
      <4>3. QED BY <4>1, <4>2
    <3>5. OutTag(e, s) = PolarsDtype(e, s)
      <4>1. layer \in DOMAIN Layers /\ i \in DOMAIN Layers[layer] /\ b = Layers[layer][i]
        BY <1>2, <1>3, <1>5, <3>1, LayerFacts
      <4>2. ~Retyped(b, layer)
        BY <1>6, <4>1, ClearBinding
      <4>3. QED BY <1>3, <3>1, <4>2 DEF Retyped
    <3>6. made'[i] = [dtype |-> PolarsDtype(e, s), values |-> PolarsValue(e, f)]
      BY <1>5, <3>1, <3>4, <3>5
    <3>7. IsColumn(made'[i].values, 0) /\ Numeric(made'[i], 0)
      BY <3>3, <3>6 DEF Numeric
    <3>8. QED BY <3>1, <3>6, <3>7 DEF IsPolarsColumn
  <2>4. PICK m : m = made'
    OBVIOUS
  <2>5. \A i \in 1..Len(m) : IsPolarsColumn(m[i], L[i].expr, f, s, 0)
    BY <2>2, <2>3, <2>4
  <2>6. \A i \in 1..Len(m) : IsPolarsColumn(m[i], L[i].expr, f, s, 0)'
    BY <2>5, SameFrames
  <2>7. QED BY <2>4, <2>6 DEF RightMade
<1>7. value' = NoValue'
  <2>1. ~(FrameHeight(frame) > 0)
    BY <1>1
  <2>2. QED BY <1>1, <2>1 DEF HCauseInv, MadeInv, NoValue
<1>8. Clear => /\ RightMade(Layers[layer], frame, Schema, FrameHeight(frame))'
               /\ RightValue(Next1.expr, frame, Schema)'
  BY <1>1, <1>2, <1>4, <1>6, <1>7 DEF RightValue
<1>9. QED BY <1>1, <1>8, KeptFrame

LEMMA ValueRight ==
  ASSUME HCauseInv, HRightInv, UNCHANGED case, DispatchValue
  PROVE  HRightInv'
<1>1. hstage = "bind" /\ UNCHANGED <<layer, handling, frame, made>>
  BY DEF DispatchValue
<1>2. CASE hstage' = "failed"
  BY <1>2 DEF HRightInv, StampInv, BindInv, HStackIsPolars
<1>3. CASE UNCHANGED hstage /\ ~ValueGraphFails(Next1.expr, Schema) /\ value' = ValueGraph(Next1.expr, frame, Schema)
  <2>1. Layers' = Layers /\ Schema' = Schema
    BY <1>1, SameLayers DEF Schema
  <2>2. Next1' = Next1
    BY <1>1, <2>1 DEF Next1
  <2>3. ASSUME Clear PROVE RightMade(Layers[layer], frame, Schema, FrameHeight(frame))'
    <3>1. RightMade(Layers[layer], frame, Schema, FrameHeight(frame))
      BY <1>1, <2>3 DEF HRightInv, BindInv
    <3>2. QED BY <1>1, <2>1, <3>1, SameFrames DEF RightMade
  <2>4. RightValue(Next1.expr, frame, Schema)'
    BY <1>1, <1>3, <2>1, <2>2 DEF RightValue
  <2>5. QED BY <1>1, <1>3, <2>3, <2>4, KeptFrame
<1>4. QED BY <1>2, <1>3 DEF DispatchValue

\* The column that a binding gets from its graphs is the one Polars makes.
LEMMA AttachedColumn ==
  ASSUME HCauseInv, HRightInv, hstage = "bind", Clear, value # NoValue,
         NEW L, NEW s, Binding(L, s), NEW i, i = Len(made) + 1, NEW b, b = L[i], NEW e, e = b.expr, NEW f, f = frame,
         NEW H, H = FrameHeight(f), NEW c,
         c = [dtype  |-> OutTag(e, s),
              values |-> [r \in DOMAIN value |-> IF Validity(e, handling[layer][i])[r] THEN value[r] ELSE Null]]
  PROVE  IsPolarsColumn(c, e, f, s, H)
<1>1. More
  BY DEF HCauseInv, MadeInv
<1>2. /\ Next1 = b /\ i \in 1..Len(L) /\ BindingLowered(e, s) /\ IsExpression(e, s) /\ Fusable(e, s)
  BY <1>1, NextBinding
<1>3. /\ Layers # <<>> /\ layer \in 1..Len(Layers) /\ case \in Cases /\ s = SchemaBelow(layer)
      /\ L = Layers[layer] /\ DOMAIN L = 1..Len(L)
  BY DEF Binding
<1>4. layer \in DOMAIN Layers /\ i \in DOMAIN Layers[layer] /\ b = Layers[layer][i]
  BY <1>2, <1>3, LayerFacts
<1>5. RightFrame(f, layer, H) /\ value = ValueGraph(e, f, s) /\ ~ValueGraphFails(e, s)
  BY <1>2, <1>3 DEF HRightInv, BindInv, RightValue, Schema
<1>6. Setting(e, s, f, H, Numbers) /\ (CleanBinding(b) => CleanFrame(e, f, H))
  BY <1>2, <1>3, <1>4, <1>5, BindingSetting
<1>7. PICK how : how = handling[layer][i]
  OBVIOUS
<1>8. how = Stamp(b) /\ how # "fallback"
  BY <1>3, <1>4, <1>7 DEF HRightInv, StampInv, StampedLayer
<1>9. PICK valid : valid = Validity(e, how)
  OBVIOUS
<1>10. IsValidity(valid, how, e, f, s, H)
  BY <1>3, <1>9 DEF IsValidity, Validity, JoinedNulls, Schema
<1>11. PICK clean \in BOOLEAN : (clean <=> CleanBinding(b)) /\ how = NullHandling(e, clean)
  <2>1. CASE CleanBinding(b)
    BY <1>8, <2>1 DEF Stamp
  <2>2. CASE ~CleanBinding(b)
    BY <1>8, <2>2 DEF Stamp
  <2>3. QED BY <2>1, <2>2
<1>12. how = "where" => CalmPredicates(e, s, clean) /\ (clean => ~ScannedHead(e))
  <2>1. ~ScannedHead(e)
    BY <1>4, ClearBinding
  <2>2. how = "where" => CalmPredicates(e, s, clean)
    BY <1>2, <1>3, <1>4, <1>5, <1>7, BindingCalm
  <2>3. QED BY <2>1, <2>2
<1>13. /\ [r \in DOMAIN value |-> IF valid[r] THEN value[r] ELSE Null] = PolarsValue(e, f)
       /\ IsColumn(PolarsValue(e, f), H)
       /\ \A r \in 1..H : PolarsValue(e, f)[r] \in Values(PolarsDtype(e, s), Numbers) \cup {Null}
  <2>1. PICK got : got = value
    OBVIOUS
  <2>2. clean => CleanFrame(e, f, H)
    BY <1>6, <1>11
  <2>3. /\ [r \in DOMAIN got |-> IF valid[r] THEN got[r] ELSE Null] = PolarsValue(e, f)
        /\ IsColumn(PolarsValue(e, f), H)
        /\ \A r \in 1..H : PolarsValue(e, f)[r] \in Values(PolarsDtype(e, s), Numbers) \cup {Null}
    BY <1>2, <1>5, <1>6, <1>8, <1>10, <1>11, <1>12, <2>1, <2>2, BindingRight
  <2>4. QED BY <2>1, <2>3
<1>14. OutTag(e, s) = PolarsDtype(e, s) /\ PolarsDtype(e, s) # "Bool"
  <2>1. ~Retyped(b, layer)
    BY <1>4, ClearBinding
  <2>2. OutTag(e, s) = PolarsDtype(e, s)
    BY <1>3, <2>1 DEF Retyped
  <2>3. QED BY <1>2, <2>2 DEF BindingLowered, IntTags
<1>15. c = [dtype |-> PolarsDtype(e, s), values |-> PolarsValue(e, f)]
  BY <1>7, <1>9, <1>13, <1>14
<1>16. Numeric(c, H)
  BY <1>13, <1>14, <1>15 DEF Numeric, Values
<1>17. QED BY <1>13, <1>15, <1>16 DEF IsPolarsColumn

LEMMA AttachRight ==
  ASSUME HCauseInv, HRightInv, UNCHANGED case, AttachNulls
  PROVE  HRightInv'
<1>1. hstage = "bind" /\ value # NoValue /\ UNCHANGED <<layer, handling, frame>>
  BY DEF AttachNulls
<1>2. CASE hstage' = "failed"
  BY <1>2 DEF HRightInv, StampInv, BindInv, HStackIsPolars
<1>3. PICK L, s, f, H : L = Layers[layer] /\ s = Schema /\ Binding(L, s) /\ f = frame /\ H = FrameHeight(f)
  BY <1>1, BindingFacts
<1>4. PICK i, b, e : i = Len(made) + 1 /\ b = L[i] /\ e = b.expr
  OBVIOUS
<1>5. PICK c : c = [dtype  |-> OutTag(e, s),
                    values |-> [r \in DOMAIN value |-> IF Validity(e, handling[layer][i])[r] THEN value[r] ELSE Null]]
  OBVIOUS
<1>6. CASE UNCHANGED hstage /\ made' = Append(made, c) /\ value' = NoValue
  <2>1. Layers' = Layers /\ Schema' = s
    BY <1>1, <1>3, SameLayers DEF Schema
  <2>2. ASSUME Clear PROVE RightMade(L, f, s, H)'
    <3>1. RightMade(L, f, s, H) /\ IsPolarsColumn(c, e, f, s, H)
      <4>1. RightMade(L, f, s, H)
        BY <1>1, <1>3, <2>2 DEF HRightInv, BindInv
      <4>2. IsPolarsColumn(c, e, f, s, H)
        BY <1>1, <1>3, <1>4, <1>5, <2>2, AttachedColumn
      <4>3. QED BY <4>1, <4>2
    <3>2. IsSequence(made) /\ Len(made) \in Nat
      BY <1>3 DEF Binding, MadeColumns
    <3>3. PICK m, q : m = made /\ q = made'
      OBVIOUS
    <3>4. /\ Len(q) = Len(m) + 1
          /\ \A j \in 1..Len(m) : q[j] = m[j]
          /\ q[Len(m) + 1] = c
      <4>1. IsSequence(m) /\ q = Append(m, c)
        BY <1>6, <3>2, <3>3
      <4>2. /\ IsSequence(q) /\ Len(q) = Len(m) + 1
            /\ \A j \in 1..Len(m) : q[j] = m[j]
            /\ q[Len(m) + 1] = c
        BY <4>1, AppendedSequence
      <4>3. QED BY <4>2
    <3>5. \A j \in 1..Len(q) : j \in 1..Len(m) \/ j = Len(m) + 1
      BY <3>2, <3>3, <3>4
    <3>6. \A j \in 1..Len(q) : IsPolarsColumn(q[j], L[j].expr, f, s, H)
      BY <1>4, <3>1, <3>3, <3>4, <3>5 DEF RightMade
    <3>7. \A j \in 1..Len(q) : IsPolarsColumn(q[j], L[j].expr, f, s, H)'
      BY <3>6, SameFrames
    <3>8. QED BY <3>3, <3>7 DEF RightMade
  <2>3. \A g, d, t : RightValue(g, d, t)'
    BY <1>6 DEF RightValue, NoValue
  <2>4. Clear => /\ RightMade(Layers[layer], frame, Schema, FrameHeight(frame))'
                 /\ RightValue(Next1.expr, frame, Schema)'
    BY <1>1, <1>3, <2>1, <2>2, <2>3
  <2>5. QED BY <1>1, <1>6, <2>4, KeptFrame
<1>7. QED
  <2>1. Next1 = b
    BY <1>3, <1>4 DEF Next1
  <2>2. QED BY <1>2, <1>3, <1>4, <1>5, <1>6, <2>1 DEF AttachNulls

\* The columns of an HStack are appended: the frame is what Polars makes of it, and what the next
\* one finds.
LEMMA AppendedFrame ==
  ASSUME NEW L, NEW s, Binding(L, s), Len(made) = Len(L), NEW f, NEW H, RightFrame(f, layer, H), RightMade(L, f, s, H),
         NEW g, g = WithColumns(f, L, LAMBDA i : made[i])
  PROVE  g = ReferenceFrames[layer] /\ RightFrame(g, layer + 1, H)
<1>1. /\ Layers # <<>> /\ layer \in 1..Len(Layers) /\ case \in Cases /\ s = SchemaBelow(layer)
      /\ L = Layers[layer] /\ DOMAIN L = 1..Len(L)
  BY DEF Binding
<1>2. PICK n, l : n \in Nat /\ l \in 1..n /\ n = Len(Layers) /\ l = layer
  BY <1>1, LayerFacts
<1>3. PICK N : N = {L[i].name : i \in DOMAIN L}
  OBVIOUS
<1>4. \A x \in N : Binder(L, x) \in 1..Len(L) /\ L[Binder(L, x)].name = x
  BY <1>1, <1>3 DEF Binder
<1>5. /\ DOMAIN g = N \cup DOMAIN f
      /\ \A x \in N : g[x] = made[Binder(L, x)]
      /\ \A x \in DOMAIN f \ N : g[x] = f[x]
  BY <1>3 DEF WithColumns
<1>6. \A i \in 1..Len(L) : IsPolarsColumn(made[i], L[i].expr, f, s, H)
  BY DEF RightMade
<1>7. g = ReferenceLayer(f, l)
  <2>1. \A i \in 1..Len(L) : made[i] = [dtype |-> PolarsDtype(L[i].expr, s), values |-> PolarsValue(L[i].expr, f)]
    BY <1>6 DEF IsPolarsColumn
  <2>2. \A x \in N : made[Binder(L, x)] = [dtype  |-> PolarsDtype(L[Binder(L, x)].expr, s),
                                          values |-> PolarsValue(L[Binder(L, x)].expr, f)]
    BY <1>4, <2>1
  <2>3. ReferenceLayer(f, l)
          = [x \in DOMAIN f \cup N |->
              IF x \in N THEN [dtype  |-> PolarsDtype(L[Binder(L, x)].expr, s),
                               values |-> PolarsValue(L[Binder(L, x)].expr, f)]
              ELSE f[x]]
    BY <1>1, <1>2, <1>3 DEF ReferenceLayer, WithColumns
  <2>4. g = [x \in DOMAIN f \cup N |-> IF x \in N THEN made[Binder(L, x)] ELSE f[x]]
    BY <1>3 DEF WithColumns
  <2>5. QED BY <2>2, <2>3, <2>4
<1>8. g = ReferenceFrames[l]
  <2>1. f = ReferenceFrames[l - 1]
    BY <1>2 DEF RightFrame
  <2>2. ReferenceFrames[l] = ReferenceLayer(ReferenceFrames[l - 1], l)
    BY <1>2, ReferencesEquation
  <2>3. QED BY <1>7, <2>1, <2>2
<1>9. PICK t : t = SchemaBelow(l + 1)
  OBVIOUS
<1>10. /\ DOMAIN t = DOMAIN s \cup N
       /\ \A x \in N : t[x] = PolarsDtype(L[Binder(L, x)].expr, s)
       /\ \A x \in DOMAIN s \ N : t[x] = s[x]
  <2>1. t = SchemaAbove(s, L)
    BY <1>1, <1>2, <1>9, SchemaSteps
  <2>2. QED BY <1>3, <2>1 DEF SchemaAbove, WithColumns
<1>11. /\ DOMAIN f = DOMAIN s /\ DOMAIN f # {} /\ H \in Nat
       /\ \A x \in DOMAIN f : f[x].dtype = s[x] /\ IsColumn(f[x].values, H)
  BY <1>1 DEF RightFrame, ColumnOfLength
<1>12. \A x \in N : /\ g[x].dtype = t[x] /\ IsColumn(g[x].values, H) /\ Numeric(g[x], H)
                    /\ BoundBelow(x, l + 1)
  <2>1. SUFFICES ASSUME NEW x \in N
                 PROVE  g[x].dtype = t[x] /\ IsColumn(g[x].values, H) /\ Numeric(g[x], H) /\ BoundBelow(x, l + 1)
    OBVIOUS
  <2>2. PICK i \in 1..Len(L) : i = Binder(L, x) /\ L[i].name = x
    BY <1>4
  <2>3. IsPolarsColumn(made[i], L[i].expr, f, s, H)
    BY <1>6
  <2>4. g[x] = made[i] /\ t[x] = PolarsDtype(L[i].expr, s)
    BY <1>5, <1>10, <2>2
  <2>5. g[x].dtype = t[x] /\ IsColumn(g[x].values, H) /\ Numeric(g[x], H)
    BY <2>3, <2>4 DEF IsPolarsColumn
  <2>6. l \in 1..((l + 1) - 1)
    BY <1>2
  <2>7. BoundBelow(x, l + 1)
    BY <1>1, <1>2, <2>2, <2>6 DEF BoundBelow
  <2>8. QED BY <2>5, <2>7
<1>13. \A x \in DOMAIN f \ N : /\ g[x] = f[x] /\ t[x] = s[x]
                               /\ BoundBelow(x, l + 1) => BoundBelow(x, l)
                               /\ BoundBelow(x, l) => BoundBelow(x, l + 1)
  <2>1. SUFFICES ASSUME NEW x \in DOMAIN f \ N
                 PROVE  /\ g[x] = f[x] /\ t[x] = s[x]
                        /\ BoundBelow(x, l + 1) => BoundBelow(x, l)
                        /\ BoundBelow(x, l) => BoundBelow(x, l + 1)
    OBVIOUS
  <2>2. \A i \in DOMAIN Layers[l] : Layers[l][i].name # x
    BY <1>1, <1>2, <1>3, <2>1
  <2>3. (l + 1) - 1 = l /\ (\A j \in 1..l : j = l \/ j \in 1..(l - 1)) /\ \A j \in 1..(l - 1) : j \in 1..l
    BY <1>2
  <2>4. BoundBelow(x, l + 1) => BoundBelow(x, l)
    BY <2>2, <2>3 DEF BoundBelow
  <2>5. BoundBelow(x, l) => BoundBelow(x, l + 1)
    BY <2>3 DEF BoundBelow
  <2>6. QED BY <1>5, <1>10, <1>11, <2>1, <2>4, <2>5
<1>14. \A x \in DOMAIN g : x \in N \/ x \in DOMAIN f \ N
  BY <1>5
<1>15. \A x \in DOMAIN g : g[x].dtype = t[x] /\ IsColumn(g[x].values, H)
  BY <1>11, <1>12, <1>13, <1>14
<1>16. FrameHeight(g) = H /\ DOMAIN g # {} /\ DOMAIN g = DOMAIN t
  <2>1. DOMAIN g # {} /\ DOMAIN g = DOMAIN t
    BY <1>5, <1>10, <1>11
  <2>2. QED BY <1>11, <1>15, <2>1, HeightOfColumns
<1>17. \A x \in DOMAIN g : IF x \in Names /\ ~BoundBelow(x, l + 1) THEN g[x] = InputColumn(x) ELSE Numeric(g[x], H)
  <2>1. \A x \in DOMAIN f : IF x \in Names /\ ~BoundBelow(x, l) THEN f[x] = InputColumn(x) ELSE Numeric(f[x], H)
    BY <1>2 DEF RightFrame
  <2>2. QED BY <1>12, <1>13, <1>14, <2>1
<1>18. (l + 1) - 1 = l
  BY <1>2
<1>19. RightFrame(g, l + 1, H)
  BY <1>8, <1>9, <1>11, <1>15, <1>16, <1>17, <1>18 DEF RightFrame, ColumnOfLength
<1>20. QED BY <1>2, <1>8, <1>19

LEMMA AppendRight ==
  ASSUME HCauseInv, HRightInv, UNCHANGED case, AppendColumns
  PROVE  HRightInv'
<1>1. /\ hstage = "bind" /\ ~More /\ made' = <<>> /\ UNCHANGED <<handling, value>>
      /\ frame' = WithColumns(frame, Layers[layer], LAMBDA i : made[i])
  BY DEF AppendColumns
<1>2. PICK L, s, f, H : L = Layers[layer] /\ s = Schema /\ Binding(L, s) /\ f = frame /\ H = FrameHeight(f)
  BY <1>1, BindingFacts
<1>3. PICK g : g = frame'
  OBVIOUS
<1>4. Layers # <<>> /\ layer \in 1..Len(Layers) /\ case \in Cases
  BY <1>2 DEF Binding
<1>5. /\ Len(made) = Len(L) /\ value = NoValue
  <2>1. Len(made) <= Len(L) /\ Len(made) \in Nat /\ Len(L) \in Nat
    BY <1>2 DEF Binding, MadeColumns
  <2>2. ~(Len(made) < Len(L))
    BY <1>1, <1>2 DEF More
  <2>3. value = NoValue
    BY <1>1 DEF HCauseInv, MadeInv
  <2>4. QED BY <2>1, <2>2, <2>3
<1>6. (Clear' <=> Clear) /\ (\A k : StampedLayer(k)' <=> StampedLayer(k)) /\ Layers' = Layers
  BY <1>1, SameStamps, SameLayers
<1>7. Clear => g = ReferenceFrames[layer] /\ RightFrame(g, layer + 1, H)
  <2>1. ASSUME Clear PROVE g = ReferenceFrames[layer] /\ RightFrame(g, layer + 1, H)
    <3>1. RightFrame(f, layer, H) /\ RightMade(L, f, s, H)
      BY <1>1, <1>2, <2>1 DEF HRightInv, BindInv
    <3>2. g = WithColumns(f, L, LAMBDA i : made[i])
      BY <1>1, <1>2, <1>3
    <3>3. QED BY <1>2, <1>5, <3>1, <3>2, AppendedFrame
  <2>2. QED BY <2>1
<1>8. CASE layer = Len(Layers) /\ hstage' = "answered"
  <2>1. StampInv' /\ BindInv'
    BY <1>8 DEF StampInv, BindInv
  <2>2. ASSUME Clear' PROVE (frame = PolarsFrame)'
    <3>1. g = ReferenceFrames[Len(Layers)]
      BY <1>6, <1>7, <1>8, <2>2
    <3>2. ReferenceFrames' = ReferenceFrames
      BY SameReferences
    <3>3. QED BY <1>3, <1>6, <3>1, <3>2 DEF PolarsFrame
  <2>3. HStackIsPolars'
    BY <2>2 DEF HStackIsPolars, Clear
  <2>4. QED BY <2>1, <2>3 DEF HRightInv
<1>9. CASE layer' = layer + 1 /\ UNCHANGED hstage
  <2>1. StampInv'
    BY <1>1, <1>6, <1>9 DEF HRightInv, StampInv
  <2>2. PICK k : k = layer + 1 /\ k = layer'
    BY <1>9
  <2>3. ASSUME Clear' PROVE RightFrame(g, k, FrameHeight(g))'
    <3>1. RightFrame(g, k, H)
      BY <1>6, <1>7, <2>2, <2>3
    <3>2. RightFrame(g, k, FrameHeight(g))
      BY <3>1 DEF RightFrame
    <3>3. QED BY <3>2, SameFrames
  <2>4. \A M, h, t, u, e : RightMade(M, h, t, u)' /\ RightValue(e, h, t)'
    <3>1. made' = <<>> /\ value' = NoValue
      BY <1>1, <1>5 DEF NoValue
    <3>2. QED BY <3>1, NothingMade
  <2>5. BindInv'
    BY <1>3, <2>2, <2>3, <2>4 DEF BindInv
  <2>6. HStackIsPolars'
    BY <1>1, <1>9 DEF HStackIsPolars
  <2>7. QED BY <2>1, <2>5, <2>6 DEF HRightInv
<1>10. QED BY <1>8, <1>9 DEF AppendColumns

\* The queries below, and the Filter below an HStack.
LEMMA OtherRight ==
  ASSUME HCauseInv, HRightInv, UNCHANGED case, OtherRuns
  PROVE  HRightInv'
<1>1. /\ Layers = <<>> \/ hstage = "input"
      /\ UNCHANGED <<hstage, layer, handling, frame, made, value>>
  BY DEF OtherRuns, hvars
<1>2. hstage \in {"none", "input"}
  BY <1>1 DEF HCauseInv, LayerInv
<1>3. StampInv'
  BY <1>1, <1>2, SameStamps, SameLayers, SameScan DEF HRightInv, StampInv
<1>4. BindInv' /\ HStackIsPolars'
  BY <1>1, <1>2 DEF BindInv, HStackIsPolars
<1>5. QED BY <1>3, <1>4 DEF HRightInv

LEMMA StutterRight ==
  ASSUME HRightInv, UNCHANGED hquery
  PROVE  HRightInv'
<1>1. UNCHANGED <<case, hstage, layer, handling, frame, made, value>>
  BY DEF hquery, hvars, query, vars
<1>2. /\ Clear' <=> Clear
      /\ \A k : StampedLayer(k)' <=> StampedLayer(k)
      /\ Layers' = Layers /\ Schema' = Schema /\ Next1' = Next1 /\ (Lowered' <=> Lowered)
  BY <1>1, SameStamps, SameLayers, SameScan DEF Schema, Next1
<1>3. StampInv'
  BY <1>1, <1>2 DEF HRightInv, StampInv
<1>4. BindInv'
  <2>1. RightFrame(frame, layer, FrameHeight(frame))' <=> RightFrame(frame, layer, FrameHeight(frame))
    BY <1>1, SameFrames
  <2>2. RightMade(Layers[layer], frame, Schema, FrameHeight(frame))'
          <=> RightMade(Layers[layer], frame, Schema, FrameHeight(frame))
    BY <1>1, <1>2, SameFrames DEF RightMade
  <2>3. RightValue(Next1.expr, frame, Schema)' <=> RightValue(Next1.expr, frame, Schema)
    BY <1>1, <1>2 DEF RightValue, NoValue
  <2>4. QED BY <1>1, <1>2, <2>1, <2>2, <2>3 DEF HRightInv, BindInv
<1>5. HStackIsPolars'
  <2>1. hstage = "answered" /\ Clear => frame = PolarsFrame
    BY ClearFrames DEF HRightInv
  <2>2. PolarsFrame' = PolarsFrame
    BY <1>1, <1>2, SameReferences DEF PolarsFrame
  <2>3. hstage' = "answered" /\ Clear' => frame' = PolarsFrame'
    BY <1>1, <1>2, <2>1, <2>2
  <2>4. QED BY <2>3 DEF HStackIsPolars, Clear
<1>6. QED BY <1>3, <1>4, <1>5 DEF HRightInv

LEMMA InitHRight == HStackInit => HRightInv
<1>1. ASSUME HStackInit PROVE handling = <<>> /\ hstage \in {"none", "analyze"}
  BY <1>1 DEF HStackInit
<1>2. QED BY <1>1 DEF HRightInv, StampInv, BindInv, HStackIsPolars

LEMMA NextHRight == HCauseInv /\ QueryInv /\ HRightInv /\ [HQueryNext]_hquery => HRightInv'
<1> SUFFICES ASSUME HCauseInv, QueryInv, HRightInv, [HQueryNext]_hquery PROVE HRightInv'
  OBVIOUS
<1>1. CASE HStackStep \/ HStackFault
  <2>1. UNCHANGED case
    BY <1>1 DEF HStackStep, HStackFault, AnalyzeLayer, AnalyzeInput, StampNulls, TakeInput,
           BindEmpty, DispatchValue, AttachNulls, AppendColumns, query, vars
  <2>2. CASE AnalyzeLayer \/ AnalyzeInput \/ StampNulls
    BY <2>1, <2>2, WalkerRight
  <2>3. CASE TakeInput
    BY <2>1, <2>3, InputRight
  <2>4. CASE BindEmpty
    BY <2>1, <2>4, EmptyRight
  <2>5. CASE DispatchValue
    BY <2>1, <2>5, ValueRight
  <2>6. CASE AttachNulls
    BY <2>1, <2>6, AttachRight
  <2>7. CASE AppendColumns
    BY <2>1, <2>7, AppendRight
  <2>8. CASE HStackFault
    BY <2>8 DEF HStackFault, HRightInv, StampInv, BindInv, HStackIsPolars
  <2>9. QED BY <1>1, <2>2, <2>3, <2>4, <2>5, <2>6, <2>7, <2>8 DEF HStackStep
<1>2. CASE OtherRuns /\ (QueryStep \/ QueryNext)
  <2>1. [QueryNext]_query
    BY <1>2 DEF QueryNext
  <2>2. UNCHANGED case
    BY <2>1, QuerySteps, CaseStays
  <2>3. QED BY <1>2, <2>2, OtherRight
<1>3. CASE UNCHANGED hquery
  BY <1>3, StutterRight
<1>4. QED BY <1>1, <1>2, <1>3 DEF HQueryNext, HQueryStep

\* The frame that fused HStacks answer with (_hstack_fused_over_upstream) is the one Polars makes
\* of the rows of the scan or of the Filter below, value by value, null by null and dtype by
\* dtype, for all frames, HStacks and expressions, whichever bindings run one graph or two:
\* unless one of the shapes that HStackIsPolars names, the README's list, is in the query.
THEOREM HStacksArePolars == HQuerySpec => []HStackIsPolars
<1>1. HStackInit => QueryInv
  BY InitQueryInv DEF HStackInit
<1>2. [HQueryNext]_hquery => [QueryNext]_query
  BY HStacksLeaveQuery
<1>3. HRightInv => HStackIsPolars
  BY DEF HRightInv
<1>4. QED
  BY <1>1, <1>2, <1>3, NextQueryInv, InitHCauseInv, NextHCauseInv, InitHRight, NextHRight, PTL DEF HQuerySpec

=============================================================================
