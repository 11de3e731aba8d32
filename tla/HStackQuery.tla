---------------------------- MODULE HStackQuery ----------------------------
(***************************************************************************)
(* Fused HStacks (with_columns) over a scan or over a Filter, beside the   *)
(* queries of GroupByQuery: _walk_hstack, which lowers the outermost       *)
(* HStack first and decides about nulls on the way back, and               *)
(* _hstack_fused_over_upstream, which runs one or two graphs per binding   *)
(* (execute_fused_expr) and then appends the columns of the HStack.        *)
(*                                                                         *)
(* A case has layers as well, the HStacks from the innermost: sequences of *)
(* bindings, a name and an expression.  The Filter is PredicateFilter.     *)
(***************************************************************************)
EXTENDS GroupByQuery, FusionAnalyzer

\* f with the columns F(i) of the bindings bs, whose names differ.
Binder(bs, x) == CHOOSE i \in DOMAIN bs : bs[i].name = x
WithColumns(f, bs, F(_)) ==
  [x \in DOMAIN f \cup {bs[i].name : i \in DOMAIN bs} |->
    IF \E i \in DOMAIN bs : bs[i].name = x THEN F(Binder(bs, x)) ELSE f[x]]

\* The schemas of a case below each of its layers, as Polars has them.
Schemas(c) ==
  LET below[k \in 1..(Len(c.layers) + 1)] ==
        IF k = 1 THEN [x \in DOMAIN c.frame |-> c.frame[x].dtype]
        ELSE Only({WithColumns(s, c.layers[k - 1], LAMBDA i : PolarsDtype(c.layers[k - 1][i].expr, s)) :
                     s \in {below[k - 1]}})
  IN  below

\* A frame has several rows or none, but for what a Filter leaves, which no predicate reads.
ASSUME LayerAssumption ==
  \A c \in Cases : c.layers # <<>> =>
    /\ c.input = "none" /\ c.height \notin 1..3 /\ DOMAIN c.frame # {}
    /\ \A x \in DOMAIN c.frame : c.frame[x].dtype \in IntTags \cup {"F32"} =>
         \A i \in DOMAIN c.frame[x].parent : c.frame[x].parent[i] \in Int \cup {NaN, Null}
    /\ IsSequence(c.layers)
    /\ \A k \in DOMAIN c.layers :
         /\ IsSequence(c.layers[k])
         /\ \A i \in DOMAIN c.layers[k] :
              Fusable(c.layers[k][i].expr, Schemas(c)[k]) => IsExpression(c.layers[k][i].expr, Schemas(c)[k])
    /\ c.predicate # <<>> =>
         c.entry = "compact" /\ \A k \in DOMAIN c.layers : \A i \in DOMAIN c.layers[k] :
                                 ~Uses(c.layers[k][i].expr, {"Where"})

VARIABLES
  hstage,   \* "none"; "analyze", "nulls", "input", "bind"; "answered", "left to Polars",
            \* "failed" or, after a failure of MLX or the device, "faulted"
  layer,    \* the HStack at hand
  handling, \* per HStack and binding, what is done about nulls
  frame,    \* what the HStacks up to here have made
  made,     \* the columns of this HStack so far
  value     \* what the value graph of the next one has computed, or NoValue

hvars  == <<hstage, layer, handling, frame, made, value>>
hquery == <<query, hvars>>

Layers  == case.layers
NoValue == <<>>

SchemaBelow(k) == Schemas(case)[k]

-----------------------------------------------------------------------------
\* The walker.

HStackInit ==
  /\ QueryInit
  /\ hstage = IF Layers = <<>> THEN "none" ELSE "analyze"
  /\ layer = Len(Layers)
  /\ handling = <<>> /\ frame = <<>> /\ made = <<>> /\ value = NoValue

LeaveToPolars == hstage' = "left to Polars"

AnalyzeLayer ==
  /\ hstage = "analyze" /\ layer > 0
  /\ LET s == SchemaBelow(layer)
     IN  IF \A i \in DOMAIN Layers[layer] : BindingLowered(Layers[layer][i].expr, s)
           THEN layer' = layer - 1 /\ UNCHANGED hstage
           ELSE LeaveToPolars /\ UNCHANGED layer
  /\ UNCHANGED <<query, handling, frame, made, value>>

\* _walk_filter and the scan, below the HStacks.
AnalyzeInput ==
  /\ hstage = "analyze" /\ layer = 0
  /\ IF Lowered THEN hstage' = "nulls" /\ layer' = 1 ELSE LeaveToPolars /\ UNCHANGED layer
  /\ UNCHANGED <<query, handling, frame, made, value>>

\* _fused_inputs_null_free looks a name up in the scan.
NullFree(x) == x \in Names /\ \A r \in Rows : Value(x, r) # Null

\* The loop over fused_records.
StampNulls ==
  /\ hstage = "nulls"
  /\ LET stamp(b) == NullHandling(b.expr, \A x \in InputNames(b.expr) : NullFree(x))
         stamps   == [i \in DOMAIN Layers[layer] |-> stamp(Layers[layer][i])]
     IN  IF "fallback" \in Range(stamps)
           THEN LeaveToPolars /\ UNCHANGED <<layer, handling>>
           ELSE /\ handling' = Append(handling, stamps)
                /\ IF layer = Len(Layers) THEN hstage' = "input" /\ layer' = 1
                                          ELSE layer' = layer + 1 /\ UNCHANGED hstage
  /\ UNCHANGED <<query, frame, made, value>>

-----------------------------------------------------------------------------
\* _dispatch_hstack_fused: the input first, then each HStack on what is below it.

OverFilter == case.predicate # <<>>

Columns(f) == [x \in Names |-> [dtype |-> Dtype(x), values |-> f[x]]]

TakeInput ==
  /\ hstage = "input" /\ (OverFilter => phase \in {"answered", "failed"})
  /\ IF OverFilter /\ phase = "failed" THEN hstage' = "failed" /\ UNCHANGED frame
     ELSE /\ hstage' = "bind"
          /\ frame' = Columns(IF OverFilter THEN result ELSE [x \in Names |-> Materialize(x)])
  /\ UNCHANGED <<query, layer, handling, made, value>>

\* The dtypes the walker has stamped the scope and its output with.
Schema == SchemaBelow(layer)
Next1  == Layers[layer][Len(made) + 1]
More   == Len(made) < Len(Layers[layer])

\* No buffer is made for no rows.
BindEmpty ==
  /\ hstage = "bind" /\ FrameHeight(frame) = 0 /\ made = <<>>
  /\ made' = [i \in DOMAIN Layers[layer] |->
               [dtype |-> OutTag(Layers[layer][i].expr, Schema), values |-> <<>>]]
  /\ UNCHANGED <<query, hstage, layer, handling, frame, value>>

\* A column staged in its own dtype, which may not be the schema's (that of a column of 32-bit
\* floats), where it has more bytes, or fewer, than the graph reads per row.
Misstaged(e) ==
  \E x \in InputNames(e) : frame[x].dtype # Schema[x] /\ frame[x].dtype \in {"I8", "I64", "U64"}

DispatchValue ==
  /\ hstage = "bind" /\ FrameHeight(frame) > 0 /\ More /\ value = NoValue
  /\ \/ /\ ValueGraphFails(Next1.expr, Schema) \/ Misstaged(Next1.expr)
        /\ hstage' = "failed" /\ UNCHANGED value
     \/ /\ ~ValueGraphFails(Next1.expr, Schema)
        /\ value' = ValueGraph(Next1.expr, frame, Schema) /\ UNCHANGED hstage
  /\ UNCHANGED <<query, layer, handling, frame, made>>

\* _fused_null_mask: no mask, the nulls of the columns, or the second graph.
JoinedNulls(e) ==
  [r \in 1..FrameHeight(frame) |-> \A x \in InputNames(e) : frame[x].values[r] # Null]

Validity(e, how) == CASE how = "none"        -> Broadcast(frame, TRUE)
                      [] how = "elementwise" -> JoinedNulls(e)
                      [] how = "where"       -> ValidityGraph(e, frame, Schema)

AttachNulls ==
  /\ hstage = "bind" /\ value # NoValue
  /\ LET e   == Next1.expr
         how == handling[layer][Len(made) + 1]
         column(valid) == [dtype  |-> OutTag(e, Schema),
                           values |-> [r \in DOMAIN value |-> IF valid[r] THEN value[r] ELSE Null]]
     IN  IF how = "where" /\ ValidityGraphFails(e, Schema)
           THEN hstage' = "failed" /\ UNCHANGED <<made, value>>
           ELSE /\ made' = Append(made, column(Validity(e, how))) /\ value' = NoValue
                /\ UNCHANGED hstage
  /\ UNCHANGED <<query, layer, handling, frame>>

\* with_columns: the columns of an HStack replace those of their names.
AppendColumns ==
  /\ hstage = "bind" /\ ~More
  /\ frame' = WithColumns(frame, Layers[layer], LAMBDA i : made[i])
  /\ made' = <<>>
  /\ IF layer = Len(Layers) THEN hstage' = "answered" /\ UNCHANGED layer
                            ELSE layer' = layer + 1 /\ UNCHANGED hstage
  /\ UNCHANGED <<query, handling, value>>

\* The device, an allocation or MLX fails in one of the two graphs.
HStackFault ==
  /\ hstage = "bind" /\ FrameHeight(frame) > 0 /\ (More \/ value # NoValue)
  /\ hstage' = "faulted"
  /\ UNCHANGED <<query, layer, handling, frame, made, value>>

HStackStep == AnalyzeLayer \/ AnalyzeInput \/ StampNulls \/ TakeInput \/ BindEmpty
              \/ DispatchValue \/ AttachNulls \/ AppendColumns

\* The other queries, and the Filter below an HStack.
OtherRuns == (Layers = <<>> \/ (hstage = "input" /\ OverFilter)) /\ UNCHANGED hvars

HQueryStep == HStackStep \/ (OtherRuns /\ QueryStep)
HQueryNext == HQueryStep \/ HStackFault \/ (OtherRuns /\ QueryNext)

\* The host runs on, and Metal and MLX complete what they are given.
HQuerySpec == HStackInit /\ [][HQueryNext]_hquery /\ WF_hquery(HQueryStep)

-----------------------------------------------------------------------------
\* The reference: what Polars makes of the rows.

InputRowsOfCase == Ascending(IF OverFilter THEN TrueRows ELSE Rows)

ReferenceLayer(f, k) ==
  WithColumns(f, Layers[k], LAMBDA i : [dtype  |-> PolarsDtype(Layers[k][i].expr, SchemaBelow(k)),
                                        values |-> PolarsValue(Layers[k][i].expr, f)])

ReferenceFrames ==
  LET above[k \in 0..Len(Layers)] ==
        IF k = 0 THEN Columns(Selected(InputRowsOfCase))
        ELSE Only({ReferenceLayer(f, k) : f \in {above[k - 1]}})
  IN  above
PolarsFrame == ReferenceFrames[Len(Layers)]

\* Some binding b of some layer k.
SomeBinding(P(_, _)) == \E k \in DOMAIN Layers : \E i \in DOMAIN Layers[k] : P(Layers[k][i], k)

\* Shapes whose frame is not that of Polars: the README lists them (section 3.1).
BoundBelow(x, k) == \E j \in 1..(k - 1) : \E i \in DOMAIN Layers[j] : Layers[j][i].name = x
RecomputedName == SomeBinding(LAMBDA b, k : \E x \in InputNames(b.expr) : x \in Names /\ BoundBelow(x, k))

ShiftedPredicate == SomeBinding(LAMBDA b, k : \E n \in Predicated(b.expr) : n.op = "Shift")

Masked(b, k) == \E i \in DOMAIN Layers[k] : Layers[k][i] = b /\ handling[k][i] = "where"

\* Both graphs see a null integer as a number, and the second sees other numbers.
IntegerPredicate ==
  SomeBinding(LAMBDA b, k : Masked(b, k) /\ PredicateTags(b.expr, SchemaBelow(k)) \cap IntTags # {})

\* An F32 column that Polars computes from literals alone, chosen by an integer predicate, which
\* the walker's guard lets through though the graph does not keep its dtype (_walker.py 646-666);
\* and a binding that reads such a column as F32.
Retyped(b, k) == LET s == SchemaBelow(k) IN PolarsDtype(b.expr, s) # OutTag(b.expr, s)
ReadsRetyped(b, k) ==
  \E x \in InputNames(b.expr) : \E j \in 1..(k - 1) : \E i \in DOMAIN Layers[j] :
    Layers[j][i].name = x /\ Retyped(Layers[j][i], j)

\* A null that a predicate compares, but not on top.
NestedCondition ==
  SomeBinding(LAMBDA b, k : Masked(b, k) /\ \E n \in Predicated(b.expr) :
                n.op \in CompareOps \cup Scans \cup {"And", "Where"})

ReadsNaN(e) ==
  \/ \E x \in InputNames(e) \cap Names : \E r \in Rows : Value(x, r) = NaN
  \/ \E i \in DOMAIN e : e[i].op = "Literal" /\ e[i].value = NaN
NanCompared ==
  /\ SomeBinding(LAMBDA b, k : ReadsNaN(b.expr))
  /\ SomeBinding(LAMBDA b, k : Uses(b.expr, CompareOps \cup {"CumMax"}))

NanFiltered == OverFilter /\ NanRows # {}

\* With these set apart, the frame of fused HStacks is that of Polars, value by value, null by
\* null and dtype by dtype: whichever bindings run one graph or two, over a scan or a Filter.
HStackIsPolars ==
  hstage = "answered" =>
    \/ RecomputedName \/ ShiftedPredicate \/ IntegerPredicate \/ NestedCondition
    \/ NanCompared \/ NanFiltered
    \/ SomeBinding(LAMBDA b, k : ScannedHead(b.expr) \/ Retyped(b, k))
    \/ frame = PolarsFrame

\* What the comment of _fused_inputs_null_free says: a query that reads a column an HStack below
\* has computed stays correct (_walker.py 949-954).
ChainsAreCorrect ==
  hstage = "answered" /\ RecomputedName => frame = PolarsFrame

\* Lowered HStacks fail only for what their Filter or the device does, for a column of a dtype
\* MLX has none for, for a predicate over integers that are not of 32 bits, in the second
\* graph, or for a column that a lower HStack has made in another dtype than Polars would.
HStackFailsForCause ==
  hstage = "failed" =>
    \/ phase = "failed" \/ SomeBinding(ReadsRetyped)
    \/ SomeBinding(LAMBDA b, k : LET s == SchemaBelow(k)
                                 IN  \/ \E x \in InputNames(b.expr) : s[x] \in {"F64", "Bool"}
                                     \/ /\ Masked(b, k)
                                        /\ PredicateTags(b.expr, s) \cap {"I8", "I64", "U64"} # {})

\* Every query ends, through both filters, both dispatchers and both graphs.
EveryQueryEnds ==
  <>(IF Layers = <<>> THEN QueryDone
     ELSE hstage \in {"answered", "left to Polars", "failed", "faulted"})

=============================================================================
