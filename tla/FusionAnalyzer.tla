--------------------------- MODULE FusionAnalyzer ---------------------------
(***************************************************************************)
(* The expressions of with_columns that run as one MLX graph: what the     *)
(* analyzer admits and says of their dtypes and nulls                      *)
(* (_fusion_analyzer.py), and what the two graphs it builds compute        *)
(* (fusion/scope.rs, fusion/subgraph.rs): the values, and for some         *)
(* expressions the validity of each row.                                   *)
(*                                                                         *)
(* An expression is the arena of its nodes, operands first: a node has the *)
(* ids of its operands (view_expression(node_id)), and the last one is the *)
(* root.  Arithmetic is addition and stands for the elementwise functions; *)
(* the running sum and the running maximum stand for the scans.  An        *)
(* aggregate is a node that the analyzer refuses.  A number in a column of *)
(* 32-bit floats is an integer or NaN.  Polars has cast the operands of an *)
(* operator to one dtype, and what MLX would compute from a literal alone  *)
(* is as long as the frame.                                                *)
(***************************************************************************)
EXTENDS PredicateFilter

CONSTANT NaN

ASSUME NaNAssumption == NaN \notin Int /\ NaN # Null

CompareOps == {"Eq", "Ne", "Lt", "Le", "Gt", "Ge"}
Scans      == {"CumSum", "CumMax"}
IntTags    == {"I8", "I32", "I64", "U64"}
GraphTags  == IntTags \cup {"F32", "F64", "Bool"}

\* The operands of a node.
Arity(n) == CASE n.op \in {"Column", "Literal"}                 -> 0
              [] n.op \in {"Cast", "Shift", "Agg"} \cup Scans   -> 1
              [] n.op = "Where"                                 -> 3
              [] OTHER                                          -> 2

\* The element of a singleton. TLC computes what a quantifier ranges over once.
Only(S) == CHOOSE x \in S : TRUE

\* An attribute of each node, which F gives from those of its operands, and that of the root.
Attributes(e, F(_, _)) ==
  LET attribute[i \in DOMAIN e] ==
        Only({F(e[i], a) : a \in {[j \in DOMAIN e[i].args |-> attribute[e[i].args[j]]] \o <<>>}})
  IN  attribute
Synthesize(e, F(_, _)) == Attributes(e, F)[Len(e)]

Uses(e, ops)  == \E i \in DOMAIN e : e[i].op \in ops
InputNames(e) == {e[i].name : i \in {k \in DOMAIN e : e[k].op = "Column"}}

-----------------------------------------------------------------------------
\* The analyzer; s is the schema below the HStack.

\* _gather_leaves_ir and _visit_ir_ops.  They look up the name of an aggregate, which the IR has in
\* lowercase, in _AGG_MAP, whose keys are capitalised: every aggregate aborts the analysis.
Admitted(n, s) ==
  CASE n.op = "Column"   -> n.name \in DOMAIN s /\ s[n.name] \in GraphTags
    [] n.op = "Literal"  -> n.value # Null
    [] n.op = "Cast"     -> n.to = "F32"
    [] n.op = "Shift"    -> n.offset >= 0
    [] n.op \in Scans    -> ~n.reverse
    [] OTHER             -> n.op \in CompareOps \cup {"Add", "And", "Where"}

Fusable(e, s) == \A i \in DOMAIN e : Admitted(e[i], s)

\* _scan_binding_col_dtype and analyze_ir_with_columns: the one integer dtype of the columns,
\* or F32.
OutTag(e, s) ==
  LET tags == {s[x] : x \in InputNames(e)}
  IN  IF ~Uses(e, {"Cast"}) /\ Cardinality(tags) = 1 /\ tags \subseteq IntTags
        THEN CHOOSE t \in tags : TRUE ELSE "F32"

\* The dtype Polars gives the column; it sums narrow integers in 64 bits, and counts Booleans.
Summed(t) == CASE t = "I8" -> "I64" [] t = "Bool" -> "U32" [] OTHER -> t
PolarsNode(n, a, s) == CASE n.op = "Column"  -> s[n.name]
                         [] n.op = "Literal" -> n.dtype
                         [] n.op = "Cast"    -> n.to
                         [] n.op = "Where"   -> a[2]
                         [] n.op \in CompareOps \cup {"And"}  -> "Bool"
                         [] n.op = "CumSum"  -> Summed(a[1])
                         [] OTHER            -> a[1]
PolarsDtype(e, s) == Synthesize(e, LAMBDA n, a : PolarsNode(n, a, s))

\* What a node and the dtypes of its operands are: numbers are added and compared, and Booleans
\* counted, by nodes that know what they get.
WellTyped(n, a) ==
  CASE n.op = "Literal" -> n.value \in IF n.dtype = "Bool" THEN BOOLEAN ELSE Int \cup {NaN}
    [] n.op = "Add"     -> a[1] = a[2] /\ a[1] # "Bool"
    [] n.op = "And"     -> a[1] = "Bool" /\ a[2] = "Bool"
    [] n.op = "Where"   -> a[1] = "Bool" /\ a[2] = a[3]
    [] n.op = "CumMax"  -> a[1] # "Bool"
    [] n.op \in CompareOps                  -> a[1] # "Bool" /\ a[2] # "Bool"
    [] n.op \in {"Cast", "Shift", "CumSum"} -> n.from = "Bool" <=> a[1] = "Bool"
    [] OTHER            -> TRUE

\* An expression, in which Polars has cast the operands of an operator to one dtype, and every node
\* but the root is an operand.
IsExpression(e, s) ==
  LET dtypes == Attributes(e, LAMBDA n, a : PolarsNode(n, a, s))
  IN  /\ IsSequence(e) /\ e # <<>>
      /\ \A i \in DOMAIN e :
           /\ IsSequence(e[i].args) /\ Len(e[i].args) = Arity(e[i])
           /\ Range(e[i].args) \subseteq 1..(i - 1)
           /\ i # Len(e) => \E k \in DOMAIN e : i \in Range(e[k].args)
           /\ e[i].op = "Shift" => e[i].offset \in Int
      /\ \A i \in DOMAIN e : WellTyped(e[i], [j \in DOMAIN e[i].args |-> dtypes[e[i].args[j]]])

\* Fault: whatever the graph can compute is lowered.
BindingLoweredAnyDtype(e, s) == Fusable(e, s)

\* _walk_hstack: an F32 column, or one of the integer dtype the graph computes in.
BindingLowered(e, s) ==
  /\ Fusable(e, s)
  /\ \/ PolarsDtype(e, s) = "F32"
     \/ OutTag(e, s) \in IntTags /\ PolarsDtype(e, s) = OutTag(e, s)

\* has_structural_null_op.
HasShift(e) == Uses(e, {"Shift"})

\* Fault: every comparison is taken to be false of NaN.
NanSafeAny(op) == op \in CompareOps

\* _is_nan_safe_predicate.
NanSafe(op) == op \in CompareOps \ {"Ne"}

\* _classify_null_ir, which does not descend into a predicate.
Classify(n, a) ==
  [op    |-> n.op,
   where |-> n.op \in {"Where", "Shift"} \/ \E i \in DOMAIN a : a[i].where,
   ok    |-> CASE n.op = "Where" -> NanSafe(a[1].op) /\ a[2].ok /\ a[3].ok
               [] OTHER -> n.op \notin Scans \cup {"And"} /\ \A i \in DOMAIN a : a[i].ok]

\* null_mode_ir.
NullMode(e) == LET c == Synthesize(e, Classify)
               IN  IF ~c.ok THEN "none" ELSE IF c.where THEN "where" ELSE "elementwise"

\* analyze_ir_validity: a logical operator has no validity graph outside a predicate, whose values
\* are all that is used, nor a scan unless the only nulls are those of a shift.
HasMask(n, a, structuralOnly) ==
  /\ n.op # "And" /\ (n.op \in Scans => structuralOnly)
  /\ \A i \in DOMAIN a : a[i] \/ (n.op = "Where" /\ i = 1)
HasValidity(e, structuralOnly) == Synthesize(e, LAMBDA n, a : HasMask(n, a, structuralOnly))

\* What becomes of a binding whose columns are known to have no nulls (clean), or not: nothing
\* is done about nulls, the nulls of the columns are joined, the validity graph runs, or the
\* plan falls back.
NullHandling(e, clean) ==
  CASE clean /\ ~HasShift(e)           -> "none"
    [] clean /\ HasShift(e)            -> IF HasValidity(e, TRUE) THEN "where" ELSE "fallback"
    [] ~clean /\ NullMode(e) = "where" -> IF HasValidity(e, FALSE) THEN "where" ELSE "fallback"
    [] OTHER                           -> IF NullMode(e) = "elementwise" THEN "elementwise"
                                                                         ELSE "fallback"

-----------------------------------------------------------------------------
\* The values of an operator on rows, for both worlds.

\* IEEE 754, as MLX compares, and Polars' total order.
IeeeOrder(op, x, y) == IF NaN \in {x, y} THEN op = "Ne" ELSE Order(op, x, y)
NanLastOrder(op, x, y) ==
  CASE x = NaN /\ y = NaN -> op \in {"Eq", "Le", "Ge"}
    [] x = NaN /\ y # NaN -> op \in {"Ne", "Gt", "Ge"}
    [] x # NaN /\ y = NaN -> op \in {"Ne", "Lt", "Le"}
    [] OTHER              -> Order(op, x, y)

AddNumbers(x, y) == IF NaN \in {x, y} THEN NaN ELSE x + y
Accumulated(op, x, y) ==
  IF op # "CumMax" THEN AddNumbers(x, y) ELSE IF x > y THEN x ELSE y

\* A Boolean counts as a number where a node asks for one.
AsNumber(n, v) == IF n.from # "Bool" \/ v = Null THEN v ELSE IF v THEN 1 ELSE 0

RowOp(n, x, Comparison(_, _, _)) ==
  CASE n.op \in CompareOps -> Comparison(n.op, x[1], x[2])
    [] n.op = "Add"        -> AddNumbers(x[1], x[2])
    [] n.op = "And"        -> x[1] /\ x[2]
    [] n.op = "Cast"       -> AsNumber(n, x[1])
    [] n.op = "Where"      -> IF x[1] THEN x[2] ELSE x[3]

Row(a, r) == [i \in DOMAIN a |-> a[i][r]]

\* The column of the values V(r).
PerRow(values, V(_)) == [r \in DOMAIN values |-> V(r)] \o <<>>

\* The column moved down by w rows, over what is filled in.
Shifted(values, w, fill) == PerRow(values, LAMBDA r : IF r > w THEN values[r - w] ELSE fill)

\* The numbers a scan runs over.
Summands(n, values) == IF n.op = "CumMax" THEN values ELSE PerRow(values, LAMBDA r : AsNumber(n, values[r]))

-----------------------------------------------------------------------------
\* The graphs, over a frame: name -> dtype, values.

\* mlx_cumsum, mlx_cummax.
Running(op, values) ==
  LET run[r \in DOMAIN values] ==
        IF r = 1 THEN values[1] ELSE Accumulated(op, run[r - 1], values[r])
  IN  run

\* build_op and mlx_shift, which fills with zeros.
MlxOp(n, a) ==
  CASE n.op = "Shift" -> Shifted(a[1], n.offset, IF n.from = "Bool" THEN FALSE ELSE 0)
    [] n.op \in Scans -> Running(n.op, Summands(n, a[1])) \o <<>>
    [] OTHER          -> PerRow(a[1], LAMBDA r : RowOp(n, Row(a, r), IeeeOrder))

\* _hstack_fused_over_upstream: a null is staged as 0 or as NaN, and a column in its own dtype, which
\* the graph reads as tag: the bits of a small integer are those of a subnormal float, which the
\* device takes for zero, or, below zero, of a NaN.
Staged(column, tag) ==
  LET number(v) == IF v # Null THEN v ELSE IF column.dtype = "F32" THEN NaN ELSE 0
      read(v)   == IF column.dtype \notin IntTags \/ tag # "F32" THEN v ELSE IF v < 0 THEN NaN ELSE 0
  IN  PerRow(column.values, LAMBDA r : read(number(column.values[r])))

FrameHeight(f) == Len(f[CHOOSE x \in DOMAIN f : TRUE].values)
Broadcast(f, v) == [r \in 1..FrameHeight(f) |-> v] \o <<>>

\* The first graph, in the dtypes that its scope has for the columns.
ValueNode(n, a, f, s) == CASE n.op = "Column"  -> Staged(f[n.name], s[n.name])
                           [] n.op = "Literal" -> Broadcast(f, n.value)
                           [] OTHER            -> MlxOp(n, a)
ValueGraph(e, f, s) == Synthesize(e, LAMBDA n, a : ValueNode(n, a, f, s))

\* The bits of an integral 32-bit float, read as a signed integer.
FloatBits(v) ==
  LET abs == IF v < 0 THEN -v ELSE v
      exp == CHOOSE k \in 0..20 : 2^k <= abs /\ abs < 2^(k + 1)
      bits == (127 + exp) * 2^23 + (abs - 2^exp) * 2^(23 - exp)
  IN  CASE v = 0 -> 0 [] v > 0 -> bits [] v < 0 -> bits - 2^30 - 2^30

NanBits == 255 * 2^23 + 2^22

\* _fused_null_mask stages the columns of a predicate as floats, and the graph reads them in the
\* dtype its scope has for them (from_fusion_scope_buffers).
Misread(column, tag) ==
  LET read(v) == CASE tag = "F32" -> IF v = Null THEN NaN ELSE v
                   [] OTHER       -> IF v = Null THEN NanBits ELSE FloatBits(v)
  IN  PerRow(column.values, LAMBDA r : read(column.values[r]))

Valid(column) == PerRow(column.values, LAMBDA r : column.values[r] # Null)

\* _visit_validity on a Where: the branch that the value takes, whatever the predicate's validity.
WhereValidity(cond, then, else) == PerRow(cond, LAMBDA r : IF cond[r] THEN then[r] ELSE else[r])

\* _visit_validity: next to the values, which only predicates use, whether a row is valid.
ValidityNode(n, a, f, s) ==
  [val |-> CASE n.op = "Column"  -> Misread(f[n.name], s[n.name])
             [] n.op = "Literal" -> Broadcast(f, n.value)
             [] OTHER            -> MlxOp(n, [i \in DOMAIN a |-> a[i].val]),
   ok  |-> CASE n.op = "Column"  -> Valid(f[n.name])
             [] n.op = "Literal" -> Broadcast(f, TRUE)
             [] n.op = "Where"   -> WhereValidity(a[1].val, a[2].ok, a[3].ok)
             [] n.op = "Shift"   -> Shifted(a[1].ok, n.offset, FALSE)
             [] OTHER            -> PerRow(a[1].ok, LAMBDA r : \A i \in DOMAIN a : a[i].ok[r])]
ValidityGraph(e, f, s) == Synthesize(e, LAMBDA n, a : ValidityNode(n, a, f, s)).ok

\* Per node: what is below it, and what is below the predicates in it.
PredicateNode(n, a) ==
  [node  |-> n,
   below |-> UNION {{a[i].node} \cup a[i].below : i \in DOMAIN a},
   cond  |-> IF n.op = "Where" THEN a[1].below \cup a[2].cond \cup a[3].cond
             ELSE UNION {a[i].cond : i \in DOMAIN a}]
Predicated(e) == Synthesize(e, PredicateNode).cond

PredicateTags(e, s) == {s[n.name] : n \in {m \in Predicated(e) : m.op = "Column"}}

\* The dtype MLX computes in, which a running sum keeps but for Booleans; literals are staged in tag.
MlxSummed(t) == IF t = "Bool" THEN "I32" ELSE t
Promoted(t, u) == IF t = u THEN t ELSE "F32"
GraphNode(n, a, s, tag) == CASE n.op = "Column"  -> s[n.name]
                             [] n.op = "Literal" -> tag
                             [] n.op = "Cast"    -> "F32"
                             [] n.op = "Add"     -> Promoted(a[1], a[2])
                             [] n.op = "Where"   -> Promoted(a[2], a[3])
                             [] n.op \in CompareOps \cup {"And"}  -> "Bool"
                             [] n.op = "CumSum"  -> MlxSummed(a[1])
                             [] OTHER            -> a[1]
GraphDtype(e, s, tag) == Synthesize(e, LAMBDA n, a : GraphNode(n, a, s, tag))

\* input_dtype_to_mlx has no F64; a Boolean column is staged in four bytes and read in one;
\* eval_into_typed refuses another dtype than was declared.
ValueGraphFails(e, s) ==
  \/ \E x \in InputNames(e) : s[x] \in {"F64", "Bool"}
  \/ GraphDtype(e, s, OutTag(e, s)) # OutTag(e, s)

\* The floats of a predicate are more or fewer integers of another width.
ValidityGraphFails(e, s) == ~(PredicateTags(e, s) \subseteq {"F32", "I32"})

-----------------------------------------------------------------------------
\* The reference: the same expression in Polars.

PolarsRow(n, x) ==
  CASE n.op = "Where" -> IF x[1] = TRUE THEN x[2] ELSE x[3]
    [] n.op = "And"   -> KleeneLogical("And", x[1], x[2])
    [] OTHER          -> IF Null \in Range(x) THEN Null ELSE RowOp(n, x, NanLastOrder)

\* What has been accumulated of the first rows, nulls skipped; Null before any value.
Accumulation(op, values) ==
  LET total[r \in 0..Len(values)] ==
        IF r = 0 THEN Null
        ELSE CASE values[r] = Null    -> total[r - 1]
               [] total[r - 1] = Null -> values[r]
               [] OTHER               -> Accumulated(op, total[r - 1], values[r])
  IN  total

\* A null stays where it is.
PolarsRunning(op, values) ==
  PerRow(values, LAMBDA r : IF values[r] = Null THEN Null ELSE Accumulation(op, values)[r])

PolarsOp(n, a) ==
  CASE n.op = "Shift" -> Shifted(a[1], n.offset, Null)
    [] n.op \in Scans -> PolarsRunning(n.op, Summands(n, a[1]))
    [] OTHER          -> PerRow(a[1], LAMBDA r : PolarsRow(n, Row(a, r)))

PolarsColumn(n, a, f) == CASE n.op = "Column"  -> f[n.name].values
                           [] n.op = "Literal" -> Broadcast(f, n.value)
                           [] OTHER            -> PolarsOp(n, a)
PolarsValue(e, f) == Synthesize(e, LAMBDA n, a : PolarsColumn(n, a, f))

\* A scan that starts with what a shift has filled in; a running sum of nothing but that is zero.
HeadNode(n, a) ==
  [op     |-> n.op,
   shifts |-> n.op = "Shift" \/ \E i \in DOMAIN a : a[i].shifts,
   lower  |-> \E i \in DOMAIN a : a[i].shifts,
   found  |-> \/ \E i \in DOMAIN a : a[i].found
              \/ n.op = "CumMax" /\ a[1].shifts
              \/ n.op = "CumSum" /\ a[1].shifts /\ (a[1].op # "Shift" \/ a[1].lower)]
ScannedHead(e) == Synthesize(e, HeadNode).found

=============================================================================
