---------------------------- MODULE GroupByQuery ----------------------------
(***************************************************************************)
(* A lifted GroupBy over a scan or over a Filter, from the walker to the   *)
(* frame: _walk_group_by, _dispatch_groupby (_udf.py), execute_groupby     *)
(* (udf/groupby/mod.rs) and the two dispatchers of groupby.rs, of which    *)
(* the fused one gives up on too many groups and leaves the query to the   *)
(* other.  The Filter is PredicateFilter, the keys are encoded and decoded *)
(* by KeyEncoding, the build is GroupBuild's promise, and an aggregation   *)
(* is one step with the answer AggregateKernel gives.                      *)
(*                                                                         *)
(* A case of PredicateFilter has here an input, "scan" or "filter", keys   *)
(* and aggs as well; the input "none" is a Filter by itself.               *)
(***************************************************************************)
EXTENDS PredicateFilter, KeyEncoding

CONSTANTS
  MaxGroups,  \* MAX_GROUPS, the registers of the fused kernel
  Seed        \* what a fused minimum or maximum starts from

\* Bound: the rows of a GroupBy, so that OneBits tells the codes of their strings apart.
MaxRows == 1024 * 1024 * 1024

\* The columns an aggregation reads.
ReadBy(a) == CASE a.kind = "Simple"     -> {a.column}
               [] a.kind = "Expression" -> {a.lhs, a.rhs}
               [] OTHER                 -> {}

ASSUME GroupByAssumption ==
  /\ MaxGroups \in Nat \ {0}
  /\ \A c \in Cases :
       /\ c.input \in {"none", "scan"} \/ (c.input = "filter" /\ c.entry = "polars")
       /\ IsSequence(c.keys)
       /\ c.input = "filter" => c.predicate # <<>>
       /\ c.input # "none" =>
            /\ DOMAIN c.frame # {} /\ c.height <= MaxRows
            /\ \A i \in DOMAIN c.keys : c.keys[i].kind = "Column" => c.keys[i].name \in DOMAIN c.frame
            /\ \A i \in DOMAIN c.aggs : ReadBy(c.aggs[i]) \subseteq DOMAIN c.frame

VARIABLES
  stage,     \* "none", "walk", "input", "begin", "encode", "aggregate"; "answered",
             \* "left to Polars", "failed" or, after a failure of the device, "faulted"
  upstream,  \* the frame the GroupBy reads
  path,      \* "fused" or "perAgg"
  build,     \* BuildOutput
  answer     \* the rows of the frame, in order

group == <<stage, upstream, path, build, answer>>
query == <<vars, encoder, group>>

KeyNames == case.keys
Aggs     == case.aggs

-----------------------------------------------------------------------------
\* The walker: _walk_group_by and _walk_agg_expression.

KeyLowered(k) == k.kind = "Column" /\ Dtype(k.name) \in Tags \ {"U64"}

AggLowered(a) ==
  \/ a.kind = "Length"
  \/ /\ a.kind = "Simple" /\ a.op \in {"Sum", "Mean", "Min", "Max", "Count"}
     /\ Dtype(a.column) \in Tags \ {"Utf8"}
  \/ /\ a.kind = "Expression" /\ a.op \in {"Sum", "Mean", "Min", "Max", "Count"}
     /\ Dtype(a.lhs) # "Utf8" /\ Dtype(a.rhs) # "Utf8"

GroupByLowered == /\ Lowered
                  /\ \A i \in DOMAIN KeyNames : KeyLowered(KeyNames[i])
                  /\ \A i \in DOMAIN Aggs : AggLowered(Aggs[i])

-----------------------------------------------------------------------------
\* Columns.

\* _materialize_expression_aggs: the expression (here a sum of two columns of one dtype) is
\* evaluated by Polars, and the aggregation refers to the new column.
Plus(u, v) == IF u = Null \/ v = Null THEN Null ELSE u + v

AggDtype(a) == IF a.kind = "Simple" THEN Dtype(a.column) ELSE Dtype(a.lhs)
AggValues(frame, a) ==
  IF a.kind = "Simple" THEN frame[a.column]
  ELSE [r \in DOMAIN frame[a.lhs] |-> Plus(frame[a.lhs][r], frame[a.rhs][r])]

ValueAggs == {i \in DOMAIN Aggs : Aggs[i].kind # "Length"}

\* _DTYPE_TO_TAG.
Tagged(tag) == tag \in {"I64", "F64", "Bool", "I32", "F32", "Utf8"}
AllTagged == /\ \A i \in DOMAIN KeyNames : Tagged(Dtype(KeyNames[i].name))
             /\ \A i \in ValueAggs : Tagged(AggDtype(Aggs[i]))

\* The rows in which a string is new.
FirstRows(values) ==
  Ascending({r \in DOMAIN values : values[r] # Null /\ \A q \in 1..(r - 1) : values[q] # values[r]})

\* build_dict_nullable: the distinct strings in the order of their first rows.
Dictionary(values) == [k \in DOMAIN FirstRows(values) |-> values[FirstRows(values)[k]]]
Code(values, v)    == (CHOOSE k \in DOMAIN Dictionary(values) : Dictionary(values)[k] = v) - 1

\* n divided by each power of two; the one bits of a number below MaxRows, and of a value in
\* two's complement or of a float.
Halves(n) == LET half[b \in 0..30] == IF b = 0 THEN n ELSE half[b - 1] \div 2 IN half
OneBits(n) == {b \in 0..29 : Halves(n)[b] % 2 = 1}
Pattern(v, tag) == CASE tag = "Bool"            -> IF v THEN {0} ELSE {}
                     [] tag # "Bool" /\ v < 0   -> (0..(DataBits[tag] - 1)) \ OneBits(-v - 1)
                     [] OTHER                   -> OneBits(v)

\* The key columns as execute_groupby hands them on; a null string has code 0.
KeyColumn(values, tag) ==
  [dtype |-> tag,
   valid |-> [r \in DOMAIN values |-> values[r] # Null],
   data  |-> [r \in DOMAIN values |->
                IF tag # "Utf8" THEN Pattern(Slot(values[r], tag), tag)
                ELSE IF values[r] = Null THEN {} ELSE OneBits(Code(values, values[r]))]]

KeyColumns == [i \in DOMAIN KeyNames |->
                KeyColumn(upstream[KeyNames[i].name], Dtype(KeyNames[i].name))]

-----------------------------------------------------------------------------
\* The choice of the path.

\* Fault: the width of the value columns is not looked at.
DecideAnyWidth == IF Len(Aggs) >= 2 THEN "fused" ELSE "perAgg"

\* decide_groupby_dispatch, which no expression reaches.
Decide == IF Len(Aggs) >= 2 /\ \A i \in ValueAggs : AggDtype(Aggs[i]) \notin {"I64", "F64"}
            THEN "fused" ELSE "perAgg"

\* build_value_column and agg_kind_for.
HasKernels(p) ==
  \A i \in ValueAggs :
    AggDtype(Aggs[i]) \in IF p = "fused" THEN {"I32", "F32"} ELSE {"I64", "F64", "I32", "F32"}

\* One of the dispatchers is called: with columns it has kernels for, it encodes the keys.
EnterPath(p) ==
  IF HasKernels(p)
    THEN stage' = "encode" /\ path' = p /\ columns' = KeyColumns /\ Encode
    ELSE stage' = "failed" /\ UNCHANGED <<path, encoder>>

-----------------------------------------------------------------------------
\* Aggregations.

\* AggregateKernel: what an aggregation of the values of a group answers; empty stands for
\* the minimum or maximum of no value.
Aggregate(op, values, empty) ==
  LET present == SelectSeq(values, LAMBDA v : v # Null)
      sum     == FoldLeft(LAMBDA x, y : x + y, 0, present)
  IN  CASE op = "Count" -> Len(present)
        [] op = "Sum"   -> sum
        [] op = "Mean"  -> IF present = <<>> THEN Null ELSE <<sum, Len(present)>>
        [] op = "Min"   -> FoldLeft(LAMBDA x, y : IF x = empty \/ y < x THEN y ELSE x, empty, present)
        [] op = "Max"   -> FoldLeft(LAMBDA x, y : IF x = empty \/ y > x THEN y ELSE x, empty, present)

EmptyExtremum == IF path = "fused" THEN Seed ELSE Null

\* The value of an aggregation over the rows in the sequence rs of a frame.
ValueOver(frame, a, rs, empty) ==
  IF a.kind = "Length" THEN Len(rs)
  ELSE Aggregate(a.op, [k \in DOMAIN rs |-> AggValues(frame, a)[rs[k]]], empty)

\* The rows a kernel adds to a group; the fused one has registers for MaxGroups of them.
RowsOfGroup(g) ==
  Ascending({r \in DOMAIN build.rowToGroup :
               build.rowToGroup[r] = g /\ (path = "fused" => g < MaxGroups)})

-----------------------------------------------------------------------------
\* The frame.

\* decode_keys with the dictionary; other values stay patterns.  A key that is null is <<>>.
KeyValue(i, lane) ==
  LET d == Decode(i, lane)
      dict == Dictionary(upstream[KeyNames[i].name])
      codes == {k \in DOMAIN dict : OneBits(k - 1) = d.data}
  IN  IF ~d.valid THEN <<>>
      ELSE IF columns[i].dtype # "Utf8" THEN <<d.data>>
      ELSE IF codes = {} THEN <<"">> ELSE <<dict[CHOOSE k \in codes : TRUE]>>

\* Fault: the lane of a group is looked up by its id, not by its first row.
RepresentativeById(g) == encoded[g + 1]

Representative(g) == encoded[build.firstRow[g]]

GroupRow(g) ==
  [keys |-> [i \in DOMAIN KeyNames |-> KeyValue(i, Representative(g))],
   aggs |-> [i \in DOMAIN Aggs |-> ValueOver(upstream, Aggs[i], RowsOfGroup(g), EmptyExtremum)]]

NullRow == [keys |-> [i \in DOMAIN KeyNames |-> <<>>], aggs |-> [i \in DOMAIN Aggs |-> Null]]

\* The height of the frame is found from a column that is not Boolean; without one it is
\* the length of a validity bitmap, padded to words (pack_valid_bitmap).
OnlyBoolKeys == Aggs = <<>> /\ \A i \in DOMAIN KeyNames : Dtype(KeyNames[i].name) = "Bool"
WordBits == 32
Height == IF ~OnlyBoolKeys THEN build.nGroups
          ELSE IF build.nGroups = 0 THEN WordBits
          ELSE WordBits * ((build.nGroups + WordBits - 1) \div WordBits)

Assemble == [k \in 1..Height |-> IF k <= build.nGroups THEN GroupRow(k - 1) ELSE NullRow]

-----------------------------------------------------------------------------
\* The host.

QueryInit ==
  /\ Init /\ EncodeInit
  /\ stage = IF case.input = "none" THEN "none" ELSE "walk"
  /\ upstream = <<>> /\ path = "perAgg" /\ build = <<>> /\ answer = <<>>

Settle(f) == stage' = "answered" /\ answer' = f

WalkGroupBy ==
  /\ stage = "walk"
  /\ stage' = IF GroupByLowered THEN "input" ELSE "left to Polars"
  /\ UNCHANGED <<vars, encoder, upstream, path, build, answer>>

TakeScan ==
  /\ stage = "input" /\ case.input = "scan"
  /\ upstream' = [x \in Names |-> Materialize(x)] /\ stage' = "begin"
  /\ UNCHANGED <<vars, encoder, path, build, answer>>

TakeFiltered ==
  /\ stage = "input" /\ case.input = "filter" /\ phase \in {"answered", "failed"}
  /\ IF phase = "failed" THEN stage' = "failed" /\ UNCHANGED upstream
                         ELSE stage' = "begin" /\ upstream' = result
  /\ UNCHANGED <<vars, encoder, path, build, answer>>

\* _empty_keys_via_polars.
ReduceInPolars ==
  /\ stage = "begin" /\ KeyNames = <<>>
  /\ LET rs == Ascending(DOMAIN upstream[CHOOSE x \in Names : TRUE])
     IN  Settle(<<[keys |-> <<>>,
                   aggs |-> [i \in DOMAIN Aggs |-> ValueOver(upstream, Aggs[i], rs, Null)]]>>)
  /\ UNCHANGED <<vars, encoder, upstream, path, build>>

ExecuteGroupBy ==
  /\ stage = "begin" /\ KeyNames # <<>>
  /\ IF AllTagged THEN EnterPath(Decide) ELSE stage' = "failed" /\ UNCHANGED <<path, encoder>>
  /\ UNCHANGED <<vars, upstream, build, answer>>

EncodeKeys ==
  /\ stage = "encode" /\ EncodeStep
  /\ UNCHANGED <<vars, group>>

EncodeFailed ==
  /\ stage = "encode" /\ encoding = "failed"
  /\ stage' = "failed"
  /\ UNCHANGED <<vars, encoder, upstream, path, build, answer>>

Promise == INSTANCE GroupBuild WITH keys <- encoded, answer <- build, MayOverflow <- FALSE

\* Fault: a query that the fused kernel has no registers for is given to it again.
GiveUpToFused == EnterPath("fused")

\* NgroupsExceedsFusedCap: the other dispatcher starts again from the columns.
GiveUp == EnterPath("perAgg")

\* Fault: one group more than there are registers passes.
ExceedsCapLate(n) == path = "fused" /\ n > MaxGroups + 1

ExceedsCap(n) == path = "fused" /\ n > MaxGroups

\* dispatch_build numbers the groups in any order.
BuildGroups ==
  /\ stage = "encode" /\ encoding = "done"
  /\ \E n \in 0..Len(encoded) : \E f \in [KeyRows -> 0..(n - 1)] :
       /\ Promise!IsGrouping(encoded, f, n)
       /\ build' = [rowToGroup |-> f, nGroups |-> n,
                    firstRow |-> CHOOSE first \in [0..(n - 1) -> KeyRows] :
                                   Promise!IsFirstRow(f, n, first)]
       /\ IF ExceedsCap(n) THEN GiveUp ELSE stage' = "aggregate" /\ UNCHANGED <<path, encoder>>
  /\ UNCHANGED <<vars, upstream, answer>>

AggregateAndDecode ==
  /\ stage = "aggregate"
  /\ Settle(Assemble)
  /\ UNCHANGED <<vars, encoder, upstream, path, build>>

\* The device, its queue, a pipeline state, an allocation or a kernel fails.
GroupByFault ==
  /\ stage \in {"encode", "aggregate"}
  /\ stage' = "faulted"
  /\ UNCHANGED <<vars, encoder, upstream, path, build, answer>>

GroupByStep ==
  \/ WalkGroupBy \/ TakeScan \/ TakeFiltered \/ ReduceInPolars \/ ExecuteGroupBy
  \/ EncodeKeys \/ EncodeFailed \/ BuildGroups \/ AggregateAndDecode

\* The Filter runs by itself, or to make the GroupBy's input.
FilterRuns == (stage = "none" \/ (stage = "input" /\ case.input = "filter"))
              /\ UNCHANGED <<encoder, group>>

QueryStep == GroupByStep \/ (FilterRuns /\ Step)
QueryNext == QueryStep \/ GroupByFault \/ (FilterRuns /\ DeviceFault)

\* The host runs on, and Metal completes what was committed.
QuerySpec == QueryInit /\ [][QueryNext]_query /\ WF_query(QueryStep)

-----------------------------------------------------------------------------
\* The reference: the rows S of the scan that the Filter selects, one row of the answer for
\* each of their keys, by pattern.
GroupedRows == IF case.input = "scan" THEN {Rows} ELSE Selections

KeyOf(r) == [i \in DOMAIN KeyNames |->
              LET x == KeyNames[i].name
                  v == Value(x, r)
              IN  IF v = Null THEN <<>>
                  ELSE <<IF Dtype(x) = "Utf8" THEN v ELSE Pattern(v, Dtype(x))>>]

ScanFrame == [x \in Names |-> [r \in Rows |-> Value(x, r)]]

ExpectedRow(S, k) ==
  LET rs == Ascending({r \in S : KeyOf(r) = k})
  IN  [keys |-> k, aggs |-> [i \in DOMAIN Aggs |-> ValueOver(ScanFrame, Aggs[i], rs, EmptyExtremum)]]

ExpectedKeys(S) == IF KeyNames = <<>> THEN {<<>>} ELSE {KeyOf(r) : r \in S}

\* The frame of a GroupBy has one row per key of the rows the Filter selects, with the
\* aggregates of that key's rows, whichever path was taken, given up or restarted.  Set apart:
\* the fused Min or Max of no value (Seed), a frame of Boolean keys alone, and the rows whose
\* NaNs the Filter compares.
AnswerIsGroupBy ==
  stage = "answered" /\ ~OnlyBoolKeys =>
    \E S \in GroupedRows : /\ Len(answer) = Cardinality(ExpectedKeys(S))
                           /\ Range(answer) = {ExpectedRow(S, k) : k \in ExpectedKeys(S)}

\* The bits a lane needs: of each key a flag and its data.
KeyBits == UNION {{i} \X (0..DataBits[Dtype(KeyNames[i].name)]) : i \in DOMAIN KeyNames}

\* A lifted GroupBy fails only for what the device or its Filter does, for keys beyond 128 bits,
\* or for a dtype the walker lets through and the UDF has no tag or no kernel for.
GroupByFailsForCause ==
  stage = "failed" =>
    \/ phase = "failed"
    \/ ~AllTagged \/ (\E i \in ValueAggs : AggDtype(Aggs[i]) = "Bool")
    \/ Cardinality(KeyBits) > Budget

\* A Filter by itself, or a GroupBy, has ended.
QueryDone ==
  IF case.input = "none" THEN phase \in {"answered", "failed"}
  ELSE stage \in {"answered", "left to Polars", "failed", "faulted"}

=============================================================================
