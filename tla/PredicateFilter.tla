--------------------------- MODULE PredicateFilter ---------------------------
(***************************************************************************)
(* One lifted Filter: the walker's closed set of predicates (_walker.py),  *)
(* the evaluation of a predicate by compare and logical kernels, and the   *)
(* two ways to apply it (_udf.py): _dispatch_filter, which compacts every  *)
(* column on the GPU in three passes (filter.rs, pipeline.rs, compact.rs), *)
(* and _filter_via_polars.  Each falls back on the other.                  *)
(*                                                                         *)
(* A predicate is the sequence of its nodes in the order in which          *)
(* _evaluate_predicate finishes them, operands of a comparison inside it.  *)
(* A column is a slice of a parent array.  A buffer of bits is a function  *)
(* from rows; the threads of a kernel run in any order.  Lengths are right *)
(* by construction of the buffers, so no length error is modelled.         *)
(***************************************************************************)
EXTENDS FloatOrder, Sequences, FiniteSets, SequencesExt

CONSTANTS
  Cases,          \* height, frame : name -> dtype, parent, offset; predicate, entry
  Null,
  RecursionLimit  \* bound: calls of one fallback by the other (Python's stack)

\* _map_dtype and the widening of predicate columns.
Tags == {"I64", "F64", "Bool", "I32", "F32", "I8", "U64", "Utf8", "Date"}
Widened(tag) == CASE tag \in {"I8", "I32", "Date"} -> "I64"
                  [] tag = "F32"                   -> "F64"
                  [] OTHER                         -> tag

IsLiteral(o)    == o.kind = "Literal"
IsConnective(n) == n.kind \in {"And", "Or"}

\* The operands that the first i nodes of a predicate leave.
Depth(p, i) == Cardinality({j \in 1..i : ~IsConnective(p[j])})
                 - Cardinality({j \in 1..i : IsConnective(p[j])})

\* The nodes of a tree, operands first.
IsPostfix(p) == /\ \A i \in DOMAIN p : IsConnective(p[i]) => Depth(p, i - 1) >= 2
                /\ Depth(p, Len(p)) = 1

\* What the kernels of a dtype find in a slot.
IsValue(tag, v) == CASE tag = "I64"  -> v \in Int
                     [] tag = "F64"  -> v \in Floats
                     [] tag = "Bool" -> v \in BOOLEAN
                     [] OTHER        -> TRUE

\* A literal, or a column that the predicate reads as values of another width.
TypedLeaf(c, o) ==
  IF IsLiteral(o) THEN o.value # Null => IsValue(o.dtype, o.value)
  ELSE /\ o.name \in DOMAIN c.frame
       /\ \A i \in DOMAIN c.frame[o.name].parent :
            LET v == c.frame[o.name].parent[i]
            IN  v # Null => IsValue(Widened(c.frame[o.name].dtype), v)

IsSequence(s) == Len(s) \in Nat /\ s = [i \in 1..Len(s) |-> s[i]]

IsCase(c) ==
  /\ c.entry \in {"compact", "polars"} /\ c.height \in Nat
  /\ IsSequence(c.predicate) /\ (c.predicate # <<>> => IsPostfix(c.predicate))
  /\ \A i \in DOMAIN c.predicate :
       LET n == c.predicate[i]
       IN  /\ n.kind = "Column"  => TypedLeaf(c, n)
           /\ n.kind = "Compare" => /\ n.op \in {"Eq", "Ne", "Lt", "Le", "Gt", "Ge"}
                                   /\ TypedLeaf(c, n.lhs) /\ TypedLeaf(c, n.rhs)
  /\ \A x \in DOMAIN c.frame :
       /\ c.frame[x].offset \in Nat /\ IsSequence(c.frame[x].parent)
       /\ c.frame[x].offset + c.height <= Len(c.frame[x].parent)
       /\ c.frame[x].dtype = "Bool" => TypedLeaf(c, [kind |-> "Column", name |-> x])

ASSUME CaseAssumption ==
  /\ \A c \in Cases : IsCase(c)
  /\ Null \notin Int /\ Null \notin BOOLEAN
  /\ RecursionLimit \in Nat \ {0}

VARIABLES
  case,
  via, hops,      \* the function running, and the calls it is nested in
  phase,          \* "walk", "enter", "predicate", "keep", "prefix", "columns"; "answered", "failed"
  at, stack,      \* the node to evaluate next, and the bitmaps of the finished ones
  launch,         \* the tracked command buffer, or NoLaunch
  left, out,      \* its threads yet to run, and its output buffers
  keep, prefix,   \* per row: the flag, and the inclusive sum of flags
  compacted,      \* the columns done
  faulted,        \* whether the device or MLX has failed (history)
  result

vars == <<case, via, hops, phase, at, stack, launch, left, out, keep, prefix, compacted,
          faulted, result>>

device == <<launch, left, out>>

Rows     == 1..case.height
Names    == DOMAIN case.frame
Dtype(x) == case.frame[x].dtype
Value(x, r) == case.frame[x].parent[case.frame[x].offset + r]

NoLaunch == [kernel |-> "none"]
NoOutput == [bits |-> 0]

-----------------------------------------------------------------------------
\* The walker.

LeafDtype(o) == IF IsLiteral(o) THEN o.dtype ELSE Widened(Dtype(o.name))

\* A comparison takes two leaves of one kernel dtype, one of them a column.
Comparable(n) ==
  /\ {n.lhs.kind, n.rhs.kind} \subseteq {"Column", "Literal"}
  /\ \A o \in {n.lhs, n.rhs} : IsLiteral(o) => o.value # Null
  /\ LeafDtype(n.lhs) = LeafDtype(n.rhs) /\ LeafDtype(n.lhs) \in {"I64", "F64"}
  /\ ~(IsLiteral(n.lhs) /\ IsLiteral(n.rhs))

\* _walk_predicate and _walk_logical.
InClosedSet(n) == CASE n.kind = "Column"  -> Dtype(n.name) = "Bool"
                    [] n.kind = "Compare" -> Comparable(n)
                    [] OTHER              -> n.kind \in {"And", "Or"}

\* _walk_filter.
Lowered == /\ \A i \in DOMAIN case.predicate : InClosedSet(case.predicate[i])
           /\ \A x \in Names : Dtype(x) \in Tags

-----------------------------------------------------------------------------
\* Buffers.

\* The slot of a null holds whatever its producer left there.
Slot(v, tag) == IF v # Null THEN v ELSE IF tag = "Bool" THEN TRUE ELSE 0

\* Fault: the buffers of a slice are read from the start of its parent.
MaterializeParent(x) == SubSeq(case.frame[x].parent, 1, case.height)

\* _materialize_arrow: kernels do not know offsets.
Materialize(x) == SubSeq(case.frame[x].parent, case.frame[x].offset + 1,
                         case.frame[x].offset + case.height)

\* _bitpacked_data_and_valid, _data_and_valid_for_dtype; the bitmap that Arrow elides for an
\* array without nulls is all ones (_all_ones_bitmap).
DataAndValid(x) ==
  [data  |-> [r \in Rows |-> Slot(Materialize(x)[r], Dtype(x))],
   valid |-> [r \in Rows |-> Materialize(x)[r] # Null]]

Zeroed == [data |-> [r \in Rows |-> FALSE], valid |-> [r \in Rows |-> FALSE]]

\* Fault: the word of eight (here two) rows is stored, not or-ed into.
SetBitStore(bits, r) ==
  [i \in DOMAIN bits |-> IF (i - 1) \div 2 = (r - 1) \div 2 THEN i = r ELSE bits[i]]

\* set_valid_atomic_or.
SetBit(bits, r) == [bits EXCEPT ![r] = TRUE]

SetBitIf(bits, r, b) == IF b THEN SetBit(bits, r) ELSE bits

-----------------------------------------------------------------------------
\* The kernels: what the thread of row r makes of the output buffers o of launch l.

\* CMP_KERNEL_CC and CMP_KERNEL_CS, whose scalar is always valid.
RhsValid(l, r) == l.scalar \/ l.rhs.valid[r]
RhsData(l, r)  == IF l.scalar THEN l.rhs ELSE l.rhs.data[r]

CompareRow(l, r, o, holds) ==
  IF ~l.lhs.valid[r] \/ ~RhsValid(l, r) THEN o
  ELSE [data |-> SetBitIf(o.data, r, holds), valid |-> SetBit(o.valid, r)]

CmpI64Row(l, r, o) == CompareRow(l, r, o, Order(l.op, l.lhs.data[r], RhsData(l, r)))
CmpF64Row(l, r, o) == CompareRow(l, r, o, FloatCompare(l.op, l.lhs.data[r], RhsData(l, r)))

\* Fault: a null on either side makes the result null.
LogicalRowStrict(l, r, o) ==
  IF l.lhs.valid[r] /\ l.rhs.valid[r]
    THEN [data  |-> SetBitIf(o.data, r, IF l.op = "And" THEN l.lhs.data[r] /\ l.rhs.data[r]
                                                        ELSE l.lhs.data[r] \/ l.rhs.data[r]),
          valid |-> SetBit(o.valid, r)]
    ELSE o

\* bool_and and bool_or: the dominating value wins over a null.
LogicalRow(l, r, o) ==
  LET dominant == l.op = "Or"
      wins(side) == side.valid[r] /\ side.data[r] = dominant
  IN  IF wins(l.lhs) \/ wins(l.rhs)
        THEN [data |-> SetBitIf(o.data, r, dominant), valid |-> SetBit(o.valid, r)]
      ELSE IF l.lhs.valid[r] /\ l.rhs.valid[r]
        THEN [data |-> SetBitIf(o.data, r, ~dominant), valid |-> SetBit(o.valid, r)]
      ELSE o

\* filter_predicate_to_u8.
KeepRow(l, r, o) == [o EXCEPT !.data[r] = l.lhs.data[r] /\ l.lhs.valid[r]]

Source(l) == DataAndValid(l.column)

\* filter_scatter_i64 and _f64; the slot after the last takes the sentinel of an overrun.
ScatterRow(l, r, o) ==
  IF ~keep[r] THEN o
  ELSE IF prefix[r] > l.nOut THEN [o EXCEPT !.overrun = TRUE]
  ELSE [o EXCEPT !.data[prefix[r]] = Source(l).data[r],
                 !.valid = SetBitIf(@, prefix[r], Source(l).valid[r])]

\* filter_scatter_bool: the data, too, is or-ed into zeroed words, and there is no sentinel.
ScatterBoolRow(l, r, o) ==
  IF ~keep[r] \/ prefix[r] > l.nOut THEN o
  ELSE [o EXCEPT !.data  = SetBitIf(@, prefix[r], Source(l).data[r]),
                 !.valid = SetBitIf(@, prefix[r], Source(l).valid[r])]

Effect(l, r, o) == CASE l.kernel = "cmp_i64"      -> CmpI64Row(l, r, o)
                     [] l.kernel = "cmp_f64"      -> CmpF64Row(l, r, o)
                     [] l.kernel = "logical"      -> LogicalRow(l, r, o)
                     [] l.kernel = "keep"         -> KeepRow(l, r, o)
                     [] l.kernel = "scatter_bool" -> ScatterBoolRow(l, r, o)
                     [] OTHER                     -> ScatterRow(l, r, o)

-----------------------------------------------------------------------------
\* The dispatchers: what is launched, over buffers that start as zero.

CmpI64(op, lhs, rhs) ==
  [kernel |-> "cmp_i64", op |-> op, scalar |-> FALSE, lhs |-> lhs, rhs |-> rhs]
CmpI64Scalar(op, lhs, v) ==
  [kernel |-> "cmp_i64", op |-> op, scalar |-> TRUE, lhs |-> lhs, rhs |-> v]
CmpF64(op, lhs, rhs) ==
  [kernel |-> "cmp_f64", op |-> op, scalar |-> FALSE, lhs |-> lhs, rhs |-> rhs]
CmpF64Scalar(op, lhs, v) ==
  [kernel |-> "cmp_f64", op |-> op, scalar |-> TRUE, lhs |-> lhs, rhs |-> v]
Logical(op, lhs, rhs) == [kernel |-> "logical", op |-> op, lhs |-> lhs, rhs |-> rhs]
PredicateToU8(bits)   == [kernel |-> "keep", lhs |-> bits]

NOut == IF case.height = 0 THEN 0 ELSE prefix[case.height]
Slots == 1..NOut

ScatterI64(x) == [kernel |-> "scatter_i64", column |-> x, nOut |-> NOut]
ScatterF64(x) == [kernel |-> "scatter_f64", column |-> x, nOut |-> NOut]
\* Refuses a prefix sum that does not end in n_out.
ScatterBool(x) == [kernel |-> "scatter_bool", column |-> x, nOut |-> NOut]

\* Fault: a literal on the left is moved to the right without mirroring the operator.
MirrorNot(op) == op

\* _SWAP_COMPARE_OP.
Mirror(op) == CASE op = "Lt" -> "Gt" [] op = "Gt" -> "Lt"
                [] op = "Le" -> "Ge" [] op = "Ge" -> "Le" [] OTHER -> op

\* _evaluate_compare; _coerce_for_compare casts a narrow column, which is exact.
CompareLaunch(n) ==
  LET swap == IsLiteral(n.lhs)
      lhs  == DataAndValid(IF swap THEN n.rhs.name ELSE n.lhs.name)
      rhs  == IF swap THEN n.lhs ELSE n.rhs
      op   == IF swap THEN Mirror(n.op) ELSE n.op
  IN  CASE LeafDtype(rhs) = "I64" /\ ~IsLiteral(rhs) -> CmpI64(op, lhs, DataAndValid(rhs.name))
        [] LeafDtype(rhs) = "I64" /\ IsLiteral(rhs)  -> CmpI64Scalar(op, lhs, rhs.value)
        [] LeafDtype(rhs) = "F64" /\ ~IsLiteral(rhs) -> CmpF64(op, lhs, DataAndValid(rhs.name))
        [] OTHER                                     -> CmpF64Scalar(op, lhs, rhs.value)

-----------------------------------------------------------------------------
\* Calls and returns.

Answer(frame) == phase' = "answered" /\ result' = frame

\* One of the two functions calls the other; RecursionError ends it.
Call(f) ==
  IF hops = RecursionLimit
    THEN phase' = "failed" /\ UNCHANGED <<via, hops>>
    ELSE phase' = "enter" /\ via' = f /\ hops' = hops + 1

\* Fault: a failed evaluation is tried again in the same function.
RaiseRetries ==
  /\ IF via = "polars" /\ phase = "predicate" THEN phase' = "enter" ELSE phase' = "failed"
  /\ UNCHANGED <<via, hops>>
  /\ launch' = NoLaunch /\ left' = {} /\ out' = NoOutput

\* _filter_via_polars catches what the evaluation of its predicate raises.
Raise ==
  /\ IF via = "polars" /\ phase = "predicate" THEN Call("compact")
                                              ELSE phase' = "failed" /\ UNCHANGED <<via, hops>>
  /\ launch' = NoLaunch /\ left' = {} /\ out' = NoOutput

Init ==
  /\ case \in Cases
  /\ via = case.entry /\ hops = 0 /\ phase = "walk"
  /\ at = 1 /\ stack = <<>> /\ launch = NoLaunch /\ left = {} /\ out = NoOutput
  /\ keep = <<>> /\ prefix = <<>> /\ compacted = <<>> /\ faulted = FALSE /\ result = <<>>

\* A set of numbers in their order: the i-th has i of them up to it.
Ascending(S) == [i \in 1..Cardinality(S) |-> CHOOSE r \in S : Cardinality({q \in S : q <= r}) = i]

\* The frame of the rows in the sequence rs.
Selected(rs) == [x \in Names |-> [i \in DOMAIN rs |-> Value(x, rs[i])]]

\* The reference: the rows on which the predicate is true in Kleene's logic, floats compared
\* as Polars does.
LeafValue(o, r) == IF IsLiteral(o) THEN o.value ELSE Value(o.name, r)

KleeneCompare(n, r) ==
  LET u == LeafValue(n.lhs, r)  v == LeafValue(n.rhs, r)
  IN  IF u = Null \/ v = Null THEN Null
      ELSE IF LeafDtype(n.lhs) = "F64" THEN PolarsCompare(n.op, u, v) ELSE Order(n.op, u, v)

KleeneLogical(op, x, y) ==
  IF (op = "Or") \in {x, y} THEN op = "Or" ELSE IF Null \in {x, y} THEN Null ELSE op = "And"

KleenePush(st, n, r) ==
  CASE n.kind = "Column"  -> Append(st, Value(n.name, r))
    [] n.kind = "Compare" -> Append(st, KleeneCompare(n, r))
    [] OTHER -> Append(SubSeq(st, 1, Len(st) - 2),
                       KleeneLogical(n.kind, st[Len(st) - 1], st[Len(st)]))

\* The operands left by each number of nodes.
KleeneStacks(r) ==
  LET after[i \in 0..Len(case.predicate)] ==
        IF i = 0 THEN <<>> ELSE KleenePush(after[i - 1], case.predicate[i], r)
  IN  after

KleeneValue(r) == Last(KleeneStacks(r)[Len(case.predicate)])

TrueRows == {r \in Rows : KleeneValue(r) = TRUE}

\* A comparison reads a NaN on row r.
ComparesNan(n, r) ==
  /\ n.kind = "Compare" /\ LeafDtype(n.lhs) = "F64"
  /\ Null \notin {LeafValue(n.lhs, r), LeafValue(n.rhs, r)}
  /\ IsNan(LeafValue(n.lhs, r)) \/ IsNan(LeafValue(n.rhs, r))
NanRows == {r \in Rows : \E i \in DOMAIN case.predicate : ComparesNan(case.predicate[i], r)}

\* The selections that are Polars' but for rows whose NaNs are compared.
Selections == {(TrueRows \ NanRows) \cup S : S \in SUBSET NanRows}

-----------------------------------------------------------------------------
\* The host.

\* A predicate outside the closed set stays with Polars.
Walk ==
  /\ phase = "walk"
  /\ IF Lowered THEN phase' = "enter" /\ UNCHANGED result ELSE Answer("left to Polars")
  /\ UNCHANGED <<case, via, hops, at, stack, device, keep, prefix, compacted, faulted>>

\* Fault: a string column is taken for one that can be compacted.
CompactableNoUtf8Check(x) == Dtype(x) \in {"I64", "F64", "Bool", "I32", "F32", "Utf8"}

\* _DTYPE_TO_TAG, without strings.
Compactable(x) == Dtype(x) \in {"I64", "F64", "Bool", "I32", "F32"}

EnterCompact ==
  /\ phase = "enter" /\ via = "compact"
  /\ IF \A x \in Names : Compactable(x)
       THEN phase' = "predicate" /\ UNCHANGED <<via, hops>>
       ELSE Call("polars")
  /\ at' = 1 /\ stack' = <<>>
  /\ UNCHANGED <<case, device, keep, prefix, compacted, faulted, result>>

\* Fault: frames that cannot be compacted are handed to compaction.
EnterPolarsDelegates ==
  /\ phase = "enter" /\ via = "polars"
  /\ IF \E x \in Names : ~Compactable(x)
       THEN Call("compact") ELSE phase' = "predicate" /\ UNCHANGED <<via, hops>>
  /\ at' = 1 /\ stack' = <<>>
  /\ UNCHANGED <<case, device, keep, prefix, compacted, faulted, result>>

EnterPolars ==
  /\ phase = "enter" /\ via = "polars"
  /\ IF case.height = 0 THEN Answer(Selected(<<>>)) ELSE phase' = "predicate" /\ UNCHANGED result
  /\ at' = 1 /\ stack' = <<>>
  /\ UNCHANGED <<case, via, hops, device, keep, prefix, compacted, faulted>>

Idle(p) == phase = p /\ launch = NoLaunch

\* CommandQueue: dispatch_1d commits a command buffer and tracks it.
Dispatch(l, zeroes) == launch' = l /\ left' = Rows /\ out' = zeroes

Node == case.predicate[at]
Evaluating(kinds) == Idle("predicate") /\ at <= Len(case.predicate) /\ Node.kind \in kinds
PredicateUnchanged == UNCHANGED <<case, via, hops, phase, keep, prefix, compacted, faulted, result>>

EvalColumn ==
  /\ Evaluating({"Column"})
  /\ stack' = Append(stack, DataAndValid(Node.name)) /\ at' = at + 1
  /\ UNCHANGED device /\ PredicateUnchanged

Beneath(n) == SubSeq(stack, 1, Len(stack) - n)

\* A kernel over no rows is not dispatched: its outputs are zeroed.
EvalKernel(l, operands) ==
  /\ IF Rows = {} THEN stack' = Append(Beneath(operands), Zeroed) /\ UNCHANGED device
                  ELSE stack' = Beneath(operands) /\ Dispatch(l, Zeroed)
  /\ at' = at + 1
  /\ PredicateUnchanged

EvalCompare == Evaluating({"Compare"}) /\ EvalKernel(CompareLaunch(Node), 0)
EvalLogical == Evaluating({"And", "Or"})
               /\ EvalKernel(Logical(Node.kind, stack[Len(stack) - 1], stack[Len(stack)]), 2)

PredicateDone == Idle("predicate") /\ at > Len(case.predicate)

\* The bitmaps become a Boolean series; a null in a mask selects nothing.
MaskInPolars ==
  /\ PredicateDone /\ via = "polars"
  /\ Answer(Selected(Ascending({r \in Rows : Last(stack).valid[r] /\ Last(stack).data[r]})))
  /\ UNCHANGED <<case, via, hops, at, stack, device, keep, prefix, compacted, faulted>>

\* compute_keep_and_prefix, pass 1.
MakeKeep ==
  /\ PredicateDone /\ via = "compact"
  /\ IF Rows = {} THEN phase' = "columns" /\ UNCHANGED device
                  ELSE phase' = "keep" /\ Dispatch(PredicateToU8(Last(stack)), Zeroed)
  /\ compacted' = <<>>
  /\ UNCHANGED <<case, via, hops, at, stack, keep, prefix, faulted, result>>

\* Fault: the sum excludes the row itself.
MakePrefixExclusive ==
  /\ Idle("prefix")
  /\ prefix' = [r \in Rows |-> Cardinality({i \in 1..(r - 1) : keep[i]})]
  /\ phase' = "columns"
  /\ UNCHANGED <<case, via, hops, at, stack, device, keep, compacted, faulted, result>>

\* Pass 2: the inclusive sum of MLX.
MakePrefix ==
  /\ Idle("prefix")
  /\ prefix' = [r \in Rows |-> Cardinality({i \in 1..r : keep[i]})]
  /\ phase' = "columns"
  /\ UNCHANGED <<case, via, hops, at, stack, device, keep, compacted, faulted, result>>

Remaining == Names \ DOMAIN compacted
ColumnsUnchanged == UNCHANGED <<case, at, stack, keep, prefix, faulted, result>>

WithColumn(x, values) == [y \in DOMAIN compacted \cup {x} |-> IF y = x THEN values ELSE compacted[y]]

\* Pass 3, compact_one_column: without survivors no kernel runs, and no dtype is looked at.
CompactEmpty(x) ==
  /\ Idle("columns") /\ x \in Remaining /\ NOut = 0
  /\ compacted' = WithColumn(x, <<>>)
  /\ UNCHANGED <<via, hops, phase, device>> /\ ColumnsUnchanged

ScatterZeroes(init) == [data |-> [i \in Slots |-> init], valid |-> [i \in Slots |-> FALSE],
                        overrun |-> FALSE]

CompactColumn(x) ==
  /\ Idle("columns") /\ x \in Remaining /\ NOut > 0
  /\ \/ Dtype(x) = "I64"  /\ Dispatch(ScatterI64(x), ScatterZeroes(0))
     \/ Dtype(x) = "F64"  /\ Dispatch(ScatterF64(x), ScatterZeroes(0))
     \/ Dtype(x) = "Bool" /\ Dispatch(ScatterBool(x), ScatterZeroes(FALSE))
  /\ UNCHANGED <<via, hops, phase, compacted>> /\ ColumnsUnchanged

\* The dtypes compact_one_column has no kernel for.
CompactUnsupported(x) ==
  /\ Idle("columns") /\ x \in Remaining /\ NOut > 0 /\ Dtype(x) \notin {"I64", "F64", "Bool"}
  /\ Raise
  /\ UNCHANGED compacted /\ ColumnsUnchanged

\* _assemble_series has made every column a series.
Finish ==
  /\ Idle("columns") /\ Remaining = {}
  /\ Answer(compacted)
  /\ UNCHANGED <<case, via, hops, at, stack, device, keep, prefix, compacted, faulted>>

-----------------------------------------------------------------------------
\* The device and the wait for it.

\* The thread of row r.
Thread(r) ==
  /\ r \in left
  /\ out' = Effect(launch, r, out) /\ left' = left \ {r}
  /\ UNCHANGED <<case, via, hops, phase, at, stack, launch, keep, prefix, compacted, faulted,
                 result>>

\* The values of the slots of an output column; the sentinel is dropped.
Assembled == [i \in Slots |-> IF out.valid[i] THEN out.data[i] ELSE Null]

\* The sentinel slot of a scatter that is not over Booleans was written.
Overran == launch.kernel \in {"scatter_i64", "scatter_f64"} /\ out.overrun

ReadBack ==
  \/ /\ phase = "predicate" /\ stack' = Append(stack, out)
     /\ UNCHANGED <<phase, keep, compacted>>
  \/ /\ phase = "keep" /\ keep' = out.data /\ phase' = "prefix"
     /\ UNCHANGED <<stack, compacted>>
  \/ /\ phase = "columns" /\ compacted' = WithColumn(launch.column, Assembled)
     /\ UNCHANGED <<phase, stack, keep>>

\* wait_until_complete and the copies of the dispatchers, or their ScatterOverrun.
Collect ==
  /\ launch # NoLaunch /\ left = {}
  /\ IF Overran THEN Raise /\ UNCHANGED <<stack, keep, compacted>>
     ELSE /\ ReadBack
          /\ launch' = NoLaunch /\ left' = {} /\ out' = NoOutput /\ UNCHANGED <<via, hops>>
  /\ UNCHANGED <<case, at, prefix, faulted, result>>

\* An allocation, a command buffer or MLX fails.
DeviceFault ==
  /\ launch # NoLaunch \/ phase = "prefix"
  /\ faulted' = TRUE /\ Raise
  /\ UNCHANGED <<case, at, stack, keep, prefix, compacted, result>>

Step ==
  \/ Walk \/ EnterCompact \/ EnterPolars
  \/ EvalColumn \/ EvalCompare \/ EvalLogical \/ MaskInPolars
  \/ MakeKeep \/ MakePrefix
  \/ \E x \in Names : CompactEmpty(x) \/ CompactColumn(x) \/ CompactUnsupported(x)
  \/ Finish
  \/ \E r \in Rows : Thread(r)
  \/ Collect

Next == Step \/ DeviceFault

\* The host runs on, and Metal completes what was committed.
Spec == Init /\ [][Next]_vars /\ WF_vars(Step)

-----------------------------------------------------------------------------
Phases == {"walk", "enter", "predicate", "keep", "prefix", "columns", "answered", "failed"}

\* Types of the control state (_udf.py _dispatch_filter and _filter_via_polars).
TypeOK ==
  /\ via \in {"compact", "polars"} /\ hops \in 0..RecursionLimit
  /\ phase \in Phases /\ at \in 1..(Len(case.predicate) + 1)
  /\ left \subseteq Rows /\ DOMAIN compacted \subseteq Names /\ faulted \in BOOLEAN

Answered == phase = "answered" /\ Lowered /\ case.predicate # <<>>

\* Whichever of the two functions answers, after whatever fallbacks and in whatever order the
\* threads ran, the frame holds the rows on which the predicate is true, in order, with their
\* nulls, as Polars would.  Set apart: whether a row is kept whose NaN is compared, on which the
\* kernels differ from Polars; such a row moves no other.
FilterIsSelection == Answered => \E S \in Selections : result = Selected(Ascending(S))

\* What the comment of cmp_f64.metal says (31-33): NaN, too, behaves as in Polars.
FilterIsPolars == Answered => result = Selected(Ascending(TrueRows))

\* A query fails only if the device failed, or if compact_one_column met a dtype that it has no
\* kernel for and a row survived (compact.rs 285-290).
FailureJustified ==
  phase = "failed" =>
    \/ faulted
    \/ NOut > 0 /\ \E x \in Names : Dtype(x) \in {"I32", "F32"}

\* Each function may call the other (_udf.py 583 and 635); without a failure of the device that
\* happens at most once, from compaction to Polars.
FallbackOnce == ~faulted => hops = 0 \/ (hops = 1 /\ via = "polars" /\ case.entry = "compact")

\* The flags and their inclusive sum never send a row beyond the buffer that was sized by the
\* sum's last element (filter.rs, the sentinel check), nor two rows to one slot.
ScatterFits ==
  phase = "columns" =>
    \A r \in Rows : keep[r] => /\ prefix[r] \in Slots
                             /\ \A q \in Rows : keep[q] /\ prefix[q] = prefix[r] => q = r

=============================================================================
