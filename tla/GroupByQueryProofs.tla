------------------------- MODULE GroupByQueryProofs --------------------------
(***************************************************************************)
(* What is proved of a query and of its parts, for every frame, predicate, *)
(* key column, float format, interleaving and recursion limit: the         *)
(* fallbacks of a Filter and the arithmetic of its compaction; that the    *)
(* float comparisons are IEEE 754's, and that a Filter answers with the    *)
(* rows its predicate selects; that the lane of a row identifies its key   *)
(* and decode_keys inverts encode_keys; the invariant of a query, by which *)
(* a GroupBy answers with one row per key and its aggregates, and fails    *)
(* for few causes.                                                         *)
(***************************************************************************)
EXTENDS GroupByQuery, CountingLemmas, FiniteSetTheorems, SequenceTheorems, TLAPS

-----------------------------------------------------------------------------
\* The Filter.

\* The rows kept among the first r.
KeptUpTo(r) == {i \in 1..r : keep[i]}

\* The call the code is in: a fallback to compaction needs a fault, and compaction has looked
\* at every dtype before it computes anything.
CallInv ==
  /\ hops = 0 => via = case.entry
  /\ FallbackOnce
  /\ phase \in {"keep", "prefix", "columns"} => via = "compact"
  /\ phase \in {"predicate", "keep", "prefix", "columns"} /\ via = "compact"
       => \A x \in Names : Compactable(x)

\* The sums of the flags are in place before a column is scattered ...
PrefixInv == phase = "columns" => \A r \in Rows : prefix[r] = Cardinality(KeptUpTo(r))

\* ... and a scatter kernel in flight has been sized by their last.
LaunchInv ==
  /\ launch.kernel \in {"scatter_i64", "scatter_f64"} =>
       /\ phase = "columns" /\ launch.nOut = NOut
       /\ "overrun" \in DOMAIN out /\ ~out.overrun
  /\ phase = "columns" /\ launch # NoLaunch => launch.column \in Names

\* The types, of a case among Cases.
Typed == case \in Cases /\ TypeOK

IInv == Typed /\ CallInv /\ PrefixInv /\ LaunchInv /\ FailureJustified

-----------------------------------------------------------------------------
\* What every row's sum is: between the sums of the rows before and after it.

LEMMA CaseTypes ==
  ASSUME Typed
  PROVE  /\ case.height \in Nat /\ Len(case.predicate) \in Nat
         /\ case.entry \in {"compact", "polars"}
         /\ RecursionLimit \in Nat /\ RecursionLimit > 0
<1>1. IsCase(case)
  BY CaseAssumption DEF Typed
<1>2. case.height \in Nat /\ case.entry \in {"compact", "polars"} /\ IsSequence(case.predicate)
  BY <1>1 DEF IsCase
<1>3. RecursionLimit \in Nat /\ RecursionLimit > 0
  BY CaseAssumption
<1>4. QED
  BY <1>2, <1>3 DEF IsSequence

LEMMA KeptFinite ==
  ASSUME NEW r \in Nat
  PROVE  IsFiniteSet(KeptUpTo(r)) /\ Cardinality(KeptUpTo(r)) \in Nat
<1>1. IsFiniteSet(1..r)
  BY FS_Interval
<1>2. IsFiniteSet(KeptUpTo(r))
  BY <1>1, FS_Subset DEF KeptUpTo
<1>3. QED BY <1>2, FS_CardinalityType

LEMMA KeptMonotone ==
  ASSUME NEW q \in Nat, NEW r \in Nat, q <= r
  PROVE  /\ Cardinality(KeptUpTo(q)) <= Cardinality(KeptUpTo(r))
         /\ q < r /\ r > 0 /\ keep[r] => Cardinality(KeptUpTo(q)) < Cardinality(KeptUpTo(r))
<1>1. KeptUpTo(q) \subseteq KeptUpTo(r)
  BY DEF KeptUpTo
<1>2. IsFiniteSet(KeptUpTo(r)) /\ Cardinality(KeptUpTo(r)) \in Nat
  BY KeptFinite
<1>3. Cardinality(KeptUpTo(q)) <= Cardinality(KeptUpTo(r))
  BY <1>1, <1>2, FS_Subset
<1>4. ASSUME q < r, r > 0, keep[r]
      PROVE  Cardinality(KeptUpTo(q)) < Cardinality(KeptUpTo(r))
  <2>1. r \in KeptUpTo(r) /\ r \notin KeptUpTo(q)
    BY <1>4 DEF KeptUpTo
  <2>2. Cardinality(KeptUpTo(q)) # Cardinality(KeptUpTo(r))
    BY <1>1, <1>2, <2>1, FS_Subset
  <2>3. Cardinality(KeptUpTo(q)) \in Nat
    BY KeptFinite
  <2>4. QED BY <1>2, <1>3, <2>2, <2>3
<1>5. QED BY <1>3, <1>4

LEMMA PrefixBelowTotal ==
  ASSUME Typed, PrefixInv, phase = "columns"
  PROVE  \A r \in Rows : prefix[r] \in Nat /\ prefix[r] <= NOut /\ NOut \in Nat
<1> SUFFICES ASSUME NEW r \in Rows
             PROVE  prefix[r] \in Nat /\ prefix[r] <= NOut /\ NOut \in Nat
  OBVIOUS
<1>1. case.height \in Nat /\ r \in 1..case.height
  BY CaseTypes DEF Rows
<1>2. case.height # 0 /\ case.height \in Rows /\ r \in Nat /\ r <= case.height
  BY <1>1 DEF Rows
<1>3. /\ prefix[r] = Cardinality(KeptUpTo(r))
      /\ NOut = Cardinality(KeptUpTo(case.height))
  BY <1>2 DEF PrefixInv, NOut
<1>4. QED BY <1>1, <1>2, <1>3, KeptFinite, KeptMonotone

LEMMA PrefixFits ==
  ASSUME Typed, PrefixInv
  PROVE  ScatterFits
<1> SUFFICES ASSUME phase = "columns", NEW r \in Rows, keep[r]
             PROVE  /\ prefix[r] \in Slots
                    /\ \A q \in Rows : keep[q] /\ prefix[q] = prefix[r] => q = r
  BY DEF ScatterFits
<1>0. case.height \in Nat
  BY CaseTypes
<1>1. r \in Nat /\ r > 0 /\ 0 \in Nat
  BY <1>0 DEF Rows
<1>2. \A q \in Rows : prefix[q] = Cardinality(KeptUpTo(q))
  BY DEF PrefixInv
<1>3. prefix[r] \in Slots
  <2>1. Cardinality(KeptUpTo(0)) < Cardinality(KeptUpTo(r))
    BY <1>1, KeptMonotone
  <2>2. prefix[r] > 0 /\ prefix[r] \in Nat
    BY <1>1, <1>2, <2>1, KeptFinite
  <2>3. QED BY <2>2, PrefixBelowTotal DEF Slots
<1>4. ASSUME NEW q \in Rows, keep[q], q # r
      PROVE  prefix[q] # prefix[r]
  <2>1. q \in Nat /\ q > 0
    BY <1>0 DEF Rows
  <2>2. /\ Cardinality(KeptUpTo(q)) \in Nat /\ Cardinality(KeptUpTo(r)) \in Nat
    BY <1>1, <2>1, KeptFinite
  <2>3. CASE q < r
    BY <1>1, <1>2, <2>1, <2>2, <2>3, KeptMonotone
  <2>4. CASE r < q
    BY <1>1, <1>2, <1>4, <2>1, <2>2, <2>4, KeptMonotone
  <2>5. QED BY <1>1, <1>4, <2>1, <2>3, <2>4
<1>5. QED BY <1>3, <1>4

-----------------------------------------------------------------------------
\* The calls.

\* What a call or a raise may do to the control state.
LEMMA CallSteps ==
  ASSUME IInv, case' = case, prefix' = prefix,
         NEW f \in {"compact", "polars"}, Call(f),
         faulted' \in BOOLEAN, faulted => faulted',
         faulted' \/ (f = "polars" /\ via = "compact")
  PROVE  /\ via' \in {"compact", "polars"} /\ hops' \in 0..RecursionLimit
         /\ phase' \in {"enter", "failed"}
         /\ CallInv' /\ FailureJustified'
<1>1. /\ hops \in 0..RecursionLimit /\ via \in {"compact", "polars"}
      /\ RecursionLimit \in Nat /\ RecursionLimit > 0
  BY CaseTypes DEF IInv, Typed, TypeOK
<1>2. hops = 0 => via = case.entry
  BY DEF IInv, CallInv
<1>3. ~faulted => hops = 0 \/ (hops = 1 /\ via = "polars" /\ case.entry = "compact")
  BY DEF IInv, CallInv, FallbackOnce
<1>4. ~faulted' => via = "compact" /\ f = "polars" /\ hops = 0 /\ case.entry = "compact"
  BY <1>2, <1>3
<1>5. CASE hops = RecursionLimit
  <2>1. faulted' /\ phase' = "failed" /\ via' = via /\ hops' = hops
    BY <1>1, <1>4, <1>5 DEF Call
  <2>2. QED
    BY <1>1, <1>2, <2>1 DEF CallInv, FallbackOnce, FailureJustified
<1>6. CASE hops # RecursionLimit
  <2>1. phase' = "enter" /\ via' = f /\ hops' = hops + 1 /\ hops' \in 1..RecursionLimit
    BY <1>1, <1>6 DEF Call
  <2>2. CallInv'
    BY <1>1, <1>4, <2>1 DEF CallInv, FallbackOnce
  <2>3. QED BY <2>1, <2>2 DEF FailureJustified
<1>7. QED BY <1>5, <1>6

LEMMA RaiseSteps ==
  ASSUME IInv, case' = case, prefix' = prefix, Raise, faulted' \in BOOLEAN, faulted => faulted',
         \/ faulted'
         \/ phase = "columns" /\ NOut > 0 /\ \E x \in Names : Dtype(x) \in {"I32", "F32"}
  PROVE  /\ via' \in {"compact", "polars"} /\ hops' \in 0..RecursionLimit
         /\ phase' \in {"enter", "failed"} /\ left' = {}
         /\ CallInv' /\ PrefixInv' /\ LaunchInv' /\ FailureJustified'
<1>1. launch' = NoLaunch /\ left' = {}
  BY DEF Raise
<1>2. LaunchInv'
  BY <1>1 DEF LaunchInv, NoLaunch
<1>3. CASE via = "polars" /\ phase = "predicate"
  <2>1. Call("compact") /\ faulted'
    BY <1>3 DEF Raise
  <2>2. QED
    BY <1>1, <1>2, <2>1, CallSteps DEF PrefixInv
<1>4. CASE ~(via = "polars" /\ phase = "predicate")
  <2>1. phase' = "failed" /\ via' = via /\ hops' = hops
    BY <1>4 DEF Raise
  <2>2. NOut' = NOut /\ Names' = Names /\ \A x : Dtype(x)' = Dtype(x)
    BY DEF NOut, Names, Dtype
  <2>3. FailureJustified'
    BY <2>2 DEF FailureJustified
  <2>4. CallInv'
    BY <2>1 DEF IInv, CallInv, FallbackOnce
  <2>5. QED BY <1>1, <1>2, <2>1, <2>3, <2>4 DEF IInv, Typed, TypeOK, PrefixInv
<1>5. QED BY <1>3, <1>4

-----------------------------------------------------------------------------
\* Steps that neither call nor raise.

\* Such a step of the host keeps the invariant if it launches nothing, or a kernel that is not
\* a scatter, and enters a later phase of the same call only by the front door.
LEMMA QuietSteps ==
  ASSUME IInv, UNCHANGED <<case, via, hops, keep, prefix, faulted>>,
         at' \in 1..(Len(case.predicate) + 1),
         left' \subseteq Rows, compacted' = compacted \/ DOMAIN compacted' \subseteq Names,
         phase' \in Phases, phase' # "failed",
         \/ phase' \in {"answered", "enter", phase}
         \/ /\ phase' \in {"predicate", "keep"}
            /\ via = "compact" => \A x \in Names : Compactable(x)
            /\ phase' = "keep" => via = "compact",
         launch'.kernel \notin {"scatter_i64", "scatter_f64"},
         phase' = "columns" => launch' = NoLaunch
  PROVE  IInv'
<1>1. Typed'
  BY DEF IInv, Typed, TypeOK, Rows, Names
<1>2. FallbackOnce' /\ (hops' = 0 => via' = case'.entry)
  BY DEF IInv, CallInv, FallbackOnce
<1>3. CallInv'
  <2>1. CASE phase' \in {"answered", "enter"}
    BY <1>2, <2>1 DEF CallInv
  <2>2. CASE phase' = phase
    BY <1>2, <2>2 DEF IInv, CallInv, Names, Compactable, Dtype
  <2>3. CASE phase' \in {"predicate", "keep"} /\ phase' # phase
    BY <1>2, <2>3 DEF CallInv, Names, Compactable, Dtype
  <2>4. QED BY <2>1, <2>2, <2>3
<1>4. FailureJustified' /\ LaunchInv'
  BY DEF FailureJustified, LaunchInv
<1>5. PrefixInv'
  BY DEF IInv, PrefixInv, KeptUpTo, Rows
<1>6. QED BY <1>1, <1>3, <1>4, <1>5 DEF IInv

\* No comparison, logical or flag kernel is a scatter.
LEMMA EvaluationLaunches ==
  /\ \A n : CompareLaunch(n).kernel \notin {"none", "scatter_i64", "scatter_f64"}
  /\ \A op, p, q : Logical(op, p, q).kernel = "logical"
  /\ \A p : PredicateToU8(p).kernel = "keep"
BY DEF CompareLaunch, CmpI64, CmpI64Scalar, CmpF64, CmpF64Scalar, Logical, PredicateToU8

LEMMA EvalSteps ==
  ASSUME IInv, EvalColumn \/ EvalCompare \/ EvalLogical
  PROVE  IInv'
<1>1. /\ UNCHANGED <<case, via, hops, phase, keep, prefix, compacted, faulted, result>>
      /\ phase = "predicate" /\ launch = NoLaunch /\ at' = at + 1 /\ at <= Len(case.predicate)
  BY DEF EvalColumn, EvalCompare, EvalLogical, Evaluating, EvalKernel, PredicateUnchanged, Idle
<1>2. at' \in 1..(Len(case.predicate) + 1)
  BY <1>1, CaseTypes DEF IInv, Typed, TypeOK
<1>3. left' \subseteq Rows /\ launch'.kernel \notin {"scatter_i64", "scatter_f64"}
  <2>1. CASE UNCHANGED device
    BY <1>1, <2>1 DEF device, NoLaunch, IInv, Typed, TypeOK
  <2>2. CASE ~UNCHANGED device /\ EvalCompare
    BY <2>2, EvaluationLaunches DEF EvalCompare, EvalKernel, Dispatch
  <2>3. CASE ~UNCHANGED device /\ EvalLogical
    BY <2>3, EvaluationLaunches DEF EvalLogical, EvalKernel, Dispatch
  <2>4. CASE EvalColumn
    BY <2>1, <2>4 DEF EvalColumn
  <2>5. QED BY <2>1, <2>2, <2>3, <2>4
<1>4. QED
  BY <1>1, <1>2, <1>3, QuietSteps DEF Phases

LEMMA HostSteps ==
  ASSUME IInv, Walk \/ EnterPolars \/ MaskInPolars \/ Finish
  PROVE  IInv'
<1>0. 1 \in 1..(Len(case.predicate) + 1) /\ left \subseteq Rows /\ at \in 1..(Len(case.predicate) + 1)
  BY CaseTypes DEF IInv, Typed, TypeOK
<1>1. /\ UNCHANGED <<case, via, hops, launch, left, keep, prefix, compacted, faulted>>
      /\ at' \in {at, 1}
  BY DEF Walk, EnterPolars, MaskInPolars, Finish, device, Answer
<1>2. /\ phase' \in {"answered", "enter"} \/ (phase' = "predicate" /\ via = "polars")
      /\ phase' \in Phases
  BY DEF Walk, EnterPolars, MaskInPolars, Finish, Answer, Phases
<1>3. launch.kernel \notin {"scatter_i64", "scatter_f64"}
  <2>1. launch = NoLaunch \/ phase # "columns"
    BY DEF Walk, EnterPolars, MaskInPolars, Finish, PredicateDone, Idle
  <2>2. NoLaunch.kernel = "none"
    BY DEF NoLaunch
  <2>3. QED BY <2>1, <2>2 DEF IInv, LaunchInv
<1>4. QED
  BY <1>0, <1>1, <1>2, <1>3, QuietSteps

LEMMA EnterCompactSteps ==
  ASSUME IInv, EnterCompact
  PROVE  IInv'
<1>0. 1 \in 1..(Len(case.predicate) + 1) /\ left \subseteq Rows
  BY CaseTypes DEF IInv, Typed, TypeOK
<1>1. /\ UNCHANGED <<case, launch, left, out, keep, prefix, compacted, faulted>>
      /\ at' = 1 /\ phase = "enter" /\ via = "compact"
  BY DEF EnterCompact, device
<1>2. launch.kernel \notin {"scatter_i64", "scatter_f64"}
  BY <1>1 DEF IInv, LaunchInv
<1>3. CASE \A x \in Names : Compactable(x)
  <2>1. phase' = "predicate" /\ UNCHANGED <<via, hops>>
    BY <1>3 DEF EnterCompact
  <2>2. QED
    BY <1>0, <1>1, <1>2, <1>3, <2>1, QuietSteps DEF Phases
<1>4. CASE ~(\A x \in Names : Compactable(x))
  <2>1. Call("polars")
    BY <1>4 DEF EnterCompact
  <2>2. faulted \in BOOLEAN
    BY DEF IInv, Typed, TypeOK
  <2>3. /\ via' \in {"compact", "polars"} /\ hops' \in 0..RecursionLimit
        /\ phase' \in {"enter", "failed"} /\ CallInv' /\ FailureJustified'
    BY <1>1, <2>1, <2>2, CallSteps
  <2>4. Typed'
    BY <1>0, <1>1, <2>3 DEF IInv, Typed, TypeOK, Phases, Rows, Names
  <2>5. PrefixInv' /\ LaunchInv'
    BY <1>1, <1>2, <2>3 DEF PrefixInv, LaunchInv
  <2>6. QED BY <2>3, <2>4, <2>5 DEF IInv
<1>5. QED BY <1>3, <1>4

LEMMA MakeSteps ==
  ASSUME IInv, MakeKeep \/ MakePrefix
  PROVE  IInv'
<1>0. /\ at \in 1..(Len(case.predicate) + 1) /\ left \subseteq Rows /\ DOMAIN <<>> = {}
      /\ DOMAIN compacted \subseteq Names
  BY DEF IInv, Typed, TypeOK
<1>1. CASE MakeKeep /\ Rows # {}
  <2>1. /\ UNCHANGED <<case, via, hops, at, keep, prefix, faulted>> /\ compacted' = <<>>
        /\ phase = "predicate" /\ via = "compact" /\ phase' = "keep" /\ left' = Rows
        /\ launch' = PredicateToU8(Last(stack))
    BY <1>1 DEF MakeKeep, PredicateDone, Idle, Dispatch
  <2>2. \A x \in Names : Compactable(x)
    BY <2>1 DEF IInv, CallInv
  <2>3. QED
    BY <1>0, <2>1, <2>2, EvaluationLaunches, QuietSteps DEF Phases
<1>2. CASE (MakeKeep /\ Rows = {}) \/ MakePrefix
  <2>1. /\ UNCHANGED <<case, via, hops, at, launch, left, keep, faulted>>
        /\ launch = NoLaunch /\ phase' = "columns" /\ via = "compact"
        /\ DOMAIN compacted' \subseteq Names
        /\ \A x \in Names : Compactable(x)
    BY <1>0, <1>2 DEF MakeKeep, MakePrefix, PredicateDone, Idle, device, IInv, CallInv
  <2>2. Typed'
    BY <1>0, <2>1 DEF IInv, Typed, TypeOK, Phases, Rows, Names
  <2>3. CallInv' /\ FailureJustified'
    BY <2>1 DEF IInv, CallInv, FallbackOnce, FailureJustified, Names, Compactable, Dtype
  <2>4. PrefixInv'
    <3>1. CASE Rows = {}
      BY <2>1, <3>1 DEF PrefixInv, Rows
    <3>2. CASE MakePrefix
      BY <2>1, <3>2 DEF MakePrefix, PrefixInv, KeptUpTo, Rows
    <3>3. QED BY <1>2, <3>1, <3>2
  <2>5. LaunchInv'
    BY <2>1 DEF LaunchInv, NoLaunch
  <2>6. QED BY <2>2, <2>3, <2>4, <2>5 DEF IInv
<1>3. QED BY <1>1, <1>2

LEMMA ColumnSteps ==
  ASSUME IInv, NEW x \in Names, CompactEmpty(x) \/ CompactColumn(x)
  PROVE  IInv'
<1>1. /\ UNCHANGED <<case, via, hops, phase, at, keep, prefix, faulted>>
      /\ launch = NoLaunch /\ phase = "columns"
      /\ DOMAIN compacted' \subseteq Names
  BY DEF CompactEmpty, CompactColumn, ColumnsUnchanged, WithColumn, Idle, IInv, Typed, TypeOK
<1>2. CallInv' /\ PrefixInv' /\ FailureJustified' /\ NOut' = NOut
  BY <1>1 DEF IInv, CallInv, FallbackOnce, PrefixInv, FailureJustified, Names, Compactable, Dtype,
              KeptUpTo, Rows, NOut
<1>3. LaunchInv' /\ left' \subseteq Rows
  <2>1. CASE CompactEmpty(x)
    BY <1>1, <2>1 DEF CompactEmpty, device, LaunchInv, NoLaunch, IInv, Typed, TypeOK
  <2>2. CASE CompactColumn(x)
    <3>1. /\ left' = Rows /\ launch'.column = x /\ launch'.nOut = NOut
          /\ launch' \in {ScatterI64(x), ScatterF64(x)} =>
               "overrun" \in DOMAIN out' /\ ~out'.overrun
          /\ launch' = ScatterBool(x) \/ launch' \in {ScatterI64(x), ScatterF64(x)}
      BY <2>2 DEF CompactColumn, Dispatch, ScatterI64, ScatterF64, ScatterBool, ScatterZeroes
    <3>2. ScatterBool(x).kernel = "scatter_bool"
      BY DEF ScatterBool
    <3>3. QED BY <1>1, <1>2, <3>1, <3>2 DEF LaunchInv, Names
  <2>3. QED BY <2>1, <2>2
<1>4. Typed'
  BY <1>1, <1>3 DEF IInv, Typed, TypeOK, Rows, Names
<1>5. QED BY <1>2, <1>3, <1>4 DEF IInv

LEMMA UnsupportedSteps ==
  ASSUME IInv, NEW x \in Names, CompactUnsupported(x)
  PROVE  IInv'
<1>1. /\ UNCHANGED <<case, at, compacted, prefix, faulted>> /\ Raise /\ faulted \in BOOLEAN
      /\ phase = "columns" /\ NOut > 0 /\ Dtype(x) \notin {"I64", "F64", "Bool"}
  BY DEF CompactUnsupported, ColumnsUnchanged, Idle, IInv, Typed, TypeOK
<1>2. Dtype(x) \in {"I32", "F32"}
  BY <1>1 DEF IInv, CallInv, Compactable
<1>3. /\ via' \in {"compact", "polars"} /\ hops' \in 0..RecursionLimit
      /\ phase' \in {"enter", "failed"} /\ left' = {}
      /\ CallInv' /\ PrefixInv' /\ LaunchInv' /\ FailureJustified'
  BY <1>1, <1>2, RaiseSteps
<1>4. Typed'
  BY <1>1, <1>3 DEF IInv, Typed, TypeOK, Phases, Rows, Names
<1>5. QED BY <1>3, <1>4 DEF IInv

-----------------------------------------------------------------------------
\* The device.

\* A thread finds its slot inside the buffer, and so never writes the sentinel.
LEMMA ThreadSteps ==
  ASSUME IInv, NEW r \in Rows, Thread(r)
  PROVE  IInv'
<1>1. /\ UNCHANGED <<case, via, hops, phase, at, launch, keep, prefix, compacted, faulted>>
      /\ left' = left \ {r} /\ out' = Effect(launch, r, out)
  BY DEF Thread
<1>2. /\ Typed' /\ CallInv' /\ PrefixInv' /\ FailureJustified' /\ NOut' = NOut /\ Names' = Names
  BY <1>1 DEF IInv, Typed, TypeOK, CallInv, FallbackOnce, PrefixInv, FailureJustified, Names, Compactable,
              Dtype, KeptUpTo, Rows, NOut
<1>3. ASSUME launch.kernel \in {"scatter_i64", "scatter_f64"}
      PROVE  "overrun" \in DOMAIN out' /\ ~out'.overrun
  <2>1. phase = "columns" /\ launch.nOut = NOut /\ "overrun" \in DOMAIN out /\ ~out.overrun
    BY <1>3 DEF IInv, LaunchInv
  <2>2. out' = ScatterRow(launch, r, out)
    BY <1>1, <1>3 DEF Effect
  <2>3. ~(prefix[r] > NOut)
    BY <2>1, PrefixBelowTotal DEF IInv
  <2>4. QED BY <2>1, <2>2, <2>3 DEF ScatterRow
<1>4. LaunchInv'
  BY <1>1, <1>2, <1>3 DEF IInv, LaunchInv
<1>5. QED BY <1>2, <1>4 DEF IInv

LEMMA CollectSteps ==
  ASSUME IInv, Collect
  PROVE  IInv'
<1>1. ~Overran
  BY DEF Overran, IInv, LaunchInv
<1>2. /\ UNCHANGED <<case, via, hops, at, prefix, faulted>> /\ launch # NoLaunch
      /\ ReadBack /\ launch' = NoLaunch /\ left' = {}
  BY <1>1 DEF Collect
<1>3. LaunchInv'
  BY <1>2 DEF LaunchInv, NoLaunch
<1>4. DOMAIN compacted' \subseteq Names /\ phase' \in Phases
  BY <1>2 DEF ReadBack, WithColumn, IInv, Typed, TypeOK, LaunchInv, Phases
<1>5. Typed'
  BY <1>2, <1>4 DEF IInv, Typed, TypeOK, Rows, Names
<1>6. CallInv' /\ FailureJustified'
  <2>1. \/ phase \in {"predicate", "columns"} /\ phase' = phase
        \/ phase = "keep" /\ phase' = "prefix"
    BY <1>2 DEF ReadBack
  <2>2. QED
    BY <1>2, <2>1 DEF IInv, CallInv, FallbackOnce, FailureJustified, Names, Compactable, Dtype
<1>7. PrefixInv'
  <2>1. phase' = "columns" => phase = "columns" /\ keep' = keep
    BY <1>2 DEF ReadBack
  <2>2. QED BY <1>2, <2>1 DEF IInv, PrefixInv, KeptUpTo, Rows
<1>8. QED BY <1>3, <1>5, <1>6, <1>7 DEF IInv

LEMMA FaultSteps ==
  ASSUME IInv, DeviceFault
  PROVE  IInv'
<1>1. UNCHANGED <<case, at, compacted, prefix>> /\ Raise /\ faulted' = TRUE
  BY DEF DeviceFault
<1>2. /\ via' \in {"compact", "polars"} /\ hops' \in 0..RecursionLimit
      /\ phase' \in {"enter", "failed"} /\ left' = {}
      /\ CallInv' /\ PrefixInv' /\ LaunchInv' /\ FailureJustified'
  BY <1>1, RaiseSteps
<1>3. Typed'
  BY <1>1, <1>2 DEF IInv, Typed, TypeOK, Phases, Rows, Names
<1>4. QED BY <1>2, <1>3 DEF IInv

-----------------------------------------------------------------------------
LEMMA InitIInv == Init => IInv
<1> SUFFICES ASSUME Init PROVE IInv
  OBVIOUS
<1>1. /\ case \in Cases /\ via = case.entry /\ hops = 0 /\ phase = "walk" /\ at = 1
      /\ left = {} /\ compacted = <<>> /\ faulted = FALSE /\ launch = NoLaunch
  BY DEF Init
<1>2. /\ via \in {"compact", "polars"} /\ Len(case.predicate) \in Nat
      /\ RecursionLimit \in Nat
  <2>1. IsCase(case) /\ RecursionLimit \in Nat
    BY <1>1, CaseAssumption
  <2>2. via \in {"compact", "polars"} /\ IsSequence(case.predicate)
    BY <1>1, <2>1 DEF IsCase
  <2>3. QED
    BY <2>1, <2>2 DEF IsSequence
<1>3. Typed
  <2>1. 1 \in 1..(Len(case.predicate) + 1) /\ 0 \in 0..RecursionLimit /\ DOMAIN <<>> = {}
    BY <1>2
  <2>2. QED BY <1>1, <1>2, <2>1 DEF Typed, TypeOK, Phases
<1>4. CallInv /\ PrefixInv /\ FailureJustified
  BY <1>1 DEF CallInv, FallbackOnce, PrefixInv, FailureJustified
<1>5. LaunchInv
  BY <1>1 DEF LaunchInv, NoLaunch
<1>6. QED BY <1>3, <1>4, <1>5 DEF IInv

LEMMA NextIInv == IInv /\ [Next]_vars => IInv'
<1> SUFFICES ASSUME IInv, [Next]_vars PROVE IInv'
  OBVIOUS
<1>1. CASE Walk \/ EnterPolars \/ MaskInPolars \/ Finish
  BY <1>1, HostSteps
<1>2. CASE EnterCompact
  BY <1>2, EnterCompactSteps
<1>3. CASE EvalColumn \/ EvalCompare \/ EvalLogical
  BY <1>3, EvalSteps
<1>4. CASE MakeKeep \/ MakePrefix
  BY <1>4, MakeSteps
<1>5. CASE \E x \in Names : CompactEmpty(x) \/ CompactColumn(x) \/ CompactUnsupported(x)
  BY <1>5, ColumnSteps, UnsupportedSteps
<1>6. CASE \E r \in Rows : Thread(r)
  BY <1>6, ThreadSteps
<1>7. CASE Collect
  BY <1>7, CollectSteps
<1>8. CASE DeviceFault
  BY <1>8, FaultSteps
<1>9. CASE UNCHANGED vars
  BY <1>9 DEF vars, device, IInv, Typed, TypeOK, CallInv, FallbackOnce, PrefixInv, LaunchInv,
              FailureJustified, Rows, Names, Compactable, Dtype, KeptUpTo, NOut
<1>10. QED
  BY <1>1, <1>2, <1>3, <1>4, <1>5, <1>6, <1>7, <1>8, <1>9 DEF Next, Step

LEMMA FilterInvariant == Spec => []IInv
BY InitIInv, NextIInv, PTL DEF Spec

\* The control state keeps its types through every fallback (_udf.py 506-640).
THEOREM FilterTypes == Spec => []TypeOK
<1>1. IInv => TypeOK
  BY DEF IInv, Typed
<1>2. QED BY <1>1, FilterInvariant, PTL

\* Without a fault of the device _dispatch_filter and _filter_via_polars do not call each other
\* more than once, whatever the frame and the predicate.
THEOREM NoMutualRecursion == Spec => []FallbackOnce
<1>1. IInv => FallbackOnce
  BY DEF IInv, CallInv
<1>2. QED BY <1>1, FilterInvariant, PTL

\* A Filter raises only because the device failed or a 32-bit column has a surviving row; in
\* particular no scatter ever trips the sentinel (ScatterOverrun in filter.rs).
THEOREM RaisesOnlyForCause == Spec => []FailureJustified
<1>1. IInv => FailureJustified
  BY DEF IInv
<1>2. QED BY <1>1, FilterInvariant, PTL

\* Compaction sends the rows it keeps to distinct slots of the buffer it has sized.
THEOREM ScatterIsInjective == Spec => []ScatterFits
<1>1. IInv => ScatterFits
  BY PrefixFits DEF IInv
<1>2. QED BY <1>1, FilterInvariant, PTL

-----------------------------------------------------------------------------
(***************************************************************************)
(* The comparisons of cmp_f64.metal are those of sign and magnitude, for   *)
(* every width of mantissa and exponent.                                   *)
(***************************************************************************)

\* The integer a pattern is when its sign bit is read as a sign.
SignedMagnitude(a) == IF IsNegative(a) THEN 0 - Magnitude(a) ELSE Magnitude(a)

LEMMA SignBitType == SignBit \in Nat /\ SignBit > 0
<1>1. /\ ManSize \in Nat /\ ManSize > 0 /\ ExpSize \in Nat /\ ExpSize > 0
  BY FloatAssumption
<1>2. QED BY <1>1 DEF SignBit

\* The key is monotone and tells all patterns apart but never needs to: the two zeros, whose
\* keys differ, are the only patterns of one sign and magnitude.
LEMMA KeyOrder ==
  ASSUME NEW a \in Floats, NEW b \in Floats, ~BothAreZero(a, b)
  PROVE  /\ (TotalOrderKey(a) < TotalOrderKey(b)) <=> (SignedMagnitude(a) < SignedMagnitude(b))
         /\ (TotalOrderKey(a) <= TotalOrderKey(b)) <=> (SignedMagnitude(a) <= SignedMagnitude(b))
         /\ (a = b) <=> (SignedMagnitude(a) = SignedMagnitude(b))
<1>1. a \in 0..(2 * SignBit - 1) /\ b \in 0..(2 * SignBit - 1)
  BY DEF Floats
<1>2. ~(Magnitude(a) = 0 /\ Magnitude(b) = 0)
  BY DEF BothAreZero
<1>3. QED
  BY <1>1, <1>2, SignBitType DEF TotalOrderKey, SignedMagnitude, Magnitude, IsNegative

\* f64_eq, f64_ne, f64_lt, f64_le, f64_gt and f64_ge compare signed magnitudes, in which the
\* two zeros are one number; every comparison with a NaN is false but f64_ne.
THEOREM ComparesSignAndMagnitude ==
  ASSUME NEW op \in {"Eq", "Ne", "Lt", "Le", "Gt", "Ge"}, NEW a \in Floats, NEW b \in Floats
  PROVE  FloatCompare(op, a, b) <=>
           IF IsNan(a) \/ IsNan(b) THEN op = "Ne"
                                   ELSE Order(op, SignedMagnitude(a), SignedMagnitude(b))
<1>0. CASE IsNan(a) \/ IsNan(b)
  BY <1>0 DEF FloatCompare
<1>1. CASE ~(IsNan(a) \/ IsNan(b)) /\ BothAreZero(a, b)
  <2>0. Magnitude(a) = 0 /\ Magnitude(b) = 0
    BY <1>1 DEF BothAreZero
  <2>1. SignedMagnitude(a) = 0 /\ SignedMagnitude(b) = 0
    BY <2>0 DEF SignedMagnitude
  <2>2. Order(op, SignedMagnitude(a), SignedMagnitude(b)) <=> op \in {"Eq", "Le", "Ge"}
    <3>1. CASE op = "Eq"
      BY <2>1, <3>1 DEF Order
    <3>2. CASE op = "Ne"
      BY <2>1, <3>2 DEF Order
    <3>3. CASE op = "Lt"
      BY <2>1, <3>3 DEF Order
    <3>4. CASE op = "Le"
      BY <2>1, <3>4 DEF Order
    <3>5. CASE op = "Gt"
      BY <2>1, <3>5 DEF Order
    <3>6. CASE op = "Ge"
      BY <2>1, <3>6 DEF Order
    <3>7. QED BY <3>1, <3>2, <3>3, <3>4, <3>5, <3>6
  <2>3. FloatCompare(op, a, b) <=> op \in {"Eq", "Le", "Ge"}
    BY <1>1 DEF FloatCompare
  <2>4. QED BY <1>1, <2>2, <2>3
<1>2. CASE ~(IsNan(a) \/ IsNan(b)) /\ ~BothAreZero(a, b)
  <2>1. /\ (TotalOrderKey(a) < TotalOrderKey(b)) <=> (SignedMagnitude(a) < SignedMagnitude(b))
        /\ (TotalOrderKey(a) <= TotalOrderKey(b)) <=> (SignedMagnitude(a) <= SignedMagnitude(b))
        /\ (a = b) <=> (SignedMagnitude(a) = SignedMagnitude(b))
    BY <1>2, KeyOrder
  <2>2. ~BothAreZero(b, a)
    BY <1>2 DEF BothAreZero
  <2>3. /\ (TotalOrderKey(b) < TotalOrderKey(a)) <=> (SignedMagnitude(b) < SignedMagnitude(a))
        /\ (TotalOrderKey(b) <= TotalOrderKey(a)) <=> (SignedMagnitude(b) <= SignedMagnitude(a))
    BY <2>2, KeyOrder
  <2>4. /\ TotalOrderKey(a) \in Int /\ TotalOrderKey(b) \in Int
        /\ SignedMagnitude(a) \in Int /\ SignedMagnitude(b) \in Int
    BY SignBitType DEF TotalOrderKey, SignedMagnitude, Magnitude, IsNegative, Floats
  <2>5. QED
    BY <1>2, <2>1, <2>3, <2>4 DEF FloatCompare, Order
<1>3. QED BY <1>0, <1>1, <1>2

\* The powers of two are a function: their defining equation holds.
LEMMA PowersEquation ==
  Powers = [n \in 0..ExpSize |-> IF n = 0 THEN 1 ELSE 2 * Powers[n - 1]]
<1> DEFINE Doubles(h, m) == h = [n \in 0..m |-> IF n = 0 THEN 1 ELSE 2 * h[n - 1]]
           G == {m \in Nat : \E h : Doubles(h, m)}
<1>1. 0 \in G
  <2>1. Doubles([n \in {0} |-> 1], 0)
    OBVIOUS
  <2>2. QED
    BY <2>1
<1>2. ASSUME NEW m \in G PROVE m + 1 \in G
  <2>1. PICK h : Doubles(h, m)
    BY <1>2
  <2> DEFINE longer == [n \in 0..(m + 1) |-> IF n = m + 1 THEN 2 * h[m] ELSE h[n]]
  <2>2. Doubles(longer, m + 1)
    BY <2>1
  <2>3. \E g : Doubles(g, m + 1)
    <3> HIDE DEF longer, Doubles
    <3>1. QED
      BY <2>2
  <2>4. QED
    BY <2>3
<1>3. G = Nat
  <2>1. G \in SUBSET Nat
    OBVIOUS
  <2> HIDE DEF G
  <2>2. QED
    BY <1>1, <1>2, <2>1, NumberInduction
<1>4. \E h : Doubles(h, ExpSize)
  BY <1>3, FloatAssumption
<1>5. QED
  BY <1>4 DEF Powers

LEMMA PowerFacts ==
  /\ Powers[0] = 1
  /\ \A n \in 0..ExpSize : Powers[n] \in Nat /\ Powers[n] > 0
  /\ \A n \in 1..ExpSize : Powers[n] = 2 * Powers[n - 1]
  /\ \A n \in 0..ExpSize : \A m \in 0..n : Powers[m] <= Powers[n]
<1>0. ExpSize \in Nat
  BY FloatAssumption
<1>1. Powers[0] = 1
  BY <1>0, PowersEquation
<1>2. \A n \in 1..ExpSize : Powers[n] = 2 * Powers[n - 1]
  BY <1>0, PowersEquation
<1> DEFINE Grows(n) == Powers[n] \in Nat /\ Powers[n] > 0 /\ \A m \in 0..n : Powers[m] \in Nat /\ Powers[m] <= Powers[n]
           G == {n \in Nat : n <= ExpSize => Grows(n)}
<1>3. 0 \in G
  BY <1>1
<1>4. ASSUME NEW n \in G PROVE n + 1 \in G
  <2> SUFFICES ASSUME n + 1 <= ExpSize PROVE Grows(n + 1)
    OBVIOUS
  <2>1. Grows(n)
    BY <1>0, <1>4
  <2>2. Powers[n + 1] = 2 * Powers[n]
    BY <1>0, <1>2
  <2>3. \A m \in 0..(n + 1) : m = n + 1 \/ m \in 0..n
    OBVIOUS
  <2>4. QED
    BY <2>1, <2>2, <2>3
<1>5. G = Nat
  <2>1. G \in SUBSET Nat
    OBVIOUS
  <2> HIDE DEF G
  <2>2. QED
    BY <1>3, <1>4, <2>1, NumberInduction
<1>6. \A n \in 0..ExpSize : Grows(n)
  BY <1>0, <1>5
<1>7. QED
  BY <1>1, <1>2, <1>6

\* The absolute value that a magnitude denotes.
Absolute(m) ==
  IF m \div ManSize = 0 THEN m % ManSize
  ELSE (ManSize + (m % ManSize)) * Powers[m \div ManSize - 1]

\* The exponent and the mantissa of a magnitude, which order it.
LEMMA MagnitudeParts ==
  ASSUME NEW m \in 0..(SignBit - 1)
  PROVE  /\ m \div ManSize \in 0..(ExpSize - 1) /\ m % ManSize \in 0..(ManSize - 1)
         /\ m = ManSize * (m \div ManSize) + (m % ManSize)
<1>1. ManSize \in Nat \ {0} /\ ExpSize \in Nat \ {0} /\ m \in Int /\ m \in 0..(ManSize * ExpSize - 1)
  BY FloatAssumption DEF SignBit
<1>2. QED
  BY <1>1, DivMod, DivBound

LEMMA Products ==
  ASSUME NEW a \in Nat, NEW b \in Nat, NEW p \in Nat, p > 0
  PROVE  /\ a * p \in Nat
         /\ a < b => a * p < b * p
         /\ a <= b => a * p <= b * p /\ p * a <= p * b
         /\ 2 * (a * p) = (2 * a) * p /\ a * (2 * p) = (2 * a) * p
OBVIOUS

\* A greater magnitude denotes a greater number, within a binade and across binades.
LEMMA AbsoluteOrder ==
  ASSUME NEW m \in 0..(SignBit - 1), NEW k \in 0..(SignBit - 1), m < k
  PROVE  Absolute(m) < Absolute(k)
<1>0. ManSize \in Nat /\ ManSize > 0 /\ ExpSize \in Nat
  BY FloatAssumption
<1>1. PICK e, f, a, b : /\ e = m \div ManSize /\ f = k \div ManSize
                        /\ a = m % ManSize /\ b = k % ManSize
  OBVIOUS
<1>2. /\ e \in 0..(ExpSize - 1) /\ f \in 0..(ExpSize - 1)
      /\ a \in 0..(ManSize - 1) /\ b \in 0..(ManSize - 1)
      /\ m = ManSize * e + a /\ k = ManSize * f + b
  BY <1>1, MagnitudeParts
<1>3. e <= f /\ (e = f => a < b)
  <2>1. CASE f < e
    <3>1. ManSize * (f + 1) <= ManSize * e
      BY <1>0, <1>2, <2>1, Products
    <3>2. ManSize * (f + 1) = ManSize * f + ManSize /\ ManSize * e \in Nat /\ ManSize * f \in Nat
      BY <1>0, <1>2
    <3>3. QED
      BY <1>0, <1>2, <3>1, <3>2
  <2>2. CASE e = f
    <3>1. ManSize * e \in Nat
      BY <1>0, <1>2
    <3>2. QED
      BY <1>2, <2>2, <3>1
  <2>3. QED
    BY <1>2, <2>1, <2>2
<1>4. /\ Absolute(m) = IF e = 0 THEN a ELSE (ManSize + a) * Powers[e - 1]
      /\ Absolute(k) = IF f = 0 THEN b ELSE (ManSize + b) * Powers[f - 1]
  BY <1>1 DEF Absolute
<1>5. CASE f = 0
  BY <1>2, <1>3, <1>4, <1>5
<1>6. CASE f # 0
  <2>1. PICK p \in Nat : p = Powers[f - 1] /\ p > 0
    BY <1>0, <1>2, <1>6, PowerFacts
  <2>2. Absolute(k) = (ManSize + b) * p
    BY <1>4, <1>6, <2>1
  <2>3. CASE e = f
    <3>1. Absolute(m) = (ManSize + a) * p
      BY <1>4, <1>6, <2>1, <2>3
    <3>2. ManSize + a \in Nat /\ ManSize + b \in Nat /\ ManSize + a < ManSize + b
      BY <1>0, <1>2, <1>3, <2>3
    <3>3. QED
      BY <2>1, <2>2, <3>1, <3>2, Products
  <2>4. CASE e < f
    <3>1. PICK q \in Nat : q = Powers[e] /\ q > 0 /\ q <= p
      <4>1. e \in 0..(f - 1) /\ f - 1 \in 0..ExpSize /\ e \in 0..ExpSize
        BY <1>0, <1>2, <2>4
      <4>2. QED
        BY <2>1, <4>1, PowerFacts
    <3>2. Absolute(m) < ManSize * q
      <4>1. CASE e = 0
        BY <1>0, <1>2, <1>4, <3>1, <4>1, PowerFacts
      <4>2. CASE e # 0
        <5>1. PICK d \in Nat : d = Powers[e - 1] /\ d > 0 /\ q = 2 * d
          <6>1. e \in 1..ExpSize /\ e - 1 \in 0..ExpSize
            BY <1>0, <1>2, <4>2
          <6>2. QED
            BY <3>1, <6>1, PowerFacts
        <5>2. Absolute(m) = (ManSize + a) * d
          BY <1>4, <4>2, <5>1
        <5>3. (ManSize + a) * d < (2 * ManSize) * d
          BY <1>0, <1>2, <5>1, Products
        <5>4. (2 * ManSize) * d = ManSize * q
          BY <1>0, <5>1, Products
        <5>5. QED
          BY <5>2, <5>3, <5>4
      <4>3. QED
        BY <4>1, <4>2
    <3>3. ManSize * q <= ManSize * p
      BY <1>0, <2>1, <3>1, Products
    <3>4. ManSize * p <= (ManSize + b) * p
      BY <1>0, <1>2, <2>1, Products
    <3>5. /\ ManSize * q \in Nat /\ ManSize * p \in Nat /\ (ManSize + b) * p \in Nat
      BY <1>0, <1>2, <2>1, <3>1, Products
    <3>6. Absolute(m) \in Nat
      <4>1. e # 0 => Powers[e - 1] \in Nat
        BY <1>0, <1>2, PowerFacts
      <4>2. QED
        BY <1>0, <1>2, <1>4, <4>1
    <3>7. QED
      BY <2>2, <3>2, <3>3, <3>4, <3>5, <3>6
  <2>5. QED
    BY <1>2, <1>3, <2>3, <2>4
<1>7. QED
  BY <1>5, <1>6

LEMMA AbsoluteType ==
  ASSUME NEW m \in 0..(SignBit - 1)
  PROVE  Absolute(m) \in Nat /\ (Absolute(m) = 0 <=> m = 0)
<1>0. ManSize \in Nat /\ ManSize > 0 /\ ExpSize \in Nat /\ ExpSize > 0 /\ 0 \in 0..(SignBit - 1)
  BY FloatAssumption, SignBitType
<1>1. \A k \in 0..(SignBit - 1) : Absolute(k) \in Nat
  <2> TAKE k \in 0..(SignBit - 1)
  <2>1. k \div ManSize \in 0..(ExpSize - 1) /\ k % ManSize \in 0..(ManSize - 1)
    BY MagnitudeParts
  <2>2. k \div ManSize # 0 => Powers[k \div ManSize - 1] \in Nat
    BY <1>0, <2>1, PowerFacts
  <2>3. QED
    BY <1>0, <2>1, <2>2 DEF Absolute
<1>2. Absolute(0) = 0
  BY <1>0, MagnitudeParts DEF Absolute
<1>3. m # 0 => Absolute(0) < Absolute(m)
  BY <1>0, AbsoluteOrder
<1>4. QED
  BY <1>0, <1>1, <1>2, <1>3

\* Patterns denote numbers in the order of their signed magnitudes.
LEMMA DenotationOrder ==
  ASSUME NEW a \in Floats, NEW b \in Floats
  PROVE  /\ Denotation(a) \in Int /\ SignedMagnitude(a) \in Int
         /\ Denotation(a) < Denotation(b) <=> SignedMagnitude(a) < SignedMagnitude(b)
<1>1. \A c \in Floats : /\ Magnitude(c) \in 0..(SignBit - 1)
                        /\ Denotation(c) = IF IsNegative(c) THEN -Absolute(Magnitude(c))
                                                            ELSE Absolute(Magnitude(c))
  <2> TAKE c \in Floats
  <2>1. Magnitude(c) \in 0..(SignBit - 1)
    BY SignBitType DEF Magnitude, IsNegative, Floats
  <2>2. QED
    BY <2>1 DEF Denotation, Absolute
<1>2. PICK m \in 0..(SignBit - 1), k \in 0..(SignBit - 1) : m = Magnitude(a) /\ k = Magnitude(b)
  BY <1>1
<1>3. /\ Absolute(m) \in Nat /\ Absolute(k) \in Nat
      /\ (Absolute(m) = 0 <=> m = 0) /\ (Absolute(k) = 0 <=> k = 0)
      /\ m < k => Absolute(m) < Absolute(k)
      /\ k < m => Absolute(k) < Absolute(m)
  BY AbsoluteType, AbsoluteOrder
<1>4. /\ Denotation(a) = IF IsNegative(a) THEN -Absolute(m) ELSE Absolute(m)
      /\ Denotation(b) = IF IsNegative(b) THEN -Absolute(k) ELSE Absolute(k)
      /\ SignedMagnitude(a) = IF IsNegative(a) THEN 0 - m ELSE m
      /\ SignedMagnitude(b) = IF IsNegative(b) THEN 0 - k ELSE k
  BY <1>1, <1>2 DEF SignedMagnitude
<1>5. m \in Int /\ k \in Int /\ m >= 0 /\ k >= 0 /\ (m = k => Absolute(m) = Absolute(k))
  BY SignBitType
<1>6. QED
  BY <1>3, <1>4, <1>5

LEMMA OrderBoolean ==
  ASSUME NEW op \in {"Eq", "Ne", "Lt", "Le", "Gt", "Ge"}, NEW x \in Int, NEW y \in Int
  PROVE  Order(op, x, y) \in BOOLEAN
<1>1. CASE op = "Eq"
  BY <1>1 DEF Order
<1>2. CASE op = "Ne"
  BY <1>2 DEF Order
<1>3. CASE op = "Lt"
  BY <1>3 DEF Order
<1>4. CASE op = "Le"
  BY <1>4 DEF Order
<1>5. CASE op = "Gt"
  BY <1>5 DEF Order
<1>6. CASE op = "Ge"
  BY <1>6 DEF Order
<1>7. QED
  BY <1>1, <1>2, <1>3, <1>4, <1>5, <1>6

LEMMA FloatCompareBoolean ==
  ASSUME NEW op \in {"Eq", "Ne", "Lt", "Le", "Gt", "Ge"}, NEW a \in Floats, NEW b \in Floats
  PROVE  FloatCompare(op, a, b) \in BOOLEAN
<1>1. CASE IsNan(a) \/ IsNan(b)
  <2>1. FloatCompare(op, a, b) = (op = "Ne")
    BY <1>1 DEF FloatCompare
  <2>2. QED
    BY <2>1, Zenon
<1>2. CASE ~(IsNan(a) \/ IsNan(b)) /\ BothAreZero(a, b)
  <2>1. CASE op \in {"Eq", "Le", "Ge"}
    BY <1>2, <2>1 DEF FloatCompare
  <2>2. CASE op \notin {"Eq", "Le", "Ge"}
    BY <1>2, <2>2 DEF FloatCompare
  <2>3. QED
    BY <2>1, <2>2
<1>3. CASE ~(IsNan(a) \/ IsNan(b)) /\ ~BothAreZero(a, b)
  <2>0. PICK x \in Int, y \in Int : x = TotalOrderKey(a) /\ y = TotalOrderKey(b)
    <3>1. TotalOrderKey(a) \in Int /\ TotalOrderKey(b) \in Int
      BY SignBitType DEF TotalOrderKey, Floats
    <3>2. QED
      BY <3>1
  <2>1. CASE op = "Eq"
    BY <1>3, <2>0, <2>1 DEF FloatCompare
  <2>2. CASE op = "Ne"
    BY <1>3, <2>0, <2>2 DEF FloatCompare
  <2>3. CASE op = "Lt"
    BY <1>3, <2>0, <2>3 DEF FloatCompare
  <2>4. CASE op = "Le"
    BY <1>3, <2>0, <2>4 DEF FloatCompare
  <2>5. CASE op = "Gt"
    BY <1>3, <2>0, <2>5 DEF FloatCompare
  <2>6. CASE op = "Ge"
    BY <1>3, <2>0, <2>6 DEF FloatCompare
  <2>7. QED
    BY <2>1, <2>2, <2>3, <2>4, <2>5, <2>6
<1>4. QED
  BY <1>1, <1>2, <1>3

LEMMA EqualBooleans ==
  ASSUME NEW p \in BOOLEAN, NEW q \in BOOLEAN, p <=> q
  PROVE  p = q
OBVIOUS

\* The comparisons of bit patterns in cmp_f64.metal are those of IEEE 754: of the numbers the
\* patterns denote, every comparison with a NaN being false but "not equal".
THEOREM ComparesNumbers ==
  ASSUME NEW op \in {"Eq", "Ne", "Lt", "Le", "Gt", "Ge"}, NEW a \in Floats, NEW b \in Floats
  PROVE  FloatCompare(op, a, b) = IeeeCompare(op, a, b)
<1>1. /\ Denotation(a) \in Int /\ Denotation(b) \in Int
      /\ SignedMagnitude(a) \in Int /\ SignedMagnitude(b) \in Int
      /\ Denotation(a) < Denotation(b) <=> SignedMagnitude(a) < SignedMagnitude(b)
      /\ Denotation(b) < Denotation(a) <=> SignedMagnitude(b) < SignedMagnitude(a)
  BY DenotationOrder
<1>2. Order(op, SignedMagnitude(a), SignedMagnitude(b)) <=> Order(op, Denotation(a), Denotation(b))
  BY <1>1 DEF Order
<1>3. FloatCompare(op, a, b) <=> IeeeCompare(op, a, b)
  BY <1>2, ComparesSignAndMagnitude DEF IeeeCompare
<1>4. FloatCompare(op, a, b) \in BOOLEAN
  BY FloatCompareBoolean
<1>5. IeeeCompare(op, a, b) \in BOOLEAN
  <2>1. Order(op, Denotation(a), Denotation(b)) \in BOOLEAN
    BY <1>1, OrderBoolean
  <2>2. QED
    BY <2>1, Zenon DEF IeeeCompare
<1>6. QED
  BY <1>3, <1>4, <1>5, EqualBooleans

-----------------------------------------------------------------------------
(***************************************************************************)
(* A Filter selects: what a bitmap, a launch in flight and the columns     *)
(* compacted so far tell of the reference.  The operators take what they   *)
(* speak of as arguments; of the state only the case is read by it.        *)
(***************************************************************************)

\* Three-valued truth, and the operands of the reference by row.
Kleene == BOOLEAN \cup {Null}

\* The kernels' answer, for all patterns: the reference with the comparisons of IEEE 754.
IeeeCompared(n, r) ==
  LET u == LeafValue(n.lhs, r)  v == LeafValue(n.rhs, r)
  IN  IF u = Null \/ v = Null THEN Null
      ELSE IF LeafDtype(n.lhs) = "F64" THEN IeeeCompare(n.op, u, v) ELSE Order(n.op, u, v)

IeeePush(st, n, r) ==
  CASE n.kind = "Column"  -> Append(st, Value(n.name, r))
    [] n.kind = "Compare" -> Append(st, IeeeCompared(n, r))
    [] OTHER -> Append(SubSeq(st, 1, Len(st) - 2),
                       KleeneLogical(n.kind, st[Len(st) - 1], st[Len(st)]))

IeeeStacks(r) ==
  LET after[i \in 0..Len(case.predicate)] ==
        IF i = 0 THEN <<>> ELSE IeeePush(after[i - 1], case.predicate[i], r)
  IN  after

IeeeValue(r) == Last(IeeeStacks(r)[Len(case.predicate)])

Truth  == [r \in Rows |-> IeeeStacks(r)]
Kept   == {r \in Rows : IeeeValue(r) = TRUE}

FrameOfKept    == Selected(Ascending(Kept))
FilterIsKept == Answered => result = FrameOfKept

\* A bitmap over the rows R, what it says of a row, and that it says nothing yet.
Bitmaps(R) == [data : [R -> BOOLEAN], valid : [R -> BOOLEAN]]
Tells(b, r, k) == (b.valid[r] <=> k # Null) /\ (b.valid[r] => (b.data[r] <=> k = TRUE))
Blank(b, r)    == ~b.valid[r] /\ ~b.data[r]
SameRow(b, o, r) == b.data[r] = o.data[r] /\ b.valid[r] = o.valid[r]

\* The bitmaps st tell, from the bottom, the operands that i nodes leave.
Told(truth, R, st, i) ==
  /\ st \in Seq(Bitmaps(R))
  /\ \A j \in 1..Len(st) : \A r \in R : Tells(st[j], r, truth[r][i][j])

\* The kernels that evaluate nodes; the thread of row r tells k, and touches no other row.
NodeKernels == {"cmp_i64", "cmp_f64", "logical"}
NodeRow(l, r, o) == CASE l.kernel = "cmp_i64" -> CmpI64Row(l, r, o)
                      [] l.kernel = "cmp_f64" -> CmpF64Row(l, r, o)
                      [] OTHER                -> LogicalRow(l, r, o)
Computes(R, l, r, k) ==
  \A o \in Bitmaps(R) : Blank(o, r) =>
    /\ NodeRow(l, r, o) \in Bitmaps(R) /\ Tells(NodeRow(l, r, o), r, k)
    /\ \A q \in R \ {r} : SameRow(NodeRow(l, r, o), o, q)

\* A launch whose output will be the operand j of those that i nodes leave.
Underway(truth, R, l, waiting, o, i, j) ==
  /\ l.kernel \in NodeKernels /\ o \in Bitmaps(R)
  /\ \A r \in R : /\ Computes(R, l, r, truth[r][i][j])
                  /\ IF r \in waiting THEN Blank(o, r) ELSE Tells(o, r, truth[r][i][j])

LoweredInv == phase \in {"enter", "predicate", "keep", "prefix", "columns"} => Lowered

EvalInv ==
  phase = "predicate" =>
    /\ Told(Truth, Rows, stack, at - 1)
    /\ IF launch = NoLaunch THEN Len(stack) = Depth(case.predicate, at - 1)
       ELSE /\ at > 1 /\ Len(stack) + 1 = Depth(case.predicate, at - 1)
            /\ Underway(Truth, Rows, launch, left, out, at - 1, Len(stack) + 1)

\* The flags, while they are made and when they are.
KeepInv ==
  phase = "keep" =>
    /\ launch.kernel = "keep" /\ out \in Bitmaps(Rows) /\ launch.lhs \in Bitmaps(Rows)
    /\ \A r \in Rows : /\ launch.lhs.data[r] /\ launch.lhs.valid[r] <=> r \in Kept
                       /\ r \notin left => (out.data[r] <=> r \in Kept)
FlagInv ==
  phase \in {"prefix", "columns"} => \A r \in Rows : keep[r] \in BOOLEAN /\ (keep[r] <=> r \in Kept)

\* A slot of the output of a scatter whose row is still waiting, or is done.
ScatterLaunch(l, tag) ==
  /\ l.kernel = (CASE tag = "I64" -> "scatter_i64" [] tag = "F64" -> "scatter_f64"
                   [] OTHER -> "scatter_bool")
  /\ tag \in {"I64", "F64", "Bool"}
SlotInv(o, i, waits, tag, v) ==
  IF waits THEN ~o.valid[i] /\ (tag = "Bool" => o.data[i] = FALSE)
  ELSE (o.valid[i] <=> v # Null) /\ (o.valid[i] => o.data[i] = v)

\* The columns that are done, and the one that is being scattered.
DoneInv == phase \in {"keep", "prefix", "columns"} =>
             compacted = [x \in DOMAIN compacted |-> FrameOfKept[x]]

ColumnInv ==
  phase = "columns" /\ launch # NoLaunch =>
         /\ ScatterLaunch(launch, Dtype(launch.column)) /\ launch.nOut = NOut
         /\ DOMAIN out = {"data", "valid", "overrun"}
         /\ DOMAIN out.data = Slots /\ DOMAIN out.valid = Slots
         /\ \A i \in Slots : SlotInv(out, i, Ascending(Kept)[i] \in left, Dtype(launch.column),
                                     FrameOfKept[launch.column][i])

\* Threads wait only for a launch, and a launch is made in three phases.
IdleInv == /\ launch = NoLaunch => left = {}
           /\ phase \notin {"predicate", "keep", "columns"} => launch = NoLaunch

SelParts ==
  IdleInv /\ LoweredInv /\ EvalInv /\ KeepInv /\ FlagInv /\ DoneInv /\ ColumnInv
  /\ FilterIsKept

\* A query without a Filter has a case without a predicate.
SelInv == case.predicate # <<>> => SelParts

-----------------------------------------------------------------------------
\* The i-th of the numbers in S has i of them up to it.
LEMMA AscendingRanks ==
  ASSUME NEW S \in SUBSET Nat, IsFiniteSet(S)
  PROVE  /\ Cardinality(S) \in Nat
         /\ \A i \in 1..Cardinality(S) : Ascending(S)[i] \in S
         /\ \A r \in S : /\ Cardinality({q \in S : q <= r}) \in 1..Cardinality(S)
                         /\ Ascending(S)[Cardinality({q \in S : q <= r})] = r
         /\ \A i \in 1..Cardinality(S) : Cardinality({q \in S : q <= Ascending(S)[i]}) = i
<1>1. PICK rank : rank = [x \in S |-> Cardinality({y \in S : y < x})]
  OBVIOUS
<1>2. PICK n : n = Cardinality(S)
  OBVIOUS
<1>3. /\ n \in Nat /\ rank \in [S -> 0..(n - 1)]
      /\ \A x, y \in S : x < y => rank[x] < rank[y]
      /\ \A g \in 0..(n - 1) : \E x \in S : rank[x] = g
  BY <1>1, <1>2, RankNumbers
<1>4. \A r \in S : Cardinality({q \in S : q <= r}) = rank[r] + 1
  <2> SUFFICES ASSUME NEW r \in S PROVE Cardinality({q \in S : q <= r}) = rank[r] + 1
    OBVIOUS
  <2>1. PICK B : B = {q \in S : q < r}
    OBVIOUS
  <2>2. IsFiniteSet(B) /\ r \notin B
    BY <2>1, FS_Subset
  <2>3. {q \in S : q <= r} = B \cup {r}
    <3>1. r \in Nat /\ \A q \in S : q \in Nat
      OBVIOUS
    <3>2. \A q \in S : q <= r <=> q < r \/ q = r
      BY <3>1
    <3>3. QED
      BY <2>1, <3>1, <3>2
  <2>4. QED
    BY <1>1, <2>1, <2>2, <2>3, FS_AddElement
<1>5. ASSUME NEW i \in 1..n
      PROVE  /\ Ascending(S)[i] \in S /\ rank[Ascending(S)[i]] + 1 = i
             /\ Cardinality({q \in S : q <= Ascending(S)[i]}) = i
  <2>1. i - 1 \in 0..(n - 1)
    BY <1>3
  <2>2. PICK x \in S : rank[x] = i - 1
    BY <1>3, <2>1
  <2>3. Cardinality({q \in S : q <= x}) = i
    BY <1>3, <1>4, <2>2
  <2>4. Ascending(S)[i] = CHOOSE r \in S : Cardinality({q \in S : q <= r}) = i
    BY <1>2 DEF Ascending
  <2>5. Ascending(S)[i] \in S /\ Cardinality({q \in S : q <= Ascending(S)[i]}) = i
    BY <2>3, <2>4
  <2>6. QED
    BY <1>4, <2>5
<1>6. ASSUME NEW r \in S
      PROVE  rank[r] + 1 \in 1..n /\ Ascending(S)[rank[r] + 1] = r
  <2>1. rank[r] \in 0..(n - 1) /\ rank[r] + 1 \in 1..n
    BY <1>3
  <2>2. PICK q \in S : q = Ascending(S)[rank[r] + 1] /\ rank[q] + 1 = rank[r] + 1
    BY <1>5, <2>1
  <2>3. rank[q] \in Int /\ rank[r] \in Int /\ q \in Nat /\ r \in Nat
    BY <1>3
  <2>4. q = r
    BY <1>3, <2>2, <2>3
  <2>5. QED
    BY <2>1, <2>2, <2>4
<1>7. QED
  BY <1>2, <1>3, <1>4, <1>5, <1>6

\* The operands of the reference, node by node.
LEMMA IeeeEquation ==
  ASSUME Len(case.predicate) \in Nat, NEW r
  PROVE  IeeeStacks(r) = [i \in 0..Len(case.predicate) |->
           IF i = 0 THEN <<>> ELSE IeeePush(IeeeStacks(r)[i - 1], case.predicate[i], r)]
<1> DEFINE Pushes(h, m) == h = [i \in 0..m |->
             IF i = 0 THEN <<>> ELSE IeeePush(h[i - 1], case.predicate[i], r)]
           G == {m \in Nat : \E h : Pushes(h, m)}
<1>1. 0 \in G
  <2>1. Pushes([n \in {0} |-> <<>>], 0)
    OBVIOUS
  <2>2. QED
    BY <2>1
<1>2. ASSUME NEW m \in G PROVE m + 1 \in G
  <2>1. PICK h : Pushes(h, m)
    BY <1>2
  <2> DEFINE longer == [i \in 0..(m + 1) |->
               IF i = m + 1 THEN IeeePush(h[m], case.predicate[m + 1], r) ELSE h[i]]
  <2>2. Pushes(longer, m + 1)
    BY <2>1
  <2>3. \E g : Pushes(g, m + 1)
    <3> HIDE DEF longer, Pushes
    <3>1. QED
      BY <2>2
  <2> HIDE DEF longer, Pushes
  <2>4. QED
    BY <2>3
<1>3. G = Nat
  <2>1. G \in SUBSET Nat
    OBVIOUS
  <2> HIDE DEF G
  <2>2. QED
    BY <1>1, <1>2, <2>1, NumberInduction
<1>4. \E h : Pushes(h, Len(case.predicate))
  BY <1>3
<1>5. QED
  BY <1>4 DEF IeeeStacks

LEMMA IeeeStep ==
  ASSUME Len(case.predicate) \in Nat, NEW r
  PROVE  /\ IeeeStacks(r)[0] = <<>>
         /\ \A i \in 1..Len(case.predicate) :
              IeeeStacks(r)[i] = IeeePush(IeeeStacks(r)[i - 1], case.predicate[i], r)
<1>1. \A i \in 0..Len(case.predicate) : IeeeStacks(r)[i] =
        IF i = 0 THEN <<>> ELSE IeeePush(IeeeStacks(r)[i - 1], case.predicate[i], r)
  BY IeeeEquation
<1>2. QED
  BY <1>1

-----------------------------------------------------------------------------
\* The case of a Filter that runs.
Selecting == case \in Cases /\ case.predicate # <<>> /\ Lowered

\* What IsCase says of the case at hand.
LEMMA CaseFacts ==
  ASSUME Selecting
  PROVE  /\ IsCase(case) /\ case.height \in Nat /\ Rows = 1..case.height
         /\ Len(case.predicate) \in Nat /\ DOMAIN case.predicate = 1..Len(case.predicate)
         /\ IsPostfix(case.predicate)
         /\ \A x \in Names : /\ case.frame[x].offset \in Nat
                             /\ Len(case.frame[x].parent) \in Nat
                             /\ DOMAIN case.frame[x].parent = 1..Len(case.frame[x].parent)
                             /\ case.frame[x].offset + case.height <= Len(case.frame[x].parent)
<1>1. IsCase(case)
  BY CaseAssumption DEF Selecting
<1>2. \A s : IsSequence(s) => Len(s) \in Nat /\ DOMAIN s = 1..Len(s)
  BY DEF IsSequence
<1>3. QED
  BY <1>1, <1>2 DEF IsCase, Selecting, Names, Rows

\* A row of a column is an element of the parent of its slice.
LEMMA ValueInParent ==
  ASSUME Selecting, NEW x \in Names, NEW r \in Rows
  PROVE  /\ case.frame[x].offset + r \in DOMAIN case.frame[x].parent
         /\ Materialize(x)[r] = Value(x, r)
<1>1. /\ case.frame[x].offset \in Nat /\ Len(case.frame[x].parent) \in Nat
      /\ DOMAIN case.frame[x].parent = 1..Len(case.frame[x].parent)
      /\ case.frame[x].offset + case.height <= Len(case.frame[x].parent)
      /\ r \in 1..case.height /\ case.height \in Nat
  BY CaseFacts
<1>2. case.frame[x].offset + r \in DOMAIN case.frame[x].parent
  BY <1>1
<1>3. Materialize(x)[r] = case.frame[x].parent[case.frame[x].offset + r]
  <2>1. PICK s, f : s = case.frame[x].parent /\ f = case.frame[x].offset
    OBVIOUS
  <2>2. f \in Nat
    BY <1>1, <2>1
  <2>3. \A j \in (f + 1)..(f + case.height) : s[j] \in {s[i] : i \in DOMAIN s}
    BY <1>1, <2>1, <2>2
  <2>4. r \in 1..((f + case.height) - (f + 1) + 1) /\ (f + 1) + r - 1 = f + r
    BY <1>1, <2>2
  <2>5. SubSeq(s, f + 1, f + case.height)[r] = s[f + r]
    BY <1>1, <2>2, <2>3, <2>4, SubSeqProperties
  <2>6. QED
    BY <2>1, <2>5 DEF Materialize
<1>4. QED
  BY <1>2, <1>3 DEF Value

\* A leaf that is not null is a value of its kernel dtype on every row.
LEMMA LeafTypes ==
  ASSUME Selecting, NEW o, o.kind \in {"Column", "Literal"}, TypedLeaf(case, o), NEW r \in Rows
  PROVE  /\ LeafValue(o, r) # Null => IsValue(LeafDtype(o), LeafValue(o, r))
         /\ ~IsLiteral(o) => o.name \in Names
<1>1. CASE IsLiteral(o)
  BY <1>1 DEF TypedLeaf, LeafValue, LeafDtype
<1>2. CASE ~IsLiteral(o)
  <2>1. /\ o.name \in Names
        /\ \A i \in DOMAIN case.frame[o.name].parent :
             case.frame[o.name].parent[i] # Null
               => IsValue(Widened(case.frame[o.name].dtype), case.frame[o.name].parent[i])
    BY <1>2 DEF TypedLeaf, Names
  <2>2. Value(o.name, r) # Null => IsValue(LeafDtype(o), Value(o.name, r))
    BY <1>2, <2>1, ValueInParent DEF Value, LeafDtype, Dtype
  <2>3. QED
    BY <1>2, <2>1, <2>2 DEF LeafValue
<1>3. QED
  BY <1>1, <1>2

\* A Boolean column holds three-valued truth.
LEMMA BooleanColumn ==
  ASSUME Selecting, NEW x \in Names, Dtype(x) = "Bool", NEW r \in Rows
  PROVE  Value(x, r) \in Kleene
<1>1. PICK o : o = [kind |-> "Column", name |-> x]
  OBVIOUS
<1>2. TypedLeaf(case, o)
  BY <1>1, CaseFacts DEF IsCase, Names, Dtype
<1>3. o.kind = "Column" /\ ~IsLiteral(o) /\ o.name = x
  BY <1>1 DEF IsLiteral
<1>4. LeafValue(o, r) = Value(x, r) /\ LeafDtype(o) = "Bool"
  BY <1>3 DEF LeafValue, LeafDtype, Widened
<1>5. Value(x, r) # Null => IsValue("Bool", Value(x, r))
  BY <1>2, <1>3, <1>4, LeafTypes
<1>6. QED
  BY <1>5 DEF IsValue, Kleene

\* The leaves of a comparison that runs: of one kernel dtype, a column or a literal that is
\* not null, and one of them a column.
LEMMA CompareTypes ==
  ASSUME Selecting, NEW i \in 1..Len(case.predicate), case.predicate[i].kind = "Compare",
         NEW n, n = case.predicate[i]
  PROVE  /\ n.op \in {"Eq", "Ne", "Lt", "Le", "Gt", "Ge"}
         /\ n.lhs.kind \in {"Column", "Literal"} /\ n.rhs.kind \in {"Column", "Literal"}
         /\ TypedLeaf(case, n.lhs) /\ TypedLeaf(case, n.rhs)
         /\ LeafDtype(n.lhs) = LeafDtype(n.rhs) /\ LeafDtype(n.lhs) \in {"I64", "F64"}
         /\ IsLiteral(n.lhs) => n.lhs.value # Null
         /\ IsLiteral(n.rhs) => n.rhs.value # Null
         /\ ~(IsLiteral(n.lhs) /\ IsLiteral(n.rhs))
<1>1. i \in DOMAIN case.predicate /\ n.kind = "Compare"
  BY CaseFacts
<1>2. /\ n.op \in {"Eq", "Ne", "Lt", "Le", "Gt", "Ge"}
      /\ TypedLeaf(case, n.lhs) /\ TypedLeaf(case, n.rhs)
  BY <1>1, CaseFacts DEF IsCase
<1>3. Comparable(n)
  BY <1>1 DEF Selecting, Lowered, InClosedSet
<1>4. QED
  BY <1>2, <1>3 DEF Comparable

\* The nodes the walker admits, and the operands a connective finds.
LEMMA NodeKinds ==
  ASSUME Selecting, NEW i \in 1..Len(case.predicate), NEW n, n = case.predicate[i]
  PROVE  /\ n.kind \in {"Column", "Compare", "And", "Or"}
         /\ IsConnective(n) <=> n.kind \in {"And", "Or"}
         /\ IsConnective(n) => Depth(case.predicate, i - 1) >= 2
         /\ n.kind = "Column" => n.name \in Names /\ Dtype(n.name) = "Bool"
<1>1. i \in DOMAIN case.predicate
  BY CaseFacts
<1>2. InClosedSet(n)
  BY <1>1 DEF Selecting, Lowered
<1>3. n.kind = "Column" => TypedLeaf(case, n)
  BY <1>1, CaseFacts DEF IsCase
<1>4. n.kind = "Column" => n.name \in Names
  BY <1>3 DEF TypedLeaf, IsLiteral, Names
<1>5. IsConnective(n) => Depth(case.predicate, i - 1) >= 2
  BY <1>1, CaseFacts DEF IsPostfix
<1>6. QED
  BY <1>2, <1>4, <1>5 DEF InClosedSet, IsConnective

\* Comparisons of what the leaves are.
LEMMA IeeeComparedLeaves ==
  ASSUME NEW n, NEW r, NEW u, NEW v, u = LeafValue(n.lhs, r), v = LeafValue(n.rhs, r)
  PROVE  IeeeCompared(n, r) =
           IF u = Null \/ v = Null THEN Null
           ELSE IF LeafDtype(n.lhs) = "F64" THEN IeeeCompare(n.op, u, v) ELSE Order(n.op, u, v)
BY DEF IeeeCompared, LeafValue

\* A comparison of the reference is true, false or null.
LEMMA ComparedType ==
  ASSUME Selecting, NEW i \in 1..Len(case.predicate), case.predicate[i].kind = "Compare",
         NEW n, n = case.predicate[i], NEW r \in Rows
  PROVE  IeeeCompared(n, r) \in Kleene
<1>1. /\ n.op \in {"Eq", "Ne", "Lt", "Le", "Gt", "Ge"}
      /\ n.lhs.kind \in {"Column", "Literal"} /\ n.rhs.kind \in {"Column", "Literal"}
      /\ TypedLeaf(case, n.lhs) /\ TypedLeaf(case, n.rhs)
      /\ LeafDtype(n.lhs) = LeafDtype(n.rhs) /\ LeafDtype(n.lhs) \in {"I64", "F64"}
  BY CompareTypes
<1>2. PICK u, v : u = LeafValue(n.lhs, r) /\ v = LeafValue(n.rhs, r)
  OBVIOUS
<1>3. PICK tag \in {"I64", "F64"} : tag = LeafDtype(n.lhs) /\ tag = LeafDtype(n.rhs)
  BY <1>1
<1>4. (u # Null => IsValue(tag, u)) /\ (v # Null => IsValue(tag, v))
  BY <1>1, <1>2, <1>3, LeafTypes
<1>5. IeeeCompared(n, r) = IF u = Null \/ v = Null THEN Null
        ELSE IF tag = "F64" THEN IeeeCompare(n.op, u, v) ELSE Order(n.op, u, v)
  <2>1. IeeeCompared(n, r) =
          IF u = Null \/ v = Null THEN Null
          ELSE IF LeafDtype(n.lhs) = "F64" THEN IeeeCompare(n.op, u, v) ELSE Order(n.op, u, v)
    BY <1>2, IeeeComparedLeaves
  <2>2. QED
    BY <1>3, <2>1
<1>6. CASE u = Null \/ v = Null
  BY <1>5, <1>6 DEF Kleene
<1>7. CASE u # Null /\ v # Null /\ tag = "F64"
  <2>1. u \in Floats /\ v \in Floats
    BY <1>4, <1>7 DEF IsValue
  <2>2. IeeeCompare(n.op, u, v) \in BOOLEAN
    BY <1>1, <2>1, ComparesNumbers, FloatCompareBoolean
  <2>3. QED
    BY <1>5, <1>7, <2>2 DEF Kleene
<1>8. CASE u # Null /\ v # Null /\ tag = "I64"
  <2>1. u \in Int /\ v \in Int
    BY <1>4, <1>8 DEF IsValue
  <2>2. Order(n.op, u, v) \in BOOLEAN
    BY <1>1, <2>1, OrderBoolean
  <2>3. QED
    BY <1>5, <1>8, <2>2 DEF Kleene
<1>9. QED
  BY <1>6, <1>7, <1>8

LEMMA KleeneLogicalType ==
  ASSUME NEW op \in {"And", "Or"}, NEW x \in Kleene, NEW y \in Kleene
  PROVE  KleeneLogical(op, x, y) \in Kleene
<1>1. (op = "Or") \in BOOLEAN /\ (op = "And") \in BOOLEAN
  OBVIOUS
<1>2. QED
  BY <1>1, Zenon DEF KleeneLogical, Kleene

\* How many of the first i numbers are in T.
UpTo(T, i) == {j \in 1..i : j \in T}

\* One more index is one more element, if it is one.
LEMMA CountStep ==
  ASSUME NEW T
  PROVE  /\ \A i \in Nat : Cardinality(UpTo(T, i)) \in Nat
         /\ Cardinality(UpTo(T, 0)) = 0
         /\ \A i \in Nat \ {0} :
              Cardinality(UpTo(T, i)) = Cardinality(UpTo(T, i - 1)) + (IF i \in T THEN 1 ELSE 0)
<1>1. \A k \in Nat : IsFiniteSet(UpTo(T, k)) /\ Cardinality(UpTo(T, k)) \in Nat
  <2> TAKE k \in Nat
  <2>1. IsFiniteSet(1..k) /\ UpTo(T, k) \subseteq 1..k
    BY FS_Interval DEF UpTo
  <2>2. QED
    BY <2>1, FS_Subset, FS_CardinalityType
<1>2. UpTo(T, 0) = {}
  BY DEF UpTo
<1>3. Cardinality(UpTo(T, 0)) = 0
  BY <1>2, FS_EmptySet
<1>4. ASSUME NEW i \in Nat \ {0}
      PROVE  Cardinality(UpTo(T, i)) = Cardinality(UpTo(T, i - 1)) + (IF i \in T THEN 1 ELSE 0)
  <2>1. i - 1 \in Nat /\ \A j : j \in 1..i <=> j \in 1..(i - 1) \/ j = i
    OBVIOUS
  <2>2. CASE i \in T
    <3>1. UpTo(T, i) = UpTo(T, i - 1) \cup {i} /\ i \notin UpTo(T, i - 1)
      BY <2>1, <2>2 DEF UpTo
    <3>2. QED
      BY <1>1, <2>1, <2>2, <3>1, FS_AddElement
  <2>3. CASE i \notin T
    <3>1. UpTo(T, i) = UpTo(T, i - 1)
      BY <2>1, <2>3 DEF UpTo
    <3>2. QED
      BY <1>1, <2>1, <2>3, <3>1
  <2>4. QED
    BY <2>2, <2>3
<1>5. QED
  BY <1>1, <1>3, <1>4

\* A leaf or a comparison leaves an operand more, a connective one less.
LEMMA DepthStep ==
  ASSUME NEW p, Len(p) \in Nat
  PROVE  /\ Depth(p, 0) = 0
         /\ \A i \in 0..Len(p) : Depth(p, i) \in Int
         /\ \A i \in 1..Len(p) :
              Depth(p, i) = Depth(p, i - 1) + (IF IsConnective(p[i]) THEN -1 ELSE 1)
<1>0. PICK down, up : /\ down = {j \in 1..Len(p) : IsConnective(p[j])}
                      /\ up   = {j \in 1..Len(p) : ~IsConnective(p[j])}
  OBVIOUS
<1>1. \A i \in 0..Len(p) : Depth(p, i) = Cardinality(UpTo(up, i)) - Cardinality(UpTo(down, i))
  <2> TAKE i \in 0..Len(p)
  <2>1. \A j \in 1..i : j \in 1..Len(p)
    OBVIOUS
  <2>2. /\ {j \in 1..i : ~IsConnective(p[j])} = UpTo(up, i)
        /\ {j \in 1..i : IsConnective(p[j])} = UpTo(down, i)
    BY <1>0, <2>1 DEF UpTo
  <2>3. QED
    BY <2>2 DEF Depth
<1>2. \A i \in 1..Len(p) : (i \in down <=> IsConnective(p[i])) /\ (i \in up <=> ~IsConnective(p[i]))
  BY <1>0
<1>3. /\ \A i \in Nat : Cardinality(UpTo(up, i)) \in Nat
      /\ Cardinality(UpTo(up, 0)) = 0
      /\ \A i \in Nat \ {0} :
           Cardinality(UpTo(up, i)) = Cardinality(UpTo(up, i - 1)) + (IF i \in up THEN 1 ELSE 0)
  BY CountStep
<1>4. /\ \A i \in Nat : Cardinality(UpTo(down, i)) \in Nat
      /\ Cardinality(UpTo(down, 0)) = 0
      /\ \A i \in Nat \ {0} :
           Cardinality(UpTo(down, i)) = Cardinality(UpTo(down, i - 1)) + (IF i \in down THEN 1 ELSE 0)
  BY CountStep
<1>5. Depth(p, 0) = 0 /\ \A i \in 0..Len(p) : Depth(p, i) \in Int
  BY <1>1, <1>3, <1>4
<1>6. ASSUME NEW i \in 1..Len(p)
      PROVE  Depth(p, i) = Depth(p, i - 1) + (IF IsConnective(p[i]) THEN -1 ELSE 1)
  <2>1. i \in 0..Len(p) /\ i - 1 \in 0..Len(p) /\ i \in Nat \ {0} /\ i - 1 \in Nat
    OBVIOUS
  <2>2. PICK u, v, w, x : /\ u = Cardinality(UpTo(up, i)) /\ v = Cardinality(UpTo(down, i))
                          /\ w = Cardinality(UpTo(up, i - 1)) /\ x = Cardinality(UpTo(down, i - 1))
    OBVIOUS
  <2>3. /\ u = w + (IF i \in up THEN 1 ELSE 0) /\ v = x + (IF i \in down THEN 1 ELSE 0)
        /\ w \in Nat /\ x \in Nat
        /\ Depth(p, i) = u - v /\ Depth(p, i - 1) = w - x
    BY <1>1, <1>3, <1>4, <2>1, <2>2
  <2>4. QED
    BY <1>2, <2>3
<1>7. QED
  BY <1>5, <1>6

\* The reference finds as many operands as the nodes leave, and they are truth values.
LEMMA TruthTypes ==
  ASSUME Selecting, NEW r \in Rows
  PROVE  \A i \in 0..Len(case.predicate) :
           /\ IeeeStacks(r)[i] \in Seq(Kleene)
           /\ Len(IeeeStacks(r)[i]) = Depth(case.predicate, i)
<1> DEFINE P == case.predicate
           K == IeeeStacks(r)
           Right(i) == K[i] \in Seq(Kleene) /\ Len(K[i]) = Depth(P, i)
           G == {i \in Nat : i <= Len(P) => Right(i)}
<1>0. Len(P) \in Nat
  BY CaseFacts
<1>1. 0 \in G
  <2>1. K[0] = <<>> /\ Depth(P, 0) = 0
    BY <1>0, IeeeStep, DepthStep
  <2>2. <<>> \in Seq(Kleene) /\ Len(<<>>) = 0
    OBVIOUS
  <2>3. QED
    BY <2>1, <2>2
<1>2. ASSUME NEW m \in G PROVE m + 1 \in G
  <2> SUFFICES ASSUME m + 1 <= Len(P) PROVE Right(m + 1)
    OBVIOUS
  <2>1. PICK i \in 1..Len(P) : i = m + 1
    BY <1>0, <1>2
  <2>2. PICK st : st = K[i - 1]
    OBVIOUS
  <2>3. st \in Seq(Kleene) /\ Len(st) = Depth(P, i - 1)
    BY <1>0, <1>2, <2>1, <2>2
  <2>4. PICK n : n = P[i]
    OBVIOUS
  <2>5. K[i] = IeeePush(st, n, r)
    BY <1>0, <2>2, <2>4, IeeeStep
  <2>6. Depth(P, i) = Depth(P, i - 1) + (IF IsConnective(n) THEN -1 ELSE 1)
    BY <1>0, <2>4, DepthStep
  <2>7. /\ n.kind \in {"Column", "Compare", "And", "Or"}
        /\ IsConnective(n) <=> n.kind \in {"And", "Or"}
        /\ IsConnective(n) => Depth(P, i - 1) >= 2
        /\ n.kind = "Column" => n.name \in Names /\ Dtype(n.name) = "Bool"
    BY <2>4, NodeKinds
  <2>8. CASE n.kind = "Column"
    <3>1. Value(n.name, r) \in Kleene
      BY <2>7, <2>8, BooleanColumn
    <3>2. K[i] = Append(st, Value(n.name, r))
      BY <2>5, <2>8 DEF IeeePush
    <3>3. QED
      BY <2>1, <2>3, <2>6, <2>7, <2>8, <3>1, <3>2
  <2>9. CASE n.kind = "Compare"
    <3>1. IeeeCompared(n, r) \in Kleene
      BY <2>4, <2>9, ComparedType
    <3>2. K[i] = Append(st, IeeeCompared(n, r))
      BY <2>5, <2>9 DEF IeeePush
    <3>3. QED
      BY <2>1, <2>3, <2>6, <2>7, <2>9, <3>1, <3>2
  <2>10. CASE n.kind \in {"And", "Or"}
    <3>1. PICK d \in Nat : d = Len(st) /\ d >= 2
      BY <2>3, <2>7, <2>10
    <3>2. st[d - 1] \in Kleene /\ st[d] \in Kleene
      BY <2>3, <3>1
    <3>3. KleeneLogical(n.kind, st[d - 1], st[d]) \in Kleene
      BY <2>10, <3>2, KleeneLogicalType
    <3>4. K[i] = Append(SubSeq(st, 1, d - 2), KleeneLogical(n.kind, st[d - 1], st[d]))
      BY <2>5, <2>10, <3>1 DEF IeeePush
    <3>5. SubSeq(st, 1, d - 2) \in Seq(Kleene) /\ Len(SubSeq(st, 1, d - 2)) = d - 2
      BY <2>3, <3>1
    <3>6. QED
      BY <2>1, <2>3, <2>6, <2>7, <2>10, <3>1, <3>3, <3>4, <3>5
  <2>11. QED
    BY <2>7, <2>8, <2>9, <2>10
<1>3. G = Nat
  <2>1. G \in SUBSET Nat
    OBVIOUS
  <2> HIDE DEF G
  <2>2. QED
    BY <1>1, <1>2, <2>1, NumberInduction
<1>4. QED
  BY <1>0, <1>3

-----------------------------------------------------------------------------
\* The kernels that evaluate nodes.

LEMMA SetBitIfRow ==
  ASSUME NEW R, NEW r \in R, NEW bits \in [R -> BOOLEAN], ~bits[r], NEW b \in BOOLEAN
  PROVE  /\ SetBitIf(bits, r, b) \in [R -> BOOLEAN] /\ SetBitIf(bits, r, b)[r] = b
         /\ \A q \in R \ {r} : SetBitIf(bits, r, b)[q] = bits[q]
<1>1. bits[r] = FALSE
  OBVIOUS
<1>2. CASE b = TRUE
  BY <1>2 DEF SetBitIf, SetBit
<1>3. CASE b = FALSE
  BY <1>1, <1>3 DEF SetBitIf
<1>4. QED
  BY <1>2, <1>3

\* A thread that writes its row.
LEMMA WrittenRow ==
  ASSUME NEW R, NEW r \in R, NEW o \in Bitmaps(R), Blank(o, r), NEW b \in BOOLEAN,
         NEW w, w = [data |-> SetBitIf(o.data, r, b), valid |-> SetBit(o.valid, r)]
  PROVE  /\ w \in Bitmaps(R) /\ w.valid[r] /\ (w.data[r] <=> b)
         /\ \A q \in R \ {r} : SameRow(w, o, q)
<1>1. o.data \in [R -> BOOLEAN] /\ o.valid \in [R -> BOOLEAN] /\ ~o.data[r]
  BY DEF Bitmaps, Blank
<1>2. /\ SetBitIf(o.data, r, b) \in [R -> BOOLEAN] /\ SetBit(o.valid, r) \in [R -> BOOLEAN]
      /\ SetBit(o.valid, r)[r] = TRUE /\ SetBitIf(o.data, r, b)[r] = b
      /\ \A q \in R \ {r} : SetBit(o.valid, r)[q] = o.valid[q]
      /\ \A q \in R \ {r} : SetBitIf(o.data, r, b)[q] = o.data[q]
  <2>1. PICK d, v : d = o.data /\ v = o.valid
    OBVIOUS
  <2>2. /\ SetBitIf(d, r, b) \in [R -> BOOLEAN] /\ SetBitIf(d, r, b)[r] = b
        /\ \A q \in R \ {r} : SetBitIf(d, r, b)[q] = d[q]
    BY <1>1, <2>1, SetBitIfRow
  <2>3. /\ SetBit(v, r) \in [R -> BOOLEAN] /\ SetBit(v, r)[r] = TRUE
        /\ \A q \in R \ {r} : SetBit(v, r)[q] = v[q]
    BY <1>1, <2>1 DEF SetBit
  <2>4. QED
    BY <1>1, <2>1, <2>2, <2>3
<1>3. w.data = SetBitIf(o.data, r, b) /\ w.valid = SetBit(o.valid, r)
  OBVIOUS
<1>4. w \in Bitmaps(R)
  BY <1>2 DEF Bitmaps
<1>5. QED
  BY <1>2, <1>3, <1>4 DEF SameRow

\* A thread of a comparison, of which k is the truth.
LEMMA CompareRowTells ==
  ASSUME NEW R, NEW r \in R, NEW o \in Bitmaps(R), Blank(o, r), NEW l,
         NEW k \in Kleene, NEW holds \in BOOLEAN,
         l.lhs.valid[r] /\ RhsValid(l, r) <=> k # Null, k # Null => holds = k
  PROVE  /\ CompareRow(l, r, o, holds) \in Bitmaps(R)
         /\ Tells(CompareRow(l, r, o, holds), r, k)
         /\ \A q \in R \ {r} : SameRow(CompareRow(l, r, o, holds), o, q)
<1>1. CASE k = Null
  <2>1. CompareRow(l, r, o, holds) = o
    BY <1>1 DEF CompareRow
  <2>2. QED
    BY <1>1, <2>1 DEF Tells, Blank, SameRow
<1>2. CASE k # Null
  <2>1. PICK w : w = [data |-> SetBitIf(o.data, r, holds), valid |-> SetBit(o.valid, r)]
    OBVIOUS
  <2>2. CompareRow(l, r, o, holds) = w
    BY <1>2, <2>1 DEF CompareRow
  <2>3. /\ w \in Bitmaps(R) /\ w.valid[r] /\ (w.data[r] <=> holds)
        /\ \A q \in R \ {r} : SameRow(w, o, q)
    BY <2>1, WrittenRow
  <2>4. QED
    BY <1>2, <2>2, <2>3 DEF Tells
<1>3. QED
  BY <1>1, <1>2

\* What a kernel finds in the buffers of a column.
LEMMA StagedColumn ==
  ASSUME Selecting, NEW x \in Names, NEW r \in Rows
  PROVE  /\ DataAndValid(x).valid[r] <=> Value(x, r) # Null
         /\ Value(x, r) # Null => DataAndValid(x).data[r] = Value(x, r)
<1>1. Materialize(x)[r] = Value(x, r)
  BY ValueInParent
<1>2. /\ DataAndValid(x).data = [q \in Rows |-> Slot(Materialize(x)[q], Dtype(x))]
      /\ DataAndValid(x).valid = [q \in Rows |-> Materialize(x)[q] # Null]
  BY DEF DataAndValid
<1>3. DataAndValid(x).data[r] = Slot(Value(x, r), Dtype(x))
  BY <1>1, <1>2
<1>4. DataAndValid(x).valid[r] = (Value(x, r) # Null)
  BY <1>1, <1>2
<1>5. QED
  BY <1>3, <1>4 DEF Slot

\* _SWAP_COMPARE_OP turns every comparison around.
LEMMA MirrorCompares ==
  ASSUME NEW op \in {"Eq", "Ne", "Lt", "Le", "Gt", "Ge"}
  PROVE  /\ Mirror(op) \in {"Eq", "Ne", "Lt", "Le", "Gt", "Ge"}
         /\ \A u, v \in Int : Order(Mirror(op), v, u) = Order(op, u, v)
         /\ \A u, v \in Floats : IeeeCompare(Mirror(op), v, u) = IeeeCompare(op, u, v)
<1>1. Mirror(op) \in {"Eq", "Ne", "Lt", "Le", "Gt", "Ge"} /\ (Mirror(op) = "Ne" <=> op = "Ne")
  BY DEF Mirror
<1>2. ASSUME NEW u \in Int, NEW v \in Int PROVE Order(Mirror(op), v, u) = Order(op, u, v)
  <2>1. Order(Mirror(op), v, u) <=> Order(op, u, v)
    BY DEF Mirror, Order
  <2>2. Order(Mirror(op), v, u) \in BOOLEAN /\ Order(op, u, v) \in BOOLEAN
    BY <1>1, OrderBoolean
  <2>3. QED
    BY <2>1, <2>2, EqualBooleans
<1>3. ASSUME NEW u \in Floats, NEW v \in Floats
      PROVE  IeeeCompare(Mirror(op), v, u) = IeeeCompare(op, u, v)
  <2>1. CASE IsNan(u) \/ IsNan(v)
    <3>1. IeeeCompare(Mirror(op), v, u) = (Mirror(op) = "Ne") /\ IeeeCompare(op, u, v) = (op = "Ne")
      BY <2>1 DEF IeeeCompare
    <3>2. QED
      BY <1>1, <3>1
  <2>2. CASE ~(IsNan(u) \/ IsNan(v))
    <3>1. Denotation(u) \in Int /\ Denotation(v) \in Int
      BY DenotationOrder
    <3>2. Order(Mirror(op), Denotation(v), Denotation(u)) = Order(op, Denotation(u), Denotation(v))
      BY <1>2, <3>1
    <3>3. QED
      BY <2>2, <3>2 DEF IeeeCompare
  <2>3. QED
    BY <2>1, <2>2
<1>4. QED
  BY <1>1, <1>2, <1>3

\* A bitmap holds the truth value v where it tells v, and holds it in no other way.
LEMMA HoldsWhatItTells ==
  ASSUME NEW R, NEW r \in R, NEW b \in Bitmaps(R), NEW k \in Kleene, Tells(b, r, k), NEW v \in BOOLEAN
  PROVE  (b.valid[r] /\ b.data[r] = v) <=> k = v
<1>1. PICK d \in BOOLEAN, w \in BOOLEAN : d = b.data[r] /\ w = b.valid[r]
  <2>1. b.data[r] \in BOOLEAN /\ b.valid[r] \in BOOLEAN
    BY DEF Bitmaps
  <2>2. QED
    BY <2>1
<1>2. (w <=> k # Null) /\ (w => (d <=> k = TRUE))
  BY <1>1 DEF Tells
<1>3. Null \notin BOOLEAN
  BY CaseAssumption
<1>4. (w /\ d = v) <=> k = v
  BY <1>2, <1>3 DEF Kleene
<1>5. QED
  BY <1>1, <1>4

\* bool_and and bool_or are Kleene's.
LEMMA LogicalRowTells ==
  ASSUME NEW R, NEW r \in R, NEW o \in Bitmaps(R), Blank(o, r), NEW op \in {"And", "Or"},
         NEW p \in Bitmaps(R), NEW q \in Bitmaps(R), NEW x \in Kleene, NEW y \in Kleene,
         Tells(p, r, x), Tells(q, r, y), NEW l, l = Logical(op, p, q)
  PROVE  /\ LogicalRow(l, r, o) \in Bitmaps(R)
         /\ Tells(LogicalRow(l, r, o), r, KleeneLogical(op, x, y))
         /\ \A s \in R \ {r} : SameRow(LogicalRow(l, r, o), o, s)
<1>1. l.op = op /\ l.lhs = p /\ l.rhs = q
  BY DEF Logical
<1>2. PICK d \in BOOLEAN : d = (op = "Or")
  OBVIOUS
<1>3. ~d = (op = "And")
  BY <1>2
<1>4. /\ p.valid[r] /\ p.data[r] = d <=> x = d
      /\ q.valid[r] /\ q.data[r] = d <=> y = d
      /\ p.valid[r] <=> x # Null
      /\ q.valid[r] <=> y # Null
      /\ Null \notin BOOLEAN
  <2>1. p.valid[r] /\ p.data[r] = d <=> x = d
    BY HoldsWhatItTells
  <2>2. q.valid[r] /\ q.data[r] = d <=> y = d
    BY HoldsWhatItTells
  <2>3. QED
    BY <2>1, <2>2, CaseAssumption DEF Tells
<1> DEFINE wrote(b) == [data |-> SetBitIf(o.data, r, b), valid |-> SetBit(o.valid, r)]
<1>5. LogicalRow(l, r, o) = IF x = d \/ y = d THEN wrote(d)
                            ELSE IF x # Null /\ y # Null THEN wrote(~d) ELSE o
  BY <1>1, <1>2, <1>4, Zenon DEF LogicalRow
<1>6. KleeneLogical(op, x, y) = IF x = d \/ y = d THEN d
                                ELSE IF x # Null /\ y # Null THEN ~d ELSE Null
  BY <1>2, <1>3 DEF KleeneLogical
<1>7. \A b \in BOOLEAN : /\ wrote(b) \in Bitmaps(R) /\ wrote(b).valid[r] /\ (wrote(b).data[r] <=> b)
                         /\ \A s \in R \ {r} : SameRow(wrote(b), o, s)
  BY WrittenRow
<1>8. \A b \in BOOLEAN : Tells(wrote(b), r, b)
  <2> TAKE b \in BOOLEAN
  <2>1. PICK w : w = wrote(b)
    OBVIOUS
  <2>2. w.valid[r] /\ (w.data[r] <=> b)
    BY <1>7, <2>1
  <2>3. Tells(w, r, b)
    BY <1>4, <2>2 DEF Tells
  <2>4. QED
    BY <2>1, <2>3
<1> HIDE DEF wrote
<1>9. CASE x = d \/ y = d
  BY <1>5, <1>6, <1>7, <1>8, <1>9
<1>10. CASE ~(x = d \/ y = d) /\ x # Null /\ y # Null
  <2>1. PICK b \in BOOLEAN : b = ~d
    OBVIOUS
  <2>2. LogicalRow(l, r, o) = wrote(b)
    BY <1>5, <1>10, <2>1, Zenon
  <2>3. KleeneLogical(op, x, y) = b
    BY <1>6, <1>10, <2>1, Zenon
  <2>4. QED
    BY <1>7, <1>8, <2>2, <2>3
<1>11. CASE ~(x = d \/ y = d) /\ ~(x # Null /\ y # Null)
  <2>1. LogicalRow(l, r, o) = o /\ KleeneLogical(op, x, y) = Null
    BY <1>5, <1>6, <1>11
  <2>2. Tells(o, r, Null) /\ \A s \in R \ {r} : SameRow(o, o, s)
    BY DEF Tells, Blank, SameRow
  <2>3. QED
    BY <2>1, <2>2
<1>12. QED
  BY <1>9, <1>10, <1>11

\* A logical kernel computes the connective, on operands told by its bitmaps.
LEMMA LogicalComputes ==
  ASSUME NEW R, NEW r \in R, NEW op \in {"And", "Or"}, NEW p \in Bitmaps(R), NEW q \in Bitmaps(R),
         NEW x \in Kleene, NEW y \in Kleene, Tells(p, r, x), Tells(q, r, y)
  PROVE  Computes(R, Logical(op, p, q), r, KleeneLogical(op, x, y))
<1>1. PICK l : l = Logical(op, p, q)
  OBVIOUS
<1>2. l.kernel = "logical"
  BY <1>1 DEF Logical
<1>3. \A o : NodeRow(l, r, o) = LogicalRow(l, r, o)
  BY <1>2 DEF NodeRow
<1>4. QED
  BY <1>1, <1>3, LogicalRowTells DEF Computes

\* On row r the launch l compares u with v of dtype tag, or finds a null; the answer is k.
ComparesBy(l, r, k, op, tag, u, v) ==
  /\ op \in {"Eq", "Ne", "Lt", "Le", "Gt", "Ge"} /\ tag \in {"I64", "F64"}
  /\ l.op = op /\ l.kernel = IF tag = "I64" THEN "cmp_i64" ELSE "cmp_f64"
  /\ l.lhs.valid[r] <=> u # Null
  /\ RhsValid(l, r) <=> v # Null
  /\ u # Null => IsValue(tag, u) /\ l.lhs.data[r] = u
  /\ v # Null => IsValue(tag, v) /\ RhsData(l, r) = v
  /\ k = IF u = Null \/ v = Null THEN Null
         ELSE IF tag = "F64" THEN IeeeCompare(op, u, v) ELSE Order(op, u, v)

\* The kernel, the operator and the operands that a comparison is launched with.
LEMMA ComparesColumn ==
  ASSUME Selecting, NEW i \in 1..Len(case.predicate), case.predicate[i].kind = "Compare",
         NEW n, n = case.predicate[i], NEW r \in Rows, NEW l, l = CompareLaunch(n)
  PROVE  \E op, tag, u, v : ComparesBy(l, r, IeeeCompared(n, r), op, tag, u, v)
<1>1. /\ n.op \in {"Eq", "Ne", "Lt", "Le", "Gt", "Ge"}
      /\ n.lhs.kind \in {"Column", "Literal"} /\ n.rhs.kind \in {"Column", "Literal"}
      /\ TypedLeaf(case, n.lhs) /\ TypedLeaf(case, n.rhs)
      /\ LeafDtype(n.lhs) = LeafDtype(n.rhs) /\ LeafDtype(n.lhs) \in {"I64", "F64"}
      /\ IsLiteral(n.lhs) => n.lhs.value # Null
      /\ IsLiteral(n.rhs) => n.rhs.value # Null
      /\ ~(IsLiteral(n.lhs) /\ IsLiteral(n.rhs))
  BY CompareTypes
<1>2. PICK a, b, op : /\ a = IF IsLiteral(n.lhs) THEN n.rhs ELSE n.lhs
                      /\ b = IF IsLiteral(n.lhs) THEN n.lhs ELSE n.rhs
                      /\ op = IF IsLiteral(n.lhs) THEN Mirror(n.op) ELSE n.op
  OBVIOUS
<1>3. PICK tag \in {"I64", "F64"} : LeafDtype(a) = tag /\ LeafDtype(b) = tag
  BY <1>1, <1>2
<1>4. /\ a.kind \in {"Column", "Literal"} /\ b.kind \in {"Column", "Literal"}
      /\ TypedLeaf(case, a) /\ TypedLeaf(case, b) /\ ~IsLiteral(a)
      /\ IsLiteral(b) => b.value # Null
      /\ op \in {"Eq", "Ne", "Lt", "Le", "Gt", "Ge"}
  BY <1>1, <1>2, MirrorCompares
<1>5. PICK u, v : u = LeafValue(a, r) /\ v = LeafValue(b, r)
  OBVIOUS
<1>6. /\ u # Null => IsValue(tag, u)
      /\ v # Null => IsValue(tag, v)
      /\ a.name \in Names
      /\ ~IsLiteral(b) => b.name \in Names
  BY <1>3, <1>4, <1>5, LeafTypes
<1>7. l = IF tag = "I64"
            THEN IF IsLiteral(b) THEN CmpI64Scalar(op, DataAndValid(a.name), b.value)
                                 ELSE CmpI64(op, DataAndValid(a.name), DataAndValid(b.name))
            ELSE IF IsLiteral(b) THEN CmpF64Scalar(op, DataAndValid(a.name), b.value)
                                 ELSE CmpF64(op, DataAndValid(a.name), DataAndValid(b.name))
  <2>1. CASE IsLiteral(n.lhs)
    BY <1>2, <1>3, <2>1 DEF CompareLaunch
  <2>2. CASE ~IsLiteral(n.lhs)
    BY <1>2, <1>3, <2>2 DEF CompareLaunch
  <2>3. QED
    BY <2>1, <2>2
<1>8. /\ l.op = op /\ l.kernel = (IF tag = "I64" THEN "cmp_i64" ELSE "cmp_f64")
      /\ l.lhs = DataAndValid(a.name) /\ (l.scalar <=> IsLiteral(b))
      /\ l.rhs = IF IsLiteral(b) THEN b.value ELSE DataAndValid(b.name)
  BY <1>3, <1>7 DEF CmpI64, CmpI64Scalar, CmpF64, CmpF64Scalar
<1>9. /\ l.lhs.valid[r] <=> u # Null
      /\ u # Null => l.lhs.data[r] = u
  <2>1. u = Value(a.name, r)
    BY <1>4, <1>5 DEF LeafValue
  <2>2. QED
    BY <1>6, <1>8, <2>1, StagedColumn
<1>10. /\ RhsValid(l, r) <=> v # Null
       /\ v # Null => RhsData(l, r) = v
  <2>1. CASE IsLiteral(b)
    BY <1>4, <1>5, <1>8, <2>1 DEF LeafValue, RhsValid, RhsData
  <2>2. CASE ~IsLiteral(b)
    <3>1. v = Value(b.name, r) /\ l.rhs = DataAndValid(b.name)
      BY <1>5, <1>8, <2>2 DEF LeafValue
    <3>2. /\ DataAndValid(b.name).valid[r] <=> v # Null
          /\ v # Null => DataAndValid(b.name).data[r] = v
      BY <1>6, <2>2, <3>1, StagedColumn
    <3>3. QED
      BY <1>8, <2>2, <3>1, <3>2 DEF RhsValid, RhsData
  <2>3. QED
    BY <2>1, <2>2
<1>11. IeeeCompared(n, r) = IF u = Null \/ v = Null THEN Null
         ELSE IF tag = "F64" THEN IeeeCompare(op, u, v) ELSE Order(op, u, v)
  <2>1. CASE ~IsLiteral(n.lhs)
    <3>1. a = n.lhs /\ b = n.rhs /\ op = n.op
      BY <1>2, <2>1
    <3>2. IeeeCompared(n, r) =
            IF u = Null \/ v = Null THEN Null
            ELSE IF LeafDtype(n.lhs) = "F64" THEN IeeeCompare(n.op, u, v) ELSE Order(n.op, u, v)
      BY <1>5, <3>1, IeeeComparedLeaves
    <3>3. QED
      BY <1>3, <3>1, <3>2
  <2>2. CASE IsLiteral(n.lhs)
    <3>1. a = n.rhs /\ b = n.lhs /\ op = Mirror(n.op)
      BY <1>2, <2>2
    <3>2. IeeeCompared(n, r) =
            IF v = Null \/ u = Null THEN Null
            ELSE IF LeafDtype(n.lhs) = "F64" THEN IeeeCompare(n.op, v, u) ELSE Order(n.op, v, u)
      BY <1>5, <3>1, IeeeComparedLeaves
    <3>3. CASE u # Null /\ v # Null /\ tag = "F64"
      <4>1. u \in Floats /\ v \in Floats
        BY <1>6, <3>3 DEF IsValue
      <4>2. IeeeCompare(op, u, v) = IeeeCompare(n.op, v, u)
        BY <1>1, <3>1, <4>1, MirrorCompares
      <4>3. QED
        BY <1>3, <3>1, <3>2, <3>3, <4>2
    <3>4. CASE u # Null /\ v # Null /\ tag = "I64"
      <4>1. u \in Int /\ v \in Int
        BY <1>6, <3>4 DEF IsValue
      <4>2. Order(op, u, v) = Order(n.op, v, u)
        BY <1>1, <3>1, <4>1, MirrorCompares
      <4>3. QED
        BY <1>3, <3>1, <3>2, <3>4, <4>2
    <3>5. CASE u = Null \/ v = Null
      BY <3>2, <3>5
    <3>6. QED
      BY <3>3, <3>4, <3>5
  <2>3. QED
    BY <2>1, <2>2
<1>12. ComparesBy(l, r, IeeeCompared(n, r), op, tag, u, v)
  BY <1>4, <1>6, <1>8, <1>9, <1>10, <1>11 DEF ComparesBy
<1>13. QED
  BY <1>12

LEMMA CompareKernel == \A n : CompareLaunch(n).kernel \in NodeKernels
BY DEF CompareLaunch, CmpI64, CmpI64Scalar, CmpF64, CmpF64Scalar, NodeKernels

\* Whatever _evaluate_compare launches computes the comparison of its node.
LEMMA CompareComputes ==
  ASSUME Selecting, NEW i \in 1..Len(case.predicate), case.predicate[i].kind = "Compare",
         NEW n, n = case.predicate[i], NEW r \in Rows
  PROVE  Computes(Rows, CompareLaunch(n), r, IeeeCompared(n, r))
<1>1. PICK l, k : l = CompareLaunch(n) /\ k = IeeeCompared(n, r)
  OBVIOUS
<1>2. PICK op, tag, u, v : ComparesBy(l, r, k, op, tag, u, v)
  BY <1>1, ComparesColumn
<1>3. l.kernel = (IF tag = "I64" THEN "cmp_i64" ELSE "cmp_f64")
  BY <1>2 DEF ComparesBy
<1>4. k \in Kleene /\ Null \notin BOOLEAN
  BY <1>1, ComparedType, CaseAssumption
<1>5. ASSUME NEW o \in Bitmaps(Rows), Blank(o, r)
      PROVE  /\ NodeRow(l, r, o) \in Bitmaps(Rows) /\ Tells(NodeRow(l, r, o), r, k)
             /\ \A q \in Rows \ {r} : SameRow(NodeRow(l, r, o), o, q)
  <2>1. CASE u = Null \/ v = Null
    <3>1. k = Null /\ ~(l.lhs.valid[r] /\ RhsValid(l, r))
      BY <1>2, <2>1 DEF ComparesBy
    <3>2. NodeRow(l, r, o) = o
      BY <1>3, <3>1 DEF NodeRow, CmpI64Row, CmpF64Row, CompareRow
    <3>3. QED
      BY <1>5, <3>1, <3>2 DEF Tells, Blank, SameRow
  <2>2. CASE u # Null /\ v # Null
    <3>1. PICK holds \in BOOLEAN : holds = k /\ NodeRow(l, r, o) = CompareRow(l, r, o, holds)
      <4>1. CASE tag = "I64"
        <5>1. /\ k = Order(op, u, v) /\ op \in {"Eq", "Ne", "Lt", "Le", "Gt", "Ge"}
              /\ u \in Int /\ v \in Int
              /\ l.op = op /\ l.lhs.data[r] = u /\ RhsData(l, r) = v
          BY <1>2, <2>2, <4>1 DEF ComparesBy, IsValue
        <5>2. k \in BOOLEAN
          BY <5>1, OrderBoolean
        <5>3. NodeRow(l, r, o) = CompareRow(l, r, o, k)
          BY <1>3, <4>1, <5>1 DEF NodeRow, CmpI64Row
        <5>4. QED
          BY <5>2, <5>3
      <4>2. CASE tag = "F64"
        <5>1. /\ k = IeeeCompare(op, u, v) /\ op \in {"Eq", "Ne", "Lt", "Le", "Gt", "Ge"}
              /\ u \in Floats /\ v \in Floats
              /\ l.op = op /\ l.lhs.data[r] = u /\ RhsData(l, r) = v
          BY <1>2, <2>2, <4>2 DEF ComparesBy, IsValue
        <5>2. k = FloatCompare(op, u, v) /\ k \in BOOLEAN
          BY <5>1, ComparesNumbers, FloatCompareBoolean
        <5>3. NodeRow(l, r, o) = CompareRow(l, r, o, k)
          BY <1>3, <4>2, <5>1, <5>2 DEF NodeRow, CmpF64Row
        <5>4. QED
          BY <5>2, <5>3
      <4>3. QED
        BY <1>2, <4>1, <4>2 DEF ComparesBy
    <3>2. l.lhs.valid[r] /\ RhsValid(l, r) <=> k # Null
      BY <1>2, <1>4, <2>2, <3>1 DEF ComparesBy
    <3>3. QED
      BY <1>4, <1>5, <3>1, <3>2, CompareRowTells
  <2>3. QED
    BY <2>1, <2>2
<1>6. Computes(Rows, l, r, k)
  BY <1>5 DEF Computes
<1>7. QED
  BY <1>1, <1>6

-----------------------------------------------------------------------------
\* The evaluation of the nodes.

\* The reference reads nothing but the case.
LEMMA SameCase ==
  ASSUME UNCHANGED case
  PROVE  /\ Rows' = Rows /\ Truth' = Truth /\ Kept' = Kept /\ FrameOfKept' = FrameOfKept
         /\ Names' = Names /\ (Lowered' <=> Lowered)
         /\ \A x : Dtype(x)' = Dtype(x)
         /\ \A r : IeeeValue(r)' = IeeeValue(r)
BY DEF Rows, Truth, Kept, FrameOfKept, Names, Lowered, Dtype, IeeeValue, IeeeStacks, IeeePush,
       IeeeCompared, LeafValue, LeafDtype, Value, InClosedSet, Comparable, Selected

\* One operand more.
LEMMA ToldAppend ==
  ASSUME NEW truth, NEW R, NEW st, NEW i, Told(truth, R, st, i), NEW b \in Bitmaps(R),
         \A r \in R : Tells(b, r, truth[r][i][Len(st) + 1])
  PROVE  Told(truth, R, Append(st, b), i) /\ Len(Append(st, b)) = Len(st) + 1
<1>1. st \in Seq(Bitmaps(R)) /\ Len(st) \in Nat
  BY DEF Told
<1>2. PICK longer : longer = Append(st, b)
  OBVIOUS
<1>3. /\ longer \in Seq(Bitmaps(R)) /\ Len(longer) = Len(st) + 1
      /\ \A j \in 1..Len(st) : longer[j] = st[j]
      /\ longer[Len(st) + 1] = b
  BY <1>1, <1>2
<1>4. ASSUME NEW j \in 1..Len(longer), NEW r \in R
      PROVE  Tells(longer[j], r, truth[r][i][j])
  <2>1. CASE j \in 1..Len(st)
    BY <1>3, <2>1 DEF Told
  <2>2. CASE j = Len(st) + 1
    BY <1>3, <2>2
  <2>3. QED
    BY <1>1, <1>3, <2>1, <2>2
<1>5. QED
  BY <1>2, <1>3, <1>4 DEF Told

\* A leaf or a comparison adds an operand to those below.
LEMMA TruthPushed ==
  ASSUME Selecting, NEW i \in 1..Len(case.predicate), NEW n, n = case.predicate[i],
         n.kind \in {"Column", "Compare"},
         NEW st, Told(Truth, Rows, st, i - 1), Len(st) = Depth(case.predicate, i - 1)
  PROVE  /\ Told(Truth, Rows, st, i) /\ Len(st) + 1 = Depth(case.predicate, i)
         /\ \A r \in Rows : Truth[r][i][Len(st) + 1] =
              IF n.kind = "Column" THEN Value(n.name, r) ELSE IeeeCompared(n, r)
<1>0. Len(case.predicate) \in Nat /\ i - 1 \in 0..Len(case.predicate) /\ Len(st) \in Nat
  <2>1. Len(case.predicate) \in Nat
    BY CaseFacts
  <2>2. st \in Seq(Bitmaps(Rows))
    BY DEF Told
  <2>3. QED
    BY <2>1, <2>2
<1>1. Len(st) + 1 = Depth(case.predicate, i)
  <2>1. ~IsConnective(n)
    BY NodeKinds
  <2>2. QED
    BY <1>0, <2>1, DepthStep
<1>2. ASSUME NEW r \in Rows
      PROVE  /\ \A j \in 1..Len(st) : Truth[r][i][j] = Truth[r][i - 1][j]
             /\ Truth[r][i][Len(st) + 1] =
                  IF n.kind = "Column" THEN Value(n.name, r) ELSE IeeeCompared(n, r)
  <2>1. PICK v : v = IF n.kind = "Column" THEN Value(n.name, r) ELSE IeeeCompared(n, r)
    OBVIOUS
  <2>2. PICK below : below = IeeeStacks(r)[i - 1]
    OBVIOUS
  <2>3. below \in Seq(Kleene) /\ Len(below) = Len(st)
    BY <1>0, <2>2, TruthTypes
  <2>4. IeeeStacks(r)[i] = Append(below, v)
    <3>1. IeeeStacks(r)[i] = IeeePush(below, n, r)
      BY <1>0, <2>2, IeeeStep
    <3>2. QED
      BY <2>1, <3>1 DEF IeeePush
  <2>5. Truth[r] = IeeeStacks(r)
    BY DEF Truth
  <2>6. (\A j \in 1..Len(below) : Append(below, v)[j] = below[j]) /\ Append(below, v)[Len(below) + 1] = v
    BY <2>3
  <2>7. QED
    BY <2>1, <2>2, <2>3, <2>4, <2>5, <2>6
<1>3. Told(Truth, Rows, st, i)
  BY <1>2 DEF Told
<1>4. QED
  BY <1>1, <1>2, <1>3

\* A connective takes the two operands on top and leaves one.
LEMMA TruthJoined ==
  ASSUME Selecting, NEW i \in 1..Len(case.predicate), case.predicate[i].kind \in {"And", "Or"},
         NEW st, Told(Truth, Rows, st, i - 1), Len(st) = Depth(case.predicate, i - 1)
  PROVE  LET d == Len(st)  base == SubSeq(st, 1, d - 2)
         IN  /\ d \in Nat /\ d >= 2
             /\ Told(Truth, Rows, base, i) /\ Len(base) = d - 2 /\ d - 1 = Depth(case.predicate, i)
             /\ st[d - 1] \in Bitmaps(Rows) /\ st[d] \in Bitmaps(Rows)
             /\ \A r \in Rows : \E x, y \in Kleene :
                  /\ Tells(st[d - 1], r, x) /\ Tells(st[d], r, y)
                  /\ Truth[r][i][d - 1] = KleeneLogical(case.predicate[i].kind, x, y)
<1>0. PICK d, base, n : d = Len(st) /\ base = SubSeq(st, 1, d - 2) /\ n = case.predicate[i]
  OBVIOUS
<1>1. Len(case.predicate) \in Nat /\ i - 1 \in 0..Len(case.predicate)
  BY CaseFacts
<1>2. st \in Seq(Bitmaps(Rows)) /\ d \in Nat /\ d >= 2
  <2>1. st \in Seq(Bitmaps(Rows))
    BY DEF Told
  <2>2. Depth(case.predicate, i - 1) >= 2
    BY <1>0, NodeKinds
  <2>3. QED
    BY <1>0, <2>1, <2>2
<1>3. d - 1 = Depth(case.predicate, i)
  <2>1. IsConnective(n)
    BY <1>0, NodeKinds
  <2>2. QED
    BY <1>0, <1>1, <1>2, <2>1, DepthStep
<1>4. /\ base \in Seq(Bitmaps(Rows)) /\ Len(base) = d - 2
      /\ \A j \in 1..(d - 2) : base[j] = st[j]
      /\ st[d - 1] \in Bitmaps(Rows) /\ st[d] \in Bitmaps(Rows)
  BY <1>0, <1>2
<1>5. ASSUME NEW r \in Rows
      PROVE  /\ \A j \in 1..(d - 2) : Truth[r][i][j] = Truth[r][i - 1][j]
             /\ \E x, y \in Kleene :
                  /\ Tells(st[d - 1], r, x) /\ Tells(st[d], r, y)
                  /\ Truth[r][i][d - 1] = KleeneLogical(n.kind, x, y)
  <2>1. PICK below : below = IeeeStacks(r)[i - 1]
    OBVIOUS
  <2>2. below \in Seq(Kleene) /\ Len(below) = d
    BY <1>0, <1>1, <2>1, TruthTypes
  <2>3. PICK x, y, v : x = below[d - 1] /\ y = below[d] /\ v = KleeneLogical(n.kind, x, y)
    OBVIOUS
  <2>4. IeeeStacks(r)[i] = Append(SubSeq(below, 1, d - 2), v)
    <3>1. IeeeStacks(r)[i] = IeeePush(below, n, r)
      BY <1>0, <1>1, <2>1, IeeeStep
    <3>2. QED
      BY <1>0, <2>2, <2>3, <3>1 DEF IeeePush
  <2>5. Truth[r] = IeeeStacks(r)
    BY DEF Truth
  <2>6. x \in Kleene /\ y \in Kleene
    BY <1>2, <2>2, <2>3
  <2>7. PICK trunk : trunk = SubSeq(below, 1, d - 2)
    OBVIOUS
  <2>8. /\ trunk \in Seq(Kleene) /\ Len(trunk) = d - 2
        /\ \A j \in 1..(d - 2) : trunk[j] = below[j]
    BY <1>2, <2>2, <2>7
  <2>9. (\A j \in 1..(d - 2) : Append(trunk, v)[j] = trunk[j]) /\ Append(trunk, v)[d - 1] = v
    BY <1>2, <2>8
  <2>10. Tells(st[d - 1], r, x) /\ Tells(st[d], r, y)
    <3>1. d - 1 \in 1..Len(st) /\ d \in 1..Len(st)
      BY <1>0, <1>2
    <3>2. QED
      BY <2>1, <2>3, <2>5, <3>1 DEF Told
  <2>11. \A j \in 1..(d - 2) : Truth[r][i][j] = Truth[r][i - 1][j]
    <3> TAKE j \in 1..(d - 2)
    <3>1. Truth[r][i][j] = Append(trunk, v)[j]
      BY <2>4, <2>5, <2>7
    <3>2. Append(trunk, v)[j] = below[j]
      BY <2>8, <2>9
    <3>3. QED
      BY <2>1, <2>5, <3>1, <3>2
  <2>12. Truth[r][i][d - 1] = KleeneLogical(n.kind, x, y)
    BY <2>3, <2>4, <2>5, <2>7, <2>9
  <2>13. QED
    BY <2>6, <2>10, <2>11, <2>12
<1>6. Told(Truth, Rows, base, i)
  <2>1. ASSUME NEW j \in 1..Len(base), NEW r \in Rows PROVE Tells(base[j], r, Truth[r][i][j])
    <3>1. j \in 1..(d - 2) /\ j \in 1..Len(st)
      BY <1>0, <1>2, <1>4
    <3>2. Tells(st[j], r, Truth[r][i - 1][j])
      BY <3>1 DEF Told
    <3>3. QED
      BY <1>4, <1>5, <3>1, <3>2
  <2>2. QED
    BY <1>4, <2>1 DEF Told
<1>7. QED
  BY <1>0, <1>2, <1>3, <1>4, <1>5, <1>6

\* A Filter that has a predicate, and the invariant.
Live == IInv /\ SelParts /\ case.predicate # <<>>

LEMMA LiveFacts ==
  ASSUME Live
  PROVE  /\ case \in Cases /\ Len(case.predicate) \in Nat
         /\ at \in 1..(Len(case.predicate) + 1) /\ left \subseteq Rows
         /\ phase \in {"enter", "predicate", "keep", "prefix", "columns"} => Selecting
BY CaseTypes DEF Live, IInv, Typed, TypeOK, SelParts, LoweredInv, Selecting

\* Only the part of the invariant that is about its phase.
LEMMA PartsOfPhase ==
  ASSUME Live, UNCHANGED case, phase' \in Phases, IdleInv',
         phase' \in {"enter", "predicate", "keep", "prefix", "columns"} => Lowered,
         phase' = "predicate" => EvalInv',
         phase' = "keep" => KeepInv',
         phase' \in {"prefix", "columns"} => FlagInv',
         phase' = "columns" => ColumnInv',
         phase' \in {"keep", "prefix", "columns"} => DoneInv',
         phase' = "answered" => FilterIsKept'
  PROVE  SelParts'
BY SameCase DEF SelParts, IdleInv, LoweredInv, EvalInv, KeepInv, FlagInv, DoneInv, ColumnInv,
                FilterIsKept,
                Answered

\* The bitmaps of a Boolean column tell its values.
LEMMA BooleanBitmap ==
  ASSUME Selecting, NEW x \in Names, Dtype(x) = "Bool"
  PROVE  /\ DataAndValid(x) \in Bitmaps(Rows)
         /\ \A r \in Rows : Tells(DataAndValid(x), r, Value(x, r))
<1>1. PICK b, d, v : b = DataAndValid(x) /\ d = b.data /\ v = b.valid
  OBVIOUS
<1>2. /\ d = [q \in Rows |-> Slot(Materialize(x)[q], Dtype(x))]
      /\ v = [q \in Rows |-> Materialize(x)[q] # Null]
      /\ b = [data |-> d, valid |-> v]
  BY <1>1 DEF DataAndValid
<1>3. \A r \in Rows : Value(x, r) \in Kleene /\ Materialize(x)[r] = Value(x, r)
  BY BooleanColumn, ValueInParent
<1>4. d \in [Rows -> BOOLEAN]
  <2>1. \A r \in Rows : Slot(Value(x, r), Dtype(x)) \in BOOLEAN
    BY <1>3 DEF Slot, Kleene
  <2>2. QED
    BY <1>2, <1>3, <2>1
<1>5. v \in [Rows -> BOOLEAN]
  BY <1>2, Zenon
<1>6. b \in Bitmaps(Rows)
  BY <1>2, <1>4, <1>5 DEF Bitmaps
<1>7. \A r \in Rows : Tells(b, r, Value(x, r))
  BY <1>1, StagedColumn DEF Tells
<1>8. QED
  BY <1>1, <1>6, <1>7

\* A node that is evaluated next.
LEMMA NodeAtHand ==
  ASSUME Live, NEW kinds, Evaluating(kinds), UNCHANGED <<case, phase>>, at' = at + 1
  PROVE  /\ Selecting /\ at \in 1..Len(case.predicate) /\ Node = case.predicate[at]
         /\ Node.kind \in kinds /\ phase = "predicate" /\ launch = NoLaunch
         /\ Told(Truth, Rows, stack, at - 1) /\ Len(stack) = Depth(case.predicate, at - 1)
         /\ at' - 1 = at /\ Rows' = Rows /\ Truth' = Truth
         /\ EvalInv' /\ (launch' = NoLaunch => left' = {}) => SelParts'
<1>1. phase = "predicate" /\ launch = NoLaunch /\ at <= Len(case.predicate) /\ Node.kind \in kinds
  BY DEF Evaluating, Idle
<1>2. Selecting /\ at \in 1..Len(case.predicate) /\ at' - 1 = at
  BY <1>1, LiveFacts
<1>3. Told(Truth, Rows, stack, at - 1) /\ Len(stack) = Depth(case.predicate, at - 1)
  BY <1>1 DEF Live, SelParts, EvalInv
<1>4. EvalInv' /\ (launch' = NoLaunch => left' = {}) => SelParts'
  BY <1>1, <1>2, PartsOfPhase DEF Selecting, Phases, IdleInv
<1>5. QED
  BY <1>1, <1>2, <1>3, <1>4, SameCase DEF Node

LEMMA EvalColumnSelects ==
  ASSUME Live, EvalColumn
  PROVE  SelParts'
<1>1. /\ Evaluating({"Column"}) /\ UNCHANGED <<case, phase>> /\ at' = at + 1
      /\ stack' = Append(stack, DataAndValid(Node.name)) /\ launch' = launch /\ left' = left
  BY DEF EvalColumn, PredicateUnchanged, device
<1>2. /\ Selecting /\ at \in 1..Len(case.predicate) /\ Node = case.predicate[at]
      /\ Node.kind = "Column" /\ launch = NoLaunch
      /\ Told(Truth, Rows, stack, at - 1) /\ Len(stack) = Depth(case.predicate, at - 1)
      /\ at' - 1 = at /\ Rows' = Rows /\ Truth' = Truth
      /\ left = {} /\ (EvalInv' /\ (launch' = NoLaunch => left' = {}) => SelParts')
  BY <1>1, NodeAtHand DEF Live, SelParts, IdleInv
<1>3. PICK b : b = DataAndValid(Node.name)
  OBVIOUS
<1>4. b \in Bitmaps(Rows) /\ \A r \in Rows : Tells(b, r, Value(Node.name, r))
  <2>1. Node.name \in Names /\ Dtype(Node.name) = "Bool"
    BY <1>2, NodeKinds
  <2>2. QED
    BY <1>2, <1>3, <2>1, BooleanBitmap
<1>5. /\ Told(Truth, Rows, stack, at) /\ Len(stack) + 1 = Depth(case.predicate, at)
      /\ \A r \in Rows : Truth[r][at][Len(stack) + 1] = Value(Node.name, r)
  BY <1>2, TruthPushed
<1>6. Told(Truth, Rows, stack', at) /\ Len(stack') = Len(stack) + 1
  BY <1>1, <1>3, <1>4, <1>5, ToldAppend
<1>7. EvalInv'
  BY <1>1, <1>2, <1>5, <1>6 DEF EvalInv
<1>8. QED
  BY <1>1, <1>2, <1>7

\* Nothing has run of a kernel that is launched, and nothing runs over no rows.
LEMMA EvalKernelSelects ==
  ASSUME Live, NEW kinds, Evaluating(kinds), NEW l, NEW n, EvalKernel(l, n),
         l.kernel \in NodeKernels, NEW base, base = Beneath(n),
         Told(Truth, Rows, base, at), Len(base) + 1 = Depth(case.predicate, at),
         \A r \in Rows : Computes(Rows, l, r, Truth[r][at][Len(base) + 1])
  PROVE  SelParts'
<1>1. /\ UNCHANGED <<case, phase>> /\ at' = at + 1
      /\ IF Rows = {} THEN stack' = Append(base, Zeroed) /\ UNCHANGED device
                      ELSE stack' = base /\ Dispatch(l, Zeroed)
  BY DEF EvalKernel, PredicateUnchanged
<1>2. /\ at' - 1 = at /\ Rows' = Rows /\ Truth' = Truth /\ at \in 1..Len(case.predicate)
      /\ launch = NoLaunch /\ left = {}
      /\ EvalInv' /\ (launch' = NoLaunch => left' = {}) => SelParts'
  BY <1>1, NodeAtHand DEF Live, SelParts, IdleInv
<1>3. Zeroed \in Bitmaps(Rows) /\ \A r \in Rows : Blank(Zeroed, r)
  BY DEF Zeroed, Bitmaps, Blank
<1>4. CASE Rows = {}
  <2>0. stack' = Append(base, Zeroed) /\ launch' = NoLaunch /\ left' = {}
    BY <1>1, <1>2, <1>4 DEF device
  <2>1. Told(Truth, Rows, stack', at) /\ Len(stack') = Len(base) + 1 /\ launch' = NoLaunch
    <3>1. \A r \in Rows : Tells(Zeroed, r, Truth[r][at][Len(base) + 1])
      BY <1>4
    <3>2. Told(Truth, Rows, Append(base, Zeroed), at) /\ Len(Append(base, Zeroed)) = Len(base) + 1
      BY <1>3, <3>1, ToldAppend
    <3>3. QED
      BY <2>0, <3>2
  <2>2. EvalInv'
    BY <1>1, <1>2, <2>1 DEF EvalInv
  <2>3. QED
    BY <1>2, <2>0, <2>2
<1>5. CASE Rows # {}
  <2>1. stack' = base /\ launch' = l /\ left' = Rows /\ out' = Zeroed
    BY <1>1, <1>5 DEF Dispatch
  <2>2. l # NoLaunch
    BY DEF NodeKernels, NoLaunch
  <2>3. Underway(Truth, Rows, l, Rows, Zeroed, at, Len(base) + 1)
    BY <1>3 DEF Underway
  <2>4. at' > 1
    BY <1>1, <1>2
  <2>5. EvalInv'
    BY <1>1, <1>2, <2>1, <2>2, <2>3, <2>4 DEF EvalInv
  <2>6. QED
    BY <1>2, <2>1, <2>2, <2>5
<1>6. QED
  BY <1>4, <1>5

LEMMA EvalCompareSelects ==
  ASSUME Live, EvalCompare
  PROVE  SelParts'
<1>1. PICK l : l = CompareLaunch(Node) /\ Evaluating({"Compare"}) /\ EvalKernel(l, 0)
  BY DEF EvalCompare
<1>2. UNCHANGED <<case, phase>> /\ at' = at + 1
  BY <1>1 DEF EvalKernel, PredicateUnchanged
<1>3. /\ Selecting /\ at \in 1..Len(case.predicate) /\ Node = case.predicate[at]
      /\ Node.kind = "Compare"
      /\ Told(Truth, Rows, stack, at - 1) /\ Len(stack) = Depth(case.predicate, at - 1)
  BY <1>1, <1>2, NodeAtHand
<1>4. /\ Told(Truth, Rows, stack, at) /\ Len(stack) + 1 = Depth(case.predicate, at)
      /\ \A r \in Rows : Truth[r][at][Len(stack) + 1] = IeeeCompared(Node, r)
  BY <1>3, TruthPushed
<1>5. stack = Beneath(0)
  <2>1. stack \in Seq(Bitmaps(Rows))
    BY <1>3 DEF Told
  <2>2. SubSeq(stack, 1, Len(stack)) = stack /\ Len(stack) - 0 = Len(stack)
    BY <2>1
  <2>3. QED
    BY <2>2 DEF Beneath
<1>6. l.kernel \in NodeKernels
  BY <1>1, <1>3, CompareKernel
<1>7. \A r \in Rows : Computes(Rows, l, r, Truth[r][at][Len(stack) + 1])
  BY <1>1, <1>3, <1>4, CompareComputes
<1>8. QED
  BY <1>1, <1>4, <1>5, <1>6, <1>7, EvalKernelSelects

LEMMA EvalLogicalSelects ==
  ASSUME Live, EvalLogical
  PROVE  SelParts'
<1>1. PICK d, p, q, l : /\ d = Len(stack) /\ p = stack[d - 1] /\ q = stack[d]
                        /\ l = Logical(Node.kind, p, q)
                        /\ Evaluating({"And", "Or"}) /\ EvalKernel(l, 2)
  BY DEF EvalLogical
<1>2. UNCHANGED <<case, phase>> /\ at' = at + 1
  BY <1>1 DEF EvalKernel, PredicateUnchanged
<1>3. /\ Selecting /\ at \in 1..Len(case.predicate) /\ Node = case.predicate[at]
      /\ Node.kind \in {"And", "Or"}
      /\ Told(Truth, Rows, stack, at - 1) /\ Len(stack) = Depth(case.predicate, at - 1)
  BY <1>1, <1>2, NodeAtHand
<1>4. PICK base : base = SubSeq(stack, 1, d - 2)
  OBVIOUS
<1>5. /\ d \in Nat /\ d >= 2
      /\ Told(Truth, Rows, base, at) /\ Len(base) = d - 2 /\ d - 1 = Depth(case.predicate, at)
      /\ p \in Bitmaps(Rows) /\ q \in Bitmaps(Rows)
      /\ \A r \in Rows : \E x, y \in Kleene :
           /\ Tells(p, r, x) /\ Tells(q, r, y)
           /\ Truth[r][at][d - 1] = KleeneLogical(Node.kind, x, y)
  <2>1. case.predicate[at].kind \in {"And", "Or"}
    BY <1>3
  <2>2. /\ Len(stack) \in Nat /\ Len(stack) >= 2
        /\ Told(Truth, Rows, SubSeq(stack, 1, Len(stack) - 2), at)
        /\ Len(SubSeq(stack, 1, Len(stack) - 2)) = Len(stack) - 2
        /\ Len(stack) - 1 = Depth(case.predicate, at)
        /\ stack[Len(stack) - 1] \in Bitmaps(Rows) /\ stack[Len(stack)] \in Bitmaps(Rows)
        /\ \A r \in Rows : \E x, y \in Kleene :
             /\ Tells(stack[Len(stack) - 1], r, x) /\ Tells(stack[Len(stack)], r, y)
             /\ Truth[r][at][Len(stack) - 1] = KleeneLogical(case.predicate[at].kind, x, y)
    BY <1>3, <2>1, TruthJoined
  <2>3. QED
    BY <1>1, <1>3, <1>4, <2>2
<1>6. base = Beneath(2) /\ Len(base) + 1 = d - 1
  BY <1>1, <1>4, <1>5 DEF Beneath
<1>7. ASSUME NEW r \in Rows PROVE Computes(Rows, l, r, Truth[r][at][Len(base) + 1])
  <2>1. PICK x \in Kleene, y \in Kleene : /\ Tells(p, r, x) /\ Tells(q, r, y)
                                          /\ Truth[r][at][d - 1] = KleeneLogical(Node.kind, x, y)
    BY <1>5
  <2>2. PICK op \in {"And", "Or"} : op = Node.kind
    BY <1>3
  <2>3. Computes(Rows, Logical(op, p, q), r, KleeneLogical(op, x, y))
    BY <1>5, <2>1, LogicalComputes
  <2>4. QED
    BY <1>1, <1>6, <2>1, <2>2, <2>3
<1>8. l.kernel \in NodeKernels
  BY <1>1 DEF Logical, NodeKernels
<1>9. QED
  BY <1>1, <1>5, <1>6, <1>7, <1>8, EvalKernelSelects

-----------------------------------------------------------------------------
\* The bitmap that is left marks the rows on which the predicate is true.
LEMMA Verdict ==
  ASSUME Live, PredicateDone
  PROVE  /\ Selecting /\ launch = NoLaunch /\ left = {} /\ phase = "predicate"
         /\ Last(stack) \in Bitmaps(Rows)
         /\ \A r \in Rows : Last(stack).valid[r] /\ Last(stack).data[r] <=> r \in Kept
<1>1. phase = "predicate" /\ launch = NoLaunch /\ at > Len(case.predicate)
  BY DEF PredicateDone, Idle
<1>2. PICK m \in Nat : m = Len(case.predicate)
  BY LiveFacts
<1>3. Selecting /\ at - 1 = m /\ left = {}
  BY <1>1, <1>2, LiveFacts DEF Live, SelParts, IdleInv
<1>4. Told(Truth, Rows, stack, m) /\ Len(stack) = 1
  <2>1. Told(Truth, Rows, stack, at - 1) /\ Len(stack) = Depth(case.predicate, at - 1)
    BY <1>1 DEF Live, SelParts, EvalInv
  <2>2. Depth(case.predicate, m) = 1
    BY <1>2, <1>3, CaseFacts DEF IsPostfix
  <2>3. QED
    BY <1>3, <2>1, <2>2
<1>5. PICK b : b = stack[1] /\ b = Last(stack) /\ b \in Bitmaps(Rows)
  <2>1. stack \in Seq(Bitmaps(Rows))
    BY <1>4 DEF Told
  <2>2. stack[1] \in Bitmaps(Rows)
    BY <1>4, <2>1
  <2>3. QED
    BY <1>4, <2>2 DEF Last
<1>6. ASSUME NEW r \in Rows PROVE b.valid[r] /\ b.data[r] <=> r \in Kept
  <2>1. PICK k : k = IeeeStacks(r)[m][1]
    OBVIOUS
  <2>2. k \in Kleene /\ IeeeValue(r) = k
    <3>1. IeeeStacks(r)[m] \in Seq(Kleene) /\ Len(IeeeStacks(r)[m]) = 1
      <4>1. m \in 0..Len(case.predicate)
        BY <1>2
      <4>2. QED
        BY <1>2, <1>3, <4>1, TruthTypes, CaseFacts DEF IsPostfix
    <3>2. QED
      BY <1>2, <2>1, <3>1 DEF IeeeValue, Last
  <2>3. Tells(b, r, k)
    <3>1. Tells(stack[1], r, Truth[r][m][1])
      BY <1>4 DEF Told
    <3>2. Truth[r] = IeeeStacks(r)
      BY DEF Truth
    <3>3. QED
      BY <1>5, <2>1, <3>1, <3>2
  <2>4. b.valid[r] \in BOOLEAN /\ b.data[r] \in BOOLEAN
    BY <1>5 DEF Bitmaps
  <2>5. (b.valid[r] /\ b.data[r] = TRUE) <=> k = TRUE
    BY <1>5, <2>2, <2>3, HoldsWhatItTells
  <2>6. r \in Kept <=> k = TRUE
    BY <2>2 DEF Kept
  <2>7. QED
    BY <2>4, <2>5, <2>6
<1>7. QED
  BY <1>1, <1>3, <1>5, <1>6

LEMMA MaskSelects ==
  ASSUME Live, MaskInPolars
  PROVE  SelParts'
<1>1. /\ PredicateDone /\ UNCHANGED <<case, launch, left>> /\ phase' = "answered"
      /\ result' = Selected(Ascending({r \in Rows : Last(stack).valid[r] /\ Last(stack).data[r]}))
  BY DEF MaskInPolars, Answer, device
<1>2. {r \in Rows : Last(stack).valid[r] /\ Last(stack).data[r]} = Kept
  BY <1>1, Verdict DEF Kept
<1>3. result' = FrameOfKept
  BY <1>1, <1>2 DEF FrameOfKept, Kept
<1>4. FilterIsKept' /\ IdleInv'
  BY <1>1, <1>3, Verdict, SameCase DEF FilterIsKept, IdleInv
<1>5. QED
  BY <1>1, <1>4, PartsOfPhase DEF Phases

LEMMA MakeKeepSelects ==
  ASSUME Live, MakeKeep
  PROVE  SelParts'
<1>1. /\ PredicateDone /\ UNCHANGED case /\ compacted' = <<>>
      /\ IF Rows = {} THEN phase' = "columns" /\ launch' = launch /\ left' = left
         ELSE /\ phase' = "keep" /\ launch' = PredicateToU8(Last(stack)) /\ left' = Rows
              /\ out' = Zeroed
  BY DEF MakeKeep, Dispatch, device
<1>2. PICK b : b = Last(stack)
  OBVIOUS
<1>3. /\ Selecting /\ launch = NoLaunch /\ left = {} /\ b \in Bitmaps(Rows)
      /\ \A r \in Rows : b.valid[r] /\ b.data[r] <=> r \in Kept
  BY <1>1, <1>2, Verdict
<1>4. Rows' = Rows /\ Kept' = Kept /\ Lowered
  BY <1>1, <1>3, SameCase DEF Selecting
<1>0. DoneInv'
  <2>1. DOMAIN <<>> = {} /\ <<>> = [x \in {} |-> FrameOfKept'[x]]
    OBVIOUS
  <2>2. QED
    BY <1>1, <2>1 DEF DoneInv
<1>5. CASE Rows = {}
  <2>1. phase' = "columns" /\ launch' = NoLaunch /\ left' = {}
    BY <1>1, <1>3, <1>5
  <2>2. FlagInv' /\ IdleInv'
    BY <1>4, <1>5, <2>1 DEF FlagInv, IdleInv
  <2>3. ColumnInv'
    BY <2>1 DEF ColumnInv
  <2>4. QED
    BY <1>0, <1>1, <1>4, <2>1, <2>2, <2>3, PartsOfPhase DEF Phases
<1>6. CASE Rows # {}
  <2>1. phase' = "keep" /\ launch' = PredicateToU8(b) /\ left' = Rows /\ out' = Zeroed
    BY <1>1, <1>2, <1>6
  <2>2. launch'.kernel = "keep" /\ launch'.lhs = b /\ launch' # NoLaunch
    BY <2>1 DEF PredicateToU8, NoLaunch
  <2>3. Zeroed \in Bitmaps(Rows)
    BY DEF Zeroed, Bitmaps
  <2>4. KeepInv' /\ IdleInv'
    BY <1>3, <1>4, <2>1, <2>2, <2>3 DEF KeepInv, IdleInv, Bitmaps
  <2>5. QED
    BY <1>0, <1>1, <1>4, <2>1, <2>4, PartsOfPhase DEF Phases
<1>7. QED
  BY <1>5, <1>6

-----------------------------------------------------------------------------
\* The device.

\* The thread of row r leaves the other rows as they are, and is not waited for any longer.
LEMMA UnderwayStep ==
  ASSUME NEW truth, NEW R, NEW l, NEW waiting, NEW o, NEW i, NEW j,
         Underway(truth, R, l, waiting, o, i, j), NEW r \in R, r \in waiting
  PROVE  Underway(truth, R, l, waiting \ {r}, NodeRow(l, r, o), i, j)
<1>1. PICK w, k : w = NodeRow(l, r, o) /\ k = truth[r][i][j]
  OBVIOUS
<1>2. /\ w \in Bitmaps(R) /\ Tells(w, r, k) /\ \A q \in R \ {r} : SameRow(w, o, q)
  BY <1>1 DEF Underway, Computes
<1>3. ASSUME NEW q \in R
      PROVE  IF q \in waiting \ {r} THEN Blank(w, q) ELSE Tells(w, q, truth[q][i][j])
  <2>1. CASE q = r
    BY <1>1, <1>2, <2>1
  <2>2. CASE q # r
    <3>1. w.data[q] = o.data[q] /\ w.valid[q] = o.valid[q]
      BY <1>2, <2>2 DEF SameRow
    <3>2. IF q \in waiting THEN Blank(o, q) ELSE Tells(o, q, truth[q][i][j])
      BY DEF Underway
    <3>3. QED
      BY <2>2, <3>1, <3>2 DEF Blank, Tells
  <2>3. QED
    BY <2>1, <2>2
<1>4. QED
  BY <1>1, <1>2, <1>3 DEF Underway

LEMMA NodeThreadSelects ==
  ASSUME Live, NEW r \in Rows, Thread(r), phase = "predicate"
  PROVE  SelParts'
<1>1. /\ UNCHANGED <<case, phase, at, stack, launch>> /\ r \in left
      /\ out' = Effect(launch, r, out) /\ left' = left \ {r}
  BY DEF Thread
<1>2. launch # NoLaunch /\ Lowered
  BY <1>1, LiveFacts DEF Live, SelParts, IdleInv, Selecting
<1>3. /\ Told(Truth, Rows, stack, at - 1)
      /\ at > 1 /\ Len(stack) + 1 = Depth(case.predicate, at - 1)
      /\ Underway(Truth, Rows, launch, left, out, at - 1, Len(stack) + 1)
  BY <1>2 DEF Live, SelParts, EvalInv
<1>4. out' = NodeRow(launch, r, out)
  <2>1. launch.kernel \in NodeKernels
    BY <1>3 DEF Underway
  <2>2. QED
    BY <1>1, <2>1 DEF Effect, NodeRow, NodeKernels
<1>5. Underway(Truth, Rows, launch, left \ {r}, out', at - 1, Len(stack) + 1)
  BY <1>1, <1>3, <1>4, UnderwayStep
<1>6. EvalInv' /\ IdleInv'
  BY <1>1, <1>2, <1>3, <1>5, SameCase DEF EvalInv, IdleInv
<1>7. QED
  BY <1>1, <1>2, <1>6, PartsOfPhase DEF Phases

LEMMA KeepThreadSelects ==
  ASSUME Live, NEW r \in Rows, Thread(r), phase = "keep"
  PROVE  SelParts'
<1>1. /\ UNCHANGED <<case, phase, launch, compacted>> /\ r \in left
      /\ out' = Effect(launch, r, out) /\ left' = left \ {r}
  BY DEF Thread
<1>2. launch # NoLaunch /\ Lowered
  BY <1>1, LiveFacts DEF Live, SelParts, IdleInv, Selecting
<1>3. /\ launch.kernel = "keep" /\ out \in Bitmaps(Rows) /\ launch.lhs \in Bitmaps(Rows)
      /\ \A q \in Rows : /\ launch.lhs.data[q] /\ launch.lhs.valid[q] <=> q \in Kept
                         /\ q \notin left => (out.data[q] <=> q \in Kept)
  BY DEF Live, SelParts, KeepInv
<1>4. PICK b \in BOOLEAN : b = (launch.lhs.data[r] /\ launch.lhs.valid[r])
  OBVIOUS
<1>5. out' = [out EXCEPT !.data[r] = b]
  BY <1>1, <1>3, <1>4 DEF Effect, KeepRow
<1>6. /\ out' \in Bitmaps(Rows) /\ out'.data[r] = b
      /\ \A q \in Rows \ {r} : out'.data[q] = out.data[q]
  BY <1>3, <1>5 DEF Bitmaps
<1>7. \A q \in Rows : q \notin left' => (out'.data[q] <=> q \in Kept)
  BY <1>1, <1>3, <1>4, <1>6
<1>8. KeepInv' /\ IdleInv'
  BY <1>1, <1>2, <1>3, <1>6, <1>7, SameCase DEF KeepInv, IdleInv
<1>9. DoneInv'
  BY <1>1, SameCase DEF Live, SelParts, DoneInv
<1>10. QED
  BY <1>1, <1>2, <1>8, <1>9, PartsOfPhase DEF Phases

-----------------------------------------------------------------------------
\* The columns.

\* The sum of a surviving row is its rank among the survivors, and the output has a slot each.
LEMMA Survivors ==
  ASSUME Live, phase = "columns"
  PROVE  /\ NOut \in Nat /\ Slots = DOMAIN Ascending(Kept)
         /\ \A r \in Rows : keep[r] \in BOOLEAN /\ (keep[r] <=> r \in Kept)
         /\ \A i \in Slots : Ascending(Kept)[i] \in Kept /\ prefix[Ascending(Kept)[i]] = i
         /\ \A r \in Kept : prefix[r] \in Slots /\ Ascending(Kept)[prefix[r]] = r
<1>1. case.height \in Nat /\ Rows \in SUBSET Nat /\ IsFiniteSet(Rows)
  <2>1. case.height \in Nat
    BY CaseTypes DEF Live, IInv
  <2>2. QED
    BY <2>1, FS_Interval DEF Rows
<1>2. Kept \in SUBSET Nat /\ IsFiniteSet(Kept) /\ Kept \subseteq Rows
  <2>1. Kept \subseteq Rows
    BY DEF Kept
  <2>2. QED
    BY <1>1, <2>1, FS_Subset
<1>3. \A r \in Rows : keep[r] \in BOOLEAN /\ (keep[r] <=> r \in Kept)
  BY DEF Live, SelParts, FlagInv
<1>4. ASSUME NEW r \in Rows
      PROVE  prefix[r] = Cardinality({q \in Kept : q <= r})
  <2>1. KeptUpTo(r) = {q \in Kept : q <= r}
    <3>1. ASSUME NEW q PROVE q \in KeptUpTo(r) <=> q \in Kept /\ q <= r
      <4>1. r \in Nat /\ r <= case.height
        BY <1>1 DEF Rows
      <4>2. CASE q \in 1..r
        <5>1. q \in Rows /\ q <= r
          BY <1>1, <4>1, <4>2 DEF Rows
        <5>2. q \in KeptUpTo(r) <=> keep[q]
          BY <4>2 DEF KeptUpTo
        <5>3. QED
          BY <1>3, <5>1, <5>2
      <4>3. CASE q \notin 1..r
        <5>1. q \notin KeptUpTo(r)
          BY <4>3 DEF KeptUpTo
        <5>2. q \in Kept => q \in Nat /\ 1 <= q
          BY <1>1, <1>2 DEF Rows
        <5>3. QED
          BY <4>1, <4>3, <5>1, <5>2
      <4>4. QED
        BY <4>2, <4>3
    <3>2. QED
      BY <3>1
  <2>2. QED
    BY <2>1 DEF Live, IInv, PrefixInv
<1>5. NOut = Cardinality(Kept)
  <2>1. CASE case.height = 0
    <3>1. Kept = {}
      BY <1>2, <2>1 DEF Rows
    <3>2. QED
      BY <2>1, <3>1, FS_EmptySet DEF NOut
  <2>2. CASE case.height # 0
    <3>1. case.height \in Rows
      BY <1>1, <2>2 DEF Rows
    <3>2. Kept = {q \in Kept : q <= case.height}
      <4>1. \A q \in Kept : q <= case.height
        BY <1>1, <1>2 DEF Rows
      <4>2. QED
        BY <4>1
    <3>3. QED
      BY <1>4, <2>2, <3>1, <3>2 DEF NOut
  <2>3. QED
    BY <2>1, <2>2
<1>6. NOut \in Nat /\ Slots = 1..Cardinality(Kept) /\ Slots = DOMAIN Ascending(Kept)
  BY <1>2, <1>5, FS_CardinalityType DEF Slots, Ascending
<1>7. /\ \A i \in Slots : /\ Ascending(Kept)[i] \in Kept
                          /\ Cardinality({q \in Kept : q <= Ascending(Kept)[i]}) = i
      /\ \A r \in Kept : /\ Cardinality({q \in Kept : q <= r}) \in Slots
                         /\ Ascending(Kept)[Cardinality({q \in Kept : q <= r})] = r
  BY <1>2, <1>6, AscendingRanks
<1>8. ASSUME NEW i \in Slots PROVE prefix[Ascending(Kept)[i]] = i
  <2>1. PICK r \in Kept : r = Ascending(Kept)[i] /\ Cardinality({q \in Kept : q <= r}) = i
    BY <1>7
  <2>2. QED
    BY <1>2, <1>4, <2>1
<1>9. ASSUME NEW r \in Kept PROVE prefix[r] \in Slots /\ Ascending(Kept)[prefix[r]] = r
  BY <1>2, <1>4, <1>7
<1>10. QED
  BY <1>3, <1>6, <1>7, <1>8, <1>9

\* What a column must become.
LEMMA KeptColumn ==
  ASSUME Live, phase = "columns", NEW x \in Names
  PROVE  /\ DOMAIN FrameOfKept = Names /\ DOMAIN FrameOfKept[x] = Slots
         /\ FrameOfKept[x] = [i \in Slots |-> Value(x, Ascending(Kept)[i])]
BY Survivors DEF FrameOfKept, Selected, Kept

\* The buffers of a scatter over the slots S.
Buffers(o, S) == /\ DOMAIN o = {"data", "valid", "overrun"}
                 /\ DOMAIN o.data = S /\ DOMAIN o.valid = S

\* Slot p with the datum d and the flag b.
Written(o, p, d, b, tag) ==
  IF tag = "Bool" THEN [o EXCEPT !.data = SetBitIf(@, p, d), !.valid = SetBitIf(@, p, b)]
                  ELSE [o EXCEPT !.data[p] = d, !.valid = SetBitIf(@, p, b)]

\* The datum and the flag of a row whose value is v.
Holding(tag, v, d, b) == /\ b \in BOOLEAN /\ (b <=> v # Null) /\ (b => d = v)
                         /\ tag = "Bool" => d \in BOOLEAN

Elsewhere(w, o, S, p) == \A i \in S \ {p} : w.data[i] = o.data[i] /\ w.valid[i] = o.valid[i]

\* The slot p of a row that holds them.
LEMMA SlotWritten ==
  ASSUME NEW S, NEW p \in S, NEW o, Buffers(o, S), NEW tag, NEW v, NEW d, NEW b,
         SlotInv(o, p, TRUE, tag, v), Holding(tag, v, d, b)
  PROVE  /\ Buffers(Written(o, p, d, b, tag), S) /\ SlotInv(Written(o, p, d, b, tag), p, FALSE, tag, v)
         /\ Elsewhere(Written(o, p, d, b, tag), o, S, p)
<1>0. PICK w : w = Written(o, p, d, b, tag)
  OBVIOUS
<1>1. PICK data, valid : data = o.data /\ valid = o.valid
  OBVIOUS
<1>2. /\ DOMAIN data = S /\ DOMAIN valid = S /\ ~valid[p] /\ (tag = "Bool" => data[p] = FALSE)
      /\ DOMAIN o = {"data", "valid", "overrun"}
      /\ b \in BOOLEAN /\ (b <=> v # Null) /\ (b => d = v) /\ (tag = "Bool" => d \in BOOLEAN)
      /\ b \in {TRUE, FALSE} /\ (tag = "Bool" => d \in {TRUE, FALSE})
  BY <1>1 DEF Buffers, SlotInv, Holding
<1>3. PICK flags : flags = SetBitIf(valid, p, b)
  OBVIOUS
<1>4. DOMAIN flags = S /\ (flags[p] <=> b) /\ \A i \in S \ {p} : flags[i] = valid[i]
  <2>1. CASE b = TRUE
    <3>1. flags = [valid EXCEPT ![p] = TRUE]
      BY <1>3, <2>1 DEF SetBitIf, SetBit
    <3>2. QED
      BY <1>2, <2>1, <3>1
  <2>2. CASE b = FALSE
    BY <1>2, <1>3, <2>2 DEF SetBitIf
  <2>3. QED
    BY <1>2, <2>1, <2>2
<1>5. PICK values : values = IF tag = "Bool" THEN SetBitIf(data, p, d) ELSE [data EXCEPT ![p] = d]
  OBVIOUS
<1>6. DOMAIN values = S /\ values[p] = d /\ \A i \in S \ {p} : values[i] = data[i]
  <2>1. CASE tag = "Bool" /\ d = TRUE
    <3>1. values = [data EXCEPT ![p] = TRUE]
      BY <1>5, <2>1 DEF SetBitIf, SetBit
    <3>2. QED
      BY <1>2, <2>1, <3>1
  <2>2. CASE tag = "Bool" /\ d = FALSE
    BY <1>2, <1>5, <2>2 DEF SetBitIf
  <2>3. CASE tag # "Bool"
    BY <1>2, <1>5, <2>3
  <2>4. QED
    BY <1>2, <2>1, <2>2, <2>3
<1>7. w = [o EXCEPT !.data = values, !.valid = flags]
  BY <1>0, <1>1, <1>2, <1>3, <1>5 DEF Written
<1>8. w.data = values /\ w.valid = flags /\ DOMAIN w = {"data", "valid", "overrun"}
  BY <1>2, <1>7
<1>9. QED
  BY <1>0, <1>1, <1>2, <1>4, <1>6, <1>8 DEF Buffers, SlotInv, Elsewhere

\* The thread of a row writes the slot of the row, or nothing.
LEMMA ScatterWrites ==
  ASSUME Live, phase = "columns", launch # NoLaunch, NEW r \in Rows, r \in left,
         NEW w, w = Effect(launch, r, out), NEW x, x = launch.column
  PROVE  /\ Buffers(w, Slots)
         /\ \A i \in Slots : SlotInv(w, i, Ascending(Kept)[i] \in left \ {r}, Dtype(x), FrameOfKept[x][i])
<1>1. /\ Selecting /\ x \in Names /\ ScatterLaunch(launch, Dtype(x)) /\ launch.nOut = NOut
      /\ Buffers(out, Slots)
      /\ \A i \in Slots : SlotInv(out, i, Ascending(Kept)[i] \in left, Dtype(x), FrameOfKept[x][i])
  BY LiveFacts DEF Live, IInv, LaunchInv, SelParts, ColumnInv, Buffers
<1>2. /\ \A q \in Rows : keep[q] \in BOOLEAN /\ (keep[q] <=> q \in Kept)
      /\ \A i \in Slots : Ascending(Kept)[i] \in Kept /\ prefix[Ascending(Kept)[i]] = i
      /\ \A q \in Kept : prefix[q] \in Slots /\ Ascending(Kept)[prefix[q]] = q
      /\ NOut \in Nat
  BY Survivors
<1>3. PICK o, asc : o = out /\ asc = Ascending(Kept)
  OBVIOUS
<1>4. CASE r \notin Kept
  <2>1. w = o
    BY <1>1, <1>2, <1>3, <1>4 DEF Effect, ScatterRow, ScatterBoolRow, ScatterLaunch
  <2>2. \A i \in Slots : asc[i] # r
    BY <1>2, <1>3, <1>4
  <2>3. QED
    BY <1>1, <1>3, <2>1, <2>2
<1>5. CASE r \in Kept
  <2>1. PICK p \in Slots : p = prefix[r] /\ asc[p] = r
    BY <1>2, <1>3, <1>5
  <2>2. PICK d, b, tag, v : /\ d = DataAndValid(x).data[r] /\ b = DataAndValid(x).valid[r]
                            /\ tag = Dtype(x) /\ v = Value(x, r)
    OBVIOUS
  <2>3. Holding(tag, v, d, b)
    <3>1. (b <=> v # Null) /\ (b => d = v)
      BY <1>1, <2>2, StagedColumn
    <3>2. b \in BOOLEAN
      BY <2>2 DEF DataAndValid
    <3>3. ASSUME tag = "Bool" PROVE d \in BOOLEAN
      <4>1. DataAndValid(x) \in Bitmaps(Rows)
        BY <1>1, <2>2, <3>3, BooleanBitmap
      <4>2. QED
        BY <2>2, <4>1 DEF Bitmaps
    <3>4. QED
      BY <3>1, <3>2, <3>3 DEF Holding
  <2>4. FrameOfKept[x][p] = v /\ tag \in {"I64", "F64", "Bool"}
    <3>1. FrameOfKept[x] = [i \in Slots |-> Value(x, asc[i])]
      BY <1>1, <1>3, KeptColumn
    <3>2. tag \in {"I64", "F64", "Bool"}
      BY <1>1, <2>2 DEF ScatterLaunch
    <3>3. QED
      BY <2>1, <2>2, <3>1, <3>2
  <2>5. SlotInv(o, p, TRUE, tag, v)
    <3>1. SlotInv(o, p, asc[p] \in left, tag, v)
      BY <1>1, <1>3, <2>2, <2>4
    <3>2. QED
      BY <2>1, <3>1 DEF SlotInv
  <2>6. w = Written(o, p, d, b, tag)
    <3>1. keep[r] /\ ~(prefix[r] > launch.nOut)
      <4>1. p \in Nat /\ p <= NOut
        BY <1>2 DEF Slots
      <4>2. QED
        BY <1>1, <1>2, <1>5, <2>1, <4>1
    <3>2. Source(launch) = DataAndValid(x)
      BY DEF Source
    <3>3. CASE tag = "Bool"
      <4>1. launch.kernel = "scatter_bool"
        BY <1>1, <2>2, <3>3 DEF ScatterLaunch
      <4>2. w = ScatterBoolRow(launch, r, o)
        BY <1>3, <4>1 DEF Effect
      <4>3. QED
        BY <2>1, <2>2, <3>1, <3>2, <3>3, <4>2 DEF ScatterBoolRow, Written
    <3>4. CASE tag # "Bool"
      <4>1. launch.kernel \in {"scatter_i64", "scatter_f64"}
        BY <1>1, <2>2, <2>4, <3>4 DEF ScatterLaunch
      <4>2. w = ScatterRow(launch, r, o)
        BY <1>3, <4>1 DEF Effect
      <4>3. QED
        BY <2>1, <2>2, <3>1, <3>2, <3>4, <4>2 DEF ScatterRow, Written
    <3>5. QED
      BY <3>3, <3>4
  <2>7. /\ Buffers(w, Slots) /\ SlotInv(w, p, FALSE, tag, v)
        /\ \A i \in Slots \ {p} : w.data[i] = o.data[i] /\ w.valid[i] = o.valid[i]
    <3>1. Buffers(o, Slots)
      BY <1>1, <1>3
    <3>2. PICK S : S = Slots
      OBVIOUS
    <3>3. Buffers(o, S) /\ p \in S
      BY <3>1, <3>2
    <3>4. Buffers(w, S) /\ SlotInv(w, p, FALSE, tag, v) /\ Elsewhere(w, o, S, p)
      <4>1. /\ Buffers(Written(o, p, d, b, tag), S) /\ SlotInv(Written(o, p, d, b, tag), p, FALSE, tag, v)
            /\ Elsewhere(Written(o, p, d, b, tag), o, S, p)
        BY <2>3, <2>5, <3>3, SlotWritten
      <4>2. QED
        BY <2>6, <4>1
    <3>5. QED
      BY <3>2, <3>4 DEF Elsewhere
  <2>8. ASSUME NEW i \in Slots
        PROVE  SlotInv(w, i, asc[i] \in left \ {r}, tag, FrameOfKept[x][i])
    <3>1. CASE i = p
      BY <2>1, <2>4, <2>7, <3>1 DEF SlotInv
    <3>2. CASE i # p
      <4>1. asc[i] # r
        BY <1>2, <1>3, <2>1, <3>2
      <4>2. SlotInv(o, i, asc[i] \in left, tag, FrameOfKept[x][i])
        BY <1>1, <1>3, <2>2
      <4>3. w.data[i] = o.data[i] /\ w.valid[i] = o.valid[i]
        BY <2>7, <3>2
      <4>4. QED
        BY <4>1, <4>2, <4>3 DEF SlotInv
    <3>3. QED
      BY <3>1, <3>2
  <2>9. QED
    BY <1>3, <2>2, <2>7, <2>8
<1>6. QED
  BY <1>4, <1>5

\* The other slots keep what they hold.
LEMMA ScatterThreadSelects ==
  ASSUME Live, NEW r \in Rows, Thread(r), phase = "columns"
  PROVE  SelParts'
<1>1. /\ UNCHANGED <<case, phase, launch, keep, prefix, compacted>> /\ r \in left
      /\ out' = Effect(launch, r, out) /\ left' = left \ {r}
  BY DEF Thread
<1>2. launch # NoLaunch /\ Lowered
  BY <1>1, LiveFacts DEF Live, SelParts, IdleInv, Selecting
<1>3. /\ ScatterLaunch(launch, Dtype(launch.column)) /\ launch.nOut = NOut
  BY <1>2 DEF Live, SelParts, ColumnInv
<1>4. /\ Buffers(out', Slots)
      /\ \A i \in Slots : SlotInv(out', i, Ascending(Kept)[i] \in left \ {r}, Dtype(launch.column),
                                  FrameOfKept[launch.column][i])
  BY <1>1, <1>2, ScatterWrites
<1>5. /\ Rows' = Rows /\ Kept' = Kept /\ FrameOfKept' = FrameOfKept
      /\ NOut' = NOut /\ Slots' = Slots /\ Dtype(launch.column)' = Dtype(launch.column)
      /\ Ascending(Kept)' = Ascending(Kept)
  <2>1. Rows' = Rows /\ Kept' = Kept /\ FrameOfKept' = FrameOfKept
    BY <1>1, SameCase
  <2>2. NOut' = NOut
    BY <1>1 DEF NOut
  <2>3. QED
    BY <1>1, <2>1, <2>2 DEF Slots, Dtype
<1>6. ColumnInv'
  BY <1>1, <1>3, <1>4, <1>5 DEF ColumnInv, Buffers
<1>7. FlagInv' /\ DoneInv'
  BY <1>1, <1>5 DEF Live, SelParts, FlagInv, DoneInv
<1>8. IdleInv'
  BY <1>1, <1>2 DEF IdleInv
<1>9. QED
  BY <1>1, <1>2, <1>6, <1>7, <1>8, PartsOfPhase DEF Phases

LEMMA ThreadSelects ==
  ASSUME Live, NEW r \in Rows, Thread(r)
  PROVE  SelParts'
<1>1. r \in left
  BY DEF Thread
<1>2. phase \in {"predicate", "keep", "columns"}
  BY <1>1 DEF Live, SelParts, IdleInv
<1>3. QED
  BY <1>2, NodeThreadSelects, KeepThreadSelects, ScatterThreadSelects

-----------------------------------------------------------------------------
\* The wait for the device.

\* A finished output is the operand of its node.
LEMMA CollectNodeSelects ==
  ASSUME Live, Collect, phase = "predicate"
  PROVE  SelParts'
<1>1. /\ UNCHANGED <<case, at>> /\ phase' = "predicate" /\ stack' = Append(stack, out)
      /\ left = {} /\ launch # NoLaunch /\ launch' = NoLaunch /\ left' = {}
  <2>1. ~Overran
    BY DEF Overran, Live, IInv, LaunchInv
  <2>2. QED
    BY <2>1 DEF Collect, ReadBack
<1>2. Lowered
  BY LiveFacts DEF Selecting
<1>3. /\ Told(Truth, Rows, stack, at - 1)
      /\ at > 1 /\ Len(stack) + 1 = Depth(case.predicate, at - 1)
      /\ Underway(Truth, Rows, launch, left, out, at - 1, Len(stack) + 1)
  BY <1>1 DEF Live, SelParts, EvalInv
<1>4. out \in Bitmaps(Rows) /\ \A r \in Rows : Tells(out, r, Truth[r][at - 1][Len(stack) + 1])
  BY <1>1, <1>3 DEF Underway
<1>5. Told(Truth, Rows, stack', at - 1) /\ Len(stack') = Len(stack) + 1
  BY <1>1, <1>3, <1>4, ToldAppend
<1>6. EvalInv' /\ IdleInv'
  BY <1>1, <1>3, <1>5, SameCase DEF EvalInv, IdleInv
<1>7. QED
  BY <1>1, <1>2, <1>6, PartsOfPhase DEF Phases

LEMMA CollectKeepSelects ==
  ASSUME Live, Collect, phase = "keep"
  PROVE  SelParts'
<1>1. /\ UNCHANGED <<case, compacted>> /\ phase' = "prefix" /\ keep' = out.data
      /\ left = {} /\ launch' = NoLaunch /\ left' = {}
  <2>1. ~Overran
    BY DEF Overran, Live, IInv, LaunchInv
  <2>2. QED
    BY <2>1 DEF Collect, ReadBack
<1>2. Lowered
  BY LiveFacts DEF Selecting
<1>3. out \in Bitmaps(Rows) /\ \A r \in Rows : out.data[r] <=> r \in Kept
  BY <1>1 DEF Live, SelParts, KeepInv
<1>4. \A r \in Rows : out.data[r] \in BOOLEAN
  BY <1>3 DEF Bitmaps
<1>5. FlagInv' /\ IdleInv' /\ DoneInv'
  BY <1>1, <1>3, <1>4, SameCase DEF FlagInv, IdleInv, Live, SelParts, DoneInv
<1>6. QED
  BY <1>1, <1>2, <1>5, PartsOfPhase DEF Phases

\* A scatter that every row has passed through holds the column of the reference.
LEMMA CollectColumnSelects ==
  ASSUME Live, Collect, phase = "columns"
  PROVE  SelParts'
<1>1. /\ UNCHANGED <<case, phase, keep, prefix>> /\ compacted' = WithColumn(launch.column, Assembled)
      /\ left = {} /\ launch # NoLaunch /\ launch' = NoLaunch /\ left' = {}
  <2>1. ~Overran
    BY DEF Overran, Live, IInv, LaunchInv
  <2>2. QED
    BY <2>1 DEF Collect, ReadBack
<1>2. Lowered
  BY LiveFacts DEF Selecting
<1>3. PICK x \in Names : x = launch.column
  BY <1>1 DEF Live, IInv, LaunchInv
<1>4. /\ compacted = [y \in DOMAIN compacted |-> FrameOfKept[y]]
      /\ \A i \in Slots : SlotInv(out, i, FALSE, Dtype(x), FrameOfKept[x][i])
  <2>1. \A i \in Slots : ~(Ascending(Kept)[i] \in left)
    BY <1>1
  <2>2. /\ compacted = [y \in DOMAIN compacted |-> FrameOfKept[y]]
        /\ \A i \in Slots : SlotInv(out, i, Ascending(Kept)[i] \in left, Dtype(x), FrameOfKept[x][i])
    BY <1>1, <1>3 DEF Live, SelParts, ColumnInv, DoneInv
  <2>3. QED
    BY <2>1, <2>2 DEF SlotInv
<1>5. Assembled = FrameOfKept[x]
  <2>1. \A i \in Slots : (IF out.valid[i] THEN out.data[i] ELSE Null) = FrameOfKept[x][i]
    BY <1>4 DEF SlotInv
  <2>2. FrameOfKept[x] = [i \in Slots |-> FrameOfKept[x][i]]
    BY KeptColumn
  <2>3. Assembled = [i \in Slots |-> FrameOfKept[x][i]]
    BY <2>1 DEF Assembled
  <2>4. QED
    BY <2>2, <2>3
<1>6. compacted' = [y \in DOMAIN compacted' |-> FrameOfKept[y]]
  BY <1>1, <1>3, <1>4, <1>5 DEF WithColumn
<1>7. FrameOfKept' = FrameOfKept /\ Rows' = Rows /\ Kept' = Kept
  BY <1>1, SameCase
<1>8. ColumnInv'
  BY <1>1 DEF ColumnInv
<1>9. DoneInv' /\ FlagInv' /\ IdleInv'
  BY <1>1, <1>6, <1>7 DEF Live, SelParts, FlagInv, IdleInv, DoneInv
<1>10. QED
  BY <1>1, <1>2, <1>8, <1>9, PartsOfPhase DEF Phases

LEMMA CollectSelects ==
  ASSUME Live, Collect
  PROVE  SelParts'
<1>1. phase \in {"predicate", "keep", "columns"}
  BY DEF Collect, Live, SelParts, IdleInv
<1>2. QED
  BY <1>1, CollectNodeSelects, CollectKeepSelects, CollectColumnSelects

-----------------------------------------------------------------------------
\* The rest of the host.

LEMMA MakePrefixSelects ==
  ASSUME Live, MakePrefix
  PROVE  SelParts'
<1>1. /\ UNCHANGED <<case, keep, compacted>> /\ phase = "prefix" /\ phase' = "columns"
      /\ launch = NoLaunch /\ launch' = NoLaunch /\ left' = left
  BY DEF MakePrefix, Idle, device
<1>2. Lowered
  BY <1>1, LiveFacts DEF Selecting
<1>3. left = {}
  BY <1>1 DEF Live, SelParts, IdleInv
<1>4. Rows' = Rows /\ Kept' = Kept /\ FrameOfKept' = FrameOfKept
  BY <1>1, SameCase
<1>5. FlagInv' /\ IdleInv' /\ DoneInv'
  BY <1>1, <1>3, <1>4 DEF Live, SelParts, FlagInv, IdleInv, DoneInv
<1>6. ColumnInv'
  BY <1>1 DEF ColumnInv
<1>7. QED
  BY <1>1, <1>2, <1>5, <1>6, PartsOfPhase DEF Phases

LEMMA CompactEmptySelects ==
  ASSUME Live, NEW x \in Names, CompactEmpty(x)
  PROVE  SelParts'
<1>1. /\ UNCHANGED <<case, keep, prefix, phase, launch, left>> /\ phase = "columns"
      /\ launch = NoLaunch /\ NOut = 0 /\ compacted' = WithColumn(x, <<>>)
  BY DEF CompactEmpty, Idle, device, ColumnsUnchanged
<1>2. Lowered
  BY <1>1, LiveFacts DEF Selecting
<1>3. left = {} /\ Rows' = Rows /\ Kept' = Kept /\ FrameOfKept' = FrameOfKept
  BY <1>1, SameCase DEF Live, SelParts, IdleInv
<1>4. FrameOfKept[x] = <<>>
  <2>1. Slots = {}
    BY <1>1 DEF Slots
  <2>2. FrameOfKept[x] = [i \in {} |-> Value(x, Ascending(Kept)[i])]
    BY <1>1, <2>1, KeptColumn
  <2>3. QED
    BY <2>2
<1>5. compacted' = [y \in DOMAIN compacted' |-> FrameOfKept[y]]
  <2>1. compacted = [y \in DOMAIN compacted |-> FrameOfKept[y]]
    BY <1>1 DEF Live, SelParts, DoneInv
  <2>2. QED
    BY <1>1, <1>4, <2>1 DEF WithColumn
<1>6. DoneInv' /\ FlagInv' /\ IdleInv' /\ ColumnInv'
  BY <1>1, <1>3, <1>5 DEF Live, SelParts, FlagInv, IdleInv, DoneInv, ColumnInv
<1>7. QED
  BY <1>1, <1>2, <1>6, PartsOfPhase DEF Phases

\* Zeroed outputs hold nothing of any row.
LEMMA CompactColumnSelects ==
  ASSUME Live, NEW x \in Names, CompactColumn(x)
  PROVE  SelParts'
<1>1. /\ UNCHANGED <<case, keep, prefix, phase, compacted>> /\ phase = "columns"
      /\ \/ Dtype(x) = "I64"  /\ Dispatch(ScatterI64(x), ScatterZeroes(0))
         \/ Dtype(x) = "F64"  /\ Dispatch(ScatterF64(x), ScatterZeroes(0))
         \/ Dtype(x) = "Bool" /\ Dispatch(ScatterBool(x), ScatterZeroes(FALSE))
  BY DEF CompactColumn, Idle, ColumnsUnchanged
<1>2. Lowered
  BY <1>1, LiveFacts DEF Selecting
<1>0. PICK zero : zero = IF Dtype(x) = "Bool" THEN FALSE ELSE 0
  OBVIOUS
<1>3. /\ left' = Rows /\ out' = ScatterZeroes(zero)
      /\ ScatterLaunch(launch', Dtype(x)) /\ launch'.column = x /\ launch'.nOut = NOut
      /\ launch' # NoLaunch
  <2>1. CASE Dtype(x) = "I64"
    BY <1>0, <1>1, <2>1 DEF Dispatch, ScatterI64, ScatterLaunch, NoLaunch
  <2>2. CASE Dtype(x) = "F64"
    BY <1>0, <1>1, <2>2 DEF Dispatch, ScatterF64, ScatterLaunch, NoLaunch
  <2>3. CASE Dtype(x) = "Bool"
    BY <1>0, <1>1, <2>3 DEF Dispatch, ScatterBool, ScatterLaunch, NoLaunch
  <2>4. QED
    BY <1>1, <2>1, <2>2, <2>3
<1>4. /\ Rows' = Rows /\ Kept' = Kept /\ FrameOfKept' = FrameOfKept
      /\ NOut' = NOut /\ Slots' = Slots /\ Dtype(x)' = Dtype(x)
      /\ Ascending(Kept)' = Ascending(Kept)
  <2>1. Rows' = Rows /\ Kept' = Kept /\ FrameOfKept' = FrameOfKept
    BY <1>1, SameCase
  <2>2. NOut' = NOut
    BY <1>1 DEF NOut
  <2>3. QED
    BY <1>1, <1>3, <2>1, <2>2 DEF Slots, Dtype
<1>5. Buffers(out', Slots) /\ \A i \in Slots : ~out'.valid[i] /\ out'.data[i] = zero
  BY <1>3 DEF ScatterZeroes, Buffers
<1>6. \A i \in Slots : Ascending(Kept)[i] \in left'
  <2>1. \A i \in Slots : Ascending(Kept)[i] \in Kept
    BY <1>1, Survivors
  <2>2. QED
    BY <1>3, <2>1 DEF Kept
<1>7. \A i \in Slots : \A v : SlotInv(out', i, Ascending(Kept)[i] \in left', Dtype(x), v)
  BY <1>0, <1>3, <1>5, <1>6 DEF SlotInv
<1>8. ColumnInv'
  BY <1>3, <1>4, <1>5, <1>7 DEF ColumnInv, Buffers
<1>9. DoneInv' /\ FlagInv' /\ IdleInv'
  BY <1>1, <1>3, <1>4 DEF Live, SelParts, FlagInv, IdleInv, DoneInv
<1>10. QED
  BY <1>1, <1>2, <1>8, <1>9, PartsOfPhase DEF Phases

\* Whatever raises leaves no launch behind.
LEMMA RaiseSelects ==
  ASSUME Live, (\E x \in Names : CompactUnsupported(x)) \/ DeviceFault
  PROVE  SelParts'
<1>1. UNCHANGED case /\ Raise
  BY DEF CompactUnsupported, DeviceFault, ColumnsUnchanged
<1>2. launch' = NoLaunch /\ left' = {} /\ phase' \in {"enter", "failed"}
  BY <1>1 DEF Raise, Call
<1>3. phase \in {"predicate", "keep", "prefix", "columns"}
  BY DEF CompactUnsupported, DeviceFault, Idle, Live, SelParts, IdleInv
<1>4. Lowered
  BY <1>3, LiveFacts DEF Selecting
<1>5. IdleInv'
  BY <1>2 DEF IdleInv
<1>6. QED
  BY <1>1, <1>2, <1>4, <1>5, PartsOfPhase DEF Phases

\* When no column remains, the frame is that of the reference.
LEMMA FinishSelects ==
  ASSUME Live, Finish
  PROVE  SelParts'
<1>1. /\ UNCHANGED <<case, launch, left>> /\ phase = "columns" /\ launch = NoLaunch
      /\ phase' = "answered" /\ result' = compacted /\ Remaining = {}
  BY DEF Finish, Answer, Idle, device
<1>2. DOMAIN compacted = Names
  BY <1>1 DEF Remaining, Live, IInv, Typed, TypeOK
<1>3. compacted = FrameOfKept
  <2>1. compacted = [x \in Names |-> FrameOfKept[x]]
    BY <1>1, <1>2 DEF Live, SelParts, DoneInv
  <2>2. FrameOfKept = [x \in Names |-> FrameOfKept[x]]
    BY DEF FrameOfKept, Selected
  <2>3. QED
    BY <2>1, <2>2
<1>4. FilterIsKept' /\ IdleInv'
  BY <1>1, <1>3, SameCase DEF FilterIsKept, Live, SelParts, IdleInv
<1>5. QED
  BY <1>1, <1>4, PartsOfPhase DEF Phases

LEMMA WalkSelects ==
  ASSUME Live, Walk
  PROVE  SelParts'
<1>1. /\ UNCHANGED <<case, launch, left>> /\ phase = "walk"
      /\ phase' \in {"enter", "answered"} /\ (phase' = "enter" <=> Lowered)
  BY DEF Walk, Answer, device
<1>2. IdleInv'
  BY <1>1 DEF Live, SelParts, IdleInv
<1>3. phase' = "answered" => FilterIsKept'
  <2>1. Lowered' <=> Lowered
    BY <1>1, SameCase
  <2>2. QED
    BY <1>1, <2>1 DEF FilterIsKept, Answered
<1>4. QED
  BY <1>1, <1>2, <1>3, PartsOfPhase DEF Phases

\* No node is evaluated when a function is entered, and none has to be over no rows.
LEMMA EnterSelects ==
  ASSUME Live, EnterCompact \/ EnterPolars
  PROVE  SelParts'
<1>1. /\ UNCHANGED <<case, launch, left>> /\ phase = "enter" /\ at' = 1 /\ stack' = <<>>
      /\ phase' \in {"predicate", "enter", "failed", "answered"}
      /\ phase' = "answered" => case.height = 0 /\ result' = Selected(<<>>)
  BY DEF EnterCompact, EnterPolars, Call, Answer, device
<1>2. Lowered /\ launch = NoLaunch /\ left = {}
  BY <1>1, LiveFacts DEF Selecting, Live, SelParts, IdleInv
<1>3. IdleInv'
  BY <1>1, <1>2 DEF IdleInv
<1>4. EvalInv'
  <2>1. Told(Truth', Rows', <<>>, 0)
    BY DEF Told
  <2>2. Depth(case.predicate, 0) = 0
    BY LiveFacts, DepthStep
  <2>3. at' - 1 = 0 /\ Len(<<>>) = 0 /\ launch' = NoLaunch
    BY <1>1, <1>2
  <2>4. QED
    BY <1>1, <2>1, <2>2, <2>3 DEF EvalInv
<1>5. phase' = "answered" => FilterIsKept'
  <2>1. SUFFICES ASSUME phase' = "answered" PROVE result' = FrameOfKept'
    BY DEF FilterIsKept
  <2>2. Rows = {}
    BY <1>1, <2>1 DEF Rows
  <2>3. Kept = {} /\ Kept = {r \in Rows : IeeeValue(r) = TRUE}
    BY <2>2 DEF Kept
  <2>4. Ascending({}) = <<>>
    BY FS_EmptySet DEF Ascending
  <2>5. FrameOfKept = Selected(<<>>)
    BY <2>3, <2>4 DEF FrameOfKept
  <2>6. QED
    BY <1>1, <2>1, <2>5, SameCase
<1>6. QED
  BY <1>1, <1>2, <1>3, <1>4, <1>5, PartsOfPhase DEF Phases

LEMMA StutterSelects ==
  ASSUME Live, UNCHANGED vars
  PROVE  SelParts'
<1>1. UNCHANGED <<case, phase, at, stack, launch, left, out, keep, prefix, compacted, result>>
  BY DEF vars
<1>2. /\ Rows' = Rows /\ Truth' = Truth /\ Kept' = Kept /\ FrameOfKept' = FrameOfKept
      /\ (Lowered' <=> Lowered) /\ \A x : Dtype(x)' = Dtype(x)
  BY <1>1, SameCase
<1>3. NOut' = NOut /\ Slots' = Slots /\ Dtype(launch.column)' = Dtype(launch.column)
  BY <1>1, <1>2 DEF NOut, Slots, Dtype
<1>4. IdleInv' /\ LoweredInv' /\ EvalInv' /\ KeepInv' /\ FlagInv' /\ DoneInv'
  BY <1>1, <1>2 DEF Live, SelParts, IdleInv, LoweredInv, EvalInv, KeepInv, FlagInv, DoneInv
<1>5. ColumnInv'
  BY <1>1, <1>2, <1>3 DEF Live, SelParts, ColumnInv
<1>6. FilterIsKept'
  BY <1>1, <1>2 DEF Live, SelParts, FilterIsKept, Answered
<1>7. QED
  BY <1>4, <1>5, <1>6 DEF SelParts

-----------------------------------------------------------------------------
LEMMA InitSelInv == Init => SelInv
<1> SUFFICES ASSUME Init PROVE SelParts
  BY DEF SelInv
<1>1. phase = "walk" /\ launch = NoLaunch /\ left = {}
  BY DEF Init
<1>2. QED
  BY <1>1 DEF SelParts, IdleInv, LoweredInv, EvalInv, KeepInv, FlagInv, DoneInv, ColumnInv,
              FilterIsKept, Answered

\* Every step keeps the invariant.
LEMMA NextSelInv == IInv /\ SelInv /\ [Next]_vars => SelInv'
<1> SUFFICES ASSUME IInv, SelInv, [Next]_vars, case'.predicate # <<>> PROVE SelParts'
  BY DEF SelInv
<1>1. case' = case
  BY DEF Next, Step, Walk, EnterCompact, EnterPolars, EvalColumn, EvalCompare, EvalLogical, EvalKernel,
         PredicateUnchanged, MaskInPolars, MakeKeep, MakePrefix, CompactEmpty, CompactColumn,
         CompactUnsupported, ColumnsUnchanged, Finish, Thread, Collect, DeviceFault, vars
<1>2. Live
  BY <1>1 DEF Live, SelInv
<1>3. CASE Walk \/ EnterCompact \/ EnterPolars
  BY <1>2, <1>3, WalkSelects, EnterSelects
<1>4. CASE EvalColumn \/ EvalCompare \/ EvalLogical
  BY <1>2, <1>4, EvalColumnSelects, EvalCompareSelects, EvalLogicalSelects
<1>5. CASE MaskInPolars \/ MakeKeep \/ MakePrefix \/ Finish
  BY <1>2, <1>5, MaskSelects, MakeKeepSelects, MakePrefixSelects, FinishSelects
<1>6. CASE \E x \in Names : CompactEmpty(x) \/ CompactColumn(x) \/ CompactUnsupported(x)
  BY <1>2, <1>6, CompactEmptySelects, CompactColumnSelects, RaiseSelects
<1>7. CASE \E r \in Rows : Thread(r)
  BY <1>2, <1>7, ThreadSelects
<1>8. CASE Collect
  BY <1>2, <1>8, CollectSelects
<1>9. CASE DeviceFault
  BY <1>2, <1>9, RaiseSelects
<1>10. CASE UNCHANGED vars
  BY <1>2, <1>10, StutterSelects
<1>11. QED
  BY <1>3, <1>4, <1>5, <1>6, <1>7, <1>8, <1>9, <1>10 DEF Next, Step

LEMMA KeptOfAnswer == IInv /\ SelInv => FilterIsKept
BY DEF SelInv, SelParts, FilterIsKept, Answered

-----------------------------------------------------------------------------
\* On a row without a NaN to compare, the comparisons of IEEE 754 are those of Polars.

LEMMA KleeneEquation ==
  ASSUME Len(case.predicate) \in Nat, NEW r
  PROVE  KleeneStacks(r) = [i \in 0..Len(case.predicate) |->
           IF i = 0 THEN <<>> ELSE KleenePush(KleeneStacks(r)[i - 1], case.predicate[i], r)]
<1> DEFINE Pushes(h, m) == h = [i \in 0..m |->
             IF i = 0 THEN <<>> ELSE KleenePush(h[i - 1], case.predicate[i], r)]
           G == {m \in Nat : \E h : Pushes(h, m)}
<1>1. 0 \in G
  <2>1. Pushes([n \in {0} |-> <<>>], 0)
    OBVIOUS
  <2>2. QED
    BY <2>1
<1>2. ASSUME NEW m \in G PROVE m + 1 \in G
  <2>1. PICK h : Pushes(h, m)
    BY <1>2
  <2> DEFINE longer == [i \in 0..(m + 1) |->
               IF i = m + 1 THEN KleenePush(h[m], case.predicate[m + 1], r) ELSE h[i]]
  <2>2. Pushes(longer, m + 1)
    BY <2>1
  <2>3. \E g : Pushes(g, m + 1)
    <3> HIDE DEF longer, Pushes
    <3>1. QED
      BY <2>2
  <2> HIDE DEF longer, Pushes
  <2>4. QED
    BY <2>3
<1>3. G = Nat
  <2>1. G \in SUBSET Nat
    OBVIOUS
  <2> HIDE DEF G
  <2>2. QED
    BY <1>1, <1>2, <2>1, NumberInduction
<1>4. \E h : Pushes(h, Len(case.predicate))
  BY <1>3
<1>5. QED
  BY <1>4 DEF KleeneStacks

LEMMA PushesAgree ==
  ASSUME Selecting, NEW r \in Rows \ NanRows, NEW i \in 1..Len(case.predicate), NEW st
  PROVE  IeeePush(st, case.predicate[i], r) = KleenePush(st, case.predicate[i], r)
<1>1. PICK n : n = case.predicate[i]
  OBVIOUS
<1>2. ~ComparesNan(n, r)
  BY <1>1, CaseFacts DEF NanRows
<1>3. CASE n.kind # "Compare"
  BY <1>1, <1>3 DEF IeeePush, KleenePush
<1>4. CASE n.kind = "Compare"
  <2>1. PICK u, v : u = LeafValue(n.lhs, r) /\ v = LeafValue(n.rhs, r)
    OBVIOUS
  <2>2. u = Null \/ v = Null \/ LeafDtype(n.lhs) # "F64" \/ (~IsNan(u) /\ ~IsNan(v))
    BY <1>2, <1>4, <2>1 DEF ComparesNan
  <2>3. ~IsNan(u) /\ ~IsNan(v) => IeeeCompare(n.op, u, v) = PolarsCompare(n.op, u, v)
    BY DEF IeeeCompare, PolarsCompare
  <2>4. IeeeCompared(n, r) = KleeneCompare(n, r)
    BY <2>1, <2>2, <2>3 DEF IeeeCompared, KleeneCompare
  <2>5. QED
    BY <1>1, <1>4, <2>4 DEF IeeePush, KleenePush
<1>5. QED
  BY <1>3, <1>4

LEMMA SameTruth ==
  ASSUME UNCHANGED case
  PROVE  TrueRows' = TrueRows /\ NanRows' = NanRows
BY DEF TrueRows, NanRows, Rows, ComparesNan, LeafValue, LeafDtype, Dtype, Value, KleeneValue,
       KleeneStacks, KleenePush, KleeneCompare

LEMMA StacksAgree ==
  ASSUME Selecting, NEW r \in Rows \ NanRows
  PROVE  IeeeValue(r) = KleeneValue(r)
<1> DEFINE N == Len(case.predicate)
           G == {m \in Nat : m <= N => IeeeStacks(r)[m] = KleeneStacks(r)[m]}
<1>1. N \in Nat
  BY CaseFacts
<1>2. /\ IeeeStacks(r)[0] = <<>> /\ KleeneStacks(r)[0] = <<>>
      /\ \A i \in 1..N : /\ IeeeStacks(r)[i] = IeeePush(IeeeStacks(r)[i - 1], case.predicate[i], r)
                         /\ KleeneStacks(r)[i] = KleenePush(KleeneStacks(r)[i - 1], case.predicate[i], r)
  <2>1. \A i \in 0..N : KleeneStacks(r)[i] =
          IF i = 0 THEN <<>> ELSE KleenePush(KleeneStacks(r)[i - 1], case.predicate[i], r)
    BY <1>1, KleeneEquation
  <2>2. QED
    BY <1>1, <2>1, IeeeStep
<1>3. 0 \in G
  BY <1>2
<1>4. ASSUME NEW m \in G PROVE m + 1 \in G
  <2>1. SUFFICES ASSUME m + 1 <= N PROVE IeeeStacks(r)[m + 1] = KleeneStacks(r)[m + 1]
    OBVIOUS
  <2>2. m \in Nat /\ m + 1 \in 1..N /\ (m + 1) - 1 = m
    BY <1>1, <2>1
  <2>3. IeeeStacks(r)[m] = KleeneStacks(r)[m]
    BY <1>1, <2>1, <2>2
  <2>4. PICK st : st = IeeeStacks(r)[m]
    OBVIOUS
  <2>5. IeeePush(st, case.predicate[m + 1], r) = KleenePush(st, case.predicate[m + 1], r)
    BY <2>2, PushesAgree
  <2>6. /\ IeeeStacks(r)[m + 1] = IeeePush(st, case.predicate[m + 1], r)
        /\ KleeneStacks(r)[m + 1] = KleenePush(st, case.predicate[m + 1], r)
    BY <1>2, <2>2, <2>3, <2>4
  <2>7. QED
    BY <2>5, <2>6
<1>5. G = Nat
  <2>1. G \in SUBSET Nat
    OBVIOUS
  <2> HIDE DEF G
  <2>2. QED
    BY <1>3, <1>4, <2>1, NumberInduction
<1>6. QED
  BY <1>1, <1>5 DEF IeeeValue, KleeneValue

\* What the kernels keep is a selection, and Polars' where no NaN is compared.
LEMMA KeptIsSelection ==
  ASSUME Selecting
  PROVE  Kept \in Selections /\ (NanRows = {} => Kept = TrueRows)
<1>1. NanRows \subseteq Rows
  BY DEF NanRows
<1>2. \A r \in Rows \ NanRows : r \in Kept <=> r \in TrueRows
  BY StacksAgree DEF Kept, TrueRows
<1>3. PICK S : S = Kept \cap NanRows
  OBVIOUS
<1>4. Kept = (TrueRows \ NanRows) \cup S
  BY <1>1, <1>2, <1>3 DEF Kept, TrueRows
<1>5. Kept \in Selections
  BY <1>3, <1>4 DEF Selections
<1>6. QED
  BY <1>2, <1>5 DEF Kept, TrueRows

LEMMA SelectionOfAnswer == IInv /\ SelInv => FilterIsSelection
<1>1. SUFFICES ASSUME IInv, SelInv, Answered
               PROVE  \E S \in Selections : result = Selected(Ascending(S))
  BY DEF FilterIsSelection
<1>2. Selecting
  BY <1>1 DEF Answered, Selecting, IInv, Typed
<1>3. result = Selected(Ascending(Kept))
  BY <1>1, KeptOfAnswer DEF FilterIsKept, FrameOfKept
<1>4. QED
  BY <1>2, <1>3, KeptIsSelection

\* Whatever the frame, the predicate, the format of floats and the order of the threads, and
\* through every fallback, _dispatch_filter answers with the rows on which the predicate is
\* true in Kleene's logic and Polars' comparisons, but for rows whose NaNs it compares.
THEOREM FiltersSelect == Spec => []FilterIsSelection
<1>1. Init => IInv /\ SelInv
  BY InitIInv, InitSelInv
<1>2. IInv /\ SelInv /\ [Next]_vars => (IInv /\ SelInv)'
  BY NextIInv, NextSelInv
<1>3. QED
  BY <1>1, <1>2, SelectionOfAnswer, PTL DEF Spec

-----------------------------------------------------------------------------
\* The key encoding.

\* The bits of column i: its flag, then its data.
FieldRange(i) == fields[i].nullAt..(fields[i].dataAt + Width(columns[i]) - 1)

\* The fields laid out so far follow each other without overlap, below offset ...
LayoutInv ==
  /\ fields \in Seq([nullAt : Nat, dataAt : Nat]) /\ Len(fields) <= Len(columns)
  /\ offset \in Nat
  /\ \A i \in 1..Len(fields) : /\ fields[i].dataAt = fields[i].nullAt + 1
                             /\ fields[i].dataAt + Width(columns[i]) <= offset
  /\ \A j \in 1..Len(fields) : \A i \in 1..(j - 1) :
       fields[i].dataAt + Width(columns[i]) <= fields[j].nullAt

\* ... and the lanes were made when every column had its field.
EncInv ==
  /\ WellFormed(columns) /\ LayoutInv
  /\ encoding = "done" => Len(fields) = Len(columns) /\ encoded = [r \in KeyRows |-> Lane(r)]

-----------------------------------------------------------------------------
LEMMA WidthPositive ==
  ASSUME WellFormed(columns), NEW i \in 1..Len(columns)
  PROVE  Width(columns[i]) \in Nat /\ Width(columns[i]) > 0
BY DEF WellFormed, Width, KeyDtypes, DataBits

LEMMA ColumnFacts ==
  ASSUME WellFormed(columns)
  PROVE  Len(columns) \in Nat /\ DOMAIN columns = 1..Len(columns)
BY DEF WellFormed

LEMMA Elements ==
  ASSUME NEW S, NEW s \in Seq(S)
  PROVE  Len(s) \in Nat /\ \A i \in 1..Len(s) : s[i] \in S
OBVIOUS

LEMMA FieldTypes ==
  ASSUME LayoutInv
  PROVE  /\ Len(fields) \in Nat
         /\ \A i \in 1..Len(fields) : fields[i].nullAt \in Nat /\ fields[i].dataAt \in Nat
<1>1. fields \in Seq([nullAt : Nat, dataAt : Nat])
  BY DEF LayoutInv
<1>2. Len(fields) \in Nat /\ \A i \in 1..Len(fields) : fields[i] \in [nullAt : Nat, dataAt : Nat]
  BY <1>1, Elements
<1>3. QED BY <1>2

LEMMA InitEnc == EncodeInit => EncInv
<1> SUFFICES ASSUME EncodeInit PROVE EncInv
  OBVIOUS
<1>1. columns = <<>> /\ fields = <<>> /\ offset = 0 /\ encoding = "idle"
  BY DEF EncodeInit
<1>2. WellFormed(columns)
  BY <1>1 DEF WellFormed
<1>3. LayoutInv
  BY <1>1 DEF LayoutInv
<1>4. QED BY <1>1, <1>2, <1>3 DEF EncInv

LEMMA EncodeSteps == Encode => EncInv'
<1> SUFFICES ASSUME Encode PROVE EncInv'
  OBVIOUS
<1>1. WellFormed(columns)' /\ fields' = <<>> /\ offset' = 0 /\ encoding' # "done"
  BY DEF Encode, WellFormed, Width
<1>2. Len(columns)' \in Nat
  BY <1>1 DEF WellFormed
<1>3. LayoutInv'
  BY <1>1, <1>2 DEF LayoutInv
<1>4. QED BY <1>1, <1>3 DEF EncInv

\* The new field starts where the last one, and so every one before it, ends.
LEMMA FieldSteps == EncInv /\ AddField => EncInv'
<1> SUFFICES ASSUME EncInv, AddField PROVE EncInv'
  OBVIOUS
<1> DEFINE n == Len(fields)
           f == [nullAt |-> offset, dataAt |-> offset + 1]
<1>1. /\ WellFormed(columns) /\ LayoutInv /\ n < Len(columns)
      /\ Len(columns) \in Nat /\ n \in Nat
      /\ columns' = columns /\ encoding = "layout" /\ encoding' = encoding
      /\ fields' = Append(fields, f) /\ offset' = offset + 1 + Width(columns[n + 1])
  <2>1. WellFormed(columns) /\ LayoutInv
    BY DEF EncInv
  <2>2. Len(columns) \in Nat /\ n \in Nat
    BY <2>1, ColumnFacts, FieldTypes
  <2>3. QED BY <2>1, <2>2 DEF AddField, LayingOut, FieldEnd, NextColumn
<1>2. f \in [nullAt : Nat, dataAt : Nat] /\ fields \in Seq([nullAt : Nat, dataAt : Nat])
  BY <1>1 DEF LayoutInv
<1>3. /\ fields' \in Seq([nullAt : Nat, dataAt : Nat]) /\ Len(fields') = n + 1
      /\ \A i \in 1..n : fields'[i] = fields[i]
      /\ fields'[n + 1] = f
  BY <1>1, <1>2
<1>4. \A i \in 1..(n + 1) : Width(columns[i]) \in Nat
  BY <1>1, WidthPositive
<1>5. \A i \in 1..(n + 1) : i \in 1..n \/ i = n + 1
  BY <1>1
<1>6. \A i \in 1..(n + 1) : /\ fields'[i].dataAt = fields'[i].nullAt + 1
                            /\ fields'[i].dataAt + Width(columns[i]) <= offset'
  <2> SUFFICES ASSUME NEW i \in 1..(n + 1)
               PROVE  /\ fields'[i].dataAt = fields'[i].nullAt + 1
                      /\ fields'[i].dataAt + Width(columns[i]) <= offset'
    OBVIOUS
  <2>1. CASE i = n + 1
    BY <2>1, <1>1, <1>3, <1>4 DEF LayoutInv
  <2>2. CASE i \in 1..n
    <3>1. fields[i].dataAt = fields[i].nullAt + 1 /\ fields[i].dataAt + Width(columns[i]) <= offset
      BY <2>2, <1>1 DEF LayoutInv
    <3>2. fields[i].dataAt \in Nat /\ offset \in Nat /\ Width(columns[i]) \in Nat
          /\ Width(columns[n + 1]) \in Nat
      <4>1. i \in 1..(n + 1) /\ n + 1 \in 1..(n + 1)
        BY <2>2, <1>1
      <4>2. QED BY <4>1, <2>2, <1>1, <1>4, FieldTypes DEF LayoutInv
    <3>3. fields'[i] = fields[i] /\ offset' = offset + 1 + Width(columns[n + 1])
      BY <2>2, <1>1, <1>3
    <3>4. QED BY <3>1, <3>2, <3>3
  <2>3. QED BY <2>1, <2>2, <1>5
<1>7. \A j \in 1..(n + 1) : \A i \in 1..(j - 1) :
        fields'[i].dataAt + Width(columns[i]) <= fields'[j].nullAt
  <2> SUFFICES ASSUME NEW j \in 1..(n + 1), NEW i \in 1..(j - 1)
               PROVE  fields'[i].dataAt + Width(columns[i]) <= fields'[j].nullAt
    OBVIOUS
  <2>1. i \in 1..n
    BY <1>1
  <2>2. CASE j = n + 1
    BY <2>1, <2>2, <1>1, <1>3 DEF LayoutInv
  <2>3. CASE j \in 1..n
    BY <2>1, <2>3, <1>1, <1>3 DEF LayoutInv
  <2>4. QED BY <2>2, <2>3, <1>5
<1>8. LayoutInv'
  <2>1. offset' \in Nat /\ Len(fields') <= Len(columns)
    <3>1. Width(columns[n + 1]) \in Nat
      BY <1>1, <1>4
    <3>2. QED BY <3>1, <1>1, <1>3 DEF LayoutInv
  <2>2. QED BY <2>1, <1>1, <1>3, <1>6, <1>7 DEF LayoutInv, Width
<1>9. WellFormed(columns)' /\ encoding' # "done"
  BY <1>1 DEF WellFormed, Width
<1>10. QED BY <1>8, <1>9 DEF EncInv

LEMMA RowSteps == EncInv /\ (TooWide \/ EncodeRows \/ UNCHANGED encoder) => EncInv'
<1> SUFFICES ASSUME EncInv, TooWide \/ EncodeRows \/ UNCHANGED encoder PROVE EncInv'
  OBVIOUS
<1>1. columns' = columns /\ fields' = fields /\ offset' = offset
  BY DEF TooWide, EncodeRows, encoder
<1>2. WellFormed(columns)' /\ LayoutInv'
  BY <1>1 DEF EncInv, WellFormed, LayoutInv, Width
<1>3. encoding' = "done" =>
        Len(fields) = Len(columns) /\ encoded' = [r \in KeyRows |-> Lane(r)]
  BY DEF EncInv, TooWide, EncodeRows, encoder
<1>4. QED BY <1>1, <1>2, <1>3 DEF EncInv, KeyRows, Lane, FieldBits

LEMMA EncInvariant == EncodeSpec => []EncInv
<1>1. EncInv /\ [Encode \/ EncodeStep]_encoder => EncInv'
  BY EncodeSteps, FieldSteps, RowSteps DEF EncodeStep
<1>2. QED BY InitEnc, <1>1, PTL DEF EncodeSpec

-----------------------------------------------------------------------------
\* Bits of a lane in the range of a field come from that field.
LEMMA OwnBits ==
  ASSUME EncInv, encoding = "done",
         NEW r \in KeyRows, NEW i \in DOMAIN columns, NEW p \in FieldRange(i)
  PROVE  p \in encoded[r] <=> p \in FieldBits(i, r)
<1>1. /\ DOMAIN fields = DOMAIN columns /\ DOMAIN columns = 1..Len(columns)
      /\ Len(columns) \in Nat /\ encoded[r] = Lane(r) /\ Len(fields) = Len(columns)
      /\ fields \in Seq([nullAt : Nat, dataAt : Nat])
  BY DEF EncInv, LayoutInv, WellFormed
<1>2. \A k \in DOMAIN columns : /\ fields[k].nullAt \in Nat /\ fields[k].dataAt \in Nat
                                /\ fields[k].dataAt = fields[k].nullAt + 1
                                /\ Width(columns[k]) \in Nat /\ Width(columns[k]) > 0
  <2>1. \A k \in DOMAIN columns : Width(columns[k]) \in Nat /\ Width(columns[k]) > 0
    BY <1>1, WidthPositive DEF EncInv
  <2>2. LayoutInv
    BY DEF EncInv
  <2>3. \A k \in DOMAIN columns : fields[k].dataAt = fields[k].nullAt + 1
    BY <2>2, <1>1 DEF LayoutInv
  <2>4. QED BY <2>1, <2>2, <2>3, <1>1, FieldTypes
<1>3. ASSUME NEW k \in DOMAIN columns, NEW s \in FieldBits(k, r)
      PROVE  s \in FieldRange(k)
  <2>1. CASE columns[k].valid[r]
    <3>1. columns[k].data[r] \subseteq 0..(Width(columns[k]) - 1)
      BY DEF EncInv, WellFormed, KeyRows
    <3>2. PICK b \in columns[k].data[r] : s = fields[k].dataAt + b
      BY <2>1 DEF FieldBits
    <3>3. b \in 0..(Width(columns[k]) - 1)
      BY <3>1, <3>2
    <3>4. QED BY <3>2, <3>3, <1>2 DEF FieldRange
  <2>2. CASE ~columns[k].valid[r]
    BY <2>2, <1>2 DEF FieldBits, FieldRange
  <2>3. QED BY <2>1, <2>2
<1>4. ASSUME NEW k \in DOMAIN columns, k # i
      PROVE  p \notin FieldRange(k)
  <2>1. k \in 1..(i - 1) \/ i \in 1..(k - 1)
    BY <1>1, <1>4
  <2>2. \/ fields[k].dataAt + Width(columns[k]) <= fields[i].nullAt
        \/ fields[i].dataAt + Width(columns[i]) <= fields[k].nullAt
    BY <2>1, <1>1 DEF EncInv, LayoutInv
  <2>3. p \in Int /\ fields[i].nullAt <= p /\ p <= fields[i].dataAt + Width(columns[i]) - 1
    BY <1>2 DEF FieldRange
  <2>4. QED BY <2>2, <2>3, <1>2 DEF FieldRange
<1>5. ASSUME p \in Lane(r) PROVE p \in FieldBits(i, r)
  <2>1. PICK k \in DOMAIN columns : p \in FieldBits(k, r)
    BY <1>1, <1>5 DEF Lane
  <2>2. QED BY <2>1, <1>3, <1>4
<1>6. ASSUME p \in FieldBits(i, r) PROVE p \in Lane(r)
  BY <1>1, <1>6 DEF Lane
<1>7. QED BY <1>1, <1>5, <1>6

LEMMA DecodesOwn ==
  ASSUME EncInv, encoding = "done", NEW r \in KeyRows, NEW i \in DOMAIN columns
  PROVE  Decode(i, encoded[r]) = [valid |-> columns[i].valid[r],
                                  data  |-> IF columns[i].valid[r] THEN columns[i].data[r]
                                                                   ELSE {}]
<1> DEFINE n == fields[i].nullAt
           d == fields[i].dataAt
           w == Width(columns[i])
<1>1. n \in Nat /\ d = n + 1 /\ w \in Nat /\ w > 0
  <2>1. WellFormed(columns) /\ LayoutInv /\ i \in 1..Len(columns) /\ Len(fields) = Len(columns)
    BY ColumnFacts DEF EncInv
  <2>2. d = n + 1
    BY <2>1 DEF LayoutInv
  <2>3. QED BY <2>1, <2>2, FieldTypes, WidthPositive
<1>2. /\ columns[i].valid[r] \in BOOLEAN
      /\ columns[i].data[r] \subseteq 0..(w - 1)
  BY DEF EncInv, WellFormed, KeyRows
<1>3. n \in FieldRange(i) /\ \A b \in 0..(w - 1) : d + b \in FieldRange(i)
  BY <1>1 DEF FieldRange
<1>4. CASE columns[i].valid[r]
  <2>1. FieldBits(i, r) = {d + b : b \in columns[i].data[r]}
    BY <1>4 DEF FieldBits
  <2>2. n \notin encoded[r]
    <3>1. \A b \in columns[i].data[r] : n # d + b
      BY <1>1, <1>2
    <3>2. QED BY <2>1, <3>1, <1>3, OwnBits
  <2>3. ASSUME NEW b \in 0..(w - 1)
        PROVE  d + b \in encoded[r] <=> b \in columns[i].data[r]
    <3>1. d + b \in FieldRange(i)
      BY <1>3
    <3>2. d + b \in encoded[r] <=> d + b \in FieldBits(i, r)
      BY <3>1, OwnBits
    <3>3. \A c \in columns[i].data[r] : d + b = d + c => b = c
      BY <1>1, <1>2
    <3>4. QED BY <2>1, <3>2, <3>3
  <2>4. {b \in 0..(w - 1) : d + b \in encoded[r]} = columns[i].data[r]
    BY <2>3, <1>2
  <2>5. QED BY <2>2, <2>4, <1>4, <1>2 DEF Decode
<1>5. CASE ~columns[i].valid[r]
  <2>1. n \in encoded[r]
    BY <1>3, <1>5, OwnBits DEF FieldBits
  <2>2. QED BY <2>1, <1>5, <1>2 DEF Decode
<1>6. QED BY <1>2, <1>4, <1>5

\* decode_keys inverts encode_keys (groupby.rs): every column of a representative is what its
\* row held, and a null whatever its slot held.
THEOREM DecodeInvertsEncode == EncodeSpec => []DecodeInverts
<1>1. EncInv => DecodeInverts
  BY DecodesOwn DEF DecodeInverts
<1>2. QED BY <1>1, EncInvariant, PTL

LEMMA LanesIdentify == EncInv => LaneIdentifiesKey
<1> SUFFICES ASSUME EncInv, encoding = "done", NEW r \in KeyRows, NEW q \in KeyRows
             PROVE  encoded[r] = encoded[q] <=> \A i \in DOMAIN columns : SameKey(columns[i], r, q)
  BY DEF LaneIdentifiesKey
<1>1. ASSUME encoded[r] = encoded[q], NEW i \in DOMAIN columns
      PROVE  SameKey(columns[i], r, q)
  <2>1. Decode(i, encoded[r]) = Decode(i, encoded[q])
    BY <1>1
  <2>2. \A s \in KeyRows :
          /\ Decode(i, encoded[s]).valid = columns[i].valid[s]
          /\ columns[i].valid[s] => Decode(i, encoded[s]).data = columns[i].data[s]
    <3> SUFFICES ASSUME NEW s \in KeyRows
                 PROVE  /\ Decode(i, encoded[s]).valid = columns[i].valid[s]
                        /\ columns[i].valid[s] => Decode(i, encoded[s]).data = columns[i].data[s]
      OBVIOUS
    <3>1. Decode(i, encoded[s]) = [valid |-> columns[i].valid[s],
            data |-> IF columns[i].valid[s] THEN columns[i].data[s] ELSE {}]
      BY DecodesOwn
    <3>2. QED BY <3>1
  <2>3. columns[i].valid[r] = columns[i].valid[q]
    BY <2>1, <2>2
  <2>4. columns[i].valid[r] => columns[i].data[r] = columns[i].data[q]
    BY <2>1, <2>2, <2>3
  <2>5. QED BY <2>3, <2>4 DEF SameKey
<1>2. ASSUME \A i \in DOMAIN columns : SameKey(columns[i], r, q)
      PROVE  encoded[r] = encoded[q]
  <2>1. /\ DOMAIN fields = DOMAIN columns
        /\ encoded[r] = Lane(r) /\ encoded[q] = Lane(q)
    BY DEF EncInv, LayoutInv, WellFormed
  <2>2. \A i \in DOMAIN fields : FieldBits(i, r) = FieldBits(i, q)
    BY <1>2, <2>1 DEF FieldBits, SameKey
  <2>3. QED BY <2>1, <2>2 DEF Lane
<1>3. QED BY <1>1, <1>2

\* Key equality is equality of lanes (the header of groupby.rs): for all columns that fit, two
\* rows get one lane exactly when their keys are the same.
THEOREM LanesAreKeys == EncodeSpec => []LaneIdentifiesKey
BY LanesIdentify, EncInvariant, PTL

-----------------------------------------------------------------------------
\* Queries.

FilterStep   == [Next]_vars
EncodingStep == [Encode \/ EncodeStep]_encoder

LEMMA EnterPathSteps ==
  ASSUME NEW p, EnterPath(p)
  PROVE  EncodingStep
<1>1. CASE HasKernels(p)
  BY <1>1 DEF EnterPath, EncodingStep
<1>2. CASE ~HasKernels(p)
  BY <1>2 DEF EnterPath, EncodingStep
<1>3. QED BY <1>1, <1>2

LEMMA GroupBySteps ==
  ASSUME WalkGroupBy \/ TakeScan \/ TakeFiltered \/ ReduceInPolars \/ ExecuteGroupBy
           \/ EncodeKeys \/ EncodeFailed \/ BuildGroups \/ AggregateAndDecode \/ GroupByFault
  PROVE  FilterStep /\ EncodingStep
<1>1. UNCHANGED vars
  BY DEF WalkGroupBy, TakeScan, TakeFiltered, ReduceInPolars, ExecuteGroupBy, EncodeKeys,
         EncodeFailed, BuildGroups, AggregateAndDecode, GroupByFault
<1>2. CASE \/ WalkGroupBy \/ TakeScan \/ TakeFiltered \/ ReduceInPolars
           \/ EncodeFailed \/ AggregateAndDecode \/ GroupByFault
  BY <1>1, <1>2 DEF WalkGroupBy, TakeScan, TakeFiltered, ReduceInPolars, EncodeFailed,
         AggregateAndDecode, GroupByFault, FilterStep, EncodingStep
<1>3. CASE EncodeKeys
  BY <1>1, <1>3 DEF EncodeKeys, FilterStep, EncodingStep
<1>4. CASE ExecuteGroupBy
  <2>1. EnterPath(Decide) \/ UNCHANGED encoder
    BY <1>4 DEF ExecuteGroupBy
  <2>2. QED BY <1>1, <2>1, EnterPathSteps DEF FilterStep, EncodingStep
<1>5. CASE BuildGroups
  <2>1. EnterPath("perAgg") \/ UNCHANGED encoder
    BY <1>5 DEF BuildGroups, GiveUp
  <2>2. QED BY <1>1, <2>1, EnterPathSteps DEF FilterStep, EncodingStep
<1>6. QED BY <1>2, <1>3, <1>4, <1>5

LEMMA QuerySteps == [QueryNext]_query => FilterStep /\ EncodingStep
<1> SUFFICES ASSUME [QueryNext]_query PROVE FilterStep /\ EncodingStep
  OBVIOUS
<1>1. CASE GroupByStep \/ GroupByFault
  BY <1>1, GroupBySteps DEF GroupByStep
<1>2. CASE FilterRuns /\ (Step \/ DeviceFault)
  BY <1>2 DEF FilterRuns, FilterStep, EncodingStep, Next
<1>3. CASE UNCHANGED query
  BY <1>3 DEF query, FilterStep, EncodingStep
<1>4. QED BY <1>1, <1>2, <1>3 DEF QueryNext, QueryStep

LEMMA QueryInvariant == QueryInit /\ [][QueryNext]_query => [](IInv /\ EncInv)
<1>1. QueryInit => IInv /\ EncInv
  BY InitIInv, InitEnc DEF QueryInit
<1>2. IInv /\ EncInv /\ [QueryNext]_query => (IInv /\ EncInv)'
  <2>1. EncInv /\ EncodingStep => EncInv'
    BY EncodeSteps, FieldSteps, RowSteps DEF EncodingStep, EncodeStep
  <2>2. QED BY <2>1, QuerySteps, NextIInv DEF FilterStep
<1>3. QED BY <1>1, <1>2, PTL

-----------------------------------------------------------------------------
\* Why a GroupBy fails.

\* The bits that the first n columns take: of each its flag and its data.
ColumnBits(i) == {i} \X (0..Width(columns[i]))
LaidOut(n)    == UNION {ColumnBits(i) : i \in 1..n}

\* The next free bit is the number of bits in use, and an encoding failed for want of more.
WidthInv ==
  /\ offset = Cardinality(LaidOut(Len(fields)))
  /\ encoding = "failed" => columns = <<>> \/ Cardinality(LaidOut(Len(columns))) > Budget

\* The columns in the encoder are those of the query.
OfKeys(cols) == /\ DOMAIN cols = DOMAIN KeyNames
                /\ \A i \in DOMAIN KeyNames : cols[i].dtype = Dtype(KeyNames[i].name)

\* What the walker and the UDF have seen to before the keys are encoded.
StageInv ==
  /\ stage \in {"input", "begin", "encode", "aggregate", "answered"} => GroupByLowered
  /\ stage \in {"encode", "aggregate"} => AllTagged /\ KeyNames # <<>>
  /\ stage = "encode" => OfKeys(columns)

CauseInv == WidthInv /\ StageInv /\ GroupByFailsForCause /\ case \in Cases

-----------------------------------------------------------------------------
LEMMA ColumnBitsFacts ==
  ASSUME WellFormed(columns), NEW i \in 1..Len(columns)
  PROVE  IsFiniteSet(ColumnBits(i)) /\ Cardinality(ColumnBits(i)) = Width(columns[i]) + 1
<1>1. Width(columns[i]) \in Nat
  BY WidthPositive
<1>2. IsFiniteSet(0..Width(columns[i])) /\ Cardinality(0..Width(columns[i])) = Width(columns[i]) + 1
  BY <1>1, FS_Interval
<1>3. IsFiniteSet({i}) /\ Cardinality({i}) = 1
  BY FS_Singleton
<1>4. Cardinality(ColumnBits(i)) = 1 * (Width(columns[i]) + 1) /\ IsFiniteSet(ColumnBits(i))
  BY <1>2, <1>3, FS_Product DEF ColumnBits
<1>5. QED BY <1>1, <1>4

LEMMA LaidOutFinite ==
  ASSUME WellFormed(columns), NEW n \in Nat, n <= Len(columns)
  PROVE  IsFiniteSet(LaidOut(n)) /\ Cardinality(LaidOut(n)) \in Nat
<1> DEFINE G == {m \in Nat : m <= n => IsFiniteSet(LaidOut(m))}
<1>1. LaidOut(0) = {}
  BY DEF LaidOut
<1>2. 0 \in G
  BY <1>1, FS_EmptySet
<1>3. ASSUME NEW m \in G PROVE m + 1 \in G
  <2> SUFFICES ASSUME m + 1 <= n PROVE IsFiniteSet(LaidOut(m + 1))
    OBVIOUS
  <2>1. m \in Nat /\ IsFiniteSet(LaidOut(m))
    OBVIOUS
  <2>2. m + 1 \in 1..Len(columns)
    BY <2>1, ColumnFacts
  <2>3. IsFiniteSet(ColumnBits(m + 1))
    BY <2>2, ColumnBitsFacts
  <2>4. LaidOut(m + 1) = LaidOut(m) \cup ColumnBits(m + 1)
    <3>1. 1..(m + 1) = (1..m) \cup {m + 1}
      BY <2>1
    <3>2. QED BY <3>1 DEF LaidOut
  <2>5. IsFiniteSet(LaidOut(m) \cup ColumnBits(m + 1))
    BY <2>1, <2>3, FS_Union
  <2>6. QED BY <2>4, <2>5
<1>4. G = Nat
  <2> HIDE DEF G
  <2>1. G \in SUBSET Nat
    BY DEF G
  <2>2. QED BY <2>1, <1>2, <1>3, NumberInduction
<1>5. IsFiniteSet(LaidOut(n))
  BY <1>4
<1>6. QED BY <1>5, FS_CardinalityType

LEMMA LaidOutStep ==
  ASSUME WellFormed(columns), NEW n \in Nat, n < Len(columns)
  PROVE  Cardinality(LaidOut(n + 1)) = Cardinality(LaidOut(n)) + 1 + Width(columns[n + 1])
<1>1. n + 1 \in 1..Len(columns)
  BY ColumnFacts
<1>2. /\ IsFiniteSet(LaidOut(n)) /\ Cardinality(LaidOut(n)) \in Nat
      /\ IsFiniteSet(ColumnBits(n + 1)) /\ Cardinality(ColumnBits(n + 1)) = Width(columns[n + 1]) + 1
  BY <1>1, ColumnBitsFacts, LaidOutFinite, ColumnFacts
<1>3. Width(columns[n + 1]) \in Nat
  BY <1>1, WidthPositive
<1>4. LaidOut(n + 1) = LaidOut(n) \cup ColumnBits(n + 1)
  <2>1. 1..(n + 1) = (1..n) \cup {n + 1}
    OBVIOUS
  <2>2. QED BY <2>1 DEF LaidOut
<1>5. LaidOut(n) \cap ColumnBits(n + 1) = {}
  <2>1. n + 1 \notin 1..n
    OBVIOUS
  <2>2. \A p \in LaidOut(n) : p[1] \in 1..n
    BY DEF LaidOut, ColumnBits
  <2>3. \A p \in ColumnBits(n + 1) : p[1] = n + 1
    BY DEF ColumnBits
  <2>4. QED BY <2>1, <2>2, <2>3
<1>6. Cardinality({}) = 0
  BY FS_EmptySet
<1>7. Cardinality(LaidOut(n) \cup ColumnBits(n + 1))
        = Cardinality(LaidOut(n)) + Cardinality(ColumnBits(n + 1)) - Cardinality(LaidOut(n) \cap ColumnBits(n + 1))
  BY <1>2, FS_Union
<1>8. Cardinality(LaidOut(n + 1)) = Cardinality(LaidOut(n)) + Cardinality(ColumnBits(n + 1)) - 0
  BY <1>4, <1>5, <1>6, <1>7
<1>9. PICK a \in Nat, w \in Nat :
        a = Cardinality(LaidOut(n)) /\ w = Width(columns[n + 1])
  BY <1>2, <1>3
<1>10. Cardinality(LaidOut(n + 1)) = a + (w + 1) - 0
  BY <1>2, <1>8, <1>9
<1>11. a + (w + 1) - 0 = a + 1 + w
  BY <1>9
<1>12. QED BY <1>9, <1>10, <1>11

LEMMA LaidOutMonotone ==
  ASSUME WellFormed(columns), NEW n \in Nat, n <= Len(columns)
  PROVE  Cardinality(LaidOut(n)) <= Cardinality(LaidOut(Len(columns)))
<1>1. Len(columns) \in Nat /\ IsFiniteSet(LaidOut(Len(columns)))
  BY ColumnFacts, LaidOutFinite
<1>2. 1..n \subseteq 1..Len(columns)
  BY <1>1
<1>3. LaidOut(n) \subseteq LaidOut(Len(columns))
  BY <1>2 DEF LaidOut
<1>4. QED BY <1>1, <1>3, FS_Subset

-----------------------------------------------------------------------------
\* The encoder.

LEMMA InitWidth == EncodeInit => WidthInv
<1> SUFFICES ASSUME EncodeInit PROVE WidthInv
  OBVIOUS
<1>1. fields = <<>> /\ offset = 0 /\ encoding = "idle"
  BY DEF EncodeInit
<1>2. LaidOut(Len(fields)) = {}
  BY <1>1 DEF LaidOut
<1>3. QED BY <1>1, <1>2, FS_EmptySet DEF WidthInv

LEMMA EncodeWidth ==
  ASSUME Encode
  PROVE  WidthInv'
<1>1. fields' = <<>> /\ offset' = 0 /\ (encoding' = "failed" => columns' = <<>>)
  BY DEF Encode
<1>2. LaidOut(Len(fields))' = {}
  BY <1>1 DEF LaidOut, ColumnBits, Width
<1>3. QED BY <1>1, <1>2, FS_EmptySet DEF WidthInv

LEMMA StepWidth ==
  ASSUME EncInv, WidthInv, EncodeStep \/ UNCHANGED encoder
  PROVE  WidthInv'
<1>1. columns' = columns
  BY DEF EncodeStep, AddField, TooWide, EncodeRows, encoder
<1>2. \A n : LaidOut(n)' = LaidOut(n)
  BY <1>1 DEF LaidOut, ColumnBits, Width
<1>3. /\ WellFormed(columns) /\ Len(fields) \in Nat /\ Len(columns) \in Nat
      /\ Len(fields) <= Len(columns) /\ offset = Cardinality(LaidOut(Len(fields)))
  BY ColumnFacts, FieldTypes DEF EncInv, LayoutInv, WidthInv
<1>4. CASE AddField
  <2>1. /\ Len(fields) < Len(columns) /\ encoding' = "layout"
        /\ offset' = offset + 1 + Width(columns[Len(fields) + 1])
        /\ fields' = Append(fields, [nullAt |-> offset, dataAt |-> offset + 1])
    BY <1>4 DEF AddField, LayingOut, FieldEnd, NextColumn
  <2>2. Len(fields') = Len(fields) + 1
    <3>1. fields \in Seq([nullAt : Nat, dataAt : Nat]) /\ offset \in Nat
      BY DEF EncInv, LayoutInv
    <3>2. QED BY <2>1, <3>1
  <2>3. offset' = Cardinality(LaidOut(Len(fields) + 1))
    BY <1>3, <2>1, LaidOutStep
  <2>4. QED BY <1>2, <2>1, <2>2, <2>3 DEF WidthInv
<1>5. CASE TooWide
  <2>1. /\ Len(fields) < Len(columns) /\ UNCHANGED <<fields, offset>>
        /\ offset + 1 + Width(columns[Len(fields) + 1]) > Budget
    BY <1>5 DEF TooWide, LayingOut, FieldEnd, NextColumn
  <2>2. Cardinality(LaidOut(Len(fields) + 1)) > Budget
    BY <1>3, <2>1, LaidOutStep
  <2>3. Len(fields) + 1 \in Nat /\ Len(fields) + 1 <= Len(columns)
    BY <1>3, <2>1
  <2>4. Cardinality(LaidOut(Len(fields) + 1)) <= Cardinality(LaidOut(Len(columns)))
    BY <1>3, <2>3, LaidOutMonotone
  <2>5. Cardinality(LaidOut(Len(fields) + 1)) \in Nat /\ Cardinality(LaidOut(Len(columns))) \in Nat
    BY <1>3, <2>3, LaidOutFinite
  <2>6. Cardinality(LaidOut(Len(columns))) > Budget
    BY <2>2, <2>4, <2>5 DEF Budget
  <2>7. QED BY <1>1, <1>2, <1>3, <2>1, <2>6 DEF WidthInv
<1>6. CASE EncodeRows
  BY <1>1, <1>2, <1>6 DEF WidthInv, EncodeRows
<1>7. CASE UNCHANGED encoder
  BY <1>1, <1>2, <1>7 DEF WidthInv, encoder
<1>8. QED BY <1>4, <1>5, <1>6, <1>7 DEF EncodeStep

LEMMA WidthSteps ==
  ASSUME EncInv, WidthInv, EncodingStep
  PROVE  WidthInv'
<1>1. CASE Encode
  BY <1>1, EncodeWidth
<1>2. CASE EncodeStep \/ UNCHANGED encoder
  BY <1>2, StepWidth
<1>3. QED BY <1>1, <1>2 DEF EncodingStep

\* When the columns are those of the query, they take the bits of its keys.
LEMMA KeysLaidOut ==
  ASSUME WellFormed(columns), OfKeys(columns)
  PROVE  LaidOut(Len(columns)) = KeyBits
<1>1. DOMAIN KeyNames = 1..Len(columns)
  BY DEF WellFormed, OfKeys
<1>2. \A i \in DOMAIN KeyNames : Width(columns[i]) = DataBits[Dtype(KeyNames[i].name)]
  BY DEF OfKeys, Width
<1>3. QED BY <1>1, <1>2 DEF LaidOut, ColumnBits, KeyBits

-----------------------------------------------------------------------------
\* The host.

\* What the query alone gives a GroupBy to fail for.
WithoutKernel == \E i \in ValueAggs : AggDtype(Aggs[i]) = "Bool"
QueryCause    == ~AllTagged \/ WithoutKernel \/ Cardinality(KeyBits) > Budget

LEMMA SameQuery ==
  ASSUME UNCHANGED case
  PROVE  /\ KeyNames' = KeyNames /\ Aggs' = Aggs /\ ValueAggs' = ValueAggs
         /\ GroupByLowered' <=> GroupByLowered
         /\ AllTagged' <=> AllTagged
         /\ QueryCause' <=> QueryCause
         /\ OfKeys(columns)' <=> OfKeys(columns')
<1>1. KeyNames' = KeyNames /\ Aggs' = Aggs /\ ValueAggs' = ValueAggs
  BY DEF KeyNames, Aggs, ValueAggs
<1>2. \A x : Dtype(x)' = Dtype(x)
  BY DEF Dtype
<1>3. \A a : AggDtype(a)' = AggDtype(a)
  BY <1>2 DEF AggDtype
<1>4. Lowered' <=> Lowered
  BY SameCase
<1>5. GroupByLowered' <=> GroupByLowered
  BY <1>1, <1>2, <1>4 DEF GroupByLowered, KeyLowered, AggLowered
<1>6. AllTagged' <=> AllTagged
  BY <1>1, <1>2, <1>3 DEF AllTagged
<1>7. KeyBits' = KeyBits
  BY <1>1, <1>2 DEF KeyBits
<1>8. QueryCause' <=> QueryCause
  BY <1>1, <1>3, <1>6, <1>7 DEF QueryCause, WithoutKernel
<1>9. OfKeys(columns)' <=> OfKeys(columns')
  BY <1>1, <1>2 DEF OfKeys
<1>10. QED BY <1>1, <1>5, <1>6, <1>8, <1>9

\* The values of a lowered query whose dtypes have tags are numbers or Booleans.
LEMMA ValueDtypes ==
  ASSUME GroupByLowered, AllTagged, NEW i \in ValueAggs
  PROVE  AggDtype(Aggs[i]) \in {"I64", "F64", "I32", "F32", "Bool"}
<1>1. i \in DOMAIN Aggs /\ Aggs[i].kind # "Length"
  BY DEF ValueAggs
<1>2. AggLowered(Aggs[i]) /\ Tagged(AggDtype(Aggs[i]))
  BY <1>1 DEF GroupByLowered, AllTagged
<1>3. AggDtype(Aggs[i]) # "Utf8"
  BY <1>1, <1>2 DEF AggLowered, AggDtype
<1>4. QED BY <1>2, <1>3 DEF Tagged

\* A dispatcher that is entered either encodes the keys of the query, or has met a Boolean.
LEMMA EnterPathCauses ==
  ASSUME GroupByLowered, AllTagged, NEW p, EnterPath(p),
         p = "fused" => \A i \in ValueAggs : AggDtype(Aggs[i]) \notin {"I64", "F64"}
  PROVE  \/ stage' = "failed" /\ WithoutKernel
         \/ stage' = "encode" /\ OfKeys(columns')
<1>1. CASE HasKernels(p)
  <2>1. stage' = "encode" /\ columns' = KeyColumns
    BY <1>1 DEF EnterPath
  <2>2. OfKeys(KeyColumns)
    BY DEF OfKeys, KeyColumns, KeyColumn
  <2>3. QED BY <2>1, <2>2
<1>2. CASE ~HasKernels(p)
  <2>1. stage' = "failed"
    BY <1>2 DEF EnterPath
  <2>2. PICK i \in ValueAggs :
          AggDtype(Aggs[i]) \notin IF p = "fused" THEN {"I32", "F32"} ELSE {"I64", "F64", "I32", "F32"}
    BY <1>2 DEF HasKernels
  <2>3. AggDtype(Aggs[i]) \in {"I64", "F64", "I32", "F32", "Bool"}
    BY ValueDtypes
  <2>4. AggDtype(Aggs[i]) = "Bool"
    BY <2>2, <2>3
  <2>5. QED BY <2>1, <2>4 DEF WithoutKernel
<1>3. QED BY <1>1, <1>2

\* An encoding of the query's keys fails only when they take more bits than there are.
LEMMA EncodingCauses ==
  ASSUME EncInv, WidthInv, OfKeys(columns), KeyNames # <<>>, case \in Cases, encoding = "failed"
  PROVE  Cardinality(KeyBits) > Budget
<1>1. WellFormed(columns)
  BY DEF EncInv
<1>2. columns # <<>>
  <2>1. IsSequence(KeyNames)
    BY GroupByAssumption DEF KeyNames
  <2>2. DOMAIN KeyNames # {}
    <3>1. /\ Len(KeyNames) \in Nat /\ DOMAIN KeyNames = 1..Len(KeyNames)
          /\ KeyNames = [i \in 1..Len(KeyNames) |-> KeyNames[i]]
      BY <2>1 DEF IsSequence
    <3>2. KeyNames \in Seq({KeyNames[i] : i \in 1..Len(KeyNames)})
      BY <3>1
    <3>3. Len(KeyNames) # 0
      BY <3>2
    <3>4. 1 \in 1..Len(KeyNames)
      BY <3>1, <3>3
    <3>5. QED BY <3>1, <3>4
  <2>3. QED BY <2>2 DEF OfKeys
<1>3. Cardinality(LaidOut(Len(columns))) > Budget
  BY <1>2 DEF WidthInv
<1>4. QED BY <1>1, <1>3, KeysLaidOut

\* Steps that enter no dispatcher, by the stages they lead to.
LEMMA QuietCauses ==
  ASSUME EncInv, CauseInv, UNCHANGED case,
         WalkGroupBy \/ TakeScan \/ TakeFiltered \/ ReduceInPolars \/ EncodeKeys \/ EncodeFailed
           \/ AggregateAndDecode \/ GroupByFault
  PROVE  StageInv' /\ GroupByFailsForCause'
<1>1. StageInv /\ GroupByFailsForCause /\ WidthInv /\ case \in Cases
  BY DEF CauseInv
<1>2. phase' = phase
  BY DEF WalkGroupBy, TakeScan, TakeFiltered, ReduceInPolars, EncodeKeys, EncodeFailed,
         AggregateAndDecode, GroupByFault, vars
<1>3. \/ stage' \in {"left to Polars", "faulted"}
      \/ stage' = "answered" /\ stage \in {"begin", "aggregate"}
      \/ stage' = "input" /\ GroupByLowered
      \/ stage' = "begin" /\ stage = "input"
      \/ stage' = "failed" /\ phase = "failed"
      \/ stage' = "failed" /\ stage = "encode" /\ encoding = "failed"
      \/ stage' = "encode" /\ stage = "encode" /\ columns' = columns
  BY DEF WalkGroupBy, TakeScan, TakeFiltered, ReduceInPolars, EncodeKeys, EncodeFailed,
         AggregateAndDecode, GroupByFault, Settle, EncodeStep, AddField, TooWide, EncodeRows, group
<1>4. stage' = "failed" => phase' = "failed" \/ QueryCause'
  BY <1>1, <1>2, <1>3, SameQuery, EncodingCauses DEF StageInv, QueryCause
<1>5. GroupByFailsForCause'
  BY <1>4 DEF GroupByFailsForCause, QueryCause, WithoutKernel
<1>6. StageInv'
  BY <1>1, <1>3, SameQuery DEF StageInv
<1>7. QED BY <1>5, <1>6

LEMMA ExecuteCauses ==
  ASSUME CauseInv, UNCHANGED case, ExecuteGroupBy
  PROVE  StageInv' /\ GroupByFailsForCause'
<1>1. StageInv /\ stage = "begin" /\ KeyNames # <<>> /\ GroupByLowered
  BY DEF CauseInv, StageInv, ExecuteGroupBy
<1>2. CASE AllTagged
  <2>1. EnterPath(Decide)
    BY <1>2 DEF ExecuteGroupBy
  <2>2. Decide = "fused" => \A i \in ValueAggs : AggDtype(Aggs[i]) \notin {"I64", "F64"}
    BY DEF Decide
  <2>3. \/ stage' = "failed" /\ WithoutKernel
        \/ stage' = "encode" /\ OfKeys(columns')
    BY <1>1, <1>2, <2>1, <2>2, EnterPathCauses
  <2>4. stage' = "failed" => QueryCause'
    BY <2>3, SameQuery DEF QueryCause
  <2>5. StageInv'
    BY <1>1, <1>2, <2>3, SameQuery DEF StageInv
  <2>6. QED BY <2>4, <2>5 DEF GroupByFailsForCause, QueryCause, WithoutKernel
<1>3. CASE ~AllTagged
  <2>1. stage' = "failed" /\ QueryCause'
    BY <1>3, SameQuery DEF ExecuteGroupBy, QueryCause
  <2>2. QED BY <2>1 DEF StageInv, GroupByFailsForCause, QueryCause, WithoutKernel
<1>4. QED BY <1>2, <1>3

LEMMA BuildCauses ==
  ASSUME CauseInv, UNCHANGED case, BuildGroups
  PROVE  StageInv' /\ GroupByFailsForCause'
<1>1. StageInv /\ stage = "encode" /\ KeyNames # <<>> /\ GroupByLowered /\ AllTagged
  BY DEF CauseInv, StageInv, BuildGroups
<1>2. EnterPath("perAgg") \/ stage' = "aggregate"
  BY DEF BuildGroups, GiveUp
<1>3. CASE EnterPath("perAgg")
  <2>1. \/ stage' = "failed" /\ WithoutKernel
        \/ stage' = "encode" /\ OfKeys(columns')
    BY <1>1, <1>3, EnterPathCauses
  <2>2. stage' = "failed" => QueryCause'
    BY <2>1, SameQuery DEF QueryCause
  <2>3. StageInv'
    BY <1>1, <2>1, SameQuery DEF StageInv
  <2>4. QED BY <2>2, <2>3 DEF GroupByFailsForCause, QueryCause, WithoutKernel
<1>4. CASE stage' = "aggregate"
  BY <1>1, <1>4, SameQuery DEF StageInv, GroupByFailsForCause
<1>5. QED BY <1>2, <1>3, <1>4

\* A step of the Filter leaves the GroupBy, which has not failed, where it is.
LEMMA FilterCauses ==
  ASSUME CauseInv, UNCHANGED case, FilterRuns \/ UNCHANGED query
  PROVE  StageInv' /\ GroupByFailsForCause'
<1>1. StageInv /\ GroupByFailsForCause
  BY DEF CauseInv
<1>2. stage' = stage /\ columns' = columns
  BY DEF FilterRuns, group, encoder, query
<1>3. StageInv'
  BY <1>1, <1>2, SameQuery DEF StageInv
<1>4. CASE FilterRuns
  BY <1>2, <1>3, <1>4 DEF FilterRuns, GroupByFailsForCause
<1>5. CASE UNCHANGED query
  <2>1. phase' = phase
    BY <1>5 DEF query, vars
  <2>2. stage = "failed" => phase = "failed" \/ QueryCause
    BY <1>1 DEF GroupByFailsForCause, QueryCause, WithoutKernel
  <2>3. stage' = "failed" => phase' = "failed" \/ QueryCause'
    BY <1>2, <2>1, <2>2, SameQuery
  <2>4. QED BY <1>3, <2>3 DEF GroupByFailsForCause, QueryCause, WithoutKernel
<1>6. QED BY <1>4, <1>5

LEMMA CaseStays ==
  ASSUME FilterStep
  PROVE  UNCHANGED case
BY DEF FilterStep, Next, Step, vars, Walk, EnterCompact, EnterPolars, EvalColumn, EvalCompare,
       EvalLogical, EvalKernel, PredicateUnchanged, MaskInPolars, MakeKeep, MakePrefix,
       CompactEmpty, CompactColumn, CompactUnsupported, ColumnsUnchanged, Finish, Thread,
       Collect, DeviceFault

LEMMA InitCauseInv == QueryInit => CauseInv
<1> SUFFICES ASSUME QueryInit PROVE CauseInv
  OBVIOUS
<1>1. stage \in {"none", "walk"} /\ case \in Cases
  BY DEF QueryInit, Init
<1>2. WidthInv
  BY InitWidth DEF QueryInit
<1>3. StageInv /\ GroupByFailsForCause
  BY <1>1 DEF StageInv, GroupByFailsForCause
<1>4. QED BY <1>1, <1>2, <1>3 DEF CauseInv

LEMMA NextCauseInv == EncInv /\ CauseInv /\ [QueryNext]_query => CauseInv'
<1> SUFFICES ASSUME EncInv, CauseInv, [QueryNext]_query PROVE CauseInv'
  OBVIOUS
<1>1. UNCHANGED case /\ EncodingStep
  BY QuerySteps, CaseStays
<1>2. WidthInv' /\ case' \in Cases
  BY <1>1, WidthSteps DEF CauseInv
<1>3. StageInv' /\ GroupByFailsForCause'
  <2>1. CASE WalkGroupBy \/ TakeScan \/ TakeFiltered \/ ReduceInPolars \/ EncodeKeys
             \/ EncodeFailed \/ AggregateAndDecode \/ GroupByFault
    BY <1>1, <2>1, QuietCauses
  <2>2. CASE ExecuteGroupBy
    BY <1>1, <2>2, ExecuteCauses
  <2>3. CASE BuildGroups
    BY <1>1, <2>3, BuildCauses
  <2>4. CASE FilterRuns \/ UNCHANGED query
    BY <1>1, <2>4, FilterCauses
  <2>5. QED BY <2>1, <2>2, <2>3, <2>4 DEF QueryNext, QueryStep, GroupByStep
<1>4. QED BY <1>2, <1>3 DEF CauseInv

-----------------------------------------------------------------------------
\* Numbers in their order.

\* A function that neither misses nor repeats an element of a set counts it.
LEMMA CountedBy ==
  ASSUME NEW S, IsFiniteSet(S), NEW T, NEW f \in [S -> T],
         \A x, y \in S : f[x] = f[y] => x = y, \A t \in T : \E x \in S : f[x] = t
  PROVE  IsFiniteSet(T) /\ Cardinality(T) = Cardinality(S)
<1>1. f \in Bijection(S, T)
  BY DEF Bijection, Injection, Surjection, IsInjective
<1>2. ExistsBijection(S, T)
  BY <1>1 DEF ExistsBijection
<1>3. QED
  BY <1>2, FS_Bijection

\* A set of numbers in their order: strictly increasing, all of it and nothing else.
Enumerates(f, S) ==
  /\ f \in [1..Cardinality(S) -> S]
  /\ \A r \in S : \E i \in 1..Cardinality(S) : f[i] = r
  /\ \A i, j \in 1..Cardinality(S) : i < j => f[i] < f[j]

LEMMA AscendingEnumerates ==
  ASSUME NEW S \in SUBSET Nat, IsFiniteSet(S)
  PROVE  Cardinality(S) \in Nat /\ Enumerates(Ascending(S), S)
<1>1. PICK n \in Nat : n = Cardinality(S)
  BY FS_CardinalityType
<1>2. /\ \A i \in 1..n : Ascending(S)[i] \in S /\ Cardinality({q \in S : q <= Ascending(S)[i]}) = i
      /\ \A r \in S : \E i \in 1..n : Ascending(S)[i] = r
  BY <1>1, AscendingRanks
<1> DEFINE a == Ascending(S)
<1>3. /\ \A i \in 1..n : a[i] \in S /\ Cardinality({q \in S : q <= a[i]}) = i
      /\ \A r \in S : \E i \in 1..n : a[i] = r
  BY <1>2
<1>4. a \in [1..n -> S]
  <2>1. DOMAIN a = 1..n
    BY <1>1 DEF Ascending
  <2>2. a = [i \in 1..n |-> a[i]]
    BY <1>1 DEF Ascending
  <2> HIDE DEF a
  <2>3. QED BY <1>3, <2>1, <2>2
<1> HIDE DEF a
<1>5. ASSUME NEW i \in 1..n, NEW j \in 1..n, i < j PROVE a[i] < a[j]
  <2> SUFFICES ASSUME a[j] <= a[i] PROVE FALSE
    <3>1. a[i] \in Nat /\ a[j] \in Nat
      BY <1>4
    <3>2. QED BY <3>1
  <2>1. PICK A, B : A = {q \in S : q <= a[i]} /\ B = {q \in S : q <= a[j]}
    OBVIOUS
  <2>2. a[i] \in Nat /\ a[j] \in Nat /\ \A q \in S : q \in Nat
    BY <1>3
  <2>3. A \in SUBSET S /\ B \in SUBSET A
    <3>1. \A q \in S : q <= a[j] => q <= a[i]
      BY <2>2
    <3>2. QED BY <2>1, <3>1
  <2>4. Cardinality(B) <= Cardinality(A)
    <3>1. IsFiniteSet(A)
      BY <2>3, FS_Subset
    <3>2. QED BY <2>3, <3>1, FS_Subset
  <2>5. Cardinality(A) = i /\ Cardinality(B) = j
    BY <1>3, <2>1
  <2>6. QED BY <1>5, <2>4, <2>5
<1>6. Enumerates(a, S)
  BY <1>1, <1>3, <1>4, <1>5 DEF Enumerates
<1>7. QED BY <1>1, <1>6 DEF a

\* Nothing else enumerates it.
LEMMA AscendingIs ==
  ASSUME NEW S \in SUBSET Nat, NEW m \in Nat, NEW f \in [1..m -> S],
         \A r \in S : \E i \in 1..m : f[i] = r, \A i, j \in 1..m : i < j => f[i] < f[j]
  PROVE  IsFiniteSet(S) /\ Cardinality(S) = m /\ Ascending(S) = f
<1>0. \A i, j \in 1..m : /\ f[i] \in Nat /\ (f[i] = f[j] => i = j)
                          /\ (f[i] <= f[j] => i <= j) /\ (i <= j => f[i] <= f[j])
  <2>1. \A i \in 1..m : f[i] \in Nat
    OBVIOUS
  <2>2. \A i, j \in 1..m : i < j \/ i = j \/ j < i
    OBVIOUS
  <2>3. QED BY <2>1, <2>2
<1>1. IsFiniteSet(1..m) /\ Cardinality(1..m) = m
  BY FS_Interval
<1>2. IsFiniteSet(S) /\ Cardinality(S) = m
  <2>1. \A x, y \in 1..m : f[x] = f[y] => x = y
    BY <1>0
  <2>2. QED BY <1>1, <2>1, CountedBy
<1>3. ASSUME NEW i \in 1..m PROVE Cardinality({q \in S : q <= f[i]}) = i
  <2>1. PICK T : T = {q \in S : q <= f[i]}
    OBVIOUS
  <2>2. PICK g : g = [j \in 1..i |-> f[j]]
    OBVIOUS
  <2>3. \A j \in 1..i : j \in 1..m /\ j <= i
    OBVIOUS
  <2>4. g \in [1..i -> T] /\ \A j \in 1..i : g[j] = f[j]
    BY <1>0, <2>1, <2>2, <2>3
  <2>5. \A t \in T : \E j \in 1..i : g[j] = t
    <3> SUFFICES ASSUME NEW t \in T PROVE \E j \in 1..i : g[j] = t
      OBVIOUS
    <3>1. PICK j \in 1..m : f[j] = t
      BY <2>1
    <3>2. j <= i
      BY <1>0, <2>1, <3>1
    <3>3. j \in 1..i
      BY <3>2
    <3>4. QED BY <2>4, <3>1, <3>3
  <2>6. \A x, y \in 1..i : g[x] = g[y] => x = y
    BY <1>0, <2>3, <2>4
  <2>7. IsFiniteSet(1..i) /\ Cardinality(1..i) = i
    BY FS_Interval
  <2>8. QED BY <2>1, <2>4, <2>5, <2>6, <2>7, CountedBy
<1>4. ASSUME NEW i \in 1..m PROVE Ascending(S)[i] = f[i]
  <2>1. f[i] \in S
    OBVIOUS
  <2>2. Ascending(S)[Cardinality({q \in S : q <= f[i]})] = f[i]
    BY <1>2, <2>1, AscendingRanks
  <2>3. QED BY <1>3, <2>2
<1>5. Ascending(S) = [i \in 1..m |-> Ascending(S)[i]]
  BY <1>2 DEF Ascending
<1>6. QED BY <1>2, <1>4, <1>5

LEMMA AscendingInterval ==
  ASSUME NEW n \in Nat
  PROVE  Ascending(1..n) = [i \in 1..n |-> i]
<1>1. PICK f : f = [i \in 1..n |-> i]
  OBVIOUS
<1>2. f \in [1..n -> 1..n] /\ (\A r \in 1..n : \E i \in 1..n : f[i] = r)
      /\ \A i, j \in 1..n : i < j => f[i] < f[j]
  BY <1>1
<1>3. 1..n \in SUBSET Nat
  OBVIOUS
<1>4. QED BY <1>1, <1>2, <1>3, AscendingIs

\* Some of the ranks of a set, in their order, are the ranks of some of the set in theirs.
LEMMA AscendingPart ==
  ASSUME NEW S \in SUBSET Nat, IsFiniteSet(S), NEW G \in SUBSET (1..Cardinality(S)),
         NEW E, E = {r \in S : \E i \in G : Ascending(S)[i] = r}
  PROVE  /\ Cardinality(G) \in Nat /\ Cardinality(E) = Cardinality(G)
         /\ DOMAIN Ascending(G) = 1..Cardinality(G) /\ Len(Ascending(G)) = Cardinality(G)
         /\ \A j \in 1..Cardinality(G) : Ascending(G)[j] \in G
         /\ Ascending(E) = [j \in 1..Cardinality(G) |-> Ascending(S)[Ascending(G)[j]]]
<1>1. PICK n \in Nat : n = Cardinality(S)
  BY FS_CardinalityType
<1>2. PICK a : a = Ascending(S)
  OBVIOUS
<1>3. /\ a \in [1..n -> S] /\ \A r \in S : \E i \in 1..n : a[i] = r
      /\ \A i, j \in 1..n : i < j => a[i] < a[j]
  BY <1>1, <1>2, AscendingEnumerates DEF Enumerates
<1>4. G \in SUBSET Nat /\ IsFiniteSet(G)
  <2>1. G \in SUBSET (1..n) /\ IsFiniteSet(1..n)
    BY <1>1, FS_Interval
  <2>2. IsFiniteSet(G)
    BY <2>1, FS_Subset
  <2>3. \A i \in 1..n : i \in Nat
    OBVIOUS
  <2>4. QED BY <2>1, <2>2, <2>3
<1>5. PICK m \in Nat : m = Cardinality(G)
  BY <1>4, FS_CardinalityType
<1>6. PICK b : b = Ascending(G)
  OBVIOUS
<1>7. /\ b \in [1..m -> G] /\ \A r \in G : \E i \in 1..m : b[i] = r
      /\ \A i, j \in 1..m : i < j => b[i] < b[j]
  BY <1>4, <1>5, <1>6, AscendingEnumerates DEF Enumerates
<1>8. PICK f : f = [j \in 1..m |-> a[b[j]]]
  OBVIOUS
<1>9. f \in [1..m -> E]
  BY <1>1, <1>2, <1>3, <1>7, <1>8
<1>10. \A r \in E : \E j \in 1..m : f[j] = r
  BY <1>1, <1>2, <1>3, <1>7, <1>8
<1>11. \A i, j \in 1..m : i < j => f[i] < f[j]
  BY <1>1, <1>3, <1>7, <1>8
<1>12. E \in SUBSET Nat
  OBVIOUS
<1>13. IsFiniteSet(E) /\ Cardinality(E) = m /\ Ascending(E) = f
  BY <1>9, <1>10, <1>11, <1>12, AscendingIs
<1>14. Len(b) = m
  BY <1>7
<1>15. QED BY <1>2, <1>5, <1>6, <1>7, <1>8, <1>13, <1>14

-----------------------------------------------------------------------------
\* The codes of strings.

LEMMA HalvesEquation ==
  ASSUME NEW n
  PROVE  Halves(n) = [b \in 0..30 |-> IF b = 0 THEN n ELSE Halves(n)[b - 1] \div 2]
<1> DEFINE Divides(h, m) == h = [b \in 0..m |-> IF b = 0 THEN n ELSE h[b - 1] \div 2]
           G == {m \in Nat : \E h : Divides(h, m)}
<1>1. 0 \in G
  <2>1. Divides([b \in {0} |-> n], 0)
    OBVIOUS
  <2>2. QED BY <2>1
<1>2. ASSUME NEW m \in G PROVE m + 1 \in G
  <2>1. PICK h : Divides(h, m)
    BY <1>2
  <2> DEFINE longer == [b \in 0..(m + 1) |-> IF b = m + 1 THEN h[m] \div 2 ELSE h[b]]
  <2>2. Divides(longer, m + 1)
    BY <2>1
  <2>3. \E g : Divides(g, m + 1)
    <3> HIDE DEF longer, Divides
    <3>1. QED BY <2>2
  <2> HIDE DEF longer, Divides
  <2>4. QED BY <2>3
<1>3. G = Nat
  <2>1. G \in SUBSET Nat
    OBVIOUS
  <2> HIDE DEF G
  <2>2. QED BY <1>1, <1>2, <2>1, NumberInduction
<1>4. \E h : Divides(h, 30)
  BY <1>3
<1>5. QED BY <1>4 DEF Halves

LEMMA MaxRowsIs == MaxRows \in Nat /\ \E a \in Nat : a = 32 * (32 * 1024) /\ MaxRows = 32 * (32 * a)
  BY SMT DEF MaxRows

\* Below MaxRows, the thirtieth half is nothing.
LEMMA HalvesEnd ==
  ASSUME NEW n \in 0..(MaxRows - 1)
  PROVE  /\ Halves(n)[0] = n /\ Halves(n)[30] = 0
         /\ \A b \in 0..30 : Halves(n)[b] \in Nat
         /\ \A b \in 0..29 : Halves(n)[b + 1] = Halves(n)[b] \div 2
<1>1. PICK h : h = Halves(n)
  OBVIOUS
<1>2. h = [b \in 0..30 |-> IF b = 0 THEN n ELSE h[b - 1] \div 2]
  BY <1>1, HalvesEquation
<1>3. h[0] = n /\ \A b \in 0..29 : h[b + 1] = h[b] \div 2
  <2>1. h[0] = n
    BY <1>2
  <2>2. ASSUME NEW b \in 0..29 PROVE h[b + 1] = h[b] \div 2
    <3>1. b + 1 \in 0..30 /\ b + 1 # 0 /\ (b + 1) - 1 = b
      OBVIOUS
    <3>2. QED BY <1>2, <3>1
  <2>3. QED BY <2>1, <2>2
<1>4. \A b \in 0..30 : h[b] \in Nat
  <2> DEFINE G == {b \in Nat : b <= 30 => h[b] \in Nat}
  <2>1. 0 \in G
    BY <1>3
  <2>2. ASSUME NEW b \in G PROVE b + 1 \in G
    BY <1>3, <2>2
  <2>3. G = Nat
    <3>1. G \in SUBSET Nat
      OBVIOUS
    <3> HIDE DEF G
    <3>2. QED BY <2>1, <2>2, <3>1, NumberInduction
  <2>4. QED BY <2>3
<1>5. ASSUME NEW b \in 0..25, NEW k \in Nat, h[b] < 32 * k PROVE h[b + 5] < k
  <2>1. h[b] \in Nat /\ h[b + 1] = h[b] \div 2 /\ h[b + 2] = h[b + 1] \div 2
        /\ h[b + 3] = h[b + 2] \div 2 /\ h[b + 4] = h[b + 3] \div 2 /\ h[b + 5] = h[b + 4] \div 2
    <3>1. /\ h[b + 1] = h[b] \div 2
          /\ b + 1 \in 0..29 /\ h[(b + 1) + 1] = h[b + 1] \div 2 /\ (b + 1) + 1 = b + 2
          /\ b + 2 \in 0..29 /\ h[(b + 2) + 1] = h[b + 2] \div 2 /\ (b + 2) + 1 = b + 3
          /\ b + 3 \in 0..29 /\ h[(b + 3) + 1] = h[b + 3] \div 2 /\ (b + 3) + 1 = b + 4
          /\ b + 4 \in 0..29 /\ h[(b + 4) + 1] = h[b + 4] \div 2 /\ (b + 4) + 1 = b + 5
      BY <1>3
    <3>2. QED BY <1>4, <3>1
  <2>2. QED BY <1>5, <2>1
<1>6. PICK a \in Nat : a = 32 * (32 * 1024) /\ MaxRows = 32 * (32 * a)
  BY MaxRowsIs
<1>7. h[10] < a
  <2>1. MaxRows \in Nat
    BY MaxRowsIs
  <2>2. h[0] < 32 * (32 * a)
    <3>1. n < MaxRows
      BY <2>1
    <3>2. QED BY <1>3, <1>6, <3>1
  <2>3. h[0 + 5] < 32 * a
    BY <1>5, <2>2
  <2>4. h[5 + 5] < a
    BY <1>5, <2>3
  <2>5. QED BY <2>4
<1>8. h[15] < 32 * 1024
  <2>1. h[10] < 32 * (32 * 1024)
    BY <1>6, <1>7
  <2>2. h[10 + 5] < 32 * 1024
    BY <1>5, <2>1
  <2>3. QED BY <2>2
<1>9. h[20] < 1024
  BY <1>5, <1>8
<1>10. h[25] < 32
  BY <1>5, <1>9
<1>11. h[30] < 1
  BY <1>5, <1>10
<1>13. h[30] = 0
  BY <1>4, <1>11
<1>14. QED BY <1>1, <1>3, <1>4, <1>13

\* Numbers with the same one bits are the same.
LEMMA BitsIdentify ==
  ASSUME NEW n \in 0..(MaxRows - 1), NEW m \in 0..(MaxRows - 1), OneBits(n) = OneBits(m)
  PROVE  n = m
<1>1. PICK h, g : h = Halves(n) /\ g = Halves(m)
  OBVIOUS
<1>2. /\ h[0] = n /\ h[30] = 0
      /\ \A b \in 0..30 : h[b] \in Nat
      /\ \A b \in 0..29 : h[b + 1] = h[b] \div 2
  BY <1>1, HalvesEnd
<1>3. /\ g[0] = m /\ g[30] = 0
      /\ \A b \in 0..30 : g[b] \in Nat
      /\ \A b \in 0..29 : g[b + 1] = g[b] \div 2
  BY <1>1, HalvesEnd
<1>4. ASSUME NEW b \in 0..29 PROVE h[b] % 2 = 1 <=> g[b] % 2 = 1
  <2>1. b \in OneBits(n) <=> h[b] % 2 = 1
    BY <1>1 DEF OneBits
  <2>2. b \in OneBits(m) <=> g[b] % 2 = 1
    BY <1>1 DEF OneBits
  <2>3. QED BY <2>1, <2>2
<1> DEFINE G == {d \in Nat : d <= 30 => h[30 - d] = g[30 - d]}
<1>5. 0 \in G
  BY <1>2, <1>3
<1>6. ASSUME NEW d \in G PROVE d + 1 \in G
  <2> SUFFICES ASSUME d + 1 <= 30 PROVE h[30 - (d + 1)] = g[30 - (d + 1)]
    OBVIOUS
  <2>1. PICK b \in 0..29 : b = 30 - (d + 1)
    OBVIOUS
  <2>2. h[b + 1] = g[b + 1]
    BY <1>6, <2>1
  <2>3. PICK x \in Nat, y \in Nat : x = h[b] /\ y = g[b]
    <3>1. b \in 0..30
      OBVIOUS
    <3>2. h[b] \in Nat /\ g[b] \in Nat
      BY <1>2, <1>3, <3>1
    <3>3. QED BY <3>2
  <2>4. x \div 2 = y \div 2 /\ (x % 2 = 1 <=> y % 2 = 1)
    BY <1>2, <1>3, <1>4, <2>2, <2>3
  <2>5. x = y
    BY <2>4
  <2>6. QED BY <2>1, <2>3, <2>5
<1>7. G = Nat
  <2>1. G \in SUBSET Nat
    OBVIOUS
  <2> HIDE DEF G
  <2>2. QED BY <1>5, <1>6, <2>1, NumberInduction
<1>8. 30 \in G
  BY <1>7
<1>9. h[30 - 30] = g[30 - 30]
  BY <1>8
<1>10. QED BY <1>2, <1>3, <1>9

\* A string that is in a column has a code, under which the dictionary has it.
LEMMA CodesDecode ==
  ASSUME NEW n \in Nat, n <= MaxRows, NEW values, DOMAIN values = 1..n,
         NEW r \in 1..n, values[r] # Null
  PROVE  LET d == Dictionary(values)  c == Code(values, values[r])
         IN  /\ {k \in DOMAIN d : OneBits(k - 1) = OneBits(c)} = {c + 1}
             /\ d[c + 1] = values[r]
<1> DEFINE d == Dictionary(values)
           c == Code(values, values[r])
           F == {q \in DOMAIN values : values[q] # Null /\ \A p \in 1..(q - 1) : values[p] # values[q]}
<1>1. F \in SUBSET (1..n) /\ F \in SUBSET Nat
  OBVIOUS
<1>2. IsFiniteSet(F) /\ Cardinality(F) \in Nat /\ Cardinality(F) <= n
  <2>1. IsFiniteSet(1..n) /\ Cardinality(1..n) = n
    BY FS_Interval
  <2>2. QED BY <1>1, <2>1, FS_Subset, FS_CardinalityType
<1>3. /\ DOMAIN Ascending(F) = 1..Cardinality(F)
      /\ \A q \in F : \E k \in 1..Cardinality(F) : Ascending(F)[k] = q
  BY <1>1, <1>2, AscendingEnumerates DEF Enumerates
<1>4. DOMAIN d = 1..Cardinality(F) /\ \A k \in DOMAIN d : d[k] = values[Ascending(F)[k]]
  BY <1>3 DEF Dictionary, FirstRows
<1>5. PICK f \in F : values[f] = values[r]
  <2> DEFINE Same == {q \in 1..n : values[q] = values[r]}
  <2>1. Same \in SUBSET Nat /\ r \in Same
    OBVIOUS
  <2>2. PICK f \in Same : \A q \in Same : f <= q
    BY <2>1, LeastNumber
  <2>3. ASSUME NEW p \in 1..(f - 1), values[p] = values[f] PROVE FALSE
    <3>1. p \in Same /\ p < f
      BY <2>3
    <3>2. QED BY <2>2, <3>1
  <2>4. f \in F
    BY <2>3
  <2>5. QED BY <2>4
<1>6. PICK k \in DOMAIN d : d[k] = values[r]
  <2> HIDE DEF d, F
  <2>1. PICK k \in 1..Cardinality(F) : Ascending(F)[k] = f
    BY <1>3
  <2>2. k \in DOMAIN d /\ d[k] = values[r]
    BY <1>4, <1>5, <2>1
  <2>3. QED BY <2>2
<1>7. c + 1 \in DOMAIN d /\ d[c + 1] = values[r]
  <2> HIDE DEF d
  <2>1. PICK j : j = CHOOSE i \in DOMAIN d : d[i] = values[r]
    OBVIOUS
  <2>2. j \in DOMAIN d /\ d[j] = values[r]
    BY <1>6, <2>1
  <2>3. c = j - 1
    BY <2>1 DEF Code, d
  <2>4. j \in Nat
    BY <1>2, <1>4, <2>2
  <2>5. c + 1 = j
    BY <2>3, <2>4
  <2>6. QED BY <2>2, <2>5
<1> HIDE DEF d, F
<1>8. \A i \in DOMAIN d : i - 1 \in 0..(MaxRows - 1) /\ i \in Nat
  <2>1. MaxRows \in Nat
    BY DEF MaxRows
  <2>2. \A i \in 1..Cardinality(F) : i - 1 \in 0..(MaxRows - 1) /\ i \in Nat
    BY <1>2, <2>1
  <2>3. QED BY <1>4, <2>2
<1>9. PICK j \in DOMAIN d : j = c + 1
  BY <1>7
<1>10. c = j - 1
  <2>1. c \in Int
    <3>1. c = (CHOOSE i \in DOMAIN d : d[i] = values[r]) - 1
      BY DEF Code, d
    <3>2. (CHOOSE i \in DOMAIN d : d[i] = values[r]) \in DOMAIN d
      BY <1>6
    <3>3. QED BY <1>8, <3>1, <3>2
  <2> HIDE DEF c
  <2>2. QED BY <1>9, <2>1
<1>11. \A i \in DOMAIN d : OneBits(i - 1) = OneBits(c) <=> i = c + 1
  <2> SUFFICES ASSUME NEW i \in DOMAIN d PROVE OneBits(i - 1) = OneBits(c) <=> i = c + 1
    OBVIOUS
  <2> HIDE DEF c
  <2>1. c \in 0..(MaxRows - 1) /\ i - 1 \in 0..(MaxRows - 1) /\ i \in Nat
    BY <1>8, <1>10
  <2>2. OneBits(i - 1) = OneBits(c) => i - 1 = c
    BY <2>1, BitsIdentify
  <2>3. i = c + 1 => i - 1 = c
    BY <2>1
  <2>4. QED BY <2>1, <2>2, <2>3
<1>12. {i \in DOMAIN d : OneBits(i - 1) = OneBits(c)} = {c + 1}
  BY <1>7, <1>11
<1>13. QED BY <1>7, <1>12 DEF d

-----------------------------------------------------------------------------
\* What a GroupBy answers.

\* The rows a GroupBy reads, in their order, and how many there are.
SelectedRows == IF case.input = "scan" THEN Rows ELSE Kept
Sources == Ascending(SelectedRows)
NSources == Cardinality(SelectedRows)

LEMMA SourceFacts ==
  ASSUME case \in Cases
  PROVE  /\ case.height \in Nat /\ Rows = 1..case.height
         /\ SelectedRows \in SUBSET Rows /\ SelectedRows \in SUBSET Nat /\ IsFiniteSet(SelectedRows)
         /\ NSources \in Nat /\ NSources <= case.height
         /\ DOMAIN Sources = 1..NSources
         /\ \A i \in 1..NSources : Sources[i] \in SelectedRows /\ Sources[i] \in Rows
         /\ \A r \in SelectedRows : \E i \in 1..NSources : Sources[i] = r
<1>1. case.height \in Nat /\ Rows = 1..case.height
  <2>1. IsCase(case)
    BY CaseAssumption
  <2>2. QED BY <2>1 DEF IsCase, Rows
<1>2. SelectedRows \in SUBSET Rows
  BY DEF SelectedRows, Kept
<1>3. Rows \in SUBSET Nat /\ IsFiniteSet(Rows) /\ Cardinality(Rows) = case.height
  BY <1>1, FS_Interval
<1>4. SelectedRows \in SUBSET Nat /\ IsFiniteSet(SelectedRows)
      /\ Cardinality(SelectedRows) \in Nat /\ Cardinality(SelectedRows) <= case.height
  BY <1>2, <1>3, FS_Subset, FS_CardinalityType
<1>5. /\ Sources \in [1..NSources -> SelectedRows]
      /\ \A r \in SelectedRows : \E i \in 1..NSources : Sources[i] = r
  BY <1>4, AscendingEnumerates DEF Enumerates, Sources, NSources
<1>6. QED BY <1>1, <1>2, <1>4, <1>5 DEF NSources

\* What a GroupBy reads is there, and no more of it than OneBits tells apart.
LEMMA QueryFacts ==
  ASSUME case \in Cases, case.input # "none", GroupByLowered
  PROVE  /\ Names # {} /\ case.height <= MaxRows
         /\ \A i \in DOMAIN KeyNames : KeyNames[i].name \in Names
         /\ \A i \in DOMAIN Aggs : /\ Aggs[i].kind \in {"Length", "Simple", "Expression"}
                                   /\ ReadBy(Aggs[i]) \subseteq Names
<1>1. \A i \in DOMAIN KeyNames : KeyNames[i].kind = "Column"
  BY DEF GroupByLowered, KeyLowered
<1>2. \A i \in DOMAIN Aggs : Aggs[i].kind \in {"Length", "Simple", "Expression"}
  BY DEF GroupByLowered, AggLowered
<1>3. /\ Names # {} /\ case.height <= MaxRows
      /\ \A i \in DOMAIN KeyNames : KeyNames[i].kind = "Column" => KeyNames[i].name \in Names
      /\ \A i \in DOMAIN Aggs : ReadBy(Aggs[i]) \subseteq Names
  BY GroupByAssumption DEF Names, KeyNames, Aggs
<1>4. QED BY <1>1, <1>2, <1>3

\* The frame a GroupBy reads.
LEMMA UpstreamFacts ==
  ASSUME case \in Cases, upstream = Selected(Sources), NEW x \in Names
  PROVE  /\ DOMAIN upstream[x] = 1..NSources
         /\ \A i \in 1..NSources : upstream[x][i] = Value(x, Sources[i])
BY SourceFacts DEF Selected

\* The keys of a GroupBy whose columns have been encoded.
Encoded ==
  /\ case \in Cases /\ case.input # "none" /\ GroupByLowered /\ KeyNames # <<>>
  /\ upstream = Selected(Sources) /\ columns = KeyColumns
  /\ EncInv /\ encoding = "done"

LEMMA KeyColumnFacts ==
  ASSUME Encoded, NEW i \in DOMAIN KeyNames
  PROVE  /\ i \in DOMAIN columns /\ KeyNames[i].name \in Names
         /\ columns[i] = KeyColumn(upstream[KeyNames[i].name], Dtype(KeyNames[i].name))
         /\ DOMAIN columns[i].valid = 1..NSources
         /\ columns[i].dtype = Dtype(KeyNames[i].name)
         /\ \A r \in 1..NSources :
              LET v == Value(KeyNames[i].name, Sources[r])
                  tag == Dtype(KeyNames[i].name)
              IN  /\ columns[i].valid[r] = (v # Null)
                  /\ v # Null => columns[i].data[r] =
                       IF tag # "Utf8" THEN Pattern(v, tag)
                       ELSE OneBits(Code(upstream[KeyNames[i].name], v))
<1>1. KeyNames[i].name \in Names
  BY QueryFacts DEF Encoded
<1>2. PICK x \in Names : x = KeyNames[i].name
  BY <1>1
<1>3. DOMAIN upstream[x] = 1..NSources /\ \A r \in 1..NSources : upstream[x][r] = Value(x, Sources[r])
  BY UpstreamFacts DEF Encoded
<1>4. i \in DOMAIN columns /\ columns[i] = KeyColumn(upstream[x], Dtype(x))
  BY <1>2 DEF Encoded, KeyColumns
<1>5. DOMAIN columns[i].valid = 1..NSources /\ columns[i].dtype = Dtype(x)
  BY <1>3, <1>4 DEF KeyColumn
<1>6. ASSUME NEW r \in 1..NSources
      PROVE  columns[i].valid[r] = (upstream[x][r] # Null)
  BY <1>3, <1>4 DEF KeyColumn
<1>7. ASSUME NEW r \in 1..NSources, upstream[x][r] # Null
      PROVE  columns[i].data[r] = IF Dtype(x) # "Utf8" THEN Pattern(upstream[x][r], Dtype(x))
                                  ELSE OneBits(Code(upstream[x], upstream[x][r]))
  <2>1. columns[i].data[r] = IF Dtype(x) # "Utf8" THEN Pattern(Slot(upstream[x][r], Dtype(x)), Dtype(x))
                             ELSE OneBits(Code(upstream[x], upstream[x][r]))
    BY <1>3, <1>4, <1>7 DEF KeyColumn
  <2>2. QED BY <1>7, <2>1 DEF Slot
<1>8. QED BY <1>2, <1>3, <1>4, <1>5, <1>6, <1>7

\* The rows of the lanes are the rows of the frame.
LEMMA LaneRows ==
  ASSUME Encoded
  PROVE  KeyRows = 1..NSources /\ DOMAIN encoded = 1..NSources
<1>1. WellFormed(columns) /\ DOMAIN columns = DOMAIN KeyNames
  BY DEF Encoded, EncInv, KeyColumns
<1>2. IsSequence(KeyNames)
  BY GroupByAssumption DEF Encoded, KeyNames
<1>3. 1 \in DOMAIN KeyNames
  <2>1. /\ Len(KeyNames) \in Nat /\ DOMAIN KeyNames = 1..Len(KeyNames)
        /\ KeyNames = [i \in 1..Len(KeyNames) |-> KeyNames[i]]
    BY <1>2 DEF IsSequence
  <2>2. KeyNames \in Seq({KeyNames[i] : i \in 1..Len(KeyNames)})
    BY <2>1
  <2>3. Len(KeyNames) # 0
    BY <2>2 DEF Encoded
  <2>4. QED BY <2>1, <2>3
<1>4. KeyRows = 1..NSources
  BY <1>3, KeyColumnFacts DEF KeyRows
<1>5. encoded = [r \in KeyRows |-> Lane(r)]
  BY DEF Encoded, EncInv
<1>6. QED BY <1>4, <1>5

\* A lane decodes to the key of its row.
LEMMA KeyDecodes ==
  ASSUME Encoded, NEW i \in DOMAIN KeyNames, NEW r \in 1..NSources
  PROVE  KeyValue(i, encoded[r]) = KeyOf(Sources[r])[i]
<1>1. PICK x \in Names : x = KeyNames[i].name
  BY KeyColumnFacts
<1>2. PICK v : v = Value(x, Sources[r])
  OBVIOUS
<1>3. PICK tag : tag = Dtype(x)
  OBVIOUS
<1>4. PICK values : values = upstream[x]
  OBVIOUS
<1>5. /\ i \in DOMAIN columns /\ columns[i].dtype = tag /\ columns[i].valid[r] = (v # Null)
      /\ v # Null => columns[i].data[r] = IF tag # "Utf8" THEN Pattern(v, tag) ELSE OneBits(Code(values, v))
  BY <1>1, <1>2, <1>3, <1>4, KeyColumnFacts
<1>6. DOMAIN values = 1..NSources /\ values[r] = v
  BY <1>2, <1>4, UpstreamFacts DEF Encoded
<1>7. Decode(i, encoded[r]) = [valid |-> columns[i].valid[r],
                               data  |-> IF columns[i].valid[r] THEN columns[i].data[r] ELSE {}]
  BY <1>5, LaneRows, DecodesOwn DEF Encoded
<1>8. KeyOf(Sources[r])[i] = IF v = Null THEN <<>> ELSE <<IF tag = "Utf8" THEN v ELSE Pattern(v, tag)>>
  BY <1>1, <1>2, <1>3 DEF KeyOf
<1>9. PICK d : d = Decode(i, encoded[r])
  OBVIOUS
<1>10. /\ d.valid = (v # Null)
       /\ v # Null => d.data = IF tag # "Utf8" THEN Pattern(v, tag) ELSE OneBits(Code(values, v))
  <2>1. d.valid = columns[i].valid[r] /\ (columns[i].valid[r] => d.data = columns[i].data[r])
    BY <1>7, <1>9
  <2>2. QED BY <1>5, <2>1
<1>11. KeyValue(i, encoded[r]) =
         LET dict == Dictionary(values)
             codes == {k \in DOMAIN dict : OneBits(k - 1) = d.data}
         IN  IF ~d.valid THEN <<>>
             ELSE IF tag # "Utf8" THEN <<d.data>>
             ELSE IF codes = {} THEN <<"">> ELSE <<dict[CHOOSE k \in codes : TRUE]>>
  BY <1>1, <1>4, <1>5, <1>9 DEF KeyValue
<1>12. CASE v = Null
  BY <1>8, <1>10, <1>11, <1>12
<1>13. CASE v # Null /\ tag # "Utf8"
  BY <1>8, <1>10, <1>11, <1>13
<1>14. CASE v # Null /\ tag = "Utf8"
  <2>1. PICK dict, c : dict = Dictionary(values) /\ c = Code(values, v)
    OBVIOUS
  <2>2. NSources \in Nat /\ NSources <= MaxRows
    <3>1. NSources \in Nat /\ case.height \in Nat /\ NSources <= case.height /\ case.height <= MaxRows
      BY SourceFacts, QueryFacts DEF Encoded
    <3>2. QED BY <3>1, MaxRowsIs
  <2>3. {k \in DOMAIN dict : OneBits(k - 1) = OneBits(c)} = {c + 1} /\ dict[c + 1] = v
    BY <1>6, <1>14, <2>1, <2>2, CodesDecode
  <2>4. (CHOOSE k \in {c + 1} : TRUE) = c + 1
    OBVIOUS
  <2>5. d.valid /\ d.data = OneBits(c)
    BY <1>10, <1>14, <2>1
  <2>6. KeyValue(i, encoded[r]) = <<v>>
    BY <1>11, <1>14, <2>1, <2>3, <2>4, <2>5
  <2>7. QED BY <1>8, <1>14, <2>6
<1>15. QED BY <1>12, <1>13, <1>14

\* Rows get one lane exactly when they have one key.
LEMMA LanesAreKeysOf ==
  ASSUME Encoded, NEW r \in 1..NSources, NEW q \in 1..NSources
  PROVE  encoded[r] = encoded[q] <=> KeyOf(Sources[r]) = KeyOf(Sources[q])
<1>1. \A s \in 1..NSources : KeyOf(Sources[s]) = [i \in DOMAIN KeyNames |-> KeyValue(i, encoded[s])]
  <2> SUFFICES ASSUME NEW s \in 1..NSources
               PROVE  KeyOf(Sources[s]) = [i \in DOMAIN KeyNames |-> KeyValue(i, encoded[s])]
    OBVIOUS
  <2>1. \A i \in DOMAIN KeyNames : KeyValue(i, encoded[s]) = KeyOf(Sources[s])[i]
    BY KeyDecodes
  <2>2. KeyOf(Sources[s]) = [i \in DOMAIN KeyNames |-> KeyOf(Sources[s])[i]]
    BY DEF KeyOf
  <2>3. QED BY <2>1, <2>2
<1>2. ASSUME encoded[r] = encoded[q] PROVE KeyOf(Sources[r]) = KeyOf(Sources[q])
  BY <1>1, <1>2
<1>3. ASSUME KeyOf(Sources[r]) = KeyOf(Sources[q]) PROVE encoded[r] = encoded[q]
  <2>1. ASSUME NEW i \in DOMAIN KeyNames PROVE SameKey(columns[i], r, q)
    <3>1. PICK x \in Names : x = KeyNames[i].name
      BY KeyColumnFacts
    <3>2. PICK u, v : u = Value(x, Sources[r]) /\ v = Value(x, Sources[q])
      OBVIOUS
    <3>3. PICK tag : tag = Dtype(x)
      OBVIOUS
    <3>4. /\ columns[i].valid[r] = (u # Null)
          /\ u # Null => columns[i].data[r] =
               IF tag # "Utf8" THEN Pattern(u, tag) ELSE OneBits(Code(upstream[x], u))
      BY <3>1, <3>2, <3>3, KeyColumnFacts
    <3>5. /\ columns[i].valid[q] = (v # Null)
          /\ v # Null => columns[i].data[q] =
               IF tag # "Utf8" THEN Pattern(v, tag) ELSE OneBits(Code(upstream[x], v))
      BY <3>1, <3>2, <3>3, KeyColumnFacts
    <3>6. KeyOf(Sources[r])[i] = IF u = Null THEN <<>> ELSE <<IF tag = "Utf8" THEN u ELSE Pattern(u, tag)>>
      BY <3>1, <3>2, <3>3 DEF KeyOf
    <3>7. KeyOf(Sources[q])[i] = IF v = Null THEN <<>> ELSE <<IF tag = "Utf8" THEN v ELSE Pattern(v, tag)>>
      BY <3>1, <3>2, <3>3 DEF KeyOf
    <3>8. \A y, z : <<y>> # <<>> /\ (<<y>> = <<z>> => y = z)
      OBVIOUS
    <3>9. (u = Null <=> v = Null) /\ (u # Null => columns[i].data[r] = columns[i].data[q])
      <4>1. CASE u = Null
        <5>1. KeyOf(Sources[q])[i] = <<>>
          BY <1>3, <3>6, <4>1
        <5>2. PICK w : w = IF tag = "Utf8" THEN v ELSE Pattern(v, tag)
          OBVIOUS
        <5>3. v # Null => KeyOf(Sources[q])[i] = <<w>>
          BY <3>7, <5>2
        <5>4. v = Null
          BY <3>8, <5>1, <5>3
        <5>5. QED BY <4>1, <5>4
      <4>2. CASE u # Null
        <5>1. v # Null
          <6>1. PICK w : w = IF tag = "Utf8" THEN u ELSE Pattern(u, tag)
            OBVIOUS
          <6>2. KeyOf(Sources[q])[i] = <<w>>
            BY <1>3, <3>6, <4>2, <6>1
          <6>3. QED BY <3>7, <3>8, <6>2
        <5>2. (IF tag = "Utf8" THEN u ELSE Pattern(u, tag)) = (IF tag = "Utf8" THEN v ELSE Pattern(v, tag))
          BY <1>3, <3>6, <3>7, <3>8, <4>2, <5>1
        <5>3. QED BY <3>4, <3>5, <4>2, <5>1, <5>2
      <4>3. QED BY <4>1, <4>2
    <3>10. QED BY <3>4, <3>5, <3>9 DEF SameKey
  <2>2. DOMAIN columns = DOMAIN KeyNames
    BY DEF Encoded, KeyColumns
  <2>3. \A i \in DOMAIN columns : SameKey(columns[i], r, q)
    BY <2>1, <2>2
  <2>4. LaneIdentifiesKey /\ r \in KeyRows /\ q \in KeyRows /\ encoding = "done"
    BY LanesIdentify, LaneRows DEF Encoded
  <2>5. QED BY <2>3, <2>4 DEF LaneIdentifiesKey
<1>4. QED BY <1>2, <1>3

\* An aggregation over rows of the frame is one over the rows of the scan they come from.
LEMMA SameValues ==
  ASSUME case \in Cases, case.input # "none", GroupByLowered, upstream = Selected(Sources),
         NEW i \in DOMAIN Aggs, NEW empty,
         NEW G \in SUBSET (1..NSources), NEW E, E = {r \in SelectedRows : \E j \in G : Sources[j] = r}
  PROVE  ValueOver(upstream, Aggs[i], Ascending(G), empty)
           = ValueOver(ScanFrame, Aggs[i], Ascending(E), empty)
<1>1. PICK m : m = Cardinality(G)
  OBVIOUS
<1>2. PICK a, p, s : a = Aggs[i] /\ p = Ascending(G) /\ s = Ascending(E)
  OBVIOUS
<1>3. /\ m \in Nat /\ DOMAIN p = 1..m /\ Len(p) = m /\ \A j \in 1..m : p[j] \in G
      /\ s = [j \in 1..m |-> Sources[p[j]]]
  <2>1. /\ SelectedRows \in SUBSET Nat /\ IsFiniteSet(SelectedRows)
        /\ G \in SUBSET (1..Cardinality(SelectedRows))
    BY SourceFacts DEF NSources
  <2>2. E = {r \in SelectedRows : \E j \in G : Ascending(SelectedRows)[j] = r}
    BY DEF Sources
  <2>3. /\ Cardinality(G) \in Nat /\ Cardinality(E) = Cardinality(G)
        /\ DOMAIN Ascending(G) = 1..Cardinality(G) /\ Len(Ascending(G)) = Cardinality(G)
        /\ \A j \in 1..Cardinality(G) : Ascending(G)[j] \in G
        /\ Ascending(E) = [j \in 1..Cardinality(G) |-> Ascending(SelectedRows)[Ascending(G)[j]]]
    BY <2>1, <2>2, AscendingPart
  <2>4. QED BY <1>1, <1>2, <2>3 DEF Sources
<1>4. a.kind \in {"Length", "Simple", "Expression"} /\ ReadBy(a) \subseteq Names
  BY <1>2, QueryFacts
<1>5. \A j \in 1..m : p[j] \in 1..NSources /\ s[j] \in Rows /\ s[j] = Sources[p[j]]
  BY <1>3, SourceFacts
<1>6. DOMAIN s = 1..m
  BY <1>3
<1>7. ASSUME NEW x \in Names
      PROVE  /\ DOMAIN upstream[x] = 1..NSources /\ DOMAIN ScanFrame[x] = Rows
             /\ \A j \in 1..m : upstream[x][p[j]] = ScanFrame[x][s[j]]
  BY <1>5, UpstreamFacts DEF ScanFrame
<1>8. ASSUME a.kind # "Length", NEW j \in 1..m
      PROVE  AggValues(upstream, a)[p[j]] = AggValues(ScanFrame, a)[s[j]]
  <2>1. CASE a.kind = "Simple"
    <3>1. a.column \in Names
      BY <1>4, <2>1 DEF ReadBy
    <3>2. QED BY <1>7, <2>1, <3>1 DEF AggValues
  <2>2. CASE a.kind = "Expression"
    <3>1. a.lhs \in Names /\ a.rhs \in Names
      BY <1>4, <2>2 DEF ReadBy
    <3>2. AggValues(upstream, a)[p[j]] = Plus(upstream[a.lhs][p[j]], upstream[a.rhs][p[j]])
      BY <1>5, <1>7, <2>2, <3>1 DEF AggValues
    <3>3. AggValues(ScanFrame, a)[s[j]] = Plus(ScanFrame[a.lhs][s[j]], ScanFrame[a.rhs][s[j]])
      BY <1>5, <1>7, <2>2, <3>1 DEF AggValues
    <3>4. QED BY <1>7, <3>1, <3>2, <3>3
  <2>3. QED BY <1>4, <1>8, <2>1, <2>2
<1>9. CASE a.kind = "Length"
  <2>1. Len(p) = m /\ Len(s) = m
    BY <1>3
  <2>2. QED BY <1>2, <1>9, <2>1 DEF ValueOver
<1>10. CASE a.kind # "Length"
  <2>1. [k \in DOMAIN p |-> AggValues(upstream, a)[p[k]]] = [k \in DOMAIN s |-> AggValues(ScanFrame, a)[s[k]]]
    BY <1>3, <1>6, <1>8, <1>10
  <2>2. ValueOver(upstream, a, p, empty)
          = Aggregate(a.op, [k \in DOMAIN p |-> AggValues(upstream, a)[p[k]]], empty)
    BY <1>10 DEF ValueOver
  <2>3. ValueOver(ScanFrame, a, s, empty)
          = Aggregate(a.op, [k \in DOMAIN s |-> AggValues(ScanFrame, a)[s[k]]], empty)
    BY <1>10 DEF ValueOver
  <2>4. QED BY <1>2, <2>1, <2>2, <2>3
<1>11. QED BY <1>9, <1>10

\* A frame that answers the query.
IsGroupBy(f) ==
  \/ OnlyBoolKeys
  \/ /\ Len(f) = Cardinality(ExpectedKeys(SelectedRows))
     /\ Range(f) = {ExpectedRow(SelectedRows, k) : k \in ExpectedKeys(SelectedRows)}

\* What the build has handed to the aggregations.
BuiltWell ==
  /\ build.nGroups \in Nat
  /\ Promise!IsGrouping(encoded, build.rowToGroup, build.nGroups)
  /\ Promise!IsFirstRow(build.rowToGroup, build.nGroups, build.firstRow)
  /\ path = "fused" => build.nGroups <= MaxGroups

\* The key of a group.
GroupKey(g) == KeyOf(Sources[build.firstRow[g]])

LEMMA BuiltFacts ==
  ASSUME Encoded, BuiltWell
  PROVE  /\ build.nGroups \in Nat /\ DOMAIN build.rowToGroup = 1..NSources
         /\ \A r \in 1..NSources : build.rowToGroup[r] \in 0..(build.nGroups - 1)
         /\ \A r, q \in 1..NSources :
              build.rowToGroup[r] = build.rowToGroup[q] <=> KeyOf(Sources[r]) = KeyOf(Sources[q])
         /\ \A g \in 0..(build.nGroups - 1) : /\ build.firstRow[g] \in 1..NSources
                                              /\ build.rowToGroup[build.firstRow[g]] = g
<1>1. /\ build.nGroups \in Nat /\ build.rowToGroup \in [DOMAIN encoded -> 0..(build.nGroups - 1)]
      /\ \A r, q \in DOMAIN encoded : build.rowToGroup[r] = build.rowToGroup[q] <=> encoded[r] = encoded[q]
  BY DEF BuiltWell, Promise!IsGrouping
<1>2. \A g \in 0..(build.nGroups - 1) : /\ build.firstRow[g] \in DOMAIN build.rowToGroup
                                        /\ build.rowToGroup[build.firstRow[g]] = g
  BY DEF BuiltWell, Promise!IsFirstRow
<1>3. DOMAIN encoded = 1..NSources
  BY LaneRows
<1>4. /\ DOMAIN build.rowToGroup = 1..NSources
      /\ \A r \in 1..NSources : build.rowToGroup[r] \in 0..(build.nGroups - 1)
  BY <1>1, <1>3
<1>5. ASSUME NEW r \in 1..NSources, NEW q \in 1..NSources
      PROVE  build.rowToGroup[r] = build.rowToGroup[q] <=> KeyOf(Sources[r]) = KeyOf(Sources[q])
  BY <1>1, <1>3, LanesAreKeysOf
<1>6. QED BY <1>1, <1>2, <1>4, <1>5

\* The row of a group is the one expected of its key.
LEMMA GroupRowIs ==
  ASSUME Encoded, BuiltWell, NEW g \in 0..(build.nGroups - 1)
  PROVE  GroupRow(g) = ExpectedRow(SelectedRows, GroupKey(g))
<1>1. PICK f : f = build.firstRow[g]
  OBVIOUS
<1>2. f \in 1..NSources /\ build.rowToGroup[f] = g
  BY <1>1, BuiltFacts
<1>3. PICK k : k = KeyOf(Sources[f])
  OBVIOUS
<1> DEFINE G == {r \in DOMAIN build.rowToGroup :
                   build.rowToGroup[r] = g /\ (path = "fused" => g < MaxGroups)}
           E == {r \in SelectedRows : KeyOf(r) = k}
<1>4. g \in Nat /\ (path = "fused" => g < MaxGroups)
  <2>1. build.nGroups \in Nat /\ (path = "fused" => build.nGroups <= MaxGroups) /\ MaxGroups \in Nat
    BY GroupByAssumption DEF BuiltWell
  <2>2. QED BY <2>1
<1>5. \A r \in 1..NSources : r \in G <=> KeyOf(Sources[r]) = k
  BY <1>2, <1>3, <1>4, BuiltFacts
<1>6. G \in SUBSET (1..NSources)
  BY BuiltFacts
<1>7. E = {r \in SelectedRows : \E j \in G : Sources[j] = r}
  <2> HIDE DEF G
  <2>1. ASSUME NEW r \in SelectedRows PROVE KeyOf(r) = k <=> \E j \in G : Sources[j] = r
    <3>1. PICK j \in 1..NSources : Sources[j] = r
      BY SourceFacts DEF Encoded
    <3>2. ASSUME KeyOf(r) = k PROVE \E q \in G : Sources[q] = r
      BY <1>5, <3>1, <3>2
    <3>3. ASSUME NEW q \in G, Sources[q] = r PROVE KeyOf(r) = k
      BY <1>5, <1>6, <3>3
    <3>4. QED BY <3>2, <3>3
  <2>2. QED BY <2>1
<1>8. RowsOfGroup(g) = Ascending(G)
  BY DEF RowsOfGroup
<1> HIDE DEF G
<1>9. [i \in DOMAIN Aggs |-> ValueOver(upstream, Aggs[i], Ascending(G), EmptyExtremum)]
        = [i \in DOMAIN Aggs |-> ValueOver(ScanFrame, Aggs[i], Ascending(E), EmptyExtremum)]
  <2> HIDE DEF E
  <2>1. \A i \in DOMAIN Aggs : ValueOver(upstream, Aggs[i], Ascending(G), EmptyExtremum)
                                 = ValueOver(ScanFrame, Aggs[i], Ascending(E), EmptyExtremum)
    BY <1>6, <1>7, SameValues DEF Encoded
  <2>2. QED BY <2>1
<1>10. [i \in DOMAIN KeyNames |-> KeyValue(i, Representative(g))] = k
  <2>1. \A i \in DOMAIN KeyNames : KeyValue(i, encoded[f]) = k[i]
    BY <1>2, <1>3, KeyDecodes
  <2>2. k = [i \in DOMAIN KeyNames |-> k[i]]
    BY <1>3 DEF KeyOf
  <2>3. Representative(g) = encoded[f]
    BY <1>1 DEF Representative
  <2>4. QED BY <2>1, <2>2, <2>3
<1>11. GroupRow(g) =
         [keys |-> k,
          aggs |-> [i \in DOMAIN Aggs |-> ValueOver(upstream, Aggs[i], Ascending(G), EmptyExtremum)]]
  BY <1>8, <1>10 DEF GroupRow
<1>12. ExpectedRow(SelectedRows, k) =
         [keys |-> k,
          aggs |-> [i \in DOMAIN Aggs |-> ValueOver(ScanFrame, Aggs[i], Ascending(E), EmptyExtremum)]]
  BY DEF ExpectedRow
<1>13. GroupKey(g) = k
  BY <1>1, <1>3 DEF GroupKey
<1> HIDE DEF E
<1>14. QED BY <1>9, <1>11, <1>12, <1>13

\* The groups have the keys of the rows, one each.
LEMMA GroupKeys ==
  ASSUME Encoded, BuiltWell
  PROVE  /\ ExpectedKeys(SelectedRows) = {GroupKey(g) : g \in 0..(build.nGroups - 1)}
         /\ Cardinality(ExpectedKeys(SelectedRows)) = build.nGroups
<1>1. PICK n \in Nat : n = build.nGroups
  BY DEF BuiltWell
<1>2. ExpectedKeys(SelectedRows) = {KeyOf(r) : r \in SelectedRows}
  BY DEF ExpectedKeys, Encoded
<1>3. \A g \in 0..(n - 1) : /\ build.firstRow[g] \in 1..NSources /\ build.rowToGroup[build.firstRow[g]] = g
                            /\ GroupKey(g) = KeyOf(Sources[build.firstRow[g]])
  BY <1>1, BuiltFacts DEF GroupKey
<1>4. ASSUME NEW g \in 0..(n - 1) PROVE GroupKey(g) \in ExpectedKeys(SelectedRows)
  <2>1. Sources[build.firstRow[g]] \in SelectedRows
    BY <1>3, SourceFacts DEF Encoded
  <2>2. QED BY <1>2, <1>3, <2>1
<1>5. ASSUME NEW k \in ExpectedKeys(SelectedRows) PROVE \E g \in 0..(n - 1) : GroupKey(g) = k
  <2>1. PICK r \in SelectedRows : k = KeyOf(r)
    BY <1>2
  <2>2. PICK j \in 1..NSources : Sources[j] = r
    BY SourceFacts DEF Encoded
  <2>3. PICK g \in 0..(n - 1) : g = build.rowToGroup[j]
    BY <1>1, BuiltFacts
  <2>4. KeyOf(Sources[j]) = KeyOf(Sources[build.firstRow[g]])
    BY <1>3, <2>3, BuiltFacts
  <2>5. QED BY <1>3, <2>1, <2>2, <2>4
<1>6. ASSUME NEW g \in 0..(n - 1), NEW h \in 0..(n - 1), GroupKey(g) = GroupKey(h) PROVE g = h
  <2>1. build.firstRow[g] \in 1..NSources /\ build.firstRow[h] \in 1..NSources
    BY <1>3
  <2>2. KeyOf(Sources[build.firstRow[g]]) = KeyOf(Sources[build.firstRow[h]])
    BY <1>3, <1>6
  <2>3. build.rowToGroup[build.firstRow[g]] = build.rowToGroup[build.firstRow[h]]
    BY <2>1, <2>2, BuiltFacts
  <2>4. QED BY <1>3, <2>3
<1>7. ExpectedKeys(SelectedRows) = {GroupKey(g) : g \in 0..(n - 1)}
  BY <1>4, <1>5
<1>8. PICK f : f = [g \in 0..(n - 1) |-> GroupKey(g)]
  OBVIOUS
<1>9. /\ f \in [0..(n - 1) -> ExpectedKeys(SelectedRows)]
      /\ \A g, h \in 0..(n - 1) : f[g] = f[h] => g = h
      /\ \A k \in ExpectedKeys(SelectedRows) : \E g \in 0..(n - 1) : f[g] = k
  BY <1>4, <1>5, <1>6, <1>8
<1>10. IsFiniteSet(0..(n - 1)) /\ Cardinality(0..(n - 1)) = n
  BY FS_Interval
<1>11. Cardinality(ExpectedKeys(SelectedRows)) = n
  BY <1>9, <1>10, CountedBy
<1>12. QED BY <1>1, <1>7, <1>11

LEMMA AssembledAnswer ==
  ASSUME Encoded, BuiltWell
  PROVE  IsGroupBy(Assemble)
<1> SUFFICES ASSUME ~OnlyBoolKeys
             PROVE  /\ Len(Assemble) = Cardinality(ExpectedKeys(SelectedRows))
                    /\ Range(Assemble) = {ExpectedRow(SelectedRows, k) : k \in ExpectedKeys(SelectedRows)}
  BY DEF IsGroupBy
<1>1. PICK n \in Nat : n = build.nGroups
  BY DEF BuiltWell
<1>2. Height = n
  BY <1>1 DEF Height
<1>3. \A j \in 1..n : j - 1 \in 0..(n - 1)
  OBVIOUS
<1>4. Assemble = [j \in 1..n |-> GroupRow(j - 1)]
  BY <1>1, <1>2 DEF Assemble
<1>5. Assemble = [j \in 1..n |-> ExpectedRow(SelectedRows, GroupKey(j - 1))]
  BY <1>1, <1>3, <1>4, GroupRowIs
<1>6. Len(Assemble) = Cardinality(ExpectedKeys(SelectedRows))
  <2>1. Len([j \in 1..n |-> ExpectedRow(SelectedRows, GroupKey(j - 1))]) = n
    OBVIOUS
  <2>2. QED BY <1>1, <1>5, <2>1, GroupKeys
<1>7. Range(Assemble) = {ExpectedRow(SelectedRows, GroupKey(j - 1)) : j \in 1..n}
  BY <1>5 DEF Range
<1>8. {ExpectedRow(SelectedRows, GroupKey(j - 1)) : j \in 1..n} = {ExpectedRow(SelectedRows, k) : k \in ExpectedKeys(SelectedRows)}
  <2>1. ExpectedKeys(SelectedRows) = {GroupKey(g) : g \in 0..(n - 1)}
    BY <1>1, GroupKeys
  <2>2. \A g \in 0..(n - 1) : g + 1 \in 1..n /\ (g + 1) - 1 = g
    OBVIOUS
  <2>3. QED BY <1>3, <2>1, <2>2
<1>9. QED BY <1>6, <1>7, <1>8

\* Without keys there is one group, of all rows.
LEMMA ReducedAnswer ==
  ASSUME case \in Cases, case.input # "none", GroupByLowered, KeyNames = <<>>,
         upstream = Selected(Sources), path = "perAgg"
  PROVE  LET rs == Ascending(DOMAIN upstream[CHOOSE x \in Names : TRUE])
         IN  IsGroupBy(<<[keys |-> <<>>,
                          aggs |-> [i \in DOMAIN Aggs |-> ValueOver(upstream, Aggs[i], rs, Null)]]>>)
<1> DEFINE G == 1..NSources
           E == {r \in SelectedRows : KeyOf(r) = <<>>}
           row == [keys |-> <<>>,
                   aggs |-> [i \in DOMAIN Aggs |-> ValueOver(upstream, Aggs[i], Ascending(G), Null)]]
<1>1. DOMAIN upstream[CHOOSE x \in Names : TRUE] = G
  <2>1. (CHOOSE x \in Names : TRUE) \in Names
    BY QueryFacts
  <2>2. QED BY <2>1, UpstreamFacts
<1>2. \A r : KeyOf(r) = <<>>
  BY DEF KeyOf
<1>3. E = {r \in SelectedRows : \E j \in G : Sources[j] = r}
  BY <1>2, SourceFacts
<1>4. EmptyExtremum = Null
  BY DEF EmptyExtremum
<1>5. \A i \in DOMAIN Aggs : ValueOver(upstream, Aggs[i], Ascending(G), Null)
                               = ValueOver(ScanFrame, Aggs[i], Ascending(E), Null)
  <2> HIDE DEF E
  <2>1. G \in SUBSET (1..NSources)
    OBVIOUS
  <2> HIDE DEF G
  <2>2. QED BY <1>3, <2>1, SameValues
<1>6. ExpectedRow(SelectedRows, <<>>) =
        [keys |-> <<>>,
         aggs |-> [i \in DOMAIN Aggs |-> ValueOver(ScanFrame, Aggs[i], Ascending(E), Null)]]
  BY <1>4 DEF ExpectedRow
<1> HIDE DEF G, E
<1>7. ExpectedRow(SelectedRows, <<>>) = row
  BY <1>5, <1>6
<1>8. ExpectedKeys(SelectedRows) = {<<>>}
  BY DEF ExpectedKeys
<1>9. Cardinality(ExpectedKeys(SelectedRows)) = 1
  BY <1>8, FS_Singleton
<1>10. Len(<<row>>) = 1 /\ Range(<<row>>) = {row}
  <2> HIDE DEF row
  <2>1. Len(<<row>>) = 1 /\ DOMAIN <<row>> = {1} /\ <<row>>[1] = row
    OBVIOUS
  <2>2. QED BY <2>1 DEF Range
<1>11. {ExpectedRow(SelectedRows, k) : k \in ExpectedKeys(SelectedRows)} = {row}
  BY <1>7, <1>8
<1>12. IsGroupBy(<<row>>)
  BY <1>9, <1>10, <1>11 DEF IsGroupBy
<1>13. QED BY <1>1, <1>12

\* Whether there is a GroupBy at all, and the frame it reads when its input is at hand.
RouteInv == stage = "none" <=> case.input = "none"
InputInv == stage \in {"begin", "encode", "aggregate"} => upstream = Selected(Sources)

\* The path is chosen with the columns the encoder is given; the fused path may be left again.
PathInv == stage \in {"none", "walk", "input", "begin"} => path = "perAgg"
KeysInv == stage \in {"encode", "aggregate"} => columns = KeyColumns
BuildInv == stage = "aggregate" => encoding = "done" /\ BuiltWell

AnswerInv == stage = "answered" => IsGroupBy(answer)

GInv == RouteInv /\ InputInv /\ PathInv /\ KeysInv /\ BuildInv /\ AnswerInv

\* The reference reads the case and, for the answer to no value, the path.
LEMMA SameReference ==
  ASSUME UNCHANGED case
  PROVE  /\ KeyNames' = KeyNames /\ Aggs' = Aggs /\ case.input' = case.input
         /\ Sources' = Sources /\ Selected(Sources)' = Selected(Sources)
         /\ upstream' = upstream => KeyColumns' = KeyColumns
         /\ path' = path => (IsGroupBy(answer)' <=> IsGroupBy(answer'))
<1>1. KeyNames' = KeyNames /\ Aggs' = Aggs /\ case.input' = case.input
  BY DEF KeyNames, Aggs
<1>2. Rows' = Rows /\ Names' = Names /\ (\A x : Dtype(x)' = Dtype(x)) /\ \A r : IeeeValue(r)' = IeeeValue(r)
  BY SameCase
<1>3. \A x, r : Value(x, r)' = Value(x, r)
  BY DEF Value
<1>4. SelectedRows' = SelectedRows
  BY <1>1, <1>2 DEF SelectedRows, Kept
<1>5. Sources' = Sources
  BY <1>4 DEF Sources
<1>6. Selected(Sources)' = Selected(Sources)
  BY <1>2, <1>3, <1>5 DEF Selected
<1>7. ASSUME upstream' = upstream PROVE KeyColumns' = KeyColumns
  BY <1>1, <1>2, <1>7 DEF KeyColumns
<1>8. \A r : KeyOf(r)' = KeyOf(r)
  BY <1>1, <1>2, <1>3 DEF KeyOf
<1>9. ExpectedKeys(SelectedRows)' = ExpectedKeys(SelectedRows)
  BY <1>1, <1>4, <1>8 DEF ExpectedKeys
<1>10. ScanFrame' = ScanFrame
  BY <1>2, <1>3 DEF ScanFrame
<1>11. OnlyBoolKeys' <=> OnlyBoolKeys
  BY <1>1, <1>2 DEF OnlyBoolKeys
<1>12. ASSUME path' = path PROVE IsGroupBy(answer)' <=> IsGroupBy(answer')
  <2>1. EmptyExtremum' = EmptyExtremum
    BY <1>12 DEF EmptyExtremum
  <2>2. \A k : ExpectedRow(SelectedRows, k)' = ExpectedRow(SelectedRows, k)
    BY <1>1, <1>4, <1>8, <1>10, <2>1 DEF ExpectedRow
  <2>3. QED BY <1>9, <1>11, <2>2 DEF IsGroupBy
<1>13. QED BY <1>1, <1>5, <1>6, <1>7, <1>12

\* A scan is read from its slices.
LEMMA ScanSelects ==
  ASSUME case \in Cases, case.input = "scan"
  PROVE  [x \in Names |-> Materialize(x)] = Selected(Sources)
<1>1. IsCase(case) /\ case.height \in Nat /\ Rows = 1..case.height
  BY CaseAssumption, SourceFacts
<1>2. PICK h \in Nat : h = case.height
  BY <1>1
<1>3. Sources = [i \in 1..h |-> i]
  BY <1>1, <1>2, AscendingInterval DEF Sources, SelectedRows
<1>4. ASSUME NEW x \in Names PROVE Materialize(x) = [i \in 1..h |-> Value(x, i)]
  <2>1. PICK s, f : s = case.frame[x].parent /\ f = case.frame[x].offset
    OBVIOUS
  <2>2. f \in Nat /\ IsSequence(s) /\ f + h <= Len(s)
    BY <1>1, <1>2, <2>1 DEF IsCase, Names
  <2>3. Len(s) \in Nat /\ DOMAIN s = 1..Len(s)
    BY <2>2 DEF IsSequence
  <2>4. PICK m, S, u, v : /\ m = SubSeq(s, u, v) /\ S = {s[i] : i \in DOMAIN s}
                          /\ u = f + 1 /\ v = f + h
    OBVIOUS
  <2>5. u \in Int /\ v \in Int /\ \A j \in u..v : s[j] \in S
    BY <2>2, <2>3, <2>4
  <2>6. /\ m \in Seq(S) /\ Len(m) = (IF u <= v THEN v - u + 1 ELSE 0)
        /\ \A i \in 1..(v - u + 1) : m[i] = s[u + i - 1]
    BY <2>4, <2>5, SubSeqProperties
  <2>7. Len(m) = h /\ \A i \in 1..h : m[i] = s[f + i]
    <3>1. (u <= v <=> h > 0) /\ v - u + 1 = h /\ \A i \in 1..h : u + i - 1 = f + i
      BY <2>2, <2>4
    <3>2. QED BY <2>6, <3>1
  <2>8. m = [i \in 1..h |-> s[f + i]]
    BY <2>6, <2>7
  <2>9. QED BY <1>2, <2>1, <2>4, <2>8 DEF Materialize, Value
<1>5. Selected(Sources) = [x \in Names |-> [i \in 1..h |-> Value(x, i)]]
  BY <1>3 DEF Selected
<1>6. QED BY <1>4, <1>5

\* A Filter hands on the rows it selects.
LEMMA FilterSelects ==
  ASSUME IInv, SelInv, case \in Cases, case.input = "filter", GroupByLowered, phase = "answered"
  PROVE  result = Selected(Sources)
<1>1. case.predicate # <<>>
  BY GroupByAssumption
<1>2. Answered
  BY <1>1 DEF Answered, GroupByLowered
<1>3. result = FrameOfKept
  BY <1>2, KeptOfAnswer DEF FilterIsKept
<1>4. FrameOfKept = Selected(Sources)
  BY DEF FrameOfKept, Sources, SelectedRows
<1>5. QED BY <1>3, <1>4

\* The invariants that GInv leans on.
QueryInv == IInv /\ SelInv /\ EncInv /\ CauseInv /\ GInv

LEMMA InputSteps ==
  ASSUME QueryInv, UNCHANGED case, WalkGroupBy \/ TakeScan \/ TakeFiltered
  PROVE  GInv'
<1>1. case \in Cases /\ RouteInv /\ PathInv /\ StageInv
  BY DEF QueryInv, GInv, CauseInv
<1>2. stage \in {"walk", "input"} /\ path' = path /\ path = "perAgg" /\ case.input # "none"
  BY <1>1 DEF WalkGroupBy, TakeScan, TakeFiltered, PathInv, RouteInv
<1>3. /\ stage' \in {"input", "left to Polars", "begin", "failed"}
      /\ stage' = "begin" => upstream' = Selected(Sources)
  <2>1. CASE WalkGroupBy
    BY <2>1 DEF WalkGroupBy
  <2>2. CASE TakeScan
    BY <1>1, <2>2, ScanSelects DEF TakeScan
  <2>3. CASE TakeFiltered
    <3>1. GroupByLowered /\ case.input = "filter"
      BY <1>1, <2>3 DEF TakeFiltered, StageInv
    <3>2. CASE phase = "failed"
      BY <2>3, <3>2 DEF TakeFiltered
    <3>3. CASE phase = "answered"
      <4>1. result = Selected(Sources)
        BY <1>1, <3>1, <3>3, FilterSelects DEF QueryInv
      <4>2. stage' = "begin" /\ upstream' = result
        BY <2>3, <3>3 DEF TakeFiltered
      <4>3. QED BY <4>1, <4>2
    <3>4. QED BY <2>3, <3>2, <3>3 DEF TakeFiltered
  <2>4. QED BY <2>1, <2>2, <2>3
<1>4. QED BY <1>2, <1>3, SameReference DEF GInv, RouteInv, InputInv, PathInv, KeysInv, BuildInv, AnswerInv

LEMMA ReduceSteps ==
  ASSUME QueryInv, UNCHANGED case, ReduceInPolars
  PROVE  GInv'
<1>1. /\ case \in Cases /\ GroupByLowered /\ upstream = Selected(Sources) /\ path = "perAgg"
      /\ case.input # "none" /\ KeyNames = <<>> /\ stage = "begin"
  BY DEF QueryInv, GInv, CauseInv, RouteInv, StageInv, InputInv, PathInv, ReduceInPolars
<1>2. IsGroupBy(answer') /\ stage' = "answered" /\ path' = path
  BY <1>1, ReducedAnswer DEF ReduceInPolars, Settle
<1>3. AnswerInv'
  BY <1>2, SameReference DEF AnswerInv, IsGroupBy
<1>4. QED BY <1>1, <1>2, <1>3, SameReference DEF GInv, RouteInv, InputInv, PathInv, KeysInv, BuildInv

\* A dispatcher that is entered encodes the keys of the frame, or the query fails.
LEMMA EnteredSteps ==
  ASSUME QueryInv, UNCHANGED case, NEW p, EnterPath(p), upstream' = upstream, stage \in {"begin", "encode"}
  PROVE  GInv'
<1>1. upstream = Selected(Sources) /\ case.input # "none"
  BY DEF QueryInv, GInv, InputInv, RouteInv
<1>2. stage' = "failed" \/ (stage' = "encode" /\ columns' = KeyColumns)
  BY DEF EnterPath
<1>3. QED
  BY <1>1, <1>2, SameReference DEF GInv, RouteInv, InputInv, PathInv, KeysInv, BuildInv, AnswerInv

LEMMA EncodingSteps ==
  ASSUME QueryInv, UNCHANGED case, ExecuteGroupBy \/ EncodeKeys \/ EncodeFailed \/ GroupByFault
  PROVE  GInv'
<1>1. CASE EncodeFailed \/ GroupByFault \/ (ExecuteGroupBy /\ ~AllTagged)
  <2>1. stage' \in {"failed", "faulted"} /\ stage \in {"begin", "encode", "aggregate"}
    BY <1>1 DEF EncodeFailed, GroupByFault, ExecuteGroupBy
  <2>2. case.input # "none"
    BY <2>1 DEF QueryInv, GInv, RouteInv
  <2>3. QED
    BY <2>1, <2>2, SameReference DEF GInv, RouteInv, InputInv, PathInv, KeysInv, BuildInv, AnswerInv
<1>2. CASE ExecuteGroupBy /\ AllTagged
  <2>1. EnterPath(Decide) /\ upstream' = upstream /\ stage = "begin"
    BY <1>2 DEF ExecuteGroupBy
  <2>2. QED BY <2>1, EnteredSteps
<1>3. CASE EncodeKeys
  <2>1. stage = "encode" /\ UNCHANGED <<stage, upstream, path, build, answer>> /\ columns' = columns
    BY <1>3 DEF EncodeKeys, group, EncodeStep, AddField, TooWide, EncodeRows
  <2>2. upstream = Selected(Sources) /\ case.input # "none" /\ columns = KeyColumns
    BY <2>1 DEF QueryInv, GInv, InputInv, RouteInv, KeysInv
  <2>3. QED
    BY <2>1, <2>2, SameReference DEF GInv, RouteInv, InputInv, PathInv, KeysInv, BuildInv, AnswerInv
<1>4. QED BY <1>1, <1>2, <1>3

\* The keys of a query in "encode" or "aggregate" whose encoding is done.
LEMMA QueryEncoded ==
  ASSUME QueryInv, stage \in {"encode", "aggregate"}, encoding = "done"
  PROVE  Encoded
BY DEF QueryInv, GInv, CauseInv, StageInv, RouteInv, InputInv, KeysInv, Encoded

\* There is a first row of every group.
LEMMA FirstRowsExist ==
  ASSUME Encoded, NEW n \in Nat, NEW f \in [KeyRows -> 0..(n - 1)], Promise!IsGrouping(encoded, f, n)
  PROVE  \E first \in [0..(n - 1) -> KeyRows] : Promise!IsFirstRow(f, n, first)
<1>1. DOMAIN encoded = KeyRows /\ KeyRows = 1..NSources /\ KeyRows \in SUBSET Nat
  BY LaneRows
<1>2. ASSUME NEW g \in 0..(n - 1)
      PROVE  \E s \in KeyRows : f[s] = g /\ \A r \in KeyRows : f[r] = g => s <= r
  <2> DEFINE G == {r \in KeyRows : f[r] = g}
  <2>1. G \in SUBSET Nat /\ G # {}
    BY <1>1 DEF Promise!IsGrouping
  <2>2. PICK s \in G : \A r \in G : s <= r
    BY <2>1, LeastNumber
  <2>3. QED BY <2>2
<1>3. PICK first : first = [g \in 0..(n - 1) |->
        CHOOSE s \in KeyRows : f[s] = g /\ \A r \in KeyRows : f[r] = g => s <= r]
  OBVIOUS
<1>4. \A g \in 0..(n - 1) : /\ first[g] \in KeyRows /\ f[first[g]] = g
                            /\ \A r \in KeyRows : f[r] = g => first[g] <= r
  BY <1>2, <1>3
<1>5. first \in [0..(n - 1) -> KeyRows]
  BY <1>3, <1>4
<1>6. Promise!IsFirstRow(f, n, first)
  BY <1>4, <1>5 DEF Promise!IsFirstRow
<1>7. QED BY <1>5, <1>6

LEMMA BuildSteps ==
  ASSUME QueryInv, UNCHANGED case, BuildGroups
  PROVE  GInv'
<1>1. stage = "encode" /\ encoding = "done" /\ Encoded /\ upstream' = upstream
  BY QueryEncoded DEF BuildGroups
<1>0. PICK n \in 0..Len(encoded) : \E f \in [KeyRows -> 0..(n - 1)] :
        /\ Promise!IsGrouping(encoded, f, n)
        /\ build' = [rowToGroup |-> f, nGroups |-> n,
                     firstRow |-> CHOOSE first \in [0..(n - 1) -> KeyRows] :
                                    Promise!IsFirstRow(f, n, first)]
        /\ IF ExceedsCap(n) THEN GiveUp ELSE stage' = "aggregate" /\ UNCHANGED <<path, encoder>>
  BY DEF BuildGroups
<1>2. PICK f \in [KeyRows -> 0..(n - 1)] :
        /\ Promise!IsGrouping(encoded, f, n)
        /\ build' = [rowToGroup |-> f, nGroups |-> n,
                     firstRow |-> CHOOSE first \in [0..(n - 1) -> KeyRows] :
                                    Promise!IsFirstRow(f, n, first)]
        /\ IF ExceedsCap(n) THEN GiveUp ELSE stage' = "aggregate" /\ UNCHANGED <<path, encoder>>
  BY <1>0
<1>3. n \in Nat
  <2>1. encoded = [r \in 1..NSources |-> encoded[r]] /\ NSources \in Nat
    BY <1>1, LaneRows, SourceFacts DEF Encoded, EncInv
  <2>2. Len(encoded) = NSources
    BY <2>1
  <2>3. QED BY <1>2, <2>1, <2>2
<1>4. CASE ExceedsCap(n)
  <2>1. EnterPath("perAgg")
    BY <1>2, <1>4 DEF GiveUp
  <2>2. QED BY <1>1, <2>1, EnteredSteps
<1>5. CASE ~ExceedsCap(n)
  <2>1. stage' = "aggregate" /\ path' = path /\ columns' = columns /\ encoding' = encoding /\ encoded' = encoded
    BY <1>2, <1>5 DEF encoder
  <2>2. path = "fused" => n <= MaxGroups
    <3>1. MaxGroups \in Nat
      BY GroupByAssumption
    <3>2. QED BY <1>3, <1>5, <3>1 DEF ExceedsCap
  <2>3. PICK first \in [0..(n - 1) -> KeyRows] :
          /\ Promise!IsFirstRow(f, n, first)
          /\ first = CHOOSE s \in [0..(n - 1) -> KeyRows] : Promise!IsFirstRow(f, n, s)
    BY <1>1, <1>2, <1>3, FirstRowsExist
  <2>4. build'.nGroups = n /\ build'.rowToGroup = f /\ build'.firstRow = first
    BY <1>2, <2>3
  <2>5. BuiltWell'
    <3>1. Promise!IsGrouping(encoded, build.rowToGroup, build.nGroups)'
      BY <1>2, <2>1, <2>4 DEF Promise!IsGrouping
    <3>2. Promise!IsFirstRow(build.rowToGroup, build.nGroups, build.firstRow)'
      BY <2>3, <2>4 DEF Promise!IsFirstRow
    <3>3. QED BY <1>3, <2>1, <2>2, <2>4, <3>1, <3>2 DEF BuiltWell
  <2>6. upstream = Selected(Sources) /\ case.input # "none" /\ columns = KeyColumns
    BY <1>1 DEF Encoded
  <2>7. QED
    BY <1>1, <2>1, <2>5, <2>6, SameReference
    DEF GInv, RouteInv, InputInv, PathInv, KeysInv, BuildInv, AnswerInv
<1>6. QED BY <1>4, <1>5

LEMMA AggregateSteps ==
  ASSUME QueryInv, UNCHANGED case, AggregateAndDecode
  PROVE  GInv'
<1>1. stage = "aggregate" /\ stage' = "answered" /\ answer' = Assemble /\ path' = path
  BY DEF AggregateAndDecode, Settle
<1>2. encoding = "done" /\ BuiltWell /\ case.input # "none"
  BY <1>1 DEF QueryInv, GInv, BuildInv, RouteInv
<1>3. IsGroupBy(answer')
  BY <1>1, <1>2, QueryEncoded, AssembledAnswer
<1>4. AnswerInv'
  BY <1>1, <1>3, SameReference DEF AnswerInv, IsGroupBy
<1>5. QED BY <1>1, <1>2, <1>4, SameReference DEF GInv, RouteInv, InputInv, PathInv, KeysInv, BuildInv

LEMMA FilterKeeps ==
  ASSUME QueryInv, UNCHANGED case, FilterRuns
  PROVE  GInv'
<1>1. UNCHANGED <<stage, upstream, path, build, answer>> /\ stage \in {"none", "input"}
  BY DEF FilterRuns, group
<1>2. RouteInv /\ PathInv
  BY DEF QueryInv, GInv
<1>3. QED
  BY <1>1, <1>2, SameReference DEF GInv, RouteInv, InputInv, PathInv, KeysInv, BuildInv, AnswerInv

LEMMA StutterKeeps ==
  ASSUME QueryInv, UNCHANGED query
  PROVE  GInv'
<1>1. /\ UNCHANGED <<stage, upstream, path, build, answer>>
      /\ UNCHANGED <<columns, encoding, fields, offset, encoded>> /\ UNCHANGED case
  BY DEF query, vars, encoder, group
<1>2. RouteInv' /\ InputInv' /\ PathInv' /\ KeysInv'
  BY <1>1, SameReference DEF QueryInv, GInv, RouteInv, InputInv, PathInv, KeysInv
<1>3. BuildInv'
  BY <1>1 DEF QueryInv, GInv, BuildInv, BuiltWell, Promise!IsGrouping, Promise!IsFirstRow
<1>4. AnswerInv'
  <2>1. stage = "answered" => IsGroupBy(answer)
    BY DEF QueryInv, GInv, AnswerInv, IsGroupBy
  <2>2. stage' = "answered" => IsGroupBy(answer)'
    BY <1>1, <2>1, SameReference
  <2>3. QED BY <2>2 DEF AnswerInv, IsGroupBy
<1>5. QED BY <1>2, <1>3, <1>4 DEF GInv

LEMMA NextGInv == QueryInv /\ [QueryNext]_query => GInv'
<1> SUFFICES ASSUME QueryInv, [QueryNext]_query PROVE GInv'
  OBVIOUS
<1>1. UNCHANGED case
  BY QuerySteps, CaseStays
<1>2. CASE WalkGroupBy \/ TakeScan \/ TakeFiltered
  BY <1>1, <1>2, InputSteps
<1>3. CASE ReduceInPolars
  BY <1>1, <1>3, ReduceSteps
<1>4. CASE ExecuteGroupBy \/ EncodeKeys \/ EncodeFailed \/ GroupByFault
  BY <1>1, <1>4, EncodingSteps
<1>5. CASE BuildGroups
  BY <1>1, <1>5, BuildSteps
<1>6. CASE AggregateAndDecode
  BY <1>1, <1>6, AggregateSteps
<1>7. CASE FilterRuns
  BY <1>1, <1>7, FilterKeeps
<1>8. CASE UNCHANGED query
  BY <1>8, StutterKeeps
<1>9. QED BY <1>2, <1>3, <1>4, <1>5, <1>6, <1>7, <1>8 DEF QueryNext, QueryStep, GroupByStep

LEMMA InitGInv == QueryInit => GInv
<1> SUFFICES ASSUME QueryInit PROVE GInv
  OBVIOUS
<1>1. stage = (IF case.input = "none" THEN "none" ELSE "walk") /\ path = "perAgg"
  BY DEF QueryInit
<1>2. QED
  BY <1>1 DEF GInv, RouteInv, InputInv, PathInv, KeysInv, BuildInv, AnswerInv

\* The invariant of a query: its Filter's, its encoder's, its host's and its answer's.
LEMMA InitQueryInv == QueryInit => QueryInv
BY InitIInv, InitSelInv, InitEnc, InitCauseInv, InitGInv DEF QueryInit, QueryInv

LEMMA NextQueryInv == QueryInv /\ [QueryNext]_query => QueryInv'
<1>1. EncInv /\ EncodingStep => EncInv'
  BY EncodeSteps, FieldSteps, RowSteps DEF EncodingStep, EncodeStep
<1>2. QED
  BY <1>1, NextIInv, NextSelInv, NextCauseInv, NextGInv, QuerySteps DEF FilterStep, QueryInv

\* The rows the GroupBy reads are a selection of the Filter's.
LEMMA AnswerOfQuery == QueryInv => AnswerIsGroupBy
<1>1. SUFFICES ASSUME QueryInv, stage = "answered", ~OnlyBoolKeys
               PROVE  \E S \in GroupedRows :
                        /\ Len(answer) = Cardinality(ExpectedKeys(S))
                        /\ Range(answer) = {ExpectedRow(S, k) : k \in ExpectedKeys(S)}
  BY DEF AnswerIsGroupBy
<1>2. /\ Len(answer) = Cardinality(ExpectedKeys(SelectedRows))
      /\ Range(answer) = {ExpectedRow(SelectedRows, k) : k \in ExpectedKeys(SelectedRows)}
  BY <1>1 DEF QueryInv, GInv, AnswerInv, IsGroupBy
<1>3. case \in Cases /\ case.input # "none" /\ GroupByLowered
  BY <1>1 DEF QueryInv, GInv, RouteInv, CauseInv, StageInv
<1>4. SelectedRows \in GroupedRows
  <2>1. CASE case.input = "scan"
    BY <2>1 DEF SelectedRows, GroupedRows
  <2>2. CASE case.input # "scan"
    <3>1. case.predicate # <<>> /\ Lowered
      BY <1>3, <2>2, GroupByAssumption DEF GroupByLowered
    <3>2. Kept \in Selections
      BY <1>3, <3>1, KeptIsSelection DEF Selecting
    <3>3. QED
      BY <2>2, <3>2 DEF SelectedRows, GroupedRows
  <2>3. QED
    BY <2>1, <2>2
<1>5. QED
  BY <1>2, <1>4

\* The code enters a Filter, an encoding and a group build only as their invariants require, on
\* every path of a query (udf/groupby/mod.rs): what they promise, they promise there, and the
\* answer of execute_groupby is the GroupBy of what the Filter selects.
THEOREM QueriesAnswer == QuerySpec => [](QueryInv /\ AnswerIsGroupBy /\ GroupByFailsForCause)
<1>1. QueryInv => AnswerIsGroupBy /\ GroupByFailsForCause
  BY AnswerOfQuery DEF QueryInv, CauseInv
<1>2. QED
  BY <1>1, InitQueryInv, NextQueryInv, PTL DEF QuerySpec

=============================================================================
