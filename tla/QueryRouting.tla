---------------------------- MODULE QueryRouting ----------------------------
(***************************************************************************)
(* What becomes of one query between Polars' optimizer and its result: the *)
(* engine callback (_callback.py) over the walker's plan, the Rust router  *)
(* (router_udf.rs, cost.rs), the UDF builder and the dispatch functions    *)
(* (_udf.py) with the Rust plan interpreter (udf/mod.rs, predicate.rs).    *)
(*                                                                         *)
(* A plan is a chain of nodes, the leaf first.  A frame is represented by  *)
(* the sequence of the operations that produced it, so that one operation  *)
(* lost, repeated or replaced shows.  Expressions, dtypes and values are   *)
(* left out, but for what the control depends on: the rows of a scan and   *)
(* whether it emits a column of a dtype Metal has no tag for (opaque), the *)
(* width of composite keys, and whether the fusion analyzer accepted a     *)
(* node.  Plan shapes are those the walker lowers.                         *)
(***************************************************************************)
EXTENDS Naturals, Sequences

CONSTANTS
  Leaves,     \* scans, with rows : Nat, projected : BOOLEAN, opaque : BOOLEAN; joins
  Inner,      \* the other nodes, see MCQueryRouting
  MaxInner,   \* bound: nodes above the leaf
  MinRows,    \* GROUPBY_GPU_MIN_ROWS
  MaxBits     \* composite keys are packed into this many bits

ASSUME NodeAssumption ==
  /\ \A l \in Leaves : l.kind \in {"Scan", "Join"}
  /\ \A n \in Inner : /\ n.kind \in {"Project", "Filter", "GroupBy", "Sort", "HStack"}
                      /\ n.kind = "GroupBy" => n.bits \in Nat
  /\ MaxInner \in Nat /\ MinRows \in Nat /\ MaxBits \in Nat

VARIABLES
  plan,       \* the optimized plan
  stage,      \* "submitted", "installed" (a UDF), or "done"
  lifting,    \* the router's decisions, empty before it ran
  by,         \* who answered: "cpu", "udf", "joinUdf", or "callback" for its error
  result      \* the frame, or Failure

vars == <<plan, stage, lifting, by, result>>

IsPlan(p) ==
  \E leaf \in Leaves, n \in 0..MaxInner : \E rest \in [1..n -> Inner] : p = <<leaf>> \o rest

Frame(ops) == [ok |-> TRUE, ops |-> ops]
Failure    == [ok |-> FALSE, ops |-> <<>>]
Then(f, op) == IF f.ok THEN Frame(Append(f.ops, op)) ELSE Failure

Project == [kind |-> "Project"]

\* The placeholder expression of a fused HStack binding names its first input column.
CopyOfInput == [kind |-> "CopyOfInput"]

\* A scan that records a projection is a Project over a Scan.
Wire(p) == IF p[1].kind = "Scan" /\ p[1].projected
             THEN <<p[1], Project>> \o Tail(p) ELSE p

Init ==
  /\ IsPlan(plan)
  /\ stage = "submitted" /\ lifting = <<>> /\ by = "none" /\ result = Failure

-----------------------------------------------------------------------------
\* The walker and the router.

\* Only an HStack whose every binding is fused is Handled.
Handled(p) == \A i \in DOMAIN p : p[i].kind = "HStack" => p[i].fused

HasJoin(p) == p[1].kind = "Join"

\* _parent_chain: an HStack sits directly above the Join.
HasParentChain(p) == Len(p) > 1 /\ p[2].kind = "HStack"

\* peek_input_row_count walks to the scan, whatever lies between.
InputRows(p) == p[1].rows

\* parse_and_route with the rules of cost.rs.
Decisions(p) ==
  LET d[i \in DOMAIN p] ==
        CASE p[i].kind \in {"Project", "Sort", "HStack"} -> d[i - 1]
          [] p[i].kind = "GroupBy" /\ InputRows(p) > MinRows -> "gpu_lift"
          [] OTHER -> "cpu_leave"
  IN  d

FusedBinding(p) ==
  \E i \in DOMAIN p : p[i].kind \in {"HStack", "GroupBy", "Sort"} /\ p[i].fused

-----------------------------------------------------------------------------
\* The dispatch functions; node i of a wire plan w.

\* The nodes deserialize_plan knows; it raises at any other, and at the tag of an
\* opaque column.
Deserialized(w, i) ==
  ~w[1].opaque /\ \A j \in 1..i : w[j].kind \in {"Scan", "Project", "Filter"}

\* Of those, execute_node runs scans and projections only.
ExecutePlan(w, i) ==
  IF Deserialized(w, i) /\ \A j \in 1..i : w[j].kind \in {"Scan", "Project"}
    THEN Frame(SubSeq(w, 1, i)) ELSE Failure

\* A bare scan is the captured frame itself.
Upstream(w, i) == IF w[i].kind = "Scan" THEN Frame(<<w[i]>>) ELSE ExecutePlan(w, i)

\* _dispatch_filter and _filter_via_polars.
Filtered(w, i) == Then(Upstream(w, i - 1), w[i])

ProjectOver(w, i, kind) == w[i].kind = "Project" /\ w[i - 1].kind = kind

\* What lies on a scan: a filter, by itself or below a projection, or neither.
OverScan(w, i) ==
  CASE w[i].kind = "Filter"        -> Filtered(w, i)
    [] ProjectOver(w, i, "Filter") -> Then(Filtered(w, i - 1), w[i])
    [] OTHER                       -> Upstream(w, i)

FusedHStack(w, i) == w[i].kind = "HStack" /\ w[i].fused

\* Fault: the select over an HStack is taken for a pass-through.
DispatchNoSelect(w) ==
  LET d[i \in DOMAIN w] == IF ProjectOver(w, i, "HStack") THEN d[i - 1]
                           ELSE IF FusedHStack(w, i) THEN Then(d[i - 1], w[i])
                           ELSE OverScan(w, i)
  IN  d

\* _dispatch.
Dispatch(w) ==
  LET d[i \in DOMAIN w] == IF ProjectOver(w, i, "HStack") \/ FusedHStack(w, i)
                             THEN Then(d[i - 1], w[i]) ELSE OverScan(w, i)
  IN  d

\* Fault: a filter below a pushed-down projection goes to the plan interpreter.
GroupByInputBareFilter(w, i) ==
  LET peeled == w[i - 1].kind = "HStack"
      u == IF peeled THEN i - 2 ELSE i - 1
      upstream == IF w[u].kind = "Filter" THEN Filtered(w, u) ELSE Upstream(w, u)
  IN  IF peeled THEN Then(upstream, CopyOfInput) ELSE upstream

\* The input of a GroupBy: an HStack on top is peeled off and its expressions are
\* evaluated by Polars over the rest.
GroupByInput(w, i) ==
  IF w[i - 1].kind = "HStack" THEN Then(OverScan(w, i - 2), CopyOfInput) ELSE OverScan(w, i - 1)

\* _dispatch_groupby, or the fused reduction; encode_keys refuses wide keys.
GroupBy(w, i) ==
  CASE w[i].fused           -> Then(Dispatch(w)[i - 1], w[i])
    [] ~w[i].fused /\ w[i].bits > MaxBits -> Failure
    [] OTHER                -> Then(GroupByInput(w, i), w[i])

\* The plan below the sorts at its root, which _build_sort runs first.
Body(p) == SubSeq(p, 1, CHOOSE n \in DOMAIN p :
             p[n].kind # "Sort" /\ \A i \in (n + 1)..Len(p) : p[i].kind = "Sort")

\* _extract_scan_df_and_wire_plan has no case for a Sort.
CanBuild(p) == \A i \in DOMAIN Body(p) : p[i].kind # "Sort"

\* What the UDF of build_udf returns.
UdfResult(p) ==
  LET w == Wire(Body(p))
      n == Len(w)
      f == IF w[n].kind = "GroupBy" THEN GroupBy(w, n) ELSE Dispatch(w)[n]
  IN  IF f.ok THEN Frame(f.ops \o SubSeq(p, Len(Body(p)) + 1, Len(p))) ELSE Failure

-----------------------------------------------------------------------------
\* execute_with_metal

Answer(who, f) == stage' = "done" /\ by' = who /\ result' = f

\* No set_udf: Polars runs the plan.
OnCpu == Answer("cpu", Frame(Wire(plan))) /\ UNCHANGED plan

\* Also for an expression or a dtype outside the closed set, at any node.
WalkerFallsBack ==
  /\ stage = "submitted"
  /\ OnCpu /\ UNCHANGED lifting

\* Without a chain, or below the density gate, unless fusion is forced.
JoinToCpu ==
  /\ stage = "submitted" /\ Handled(plan) /\ HasJoin(plan)
  /\ OnCpu /\ UNCHANGED lifting

InstallJoin ==
  /\ stage = "submitted" /\ Handled(plan) /\ HasJoin(plan) /\ HasParentChain(plan)
  /\ stage' = "installed" /\ by' = "joinUdf"
  /\ UNCHANGED <<plan, lifting, result>>

\* No lifted node and no fused binding leave the plan to Polars.
Route ==
  LET d == Decisions(plan)
  IN  /\ stage = "submitted" /\ Handled(plan) /\ ~HasJoin(plan)
      /\ lifting' = d
      /\ IF FusedBinding(plan) \/ \E i \in DOMAIN d : d[i] = "gpu_lift"
           THEN /\ UNCHANGED <<plan, result>>
                /\ IF CanBuild(plan) THEN stage' = "installed" /\ by' = "udf"
                                     ELSE stage' = "done" /\ by' = "callback"
           ELSE OnCpu

\* Polars calls the UDF.
RunUdf ==
  /\ stage = "installed" /\ by = "udf"
  /\ Answer("udf", UdfResult(plan))
  /\ UNCHANGED <<plan, lifting>>

\* _dispatch_join: the join, then the chain directly above it.
RunJoinUdf ==
  /\ stage = "installed" /\ by = "joinUdf"
  /\ Answer("joinUdf", Frame(SubSeq(plan, 1, 2)))
  /\ UNCHANGED <<plan, lifting>>

Next ==
  \/ WalkerFallsBack \/ JoinToCpu \/ InstallJoin \/ Route
  \/ RunUdf \/ RunJoinUdf

Spec == Init /\ [][Next]_vars

-----------------------------------------------------------------------------
Done == stage = "done"

\* Shapes in which a UDF's frame is not the plan's: the README lists both (section 3.1).
HStackUnderGroupBy ==
  \E i \in 2..Len(plan) : /\ plan[i].kind = "GroupBy" /\ ~plan[i].fused
                          /\ plan[i - 1].kind = "HStack"
OperationsAboveJoinChain == plan[1].kind = "Join" /\ Len(plan) > 2

\* The frame a query returns is that of its plan: through all of peeling, recursion and
\* nested UDFs no operation is lost, repeated or moved - except in the two shapes.
FrameIsThePlan ==
  Done /\ result.ok /\ ~HStackUnderGroupBy /\ ~OperationsAboveJoinChain
    => result.ops = Wire(plan)

\* The shapes the dispatch functions are written for: sorts over one GroupBy with keys
\* that fit, or over fused HStacks with at most one projection on top, over a filter
\* (with a projection on it or not) of projected scans without opaque columns, or of
\* bare scans.
SimpleShape(p) ==
  LET b == Body(p)
      Scans(n) == \A i \in 2..n : b[i].kind = "Project"
      FilteredScans(n) ==
        \/ Scans(n)
        \/ b[n].kind = "Filter" /\ Scans(n - 1)
        \/ n > 2 /\ b[n].kind = "Project" /\ b[n - 1].kind = "Filter" /\ Scans(n - 2)
      HStacks(m, n) == \A i \in m..n : b[i].kind = "HStack"
      w == Wire(b)
      OpaqueParsed == w[1].opaque /\ Len(w) > 1 /\ w[2].kind = "Project"
  IN  /\ p[1].kind = "Scan" /\ ~OpaqueParsed
      /\ \E m \in 1..Len(b) :
           /\ FilteredScans(m)
           /\ \/ Len(b) = m + 1 /\ b[Len(b)].kind = "GroupBy" /\ b[Len(b)].bits <= MaxBits
              \/ HStacks(m + 1, Len(b))
              \/ b[Len(b)].kind = "Project" /\ Len(b) > m + 1 /\ HStacks(m + 1, Len(b) - 1)

\* A query of such a shape never raises, neither in the callback nor in its UDF.
SimpleShapesRun == Done /\ SimpleShape(plan) => result.ok

=============================================================================
