-------------------------- MODULE AggregateKernel --------------------------
(***************************************************************************)
(* The aggregations of one group-by, from rows with a group to one value   *)
(* per group: the per-aggregation path (run_one_agg in groupby.rs, one     *)
(* kernel of shaders/aggregate.metal after the other), the fused path (one *)
(* kernel emitted for all of them, aggregate_fused/emitter.rs), and the    *)
(* CPU aggregators of 64-bit columns.                                      *)
(*                                                                         *)
(* A launch fills one buffer per slot.  Whoever adds to the buffers is a   *)
(* flusher: a row's thread, or thread 0 of a threadgroup whose SIMD groups *)
(* have reduced their rows before.  Integers are combined by one atomic    *)
(* operation, floats by a load and a compare-exchange in a loop.  Float    *)
(* values are exact and finite; integers run from -Half to Half - 1.  A    *)
(* spurious failure of the weak compare-exchange reloads what it compared  *)
(* with and so changes nothing.                                            *)
(***************************************************************************)
EXTENDS Integers, Sequences, FiniteSets, Functions, SequencesExt

CONSTANTS
  Columns,    \* inputs: values (integers or Null), groups (0, 1, ...), both per row
  Queries,    \* dtype of the value column, and the sequence of its aggregations
  Null,
  Half,       \* 2^(width of an integer - 1)
  Infinity,   \* the float larger than any value
  MaxGroups,  \* MAX_GROUPS and F32_AGG_MAX_GROUPS
  Lanes,      \* lanes of a SIMD group
  Simds,      \* SIMD groups of a threadgroup
  MaxTgs      \* F32_AGG_MAX_TGS and FUSED_MAX_TGS

ASSUME AggregateAssumption ==
  /\ \A c \in Columns :
       /\ c.values \in Seq({Null} \cup -Half..(Half - 1)) /\ c.values # <<>>
       /\ \E n \in 1..Len(c.values) :
            /\ c.groups \in [1..Len(c.values) -> 0..(n - 1)]
            /\ \A g \in 0..(n - 1) : \E r \in 1..Len(c.values) : c.groups[r] = g
  /\ \A q \in Queries :
       /\ q.dtype \in {"I32", "F32", "I64", "F64"}
       /\ q.aggs \in Seq({"Sum", "Min", "Max", "Mean", "Count", "Len"})
  /\ {Half, MaxGroups, Lanes, Simds, MaxTgs} \subseteq Nat \ {0}
  /\ Null \notin Int /\ Infinity \in Nat /\ Infinity > Half

VARIABLES
  query, column,
  phase,      \* "host", "gpu", "answered" or "failed"
  todo,       \* the launches the host has yet to make; the first is the running one
  staged,     \* SIMD groups that have written their partials
  flush,      \* per flusher: at, its place in its list, and old, what it loaded
  out,        \* the output buffers of the running launch, one per slot
  results,    \* the buffers of the launches before it
  answer      \* per aggregation, a value or Null per group

aggregateVars == <<query, column, phase, todo, staged, flush, out, results, answer>>

NRows  == Len(column.values)
Rows   == 1..NRows
Groups == {column.groups[r] : r \in Rows}
Aggs   == DOMAIN query.aggs
Wide   == query.dtype \in {"I64", "F64"}
Valid(r) == column.values[r] # Null

-----------------------------------------------------------------------------
\* Slots.  A slot is an aggregation and the role of the buffer in it: its value, or the
\* count of its valid rows.

Slot(a, role) == [agg |-> a, role |-> role]

SlotOp(s) == IF s.role = "count" THEN "Count"
             ELSE IF query.aggs[s.agg] = "Mean" THEN "Sum" ELSE query.aggs[s.agg]

IsCounter(s) == SlotOp(s) \in {"Count", "Len"}
IsFloat(s)   == ~IsCounter(s) /\ query.dtype \in {"F32", "F64"}

Wrap(x) == ((x + Half) % (2 * Half)) - Half

\* What a buffer is seeded with, and an accumulator starts from.
Identity(s) == CASE SlotOp(s) = "Min" -> IF IsFloat(s) THEN Infinity ELSE Half - 1
                 [] SlotOp(s) = "Max" -> IF IsFloat(s) THEN -Infinity ELSE -Half
                 [] OTHER             -> 0

Combine(s, x, y) ==
  CASE SlotOp(s) = "Min"                 -> IF y < x THEN y ELSE x
    [] SlotOp(s) = "Max"                 -> IF y > x THEN y ELSE x
    [] SlotOp(s) = "Sum" /\ ~IsFloat(s)  -> Wrap(x + y)
    [] OTHER                             -> x + y

\* Len counts every row, the others the valid ones.
Counted(s)   == {r \in Rows : SlotOp(s) = "Len" \/ Valid(r)}
Amount(s, r) == IF IsCounter(s) THEN 1 ELSE column.values[r]

\* An accumulator that starts from base and takes in the values of a.
Fold(s, base, a) == FoldFunction(LAMBDA x, y : Combine(s, x, y), base, a)

\* The accumulator of whoever goes over the rows in R, for one group.
Reduce(s, R, g) ==
  Fold(s, Identity(s), [r \in {r \in R \cap Counted(s) : column.groups[r] = g} |-> Amount(s, r)])

-----------------------------------------------------------------------------
\* Launches.

\* decide_groupby_dispatch for aggregations of plain columns, and the fall-back when
\* there are more groups than the fused kernel has registers for.
Fused == Len(query.aggs) >= 2 /\ ~Wide /\ \A g \in Groups : g < MaxGroups

Launch1(s) ==
  [slots |-> <<s>>,
   on    |-> IF Wide \/ query.aggs[s.agg] \in {"Count", "Len"} THEN "cpu"
             ELSE IF IsFloat(s) /\ \A g \in Groups : g < MaxGroups THEN "prereduce"
             ELSE "perRow"]

\* run_one_agg: min and max are followed by a count, which tells the groups without a
\* valid row; a mean needs both.
OneAgg(a) ==
  IF query.aggs[a] \in {"Min", "Max", "Mean"}
    THEN <<Launch1(Slot(a, "value")), Launch1(Slot(a, "count"))>>
    ELSE <<Launch1(Slot(a, "value"))>>

\* build_agg_slots: only a mean has a count companion.
FusedSlots(a) ==
  IF query.aggs[a] = "Mean" THEN <<Slot(a, "value"), Slot(a, "count")>> ELSE <<Slot(a, "value")>>

Launches ==
  IF Fused THEN <<[slots |-> FlattenSeq([a \in Aggs |-> FusedSlots(a)]), on |-> "prereduce"]>>
           ELSE FlattenSeq([a \in Aggs |-> OneAgg(a)])

Kernel == Head(todo)
Slots  == Kernel.slots

AggregateInit ==
  /\ query \in Queries /\ column \in Columns
  /\ phase = "host" /\ todo = Launches
  /\ staged = {} /\ flush = <<>> /\ out = <<>> /\ results = <<>> /\ answer = <<>>

-----------------------------------------------------------------------------
\* The grid of a prereduce kernel: each thread strides over the rows.

TgWidth == Lanes * Simds
NTgs ==
  LET target == (NRows + TgWidth - 1) \div TgWidth
  IN  IF target > MaxTgs THEN MaxTgs ELSE target

Thread(r)     == (r - 1) % (NTgs * TgWidth)
RowsOfTg(t)   == {r \in Rows : Thread(r) \div TgWidth = t}
RowsOf(t, sg) == {r \in RowsOfTg(t) : (Thread(r) % TgWidth) \div Lanes = sg}

\* What a SIMD group left in threadgroup memory, which is not initialized.
Partial(s, t, sg, g) == IF <<t, sg>> \in staged THEN Reduce(s, RowsOf(t, sg), g) ELSE 0

Prereduce == Kernel.on = "prereduce"
Flushers  == IF Prereduce THEN 0..(NTgs - 1) ELSE Rows

\* What flusher f adds to, in its order: the slots of each group, or its row's group.
NSlots == Len(Slots)
NGroups == Cardinality(Groups)
Targets(f) ==
  IF Prereduce
    THEN [i \in 1..(NGroups * NSlots) |->
            [slot |-> ((i - 1) % NSlots) + 1, group |-> (i - 1) \div NSlots]]
    ELSE IF f \in Counted(Slots[1]) THEN <<[slot |-> 1, group |-> column.groups[f]]>>
                                    ELSE <<>>

Target(f) == Targets(f)[flush[f].at]
TargetSlot(f) == Slots[Target(f).slot]

Total(f) ==
  LET s == TargetSlot(f)
  IN  IF Prereduce
        THEN Fold(s, Identity(s), [sg \in 0..(Simds - 1) |-> Partial(s, f, sg, Target(f).group)])
        ELSE Amount(s, f)

\* Fault: no barrier between the partials and thread 0.
ReadyEarly(f) == ~Prereduce \/ <<f, 0>> \in staged

\* threadgroup_barrier.
Ready(f) == Prereduce => \A sg \in 0..(Simds - 1) : <<f, sg>> \in staged

Flushing(f) == phase = "gpu" /\ f \in DOMAIN flush /\ flush[f].at \in DOMAIN Targets(f)
Finished(f) == flush[f].at \notin DOMAIN Targets(f)

-----------------------------------------------------------------------------
\* The host.

Launch ==
  /\ phase = "host" /\ todo # <<>> /\ Kernel.on # "cpu"
  /\ phase' = "gpu"
  /\ staged' = {}
  /\ flush' = [f \in Flushers |-> [at |-> 1, old |-> Null]]
  /\ out' = [i \in DOMAIN Slots |-> [g \in Groups |-> Identity(Slots[i])]]
  /\ UNCHANGED <<query, column, todo, results, answer>>

\* The buffers of the running launch under their slots.
Named(bufs) == [s \in {Slots[i] : i \in DOMAIN Slots} |->
                 bufs[CHOOSE i \in DOMAIN Slots : Slots[i] = s]]

\* The results and the buffers of one more launch.
Gained(bufs) == [s \in DOMAIN bufs \cup DOMAIN results |->
                  IF s \in DOMAIN bufs THEN bufs[s] ELSE results[s]]

\* wait_until_complete returns and the buffers are copied out.
Collect ==
  /\ phase = "gpu" /\ \A f \in DOMAIN flush : Finished(f)
  /\ phase' = "host"
  /\ results' = Gained(Named(out))
  /\ todo' = Tail(todo)
  /\ staged' = {} /\ flush' = <<>> /\ out' = <<>>
  /\ UNCHANGED <<query, column, answer>>

\* A CPU aggregator: rayon folds the rows on either side of some cuts; one stands for all.
CpuAggregate ==
  /\ phase = "host" /\ todo # <<>> /\ Kernel.on = "cpu"
  /\ LET s == Slots[1]
     IN  \E cut \in 0..NRows :
           results' = Gained([x \in {s} |->
                               [g \in Groups |-> Combine(s, Reduce(s, 1..cut, g),
                                                            Reduce(s, (cut + 1)..NRows, g))]])
  /\ todo' = Tail(todo)
  /\ UNCHANGED <<query, column, phase, staged, flush, out, answer>>

\* An allocation, the commit or the wait fails.
Fail ==
  /\ phase \in {"host", "gpu"} /\ todo # <<>> /\ Kernel.on # "cpu"
  /\ phase' = "failed"
  /\ staged' = {} /\ flush' = <<>> /\ out' = <<>>
  /\ UNCHANGED <<query, column, todo, results, answer>>

\* A mean is kept as its sum and count.
Mean(sum, count) == <<sum, count>>

\* The fused path takes every group of a Min or Max for valid.
Finalized(a, g) ==
  LET v == results[Slot(a, "value")][g]
      n == results[Slot(a, "count")][g]
  IN  CASE query.aggs[a] = "Mean"                      -> IF n = 0 THEN Null ELSE Mean(v, n)
        [] query.aggs[a] \in {"Min", "Max"} /\ ~Fused  -> IF n = 0 THEN Null ELSE v
        [] OTHER                                       -> v

Finish ==
  /\ phase = "host" /\ todo = <<>>
  /\ phase' = "answered"
  /\ answer' = [a \in Aggs |-> [g \in Groups |-> Finalized(a, g)]]
  /\ UNCHANGED <<query, column, todo, staged, flush, out, results>>

-----------------------------------------------------------------------------
\* The kernels.

\* A SIMD group has gone over its rows and writes its partials, of all groups and slots.
Stage(t, sg) ==
  /\ phase = "gpu" /\ Prereduce /\ <<t, sg>> \notin staged
  /\ staged' = staged \cup {<<t, sg>>}
  /\ UNCHANGED <<query, column, phase, todo, flush, out, results, answer>>

NextTarget(f) == flush' = [flush EXCEPT ![f] = [at |-> @.at + 1, old |-> Null]]
Write(f, v)   == out' = [out EXCEPT ![Target(f).slot][Target(f).group] = v]
Stored(f)     == out[Target(f).slot][Target(f).group]

KernelUnchanged == UNCHANGED <<query, column, phase, todo, staged, results, answer>>

\* Thread 0 does not flush an identity.
Skips(f) == Prereduce /\ Total(f) = Identity(TargetSlot(f))

Skip(f) ==
  /\ Flushing(f) /\ Ready(f) /\ Skips(f) /\ flush[f].old = Null
  /\ NextTarget(f)
  /\ UNCHANGED out /\ KernelUnchanged

\* atomic_fetch_add, _min, _max.
FetchOp(f) ==
  /\ Flushing(f) /\ Ready(f) /\ ~Skips(f) /\ ~IsFloat(TargetSlot(f))
  /\ Write(f, Combine(TargetSlot(f), Stored(f), Total(f)))
  /\ NextTarget(f)
  /\ KernelUnchanged

Load(f) ==
  /\ Flushing(f) /\ Ready(f) /\ ~Skips(f) /\ IsFloat(TargetSlot(f)) /\ flush[f].old = Null
  /\ flush' = [flush EXCEPT ![f].old = Stored(f)]
  /\ UNCHANGED out /\ KernelUnchanged

\* A minimum or maximum that would not change leaves the loop.
Improves(f) == SlotOp(TargetSlot(f)) \in {"Min", "Max"}
                 => Combine(TargetSlot(f), flush[f].old, Total(f)) # flush[f].old

\* Fault: the sum is stored without looking whether somebody has added to it since.
CompareExchangeBlind(f) ==
  /\ Flushing(f) /\ flush[f].old # Null
  /\ NextTarget(f)
  /\ Write(f, Combine(TargetSlot(f), flush[f].old, Total(f)))
  /\ KernelUnchanged

\* Fault: the value that made the exchange fail is not taken over.
CompareExchangeStale(f) ==
  /\ Flushing(f) /\ flush[f].old # Null
  /\ IF ~Improves(f) THEN NextTarget(f) /\ UNCHANGED out
     ELSE IF Stored(f) = flush[f].old
       THEN NextTarget(f) /\ Write(f, Combine(TargetSlot(f), flush[f].old, Total(f)))
       ELSE UNCHANGED <<flush, out>>
  /\ KernelUnchanged

CompareExchange(f) ==
  /\ Flushing(f) /\ flush[f].old # Null
  /\ \/ ~Improves(f) /\ NextTarget(f) /\ UNCHANGED out
     \/ /\ Improves(f) /\ Stored(f) = flush[f].old
        /\ Write(f, Combine(TargetSlot(f), flush[f].old, Total(f)))
        /\ NextTarget(f)
     \/ /\ Improves(f) /\ Stored(f) # flush[f].old
        /\ flush' = [flush EXCEPT ![f].old = Stored(f)]
        /\ UNCHANGED out
  /\ KernelUnchanged

Step ==
  \/ Launch \/ Collect \/ CpuAggregate \/ Finish
  \/ \E t \in 0..(MaxTgs - 1), sg \in 0..(Simds - 1) :
       t \in DOMAIN flush /\ Stage(t, sg)
  \/ \E f \in DOMAIN flush : Skip(f) \/ FetchOp(f) \/ Load(f) \/ CompareExchange(f)

AggregateNext == Step \/ Fail

\* The host's thread or the committed kernel goes on, whichever thread of it; nothing needs
\* to fail.
AggregateSpec == AggregateInit /\ [][AggregateNext]_aggregateVars /\ WF_aggregateVars(Step)

-----------------------------------------------------------------------------
\* Properties.

\* What flusher f has yet to add to group g of slot i.
Pending(f, i, g) ==
  LET rest == {n \in DOMAIN Targets(f) : n >= flush[f].at /\ Targets(f)[n] = [slot |-> i, group |-> g]}
  IN  IF rest = {} THEN Identity(Slots[i])
      ELSE Reduce(Slots[i], IF Prereduce THEN RowsOfTg(f) ELSE {f}, g)

\* No update is lost or applied twice: at any moment of a kernel, what is in the buffer and
\* what is still to be added make the aggregate of all rows (the compare-exchange loops and
\* the prereduce kernels of shaders/aggregate.metal, emit_final_flush).
NoLostUpdate ==
  phase = "gpu" =>
    \A i \in DOMAIN Slots, g \in Groups :
      Fold(Slots[i], out[i][g], [f \in DOMAIN flush |-> Pending(f, i, g)])
        = Reduce(Slots[i], Rows, g)

\* The sum of the valid rows of a group, which no width bounds.
SumOf(amounts) == FoldFunction(LAMBDA x, y : x + y, 0, amounts)
ExactSum(g) ==
  SumOf([r \in {r \in Rows : Valid(r) /\ column.groups[r] = g} |-> column.values[r]])

\* What Polars computes: null for a Min, Max or Mean without a valid row.  It adds up the
\* values of a mean as floats; a sum has the width of the column.
Expected(a, g) ==
  LET n == Reduce(Slot(a, "count"), Rows, g)
      v == Reduce(Slot(a, "value"), Rows, g)
  IN  CASE query.aggs[a] \in {"Min", "Max"} -> IF n = 0 THEN Null ELSE v
        [] query.aggs[a] = "Mean"           -> IF n = 0 THEN Null ELSE Mean(ExactSum(g), n)
        [] OTHER                            -> v

\* MeanI32, MeanI64: the sum below an integer mean does not fit the column's integers.  It
\* wraps there (groupby.rs 1352, 2423-2434), and Polars' does not.
MeanOverflows(a, g) ==
  /\ query.aggs[a] = "Mean" /\ ~IsFloat(Slot(a, "value"))
  /\ ExactSum(g) \notin -Half..(Half - 1)

\* The fused path has no count that would tell a Min or Max without a valid row
\* (finalize_simple_like calls it a limitation).
Seeded(a, g) == Fused /\ query.aggs[a] \in {"Min", "Max"} /\ Expected(a, g) = Null

\* On every path the answer is the aggregate of each group's rows as Polars computes it, but
\* for a mean whose sum has wrapped and for a seed that should be null: no lost, doubled or
\* misplaced row makes it wrong.
AnswerIsAggregate ==
  phase = "answered" =>
    \A a \in Aggs, g \in Groups :
      answer[a][g] = Expected(a, g) \/ MeanOverflows(a, g) \/ Seeded(a, g)

\* Every aggregation ends, whoever wins the exchanges.
AggregationEnds == <>(phase \in {"answered", "failed"})

=============================================================================
