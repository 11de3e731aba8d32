# polars-metal: a verification development

polars-metal is a GPU engine for Polars on Apple Silicon. A Python callback walks the plan that
Polars has optimized, decides which nodes to lift, and installs a UDF on the root; the UDF marshals
columns to Rust, which runs Metal kernels (or MLX graphs) and hands back a frame. This directory
holds TLA+ modules that model the parts of the engine with state, concurrency or intricate control,
TLC configurations that check them, and TLAPS proofs.

Paths are relative to the repository root. `K/` stands for `crates/polars-metal-kernels/src/`,
`C/` for `crates/polars-metal-core/src/`, `B/` for `crates/polars-metal-buffer/src/` and `P/` for
`python/polars_metal/`.

## 1. The system

### 1.1 Components, their state and operations

| Component | Code | State it keeps | Operations |
|---|---|---|---|
| Patched collect | `P/__init__.py` | the saved `LazyFrame.collect`, a re-entrancy guard | `collect(engine=...)`, fallbacks |
| Walker | `P/_walker.py` | the wire plan under construction, the fusion scope | one lowering per node kind; `Handled` or `FallBack` |
| Fusion analyzer | `P/_fusion_analyzer.py`, `C/fusion` | subgraphs of expressions, null modes, density gate | accept or reject a binding |
| Router | `C/router_udf.rs`, `C/router/cost.rs` | none (a decision per node) | `parse_and_route` |
| Query callback | `P/_callback.py` | none; installs a UDF on the node traverser | `execute_with_metal` |
| UDF builders and dispatch | `P/_udf.py` | the captured frame, plan and fused scope | one `_dispatch_*` per shape |
| Plan interpreter | `C/udf/mod.rs`, `C/udf/predicate.rs` | none | `deserialize_plan`, `execute_plan` |
| Filter | `P/_walker.py` (closed set), `P/_udf.py`, `K/{cmp,logical,filter,pipeline}.rs`, `C/udf/{compare,logical,compact}.rs`, `shaders/{cmp_*,bool_*,filter_compact}.metal` | device buffers of one call | evaluate a predicate, compact columns, mask in Polars; each way falls back on the other |
| Group-by orchestration and key encoding | `K/groupby.rs`, `C/udf/groupby/`, `P/_udf.py` | none | marshal, encode keys, choose a dispatcher, build, aggregate, decode, restart |
| Build A1 (partitioned hash) | `K/groupby_build_partitioned/`, `shaders/groupby_build_partitioned_*.metal` | process-wide scratch behind a `OnceLock` and a `Mutex`; threadgroup tables | `dispatch_build`, three kernels |
| Build A2 (sort) | `K/groupby_build_sort/`, `shaders/groupby_sort_u128_lane.metal`, `shaders/groupby_segments.metal` | device buffers of one call | 16 radix passes, segment kernel, host scan |
| Build A3 (global hash) | `K/groupby_global_hash/`, `shaders/groupby_global_hash.metal` | a hash table in device memory | one kernel (not dispatched) |
| Shader library | `K/shader_lib.rs` | temporary metallib, two `OnceLock`s, `Mutex` of pipeline states | `load`, `shared_library`, `pipeline` |
| Fused aggregation | `K/aggregate_fused/` | `Mutex` of compiled signatures | `get_or_compile`, `warmup`, `emit_msl` |
| Command queue | `K/command.rs` | at most one tracked command buffer | dispatch, wait |
| Buffers and arena | `B/bridge.rs`, `C/arena.rs` | an `Arc` of the backing buffer, a bump cursor | `alloc`, `view_into`, `shallow_clone`, drop |
| FFT | `P/_fft_dispatch.py`, `C/fft.rs`, `K/fft.rs`, `shaders/fft.metal` | device buffers of one call | choose an algorithm by size, recursive passes, one launch and one wait at a time, CPU fallback |
| Elementwise, rolling, DTW, date, vector, correlation kernels | `K/*.rs`, `shaders/`, `P/_*_dispatch.py` | none between calls | one kernel per operation |
| MLX bridge | `crates/polars-metal-mlx-sys` | MLX's own caches | graph construction, eval |

### 1.2 How they interact

Polars calls the callback with a traverser of the optimized plan. The callback asks the walker for a
wire plan, the router for a decision per node, and installs one closure on the root; from then on
Polars' executor calls the closure, which recurses through the dispatch functions and calls Rust.
Several queries may run at once on different threads; within a process they share the shader
library, the pipeline-state caches and the scratch of build A1. A kernel is committed on one call
and waited for on another, so between the two the host must not reuse what the GPU reads or writes.

### 1.3 What is hard here

* Threads of one threadgroup race through a hash table with relaxed atomics and a weak
  compare-exchange, and one thread spins until another publishes.
* Buffers that outlive a call are reused by the next caller without being cleared.
* Any allocation, commit or wait may fail, and the failing step must leave locks, capacities and
  answers consistent; declining is not failing, and falls back to the CPU.
* One-time initialisation runs under races and can fail once for all.
* Caches look up and insert under two separate lock acquisitions.
* Views, clones, the arena and command buffers release one `Arc` in any order.
* Each dispatch function peels a shape of plan; shapes nest in ways none of them lists.
* The two ways to apply a Filter call each other, and the two dispatchers of a GroupBy hand a query on
  after the keys were encoded: whatever was computed before must be computed again or not be used.
* A binding with nulls is computed by two graphs that never see each other: one for the values, in which a
  null is a NaN or a zero, and one for which rows are valid, which must ask the same branch of every `when`.
* Buffers lose what a column knows of itself: the offset of a slice, the elided bitmap of a column
  without nulls, the dictionary of a string column, the sign and the classes of a float.

The list with lines is `PROJECT.json`, "hazards".

### 1.4 What makes each component correct

Build (any): rows share a group exactly when they share a key; ids are dense; `first_row_per_group`
is the first occurrence. A1's host: a call's answer depends on its own keys only, whoever shared the
scratch before; every call returns. Shader library: Metal reads a complete file; one outcome per
process; one pipeline state per key, compiled for that key. Arena: views are aligned, disjoint, and
never outlive their bytes. Filter: the frame holds the rows on which the predicate is true, in order, nulls included. GroupBy: one
row per key, with the aggregates of that key's rows, whichever dispatcher answers. Routing: the frame returned is the frame of the plan; a plan no dispatch
function knows stays on the CPU. FFT: whatever algorithm
the size selects, the column is the discrete Fourier transform, and no two threads touch a word without a
barrier between them. Command queue: an error of any dispatch reaches the caller (true because every
caller waits after each dispatch: the queue tracks the last one only). Walker
and analyzer: what is fused has the semantics of what Polars would compute, nulls included.

## 2. The modules

```
GroupBuild  (abstract: one atomic step from keys to a grouping)
   ^ implemented by            ^ implemented by           ^ implemented by
PartitionBuild              A1Build                    SortBuild
(kernel, thread by thread)  (callers, scratch, host,   (radix passes, SIMD groups,
                             kernels of A1)             segments)
   ^ EXTENDS                    ^ EXTENDS                  ^ EXTENDS
MCPartitionBuild            MCA1Build                  MCSortBuild
PartitionBuildProofs        A1BuildProofs              SortFftProofs (with Fft, below)
                               |                          |
                               +------EXTENDS-------------+--> CountingLemmas

ShaderLoad --INSTANCE--> ShaderLibrary --EXTENDS--> PsoCache     BumpArena        QueryRouting
                              ^ MCShaderLibrary                  ^ MCBumpArena     ^ MCQueryRouting
                              |                                  |                 |
                              +-----------EXTENDS----------------+-----------------+-- QueryProofs

AggregateKernel  (host launches, threadgroups and SIMD groups, compare-exchange loops)
   ^ MCAggregateKernel
   ^ QueryProofs, above

Fft  (plan, recursion and launches of the host, threadgroups, Bluestein's three transforms)
   ^ MCFft
   ^ SortFftProofs --EXTENDS--> CountingLemmas  (with SortBuild, above)

FloatOrder --EXTENDS--> PredicateFilter --EXTENDS--> GroupByQuery <--EXTENDS-- KeyEncoding
                          ^ MCPredicateFilter           |  ^ MCGroupByQuery
                                                        |  ^ GroupByQueryProofs -------+
                                                        +--INSTANCE--> GroupBuild      |
                                                        |                              |
FusionAnalyzer --------------EXTENDS--------------> HStackQuery                        |
   ^ FusionProofs -----+                                ^ MCHStackQuery                |
   (EXTENDS            +------------EXTENDS------- HStackQueryProofs --EXTENDS---------+
    PredicateFilter)
```

**GroupBuild** is what `BuildOutput` promises (`K/groupby_build_partitioned/mod.rs` 22-52). `answer`
is the result of the current call; `Build` picks any correct one, `Call` starts the next call.

**PartitionBuild** is `shaders/groupby_build_partitioned_build.metal`, one threadgroup on one
partition's slice, with an action per memory access: read the state of a slot, compare-exchange,
store the key, draw an id, publish, spin, compare, move on, give up. Threadgroups share only
`overflow_flag`, which they all only set, so one is enough. `Ordered` and `SpuriousCas` say how much
of MSL's freedom a behaviour uses: whether a thread that sees a published state may still read the zeros
`slot_key` was initialised with, or a key of which one word is still zero (`Torn`, `Misreadings`), and whether the weak
compare-exchange may fail on a free slot. Two history variables: `claimedBy`, and `misled`, which records that
a thread has gone on with words that were not in memory, or after a spurious failure. Grouping is exact until then,
whatever the two constants are. `SimdWidth` threads are a SIMD group; `Starved` says that a sibling which
spins may keep a thread from running. An id is stored as `gid + 1` and read back with `Pred`, which wraps like
`uint`.

**A1Build** is `dispatch_build`, `try_a1_build` (`K/groupby.rs` 440-571),
`partition_and_build_with_scratch` (`gpu.rs`), the scratch (`scratch.rs`) and the scatter kernels.
Callers have program counters; `gpu` is the committed command buffer, whose kernel advances a row or
a partition at a time in any order and may fail. The build kernel is represented by `GroupBuild`'s
promise, which PartitionBuild keeps. Buffers keep what the previous caller left, at the previous
caller's capacity.

**SortBuild** is build A2. The process is a SIMD group: its lanes run in lockstep and exchange
digits by broadcast. A key is the function from its lanes (bytes, lane 0 the lowest) to their digits: a pass
reads one of them, the segmentation compares whole keys. Clearing, counting and scattering are steps of a SIMD group, separated by the
tile's barriers; tiles interleave freely. `Pos` is global offset + tile prefix + cross-group rank +
rank in the group. `starts` is the bit set built by atomic or.

**AggregateKernel** is what follows a build: one value per aggregation and group. The host's part
(`run_one_agg`, `dispatch_groupby_fused` from its cap on, `decide_groupby_dispatch`) is a list of
launches, `todo`, of which one runs at a time; a launch has a buffer per *slot*, an aggregation and a
role (its value, or the count of valid rows a mean, minimum or maximum needs besides). A *flusher* is
whoever adds to the buffers: a row's thread, or thread 0 of a threadgroup of a pre-reducing kernel
(the `_prereduce` kernels of `shaders/aggregate.metal` and the emitted fused kernel), which waits at
the barrier for the partials its SIMD groups `Stage`. Integers are added by one atomic operation,
floats by `Load` and `CompareExchange` in a loop. The CPU aggregators of 64-bit columns fold the rows
in two parts, cut anywhere. Sums wrap in the width of their column; the answer is held to `Expected`, in which a mean
divides the exact sum (`ExactSum`), as Polars' does, and a Min or Max without a valid row is null.

**ShaderLoad** is the one-time materialisation and load of the metallib, **PsoCache** the
lookup-build-insert pattern of `ShaderLibrary::pipeline` and of `FusedLibraryCache::get_or_compile`,
**ShaderLibrary** their composition: a thread asks for a pipeline state only on a loaded library.
PsoCache stays abstract in what a key is: an entry point is its own key, a signature's key is a
64-bit hash, which two signatures may share.

**BumpArena** is `C/arena.rs` with `view_into` and `shallow_clone` of `B/bridge.rs`. `owners` is the
set of owners of the backing `Arc`; the bytes are freed when it is empty. `usize` has a largest
value, and both additions of `alloc` are checked.

**QueryRouting** follows one query through callback, router, UDF builder and dispatch functions. A
frame is the sequence of operations that produced it. Data is kept only where control depends on it:
the scan's rows, an opaque column, the width of the keys, whether the analyzer accepted a node.

**FloatOrder** is the arithmetic of `shaders/cmp_f64.metal`, which compares 64-bit patterns because
Metal has no double: NaN test, the two zeros, the total-order key. The widths of mantissa and
exponent are constants. Beside it stand the meaning it is held to, IEEE 754's (`IeeeCompare`, proved to be what the
kernels compute), and Polars' order (`PolarsCompare`), which takes NaN for the largest number; they differ on NaN only.

**PredicateFilter** is one lifted Filter. `Walk` accepts the closed set of predicates. A predicate is a
postfix sequence of nodes: `stack` holds the bitmaps (data and validity) of the finished ones. Every
kernel (`Effect`) runs row by row in any order on buffers that start at zero; `launch` is the tracked
command buffer, `Collect` the wait and the copy out. `EnterCompact` is `_dispatch_filter`: keep flags,
an inclusive prefix sum, one scatter per column. `EnterPolars` is `_filter_via_polars`: the bitmaps
become a mask. `Call` is one function calling the other, `hops` the depth, which `RecursionLimit`
(Python's) ends. `DeviceFault` is any allocation, commit or MLX call failing.

**KeyEncoding** is `encode_keys` and `decode_keys` of `K/groupby.rs`: a column at a time gets a flag bit and
a data field in a lane of 128 bits, or the call fails. Widths are the real ones; a bit pattern is the
set of its one bits, so a 64-bit value costs TLC what its ones cost.

**GroupByQuery** composes both into a GroupBy over a scan or over a Filter: the walker's closed set
(`_walk_group_by`, `_walk_agg_expression`), the marshalling of `_dispatch_groupby` with the dictionary of
strings, `decide_groupby_dispatch`, the two dispatchers, `NgroupsExceedsFusedCap` and the restart it causes, the
decoding of keys and the assembly of the frame. The build is GroupBuild's promise
(`Promise!IsGrouping`), which PartitionBuild and A1Build keep; an aggregation answers what AggregateKernel
is checked to answer. A Filter runs either by itself or to make the GroupBy's input: one `Step` is taken
from PredicateFilter unchanged, with the group-by's variables held.

**FusionAnalyzer** is what `P/_fusion_analyzer.py` decides of an expression of `with_columns`, and what
`C/fusion/subgraph.rs` computes of it: what is admitted (`Admitted`), the dtype the graph answers in (`OutTag`),
whether nulls can be joined, need the validity graph or send the plan back (`NullMode`, `HasValidity`,
`NullHandling`), the value graph, the validity graph, and the same expression in Polars (`PolarsValue`). An
expression is the arena of its nodes, operands first, each with the ids of its operands, as the plan (`view_expression`)
and the scope (`OpNode`) have it; whatever the code's visitors and graph builders compute of it is an attribute of
its nodes, each from those of its operands (`Attributes`; `Synthesize` is that of the root).
`PolarsNode` and `GraphNode` type a node as Polars does and as MLX does, which differ where operands of two dtypes
meet and on running sums. An aggregate is a node the analyzer refuses: `_AGG_MAP` has capitalised names (81-90) and
the plan's are in lower case, so both visitors abort (1560-1563, 1718-1722). Addition stands for the elementwise functions,
the running sum and maximum for the scans.

**HStackQuery** composes it with GroupByQuery. `_walk_hstack` lowers the outermost HStack first
(`AnalyzeLayer`, then the Filter or scan, `AnalyzeInput`) and decides about nulls on the way back
(`StampNulls`); any refusal leaves the query to Polars. `_hstack_fused_over_upstream` then runs per binding
the value graph (`DispatchValue`) and, where stamped, the validity graph (`AttachNulls`), and appends the
columns of an HStack together (`AppendColumns`), so that its bindings read what is below it and the next
HStack what it made. The walker decides by the schemas below the layers (`Schemas`, Polars' own), the dispatcher
stages the columns of the frame: the two differ once a lower HStack has made a column in another dtype than
Polars would, and then a graph reads bytes of one dtype as another (`Staged`, `Misstaged`). The Filter below an HStack is PredicateFilter's, step by step. A query without HStacks
is one of GroupByQuery (`OtherRuns`).

**Fft** is one binding of `_run_binding`. `Algorithm` is the choice by size; `todo` holds the launches and
recursive passes of `fft_pass` still to come, `job` the transform at hand, which is the binding's or one of the
three of `bluestein`. A launch's threadgroups go from barrier to barrier in any order (`Advance`); what the
threads of one do between two barriers is one step, a set of *items*, each a round of a loop: words read,
factors, words written. `RaceFree`, which is about those sets, is what makes the step sound. Numbers are not
floats but the pairs modulo the prime P, a field with a square root of -1 and with roots of unity of every order
that divides P + 1, whose conjugates are their inverses. Every identity the algorithms rest on holds there exactly,
so an answer that differs from the transform is an error of an index, a stride, a modulus, an order or a conjugation,
never of rounding. A codelet of `_fft_radix.metal` is taken for the transform of its size. The planar kernels and the
interleaved ones index alike and are one model; both callers of them are in it (`fft_gpu_planar_core` for the
binding, `fft_gpu` for Bluestein's transforms).

`PROJECT.json`, "map", gives the source lines of every definition. Definitions named after a fault
("Fault: ..." in the comment before them) are not part of any specification: each is a plausible bug
in the definition that follows it, and with it the property it is listed for fails.

## 3. The runs

| Run | Module, cfg | Question | Bounds |
|---|---|---|---|
| `partition_build` | MCPartitionBuild, `PartitionBuild_build` | Do racing threads build one slot per key and a grouping, and overflow only a row without a place, as long as none is misled? What holds of ids, indices and groups even then? What can keep a thread in the kernel? | 4 rows, 3 threads (so one thread takes two rows), two of them one SIMD group; 3 keys of which 2 share a home slot, 3 slots, probe limit 2: collisions, wrap-around and overflow all happen; `Ordered = FALSE`, `SpuriousCas = TRUE` |
| `partition_relaxed` (violation) | same, `PartitionBuild_relaxed` | Does a key never get a second group under relaxed stores? It may. | 3 rows, 2 threads, no spurious failures |
| `a1_serve` | MCA1Build, `A1Build_serve` | Does every call answer with a grouping of its own keys and return, with shared scratch and failures anywhere? | 2 callers (2 calls and 1), inputs of 0, 1, 2, 3 rows, 2 partitions, threshold 2: buffers are found too small, exact and too large |
| `sort_passes` | MCSortBuild, `SortBuild_passes` | Is each pass stable, does the scatter never collide, and is the answer a grouping with first rows? | every column of 5 keys of 2 digits, radix 4, tiles of 2x2 lanes: one full tile, one with a single active lane; as many lanes as digit values, so each SIMD group clears counts of the other |
| `aggregate_paths` | MCAggregateKernel, `AggregateKernel_paths` | Is the answer the aggregate on every path, is no update lost or applied twice, do the kernels end? | 5 rows with nulls on 2 threadgroups of 2 SIMD groups of one lane, so that one thread strides over two rows; 2 groups, or 3 with registers for 2; 3-bit integers, so that two threes wrap |
| `shader_library` | MCShaderLibrary, `ShaderLibrary_race` | Half-written reads, one outcome, pointer identity, nobody blocked? | 2 threads, 2 load calls each, 3 shapes of which 2 have one key, 3 builds |
| `arena_views` | MCBumpArena, `BumpArena_views` | Views disjoint and never dangling, near the largest `usize`? | capacity 14 of a 15-byte address space, 3 views, 2 handles each |
| `routing_shapes` | MCQueryRouting, `QueryRouting_shapes` | Is what a query returns its plan's frame, and do the supported shapes never raise? | every plan of a leaf and up to 4 nodes |
| `query_routes` | MCHStackQuery, `HStackQuery_routes` | Is a Filter a selection, a GroupBy a group-by and a fused HStack what Polars computes, on every route, with failures anywhere? Does each query end? | Filters: 4 rows with a slice and nulls, every pair of 16 float patterns against 6 (both zeros, infinities, NaNs, subnormals), dtypes that only one way can carry, no rows; recursion limit 3. GroupBys: 4 rows, 8 columns of as many dtypes, 8 choices of keys (none; lone; composite; wider than 128 bits), 5 of aggregations; registers for 2 groups where 3 occur, so the fused dispatcher gives up; over Filters that keep some rows, none, or have none. HStacks: 264 cases of 4 rows and 11 columns (floats with nulls and NaN, integers, Booleans, dates), with additions, comparisons, logic, casts, shifts forwards and backwards, scans, aggregates (which are refused) and nested `when`s; up to 3 HStacks on one another; over a scan, over a Filter that keeps some rows or none, over no rows |
| `fft_sizes` | MCFft, `Fft_sizes` | Is the answer the transform, on every algorithm, and is no launch racy? | a signal without symmetries; 18 pairs of size and base, forward and inverse: bases (1024 in the code) of 2, 4 and 64, so that 8 points recurse twice, 20 and 24 points go through two radices, 11 points through Bluestein over Stockham and 5 through Bluestein over the four steps; sizes beyond the cap (32 here) |
| `filter_nan` (violation) | MCGroupByQuery, `GroupByQuery_nan` | Does a lifted Filter keep the rows Polars keeps? Not those with NaN. | 3 rows, one of them NaN, each of the six comparisons with zero, below a GroupBy by a column or by none |
| `hstack_recomputed` (violation) | MCHStackQuery, `HStackQuery_recomputed` | Does an HStack over a column that another one recomputed answer as Polars does? Not if the column had no nulls and got some. | the stacked HStacks of `query_routes` |

Why these bounds: the hazards of the kernels need two threads on one key, a third on another, a full
probe sequence and a wrap; those of the scratch need a call before, one larger and one smaller, by
another caller; those of the passes need two tiles, two SIMD groups and two lanes that share a
digit; those of the aggregation two threadgroups
that hold rows of one group and a group that one of them does not see; those of the caches two threads that miss together; those of routing four nodes above the
leaf (a peeled node, the one below it, one above and a sort); those of a query a slice, a null on each side of each
operator, equal strings, a group of nulls alone, keys of one, two and three columns and more groups
than registers, and, for HStacks, a null in each place of a `when`, a shift below and above each operator, and
a column that is read, replaced and read again. What does not depend on the bounds is proved
(section 5).

The type invariants of PartitionBuild and BumpArena are proved (section 5) and not run.

`CHECK_DEADLOCK FALSE` is used where the system really stops: calls are bounded, a query ends.

### 3.1 What the violations show

* `partition_relaxed`: `slot_key` is stored plainly (line 95) and the state published with a relaxed store (97), so
  a thread that reads the published state may still compare with the zeros of line 64. In the trace all rows have
  key 1: one thread publishes it, the other misses the slot, probes on and opens a second one, and two groups are reported
  where `mod.rs` 28 promises the number of unique keys. `shaders/groupby_global_hash.metal` 20-36 reports the same pattern
  failing in device memory.
* `filter_nan`: the comparison kernels take NaN to be unordered, as IEEE 754 does, and `shaders/cmp_f64.metal` 31-33
  and 156 claim that this "matches Polars exactly". Polars orders NaN above all numbers, as
  `tests/python_integration/test_filter_comparison.py` 87-100 says: `x > 0` keeps it, the kernel drops it. Other documents
  know (`docs/open-questions.md` 55-70, `docs/kernel-authoring.md` 100-107). The cost model keeps a Filter by itself on the
  CPU; the kernels run where a Filter is below a lifted GroupBy or a fused HStack.
* `hstack_recomputed`: `_fused_inputs_null_free` looks the inputs of a binding up in the scan by name. When an
  HStack below replaces a column without nulls by an expression with nulls, the binding above gets no null
  mask, and the frame has NaN (or, for an integer, a number) where Polars has null. The comment of the function
  (`P/_walker.py` 949-954) says that such chains fall back and stay correct; they do when the name is new.

Divergences that no run is about, but that a passing run names as an exception:

* `NoKeyTwice`, `SameGroupIffSameKey`, `OverflowJustified` and `ImplementsGroupBuild` hold until a thread is `misled`. Of
  what may follow, `partition_relaxed` shows one half; the other is that keys are merged: a row of key zero, or one
  with a zero word, reads another key's slot before its words are there, takes them for its own and joins the group,
  and nothing marks the words of a slot as unwritten. `NoKeysMergedUnlessTorn` shows that only such words merge keys. The
  weak compare-exchange misleads as well: when it fails spuriously on a free slot, `expected` is 0, lines 100-104 go on with
  `state = 0`, and the key is compared with a slot nobody owns although line 110 says the state is published.
* `HangsOnlyInLockstep` has the hang of the kernel's header (lines 18-28) as its exception: a lane spins and its sibling,
  which has claimed the slot, is not scheduled to publish it. The header takes this to need two lanes of one SIMD group on one
  slot; with two SIMD groups, each with a lane that spins on a slot claimed by a lane of the other, it does not.
* `OnePsoPerKey` says of two signatures with one hash that they share the pipeline state of the first
  (`aggregate_fused/cache.rs` 83, 110, 115: a hit does not compare signatures), where lines 131-132 promise "one PSO per
  signature".

* `FrameIsThePlan` excludes `HStackUnderGroupBy` (an appended column that the analyzer fused is replaced,
  under a GroupBy, by a copy of its first input column) and `OperationsAboveJoinChain` (the join UDF is
  installed on the root but stops at the HStack above the Join).
* `AnswerIsAggregate` sets apart two kinds of groups and no other. `MeanOverflows`: the sum below a mean of integers is kept
  in the integers of the column (`K/groupby.rs` 1352, 2423-2434, 3154-3158) and wraps, where Polars adds floats and
  `docs/architecture.md` 574-577 says that dividing on the host "matches Polars' semantics".
  `Seeded`: the fused path marks every group of a Min or Max valid (`K/groupby.rs` 3173-3213, which calls it a
  limitation), so a group without a valid value answers the seed of the buffer, where the per-aggregation path counts and
  answers null. Both paths serve the same query, depending on the number of groups. `AnswerIsGroupBy` sets the
  latter apart too (`Seed`), and `OnlyBoolKeys`: a GroupBy by Boolean keys without aggregations takes its height from
  a validity bitmap padded to 32 bits, and returns 32 rows.
* `GroupByFailsForCause` names what the walker accepts and the UDF cannot run: keys and values of narrow
  integers or dates, for which `_DTYPE_TO_TAG` has no tag; aggregations of Booleans, for which neither
  dispatcher has a kernel; composite keys beyond 128 bits (`router_udf.rs` 94 and `groupby.rs` 203-207
  against `docs/architecture.md` 540-541, which has them fall back at plan time).
* `FailureJustified` names `compact_one_column` (`C/udf/compact.rs` 285-290), which rejects the 32-bit columns that
  `_dispatch_filter` lets through; and the two ways to filter, each of which answers a failure by
  calling the other, recurse until Python's limit when the device keeps failing (`FallbackOnce` says that
  they do not otherwise).
* `HStackIsPolars` names the shapes whose frame is not that of Polars, each of which is needed:
  `RecomputedName` is the subject of `hstack_recomputed`; `ShiftedPredicate`, a shift inside the predicate of a
  `when`, whose head MLX fills with zeros where Polars has nulls that choose the other branch;
  `IntegerPredicate`, a predicate over an integer column under the validity graph, where a null is staged as 0,
  and the validity graph gets floats (`P/_udf.py` 530-532) that it reads in the integer dtype of its scope
  (`subgraph.rs` 258-267); `ScannedHead`, a scan over a shift, which includes the zeros of its head;
  `NestedCondition`, a comparison, logic or scan inside the predicate, which the classification of nulls does
  not look at; `NanFiltered`, a Filter below that compares a NaN, as in `filter_nan`; `NanCompared`, IEEE 754 against Polars' order of NaN, in a query that reads a NaN and compares or takes a running
  maximum anywhere; `Retyped`,
  a `when` over an integer predicate that chooses between float literals. The walker lets any binding of Polars'
  dtype Float32 through (`P/_walker.py` 666), the analyzer's tag is the one integer dtype of the columns, the predicate's,
  and the column comes out as integers. The comment above the guard (646-647) says that whatever the graph does
  not compute in Polars' dtype falls back, "so Polars' dtype is preserved exactly". An HStack above stages such
  a column in its own dtype and reads it in the schema's: other numbers, and with 8 or 64 bits more or fewer of
  them, which MLX may refuse.
* `HStackFailsForCause` names what the walker lowers and the graphs cannot run: casts of F64 columns, for which
  `input_dtype_to_mlx` has no dtype, and Booleans, which are staged in four bytes and read in one; predicates
  over integers of another width than the floats they are staged as; a column that a lower HStack has made in
  another dtype than its schema says (`ReadsRetyped`); and fused HStacks over a Filter with
  32-bit columns, for which compaction has no kernel.
* `FilterIsSelection` and `AnswerIsGroupBy` leave open whether a Filter keeps a row on which it compares a NaN
  (`NanRows`, `Selections`): `filter_nan` shows that it may not be as Polars does it.
* Float keys are grouped by their bit patterns, so -0.0 and 0.0 are two groups (`KeyOf` says so);
  `_walk_group_by` does not read `maintain_order`, so `AnswerIsGroupBy` compares sets of rows.

Divergences met while reading that no module shows: an HStack over a projected scan with an opaque column reaches
`parse_dtype` and raises (`C/udf/predicate.rs` 195 against `P/_udf.py` 137-139; the model has both, as
shapes `SimpleShapesRun` excludes); `ShaderLibrary` may build one entry point twice
(`shader_lib.rs` 101 against 118-122); the temporary metallib is never removed
(`shader_lib.rs` 20 against 88-92); the drop of a view can be what frees the arena's bytes
(`arena.rs` 9-10 against `bridge.rs` 369 and 402); nestings that the walker accepts and no
dispatch function peels (a Filter over a GroupBy, a Filter over a fused HStack) raise in the UDF; the integer `%` is admitted although
the comment of `_udf.py` 436-438, which rests the staging of nulls as 0 on it, says that it is not fusable.

## 4. Fairness

* PartitionBuild: weak fairness of one action, that some thread takes a step whom no spinning sibling holds up
  (`~Starved`), or that the barrier opens. Threads of one SIMD group run in lockstep, and a claimer may be masked off
  for as long as a lane of its group spins; the kernel's header (lines 18-28), `K/groupby.rs` 423-426,
  `docs/kernel-authoring.md` 425-427 and `docs/architecture.md` 546-549 say as much, so no step of a `Starved` thread is
  promised. No thread is promised to be scheduled against another either; the work of each is bounded but for the
  spin. `HangsOnlyInLockstep` is what this leaves: all threads leave the kernel, or a claimer is starved for ever.
* A1Build: weak fairness of each caller's step (callers are threads) and of the committed command
  buffer (Metal completes or fails it); the mutex is granted to some waiter whenever it is free, and
  calls are finite, so none waits for ever.
* AggregateKernel: weak fairness of `Step`, some step of the host or of the running kernel, whichever
  thread takes it. No thread needs to be fair to another: a compare-exchange fails only because
  another one succeeded. `Fail` needs no fairness.
* GroupByQuery (and PredicateFilter): weak fairness of `QueryStep`, some step of the host or of a row's
  thread. The host never waits for anything but a command buffer, which Metal completes or fails, and
  threads of these kernels do not wait for each other. `DeviceFault` and `GroupByFault` need no fairness:
  `EveryQueryEnds` holds whether they strike or not. HStackQuery asks for the same of `HQueryStep`, which adds the
  walker's and the dispatcher's steps; `HStackFault` (MLX, the device or an allocation) needs no fairness.
* ShaderLibrary: weak fairness of each thread inside load or pipeline. A thread blocked in
  `get_or_init` has no step until the busy one finishes. Nothing forces a thread to call.

## 5. Proofs

All theorems hold for every value of the constants under the named assumptions of the module; no
assumption bounds the number of rows, threads, slots, views or shapes.

**PartitionBuildProofs** (any memory order, weak compare-exchange). `TypeOK` alone is not inductive:
that `next_local_id` stays at most `NSlots` needs that every drawn id belongs to a slot. `BaseInv` adds
`ClaimInv` (a slot is claiming exactly while one thread is between its compare-exchange and its
publication) and `CountInv` (`next_local_id` is the number of slots whose id was drawn, by a
cardinality argument). `IdInv` adds `IdsUnique`, `ReadInv` (a state a thread holds is one of the two
reserved words or at most `next_local_id`, and what it compares is not the claiming mark) and `HostIndexInRange`. Theorems `TypeCorrect`,
`IdsAreUnique`, `HostIndexIsSafe`. `RowInv` is about the loop: a thread has settled exactly the rows of its stride
before its own (`LoopInv`), so settling never overwrites a group and a drawn id keeps its row (`HeldInv`), and
the barrier opens when all rows are settled (`EndInv`). Theorem `GroupsHaveRows`.

`SeenInv` (a published slot holds its owner's key; a thread spins on claimed slots only, and a state it compares with, unless it
was reported empty, is that of a published slot) and
`OwnedInv` (a settled row's id is that of a slot whose key it has or could be read to have) hold on any memory order, too:
theorem `KeysMergeOnlyTorn` (`NoKeysMergedUnlessTorn`), without any assumption on the run.

Its second part is about a run until a thread is `misled`, still with any memory order and exchange: `NoKeyTwice`
needs to know that a thread that walks on leaves only foreign slots behind it, and that those stay
foreign. `ExactInv` is `ProbeInv` (a thread's slot is the probe-th of its key's sequence, and the slots
before it belong to other keys), `ReachInv` (a claimed slot is on its owner's sequence, with all
earlier slots owned by other keys), `SettledInv` (a settled row's group is the
id of its key's slot; a row given up has its whole sequence owned by other keys) and `AwakeInv` (nobody compares with a slot
reported empty). Ownership never changes (`Stable`), which carries
the invariants over other threads' steps. What is inductive is `~misled => ExactInv`, since who was misled stays so. Theorems
`KeysAreUnique`, `GroupsAreKeys`,
`OverflowIsJustified`; with `RowInv`, `KernelImplements` (what the host finds after the barrier is a grouping of the
slice or the flag, and nothing changes after it: every step is `Build` or a stutter of GroupBuild). With ordered stores
and an exchange that fails only on a taken slot no thread is ever misled (lemma `NobodyMisled`), so all four hold of
the whole run. The run `partition_relaxed` shows that `misled` cannot be dropped. MSL promises neither, so what A1Build and
GroupByQuery take from GroupBuild's promise is what the kernel keeps as long as no thread is misled.

**A1BuildProofs.** `A1Inv` is inductive. `CallInv`: the answer of a caller is none before its call's end and a
grouping of its keys after it. `LockInv`: between `try_lock` and its release there is one caller, the mutex holder,
and `gpu` is its command buffer exactly while it waits. `CapacityInv`: a capacity is backed by buffers of that
size, and what a failed `ensure` leaves is smaller, never larger. `Inside(c)` follows the holder through the
pipeline, one part per stage: `Loaded` (its keys are in buffers that are large enough), `CountInv` (the counters of the
rows counted so far are the cardinalities of their partitions; the scan of the counters is the running sum),
`ScatterInv` (a partition's cursor is the number of its rows scattered so far, and the part of its slice below
the cursor is filled with exactly those rows) and `BuildInv` (each built partition has a grouping of its slice, or
raised the overflow flag). What the previous caller left in the buffers appears nowhere in it, which is the
point. The host's exclusive scan is a recursive function; `ScanEquation` proves that it exists and satisfies its
equation by taking the least length for which no such function exists. `GlobalGroups` is the composition argument of
the pipeline: groupings of the slices, with the ids of each partition shifted by the groups before it, are a grouping
of all rows, since equal keys fall into one partition. `A1BuildImplements` is the refinement, for
each caller: every step is a `Call`, a `Build` or a stutter of `GroupBuild`. `CountingLemmas` has the two facts on
naturals behind it: a non-empty set of naturals has a least element, and a finite set of naturals can be numbered
in order (the dense ids of first rows). It also holds the facts on division and remainder that the grids of AggregateKernel
and the tiles of SortBuild need.

**SortFftProofs** is about two components that share no variable. *The sort.* `SortInv` is inductive.
`SortedInv`: between passes the pairs are the caller's, each row once,
ordered by the digits done so far and, among equals, by row. `PassInv` is about a running pass, one part per stage: a
tile's histogram holds the cardinalities of its digits (`HistInv`); the scanned offset of a tile and digit is the
number of rows with a smaller digit, or with this one in an earlier tile (`OffsetInv`); a SIMD group waiting at a
barrier has not passed it (`BarrierInv`); an entry of the shared counts is zero once its clearer has run and, once its
SIMD group has counted, the number of that group's rows with the digit (`CountsInv`; before that it is whatever
threadgroup memory held, on which nothing relies); and the rows of SIMD groups that have scattered stand at their
rank, with nothing elsewhere (`OutInv`). The core is `PosIsRank`: the position a thread computes is the number of rows
that precede its row by digit and then by index. Ranks are a permutation of the positions (`RanksAreBijective`), so no two
threads collide, the output is full when all are done, and a pass keeps the order of equal digits (`FinishPassSorts`).
`SumOfClasses` of CountingLemmas turns each sum of counters into a cardinality. After the last lane, order by all
digits puts equal keys next to each other, so the number of starts up to a position numbers the keys
(`GroupsAreKeys`, `StartsExist`), and stability makes the row at a start the key's first (`AnswerIsGrouping`). Theorems
`ScatterIsExclusive`, `PassesAreStable`, and `SortBuildImplements`, the refinement: `NumberGroups` and `AnswerEmpty` are
`Build`, every other step stutters. They hold for every column, radix, number of digits, SIMD width and
tile size.

*The Fourier transform.* `FftInv`: what is still to do consists of launches and passes that `fft_pass` makes (lengths are
those of an algorithm, a long one is a power of two that `Base` divides), the threadgroups in flight are those of the
next launch, and the transforms inside Bluestein's have `Padded(n)` points, which is a power of two at least 2n - 1
(`PaddedSize`: the doubling of `next_power_of_two`, as the code's shift). That no launch
races is then arithmetic, one lemma per loop. Two butterflies of a stage have no place in common to write
(`ButterfliesDiffer`), two points of a launch, of one threadgroup or of two, no place in device memory (`PlacesDiffer`), and two
elements no place in the transpose (`TranspositionsDiffer`): each is a number written as quotient and remainder by a stride,
and those are unique (`OneDigits`). The strides come out without a rest because a power of two is divided by every
smaller one (`PowerSplit`), so the rows and the columns of a long pass cover its points. Between barriers the two
buffers of threadgroup memory change roles, so what one loop reads is not what it writes (`IntervalsAreRaceFree`), and
an item reads and writes device memory at its own point only (`DeviceWords`), where no other threadgroup is. The kernels
without threadgroup memory have an item per element (`ElementsAreRaceFree`). Theorem `LaunchesNeverRace`,
for every size, direction, power-of-two base and depth of the recursion, and any field.

**QueryProofs** is about four things that a query meets on its way. *Routing.* `RoutingInv`: while the group-by UDF
is installed the plan has no join, a dispatch function for its body, and tags and dtypes that build; while the join UDF
is, the plan has a join with a chain of parents. The rest is an induction over the nodes of the plan, from the leaf up:
`DispatchTells` says that the dispatcher, called on the node at *i* of the wire plan *w*, answers either a failure or
the frame of exactly `SubSeq(w, 1, i)`, whichever dispatch function it peels by, and `WireOfBody` that the wire plan
is the plan, but for the sorts above it, which the callback puts back. The two exceptions of `FrameIsThePlan` are
where the induction has no step. For the converse, `OnScansRuns` and `HStacksRun` follow the shapes the
dispatch functions are written for and find each one's test satisfied. Theorems `FramesArePlans`,
`SimpleShapesAlwaysRun`, for plans of any length.

*The arena.* `RangeInv`: every view ends at or before the cursor, so a new one, which starts
at or after it, overlaps none. `OwnerInv`: a view with a handle or in flight has an MTLBuffer, whose
block owns the bytes, which are freed exactly when nobody owns them. Theorems `ArenaTypes`, `ViewsNeverOverlap`, `ViewsNeverDangle`.

*Library and caches.* `FileInv`: TEMP_METALLIB is busy exactly while one thread writes the file, and set to a
path only when the file is whole. `InstanceInv`: INSTANCE is busy exactly while one thread loads for
`shared_library`, and everything returned is what it holds. Theorems `MetalReadsWholeFiles`, `CallersAgree`;
`LibraryImplementsParts` says that the composition keeps the specification of each part, so what is proved of the
cache alone (which is also `FusedLibraryCache`) holds in it. `CacheInv`: what was handed out is what the cache holds under its key, a fresh
pipeline state has the shape its thread asked for, and an entry is filed under the key of its shape. Theorems `PointerIdentity`, for any hash, and `RightPso` for injective keys.

*Aggregations.* A slot's values and `Combine` are a commutative monoid (`CombineMonoid`: integer
addition that wraps is associative, minimum and maximum are over a range with a largest and a least value,
counts and float sums are over the integers). That is what makes the order of updates irrelevant, and it is where
the assumption enters that float sums are exact. `CountingLemmas` has the folds over finite sets this needs: such a
fold exists, does not depend on the order (`FoldAnyOrder`), may be cut in two (`FoldOfTwo`) or folded class by class
(`FoldOfFolds`), and an element may be moved into the base (`FoldMoveOne`); `FoldIsFoldOf` says that they are what
`FoldFunction` computes. `KernelInv` is the inductive part about a running launch: `Balanced` (what a buffer holds,
folded with what every flusher has left for it, is the aggregate of all rows), and `LoadedOk` (a thread that has
loaded a minimum or maximum has loaded something the buffer has since become at least as good as; without it a
thread that gives up because it would not improve *what it loaded* could not be shown to lose nothing). At the
launch everything is left, because the rows of the grid's threads, SIMD group by SIMD group, are all rows exactly
once (`Grid`, `TotalOfThreadgroup`, `SharesCover`); a flusher that advances moves its share from what is left
to the buffer (`AdvanceBalanced`); when all have ended nothing is left. `HostInv` adds that what was collected
is right and that every buffer the answer needs is collected or promised by a launch to come. Theorems
`UpdatesAreKept`, `AnswersAreAggregates`, for every column, grid, width and list of aggregations, with the exceptions
`MeanOverflows` and `Seeded`: where the exact sum fits the column's integers, the wrapped one is equal to it.

**GroupByQueryProofs** has three parts. The first is the Filter's. `ScatterFits` is about the columns phase and needs `PrefixInv`: the prefix of a row
is the cardinality of the flags up to it, so `KeptMonotone` gives bounds and injectivity by cardinality
arguments. `FailureJustified` needs `LaunchInv`: a scatter over numbers has been sized by the last prefix
and has not overrun, so `Raise` is reached only through a fault or an unsupported dtype. `FallbackOnce`
needs `CallInv`: compaction that has begun has looked at every dtype, and a fault is recorded before the
fallback it causes. `IInv` is the conjunction with the types. Theorems `FilterTypes`, `NoMutualRecursion`,
`RaisesOnlyForCause`, `ScatterIsInjective`, for every frame, predicate and recursion limit.

The answer of a Filter (`FilterIsSelection`) is proved by `SelInv`, which relates every buffer to the reference: the stacks
of three-valued truth that Kleene's logic leaves after each node of the predicate. `EvalInv`: after `at - 1` nodes the
finished bitmaps *tell* the operands on the reference's stack, row by row (valid where it is not null, and then set
where it is true; what a null's bit holds is not said), and a launch in flight has told the rows that have run, left
blank those that have not, and whatever its threads find there, `Computes` its operand. `KeepInv` and `FlagInv`: the
flags, as far as made, mark `Kept`, the rows on which the whole predicate is true. `Survivors`: with `PrefixInv`
the sum of a kept row is its rank, so slot *i* of an output belongs to the *i*-th of `Ascending(Kept)`. `DoneInv` and
`ColumnInv`: finished columns are those of the reference, and in the one being scattered a slot is blank while its row
waits and right afterwards. The steps of the threads rest on one lemma per kernel (`CompareComputes`,
`LogicalComputes`, `ScatterWrites`), each saying what the thread of a row makes of its row and that it leaves the others
alone; that is why their order does not matter. `IsCase` states what is assumed of a case: postfix predicates,
operands of the dtypes they claim, and slices inside their parents. Theorems `FiltersSelect` and, through
HStackQueryProofs, `FiltersBelowSelect`. The reference is a recursive function; `KleeneEquation` proves that it exists.

The kernels are first held to a reference over IEEE 754's comparisons (`IeeeStacks`), which they meet on every row. `PushesAgree` and
`StacksAgree` carry this to Polars' order on the rows that compare no NaN, node by node of the predicate, and
`KeptIsSelection` concludes.

The float comparisons are IEEE 754's. `ComparesSignAndMagnitude`: the six comparisons of bit patterns are those of the signed
magnitudes, NaN apart, which rests on `KeyOrder`, the monotony of the total-order key. `AbsoluteOrder`: a magnitude orders
like the number it denotes, since a binade ends below the start of the next. Together, `ComparesNumbers`, for every
width of mantissa and exponent.

The second part is the key encoding's. `EncInv`: the fields laid out so far follow each other, each one's flag after the
previous one's data, all below `offset` (`LayoutInv`), and lanes exist only when every column has its field.
From it a bit of a lane belongs to one column, so a column's part of the lane can be read back
(`DecodeInvertsEncode`), and equal lanes have equal parts (`LanesAreKeys`). The budget of 128 is not
needed for either: it is what makes a lane fit the word.

The third part composes them: every step of a query is a step of the Filter and a step of the encoder, or
leaves them alone (`QuerySteps`), so both invariants hold of every query, the restart between the dispatchers
included. Why a GroupBy fails is `CauseInv`: the next free bit of the encoder is the number of bits that the
columns laid out so far take (`WidthInv`, by cardinality: `LaidOutStep`, `LaidOutMonotone`), the columns in it are those of the
query's keys, and what the walker and the tags let through is known in every later stage (`StageInv`), so a dispatcher
without a kernel has met a Boolean and a layout that does not fit has met `KeyBits`.

What a GroupBy answers follows from all of these at once: `QueryInv` is the Filter's `IInv` and `SelInv`, the
encoder's `EncInv`, `CauseInv` and `GInv`. `GInv` follows the query: before the build the input is the frame or
the selected rows (`InputInv`, which a Filter below leaves by `SelInv`); the columns handed to the encoder are the keys of
that input, strings as codes (`KeysInv`); and when the aggregation starts, the build has kept its promise on the lanes
(`BuildInv`). The argument is a chain of identities: a set of rows is enumerated in one way only (`Ascending`), so the
dictionary is a bijection between distinct strings and codes; codes below `MaxRows` have different one bits
(`OneBits`, an induction over the halvings) and a code's bits decode to its string (`CodesDecode`, `KeyDecodes`); hence
two rows have equal lanes exactly when they have equal keys, null being equal to null (`LanesAreKeysOf`). So a
group of the build is the rows of one key and its first row shows that key (`GroupKeys`), the aggregation of a group reads
the values of those rows (`SameValues`), and the assembled frame has one row per key (`GroupRowIs`). Nothing
in it depends on the path, so the restart from the fused dispatcher to the other one is a step like any other.
`GroupByAssumption` says which cases are meant: keys and aggregated columns are in the frame, a Filter has a predicate, and
at most `MaxRows` = 2^30 rows, the one bound in it (codes are u32 in `dict.rs`, which has no check at 2^32; the model looks at 30 of the bits).
Theorem `QueriesAnswer`, of a query without HStacks.

**FusionProofs** is about one fused expression. Its dtype: `NodesAgree` runs
Polars' typing of the nodes and MLX's side by side: wherever Polars computes the declared dtype, or one that only
literals can bring in, the graph's operand has the declared tag, because Polars has cast the operands of an operator to one dtype
and literals are staged in the tag (`IsExpression` states what is assumed of an expression: operands come
first, every node but the root is one, and each has operands of the dtypes it takes, with such casts). So the graph's output
has the declared dtype (`DeclaredDtypes`: the guard of `eval_into_typed` does not fire). A sum would break this, since MLX
widens it; it does not get here, because the analyzer refuses aggregates.
`PredicatedNodes`: what `Predicated` collects are nodes of the expression, so a tag the validity graph cannot read is
that of a column the walker has admitted.

`NullTakesElse` is the argument behind `_is_nan_safe_predicate`: if an operand of a comparison is
null, a `when` over it takes the same branch in IEEE 754 with NaN for null as in Polars' three-valued logic
exactly for the comparisons the function lists; `NullsTravelAsNaN` carries a null through arithmetic. Both are
about single rows.

The values of one binding, for any expression, schema and frame (`Setting`), are right by comparing the attributes of
its nodes one by one, by induction over the arena (`NodeInduction`). Without nulls in the columns it reads the value graph *is* Polars' evaluation (`CleanFrame`; a
scan by `RunsAgree`, whose two recursive functions are compared row by row). Where nulls are joined, a row
whose columns have none is right, and the operators admitted there let every null through. Where the second graph
runs, every node the analyzer gives a validity has the right one and, where valid, the right value (`RightColumn`): a
`when` asks the branch its predicate took, and `CalmPredicates` leaves only
comparisons of plain float arithmetic as predicates, so the second graph, which stages nulls otherwise, has taken the same branch as the first, and
Polars too (`PredicateRight`, which rests on `NanSafe`). After a shift, a graph has zeros where Polars has nulls
(`Headed`): a running sum over them is right past the head, which the validity masks, and wrong
only where `ScannedHead` says. `BindingRight` is the conclusion: whatever `NullHandling` has decided, the column is
`PolarsValue`. Polars' side of it (`PolarsRow`, `PolarsRunning`) is the model's statement of Polars, which is not in this repository.

**HStackQueryProofs.** An HStack takes no step on the variables of what is below it (`HStacksImplementQuery`: without
its own variables, a query with HStacks behaves as one of GroupByQuery). So what GroupByQueryProofs
says is true of queries with HStacks, which is what the runs check: theorems `FilterBelow`, `FiltersBelowSelect`, `QueryLanesAreKeys`,
`GroupBysFailForCause`, `GroupBysAnswer`.

Why a fused HStack fails is `HCauseInv`: the layers above the one at hand have been lowered (`LoweredLayers`), the columns made
so far have the dtypes stamped on them (`MadeInv`), and a column of the frame has its schema's dtype unless a lower
layer has made it in another (`FrameInv`). By `DeclaredDtypes` a graph is left with a
column without an MLX dtype to fail for. The schemas of the layers are a recursive function, whose equation is
`SchemasEquation`. Theorem `HStacksFailForCause`.

That whole frames come out right is `HStacksArePolars`, which puts `BindingRight` into the query. `StampInv`: what is
stamped on a binding is `NullHandling` of the nulls the scan has. `BindInv`: the frame at the HStack at hand is `ReferenceFrames` there, its columns are as long as each
other and have the schema's dtypes, those no HStack has replaced are still the scan's, rows of the Filter, and the columns
made so far are Polars'. A name the scan has and no HStack below has bound is free of nulls if the scan's column
is (`BindingColumn`), which is just where `RecomputedName` is needed. The Filter's `SelInv` gives the first
frame. `HRightInv` is the conjunction with `HStackIsPolars`. `NaNAssumption` and `LayerAssumption` are what is assumed: NaN is neither
an integer nor null; numeric columns hold integers, NaN and null; a frame has a column; expressions are as above.

Induction over data goes by the least counterexample (`LeastNumber`, from the library's well-foundedness of the
order of naturals, which takes no operator parameter): it carries the recursive *functions* of A1Build, the passes' sums in SortBuild and, with a
claim given as the set of what it holds of (`NumberInduction`, `SubsetInduction`), the folds of AggregateKernel,
the powers of two of FloatOrder, the reference of PredicateFilter, the halvings of GroupByQuery, the arenas and
running sums of FusionAnalyzer, the layers of HStackQuery, and the shifts,
factors and strides of Fft. RECURSIVE operators are out of the prover's
reach altogether, as are liveness under fairness and ENABLED.

Only model-checked: liveness (`HangsOnlyInLockstep`, `EveryCallReturns`, `AggregationEnds`, `EveryQueryEnds`: fairness and
ENABLED); and Fft's `AnswerIsDft` (one prime, one signal per size:
that the transform is right for every size is algebra over sums of an arbitrary field).

## 6. What is left out, and why

* Panics that poison the scratch mutex, allocation failure inside the Rust standard library.
* `dispatch_build`'s early return for `encoded.len() != n_rows`: its callers always pass equal lengths.
* The `NotImplementedError` branch around `build_udf`, which nothing in it raises, and "fallback:"
  decisions, which `parse_and_route` never produces for a plan the walker emits.
* `C/router/affinity.rs` (smoothing) and `C/router/mod.rs` `compute_lifting_plan`: not called in
  production.
* Threadgroup widths: the grids assume 256 threads per threadgroup and `dispatch_1d_with_tg` clamps
  to the pipeline's limit; a limit below 256 would break build A1 and A2. The limit is the device's.
* AggregateKernel: floats are exact and finite (rounding depends on the order of additions, NaN on
  the fast-math setting); the u32 value kernels, which no value column of the engine reaches; and
  aggregated expressions, which the fused kernel evaluates as floats before it reduces them.
* PredicateFilter and GroupByQuery: buffer-length errors, which the marshalling rules out; the failure to make
  a command queue; the widths of sums and means (`AggregateKernel` wraps its integers); expressions other
  than a sum of two columns under an aggregation; an HStack or projection below a GroupBy, which only
  QueryRouting has; MLX, whose prefix sum is taken for a sum.
* FusionAnalyzer and HStackQuery: the reductions of a `select`, the gather of a fused HStack above a join, the
  density of a subgraph (only logged), the individual functions (addition stands for them) and the rounding of MLX;
  integers do not overflow, and floats are integral or NaN. A frame of one to three rows or fewer than the
  bytes of a column that is read in another width, where MLX may broadcast instead of refusing.
* Fft: rounding, the accuracy of `fast::cos`, the constants of the codelets, the width of a threadgroup (a
  narrower one strides over the same items), the rejection of nulls and dtypes (`_input_streams`), the
  stitching of columns. The depth limit cannot be reached, as its comment says (it would take 2^70 points).
* The other numeric kernels (elementwise, rolling, DTW, correlation, vector search): no state or
  interleaving; their tests compare values with references.
* Generated MSL text, MLX, and the Objective-C runtime.

## 7. Plan

Done: PartitionBuild, GroupBuild, A1Build, ShaderLoad and PsoCache with ShaderLibrary, BumpArena,
QueryRouting, SortBuild, AggregateKernel, PredicateFilter with FloatOrder, KeyEncoding, GroupByQuery,
FusionAnalyzer, HStackQuery, Fft; the proofs of section 5.

Next, in this order:

1. `CollectWrapper`: replaced `collect`, re-entrancy and fallback.
2. HStackQuery over a join, and in place of the abstract `fused` flag of QueryRouting.
3. A3 as a variant of PartitionBuild in device memory.
4. Proofs: `AnswerIsDft` for the passes of one stage, over an arbitrary field.
