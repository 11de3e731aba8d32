----------------------------- MODULE SortBuild -----------------------------
(***************************************************************************)
(* The sort-based group build A2 (groupby_build_sort/gpu.rs with           *)
(* groupby_sort_u128_lane.metal and groupby_segments.metal): one stable    *)
(* radix pass per digit, least significant first, each a histogram kernel, *)
(* a prefix scan on the host and a scatter kernel; then a kernel that      *)
(* marks where a new key starts, and a host scan that numbers the groups.  *)
(*                                                                         *)
(* A threadgroup is a tile of SIMD groups.  The lanes of a SIMD group run  *)
(* in lockstep and exchange digits by broadcast, so the SIMD group is the  *)
(* process; SIMD groups interleave freely between the tile's barriers.     *)
(* A key is the function from lanes to its digits, lane 0 the lowest: the  *)
(* kernels read a key digit by digit, or compare it as a whole.            *)
(***************************************************************************)
EXTENDS Integers, FiniteSets, Functions

CONSTANTS
  Inputs,        \* the key columns a call may bring, functions on 0..n-1
  Radix,         \* values of a digit (256 in the code)
  Lanes,         \* digits of a key (16)
  SimdWidth,     \* lanes of a SIMD group (32)
  SimdsPerTile,  \* SIMD groups of a tile (8)
  WordBits,      \* segment-start bits per atomic word (32)
  NoPair

ASSUME SortAssumption ==
  /\ {Radix, Lanes, SimdWidth, SimdsPerTile, WordBits} \subseteq Nat \ {0}
  /\ \A k \in Inputs :
       /\ IsFiniteSet(DOMAIN k) /\ DOMAIN k = 0..(Cardinality(DOMAIN k) - 1)
       /\ k \in [DOMAIN k -> [0..(Lanes - 1) -> 0..(Radix - 1)]]
       /\ \A i \in DOMAIN k, r \in DOMAIN k : NoPair # [key |-> k[i], row |-> r]

VARIABLES
  keys,          \* the caller's keys
  stage,         \* the host's position
  lane,          \* passes done
  cur,           \* the (key, row index) pairs, input of the current pass
  out,           \* output buffers of the scatter kernel
  tileHist,      \* per tile and digit, from the histogram kernel
  offset,        \* global_offset plus tile_prefix, per tile and digit
  counts,        \* per tile: simd_digit_counts, threadgroup memory
  at,            \* per tile and SIMD group: its position in the scatter kernel
  pending,       \* rows whose thread of segment_starts has not run
  starts         \* the segment-start bits that are set

pass == <<out, tileHist, offset, counts, at>>
segment == <<pending, starts>>
vars == <<keys, stage, lane, cur, pass, segment>>

N        == Cardinality(DOMAIN keys)
Rows     == 0..(N - 1)
TileSize == SimdWidth * SimdsPerTile
Tiles    == 0..((N + TileSize - 1) \div TileSize - 1)
Simds    == 0..(SimdsPerTile - 1)
Digits   == 0..(Radix - 1)

Digit(key) == key[lane]
TileOf(i)  == i \div TileSize
SimdOf(i)  == (i % TileSize) \div SimdWidth

\* The active rows of one SIMD group that carry digit d.
Matching(g, s, d) ==
  {i \in Rows : TileOf(i) = g /\ SimdOf(i) = s /\ Digit(cur[i].key) = d}

Unsorted(k) == [i \in DOMAIN k |-> [key |-> k[i], row |-> i]]

Init ==
  /\ keys \in Inputs
  /\ stage = "histogram" /\ lane = 0
  /\ cur = Unsorted(keys)
  /\ out = [i \in Rows |-> NoPair]
  /\ tileHist = [g \in {} |-> 0] /\ offset = [g \in {} |-> 0]
  \* Threadgroup memory starts with anything.
  /\ \E garbage \in 0..1 :
       counts = [g \in Tiles |-> [i \in 0..(SimdsPerTile * Radix - 1) |-> garbage]]
  /\ at = [g \in Tiles |-> [s \in Simds |-> "zero"]]
  /\ pending = Rows /\ starts = {}

\* lane_tile_hist of one tile; inactive threads of the last tile add nothing.
TileHist(g) ==
  /\ stage = "histogram" /\ N > 0 /\ g \notin DOMAIN tileHist
  /\ tileHist' = [h \in DOMAIN tileHist \cup {g} |->
       IF h # g THEN tileHist[h]
       ELSE [d \in Digits |->
              Cardinality(UNION {Matching(g, s, d) : s \in Simds})]]
  /\ UNCHANGED <<keys, stage, lane, cur, out, offset, counts, at, segment>>

\* global_offset[d] + tile_prefix[g][d].
PrefixScan(g, d) ==
  SumFunction([h \in {h \in Tiles : h < g} |-> tileHist[h][d]])
    + SumFunction([e \in {e \in Digits : e < d} |-> SumFunction([h \in Tiles |-> tileHist[h][e]])])

HostScan ==
  /\ stage = "histogram" /\ N > 0 /\ DOMAIN tileHist = Tiles
  /\ offset' = [g \in Tiles |-> [d \in Digits |-> PrefixScan(g, d)]]
  /\ out' = [i \in Rows |-> NoPair]
  /\ at' = [g \in Tiles |-> [s \in Simds |-> "zero"]]
  /\ stage' = "scatter"
  /\ UNCHANGED <<keys, lane, cur, tileHist, counts, segment>>

Enter(g, s, here, there) ==
  /\ stage = "scatter" /\ at[g][s] = here
  /\ at' = [at EXCEPT ![g][s] = there]

\* threadgroup_barrier: every SIMD group of the tile has come to it.
Barrier(g, earlier) == \A s \in Simds : at[g][s] \notin earlier

\* Each thread clears its stride of the tile's counts.
ZeroCounts(g, s) ==
  /\ Enter(g, s, "zero", "rank")
  /\ counts' = [counts EXCEPT ![g] = [i \in DOMAIN @ |->
       IF SimdOf(i % TileSize) = s THEN 0 ELSE @[i]]]
  /\ UNCHANGED <<keys, stage, lane, cur, out, tileHist, offset, segment>>

\* Fault: no barrier between clearing and counting.
CountDigitsEarly(g, s) ==
  /\ Enter(g, s, "rank", "scatter")
  /\ counts' = [counts EXCEPT ![g] = [i \in DOMAIN @ |->
       IF i \div Radix = s /\ Matching(g, s, i % Radix) # {}
       THEN Cardinality(Matching(g, s, i % Radix)) ELSE @[i]]]
  /\ UNCHANGED <<keys, stage, lane, cur, out, tileHist, offset, segment>>

\* Match-and-rank: the first lane of each digit publishes the SIMD group's count.
CountDigits(g, s) ==
  /\ Enter(g, s, "rank", "scatter") /\ Barrier(g, {"zero"})
  /\ counts' = [counts EXCEPT ![g] = [i \in DOMAIN @ |->
       IF i \div Radix = s /\ Matching(g, s, i % Radix) # {}
       THEN Cardinality(Matching(g, s, i % Radix)) ELSE @[i]]]
  /\ UNCHANGED <<keys, stage, lane, cur, out, tileHist, offset, segment>>

\* Fault: ranks within a SIMD group run against the order of the lanes.
PosReversed(g, s, i) ==
  LET d == Digit(cur[i].key)
  IN  offset[g][d]
        + SumFunction([u \in {u \in Simds : u < s} |-> counts[g][u * Radix + d]])
        + Cardinality({j \in Matching(g, s, d) : j > i})

\* global_offset + tile_prefix + cross_rank + simd_rank.
Pos(g, s, i) ==
  LET d == Digit(cur[i].key)
  IN  offset[g][d]
        + SumFunction([u \in {u \in Simds : u < s} |-> counts[g][u * Radix + d]])
        + Cardinality({j \in Matching(g, s, d) : j < i})

Scatter(g, s) ==
  /\ Enter(g, s, "scatter", "done") /\ Barrier(g, {"zero", "rank"})
  /\ LET mine == {i \in Rows : TileOf(i) = g /\ SimdOf(i) = s}
     IN  out' = [p \in DOMAIN out |->
           IF \E i \in mine : Pos(g, s, i) = p
           THEN cur[CHOOSE i \in mine : Pos(g, s, i) = p] ELSE out[p]]
  /\ UNCHANGED <<keys, stage, lane, cur, tileHist, offset, counts, segment>>

\* The host takes the pass's output as the next pass's input; after the last lane it
\* uploads the sorted keys for segment_starts.
FinishPass ==
  /\ stage = "scatter"
  /\ \A g \in Tiles, s \in Simds : at[g][s] = "done"
  /\ cur' = out
  /\ lane' = lane + 1
  /\ tileHist' = [g \in {} |-> 0]
  /\ stage' = IF lane + 1 = Lanes THEN "segment" ELSE "histogram"
  /\ UNCHANGED <<keys, out, offset, counts, at, segment>>

IsStart(i) == i = 0 \/ cur[i].key # cur[i - 1].key

\* Fault: the bit is stored into its word, not or-ed.
MarkStartStored(i) ==
  /\ stage = "segment" /\ i \in pending
  /\ pending' = pending \ {i}
  /\ starts' = IF IsStart(i)
               THEN {i} \cup {j \in starts : j \div WordBits # i \div WordBits}
               ELSE starts
  /\ UNCHANGED <<keys, stage, lane, cur, pass>>

\* One thread of segment_starts; the atomic or keeps the other bits of the word.
MarkStart(i) ==
  /\ stage = "segment" /\ i \in pending
  /\ pending' = pending \ {i}
  /\ starts' = IF IsStart(i) THEN starts \cup {i} ELSE starts
  /\ UNCHANGED <<keys, stage, lane, cur, pass>>

NumberGroups ==
  /\ stage = "segment" /\ pending = {}
  /\ stage' = "done"
  /\ UNCHANGED <<keys, lane, cur, pass, segment>>

AnswerEmpty ==
  /\ N = 0 /\ stage = "histogram"
  /\ stage' = "done"
  /\ UNCHANGED <<keys, lane, cur, pass, segment>>

\* A buffer, a pipeline, a dispatch or a wait of any pass fails.
Fails ==
  /\ stage \notin {"done", "failed"} /\ N > 0
  /\ stage' = "failed"
  /\ UNCHANGED <<keys, lane, cur, pass, segment>>

Next ==
  \/ AnswerEmpty \/ HostScan \/ FinishPass \/ NumberGroups \/ Fails
  \/ \E g \in Tiles : TileHist(g)
  \/ \E g \in Tiles, s \in Simds : ZeroCounts(g, s) \/ CountDigits(g, s) \/ Scatter(g, s)
  \/ \E i \in Rows : MarkStart(i)

Spec == Init /\ [][Next]_vars

-----------------------------------------------------------------------------
\* No two threads of a scatter pass write one output position and none writes outside
\* the buffers: as many positions are taken as rows have been scattered.
ScatterNeverCollides ==
  stage = "scatter" =>
    Cardinality({p \in Rows : out[p] # NoPair})
      = Cardinality({i \in Rows : at[TileOf(i)][SimdOf(i)] = "done"})

\* The order of keys by the digits done so far: the highest one that differs decides.
Below(k, q) == \E l \in 0..(lane - 1) : k[l] < q[l] /\ \A m \in (l + 1)..(lane - 1) : k[m] = q[m]
Alike(k, q) == \A l \in 0..(lane - 1) : k[l] = q[l]

\* "Because each lane pass is stable, the composition produces a fully-stable sort":
\* between passes the pairs are those of the input, ordered by the digits done so far
\* and, among equals, by row.
StableByLowDigits ==
  stage \in {"histogram", "segment"} =>
    /\ \A i \in Rows : cur[i].key = keys[cur[i].row]
    /\ \A i, j \in Rows : i < j =>
         \/ Below(cur[i].key, cur[j].key)
         \/ Alike(cur[i].key, cur[j].key) /\ cur[i].row < cur[j].row

\* The host's scan: the group of a sorted position is the number of starts up to it,
\* position 0 not counted.
GroupAt(i) == Cardinality({j \in starts : 0 < j /\ j <= i})

BuildResult ==
  IF stage # "done" THEN [kind |-> "none"]
  ELSE [kind |-> "output",
        rowToGroup |-> [r \in Rows |-> GroupAt(CHOOSE i \in Rows : cur[i].row = r)],
        nGroups |-> IF N = 0 THEN 0 ELSE GroupAt(N - 1) + 1,
        firstRow |-> [g \in 0..(IF N = 0 THEN -1 ELSE GroupAt(N - 1)) |->
          cur[CHOOSE i \in Rows : GroupAt(i) = g /\ (i = 0 \/ i \in starts)].row]]

Abstract == INSTANCE GroupBuild WITH answer <- BuildResult, MayOverflow <- FALSE

\* A2 "mirrors A1's BuildOutput": what the two kernels and the host scan answer with is
\* a grouping of the caller's keys, and first_row_per_group holds each group's first
\* occurrence, which only a stable sort gives.
ImplementsGroupBuild == Abstract!Spec
=============================================================================
