------------------------------- MODULE A1Build -------------------------------
(***************************************************************************)
(* The build phase of a group-by as its callers see it: dispatch_build of  *)
(* groupby.rs, the process-wide scratch buffers behind a OnceLock and a    *)
(* Mutex, the three kernels of partition_and_build_with_scratch (gpu.rs)   *)
(* with the host steps between them, and the CPU build that takes over     *)
(* when the GPU declines.                                                  *)
(*                                                                         *)
(* A caller is a thread running one query after another.  The kernels run  *)
(* after commit() returns, a row or a partition at a time, in any order.   *)
(* partition_build is represented by what GroupBuild promises of it, which *)
(* PartitionBuild is shown to keep.  The constant buffers (n_rows,         *)
(* n_partitions, log2) and the 16-byte seed buffers of an empty scratch    *)
(* are left out; a buffer is a function on its element indices.            *)
(***************************************************************************)
EXTENDS Naturals, FiniteSets

CONSTANTS
  Callers,      \* threads that call dispatch_build
  Keys,
  Inputs,       \* the encoded inputs: functions from 0..(n_rows - 1) to Keys
  NParts,       \* n_partitions
  Part,         \* partition_id of each key
  Threshold,    \* A1_ROWS_THRESHOLD
  MaxCalls,     \* bound: calls of each caller
  UINT_MAX,
  NoCaller

ASSUME PartitionAssumption == NParts \in Nat \ {0} /\ Part \in [Keys -> 0..(NParts - 1)]

ASSUME InputAssumption ==
  /\ \A in \in Inputs : /\ in \in [DOMAIN in -> Keys] /\ IsFiniteSet(DOMAIN in)
                         /\ DOMAIN in = 0..(Cardinality(DOMAIN in) - 1)
                         /\ Cardinality(DOMAIN in) < UINT_MAX
  /\ Threshold \in Nat \ {0} /\ MaxCalls \in [Callers -> Nat] /\ UINT_MAX \in Nat
  /\ NoCaller \notin Callers

VARIABLES
  keys, answer, calls, pc,                \* per caller
  cache,                                  \* is CACHE (OnceLock) initialised
  holder,                                 \* who holds the scratch mutex
  capRows, capParts,                      \* capacity_rows, capacity_partitions
  keysBuf, rowIdx, pid, r2lg,             \* scratch buffers with one element per row
  counts, cursors, offsets, ngPerPart,    \* and per partition
  overflow,
  gpu                                     \* the committed command buffer

perCaller == <<keys, answer, calls, pc>>
rowBufs   == <<keysBuf, rowIdx, pid, r2lg>>
partBufs  == <<counts, cursors, offsets, ngPerPart>>
capacity  == <<capRows, capParts>>
scratch   == <<capacity, rowBufs, partBufs, overflow>>
vars      == <<perCaller, cache, holder, scratch, gpu>>

Parts == 0..(NParts - 1)
Empty == [i \in {} |-> 0]
Zeros(n) == [i \in 0..(n - 1) |-> 0]
NRows(k) == Cardinality(DOMAIN k)

Kernels == {"count", "scatter", "build"}
Idle    == [kernel |-> "none", todo |-> {}, by |-> NoCaller]

\* Control points: before the commit of each kernel, and waiting for it.
Waiting(k) == CASE k = "count" -> "countWait" [] k = "scatter" -> "scatterWait"
                [] k = "build" -> "buildWait"
Locked  == {"ensure"} \cup Kernels \cup {Waiting(k) : k \in Kernels}

Output(f, n, first) ==
  [kind |-> "output", rowToGroup |-> f, nGroups |-> n, firstRow |-> first]

NoAnswer == [kind |-> "none"]

Init ==
  /\ keys   = [c \in Callers |-> Empty]
  /\ answer = [c \in Callers |-> Output(Empty, 0, Empty)]
  /\ calls  = [c \in Callers |-> 0]
  /\ pc     = [c \in Callers |-> "idle"]
  /\ cache = FALSE /\ holder = NoCaller
  /\ capRows = 0 /\ capParts = 0
  /\ keysBuf = Empty /\ rowIdx = Empty /\ pid = Empty /\ r2lg = Empty
  /\ counts = Empty /\ cursors = Empty /\ offsets = Empty /\ ngPerPart = Empty
  /\ overflow = 0
  /\ gpu = Idle

Goto(c, label) == pc' = [pc EXCEPT ![c] = label]

Answer(c, a) ==
  /\ answer' = [answer EXCEPT ![c] = a]
  /\ Goto(c, "idle")
  /\ UNCHANGED <<keys, calls>>

\* sum[p] of the elements before p; the scans of counts and of group counts.
ExclusiveScan(f) ==
  LET sum[p \in 0..NParts] == IF p = 0 THEN 0 ELSE sum[p - 1] + f[p - 1]
  IN  sum

\* The lowest row of each group.
FirstRows(f, n) ==
  [g \in 0..(n - 1) |->
    CHOOSE r \in DOMAIN f : f[r] = g /\ \A q \in DOMAIN f : f[q] = g => r <= q]

-----------------------------------------------------------------------------
\* dispatch_build

Call(c) ==
  /\ pc[c] = "idle" /\ calls[c] < MaxCalls[c]
  /\ \E in \in Inputs : keys' = [keys EXCEPT ![c] = in]
  /\ answer' = [answer EXCEPT ![c] = NoAnswer]
  /\ calls' = [calls EXCEPT ![c] = @ + 1]
  /\ Goto(c, "dispatch")
  /\ UNCHANGED <<cache, holder, scratch, gpu>>

AnswerEmpty(c) ==
  /\ pc[c] = "dispatch" /\ NRows(keys[c]) = 0
  /\ Answer(c, Output(Empty, 0, Empty))
  /\ UNCHANGED <<cache, holder, scratch, gpu>>

ChoosePath(c) ==
  /\ pc[c] = "dispatch" /\ NRows(keys[c]) > 0
  /\ Goto(c, IF NRows(keys[c]) >= Threshold THEN "cache" ELSE "cpu")
  /\ UNCHANGED <<keys, answer, calls, cache, holder, scratch, gpu>>

\* cpu_hashmap_build: ids in the order in which keys first occur.
CpuBuild(c) ==
  LET k == keys[c]
      FirstRow(x) == CHOOSE r \in DOMAIN k : k[r] = x /\ \A q \in DOMAIN k : k[q] = x => r <= q
      firsts == {FirstRow(k[r]) : r \in DOMAIN k}
      group  == [r \in DOMAIN k |-> Cardinality({q \in firsts : q < FirstRow(k[r])})]
  IN  /\ pc[c] = "cpu"
      /\ Answer(c, Output(group, Cardinality(firsts), FirstRows(group, Cardinality(firsts))))
      /\ UNCHANGED <<cache, holder, scratch, gpu>>

-----------------------------------------------------------------------------
\* try_a1_build: the scratch and its lock.

GetCache(c) ==
  /\ pc[c] = "cache"
  /\ Goto(c, IF cache THEN "lock" ELSE "init")
  /\ UNCHANGED <<keys, answer, calls, cache, holder, scratch, gpu>>

\* BuildScratch::new, then get_or_init: of several racing callers one installs
\* its scratch and the others drop theirs.
InitCache(c) ==
  /\ pc[c] = "init"
  /\ cache' = TRUE
  /\ Goto(c, "lock")
  /\ UNCHANGED <<keys, answer, calls, holder, scratch, gpu>>

InitCacheFails(c) ==
  /\ pc[c] = "init"
  /\ Goto(c, "cpu")
  /\ UNCHANGED <<keys, answer, calls, cache, holder, scratch, gpu>>

Lock(c) ==
  /\ pc[c] = "lock" /\ holder = NoCaller
  /\ holder' = c
  /\ Goto(c, "ensure")
  /\ UNCHANGED <<keys, answer, calls, cache, scratch, gpu>>

\* Fault: an error path keeps the lock.
DeclineLocked(c) ==
  /\ Goto(c, "cpu")
  /\ UNCHANGED <<keys, answer, calls, cache, holder>>

\* Any Err of the GPU path: the guard is dropped and the CPU takes over.
Decline(c) ==
  /\ holder' = NoCaller
  /\ Goto(c, "cpu")
  /\ UNCHANGED <<keys, answer, calls, cache>>

\* Fault: reset leaves the cursors of the previous call.
PrepareStaleCursors(c) ==
  LET n == NRows(keys[c])
      grow == n > capRows
      growParts == NParts > capParts
      Sized(buf) == IF grow THEN Zeros(n) ELSE buf
      SizedParts(buf, size) == IF growParts THEN Zeros(size) ELSE buf
  IN  /\ pc[c] = "ensure"
      /\ capRows'  = IF grow THEN n ELSE capRows
      /\ capParts' = IF growParts THEN NParts ELSE capParts
      /\ rowIdx' = Sized(rowIdx) /\ pid' = Sized(pid) /\ r2lg' = Sized(r2lg)
      /\ keysBuf' = [i \in DOMAIN Sized(keysBuf) |-> IF i < n THEN keys[c][i] ELSE keysBuf[i]]
      /\ counts' = Zeros(NParts) /\ cursors' = SizedParts(cursors, NParts)
      /\ offsets' = SizedParts(offsets, NParts + 1)
      /\ ngPerPart' = SizedParts(ngPerPart, NParts)
      /\ overflow' = 0
      /\ Goto(c, "count")
      /\ UNCHANGED <<keys, answer, calls, cache, holder, gpu>>

\* ensure, reset and write_keys.
Prepare(c) ==
  LET n == NRows(keys[c])
      grow == n > capRows
      growParts == NParts > capParts
      Sized(buf) == IF grow THEN Zeros(n) ELSE buf
  IN  /\ pc[c] = "ensure"
      /\ capRows'  = IF grow THEN n ELSE capRows
      /\ capParts' = IF growParts THEN NParts ELSE capParts
      /\ rowIdx' = Sized(rowIdx) /\ pid' = Sized(pid) /\ r2lg' = Sized(r2lg)
      /\ keysBuf' = [i \in DOMAIN Sized(keysBuf) |-> IF i < n THEN keys[c][i] ELSE keysBuf[i]]
      /\ counts' = Zeros(NParts) /\ cursors' = Zeros(NParts)
      /\ offsets' = IF growParts THEN Zeros(NParts + 1) ELSE offsets
      /\ ngPerPart' = IF growParts THEN Zeros(NParts) ELSE ngPerPart
      /\ overflow' = 0
      /\ Goto(c, "count")
      /\ UNCHANGED <<keys, answer, calls, cache, holder, gpu>>

\* ensure fails at one of its allocations: those before it are in place, and the
\* capacity they belong to is not raised.
EnsurePartsFails(c) ==
  /\ pc[c] = "ensure" /\ NParts > capParts
  /\ \E done \in 0..3 :
       /\ counts'  = IF done > 0 THEN Zeros(NParts) ELSE counts
       /\ cursors' = IF done > 1 THEN Zeros(NParts) ELSE cursors
       /\ offsets' = IF done > 2 THEN Zeros(NParts + 1) ELSE offsets
  /\ Decline(c)
  /\ UNCHANGED <<capacity, rowBufs, ngPerPart, overflow, gpu>>

\* Fault: the capacity is raised before the allocations it stands for.
EnsureRowsFailsRaised(c) ==
  /\ pc[c] = "ensure" /\ NRows(keys[c]) > capRows
  /\ capRows' = NRows(keys[c])
  /\ Decline(c)
  /\ UNCHANGED <<capParts, rowBufs, partBufs, overflow, gpu>>

EnsureRowsFails(c) ==
  LET n == NRows(keys[c])
      growParts == NParts > capParts
      Grown(buf, size) == IF growParts THEN Zeros(size) ELSE buf
  IN  /\ pc[c] = "ensure" /\ n > capRows
      /\ \E done \in 0..3 :
           /\ keysBuf' = IF done > 0 THEN Zeros(n) ELSE keysBuf
           /\ rowIdx'  = IF done > 1 THEN Zeros(n) ELSE rowIdx
           /\ pid'     = IF done > 2 THEN Zeros(n) ELSE pid
      /\ capParts' = NParts
      /\ counts' = Grown(counts, NParts) /\ cursors' = Grown(cursors, NParts)
      /\ offsets' = Grown(offsets, NParts + 1) /\ ngPerPart' = Grown(ngPerPart, NParts)
      /\ Decline(c)
      /\ UNCHANGED <<capRows, r2lg, overflow, gpu>>

-----------------------------------------------------------------------------
\* partition_and_build_with_scratch: dispatches, waits and host steps.

Commit(c, k) ==
  /\ pc[c] = k /\ k \in Kernels
  /\ gpu' = [kernel |-> k, by |-> c,
             todo |-> IF k = "build" THEN Parts ELSE DOMAIN keys[c]]
  /\ Goto(c, Waiting(k))
  /\ UNCHANGED <<keys, answer, calls, cache, holder, scratch>>

\* No queue, no pipeline, no command buffer or no encoder.
CommitFails(c) ==
  /\ pc[c] \in Kernels
  /\ Decline(c)
  /\ UNCHANGED <<scratch, gpu>>

\* Fault: the error path leaves the command buffer running.
GpuAbandoned(c) ==
  /\ pc[c] \in {Waiting(k) : k \in Kernels}
  /\ Decline(c)
  /\ UNCHANGED <<scratch, gpu>>

\* The command buffer completed with an error, whatever it had done.
GpuFails(c) ==
  /\ pc[c] \in {Waiting(k) : k \in Kernels}
  /\ gpu' = Idle
  /\ Decline(c)
  /\ UNCHANGED scratch

CountDone(c) ==
  /\ pc[c] = "countWait" /\ gpu.todo = {}
  /\ offsets' = ExclusiveScan(counts)
  /\ gpu' = Idle
  /\ Goto(c, "scatter")
  /\ UNCHANGED <<keys, answer, calls, cache, holder, capacity, rowBufs,
                 counts, cursors, ngPerPart, overflow>>

ScatterDone(c) ==
  /\ pc[c] = "scatterWait" /\ gpu.todo = {}
  /\ gpu' = Idle
  /\ Goto(c, "build")
  /\ UNCHANGED <<keys, answer, calls, cache, holder, scratch>>

BuildOverflowed(c) ==
  /\ pc[c] = "buildWait" /\ gpu.todo = {} /\ overflow = 1
  /\ gpu' = Idle
  /\ Decline(c)
  /\ UNCHANGED scratch

\* Fault: local group ids are returned as global ones.
BuildDoneLocalIds(c) ==
  LET n == ExclusiveScan(ngPerPart)[NParts]
      group == [r \in DOMAIN keys[c] |-> r2lg[r]]
  IN  /\ pc[c] = "buildWait" /\ gpu.todo = {} /\ overflow = 0
      /\ Answer(c, Output(group, n, [g \in 0..(n - 1) |-> 0]))
      /\ gpu' = Idle
      /\ holder' = NoCaller
      /\ UNCHANGED <<cache, scratch>>

BuildDone(c) ==
  LET groupOffset == ExclusiveScan(ngPerPart)
      n == groupOffset[NParts]
      group == [r \in DOMAIN keys[c] |-> groupOffset[pid[r]] + r2lg[r]]
  IN  /\ pc[c] = "buildWait" /\ gpu.todo = {} /\ overflow = 0
      /\ Answer(c, Output(group, n, FirstRows(group, n)))
      /\ gpu' = Idle
      /\ holder' = NoCaller
      /\ UNCHANGED <<cache, scratch>>

-----------------------------------------------------------------------------
\* The kernels.

Finish(i) == gpu' = [gpu EXCEPT !.todo = @ \ {i}]

CountRow(r) ==
  /\ gpu.kernel = "count" /\ r \in gpu.todo
  /\ counts' = [counts EXCEPT ![Part[keysBuf[r]]] = @ + 1]
  /\ Finish(r)
  /\ UNCHANGED <<perCaller, cache, holder, capacity, rowBufs,
                 cursors, offsets, ngPerPart, overflow>>

ScatterRow(r) ==
  LET p == Part[keysBuf[r]]
  IN  /\ gpu.kernel = "scatter" /\ r \in gpu.todo
      /\ cursors' = [cursors EXCEPT ![p] = @ + 1]
      /\ rowIdx' = [rowIdx EXCEPT ![offsets[p] + cursors[p]] = r]
      /\ pid' = [pid EXCEPT ![r] = p]
      /\ Finish(r)
      /\ UNCHANGED <<perCaller, cache, holder, capacity, keysBuf, r2lg,
                     counts, offsets, ngPerPart, overflow>>

Slice(p) == {rowIdx[i] : i \in offsets[p]..(offsets[p + 1] - 1)}

\* Only its predicate on groupings is used.
Kernel == INSTANCE GroupBuild WITH keys <- Empty, answer <- NoAnswer, MayOverflow <- TRUE

\* One threadgroup of partition_build.
BuildPartition(p) ==
  LET slice == Slice(p)
      k == [r \in slice |-> keysBuf[r]]
  IN  /\ gpu.kernel = "build" /\ p \in gpu.todo
      /\ \E n \in 0..Cardinality(slice) : \E f \in [slice -> 0..(n - 1)] :
           /\ Kernel!IsGrouping(k, f, n)
           /\ r2lg' = [r \in DOMAIN r2lg |-> IF r \in slice THEN f[r] ELSE r2lg[r]]
           /\ ngPerPart' = [ngPerPart EXCEPT ![p] = n]
      /\ Finish(p)
      /\ UNCHANGED <<perCaller, cache, holder, capacity, keysBuf, rowIdx, pid,
                     counts, cursors, offsets, overflow>>

OverflowPartition(p) ==
  /\ gpu.kernel = "build" /\ p \in gpu.todo /\ Slice(p) # {}
  /\ overflow' = 1
  /\ r2lg' = [r \in DOMAIN r2lg |-> IF r \in Slice(p) THEN UINT_MAX ELSE r2lg[r]]
  /\ Finish(p)
  /\ UNCHANGED <<perCaller, cache, holder, capacity, keysBuf, rowIdx, pid, partBufs>>

-----------------------------------------------------------------------------
Host(c) ==
  \/ AnswerEmpty(c) \/ ChoosePath(c) \/ CpuBuild(c)
  \/ GetCache(c) \/ InitCache(c) \/ Lock(c) \/ Prepare(c)
  \/ \E k \in Kernels : Commit(c, k)
  \/ CountDone(c) \/ ScatterDone(c) \/ BuildOverflowed(c) \/ BuildDone(c)

HostFault(c) ==
  \/ InitCacheFails(c) \/ EnsurePartsFails(c) \/ EnsureRowsFails(c)
  \/ CommitFails(c) \/ GpuFails(c)

Gpu == \E i \in gpu.todo :
  CountRow(i) \/ ScatterRow(i) \/ BuildPartition(i) \/ OverflowPartition(i)

Next == (\E c \in Callers : Call(c) \/ Host(c) \/ HostFault(c)) \/ Gpu

Spec == Init /\ [][Next]_vars

\* Callers and the GPU keep going; nobody has to call again, nothing has to fail.
FairSpec == Spec /\ (\A c \in Callers : WF_vars(Host(c))) /\ WF_vars(Gpu)

-----------------------------------------------------------------------------
\* capacity_rows and capacity_partitions never promise more than the buffers hold,
\* also after an ensure that failed half way: later calls skip the allocation.
CapacityBacked ==
  /\ \A buf \in {keysBuf, rowIdx, pid, r2lg} : 0..(capRows - 1) \subseteq DOMAIN buf
  /\ \A buf \in {counts, cursors, ngPerPart} : 0..(capParts - 1) \subseteq DOMAIN buf
  /\ capParts > 0 => DOMAIN offsets = 0..capParts

\* The scratch belongs to the mutex holder, GPU included: while a kernel runs, the
\* caller that committed it still holds the lock and waits, on every error path.
ScratchExclusive ==
  /\ \A c \in Callers : pc[c] \in Locked <=> holder = c
  /\ gpu.kernel # "none" => /\ gpu.by = holder /\ holder # NoCaller
                            /\ pc[holder] = Waiting(gpu.kernel)

\* After the scatter, each row stands exactly once in row_idx, in the slice of its
\* own key's partition, whatever earlier calls left in the buffers.
ScatterIsPermutation ==
  \A c \in Callers : pc[c] \in {"build", "buildWait"} =>
    /\ \A r \in DOMAIN keys[c] : \E i \in DOMAIN keys[c] : rowIdx[i] = r
    /\ \A p \in Parts, i \in DOMAIN keys[c] :
         i \in offsets[p]..(offsets[p + 1] - 1) => Part[keys[c][rowIdx[i]]] = p
    /\ offsets[NParts] = NRows(keys[c])

\* Every call returns, through the GPU or through the CPU.
EveryCallReturns == \A c \in Callers : pc[c] = "dispatch" ~> pc[c] = "idle"

\* To each caller dispatch_build is the atomic build that never declines: it answers
\* with a grouping of the caller's own keys and the first row of every group.
Service(c) ==
  INSTANCE GroupBuild WITH keys <- keys[c], answer <- answer[c], MayOverflow <- FALSE

ImplementsGroupBuild ==
  /\ \A c \in Callers : Service(c)!Init
  /\ [][\A c \in Callers : Service(c)!Next \/ UNCHANGED <<keys[c], answer[c]>>]_<<keys, answer>>
=============================================================================
