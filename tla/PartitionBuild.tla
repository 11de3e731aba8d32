--------------------------- MODULE PartitionBuild ---------------------------
(***************************************************************************)
(* The kernel partition_build of                                           *)
(* shaders/groupby_build_partitioned_build.metal: one threadgroup builds   *)
(* the hash table of one partition in threadgroup memory and gives every   *)
(* row of its slice a local group id.  Threadgroups share nothing but the  *)
(* overflow flag, which they only ever set, so one threadgroup is modelled. *)
(*                                                                         *)
(* A row is its position i in the slice (r = row_indices[start + i]).      *)
(* MSL offers only relaxed atomics and a weak compare-exchange.  Two       *)
(* constants say how much of that freedom a behaviour uses:                *)
(*   Ordered     - TRUE: a thread that sees a published state also sees    *)
(*                 the key stored before it.  FALSE: it may still read the *)
(*                 zeros the slot was initialised with.                    *)
(*   SpuriousCas - TRUE: the weak compare-exchange may fail on a slot that *)
(*                 does hold the expected value.                           *)
(* The history variable misled records that a thread did go on with such a *)
(* reading: until then grouping is exact, whatever the constants allow.    *)
(***************************************************************************)
EXTENDS Naturals, FiniteSets

CONSTANTS
  NRows,        \* rows in the partition's slice
  Keys,         \* the key values
  ZeroKey,      \* the key ulong2(0, 0), to which TGSM is initialised
  Torn,         \* Torn[k]: zeros, or k with one of its two words still zero
  Hash,         \* home slot of each key: h & (TGSM_SLOTS - 1)
  NSlots,       \* TGSM_SLOTS
  ProbeLimit,   \* TGSM_PROBE_LIMIT
  TgSize,       \* threads per threadgroup
  SimdWidth,    \* threads of a SIMD group, which advance in lockstep
  UINT_MAX,     \* the largest value of an MSL uint
  Ordered,
  SpuriousCas

ASSUME SizeAssumption ==
  /\ NRows \in Nat /\ NSlots \in Nat \ {0} /\ TgSize \in Nat \ {0}
  /\ SimdWidth \in Nat \ {0}
  /\ ProbeLimit \in Nat \ {0} /\ ProbeLimit <= NSlots

ASSUME KeyAssumption ==
  /\ ZeroKey \in Keys
  /\ Hash \in [Keys -> 0..(NSlots - 1)]
  /\ Torn \in [Keys -> SUBSET Keys]

\* At most NSlots local ids exist, far below the two values with a meaning
\* of their own.
ASSUME WidthAssumption == UINT_MAX \in Nat /\ UINT_MAX > NSlots + 1

ASSUME MemoryAssumption == Ordered \in BOOLEAN /\ SpuriousCas \in BOOLEAN

Rows    == 0..(NRows - 1)
Slots   == 0..(NSlots - 1)
Threads == 0..(TgSize - 1)

Empty    == 0
Claiming == UINT_MAX
Unset    == UINT_MAX + 1      \* contents of an output no kernel has written

VARIABLES
  keys,       \* input: the key of each row of the slice
  slotKey,    \* slot_key, threadgroup memory, not atomic
  slotState,  \* slot_state: Empty, Claiming, or a group id + 1
  nextLocal,  \* next_local_id
  claimedBy,  \* history: the row whose thread won the slot
  misled,     \* history: a thread has gone on with what was not in memory
  pc,         \* where each thread is
  row,        \* its loop variable i
  slot, probe, state,   \* its locals of the same names
  gid,        \* the id it has drawn and not yet published
  rowGroup,   \* row_to_local_group
  overflow,   \* overflow_flag
  nGroups     \* n_groups_per_part of this threadgroup

table  == <<slotKey, slotState, nextLocal, claimedBy>>
locals == <<pc, row, slot, probe, state, gid>>
output == <<rowGroup, overflow, nGroups>>
vars   == <<keys, misled, table, locals, output>>

PCs == {"row", "probe", "cas", "spin", "compare",
        "writeKey", "draw", "publish", "barrier", "done"}

NoRow == NRows                \* claimedBy of a slot nobody has won

KeyOf(t) == keys[row[t]]

\* Fault: the published value is taken for the id itself.
PredForgotten(s) == s

\* state - 1u in 32-bit unsigned arithmetic.
Pred(s) == (s + UINT_MAX) % (UINT_MAX + 1)

\* What a thread may take the key k of another thread's slot for: when stores
\* are not ordered, a part of it.
Misreadings(k) == IF Ordered THEN {} ELSE Torn[k]

\* What a thread can read from slot_key: the last store, or, if the thread did
\* not make that store itself, a misreading of it.
ReadableKeys(t, s) ==
  {slotKey[s]} \cup
    (IF claimedBy[s] \in Rows /\ claimedBy[s] % TgSize = t
       THEN {} ELSE Misreadings(slotKey[s]))

Init ==
  /\ keys \in [Rows -> Keys]
  /\ slotKey   = [s \in Slots |-> ZeroKey]
  /\ slotState = [s \in Slots |-> Empty]
  /\ nextLocal = 0
  /\ claimedBy = [s \in Slots |-> NoRow]
  /\ misled = FALSE
  /\ pc    = [t \in Threads |-> "row"]
  /\ row   = [t \in Threads |-> t]
  /\ slot  = [t \in Threads |-> 0]
  /\ probe = [t \in Threads |-> 0]
  /\ state = [t \in Threads |-> Empty]
  /\ gid   = [t \in Threads |-> 0]
  /\ rowGroup = [r \in Rows |-> Unset]
  /\ overflow = 0
  /\ nGroups  = Unset

Goto(t, label) == pc' = [pc EXCEPT ![t] = label]

\* The head of the row loop: fetch the thread's next row, or leave the loop.
FetchRow(t) ==
  /\ pc[t] = "row"
  /\ row[t] < NRows
  /\ slot'  = [slot EXCEPT ![t] = Hash[KeyOf(t)]]
  /\ probe' = [probe EXCEPT ![t] = 0]
  /\ Goto(t, "probe")
  /\ UNCHANGED <<keys, misled, table, row, state, gid, output>>

LeaveLoop(t) ==
  /\ pc[t] = "row"
  /\ row[t] >= NRows
  /\ Goto(t, "barrier")
  /\ UNCHANGED <<keys, misled, table, row, slot, probe, state, gid, output>>

\* Fault: a slot that is being claimed is compared at once.
AfterReadNoSpin(s) == "compare"

\* Where a thread goes on with a state it has just read.
AfterRead(s) == IF s = Claiming THEN "spin" ELSE "compare"

LoadState(t) ==
  LET s == slotState[slot[t]]
  IN  /\ pc[t] = "probe"
      /\ state' = [state EXCEPT ![t] = s]
      /\ Goto(t, IF s = Empty THEN "cas" ELSE AfterRead(s))
      /\ UNCHANGED <<keys, misled, table, row, slot, probe, gid, output>>

CasWin(t) ==
  /\ pc[t] = "cas"
  /\ slotState[slot[t]] = Empty
  /\ slotState' = [slotState EXCEPT ![slot[t]] = Claiming]
  /\ claimedBy' = [claimedBy EXCEPT ![slot[t]] = row[t]]
  /\ Goto(t, "writeKey")
  /\ UNCHANGED <<keys, misled, slotKey, nextLocal, row, slot, probe, state, gid, output>>

\* Fault: the id is drawn before the outcome of the exchange is known.
CasFailDraws(t) ==
  LET s == slotState[slot[t]]
  IN  /\ pc[t] = "cas"
      /\ s # Empty \/ SpuriousCas
      /\ state' = [state EXCEPT ![t] = s]
      /\ nextLocal' = IF nextLocal < NSlots THEN nextLocal + 1 ELSE nextLocal
      /\ Goto(t, AfterRead(s))
      /\ misled' = (misled \/ s = Empty)
      /\ UNCHANGED <<keys, slotKey, slotState, claimedBy, row, slot, probe, gid, output>>

\* The exchange fails because the slot was taken, or, being weak, for no reason.
\* Either way the thread goes on with the value the exchange reported.
CasFail(t) ==
  LET s == slotState[slot[t]]
  IN  /\ pc[t] = "cas"
      /\ s # Empty \/ SpuriousCas
      /\ state' = [state EXCEPT ![t] = s]
      /\ Goto(t, AfterRead(s))
      /\ misled' = (misled \/ s = Empty)
      /\ UNCHANGED <<keys, table, row, slot, probe, gid, output>>

WriteKey(t) ==
  /\ pc[t] = "writeKey"
  /\ slotKey' = [slotKey EXCEPT ![slot[t]] = KeyOf(t)]
  /\ Goto(t, "draw")
  /\ UNCHANGED <<keys, misled, slotState, nextLocal, claimedBy, row, slot, probe, state, gid, output>>

DrawId(t) ==
  /\ pc[t] = "draw"
  /\ gid' = [gid EXCEPT ![t] = nextLocal]
  /\ nextLocal' = nextLocal + 1
  /\ Goto(t, "publish")
  /\ UNCHANGED <<keys, misled, slotKey, slotState, claimedBy, row, slot, probe, state, output>>

\* Fault: a row is given up without raising the flag.
SettleSilently(t, g) ==
  /\ rowGroup' = [rowGroup EXCEPT ![row[t]] = g]
  /\ row' = [row EXCEPT ![t] = @ + TgSize]
  /\ Goto(t, "row")
  /\ UNCHANGED <<overflow, nGroups>>

\* The end of the loop body: store the row's group, or flag the overflow, and
\* step to the thread's next row.
Settle(t, g) ==
  /\ rowGroup' = [rowGroup EXCEPT ![row[t]] = g]
  /\ overflow' = IF g = UINT_MAX THEN 1 ELSE overflow
  /\ row' = [row EXCEPT ![t] = @ + TgSize]
  /\ Goto(t, "row")
  /\ UNCHANGED nGroups

\* Fault: the id is published as it is, so that id 0 reads as an empty slot.
PublishUnshifted(t) ==
  /\ pc[t] = "publish"
  /\ slotState' = [slotState EXCEPT ![slot[t]] = gid[t]]
  /\ Settle(t, gid[t])
  /\ UNCHANGED <<keys, misled, slotKey, nextLocal, claimedBy, slot, probe, state, gid>>

Publish(t) ==
  /\ pc[t] = "publish"
  /\ slotState' = [slotState EXCEPT ![slot[t]] = gid[t] + 1]
  /\ Settle(t, gid[t])
  /\ UNCHANGED <<keys, misled, slotKey, nextLocal, claimedBy, slot, probe, state, gid>>

\* Spinning ends with the first load that no longer reads Claiming.
SpinOut(t) ==
  LET s == slotState[slot[t]]
  IN  /\ pc[t] = "spin"
      /\ s # Claiming
      /\ state' = [state EXCEPT ![t] = s]
      /\ Goto(t, "compare")
      /\ UNCHANGED <<keys, misled, table, row, slot, probe, gid, output>>

Match(t) ==
  /\ pc[t] = "compare"
  /\ KeyOf(t) \in ReadableKeys(t, slot[t])
  /\ Settle(t, Pred(state[t]))
  /\ misled' = (misled \/ slotKey[slot[t]] # KeyOf(t))
  /\ UNCHANGED <<keys, table, slot, probe, state, gid>>

\* Fault: probing without a budget.
NextSlotUncounted(t) ==
  /\ pc[t] = "compare"
  /\ \E k \in ReadableKeys(t, slot[t]) : k # KeyOf(t)
  /\ slot' = [slot EXCEPT ![t] = (@ + 1) % NSlots]
  /\ Goto(t, "probe")
  /\ misled' = (misled \/ slotKey[slot[t]] = KeyOf(t))
  /\ UNCHANGED <<keys, table, row, probe, state, gid, output>>

\* A different key: probe the next slot while the probe budget lasts.
NextSlot(t) ==
  /\ pc[t] = "compare"
  /\ \E k \in ReadableKeys(t, slot[t]) : k # KeyOf(t)
  /\ probe[t] + 1 < ProbeLimit
  /\ slot'  = [slot EXCEPT ![t] = (@ + 1) % NSlots]
  /\ probe' = [probe EXCEPT ![t] = @ + 1]
  /\ Goto(t, "probe")
  /\ misled' = (misled \/ slotKey[slot[t]] = KeyOf(t))
  /\ UNCHANGED <<keys, table, row, state, gid, output>>

\* Fault: the group of the last slot looked at is kept.
GiveUpInLast(t) ==
  /\ pc[t] = "compare"
  /\ \E k \in ReadableKeys(t, slot[t]) : k # KeyOf(t)
  /\ probe[t] + 1 >= ProbeLimit
  /\ Settle(t, Pred(state[t]))
  /\ misled' = (misled \/ slotKey[slot[t]] = KeyOf(t))
  /\ UNCHANGED <<keys, table, slot, probe, state, gid>>

\* Fault: the last slot of the probe sequence is not tried.
GiveUpEarly(t) ==
  /\ pc[t] = "compare"
  /\ \E k \in ReadableKeys(t, slot[t]) : k # KeyOf(t)
  /\ probe[t] + 2 >= ProbeLimit
  /\ Settle(t, UINT_MAX)
  /\ misled' = (misled \/ slotKey[slot[t]] = KeyOf(t))
  /\ UNCHANGED <<keys, table, slot, probe, state, gid>>

GiveUp(t) ==
  /\ pc[t] = "compare"
  /\ \E k \in ReadableKeys(t, slot[t]) : k # KeyOf(t)
  /\ probe[t] + 1 >= ProbeLimit
  /\ Settle(t, UINT_MAX)
  /\ misled' = (misled \/ slotKey[slot[t]] = KeyOf(t))
  /\ UNCHANGED <<keys, table, slot, probe, state, gid>>

\* Fault: no barrier, thread 0 reports when it is through.
NoBarrier ==
  /\ pc[0] = "barrier"
  /\ nGroups' = nextLocal
  /\ pc' = [t \in Threads |-> "done"]
  /\ UNCHANGED <<keys, misled, table, row, slot, probe, state, gid, rowGroup, overflow>>

\* threadgroup_barrier; thread 0 reports the number of local groups.
Barrier ==
  /\ \A t \in Threads : pc[t] = "barrier"
  /\ nGroups' = nextLocal
  /\ pc' = [t \in Threads |-> "done"]
  /\ UNCHANGED <<keys, misled, table, row, slot, probe, state, gid, rowGroup, overflow>>

Step(t) ==
  \/ FetchRow(t) \/ LeaveLoop(t)
  \/ LoadState(t) \/ CasWin(t) \/ CasFail(t)
  \/ WriteKey(t) \/ DrawId(t) \/ Publish(t)
  \/ SpinOut(t) \/ Match(t) \/ NextSlot(t) \/ GiveUp(t)

Done == \A t \in Threads : pc[t] = "done"

\* The kernel has returned; keeps TLC's deadlock check for threads that spin
\* on one another.
Terminated == Done /\ UNCHANGED vars

Next == (\E t \in Threads : Step(t)) \/ Barrier \/ Terminated

Spec == Init /\ [][Next]_vars

\* A thread that spins on a claimed slot keeps the lanes of its SIMD group in
\* its loop: the others, the claimer it waits for perhaps among them, need not
\* be scheduled before it leaves (lines 18-23 of the kernel's header).
Spins(t)     == pc[t] = "spin" /\ slotState[slot[t]] = Claiming
SimdGroup(t) == t \div SimdWidth
Starved(t)   == pc[t] # "spin" /\ \E u \in Threads : SimdGroup(u) = SimdGroup(t) /\ Spins(u)

\* No more is assumed of the scheduler than that the threadgroup does not stop
\* while a thread that no sibling holds up has a step to take.
FairSpec ==
  Spec /\ WF_vars((\E t \in Threads : Step(t) /\ ~Starved(t)) \/ Barrier)

-----------------------------------------------------------------------------
TypeOK ==
  /\ keys \in [Rows -> Keys]
  /\ slotKey \in [Slots -> Keys]
  /\ slotState \in [Slots -> 0..UINT_MAX]
  /\ nextLocal \in 0..NSlots
  /\ claimedBy \in [Slots -> Rows \cup {NoRow}]
  /\ misled \in BOOLEAN
  /\ pc \in [Threads -> PCs]
  /\ row \in [Threads -> Nat]
  /\ slot \in [Threads -> Slots]
  /\ probe \in [Threads -> 0..(ProbeLimit - 1)]
  /\ state \in [Threads -> 0..UINT_MAX]
  /\ gid \in [Threads -> 0..NSlots]
  /\ rowGroup \in [Rows -> 0..Unset]
  /\ overflow \in {0, 1}
  /\ nGroups \in Nat

Claimed(s)  == claimedBy[s] # NoRow
OwnerKey(s) == keys[claimedBy[s]]
Published(s) == slotState[s] \notin {Empty, Claiming}
InClaim(t)  == pc[t] \in {"writeKey", "draw", "publish"}

\* The j-th slot of key k's probe sequence.
ProbeSlot(k, j) == (Hash[k] + j) % NSlots

\* Every local id drawn from next_local_id belongs to exactly one slot, whether
\* it is published there or still held by the thread that drew it: no two slots
\* share an id and none is lost, on any memory order and with a weak CAS.
IdsUnique ==
  /\ \A s \in Slots : Published(s) => slotState[s] - 1 \in 0..(nextLocal - 1)
  /\ \A s1, s2 \in Slots :
       Published(s1) /\ Published(s2) /\ slotState[s1] = slotState[s2] => s1 = s2
  /\ \A t \in Threads : pc[t] = "publish" =>
       /\ gid[t] \in 0..(nextLocal - 1)
       /\ \A s \in Slots : Published(s) => slotState[s] # gid[t] + 1
       /\ \A u \in Threads \ {t} : pc[u] = "publish" => gid[u] # gid[t]

\* The host indexes first_row_per_group by offset + local id without a check
\* (gpu.rs 185-193): a row holds an id that was drawn, or the overflow flag is up.
HostIndexInRange ==
  \A r \in Rows : rowGroup[r] # Unset =>
    \/ rowGroup[r] < nextLocal
    \/ rowGroup[r] = UINT_MAX /\ overflow = 1

\* When the kernel returns, every id below n_groups_per_part has a row, so that no
\* first_row_per_group keeps the host's u32::MAX placeholder.
NoGroupWithoutRow ==
  Done => \A g \in 0..(nGroups - 1) : \E r \in Rows : rowGroup[r] = g

\* Whatever order stores become visible in, and however often the weak CAS fails:
\* the rows of a group have the key of one row, which opened the group, or words
\* that can be read of it while it is being stored.  With ordered stores no two
\* keys are ever merged.
NoKeysMergedUnlessTorn ==
  \A g \in 0..(nextLocal - 1) : \E o \in Rows : \A r \in Rows :
    rowGroup[r] = g => keys[r] \in {keys[o]} \cup Misreadings(keys[o])

\* One key never owns two slots: the find-or-insert loop of several threads
\* behaves like that of one, until a thread is misled.
NoKeyTwice ==
  ~misled => \A s1, s2 \in Slots :
               Claimed(s1) /\ Claimed(s2) /\ OwnerKey(s1) = OwnerKey(s2) => s1 = s2

\* Until a thread is misled, the rows settled so far share a group exactly when
\* they share a key.
SameGroupIffSameKey ==
  ~misled => \A r, q \in Rows :
               rowGroup[r] < UINT_MAX /\ rowGroup[q] < UINT_MAX =>
                 (rowGroup[r] = rowGroup[q] <=> keys[r] = keys[q])

\* Until a thread is misled, a row overflows only when each slot of its probe
\* sequence belongs to another key: no row is given up that had a place.
OverflowJustified ==
  ~misled => \A r \in Rows : rowGroup[r] = UINT_MAX =>
               \A j \in 0..(ProbeLimit - 1) :
                 LET s == ProbeSlot(keys[r], j)
                 IN  Claimed(s) /\ OwnerKey(s) # keys[r]

\* n_groups is the "total number of unique groups" (BuildOutput, mod.rs 28): no
\* key opens a second group, on any order of memory.
NoSurplusGroup ==
  Done /\ overflow = 0 => nGroups <= Cardinality({keys[r] : r \in Rows})

\* Every thread leaves the kernel, or a claimer of some slot is kept from
\* publishing it by a sibling that spins: nothing else, be it probing, lost
\* exchanges or the barrier, keeps a thread in the kernel.
HangsOnlyInLockstep ==
  <>Done \/ <>[](\E t \in Threads : InClaim(t) /\ Starved(t))

-----------------------------------------------------------------------------
\* What the host takes from a kernel no thread of which was misled.
BuildResult ==
  IF ~Done \/ misled THEN [kind |-> "none"]
  ELSE IF overflow = 1 THEN [kind |-> "overflow"]
  ELSE [kind |-> "groups", rowToGroup |-> rowGroup, nGroups |-> nGroups]

Abstract == INSTANCE GroupBuild WITH answer <- BuildResult, MayOverflow <- TRUE

\* The kernel implements the atomic build of GroupBuild: seen from the host it
\* returns a grouping of the slice, or the overflow flag, unless a thread was misled.
ImplementsGroupBuild == Abstract!Spec

=============================================================================
