------------------------ MODULE PartitionBuildProofs ------------------------
(***************************************************************************)
(* Proofs about PartitionBuild for every number of rows, threads and       *)
(* slots, every probe limit and hash function.                             *)
(***************************************************************************)
EXTENDS PartitionBuild, Integers, FiniteSetTheorems, TLAPS

LEMMA SegmentSize ==
  ASSUME NEW n \in Nat
  PROVE  IsFiniteSet(0..(n - 1)) /\ Cardinality(0..(n - 1)) = n
BY FS_Interval

USE SizeAssumption, KeyAssumption, WidthAssumption, MemoryAssumption

Working(t) == pc[t] \in PCs \ {"row", "barrier", "done"}

\* A thread between its won exchange and its publication owns its slot alone.
ClaimInv ==
  /\ \A t \in Threads : Working(t) => row[t] < NRows
  /\ \A t \in Threads : InClaim(t) =>
       slotState[slot[t]] = Claiming /\ claimedBy[slot[t]] = row[t]
  /\ \A t, u \in Threads : InClaim(t) /\ InClaim(u) /\ slot[t] = slot[u] => t = u
  /\ \A s \in Slots : Claimed(s) <=> slotState[s] # Empty

\* Slots whose owner has drawn its local id: as many as ids were drawn.
DrawnSlots ==
  {s \in Slots : Claimed(s) /\ \A t \in Threads :
                   pc[t] \in {"writeKey", "draw"} => slot[t] # s}

CountInv == nextLocal = Cardinality(DrawnSlots)

BaseInv == TypeOK /\ ClaimInv /\ CountInv

LEMMA ModRange ==
  ASSUME NEW a \in Nat, NEW n \in Nat \ {0}
  PROVE  a % n \in 0..(n - 1)
OBVIOUS

LEMMA SlotSuccessor ==
  ASSUME NEW s \in Slots
  PROVE  (s + 1) % NSlots \in Slots
<1>1. s + 1 \in Nat /\ NSlots \in Nat \ {0}
  BY DEF Slots
<1>2. (s + 1) % NSlots \in 0..(NSlots - 1)
  BY <1>1, ModRange
<1>3. QED
  BY <1>2 DEF Slots

LEMMA SlotsFinite == IsFiniteSet(Slots) /\ Cardinality(Slots) = NSlots
BY FS_Interval DEF Slots

LEMMA DrawnBounded ==
  /\ IsFiniteSet(DrawnSlots)
  /\ Cardinality(DrawnSlots) \in 0..NSlots
<1>1. DrawnSlots \subseteq Slots
  BY DEF DrawnSlots
<1>2. IsFiniteSet(DrawnSlots) /\ Cardinality(DrawnSlots) <= NSlots
  BY <1>1, SlotsFinite, FS_Subset
<1>3. QED
  BY <1>2, FS_CardinalityType

LEMMA ClaimInit == Init => TypeOK /\ ClaimInv
<1> SUFFICES ASSUME Init PROVE TypeOK /\ ClaimInv
  OBVIOUS
<1>0. /\ NRows \in Nat /\ NSlots \in Nat \ {0} /\ TgSize \in Nat \ {0}
      /\ ProbeLimit \in Nat \ {0} /\ UINT_MAX \in Nat /\ ZeroKey \in Keys
  OBVIOUS
<1>1. TypeOK
  <2>1. /\ keys \in [Rows -> Keys] /\ slotKey \in [Slots -> Keys]
        /\ nextLocal \in 0..NSlots /\ overflow \in {0, 1}
    BY <1>0 DEF Init
  <2>2. /\ claimedBy \in [Slots -> Rows \cup {NoRow}] /\ pc \in [Threads -> PCs]
        /\ misled \in BOOLEAN
    BY Zenon DEF Init, PCs
  <2>3. /\ slotState \in [Slots -> 0..UINT_MAX] /\ state \in [Threads -> 0..UINT_MAX]
        /\ row \in [Threads -> Nat] /\ slot \in [Threads -> Slots]
        /\ probe \in [Threads -> 0..ProbeLimit - 1] /\ gid \in [Threads -> 0..NSlots]
        /\ rowGroup \in [Rows -> 0..Unset] /\ nGroups \in Nat
    BY <1>0 DEF Init, Slots, Threads, Empty, Unset
  <2>4. QED
    BY <2>1, <2>2, <2>3 DEF TypeOK
<1>2. ClaimInv
  BY DEF Init, ClaimInv, Working, InClaim, Claimed, Slots, Threads, NoRow, Empty, PCs
<1>3. QED
  BY <1>1, <1>2

LEMMA CountInit == Init => CountInv
<1> SUFFICES ASSUME Init PROVE CountInv
  OBVIOUS
<1>1. DrawnSlots = {}
  BY DEF Init, DrawnSlots, Claimed
<1>2. QED
  BY <1>1, FS_EmptySet DEF Init, CountInv

\* Drawing an id adds the thread's slot to DrawnSlots.
LEMMA DrawCounts ==
  ASSUME BaseInv, NEW t \in Threads, DrawId(t)
  PROVE  CountInv' /\ nextLocal' \in 0..NSlots /\ gid' \in [Threads -> 0..NSlots]
<1> USE DEF BaseInv
<1>1. slot[t] \in Slots /\ slot[t] \notin DrawnSlots
  BY DEF DrawId, DrawnSlots, TypeOK
<1>2. DrawnSlots' = DrawnSlots \cup {slot[t]}
  <2>1. DrawnSlots' = {s \in Slots : Claimed(s) /\ \A u \in Threads :
                          pc'[u] \in {"writeKey", "draw"} => slot[u] # s}
    BY DEF DrawId, DrawnSlots, Claimed
  <2>2. \A u \in Threads : u # t => pc'[u] = pc[u]
    BY DEF DrawId, Goto, TypeOK
  <2>3. pc'[t] = "publish" /\ pc[t] = "draw"
    BY DEF DrawId, Goto, TypeOK
  <2>4. Claimed(slot[t])
    BY <2>3, <1>1 DEF ClaimInv, InClaim, Empty, Claiming
  <2>5. \A u \in Threads : u # t /\ pc[u] \in {"writeKey", "draw"} => slot[u] # slot[t]
    BY <2>3 DEF ClaimInv, InClaim
  <2>6. QED
    BY <2>1, <2>2, <2>3, <2>4, <2>5, <1>1 DEF DrawnSlots
<1>3. Cardinality(DrawnSlots') = Cardinality(DrawnSlots) + 1
  BY <1>1, <1>2, DrawnBounded, FS_AddElement
<1>4. DrawnSlots' \subseteq Slots
  BY <1>1, <1>2 DEF DrawnSlots
<1>5. Cardinality(DrawnSlots') <= NSlots
  BY <1>4, SlotsFinite, FS_Subset
<1>6. nextLocal' = nextLocal + 1 /\ gid' = [gid EXCEPT ![t] = nextLocal]
  BY DEF DrawId
<1>7. QED
  BY <1>3, <1>5, <1>6, DrawnBounded DEF CountInv, TypeOK

LEMMA WorkingRow ==
  ASSUME BaseInv, NEW t \in Threads, Working(t)
  PROVE  row[t] \in Rows /\ KeyOf(t) \in Keys
<1>1. row[t] \in Nat /\ row[t] < NRows
  BY DEF BaseInv, TypeOK, ClaimInv
<1>2. row[t] \in Rows
  BY <1>1 DEF Rows
<1>3. QED
  BY <1>2 DEF BaseInv, TypeOK, KeyOf

\* The end of the loop body keeps the types of what it assigns.
LEMMA SettleTypes ==
  ASSUME TypeOK, NEW t \in Threads, NEW g \in 0..Unset, Settle(t, g)
  PROVE  /\ rowGroup' \in [Rows -> 0..Unset]
         /\ overflow' \in {0, 1}
         /\ row' \in [Threads -> Nat]
         /\ pc' \in [Threads -> PCs]
         /\ nGroups' \in Nat
<1>1. row[t] + TgSize \in Nat
  BY DEF TypeOK
<1>2. row' = [row EXCEPT ![t] = row[t] + TgSize]
  BY DEF Settle
<1>3. row' \in [Threads -> Nat]
  BY <1>1, <1>2 DEF TypeOK
<1>4. rowGroup' \in [Rows -> 0..Unset]
  BY DEF Settle, TypeOK
<1>5. QED
  BY <1>3, <1>4 DEF Settle, TypeOK, Goto, PCs

LEMMA TypeStep == BaseInv /\ [Next]_vars => TypeOK'
<1> SUFFICES ASSUME BaseInv, [Next]_vars PROVE TypeOK'
  OBVIOUS
<1> USE DEF BaseInv, TypeOK, PCs, Goto, table, locals, output
<1>1. ASSUME NEW t \in Threads, FetchRow(t) PROVE TypeOK'
  <2>1. row[t] \in Rows
    BY <1>1 DEF FetchRow, Rows
  <2>2. Hash[KeyOf(t)] \in Slots
    BY <2>1 DEF KeyOf, Slots
  <2>3. 0 \in 0..(ProbeLimit - 1)
    OBVIOUS
  <2>4. QED
    BY <1>1, <2>2, <2>3 DEF FetchRow
<1>2. ASSUME NEW t \in Threads, LeaveLoop(t) PROVE TypeOK'
  BY <1>2 DEF LeaveLoop
<1>3. ASSUME NEW t \in Threads, LoadState(t) PROVE TypeOK'
  BY <1>3 DEF LoadState, AfterRead
<1>4. ASSUME NEW t \in Threads, CasWin(t) PROVE TypeOK'
  <2>1. row[t] \in Rows
    BY <1>4, WorkingRow DEF CasWin, Working
  <2>2. Claiming \in 0..UINT_MAX
    BY DEF Claiming
  <2>3. QED
    BY <1>4, <2>1, <2>2 DEF CasWin
<1>5. ASSUME NEW t \in Threads, CasFail(t) PROVE TypeOK'
  BY <1>5 DEF CasFail, AfterRead
<1>6. ASSUME NEW t \in Threads, WriteKey(t) PROVE TypeOK'
  <2>1. KeyOf(t) \in Keys
    BY <1>6, WorkingRow DEF WriteKey, Working
  <2>2. QED
    BY <1>6, <2>1 DEF WriteKey
<1>7. ASSUME NEW t \in Threads, DrawId(t) PROVE TypeOK'
  BY <1>7, DrawCounts DEF DrawId
<1>8. ASSUME NEW t \in Threads, Publish(t) PROVE TypeOK'
  <2>1. gid[t] \in 0..NSlots
    OBVIOUS
  <2>2. gid[t] \in 0..Unset /\ gid[t] + 1 \in 0..UINT_MAX
    BY <2>1 DEF Unset
  <2>3. Settle(t, gid[t])
    BY <1>8 DEF Publish
  <2>4. QED
    BY <1>8, <2>2, <2>3, SettleTypes DEF Publish
<1>9. ASSUME NEW t \in Threads, SpinOut(t) PROVE TypeOK'
  BY <1>9 DEF SpinOut
<1>10. ASSUME NEW t \in Threads, Match(t) PROVE TypeOK'
  <2>1. Pred(state[t]) \in 0..Unset
    BY DEF Pred, Unset
  <2>2. Settle(t, Pred(state[t]))
    BY <1>10 DEF Match
  <2>3. QED
    BY <1>10, <2>1, <2>2, SettleTypes DEF Match
<1>11. ASSUME NEW t \in Threads, NextSlot(t) PROVE TypeOK'
  <2>1. (slot[t] + 1) % NSlots \in Slots
    BY SlotSuccessor
  <2>2. probe[t] + 1 \in 0..(ProbeLimit - 1)
    BY <1>11 DEF NextSlot
  <2>3. QED
    BY <1>11, <2>1, <2>2 DEF NextSlot
<1>12. ASSUME NEW t \in Threads, GiveUp(t) PROVE TypeOK'
  <2>1. UINT_MAX \in 0..Unset
    BY DEF Unset
  <2>2. Settle(t, UINT_MAX)
    BY <1>12 DEF GiveUp
  <2>3. QED
    BY <1>12, <2>1, <2>2, SettleTypes DEF GiveUp
<1>13. CASE Barrier
  BY <1>13 DEF Barrier
<1>14. CASE UNCHANGED vars
  BY <1>14 DEF vars
<1>15. QED
  BY <1>1, <1>2, <1>3, <1>4, <1>5, <1>6, <1>7, <1>8, <1>9, <1>10, <1>11, <1>12,
     <1>13, <1>14 DEF Next, Step, Terminated

LEMMA ClaimStep == BaseInv /\ [Next]_vars => ClaimInv'
<1> SUFFICES ASSUME BaseInv, [Next]_vars PROVE ClaimInv'
  OBVIOUS
<1> USE DEF BaseInv, TypeOK, PCs, Goto, table, locals, output,
            ClaimInv, Working, InClaim, Claimed
<1>1. ASSUME NEW t \in Threads, FetchRow(t) PROVE ClaimInv'
  BY <1>1 DEF FetchRow
<1>2. ASSUME NEW t \in Threads, LeaveLoop(t) PROVE ClaimInv'
  BY <1>2 DEF LeaveLoop
<1>3. ASSUME NEW t \in Threads, LoadState(t) PROVE ClaimInv'
  BY <1>3 DEF LoadState, AfterRead
<1>4. ASSUME NEW t \in Threads, CasWin(t) PROVE ClaimInv'
  <2>1. row[t] \in Rows
    BY <1>4, WorkingRow DEF CasWin
  <2>2. row[t] # NoRow
    BY <2>1 DEF Rows, NoRow
  <2>3. QED
    BY <1>4, <2>2 DEF CasWin, Empty, Claiming
<1>5. ASSUME NEW t \in Threads, CasFail(t) PROVE ClaimInv'
  BY <1>5 DEF CasFail, AfterRead
<1>6. ASSUME NEW t \in Threads, WriteKey(t) PROVE ClaimInv'
  BY <1>6 DEF WriteKey
<1>7. ASSUME NEW t \in Threads, DrawId(t) PROVE ClaimInv'
  BY <1>7 DEF DrawId
<1>8. ASSUME NEW t \in Threads, Publish(t) PROVE ClaimInv'
  <2>1. gid[t] + 1 # Empty
    BY DEF Empty
  <2>2. \A u \in Threads : u # t => pc'[u] = pc[u] /\ row'[u] = row[u] /\ slot'[u] = slot[u]
    BY <1>8 DEF Publish, Settle
  <2>3. pc'[t] = "row" /\ InClaim(t)
    BY <1>8 DEF Publish, Settle
  <2>4. slotState' = [slotState EXCEPT ![slot[t]] = gid[t] + 1] /\ UNCHANGED <<claimedBy, slot>>
    BY <1>8 DEF Publish
  <2>5. Claimed(slot[t])
    BY <2>3 DEF Empty, Claiming
  <2>6. QED
    BY <2>1, <2>2, <2>3, <2>4, <2>5
<1>9. ASSUME NEW t \in Threads, SpinOut(t) PROVE ClaimInv'
  BY <1>9 DEF SpinOut
<1>10. ASSUME NEW t \in Threads, Match(t) PROVE ClaimInv'
  BY <1>10 DEF Match, Settle
<1>11. ASSUME NEW t \in Threads, NextSlot(t) PROVE ClaimInv'
  BY <1>11 DEF NextSlot
<1>12. ASSUME NEW t \in Threads, GiveUp(t) PROVE ClaimInv'
  BY <1>12 DEF GiveUp, Settle
<1>13. CASE Barrier
  BY <1>13 DEF Barrier
<1>14. CASE UNCHANGED vars
  BY <1>14 DEF vars
<1>15. QED
  BY <1>1, <1>2, <1>3, <1>4, <1>5, <1>6, <1>7, <1>8, <1>9, <1>10, <1>11, <1>12,
     <1>13, <1>14 DEF Next, Step, Terminated

LEMMA DrawnUnchanged ==
  ASSUME CountInv, UNCHANGED <<claimedBy, nextLocal>>,
         \A u \in Threads :
           /\ pc'[u] \in {"writeKey", "draw"} <=> pc[u] \in {"writeKey", "draw"}
           /\ pc[u] \in {"writeKey", "draw"} => slot'[u] = slot[u]
  PROVE  CountInv'
<1>1. DrawnSlots' = DrawnSlots
  BY DEF DrawnSlots, Claimed
<1>2. QED
  BY <1>1 DEF CountInv

LEMMA CountStep == BaseInv /\ [Next]_vars => CountInv'
<1> SUFFICES ASSUME BaseInv, [Next]_vars PROVE CountInv'
  OBVIOUS
<1> USE DEF BaseInv, TypeOK, PCs, Goto, table, locals, output
<1>1. ASSUME NEW t \in Threads, FetchRow(t) PROVE CountInv'
  BY <1>1, DrawnUnchanged DEF FetchRow
<1>2. ASSUME NEW t \in Threads, LeaveLoop(t) PROVE CountInv'
  BY <1>2, DrawnUnchanged DEF LeaveLoop
<1>3. ASSUME NEW t \in Threads, LoadState(t) PROVE CountInv'
  BY <1>3, DrawnUnchanged DEF LoadState, AfterRead
<1>4. ASSUME NEW t \in Threads, CasWin(t) PROVE CountInv'
  <2>1. ~Claimed(slot[t]) /\ slot[t] \in Slots
    BY <1>4 DEF CasWin, ClaimInv
  <2>2. \A s \in Slots \ {slot[t]} : claimedBy'[s] = claimedBy[s]
    BY <1>4 DEF CasWin
  <2>3. pc[t] = "cas" /\ pc' = [pc EXCEPT ![t] = "writeKey"] /\ slot' = slot
    BY <1>4 DEF CasWin
  <2>4. DrawnSlots' = DrawnSlots
    <3>1. \A s \in Slots \ {slot[t]} : s \in DrawnSlots' <=> s \in DrawnSlots
      BY <2>2, <2>3 DEF DrawnSlots, Claimed
    <3>2. slot[t] \notin DrawnSlots /\ slot[t] \notin DrawnSlots'
      BY <2>1, <2>3 DEF DrawnSlots
    <3>3. QED
      BY <3>1, <3>2 DEF DrawnSlots
  <2>5. QED
    BY <1>4, <2>4 DEF CasWin, CountInv
<1>5. ASSUME NEW t \in Threads, CasFail(t) PROVE CountInv'
  BY <1>5, DrawnUnchanged DEF CasFail, AfterRead
<1>6. ASSUME NEW t \in Threads, WriteKey(t) PROVE CountInv'
  BY <1>6, DrawnUnchanged DEF WriteKey
<1>7. ASSUME NEW t \in Threads, DrawId(t) PROVE CountInv'
  BY <1>7, DrawCounts
<1>8. ASSUME NEW t \in Threads, Publish(t) PROVE CountInv'
  BY <1>8, DrawnUnchanged DEF Publish, Settle
<1>9. ASSUME NEW t \in Threads, SpinOut(t) PROVE CountInv'
  BY <1>9, DrawnUnchanged DEF SpinOut
<1>10. ASSUME NEW t \in Threads, Match(t) PROVE CountInv'
  BY <1>10, DrawnUnchanged DEF Match, Settle
<1>11. ASSUME NEW t \in Threads, NextSlot(t) PROVE CountInv'
  BY <1>11, DrawnUnchanged DEF NextSlot
<1>12. ASSUME NEW t \in Threads, GiveUp(t) PROVE CountInv'
  BY <1>12, DrawnUnchanged DEF GiveUp, Settle
<1>13. CASE Barrier
  BY <1>13, DrawnUnchanged DEF Barrier
<1>14. CASE UNCHANGED vars
  BY <1>14, DrawnUnchanged DEF vars
<1>15. QED
  BY <1>1, <1>2, <1>3, <1>4, <1>5, <1>6, <1>7, <1>8, <1>9, <1>10, <1>11, <1>12,
     <1>13, <1>14 DEF Next, Step, Terminated

LEMMA BaseInvariant == Spec => []BaseInv
<1>1. Init => BaseInv
  BY ClaimInit, CountInit DEF BaseInv
<1>2. BaseInv /\ [Next]_vars => BaseInv'
  BY TypeStep, ClaimStep, CountStep DEF BaseInv
<1>3. QED
  BY <1>1, <1>2, PTL DEF Spec

\* Every variable of the kernel keeps its type; in particular no local id ever
\* reaches the two values of slot_state with a meaning of their own, because ids
\* are counted by the slots that own them.
THEOREM TypeCorrect == Spec => []TypeOK
BY BaseInvariant, PTL DEF BaseInv

-----------------------------------------------------------------------------
\* Local ids on any memory order.

\* A state a thread has read, other than the two marks, was published.
ReadInv ==
  \A t \in Threads :
    /\ state[t] \in {Empty, Claiming} \/ state[t] <= nextLocal
    /\ pc[t] = "compare" => state[t] # Claiming

IdInv == BaseInv /\ IdsUnique /\ ReadInv /\ HostIndexInRange

LEMMA IdsStep == BaseInv /\ IdsUnique /\ [Next]_vars => IdsUnique'
<1> SUFFICES ASSUME BaseInv, IdsUnique, [Next]_vars PROVE IdsUnique'
  OBVIOUS
<1>0. \A s1, s2 \in Slots :
        Published(s1) /\ Published(s2) /\ slotState[s1] = slotState[s2] => s1 = s2
  BY DEF IdsUnique
<1> USE DEF BaseInv, TypeOK, PCs, Goto, table, locals, output, IdsUnique, Published
<1>1. ASSUME NEW t \in Threads, FetchRow(t) PROVE IdsUnique'
  BY <1>1 DEF FetchRow
<1>2. ASSUME NEW t \in Threads, LeaveLoop(t) PROVE IdsUnique'
  BY <1>2 DEF LeaveLoop
<1>3. ASSUME NEW t \in Threads, LoadState(t) PROVE IdsUnique'
  BY <1>3 DEF LoadState, AfterRead
<1>4. ASSUME NEW t \in Threads, CasWin(t) PROVE IdsUnique'
  BY <1>4 DEF CasWin, Claiming
<1>5. ASSUME NEW t \in Threads, CasFail(t) PROVE IdsUnique'
  BY <1>5 DEF CasFail, AfterRead
<1>6. ASSUME NEW t \in Threads, WriteKey(t) PROVE IdsUnique'
  BY <1>6 DEF WriteKey
<1>7. ASSUME NEW t \in Threads, DrawId(t) PROVE IdsUnique'
  <2>1. nextLocal' = nextLocal + 1 /\ gid' = [gid EXCEPT ![t] = nextLocal]
        /\ slotState' = slotState
    BY <1>7 DEF DrawId
  <2>2. \A u \in Threads : pc'[u] = "publish" => u = t \/ pc[u] = "publish"
    BY <1>7 DEF DrawId
  <2>3. gid'[t] = nextLocal /\ \A u \in Threads \ {t} : gid'[u] = gid[u]
    BY <2>1
  <2>4. \A s \in Slots : Published(s) => slotState[s] # nextLocal + 1
    OBVIOUS
  <2>5. QED
    BY <2>1, <2>2, <2>3, <2>4
<1>8. ASSUME NEW t \in Threads, Publish(t) PROVE IdsUnique'
  <2>1. slotState' = [slotState EXCEPT ![slot[t]] = gid[t] + 1]
        /\ UNCHANGED <<nextLocal, gid, slot>>
    BY <1>8 DEF Publish
  <2>2. \A u \in Threads : pc'[u] = "publish" => u # t /\ pc[u] = "publish"
    BY <1>8 DEF Publish, Settle
  <2>3. pc[t] = "publish" /\ gid[t] \in 0..(nextLocal - 1)
    BY <1>8 DEF Publish
  <2>4. slotState'[slot[t]] = gid[t] + 1
        /\ \A s \in Slots \ {slot[t]} : slotState'[s] = slotState[s]
    BY <2>1
  <2>5. \A u \in Threads \ {t} : pc[u] = "publish" => gid[u] # gid[t]
    BY <2>3
  <2>6. \A s \in Slots : slotState'[s] \notin {Empty, Claiming} =>
           slotState'[s] - 1 \in 0..(nextLocal - 1)
    BY <2>3, <2>4
  <2>7. ASSUME NEW s1 \in Slots, NEW s2 \in Slots, s1 # s2,
               slotState'[s1] \notin {Empty, Claiming},
               slotState'[s2] \notin {Empty, Claiming}
        PROVE  slotState'[s1] # slotState'[s2]
    <3>1. \A s \in Slots : slotState[s] \notin {Empty, Claiming} => slotState[s] # gid[t] + 1
      BY <2>3
    <3> HIDE DEF BaseInv, TypeOK, IdsUnique
    <3>2. CASE s1 = slot[t]
      BY <2>4, <2>7, <3>1, <3>2
    <3>3. CASE s2 = slot[t]
      BY <2>4, <2>7, <3>1, <3>3
    <3>4. CASE s1 # slot[t] /\ s2 # slot[t]
      BY <1>0, <2>4, <2>7, <3>4
    <3>5. QED
      BY <3>2, <3>3, <3>4
  <2>8. \A u \in Threads : pc'[u] = "publish" =>
           /\ gid[u] \in 0..(nextLocal - 1)
           /\ \A s \in Slots : slotState'[s] \notin {Empty, Claiming} =>
                slotState'[s] # gid[u] + 1
           /\ \A w \in Threads \ {u} : pc'[w] = "publish" => gid[w] # gid[u]
    <3> SUFFICES ASSUME NEW u \in Threads, pc'[u] = "publish"
                 PROVE  /\ gid[u] \in 0..(nextLocal - 1)
                        /\ \A s \in Slots : slotState'[s] \notin {Empty, Claiming} =>
                             slotState'[s] # gid[u] + 1
                        /\ \A w \in Threads \ {u} : pc'[w] = "publish" => gid[w] # gid[u]
      OBVIOUS
    <3>1. u # t /\ pc[u] = "publish" /\ gid[u] # gid[t]
      BY <2>2, <2>5
    <3>2. \A w \in Threads \ {u} : pc'[w] = "publish" => gid[w] # gid[u]
      BY <2>2, <3>1
    <3>3. \A s \in Slots : slotState'[s] \notin {Empty, Claiming} => slotState'[s] # gid[u] + 1
      <4>1. \A s \in Slots : slotState[s] \notin {Empty, Claiming} => slotState[s] # gid[u] + 1
        BY <3>1
      <4>2. gid[t] + 1 # gid[u] + 1
        <5>1. gid[t] \in Nat /\ gid[u] \in Nat
          OBVIOUS
        <5>2. QED
          BY <5>1, <3>1
      <4> HIDE DEF BaseInv, TypeOK, IdsUnique
      <4>3. QED
        BY <2>4, <4>1, <4>2
    <3>4. QED
      BY <3>1, <3>2, <3>3
  <2>9. QED
    BY <2>1, <2>6, <2>7, <2>8
<1>9. ASSUME NEW t \in Threads, SpinOut(t) PROVE IdsUnique'
  BY <1>9 DEF SpinOut
<1>10. ASSUME NEW t \in Threads, Match(t) PROVE IdsUnique'
  BY <1>10 DEF Match, Settle
<1>11. ASSUME NEW t \in Threads, NextSlot(t) PROVE IdsUnique'
  BY <1>11 DEF NextSlot
<1>12. ASSUME NEW t \in Threads, GiveUp(t) PROVE IdsUnique'
  BY <1>12 DEF GiveUp, Settle
<1>13. CASE Barrier
  BY <1>13 DEF Barrier
<1>14. CASE UNCHANGED vars
  BY <1>14 DEF vars
<1>15. QED
  BY <1>1, <1>2, <1>3, <1>4, <1>5, <1>6, <1>7, <1>8, <1>9, <1>10, <1>11, <1>12,
     <1>13, <1>14 DEF Next, Step, Terminated

LEMMA ReadStep == BaseInv /\ IdsUnique /\ ReadInv /\ [Next]_vars => ReadInv'
<1> SUFFICES ASSUME BaseInv, IdsUnique, ReadInv, [Next]_vars PROVE ReadInv'
  OBVIOUS
<1> USE DEF BaseInv, TypeOK, PCs, Goto, table, locals, output, ReadInv
<1>0. \A s \in Slots : slotState[s] \in {Empty, Claiming} \/ slotState[s] <= nextLocal
  BY DEF IdsUnique, Published
<1>1. ASSUME NEW t \in Threads, FetchRow(t) PROVE ReadInv'
  BY <1>1 DEF FetchRow
<1>2. ASSUME NEW t \in Threads, LeaveLoop(t) PROVE ReadInv'
  BY <1>2 DEF LeaveLoop
<1>3. ASSUME NEW t \in Threads, LoadState(t) PROVE ReadInv'
  BY <1>3, <1>0 DEF LoadState, AfterRead
<1>4. ASSUME NEW t \in Threads, CasWin(t) PROVE ReadInv'
  BY <1>4 DEF CasWin
<1>5. ASSUME NEW t \in Threads, CasFail(t) PROVE ReadInv'
  BY <1>5, <1>0 DEF CasFail, AfterRead
<1>6. ASSUME NEW t \in Threads, WriteKey(t) PROVE ReadInv'
  BY <1>6 DEF WriteKey
<1>7. ASSUME NEW t \in Threads, DrawId(t) PROVE ReadInv'
  BY <1>7 DEF DrawId
<1>8. ASSUME NEW t \in Threads, Publish(t) PROVE ReadInv'
  BY <1>8 DEF Publish, Settle
<1>9. ASSUME NEW t \in Threads, SpinOut(t) PROVE ReadInv'
  BY <1>9, <1>0 DEF SpinOut
<1>10. ASSUME NEW t \in Threads, Match(t) PROVE ReadInv'
  BY <1>10 DEF Match, Settle
<1>11. ASSUME NEW t \in Threads, NextSlot(t) PROVE ReadInv'
  BY <1>11 DEF NextSlot
<1>12. ASSUME NEW t \in Threads, GiveUp(t) PROVE ReadInv'
  BY <1>12 DEF GiveUp, Settle
<1>13. CASE Barrier
  BY <1>13 DEF Barrier
<1>14. CASE UNCHANGED vars
  BY <1>14 DEF vars
<1>15. QED
  BY <1>1, <1>2, <1>3, <1>4, <1>5, <1>6, <1>7, <1>8, <1>9, <1>10, <1>11, <1>12,
     <1>13, <1>14 DEF Next, Step, Terminated

\* state - 1u wraps for an empty slot and is an ordinary predecessor otherwise.
LEMMA PredValue ==
  ASSUME NEW s \in 0..UINT_MAX
  PROVE  Pred(s) = IF s = 0 THEN UINT_MAX ELSE s - 1
BY DEF Pred

\* Settling a row with an id that exists, or flagging it, keeps every row so.
LEMMA SettleInRange ==
  ASSUME TypeOK, HostIndexInRange, NEW t \in Threads, NEW g \in 0..UINT_MAX,
         g < nextLocal \/ g = UINT_MAX, Settle(t, g), nextLocal' = nextLocal
  PROVE  HostIndexInRange'
<1>1. \A r \in Rows : rowGroup'[r] = g \/ rowGroup'[r] = rowGroup[r]
  BY DEF Settle, TypeOK
<1>2. overflow = 1 => overflow' = 1
  BY DEF Settle
<1>3. g = UINT_MAX => overflow' = 1
  BY DEF Settle
<1>4. QED
  BY <1>1, <1>2, <1>3 DEF HostIndexInRange

LEMMA RangeStep == IdInv /\ [Next]_vars => HostIndexInRange'
<1> SUFFICES ASSUME IdInv, [Next]_vars PROVE HostIndexInRange'
  OBVIOUS
<1> USE DEF IdInv, BaseInv
<1>1. ASSUME NEW t \in Threads, Publish(t) PROVE HostIndexInRange'
  <2>1. gid[t] \in 0..(nextLocal - 1) /\ nextLocal \in 0..NSlots
    BY <1>1 DEF Publish, IdsUnique, TypeOK
  <2>2. gid[t] \in 0..UINT_MAX /\ gid[t] < nextLocal
    BY <2>1
  <2>3. Settle(t, gid[t]) /\ nextLocal' = nextLocal
    BY <1>1 DEF Publish
  <2>4. QED
    BY <2>2, <2>3, SettleInRange
<1>2. ASSUME NEW t \in Threads, Match(t) PROVE HostIndexInRange'
  <2>1. state[t] \in 0..UINT_MAX /\ (state[t] = 0 \/ state[t] <= nextLocal)
    BY <1>2 DEF Match, ReadInv, TypeOK, Empty, Claiming
  <2>2. Pred(state[t]) = IF state[t] = 0 THEN UINT_MAX ELSE state[t] - 1
    BY <2>1, PredValue
  <2>3. nextLocal \in 0..NSlots
    BY DEF TypeOK
  <2>4. Pred(state[t]) \in 0..UINT_MAX
        /\ (Pred(state[t]) < nextLocal \/ Pred(state[t]) = UINT_MAX)
    BY <2>1, <2>2, <2>3
  <2>5. Settle(t, Pred(state[t])) /\ nextLocal' = nextLocal
    BY <1>2 DEF Match, table
  <2>6. QED
    BY <2>4, <2>5, SettleInRange
<1>3. ASSUME NEW t \in Threads, GiveUp(t) PROVE HostIndexInRange'
  BY <1>3, SettleInRange DEF GiveUp, table
<1>4. ASSUME NEW t \in Threads, DrawId(t) PROVE HostIndexInRange'
  <2>1. nextLocal' = nextLocal + 1 /\ UNCHANGED <<rowGroup, overflow>>
    BY <1>4 DEF DrawId, output
  <2>2. nextLocal \in Nat /\ \A r \in Rows : rowGroup[r] \in Nat
    BY DEF TypeOK, Unset
  <2>3. QED
    BY <2>1, <2>2 DEF HostIndexInRange
<1>5. ASSUME UNCHANGED <<rowGroup, overflow, nextLocal>> PROVE HostIndexInRange'
  BY <1>5 DEF HostIndexInRange
<1>6. QED
  BY <1>1, <1>2, <1>3, <1>4, <1>5
     DEF Next, Step, Terminated, FetchRow, LeaveLoop, LoadState, CasWin, CasFail,
         WriteKey, SpinOut, NextSlot, Barrier, vars, table, locals, output

LEMMA IdInvariant == Spec => []IdInv
<1>1. Init => IdsUnique /\ ReadInv /\ HostIndexInRange
  BY DEF Init, IdsUnique, Published, ReadInv, HostIndexInRange
<1>2. IdInv /\ [Next]_vars => (IdsUnique /\ ReadInv /\ HostIndexInRange)'
  BY IdsStep, ReadStep, RangeStep DEF IdInv
<1>3. QED
  BY <1>1, <1>2, BaseInvariant, PTL DEF Spec, IdInv

\* On any memory order and with a CAS that fails at will, every local id that was
\* drawn belongs to one slot or one thread.
THEOREM IdsAreUnique == Spec => []IdsUnique
BY IdInvariant, PTL DEF IdInv

\* On any memory order, the host's unchecked index offset + local id stays inside
\* first_row_per_group whenever the kernel has not raised the overflow flag.
THEOREM HostIndexIsSafe == Spec => []HostIndexInRange
BY IdInvariant, PTL DEF IdInv

-----------------------------------------------------------------------------
\* The rows, on any memory order.

\* Thread t takes the rows t, t + TgSize, ...; it has settled those before its row.
LoopInv ==
  /\ \A t \in Threads : row[t] % TgSize = t
  /\ \A r \in Rows : rowGroup[r] = Unset <=> row[r % TgSize] <= r

\* A drawn id is with the thread that drew it or with a row.
HeldId(g) ==
  \/ \E t \in Threads : pc[t] = "publish" /\ gid[t] = g
  \/ \E r \in Rows : rowGroup[r] = g

HeldInv == \A g \in 0..(nextLocal - 1) : HeldId(g)

\* A thread waits at the barrier when it has no row left; all leave it at once.
EndInv ==
  /\ \A t \in Threads : pc[t] \in {"barrier", "done"} => row[t] >= NRows
  /\ \A t \in Threads : pc[t] = "done" => Done /\ nGroups = nextLocal

RowInv == LoopInv /\ HeldInv /\ EndInv

LEMMA DivMod ==
  ASSUME NEW a \in Nat, NEW n \in Nat \ {0}
  PROVE  a = n * (a \div n) + (a % n) /\ a \div n \in Int /\ a % n \in 0..(n - 1)
OBVIOUS

LEMMA ModOfSum ==
  ASSUME NEW r \in Nat, NEW q \in Int, NEW n \in Nat \ {0}, r < n
  PROVE  (n * q + r) % n = r
OBVIOUS

\* Rows of one thread are TgSize apart.
LEMMA SameResidue ==
  ASSUME NEW a \in Nat, NEW b \in Nat, NEW n \in Nat \ {0}, a % n = b % n
  PROVE  (a + n) % n = a % n /\ (a < b => a + n <= b)
<1> DEFINE p == a \div n
           q == b \div n
           r == a % n
<1>1. a = n * p + r /\ b = n * q + r /\ p \in Int /\ q \in Int /\ r \in 0..(n - 1)
  BY DivMod
<1> HIDE DEF p, q, r
<1>2. a + n = n * (p + 1) + r
  BY <1>1
<1>3. (n * (p + 1) + r) % n = r
  BY <1>1, ModOfSum
<1>4. ASSUME a < b PROVE a + n <= b
  <2>1. p < q
    <3>1. n * p < n * q
      BY <1>1, <1>4
    <3>2. CASE q <= p
      BY <1>1, <3>1, <3>2
    <3>3. QED
      BY <1>1, <3>2
  <2>2. n * (p + 1) <= n * q
    BY <1>1, <2>1
  <2>3. QED
    BY <1>1, <1>2, <2>2
<1>5. QED
  BY <1>2, <1>3, <1>4 DEF r

\* A thread settles a row that no thread has settled.
LEMMA SettlesNew ==
  ASSUME BaseInv, LoopInv, NEW t \in Threads, Working(t)
  PROVE  row[t] \in Rows /\ rowGroup[row[t]] = Unset
<1>1. row[t] \in Rows
  BY WorkingRow
<1>2. row[t] % TgSize = t /\ row[t] \in Nat
  BY DEF LoopInv, BaseInv, TypeOK
<1>3. QED
  BY <1>1, <1>2 DEF LoopInv

LEMMA SettleLoop ==
  ASSUME BaseInv, LoopInv, NEW t \in Threads, Working(t), NEW g \in 0..UINT_MAX, Settle(t, g)
  PROVE  LoopInv'
<1>1. row[t] \in Rows /\ rowGroup[row[t]] = Unset /\ row[t] % TgSize = t /\ row[t] \in Nat
  BY SettlesNew DEF LoopInv, BaseInv, TypeOK
<1>2. \A u \in Threads : row'[u] = IF u = t THEN row[t] + TgSize ELSE row[u]
  BY DEF Settle, BaseInv, TypeOK
<1>3. \A r \in Rows : rowGroup'[r] = IF r = row[t] THEN g ELSE rowGroup[r]
  BY DEF Settle, BaseInv, TypeOK
<1>4. ASSUME NEW u \in Threads PROVE row'[u] % TgSize = u
  <2>1. (row[t] + TgSize) % TgSize = t
    BY <1>1, SameResidue
  <2>2. QED
    BY <1>2, <2>1 DEF LoopInv
<1>5. ASSUME NEW r \in Rows PROVE rowGroup'[r] = Unset <=> row'[r % TgSize] <= r
  <2>1. r \in Nat /\ r % TgSize \in Threads
    BY DivMod DEF Rows, Threads
  <2>2. CASE r % TgSize # t
    BY <1>1, <1>2, <1>3, <2>1, <2>2 DEF LoopInv
  <2>3. CASE r = row[t]
    BY <1>1, <1>2, <1>3, <2>1, <2>3 DEF Unset
  <2>4. CASE r % TgSize = t /\ r # row[t]
    <3>1. row[t] < r => row[t] + TgSize <= r
      BY <1>1, <2>1, <2>4, SameResidue
    <3>2. rowGroup[r] = Unset <=> row[t] <= r
      BY <2>1, <2>4 DEF LoopInv
    <3>3. rowGroup'[r] = rowGroup[r] /\ row'[r % TgSize] = row[t] + TgSize
      BY <1>2, <1>3, <2>1, <2>4
    <3>4. QED
      BY <1>1, <2>1, <2>4, <3>1, <3>2, <3>3
  <2>5. QED
    BY <2>2, <2>3, <2>4
<1>6. QED
  BY <1>4, <1>5 DEF LoopInv

\* Settling takes no row from an id, and gives a row to the thread's own.
LEMMA SettleHeld ==
  ASSUME BaseInv, LoopInv, HeldInv, NEW t \in Threads, Working(t), NEW g \in 0..UINT_MAX,
         Settle(t, g), pc[t] = "publish" => g = gid[t], UNCHANGED <<gid, nextLocal>>
  PROVE  HeldInv'
<1> SUFFICES ASSUME NEW i \in 0..(nextLocal - 1) PROVE HeldId(i)'
  BY DEF HeldInv
<1>1. row[t] \in Rows /\ rowGroup[row[t]] = Unset
  BY SettlesNew
<1>2. \A r \in Rows : rowGroup'[r] = IF r = row[t] THEN g ELSE rowGroup[r]
  BY DEF Settle, BaseInv, TypeOK
<1>3. \A u \in Threads \ {t} : pc'[u] = pc[u]
  BY DEF Settle, Goto, BaseInv, TypeOK
<1>4. nextLocal \in 0..NSlots
  BY DEF BaseInv, TypeOK
<1>5. ASSUME NEW r \in Rows, rowGroup[r] = i PROVE rowGroup'[r] = i
  BY <1>1, <1>2, <1>4, <1>5 DEF Unset
<1>6. ASSUME NEW u \in Threads, pc[u] = "publish", gid[u] = i PROVE HeldId(i)'
  <2>1. CASE u = t
    BY <1>1, <1>2, <1>6, <2>1 DEF HeldId
  <2>2. CASE u # t
    BY <1>3, <1>6, <2>2 DEF HeldId
  <2>3. QED
    BY <2>1, <2>2
<1>7. HeldId(i)
  BY DEF HeldInv
<1>8. QED
  BY <1>5, <1>6, <1>7 DEF HeldId

LEMMA RowStep == IdInv /\ RowInv /\ [Next]_vars => RowInv'
<1> SUFFICES ASSUME IdInv, RowInv, [Next]_vars PROVE RowInv'
  OBVIOUS
<1>0. BaseInv /\ TypeOK /\ ClaimInv /\ ReadInv /\ IdsUnique /\ LoopInv /\ HeldInv /\ EndInv
  BY DEF IdInv, BaseInv, RowInv
<1>1. ASSUME NEW t \in Threads, NEW g \in 0..UINT_MAX, Settle(t, g), Working(t),
             pc[t] = "publish" => g = gid[t], UNCHANGED <<gid, nextLocal>>
      PROVE  RowInv'
  <2>1. LoopInv' /\ HeldInv'
    BY <1>0, <1>1, SettleLoop, SettleHeld
  <2>2. EndInv'
    BY <1>0, <1>1 DEF EndInv, Done, Settle, Goto, Working, PCs, TypeOK
  <2>3. QED
    BY <2>1, <2>2 DEF RowInv
<1>2. ASSUME NEW t \in Threads, Publish(t) PROVE RowInv'
  <2>1. gid[t] \in 0..UINT_MAX /\ Working(t)
    BY <1>0, <1>2 DEF Publish, IdsUnique, TypeOK, Working, PCs
  <2>2. QED
    BY <1>1, <1>2, <2>1 DEF Publish
<1>3. ASSUME NEW t \in Threads, Match(t) PROVE RowInv'
  <2>1. state[t] \in 0..UINT_MAX /\ Working(t)
    BY <1>0, <1>3 DEF Match, TypeOK, Working, PCs
  <2>2. Pred(state[t]) \in 0..UINT_MAX
    BY <2>1, PredValue
  <2>3. QED
    BY <1>1, <1>3, <2>1, <2>2 DEF Match, table
<1>4. ASSUME NEW t \in Threads, GiveUp(t) PROVE RowInv'
  <2>1. Working(t) /\ UINT_MAX \in 0..UINT_MAX
    BY <1>4 DEF GiveUp, Working, PCs
  <2>2. QED
    BY <1>1, <1>4, <2>1 DEF GiveUp, table
<1>5. ASSUME NEW t \in Threads, DrawId(t) PROVE RowInv'
  <2>1. LoopInv'
    BY <1>0, <1>5 DEF DrawId, LoopInv, output
  <2>2. HeldInv'
    <3> SUFFICES ASSUME NEW g \in 0..(nextLocal' - 1) PROVE HeldId(g)'
      BY DEF HeldInv
    <3>1. nextLocal' = nextLocal + 1 /\ nextLocal \in Nat /\ rowGroup' = rowGroup
          /\ gid' = [gid EXCEPT ![t] = nextLocal] /\ pc' = [pc EXCEPT ![t] = "publish"]
      BY <1>0, <1>5 DEF DrawId, TypeOK, Goto, output
    <3>2. CASE g = nextLocal
      BY <1>0, <3>1, <3>2 DEF HeldId, TypeOK
    <3>3. CASE g # nextLocal
      <4>1. HeldId(g)
        BY <1>0, <3>1, <3>3 DEF HeldInv
      <4>2. \A u \in Threads : pc[u] = "publish" => u # t /\ pc'[u] = pc[u] /\ gid'[u] = gid[u]
        BY <1>0, <1>5, <3>1 DEF TypeOK, DrawId
      <4>3. QED
        BY <3>1, <4>1, <4>2 DEF HeldId
    <3>4. QED
      BY <3>2, <3>3
  <2>3. EndInv'
    BY <1>0, <1>5 DEF DrawId, EndInv, Done, Goto, TypeOK, output
  <2>4. QED
    BY <2>1, <2>2, <2>3 DEF RowInv
<1>6. ASSUME NEW t \in Threads, pc[t] \notin {"publish", "done"}, pc'[t] \notin {"publish", "done"},
             pc' = [pc EXCEPT ![t] = pc'[t]], pc'[t] = "barrier" => row[t] >= NRows,
             pc[t] = "barrier" => pc'[t] = "barrier",
             UNCHANGED <<row, rowGroup, gid, nextLocal, nGroups>>
      PROVE  RowInv'
  <2>1. LoopInv'
    BY <1>0, <1>6 DEF LoopInv
  <2>2. \A u \in Threads : (pc'[u] = "publish") <=> (pc[u] = "publish")
    BY <1>0, <1>6 DEF TypeOK
  <2>3. HeldInv'
    BY <1>0, <1>6, <2>2 DEF HeldInv, HeldId
  <2>4. EndInv'
    BY <1>0, <1>6 DEF EndInv, Done, TypeOK
  <2>5. QED
    BY <2>1, <2>3, <2>4 DEF RowInv
<1>7. ASSUME NEW t \in Threads, FetchRow(t) \/ LeaveLoop(t) \/ LoadState(t) \/ CasWin(t)
               \/ CasFail(t) \/ WriteKey(t) \/ SpinOut(t) \/ NextSlot(t)
      PROVE  RowInv'
  BY <1>0, <1>6, <1>7
     DEF FetchRow, LeaveLoop, LoadState, CasWin, CasFail, WriteKey, SpinOut, NextSlot,
         AfterRead, Goto, TypeOK, table, output
<1>8. CASE Barrier
  <2>1. LoopInv' /\ HeldInv'
    BY <1>0, <1>8 DEF Barrier, LoopInv, HeldInv, HeldId, table
  <2>2. EndInv'
    BY <1>0, <1>8 DEF Barrier, EndInv, Done, table
  <2>3. QED
    BY <2>1, <2>2 DEF RowInv
<1>9. CASE UNCHANGED vars
  BY <1>0, <1>9 DEF vars, table, locals, output, RowInv, LoopInv, HeldInv, HeldId, EndInv, Done
<1>10. QED
  BY <1>2, <1>3, <1>4, <1>5, <1>7, <1>8, <1>9 DEF Next, Step, Terminated

LEMMA RowInit == Init => RowInv
<1> SUFFICES ASSUME Init PROVE RowInv
  OBVIOUS
<1>1. \A t \in Threads : t \in Nat /\ t % TgSize = t
  BY DEF Threads
<1>2. ASSUME NEW r \in Rows PROVE r % TgSize \in Threads /\ r % TgSize <= r
  <2>1. r \in Nat
    BY DEF Rows
  <2> DEFINE q == r \div TgSize
             m == r % TgSize
  <2>2. r = TgSize * q + m /\ q \in Int /\ m \in 0..(TgSize - 1)
    BY <2>1, DivMod
  <2> HIDE DEF q, m
  <2>3. q >= 0
    <3>1. CASE q <= -1
      <4>1. TgSize * q <= 0 - TgSize
        BY <2>2, <3>1
      <4>2. QED
        BY <2>1, <2>2, <4>1
    <3>2. QED
      BY <2>2, <3>1
  <2>4. TgSize * q >= 0
    BY <2>2, <2>3
  <2>5. m <= r
    BY <2>1, <2>2, <2>4
  <2>6. QED
    BY <2>2, <2>5 DEF m, Threads
<1>3. LoopInv
  BY <1>1, <1>2 DEF Init, LoopInv
<1>4. HeldInv /\ EndInv
  BY DEF Init, HeldInv, EndInv
<1>5. QED
  BY <1>3, <1>4 DEF RowInv

LEMMA RowInvariant == Spec => [](IdInv /\ RowInv)
<1>1. Spec => []IdInv
  BY IdInvariant
<1>2. QED
  BY <1>1, RowInit, RowStep, PTL DEF Spec

\* What the kernel leaves: every row settled, every reported id in use.
LEMMA AllSettled ==
  ASSUME IdInv, RowInv, Done
  PROVE  /\ nGroups = nextLocal
         /\ \A r \in Rows : rowGroup[r] # Unset
         /\ \A g \in 0..(nGroups - 1) : \E r \in Rows : rowGroup[r] = g
<1>0. TypeOK /\ 0 \in Threads
  BY DEF IdInv, BaseInv, Threads
<1>1. nGroups = nextLocal
  BY <1>0 DEF RowInv, EndInv, Done
<1>2. ASSUME NEW r \in Rows PROVE rowGroup[r] # Unset
  <2>1. r \in Nat /\ r < NRows /\ r % TgSize \in Threads
    BY DivMod DEF Rows, Threads
  <2>2. row[r % TgSize] >= NRows /\ row[r % TgSize] \in Nat
    BY <1>0, <2>1 DEF RowInv, EndInv, Done, TypeOK
  <2>3. QED
    BY <2>1, <2>2 DEF RowInv, LoopInv
<1>3. ASSUME NEW g \in 0..(nextLocal - 1) PROVE \E r \in Rows : rowGroup[r] = g
  BY DEF RowInv, HeldInv, HeldId, Done
<1>4. QED
  BY <1>1, <1>2, <1>3

\* On any memory order and with a CAS that fails at will: when the kernel returns, every id
\* below n_groups_per_part has a row, so no first_row_per_group keeps its placeholder.
THEOREM GroupsHaveRows == Spec => []NoGroupWithoutRow
<1>1. IdInv /\ RowInv => NoGroupWithoutRow
  BY AllSettled DEF NoGroupWithoutRow
<1>2. QED
  BY <1>1, RowInvariant, PTL

-----------------------------------------------------------------------------
(***************************************************************************)
(* The slots and their keys, on any memory order.                          *)
(***************************************************************************)

\* What the threads see of slots, on any memory order.
SeenInv ==
  /\ \A s \in Slots : Published(s) => slotKey[s] = OwnerKey(s)
  /\ \A t \in Threads :
       /\ pc[t] \in {"draw", "publish"} => slotKey[slot[t]] = KeyOf(t)
       /\ pc[t] = "spin" => Claimed(slot[t])
       /\ pc[t] = "compare" /\ state[t] # Empty =>
            Published(slot[t]) /\ state[t] = slotState[slot[t]]

\* What a row in the group of slot s may have for a key.
Takes(r, s) == keys[r] \in {OwnerKey(s)} \cup Misreadings(OwnerKey(s))

\* Every row with an id has that of a slot whose key it took for its own.
OwnedInv ==
  \A r \in Rows : rowGroup[r] < UINT_MAX =>
    \E s \in Slots : Published(s) /\ slotState[s] = rowGroup[r] + 1 /\ Takes(r, s)

\* The first n slots of k's probe sequence belong to other keys.
Passed(k, n) ==
  \A j \in 0..(n - 1) :
    Claimed(ProbeSlot(k, j)) /\ OwnerKey(ProbeSlot(k, j)) # k

LEMMA ModSuccessor ==
  ASSUME NEW a \in Nat, NEW n \in Nat \ {0}
  PROVE  ((a % n) + 1) % n = (a + 1) % n
<1> DEFINE q == a \div n
           r == a % n
<1>1. a = n * q + r /\ q \in Int /\ r \in 0..(n - 1)
  BY DivMod
<1> HIDE DEF q, r
<1>2. CASE r + 1 < n
  <2>1. a + 1 = n * q + (r + 1) /\ r + 1 = n * 0 + (r + 1) /\ r + 1 \in Nat
    BY <1>1
  <2>2. (n * q + (r + 1)) % n = r + 1
    BY <1>1, <1>2, <2>1, ModOfSum
  <2>3. (n * 0 + (r + 1)) % n = r + 1
    BY <1>2, <2>1, ModOfSum
  <2>4. (a + 1) % n = (r + 1) % n
    BY <2>1, <2>2, <2>3
  <2>5. QED
    BY <2>4 DEF r
<1>3. CASE r + 1 = n
  <2>1. a + 1 = n * (q + 1) + 0 /\ r + 1 = n * 1 + 0 /\ q + 1 \in Int
    BY <1>1, <1>3
  <2>2. (n * (q + 1) + 0) % n = 0
    BY <2>1, ModOfSum
  <2>3. (n * 1 + 0) % n = 0
    BY ModOfSum
  <2>4. (a + 1) % n = (r + 1) % n
    BY <2>1, <2>2, <2>3
  <2>5. QED
    BY <2>4 DEF r
<1>4. QED
  BY <1>1, <1>2, <1>3

\* The slot after the j-th slot of a key's probe sequence is the (j+1)-th.
LEMMA ProbeNext ==
  ASSUME NEW k \in Keys, NEW j \in Nat
  PROVE  /\ ProbeSlot(k, j) \in Slots
         /\ (ProbeSlot(k, j) + 1) % NSlots = ProbeSlot(k, j + 1)
         /\ ProbeSlot(k, 0) = Hash[k]
<1>1. Hash[k] \in 0..(NSlots - 1) /\ NSlots \in Nat \ {0}
  OBVIOUS
<1>2. Hash[k] + j \in Nat
  BY <1>1
<1>3. (Hash[k] + j) % NSlots \in 0..(NSlots - 1)
  BY <1>1, <1>2, ModRange
<1>4. (((Hash[k] + j) % NSlots) + 1) % NSlots = (Hash[k] + j + 1) % NSlots
  BY <1>1, <1>2, ModSuccessor
<1>5. Hash[k] + 0 = NSlots * 0 + Hash[k] /\ (NSlots * 0 + Hash[k]) % NSlots = Hash[k]
  BY <1>1, ModOfSum
<1>6. Hash[k] + j + 1 = Hash[k] + (j + 1)
  BY <1>1
<1>7. QED
  BY <1>3, <1>4, <1>5, <1>6 DEF ProbeSlot, Slots

\* Claims and published slots are never taken back.
Stable ==
  /\ keys' = keys
  /\ \A s \in Slots : Claimed(s) => claimedBy'[s] = claimedBy[s]
  /\ \A s \in Slots : Published(s) =>
       slotState'[s] = slotState[s] /\ slotKey'[s] = slotKey[s]

LEMMA StableStep == BaseInv /\ [Next]_vars => Stable
<1> SUFFICES ASSUME BaseInv, [Next]_vars PROVE Stable
  OBVIOUS
<1> USE DEF Stable, BaseInv, Claimed, Published
<1>1. ASSUME NEW t \in Threads, CasWin(t) PROVE Stable
  BY <1>1 DEF CasWin, ClaimInv, TypeOK
<1>2. ASSUME NEW t \in Threads, WriteKey(t) PROVE Stable
  BY <1>2 DEF WriteKey, ClaimInv, InClaim, TypeOK
<1>3. ASSUME NEW t \in Threads, Publish(t) PROVE Stable
  BY <1>3 DEF Publish, ClaimInv, InClaim, TypeOK
<1>4. ASSUME UNCHANGED <<keys, claimedBy, slotState, slotKey>> PROVE Stable
  BY <1>4
<1>5. QED
  BY <1>1, <1>2, <1>3, <1>4
     DEF Next, Step, Terminated, FetchRow, LeaveLoop, LoadState, CasFail, DrawId,
         SpinOut, Match, NextSlot, GiveUp, Barrier, vars, table, locals, output

\* What was claimed, owned, published or passed stays so.
LEMMA StableFacts ==
  ASSUME BaseInv, Stable
  PROVE  /\ \A s \in Slots : Claimed(s) => Claimed(s)' /\ OwnerKey(s)' = OwnerKey(s)
         /\ \A s \in Slots : Published(s) => Published(s)'
         /\ \A k \in Keys, n \in Nat : Passed(k, n) => Passed(k, n)'
<1>1. \A s \in Slots : Claimed(s) => Claimed(s)' /\ OwnerKey(s)' = OwnerKey(s)
  BY DEF Stable, Claimed, OwnerKey
<1>2. \A s \in Slots : Published(s) => Published(s)'
  BY DEF Stable, Published
<1>3. ASSUME NEW k \in Keys, NEW n \in Nat, Passed(k, n) PROVE Passed(k, n)'
  <2> SUFFICES ASSUME NEW j \in 0..(n - 1)
               PROVE  Claimed(ProbeSlot(k, j))' /\ OwnerKey(ProbeSlot(k, j))' # k
    BY DEF Passed
  <2>1. ProbeSlot(k, j) \in Slots
    BY ProbeNext
  <2>2. QED
    BY <1>1, <1>3, <2>1 DEF Passed
<1>4. QED
  BY <1>1, <1>2, <1>3

LEMMA SeenStep ==
  ASSUME IdInv, SeenInv, [Next]_vars
  PROVE  SeenInv'
<1>0. BaseInv /\ ClaimInv /\ TypeOK /\ SeenInv /\ IdsUnique /\ Stable
  BY StableStep DEF IdInv, BaseInv
<1>1. ASSUME NEW s \in Slots, Published(s)' PROVE slotKey'[s] = OwnerKey(s)'
  <2>1. CASE Published(s)
    <3>1. Claimed(s)
      BY <1>0, <2>1 DEF ClaimInv, Published
    <3>2. QED
      BY <1>0, <2>1, <3>1, StableFacts DEF Stable, SeenInv
  <2>2. CASE ~Published(s)
    <3>1. PICK t \in Threads : Publish(t)
      BY <1>0, <1>1, <2>2 DEF Published, Next, Step, Terminated, FetchRow, LeaveLoop, LoadState,
         CasWin, CasFail, WriteKey, DrawId, SpinOut, Match, NextSlot, GiveUp, Barrier,
         TypeOK, vars, table, locals, output
    <3>2. s = slot[t]
      BY <1>0, <1>1, <2>2, <3>1 DEF Published, Publish, TypeOK
    <3>3. slotKey[s] = KeyOf(t) /\ claimedBy[s] = row[t]
      BY <1>0, <3>1, <3>2 DEF Publish, SeenInv, ClaimInv, InClaim
    <3>4. QED
      BY <3>1, <3>3 DEF Publish, OwnerKey, KeyOf
  <2>3. QED
    BY <2>1, <2>2
<1>2. ASSUME NEW u \in Threads, pc'[u] \in {"draw", "publish"}
      PROVE  slotKey'[slot'[u]] = KeyOf(u)'
  <2>1. CASE WriteKey(u)
    BY <1>0, <2>1 DEF WriteKey, TypeOK, KeyOf
  <2>2. CASE ~WriteKey(u)
    <3>1. pc[u] \in {"draw", "publish"} /\ slot'[u] = slot[u] /\ row'[u] = row[u]
      BY <1>0, <1>2, <2>2 DEF Next, Step, Terminated, FetchRow, LeaveLoop, LoadState, CasWin,
         CasFail, WriteKey, DrawId, Publish, SpinOut, Match, NextSlot, GiveUp, Barrier,
         AfterRead, Settle, Goto, TypeOK, vars, locals
    <3>2. slotKey[slot[u]] = KeyOf(u) /\ KeyOf(u)' = KeyOf(u)
      BY <1>0, <3>1 DEF SeenInv, KeyOf, Stable
    <3>3. slotKey'[slot[u]] = slotKey[slot[u]]
      <4>1. CASE slotKey' = slotKey
        BY <4>1
      <4>2. CASE slotKey' # slotKey
        <5>1. PICK t \in Threads : WriteKey(t)
          BY <4>2 DEF Next, Step, Terminated, FetchRow, LeaveLoop, LoadState, CasWin,
             CasFail, DrawId, Publish, SpinOut, Match, NextSlot, GiveUp, Barrier,
             vars, table, locals, output
        <5>2. t # u /\ InClaim(t) /\ InClaim(u)
          BY <2>2, <3>1, <5>1 DEF WriteKey, InClaim
        <5>3. slot[t] # slot[u] /\ slot[u] \in Slots
          BY <1>0, <5>2 DEF ClaimInv, TypeOK
        <5>4. QED
          BY <1>0, <5>1, <5>3 DEF WriteKey, TypeOK
      <4>3. QED
        BY <4>1, <4>2
    <3>4. QED
      BY <3>1, <3>2, <3>3
  <2>3. QED
    BY <2>1, <2>2
<1>3. ASSUME NEW u \in Threads, pc'[u] = "spin" PROVE Claimed(slot[u])' /\ slot'[u] = slot[u]
  <2>1. slot'[u] = slot[u] /\ Claimed(slot[u])
    BY <1>0, <1>3 DEF Next, Step, Terminated, FetchRow, LeaveLoop, LoadState, CasWin,
       CasFail, WriteKey, DrawId, Publish, SpinOut, Match, NextSlot, GiveUp, Barrier,
       AfterRead, Settle, Goto, TypeOK, vars, locals, SeenInv, ClaimInv, Empty, Claiming
  <2>2. QED
    BY <1>0, <2>1 DEF Stable, Claimed, TypeOK
<1>4. ASSUME NEW u \in Threads, pc'[u] = "compare", state'[u] # Empty
      PROVE  Published(slot[u])' /\ state'[u] = slotState'[slot'[u]]
  <2>1. slot'[u] = slot[u] /\ slot[u] \in Slots
    BY <1>0, <1>4 DEF Next, Step, Terminated, FetchRow, LeaveLoop, LoadState, CasWin,
       CasFail, WriteKey, DrawId, Publish, SpinOut, Match, NextSlot, GiveUp, Barrier,
       AfterRead, Settle, Goto, TypeOK, vars, locals
  <2>2. Published(slot[u]) /\ state'[u] = slotState[slot[u]]
    <3>1. CASE pc[u] = "compare"
      <4>1. state'[u] = state[u]
        BY <1>0, <1>4, <3>1 DEF Next, Step, Terminated, FetchRow, LeaveLoop, LoadState, CasWin,
           CasFail, WriteKey, DrawId, Publish, SpinOut, Match, NextSlot, GiveUp, Barrier,
           AfterRead, Settle, Goto, TypeOK, vars, locals
      <4>2. QED
        BY <1>0, <1>4, <3>1, <4>1 DEF SeenInv
    <3>2. CASE pc[u] # "compare"
      <4>1. LoadState(u) \/ CasFail(u) \/ SpinOut(u)
        BY <1>0, <1>4, <3>2 DEF Next, Step, Terminated, FetchRow, LeaveLoop, CasWin, LoadState,
           CasFail, SpinOut, WriteKey, DrawId, Publish, Match, NextSlot, GiveUp, Barrier,
           AfterRead, Settle, Goto, TypeOK, vars, locals
      <4>2. CASE LoadState(u)
        BY <1>0, <1>4, <4>2 DEF LoadState, AfterRead, Goto, TypeOK, Published
      <4>3. CASE CasFail(u)
        BY <1>0, <1>4, <4>3 DEF CasFail, AfterRead, Goto, TypeOK, Published
      <4>4. CASE SpinOut(u)
        BY <1>0, <1>4, <4>4 DEF SpinOut, Goto, TypeOK, Published, SeenInv, ClaimInv
      <4>5. QED
        BY <4>1, <4>2, <4>3, <4>4
    <3>3. QED
      BY <3>1, <3>2
  <2>3. QED
    BY <1>0, <2>1, <2>2, StableFacts DEF Stable, Published
<1>5. QED
  BY <1>1, <1>2, <1>3, <1>4 DEF SeenInv, Claimed, Published

LEMMA OwnedStep ==
  ASSUME IdInv, SeenInv, OwnedInv, [Next]_vars
  PROVE  OwnedInv'
<1>0. BaseInv /\ TypeOK /\ ClaimInv /\ IdsUnique /\ ReadInv /\ Stable
  BY StableStep DEF IdInv, BaseInv
<1> SUFFICES ASSUME NEW r \in Rows, rowGroup'[r] < UINT_MAX
             PROVE  \E s \in Slots : /\ Published(s)' /\ slotState'[s] = rowGroup'[r] + 1
                                     /\ Takes(r, s)'
  BY DEF OwnedInv
<1>1. keys' = keys
  BY <1>0 DEF Stable
<1>2. CASE rowGroup'[r] = rowGroup[r]
  <2>1. PICK s \in Slots : Published(s) /\ slotState[s] = rowGroup[r] + 1 /\ Takes(r, s)
    BY <1>2 DEF OwnedInv
  <2>2. Claimed(s)
    BY <1>0, <2>1 DEF ClaimInv, Published
  <2>3. Published(s)' /\ slotState'[s] = slotState[s] /\ OwnerKey(s)' = OwnerKey(s)
    BY <1>0, <2>1, <2>2, StableFacts DEF Stable
  <2>4. QED
    BY <1>1, <1>2, <2>1, <2>3 DEF Takes
<1>3. ASSUME NEW t \in Threads, Publish(t), rowGroup'[r] # rowGroup[r]
      PROVE  \E s \in Slots : /\ Published(s)' /\ slotState'[s] = rowGroup'[r] + 1
                              /\ Takes(r, s)'
  <2>1. row[t] = r /\ rowGroup'[r] = gid[t]
    BY <1>0, <1>3 DEF Publish, Settle, TypeOK
  <2>2. gid[t] \in 0..(nextLocal - 1) /\ nextLocal \in 0..NSlots
    BY <1>0, <1>3 DEF Publish, IdsUnique, TypeOK
  <2>3. slot[t] \in Slots /\ slotState'[slot[t]] = gid[t] + 1 /\ claimedBy'[slot[t]] = row[t]
    BY <1>0, <1>3 DEF Publish, TypeOK, ClaimInv, InClaim
  <2>4. gid[t] + 1 \notin {Empty, Claiming}
    BY <2>2 DEF Empty, Claiming
  <2>5. QED
    BY <1>1, <2>1, <2>3, <2>4 DEF Takes, Published, OwnerKey
<1>4. ASSUME NEW t \in Threads, Match(t), rowGroup'[r] # rowGroup[r]
      PROVE  \E s \in Slots : /\ Published(s)' /\ slotState'[s] = rowGroup'[r] + 1
                              /\ Takes(r, s)'
  <2>1. row[t] = r /\ rowGroup'[r] = Pred(state[t]) /\ pc[t] = "compare"
    BY <1>0, <1>4 DEF Match, Settle, TypeOK
  <2>2. slot[t] \in Slots /\ state[t] \in 0..UINT_MAX /\ state[t] # Claiming
    BY <1>0, <2>1 DEF TypeOK, ReadInv
  <2>3. state[t] # 0 /\ rowGroup'[r] + 1 = state[t]
    BY <2>1, <2>2, PredValue
  <2>4. Published(slot[t]) /\ state[t] = slotState[slot[t]] /\ slotKey[slot[t]] = OwnerKey(slot[t])
    BY <2>1, <2>2, <2>3 DEF SeenInv, Empty
  <2>5. keys[r] \in ReadableKeys(t, slot[t])
    BY <1>4, <2>1 DEF Match, KeyOf
  <2>6. Takes(r, slot[t])
    BY <2>4, <2>5 DEF ReadableKeys, Takes
  <2>7. UNCHANGED <<slotState, claimedBy>>
    BY <1>4 DEF Match, table
  <2>8. QED
    BY <1>1, <2>2, <2>3, <2>4, <2>6, <2>7 DEF Takes, Published, OwnerKey
<1>5. ASSUME NEW t \in Threads, GiveUp(t), rowGroup'[r] # rowGroup[r] PROVE FALSE
  <2>1. rowGroup'[r] = UINT_MAX
    BY <1>0, <1>5 DEF GiveUp, Settle, TypeOK
  <2>2. QED
    BY <2>1
<1>6. ASSUME rowGroup'[r] # rowGroup[r]
      PROVE  \E t \in Threads : Publish(t) \/ Match(t) \/ GiveUp(t)
  BY <1>6 DEF Next, Step, Terminated, FetchRow, LeaveLoop, LoadState, CasWin,
     CasFail, WriteKey, DrawId, SpinOut, NextSlot, Barrier, vars, output
<1>7. QED
  BY <1>2, <1>3, <1>4, <1>5, <1>6

LEMMA SlotInvariant == Spec => [](IdInv /\ SeenInv /\ OwnedInv)
<1>1. Init => SeenInv /\ OwnedInv
  BY DEF Init, SeenInv, OwnedInv, Published, Unset, Empty, Claiming
<1>2. IdInv /\ SeenInv /\ OwnedInv /\ [Next]_vars => (SeenInv /\ OwnedInv)'
  BY SeenStep, OwnedStep
<1>3. QED
  BY <1>1, <1>2, IdInvariant, PTL DEF Spec

\* On any memory order and with a CAS that fails at will, a group has rows of one key, and of
\* words that can be read of this key while it is stored; with ordered stores of one key only.
THEOREM KeysMergeOnlyTorn == Spec => []NoKeysMergedUnlessTorn
<1>1. IdInv /\ SeenInv /\ OwnedInv /\ RowInv => NoKeysMergedUnlessTorn
  <2> SUFFICES ASSUME IdInv, OwnedInv, RowInv, NEW g \in 0..(nextLocal - 1)
               PROVE  \E o \in Rows : \A r \in Rows :
                        rowGroup[r] = g => keys[r] \in {keys[o]} \cup Misreadings(keys[o])
    BY DEF NoKeysMergedUnlessTorn
  <2>0. TypeOK /\ ClaimInv /\ IdsUnique /\ BaseInv
    BY DEF IdInv, BaseInv
  <2>1. g \in Nat /\ g < UINT_MAX
    BY <2>0 DEF TypeOK
  <2>2. CASE \E q \in Rows : rowGroup[q] = g
    <3>1. PICK s \in Slots : Published(s) /\ slotState[s] = g + 1
      BY <2>1, <2>2 DEF OwnedInv
    <3>2. claimedBy[s] \in Rows
      BY <2>0, <3>1 DEF ClaimInv, Claimed, Published, TypeOK
    <3>3. ASSUME NEW r \in Rows, rowGroup[r] = g PROVE Takes(r, s)
      <4>1. PICK v \in Slots : Published(v) /\ slotState[v] = g + 1 /\ Takes(r, v)
        BY <2>1, <3>3 DEF OwnedInv
      <4>2. v = s
        BY <2>0, <3>1, <4>1 DEF IdsUnique
      <4>3. QED
        BY <4>1, <4>2
    <3>4. QED
      BY <3>2, <3>3 DEF Takes, OwnerKey
  <2>3. CASE ~\E q \in Rows : rowGroup[q] = g
    <3>1. PICK t \in Threads : pc[t] = "publish"
      BY <2>3 DEF RowInv, HeldInv, HeldId
    <3>2. row[t] \in Rows
      BY <2>0, <3>1, WorkingRow DEF Working, PCs
    <3>3. QED
      BY <2>3, <3>2
  <2>4. QED
    BY <2>2, <2>3
<1>2. QED
  BY <1>1, SlotInvariant, RowInvariant, PTL

-----------------------------------------------------------------------------
(***************************************************************************)
(* The find-or-insert loop never inserts a key twice, as long as no thread *)
(* is misled.                                                              *)
(***************************************************************************)
Probing(t) == pc[t] \in {"probe", "cas", "spin", "compare"}

ProbeInv ==
  \A t \in Threads : Probing(t) =>
    /\ slot[t] = ProbeSlot(KeyOf(t), probe[t])
    /\ Passed(KeyOf(t), probe[t])

\* Every claimed slot was reached past slots of other keys.
ReachInv ==
  \A s \in Slots : Claimed(s) =>
    \E d \in 0..(ProbeLimit - 1) :
      s = ProbeSlot(OwnerKey(s), d) /\ Passed(OwnerKey(s), d)

\* Every settled row points to its key's slot, or has no slot to go to.
SettledInv ==
  \A r \in Rows :
    /\ rowGroup[r] < UINT_MAX =>
         \E s \in Slots : /\ Published(s) /\ slotState[s] = rowGroup[r] + 1
                          /\ OwnerKey(s) = keys[r]
    /\ rowGroup[r] = UINT_MAX => Passed(keys[r], ProbeLimit)

\* Nobody compares with a slot that was reported empty.
AwakeInv == \A t \in Threads : pc[t] = "compare" => state[t] # Empty

ExactInv == ProbeInv /\ ReachInv /\ SettledInv /\ AwakeInv

KeyInv == IdInv /\ SeenInv /\ ExactInv

\* A key's slots are found at distances of its probe sequence; were there two,
\* the nearer one would have stopped the claim of the farther.
LEMMA ReachUnique == TypeOK /\ ReachInv => NoKeyTwice
<1> SUFFICES ASSUME TypeOK, ReachInv, NEW s1 \in Slots, NEW s2 \in Slots,
                    Claimed(s1), Claimed(s2), OwnerKey(s1) = OwnerKey(s2)
             PROVE  s1 = s2
  BY DEF NoKeyTwice
<1>1. PICK d1 \in 0..(ProbeLimit - 1) :
        s1 = ProbeSlot(OwnerKey(s1), d1) /\ Passed(OwnerKey(s1), d1)
  BY DEF ReachInv
<1>2. PICK d2 \in 0..(ProbeLimit - 1) :
        s2 = ProbeSlot(OwnerKey(s1), d2) /\ Passed(OwnerKey(s1), d2)
  BY DEF ReachInv
<1>3. ~(d1 < d2)
  <2> SUFFICES ASSUME d1 < d2 PROVE FALSE
    OBVIOUS
  <2>1. d1 \in 0..(d2 - 1)
    OBVIOUS
  <2>2. QED
    BY <1>1, <1>2, <2>1 DEF Passed
<1>4. ~(d2 < d1)
  <2> SUFFICES ASSUME d2 < d1 PROVE FALSE
    OBVIOUS
  <2>1. d2 \in 0..(d1 - 1)
    OBVIOUS
  <2>2. QED
    BY <1>1, <1>2, <2>1 DEF Passed
<1>5. d1 = d2
  BY <1>3, <1>4
<1>6. QED
  BY <1>1, <1>2, <1>5

-----------------------------------------------------------------------------
LEMMA ProbingRow ==
  ASSUME BaseInv, NEW t \in Threads, Probing(t) \/ InClaim(t)
  PROVE  row[t] \in Rows /\ KeyOf(t) \in Keys /\ probe[t] \in 0..(ProbeLimit - 1)
<1>1. Working(t)
  BY DEF Probing, InClaim, Working, PCs
<1>2. QED
  BY <1>1, WorkingRow DEF BaseInv, TypeOK

\* A comparison is with the owner's key.
LEMMA CompareReads ==
  ASSUME KeyInv, NEW t \in Threads, pc[t] = "compare"
  PROVE  /\ Claimed(slot[t]) /\ Published(slot[t]) /\ state[t] = slotState[slot[t]]
         /\ slotKey[slot[t]] = OwnerKey(slot[t])
<1>1. slot[t] \in Slots /\ Published(slot[t]) /\ state[t] = slotState[slot[t]]
  BY DEF KeyInv, IdInv, BaseInv, TypeOK, SeenInv, ExactInv, AwakeInv
<1>2. Claimed(slot[t])
  BY <1>1 DEF KeyInv, IdInv, BaseInv, ClaimInv, Published
<1>3. slotKey[slot[t]] = OwnerKey(slot[t])
  BY <1>1 DEF KeyInv, SeenInv
<1>4. QED
  BY <1>1, <1>2, <1>3

\* After a mismatch one more slot is known to belong to another key.
LEMMA CompareMiss ==
  ASSUME KeyInv, NEW t \in Threads, pc[t] = "compare", slotKey[slot[t]] # KeyOf(t)
  PROVE  Passed(KeyOf(t), probe[t] + 1)
<1>1. Claimed(slot[t]) /\ OwnerKey(slot[t]) # KeyOf(t)
  BY CompareReads
<1>2. Probing(t) /\ BaseInv /\ ProbeInv
  BY DEF Probing, KeyInv, IdInv, ExactInv
<1>3. probe[t] \in 0..(ProbeLimit - 1)
  BY <1>2, ProbingRow
<1>4. slot[t] = ProbeSlot(KeyOf(t), probe[t]) /\ Passed(KeyOf(t), probe[t])
  BY <1>2 DEF ProbeInv
<1>5. ASSUME NEW j \in 0..((probe[t] + 1) - 1)
      PROVE  Claimed(ProbeSlot(KeyOf(t), j)) /\ OwnerKey(ProbeSlot(KeyOf(t), j)) # KeyOf(t)
  <2>1. j = probe[t] \/ j \in 0..(probe[t] - 1)
    BY <1>3, <1>5
  <2>2. QED
    BY <1>1, <1>4, <2>1 DEF Passed
<1>6. QED
  BY <1>5 DEF Passed

\* A thread whose row, slot and probe count stay keeps its part of ProbeInv.
LEMMA ProbeKept ==
  ASSUME BaseInv, ProbeInv, Stable, NEW u \in Threads, Probing(u),
         row'[u] = row[u], slot'[u] = slot[u], probe'[u] = probe[u]
  PROVE  slot'[u] = ProbeSlot(KeyOf(u)', probe'[u]) /\ Passed(KeyOf(u), probe[u])'
<1>1. KeyOf(u)' = KeyOf(u)
  BY DEF KeyOf, Stable
<1>2. KeyOf(u) \in Keys /\ probe[u] \in Nat
  BY ProbingRow
<1>3. Passed(KeyOf(u), probe[u]) /\ slot[u] = ProbeSlot(KeyOf(u), probe[u])
  BY DEF ProbeInv
<1>4. \A j \in 0..(probe[u] - 1) : Claimed(ProbeSlot(KeyOf(u), j))' /\ OwnerKey(ProbeSlot(KeyOf(u), j))' # KeyOf(u)
  <2> TAKE j \in 0..(probe[u] - 1)
  <2>1. ProbeSlot(KeyOf(u), j) \in Slots
    BY <1>2, ProbeNext
  <2>2. Claimed(ProbeSlot(KeyOf(u), j)) /\ OwnerKey(ProbeSlot(KeyOf(u), j)) # KeyOf(u)
    BY <1>3 DEF Passed
  <2>3. QED
    BY <2>1, <2>2, <1>1, StableFacts
<1>5. QED
  BY <1>1, <1>3, <1>4 DEF Passed, ProbeSlot

LEMMA ProbeStep ==
  ASSUME KeyInv, ~misled', [Next]_vars
  PROVE  ProbeInv'
<1>0. BaseInv /\ ProbeInv /\ Stable
  BY StableStep DEF KeyInv, IdInv, ExactInv
<1> SUFFICES ASSUME NEW u \in Threads, Probing(u)'
             PROVE  (slot[u] = ProbeSlot(KeyOf(u), probe[u]) /\ Passed(KeyOf(u), probe[u]))'
  BY DEF ProbeInv
<1>1. CASE Probing(u) /\ row'[u] = row[u] /\ slot'[u] = slot[u] /\ probe'[u] = probe[u]
  <2>1. slot'[u] = ProbeSlot(KeyOf(u)', probe'[u]) /\ Passed(KeyOf(u), probe[u])'
    BY <1>0, <1>1, ProbeKept
  <2>2. QED
    BY <2>1 DEF ProbeSlot
<1>2. CASE FetchRow(u)
  <2>1. row[u] \in Rows /\ KeyOf(u) \in Keys
    BY <1>0, <1>2 DEF FetchRow, Rows, BaseInv, TypeOK, KeyOf
  <2>2. slot'[u] = Hash[KeyOf(u)] /\ probe'[u] = 0 /\ KeyOf(u)' = KeyOf(u)
    BY <1>0, <1>2 DEF FetchRow, BaseInv, TypeOK, KeyOf
  <2>3. slot'[u] = ProbeSlot(KeyOf(u), 0)
    BY <2>1, <2>2, ProbeNext
  <2>4. QED
    BY <2>2, <2>3 DEF Passed, ProbeSlot
<1>3. CASE NextSlot(u)
  <2>1. Passed(KeyOf(u), probe[u] + 1)
    BY <1>3, CompareMiss DEF NextSlot  
  <2>2. Probing(u)
    BY <1>3 DEF NextSlot, Probing
  <2>3. KeyOf(u) \in Keys /\ probe[u] \in Nat
    BY <1>0, <2>2, ProbingRow
  <2>4. slot'[u] = (slot[u] + 1) % NSlots /\ probe'[u] = probe[u] + 1 /\ KeyOf(u)' = KeyOf(u)
    BY <1>0, <1>3 DEF NextSlot, BaseInv, TypeOK, KeyOf
  <2>5. slot'[u] = ProbeSlot(KeyOf(u), probe[u] + 1)
    BY <1>0, <2>2, <2>3, <2>4, ProbeNext DEF ProbeInv
  <2>6. claimedBy' = claimedBy /\ keys' = keys
    BY <1>3 DEF NextSlot, table
  <2>7. Passed(KeyOf(u), probe[u])'
    BY <2>1, <2>4, <2>6 DEF Passed, ProbeSlot, Claimed, OwnerKey
  <2>8. QED
    BY <2>4, <2>5, <2>7 DEF ProbeSlot
<1>4. ASSUME ~Probing(u), NEW t \in Threads, Step(t) PROVE FetchRow(u)
  BY <1>0, <1>4 DEF Step, LeaveLoop, LoadState, CasWin, CasFail, WriteKey, DrawId, Publish,
     SpinOut, Match, NextSlot, GiveUp, Settle, Goto, Probing, BaseInv, TypeOK, FetchRow
<1>5. ASSUME Probing(u), NEW t \in Threads, Step(t),
             ~(row'[u] = row[u] /\ slot'[u] = slot[u] /\ probe'[u] = probe[u])
      PROVE  NextSlot(u)
  BY <1>0, <1>5 DEF Step, LeaveLoop, LoadState, CasWin, CasFail, WriteKey, DrawId, Publish,
     SpinOut, Match, NextSlot, GiveUp, Settle, Goto, Probing, BaseInv, TypeOK, FetchRow
<1>6. CASE Barrier \/ UNCHANGED vars
  BY <1>1, <1>6 DEF Barrier, vars, locals, Probing
<1>7. QED
  BY <1>1, <1>2, <1>3, <1>4, <1>5, <1>6 DEF Next, Terminated

LEMMA ReachStep ==
  ASSUME KeyInv, ~misled', [Next]_vars
  PROVE  ReachInv'
<1>0. BaseInv /\ ProbeInv /\ ReachInv /\ Stable
  BY StableStep DEF KeyInv, IdInv, ExactInv
<1>1. ASSUME NEW s \in Slots, Claimed(s)
      PROVE  \E d \in 0..(ProbeLimit - 1) :
               s = ProbeSlot(OwnerKey(s)', d) /\ Passed(OwnerKey(s), d)'
  <2>1. PICK d \in 0..(ProbeLimit - 1) :
          s = ProbeSlot(OwnerKey(s), d) /\ Passed(OwnerKey(s), d)
    BY <1>0, <1>1 DEF ReachInv
  <2>2. OwnerKey(s) \in Keys /\ d \in Nat
    BY <1>0, <1>1 DEF OwnerKey, Claimed, BaseInv, TypeOK
  <2>3. OwnerKey(s)' = OwnerKey(s)
    BY <1>0, <1>1, StableFacts
  <2>4. \A j \in 0..(d - 1) : ProbeSlot(OwnerKey(s), j) \in Slots
    BY <2>2, ProbeNext
  <2>5. \A j \in 0..(d - 1) :
          Claimed(ProbeSlot(OwnerKey(s), j))' /\ OwnerKey(ProbeSlot(OwnerKey(s), j))' # OwnerKey(s)
    BY <1>0, <2>1, <2>2, <2>3, <2>4, StableFacts DEF Passed, ProbeSlot
  <2>6. QED
    BY <2>1, <2>3, <2>5 DEF Passed, ProbeSlot
<1>2. ASSUME NEW s \in Slots, ~Claimed(s), Claimed(s)'
      PROVE  \E d \in 0..(ProbeLimit - 1) :
               s = ProbeSlot(OwnerKey(s)', d) /\ Passed(OwnerKey(s), d)'
  <2>1. PICK t \in Threads : CasWin(t)
    BY <1>2 DEF Claimed, Next, Step, Terminated, FetchRow, LeaveLoop, LoadState, CasFail,
       WriteKey, DrawId, Publish, SpinOut, Match, NextSlot, GiveUp, Barrier,
       vars, table, locals, output
  <2>2. s = slot[t] /\ claimedBy'[s] = row[t] /\ keys' = keys
    BY <1>0, <1>2, <2>1 DEF CasWin, Claimed, BaseInv, TypeOK
  <2>3. OwnerKey(s)' = KeyOf(t)
    BY <2>2 DEF OwnerKey, KeyOf
  <2>4. Probing(t)
    BY <2>1 DEF CasWin, Probing
  <2>5. KeyOf(t) \in Keys /\ probe[t] \in 0..(ProbeLimit - 1)
    BY <1>0, <2>4, ProbingRow
  <2>6. s = ProbeSlot(KeyOf(t), probe[t]) /\ Passed(KeyOf(t), probe[t])
    BY <1>0, <2>2, <2>4 DEF ProbeInv
  <2>7. ASSUME NEW j \in 0..(probe[t] - 1)
        PROVE  Claimed(ProbeSlot(KeyOf(t), j))' /\ OwnerKey(ProbeSlot(KeyOf(t), j))' # KeyOf(t)
    <3>1. j \in Nat
      BY <2>5
    <3>2. ProbeSlot(KeyOf(t), j) \in Slots
      BY <2>5, <3>1, ProbeNext
    <3>3. Claimed(ProbeSlot(KeyOf(t), j)) /\ OwnerKey(ProbeSlot(KeyOf(t), j)) # KeyOf(t)
      BY <2>6 DEF Passed
    <3>4. KeyOf(t)' = KeyOf(t)
      BY <2>1, <2>2 DEF CasWin, KeyOf
    <3>5. QED
      BY <1>0, <3>2, <3>3, <3>4, StableFacts
  <2>8. KeyOf(t)' = KeyOf(t)
    BY <2>1, <2>2 DEF CasWin, KeyOf
  <2>9. Passed(OwnerKey(s), probe[t])'
    <3>1. probe' = probe
      BY <2>1 DEF CasWin
    <3>2. QED
      BY <2>3, <2>7, <2>8, <3>1 DEF Passed, ProbeSlot
  <2>10. s = ProbeSlot(OwnerKey(s)', probe[t])
    BY <2>3, <2>6 DEF ProbeSlot
  <2>11. probe'[t] = probe[t]
    BY <2>1 DEF CasWin
  <2>12. QED
    BY <2>5, <2>9, <2>10, <2>11 DEF Passed
<1>3. QED
  BY <1>1, <1>2 DEF ReachInv, ProbeSlot

\* What SettledInv says of one row with group g.
SettledRow(r, g) ==
  /\ g < UINT_MAX => \E s \in Slots : /\ Published(s) /\ slotState[s] = g + 1
                                      /\ OwnerKey(s) = keys[r]
  /\ g = UINT_MAX => Passed(keys[r], ProbeLimit)

LEMMA SettledStep ==
  ASSUME KeyInv, ~misled', [Next]_vars
  PROVE  SettledInv'
<1>0. BaseInv /\ TypeOK /\ ClaimInv /\ IdsUnique /\ SeenInv /\ SettledInv /\ Stable
  BY StableStep DEF KeyInv, IdInv, BaseInv, ExactInv
<1> SUFFICES ASSUME NEW r \in Rows PROVE SettledRow(r, rowGroup[r])'
  BY DEF SettledInv, SettledRow
<1>1. keys' = keys /\ keys[r] \in Keys
  BY <1>0 DEF Stable, TypeOK
<1>2. CASE rowGroup'[r] = rowGroup[r]
  <2>1. ASSUME rowGroup[r] < UINT_MAX
        PROVE  \E s \in Slots : /\ Published(s)' /\ slotState'[s] = rowGroup[r] + 1
                                /\ OwnerKey(s)' = keys[r]
    <3>1. PICK s \in Slots : /\ Published(s) /\ slotState[s] = rowGroup[r] + 1
                             /\ OwnerKey(s) = keys[r]
      BY <1>0, <2>1 DEF SettledInv
    <3>2. Claimed(s)
      BY <1>0, <3>1 DEF ClaimInv, Published
    <3>3. QED
      BY <1>0, <3>1, <3>2, StableFacts DEF Stable
  <2>2. ASSUME rowGroup[r] = UINT_MAX
        PROVE  Passed(keys[r], ProbeLimit)'
    <3>1. Passed(keys[r], ProbeLimit)
      BY <1>0, <2>2 DEF SettledInv
    <3>2. QED
      BY <1>0, <1>1, <3>1, StableFacts DEF Passed, ProbeSlot
  <2>3. QED
    BY <1>1, <1>2, <2>1, <2>2 DEF SettledRow, Published, OwnerKey
<1>3. ASSUME NEW t \in Threads, Publish(t), rowGroup'[r] # rowGroup[r]
      PROVE  SettledRow(r, rowGroup[r])'
  <2>1. row[t] = r /\ rowGroup'[r] = gid[t]
    BY <1>0, <1>3 DEF Publish, Settle, TypeOK
  <2>2. gid[t] \in 0..(nextLocal - 1) /\ nextLocal \in 0..NSlots
    BY <1>0, <1>3 DEF Publish, IdsUnique, TypeOK
  <2>3. slot[t] \in Slots /\ slotState'[slot[t]] = gid[t] + 1 /\ claimedBy'[slot[t]] = row[t]
    BY <1>0, <1>3 DEF Publish, TypeOK, ClaimInv, InClaim
  <2>4. gid[t] + 1 \notin {Empty, Claiming} /\ gid[t] < UINT_MAX /\ gid[t] # UINT_MAX
    BY <2>2 DEF Empty, Claiming
  <2>5. QED
    BY <1>1, <2>1, <2>3, <2>4 DEF SettledRow, Published, OwnerKey
<1>4. ASSUME NEW t \in Threads, Match(t), rowGroup'[r] # rowGroup[r]
      PROVE  SettledRow(r, rowGroup[r])'
  <2>1. row[t] = r /\ rowGroup'[r] = Pred(state[t]) /\ pc[t] = "compare"
    BY <1>0, <1>4 DEF Match, Settle, TypeOK
  <2>2. slot[t] \in Slots /\ Published(slot[t]) /\ state[t] = slotState[slot[t]]
        /\ state[t] \in 0..UINT_MAX
    BY <1>0, <2>1, CompareReads DEF TypeOK
  <2>3. OwnerKey(slot[t]) = keys[r]
    BY <1>4, <2>1, CompareReads DEF Match, KeyOf
  <2>4. Pred(state[t]) = state[t] - 1 /\ state[t] \in 1..(UINT_MAX - 1)
    BY <2>2, PredValue DEF Published, Empty, Claiming
  <2>5. UNCHANGED <<slotState, claimedBy>>
    BY <1>4 DEF Match, table
  <2>6. rowGroup'[r] < UINT_MAX /\ rowGroup'[r] # UINT_MAX /\ rowGroup'[r] + 1 = state[t]
    BY <2>1, <2>4
  <2>7. QED
    BY <1>1, <2>2, <2>3, <2>5, <2>6 DEF SettledRow, Published, OwnerKey
<1>5. ASSUME NEW t \in Threads, GiveUp(t), rowGroup'[r] # rowGroup[r]
      PROVE  SettledRow(r, rowGroup[r])'
  <2>1. row[t] = r /\ rowGroup'[r] = UINT_MAX /\ pc[t] = "compare" /\ claimedBy' = claimedBy
    BY <1>0, <1>5 DEF GiveUp, Settle, TypeOK, table
  <2>2. Passed(keys[r], probe[t] + 1)
    BY <1>5, <2>1, CompareMiss DEF GiveUp, KeyOf
  <2>3. probe[t] + 1 = ProbeLimit
    BY <1>0, <1>5 DEF GiveUp, TypeOK
  <2>4. Passed(keys[r], ProbeLimit)'
    BY <1>1, <2>1, <2>2, <2>3 DEF Passed, Claimed, OwnerKey, ProbeSlot
  <2>5. QED
    BY <2>1, <2>4 DEF SettledRow
<1>6. ASSUME rowGroup'[r] # rowGroup[r]
      PROVE  \E t \in Threads : Publish(t) \/ Match(t) \/ GiveUp(t)
  BY <1>6 DEF Next, Step, Terminated, FetchRow, LeaveLoop, LoadState, CasWin,
     CasFail, WriteKey, DrawId, SpinOut, NextSlot, Barrier, vars, output
<1>7. QED
  BY <1>2, <1>3, <1>4, <1>5, <1>6

LEMMA AwakeStep ==
  ASSUME KeyInv, ~misled', [Next]_vars
  PROVE  AwakeInv'
<1>0. TypeOK /\ ClaimInv /\ SeenInv /\ AwakeInv
  BY DEF KeyInv, IdInv, BaseInv, ExactInv
<1> SUFFICES ASSUME NEW u \in Threads, pc'[u] = "compare" PROVE state'[u] # Empty
  BY DEF AwakeInv
<1>1. CASE pc[u] = "compare"
  <2>1. state'[u] = state[u]
    BY <1>0, <1>1 DEF Next, Step, Terminated, FetchRow, LeaveLoop, LoadState, CasWin,
       CasFail, WriteKey, DrawId, Publish, SpinOut, Match, NextSlot, GiveUp, Barrier,
       AfterRead, Settle, Goto, TypeOK, vars, locals
  <2>2. QED
    BY <1>0, <1>1, <2>1 DEF AwakeInv
<1>2. CASE pc[u] # "compare"
  <2>1. LoadState(u) \/ CasFail(u) \/ SpinOut(u)
    BY <1>0, <1>2 DEF Next, Step, Terminated, FetchRow, LeaveLoop, CasWin, LoadState,
       CasFail, SpinOut, WriteKey, DrawId, Publish, Match, NextSlot, GiveUp, Barrier,
       AfterRead, Settle, Goto, TypeOK, vars, locals
  <2>2. CASE LoadState(u)
    BY <1>0, <2>2 DEF LoadState, AfterRead, Goto, TypeOK
  <2>3. CASE CasFail(u)
    BY <1>0, <2>3 DEF CasFail, TypeOK
  <2>4. CASE SpinOut(u)
    BY <1>0, <2>4 DEF SpinOut, Goto, TypeOK, SeenInv, ClaimInv
  <2>5. QED
    BY <2>1, <2>2, <2>3, <2>4
<1>3. QED
  BY <1>1, <1>2

-----------------------------------------------------------------------------
LEMMA ExactInit == Init => ExactInv
BY DEF Init, ExactInv, ProbeInv, Probing, ReachInv, Claimed, SettledInv, AwakeInv,
       Unset, Empty, Claiming, NoRow

\* Who was misled stays so.
LEMMA MisledStep == TypeOK /\ misled /\ [Next]_vars => misled'
BY DEF TypeOK, Next, Step, Terminated, FetchRow, LeaveLoop, LoadState, CasWin, CasFail, WriteKey,
       DrawId, Publish, SpinOut, Match, NextSlot, GiveUp, Barrier, vars

LEMMA KeyInvariant == Spec => [](IdInv /\ SeenInv /\ (~misled => ExactInv))
<1>1. IdInv /\ SeenInv /\ (~misled => ExactInv) /\ [Next]_vars => (~misled => ExactInv)'
  <2> SUFFICES ASSUME IdInv, SeenInv, ~misled => ExactInv, [Next]_vars, ~misled' PROVE ExactInv'
    OBVIOUS
  <2>1. KeyInv
    BY MisledStep DEF KeyInv, IdInv, BaseInv
  <2>2. QED
    BY <2>1, ProbeStep, ReachStep, SettledStep, AwakeStep DEF ExactInv
<1>2. QED
  BY <1>1, SlotInvariant, ExactInit, PTL DEF Spec

\* Where stores are ordered and the exchange fails only on a taken slot, nobody is ever misled.
LEMMA NobodyMisled ==
  ASSUME Ordered, ~SpuriousCas
  PROVE  Spec => []~misled
<1>1. Init => ~misled
  BY DEF Init
<1>2. ~misled /\ [Next]_vars => ~misled'
  BY DEF Next, Step, Terminated, FetchRow, LeaveLoop, LoadState, CasWin, CasFail, WriteKey,
         DrawId, Publish, SpinOut, Match, NextSlot, GiveUp, Barrier, vars, ReadableKeys, Misreadings
<1>3. QED
  BY <1>1, <1>2, PTL DEF Spec

\* On any memory order: however many threads insert at once, one key never owns two slots
\* before some thread has compared with words that were not in memory, or has gone on after a
\* spurious failure.
THEOREM KeysAreUnique == Spec => []NoKeyTwice
<1>1. (~misled => KeyInv) => NoKeyTwice
  BY ReachUnique DEF KeyInv, IdInv, BaseInv, ExactInv, NoKeyTwice
<1>2. QED
  BY <1>1, KeyInvariant, PTL DEF KeyInv

LEMMA SettledGroups == KeyInv => SameGroupIffSameKey
<1> SUFFICES ASSUME KeyInv, ~misled, NEW r \in Rows, NEW q \in Rows,
                    rowGroup[r] < UINT_MAX, rowGroup[q] < UINT_MAX
             PROVE  rowGroup[r] = rowGroup[q] <=> keys[r] = keys[q]
  BY DEF SameGroupIffSameKey
<1>0. TypeOK /\ ClaimInv /\ IdsUnique /\ SettledInv /\ NoKeyTwice
  BY ReachUnique DEF KeyInv, IdInv, BaseInv, ExactInv
<1>1. PICK s \in Slots : Published(s) /\ slotState[s] = rowGroup[r] + 1 /\ OwnerKey(s) = keys[r]
  BY <1>0 DEF SettledInv
<1>2. PICK v \in Slots : Published(v) /\ slotState[v] = rowGroup[q] + 1 /\ OwnerKey(v) = keys[q]
  BY <1>0 DEF SettledInv
<1>3. Claimed(s) /\ Claimed(v)
  BY <1>0, <1>1, <1>2 DEF ClaimInv, Published
<1>4. rowGroup[r] \in Nat /\ rowGroup[q] \in Nat
  BY <1>0 DEF TypeOK, Unset
<1>5. keys[r] = keys[q] => s = v
  BY <1>0, <1>1, <1>2, <1>3 DEF NoKeyTwice
<1>6. rowGroup[r] = rowGroup[q] => s = v
  BY <1>0, <1>1, <1>2 DEF IdsUnique
<1>7. QED
  BY <1>1, <1>2, <1>4, <1>5, <1>6

\* On any memory order: the rows settled before a thread is misled are grouped by key.
THEOREM GroupsAreKeys == Spec => []SameGroupIffSameKey
<1>1. (~misled => KeyInv) => SameGroupIffSameKey
  BY SettledGroups DEF SameGroupIffSameKey
<1>2. QED
  BY <1>1, KeyInvariant, PTL DEF KeyInv

\* On any memory order: before a thread is misled, the kernel gives up a row only when its whole
\* probe sequence is taken by other keys.
THEOREM OverflowIsJustified == Spec => []OverflowJustified
<1>1. (~misled => KeyInv) => OverflowJustified
  BY DEF KeyInv, ExactInv, SettledInv, Passed, OverflowJustified
<1>2. QED
  BY <1>1, KeyInvariant, PTL DEF KeyInv

-----------------------------------------------------------------------------
(***************************************************************************)
(* The kernel is one atomic build.                                         *)
(***************************************************************************)

\* What the host finds in the outputs of a kernel that has returned without the flag.
LEMMA KernelGroups ==
  KeyInv /\ ~misled /\ RowInv /\ Done /\ overflow # 1
    => Abstract!IsGrouping(keys, rowGroup, nGroups)
<1> SUFFICES ASSUME KeyInv, ~misled, RowInv, Done, overflow # 1
             PROVE  Abstract!IsGrouping(keys, rowGroup, nGroups)
  OBVIOUS
<1>0. TypeOK /\ IdInv /\ HostIndexInRange /\ nextLocal \in 0..NSlots
  BY DEF KeyInv, IdInv, BaseInv, TypeOK
<1>1. /\ nGroups = nextLocal
      /\ \A r \in Rows : rowGroup[r] # Unset
      /\ \A g \in 0..(nGroups - 1) : \E r \in Rows : rowGroup[r] = g
  BY <1>0, AllSettled
<1>2. \A r \in Rows : rowGroup[r] \in 0..(nGroups - 1) /\ rowGroup[r] < UINT_MAX
  BY <1>0, <1>1 DEF HostIndexInRange, TypeOK, Unset
<1>3. rowGroup \in [Rows -> 0..(nGroups - 1)] /\ DOMAIN keys = Rows
  BY <1>0, <1>2 DEF TypeOK
<1>4. \A r, q \in Rows : rowGroup[r] = rowGroup[q] <=> keys[r] = keys[q]
  BY <1>2, SettledGroups DEF SameGroupIffSameKey
<1>5. QED
  BY <1>1, <1>2, <1>3, <1>4 DEF Abstract!IsGrouping

\* The result appears with the barrier and stays.
LEMMA KernelStep ==
  ASSUME IdInv, IdInv', RowInv', (~misled => KeyInv)', [Next]_vars
  PROVE  [Abstract!Next]_<<keys, BuildResult>>
<1>0. keys' = keys /\ 0 \in Threads
  BY StableStep DEF IdInv, Stable, Threads
<1>1. CASE Done
  <2>1. ~Barrier /\ \A t \in Threads : ~Step(t)
    BY <1>0, <1>1 DEF Done, Barrier, Step, FetchRow, LeaveLoop, LoadState, CasWin, CasFail,
          WriteKey, DrawId, Publish, SpinOut, Match, NextSlot, GiveUp
  <2>2. UNCHANGED vars
    BY <2>1 DEF Next, Terminated
  <2>3. QED
    BY <2>2 DEF vars, table, locals, output, BuildResult, Done
<1>2. CASE ~Done /\ ~Done'
  BY <1>0, <1>2 DEF BuildResult
<1>3. CASE ~Done /\ Done' /\ misled'
  BY <1>0, <1>3 DEF BuildResult
<1>4. CASE ~Done /\ Done' /\ ~misled'
  <2>1. BuildResult = [kind |-> "none"]
    BY <1>4 DEF BuildResult
  <2>2. Abstract!IsAnswer(BuildResult)'
    <3>1. CASE overflow' = 1
      BY <1>4, <3>1 DEF BuildResult, Abstract!IsAnswer
    <3>2. CASE overflow' # 1
      <4>1. (KeyInv /\ ~misled /\ RowInv /\ Done /\ overflow # 1
               => Abstract!IsGrouping(keys, rowGroup, nGroups))'
        BY KernelGroups, PTL
      <4>2. Abstract!IsGrouping(keys, rowGroup, nGroups)'
        BY <1>4, <3>2, <4>1
      <4>3. QED
        BY <1>4, <3>2, <4>2 DEF BuildResult, Abstract!IsAnswer
    <3>3. QED
      BY <3>1, <3>2
  <2>3. QED
    BY <1>0, <2>1, <2>2 DEF Abstract!Next, Abstract!Build, Abstract!IsAnswer
<1>5. QED
  BY <1>1, <1>2, <1>3, <1>4

\* A run of the kernel in which no thread is misled, whatever the memory order would have
\* allowed, is to the host one atomic build of the slice: a grouping by key, or the flag.
THEOREM KernelImplements == Spec => ImplementsGroupBuild
<1>1. Init => Abstract!Init
  <2> SUFFICES ASSUME Init PROVE BuildResult = [kind |-> "none"]
    BY DEF Abstract!Init
  <2>1. 0 \in Threads /\ pc[0] = "row"
    BY DEF Init, Threads
  <2>2. QED
    BY <2>1 DEF BuildResult, Done
<1>2. Spec => [](IdInv /\ RowInv /\ (~misled => KeyInv))
  BY KeyInvariant, RowInvariant, PTL DEF KeyInv
<1>3. /\ IdInv /\ RowInv /\ (~misled => KeyInv)
      /\ (IdInv /\ RowInv /\ (~misled => KeyInv))'
      /\ [Next]_vars
      => [Abstract!Next]_<<keys, BuildResult>>
  BY KernelStep
<1>4. QED
  BY <1>1, <1>2, <1>3, PTL DEF Spec, ImplementsGroupBuild, Abstract!Spec
=============================================================================
