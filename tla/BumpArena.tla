------------------------------ MODULE BumpArena ------------------------------
(***************************************************************************)
(* The per-query bump allocator (crates/polars-metal-core/src/arena.rs)    *)
(* and the no-copy views it hands out (MetalBuffer::view_into and          *)
(* shallow_clone, crates/polars-metal-buffer/src/bridge.rs).               *)
(*                                                                         *)
(* The backing buffer lives as long as its Arc has owners: the arena, the  *)
(* clones of shared(), the _view_parent of every handle on a view, and the *)
(* deallocator block of every view's MTLBuffer, which Metal keeps until    *)
(* the last handle is dropped and no command buffer retains the MTLBuffer. *)
(***************************************************************************)
EXTENDS Integers, FiniteSets

CONSTANTS
  Capacity,    \* bytes of the backing buffer
  Align,       \* ARENA_ALIGN
  UsizeMax,    \* the largest usize
  Sizes,       \* the sizes asked for
  Views,       \* bound: identities of the views
  Handles,     \* bound: handles on one view
  Shares       \* bound: clones made by shared()

ASSUME SizeAssumption ==
  /\ UsizeMax \in Nat /\ Capacity \in 1..UsizeMax
  /\ Align \in Nat \ {0}
  /\ Sizes \subseteq 0..UsizeMax

VARIABLES
  cursor,
  owners,      \* owners of the Arc of the backing buffer
  freed,       \* the backing bytes were returned to Metal
  start, len,  \* the range of each view handed out
  mtl,         \* views whose MTLBuffer exists
  inFlight     \* views retained by a command buffer in flight

arenaVars == <<cursor, owners, freed, start, len, mtl, inFlight>>

Arena        == <<"arena">>
Share(i)     == <<"share", i>>
Handle(v, h) == <<"handle", v, h>>
Block(v)     == <<"block", v>>

Owners ==
  {Arena} \cup {Share(i) : i \in Shares} \cup {Block(v) : v \in Views}
    \cup {Handle(v, h) : v \in Views, h \in Handles}

\* Owners that are live Rust handles on view v.
HandlesOf(v) == {h \in Handles : Handle(v, h) \in owners}

ArenaInit ==
  /\ cursor = 0
  /\ owners = {Arena}
  /\ freed = FALSE
  /\ start = [v \in Views |-> 0]
  /\ len = [v \in Views |-> 0]
  /\ mtl = {} /\ inFlight = {}

\* The last owner of the Arc frees the backing buffer.
SetOwners(o) == owners' = o /\ freed' = (o = {})

\* Fault: the cursor is rounded down.
RoundedDown == (cursor \div Align) * Align

\* The cursor rounded up: (cursor + Align - 1) & !(Align - 1).
AlignedStart == ((cursor + Align - 1) \div Align) * Align

\* Fault: the end is checked for overflow but not against the capacity.
FitsUsize(n) ==
  /\ n > 0
  /\ cursor + Align - 1 <= UsizeMax
  /\ AlignedStart + n <= UsizeMax

\* Both additions are checked, then the end is compared with the capacity.
Fits(n) ==
  /\ n > 0
  /\ cursor + Align - 1 <= UsizeMax
  /\ AlignedStart + n <= UsizeMax
  /\ AlignedStart + n <= Capacity

\* Fault: the deallocator block of the view does not keep the parent alive.
AllocNoBlock(v, h, n) ==
  /\ Arena \in owners
  /\ v \notin mtl /\ len[v] = 0
  /\ Fits(n)
  /\ start' = [start EXCEPT ![v] = AlignedStart]
  /\ len' = [len EXCEPT ![v] = n]
  /\ cursor' = AlignedStart + n
  /\ mtl' = mtl \cup {v}
  /\ SetOwners(owners \cup {Handle(v, h)})
  /\ UNCHANGED inFlight

\* A refused allocation (too large, empty, or refused by Metal) changes nothing and
\* has no action.
Alloc(v, h, n) ==
  /\ Arena \in owners
  /\ v \notin mtl /\ len[v] = 0
  /\ Fits(n)
  /\ start' = [start EXCEPT ![v] = AlignedStart]
  /\ len' = [len EXCEPT ![v] = n]
  /\ cursor' = AlignedStart + n
  /\ mtl' = mtl \cup {v}
  /\ SetOwners(owners \cup {Handle(v, h), Block(v)})
  /\ UNCHANGED inFlight

ShallowClone(v, h) ==
  /\ HandlesOf(v) # {} /\ h \notin HandlesOf(v)
  /\ SetOwners(owners \cup {Handle(v, h)})
  /\ UNCHANGED <<cursor, start, len, mtl, inFlight>>

\* Dropping a handle releases the MTLBuffer, and with it the block, unless another
\* handle or a command buffer still retains it.
DropHandle(v, h) ==
  /\ h \in HandlesOf(v)
  /\ IF HandlesOf(v) = {h} /\ v \notin inFlight
       THEN mtl' = mtl \ {v} /\ SetOwners(owners \ {Handle(v, h), Block(v)})
       ELSE mtl' = mtl /\ SetOwners(owners \ {Handle(v, h)})
  /\ UNCHANGED <<cursor, start, len, inFlight>>

\* A dispatch binds the view: the command buffer retains its MTLBuffer.
Bind(v) ==
  /\ HandlesOf(v) # {} /\ v \notin inFlight
  /\ inFlight' = inFlight \cup {v}
  /\ UNCHANGED <<cursor, owners, freed, start, len, mtl>>

Complete(v) ==
  /\ v \in inFlight
  /\ inFlight' = inFlight \ {v}
  /\ IF HandlesOf(v) = {}
       THEN mtl' = mtl \ {v} /\ SetOwners(owners \ {Block(v)})
       ELSE UNCHANGED <<mtl, owners, freed>>
  /\ UNCHANGED <<cursor, start, len>>

MakeShare(i) ==
  /\ Arena \in owners /\ Share(i) \notin owners
  /\ SetOwners(owners \cup {Share(i)})
  /\ UNCHANGED <<cursor, start, len, mtl, inFlight>>

DropShare(i) ==
  /\ Share(i) \in owners
  /\ SetOwners(owners \ {Share(i)})
  /\ UNCHANGED <<cursor, start, len, mtl, inFlight>>

DropArena ==
  /\ Arena \in owners
  /\ SetOwners(owners \ {Arena})
  /\ UNCHANGED <<cursor, start, len, mtl, inFlight>>

ArenaNext ==
  \/ \E v \in Views, h \in Handles :
       (\E n \in Sizes : Alloc(v, h, n)) \/ ShallowClone(v, h) \/ DropHandle(v, h)
  \/ \E v \in Views : Bind(v) \/ Complete(v)
  \/ \E i \in Shares : MakeShare(i) \/ DropShare(i)
  \/ DropArena

ArenaSpec == ArenaInit /\ [][ArenaNext]_arenaVars

-----------------------------------------------------------------------------
ArenaTypeOK ==
  /\ cursor \in 0..Capacity
  /\ owners \subseteq Owners
  /\ freed \in BOOLEAN
  /\ start \in [Views -> 0..Capacity]
  /\ len \in [Views -> 0..Capacity]
  /\ mtl \subseteq Views /\ inFlight \subseteq Views

\* Two views that were ever handed out share no byte, each is aligned, and none
\* reaches past the backing buffer - also when sums come near the largest usize.
ViewsDisjoint ==
  \A v \in Views : len[v] > 0 =>
    /\ start[v] % Align = 0
    /\ start[v] + len[v] <= Capacity
    /\ \A w \in Views \ {v} : len[w] > 0 =>
         start[v] + len[v] <= start[w] \/ start[w] + len[w] <= start[v]

\* The bytes outlive every handle on a view and every command buffer that retains
\* one, in whatever order arena, handles, clones and GPU let go of them.
NoAccessAfterFree ==
  freed => /\ inFlight = {} /\ mtl = {}
           /\ \A v \in Views : HandlesOf(v) = {}

=============================================================================
