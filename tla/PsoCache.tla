------------------------------ MODULE PsoCache ------------------------------
(***************************************************************************)
(* The two caches of compute pipeline states, which share one locking      *)
(* pattern: look up under the lock, build under no lock, insert or adopt   *)
(* the winner's under the lock again.                                      *)
(*   ShaderLibrary::pipeline (shader_lib.rs): the shape is an entry point, *)
(*     the key the entry point itself.                                     *)
(*   FusedLibraryCache::get_or_compile (aggregate_fused/cache.rs): the     *)
(*     shape is an AggSignature, the key its 64-bit hash.                  *)
(***************************************************************************)
EXTENDS Naturals

CONSTANTS
  Threads,
  Shapes,      \* entry points, or signatures
  HashKeys,    \* the values of the map's key type
  KeyOf,       \* the key of each shape
  NoPso,
  MaxBuilds    \* bound: pipeline states built in a behaviour

ASSUME KeyAssumption == KeyOf \in [Shapes -> HashKeys]

ASSUME BoundAssumption == MaxBuilds \in Nat

\* A pipeline state: the shape it was compiled from, and its identity.
Psos == [shape : Shapes, id : 1..MaxBuilds]

ASSUME NoPsoAssumption == NoPso \notin Psos

VARIABLES
  cache,      \* the Mutex<HashMap>
  pc,
  shape,      \* what each thread asks for
  fresh,      \* the pipeline state it has just built
  built,      \* how many were built
  handed      \* history: <<shape, pso>> handed to callers

psoVars == <<cache, pc, shape, fresh, built, handed>>

PCs == {"idle", "lookup", "build", "insert"}

PsoInit ==
  /\ cache = [k \in HashKeys |-> NoPso]
  /\ pc = [t \in Threads |-> "idle"]
  /\ shape \in [Threads -> Shapes]
  /\ fresh = [t \in Threads |-> NoPso]
  /\ built = 0
  /\ handed = {}

Goto(t, label) == pc' = [pc EXCEPT ![t] = label]

Return(t, pso) ==
  /\ handed' = handed \cup {<<shape[t], pso>>}
  /\ Goto(t, "idle")

Request(t) ==
  /\ pc[t] = "idle"
  /\ \E s \in Shapes : shape' = [shape EXCEPT ![t] = s]
  /\ Goto(t, "lookup")
  /\ UNCHANGED <<cache, fresh, built, handed>>

Key(t) == KeyOf[shape[t]]

Hit(t) ==
  /\ pc[t] = "lookup" /\ cache[Key(t)] # NoPso
  /\ Return(t, cache[Key(t)])
  /\ UNCHANGED <<cache, shape, fresh, built>>

Miss(t) ==
  /\ pc[t] = "lookup" /\ cache[Key(t)] = NoPso
  /\ Goto(t, "build")
  /\ UNCHANGED <<cache, shape, fresh, built, handed>>

\* emit_msl and compile_pipeline, or build_pipeline_state, under no lock.
BuildPso(t) ==
  /\ pc[t] = "build" /\ built < MaxBuilds
  /\ built' = built + 1
  /\ fresh' = [fresh EXCEPT ![t] = [shape |-> shape[t], id |-> built + 1]]
  /\ Goto(t, "insert")
  /\ UNCHANGED <<cache, shape, handed>>

\* Nothing is cached for a failure; the caller gets the error.
BuildFails(t) ==
  /\ pc[t] = "build"
  /\ Goto(t, "idle")
  /\ UNCHANGED <<cache, shape, fresh, built, handed>>

\* Fault: insert instead of entry().or_insert_with.
InsertOver(t) ==
  /\ pc[t] = "insert"
  /\ cache' = [cache EXCEPT ![Key(t)] = fresh[t]]
  /\ fresh' = [fresh EXCEPT ![t] = NoPso]
  /\ Return(t, fresh[t])
  /\ UNCHANGED <<shape, built>>

\* entry(key).or_insert_with: a pipeline state inserted meanwhile wins.
Insert(t) ==
  LET pso == IF cache[Key(t)] = NoPso THEN fresh[t] ELSE cache[Key(t)]
  IN  /\ pc[t] = "insert"
      /\ cache' = [cache EXCEPT ![Key(t)] = pso]
      /\ fresh' = [fresh EXCEPT ![t] = NoPso]
      /\ Return(t, pso)
      /\ UNCHANGED <<shape, built>>

Answering(t) == Hit(t) \/ Miss(t) \/ BuildPso(t) \/ BuildFails(t) \/ Insert(t)

PsoNext == \E t \in Threads : Request(t) \/ Answering(t)

PsoSpec == PsoInit /\ [][PsoNext]_psoVars

-----------------------------------------------------------------------------
TypeOK ==
  /\ cache \in [HashKeys -> Psos \cup {NoPso}]
  /\ pc \in [Threads -> PCs]
  /\ shape \in [Threads -> Shapes]
  /\ fresh \in [Threads -> Psos \cup {NoPso}]
  /\ \A t \in Threads : pc[t] = "insert" => fresh[t] \in Psos
  /\ built \in 0..MaxBuilds
  /\ handed \subseteq Shapes \X Psos

\* "preserve pointer identity for the caller": however lookups, builds and insertions
\* of several threads interleave, callers with one key hold one object, and it was
\* compiled for a shape with that key; callers with two keys hold two.  Shapes may
\* collide in their keys.
OnePsoPerKey ==
  \A a, b \in handed : KeyOf[a[1]] = KeyOf[b[2].shape] <=> a[2] = b[2]

\* "one PSO per signature for the lifetime of the cache" (cache.rs 131-132): the
\* pipeline state handed to a caller was compiled for the caller's own signature.
\* So it is for entry points, which are their own keys; two signatures can have one hash.
PsoMatchesShape == \A a \in handed : a[2].shape = a[1]
=============================================================================
