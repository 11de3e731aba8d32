--------------------------- MODULE ShaderLibrary ---------------------------
(***************************************************************************)
(* The shader library of a process: its one-time loading (ShaderLoad)      *)
(* composed with its cache of pipeline states (PsoCache).  A thread asks   *)
(* for a pipeline state as shared_library()?.pipeline(name): only on a     *)
(* library that has been loaded, and never while it is inside load.        *)
(***************************************************************************)
EXTENDS PsoCache

CONSTANT MaxCalls      \* bound: load and shared_library calls of one thread

VARIABLES file, temp, instance, loadPc, shared, read, outcomes, calls

Loader == INSTANCE ShaderLoad WITH pc <- loadPc

loaderVars == <<file, temp, instance, loadPc, shared, read, outcomes, calls>>

libraryVars == <<psoVars, loaderVars>>

LibraryInit == PsoInit /\ Loader!Init

\* shared_library or load, from a thread that is not in pipeline.
CallLoader(t) ==
  /\ pc[t] = "idle"
  /\ Loader!CallShared(t) \/ Loader!CallLoad(t)
  /\ UNCHANGED psoVars

Loading(t) == Loader!Progress(t) /\ UNCHANGED psoVars

\* shared_library()?.pipeline(entry_point), once INSTANCE holds a library.
RequestPipeline(t) ==
  /\ loadPc[t] = "idle" /\ instance = "ok"
  /\ Request(t)
  /\ UNCHANGED loaderVars

Pipeline(t) == Answering(t) /\ UNCHANGED loaderVars

LibraryNext ==
  \E t \in Threads :
    CallLoader(t) \/ Loading(t) \/ RequestPipeline(t) \/ Pipeline(t)

LibrarySpec == LibraryInit /\ [][LibraryNext]_libraryVars

\* Threads are scheduled; one that is blocked in get_or_init waits for the busy
\* one, and nothing makes a thread call.
LibraryFairSpec ==
  LibrarySpec /\ \A t \in Threads : WF_libraryVars(Loading(t) \/ Pipeline(t))

-----------------------------------------------------------------------------
\* Concurrent loaders "cannot observe a half-written file": Metal reads the
\* temporary metallib only when it is complete.
NoHalfWrittenRead == Loader!NoHalfWrittenRead

\* A failed first shared_library "is still surfaced (and not silently retried)":
\* all calls of one process see the same result.
OneOutcome == Loader!OneOutcome

\* Nobody stays blocked on a OnceLock or in pipeline, whatever fails.
EveryCallReturns ==
  \A t \in Threads :
    loadPc[t] # "idle" \/ pc[t] # "idle" ~> loadPc[t] = "idle" /\ pc[t] = "idle"
=============================================================================
