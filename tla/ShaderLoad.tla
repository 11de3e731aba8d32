----------------------------- MODULE ShaderLoad -----------------------------
(***************************************************************************)
(* How the shader library comes into a process (shader_lib.rs): the        *)
(* embedded metallib is written to a per-process temporary file behind one *)
(* OnceLock, loaded from there by Metal, and the loaded library - or the   *)
(* error - is kept behind another.  Threads call shared_library, or        *)
(* ShaderLibrary::load themselves.                                         *)
(***************************************************************************)
EXTENDS Naturals, FiniteSets

CONSTANTS
  Threads,
  MaxCalls     \* bound: calls of one thread

VARIABLES
  file,       \* the temporary metallib: "absent", "partial" or "complete"
  temp,       \* OnceLock TEMP_METALLIB: "unset", "busy", "ok" or "err"
  instance,   \* OnceLock INSTANCE of shared_library, likewise
  pc,
  shared,     \* did the thread come through shared_library
  read,       \* history: what Metal found at the path, per load
  outcomes,   \* history: results of shared_library
  calls

vars == <<file, temp, instance, pc, shared, read, outcomes, calls>>

Once == {"unset", "busy", "ok", "err"}
PCs  == {"idle", "shared", "materialize", "create", "write", "load"}

Init ==
  /\ file = "absent" /\ temp = "unset" /\ instance = "unset"
  /\ pc = [t \in Threads |-> "idle"]
  /\ shared = [t \in Threads |-> FALSE]
  /\ read = {} /\ outcomes = {}
  /\ calls = [t \in Threads |-> 0]

Goto(t, label) == pc' = [pc EXCEPT ![t] = label]

CallShared(t) ==
  /\ pc[t] = "idle" /\ calls[t] < MaxCalls
  /\ shared' = [shared EXCEPT ![t] = TRUE]
  /\ calls' = [calls EXCEPT ![t] = @ + 1]
  /\ Goto(t, "shared")
  /\ UNCHANGED <<file, temp, instance, read, outcomes>>

CallLoad(t) ==
  /\ pc[t] = "idle" /\ calls[t] < MaxCalls
  /\ shared' = [shared EXCEPT ![t] = FALSE]
  /\ calls' = [calls EXCEPT ![t] = @ + 1]
  /\ Goto(t, "materialize")
  /\ UNCHANGED <<file, temp, instance, read, outcomes>>

\* get_or_init of INSTANCE: the first thread runs load, the others block.
EnterShared(t) ==
  /\ pc[t] = "shared" /\ instance = "unset"
  /\ instance' = "busy"
  /\ Goto(t, "materialize")
  /\ UNCHANGED <<file, temp, shared, read, outcomes, calls>>

\* Fault: an error is reported once and the next caller tries again.
ReturnSharedRetry(t) ==
  /\ pc[t] = "shared" /\ instance \in {"ok", "err"}
  /\ outcomes' = outcomes \cup {instance}
  /\ instance' = IF instance = "err" THEN "unset" ELSE instance
  /\ Goto(t, "idle")
  /\ UNCHANGED <<file, temp, shared, read, calls>>

ReturnShared(t) ==
  /\ pc[t] = "shared" /\ instance \in {"ok", "err"}
  /\ outcomes' = outcomes \cup {instance}
  /\ Goto(t, "idle")
  /\ UNCHANGED <<file, temp, instance, shared, read, calls>>

\* The end of load: shared_library keeps the result, load returns it.
Loaded(t, result) ==
  /\ instance' = IF shared[t] THEN result ELSE instance
  /\ Goto(t, IF shared[t] THEN "shared" ELSE "idle")
  /\ UNCHANGED <<shared, outcomes, calls>>

\* get_or_init of TEMP_METALLIB.
EnterMaterialize(t) ==
  /\ pc[t] = "materialize" /\ temp = "unset"
  /\ temp' = "busy"
  /\ Goto(t, "create")
  /\ UNCHANGED <<file, instance, shared, read, outcomes, calls>>

Materialized(t) ==
  /\ pc[t] = "materialize" /\ temp = "ok"
  /\ Goto(t, "load")
  /\ UNCHANGED <<file, temp, instance, shared, read, outcomes, calls>>

MaterializeFailed(t) ==
  /\ pc[t] = "materialize" /\ temp = "err"
  /\ Loaded(t, "err")
  /\ UNCHANGED <<file, temp, read>>

\* Fault: the path is published before the file is written.
CreateFilePublished(t) ==
  /\ pc[t] = "create"
  /\ file' = "partial" /\ temp' = "ok"
  /\ Goto(t, "write")
  /\ UNCHANGED <<instance, shared, read, outcomes, calls>>

\* File::create truncates; write_all and sync_all complete the contents.
CreateFile(t) ==
  /\ pc[t] = "create"
  /\ file' = "partial"
  /\ Goto(t, "write")
  /\ UNCHANGED <<temp, instance, shared, read, outcomes, calls>>

WriteFile(t) ==
  /\ pc[t] = "write"
  /\ file' = "complete"
  /\ temp' = "ok"
  /\ Goto(t, "materialize")
  /\ UNCHANGED <<instance, shared, read, outcomes, calls>>

\* Fault: a failed write leaves the OnceLock busy.
FileFailsBusy(t) ==
  /\ pc[t] \in {"create", "write"}
  /\ Goto(t, "materialize")
  /\ UNCHANGED <<file, temp, instance, shared, read, outcomes, calls>>

FileFails(t) ==
  /\ pc[t] \in {"create", "write"}
  /\ temp' = "err"
  /\ Goto(t, "materialize")
  /\ UNCHANGED <<file, instance, shared, read, outcomes, calls>>

\* newLibraryWithURL reads the file eagerly; it may also fail for its own reasons.
LoadLibrary(t) ==
  /\ pc[t] = "load"
  /\ read' = read \cup {file}
  /\ \E result \in {"ok", "err"} :
       /\ result = "ok" => file = "complete"
       /\ Loaded(t, result)
  /\ UNCHANGED <<file, temp>>

Progress(t) ==
  \/ EnterShared(t) \/ ReturnShared(t)
  \/ EnterMaterialize(t) \/ Materialized(t) \/ MaterializeFailed(t)
  \/ CreateFile(t) \/ WriteFile(t) \/ FileFails(t) \/ LoadLibrary(t)

Next == \E t \in Threads : CallShared(t) \/ CallLoad(t) \/ Progress(t)

Spec == Init /\ [][Next]_vars

\* Threads are scheduled; a thread blocked in get_or_init waits for the busy one.
FairSpec == Spec /\ \A t \in Threads : WF_vars(Progress(t))

-----------------------------------------------------------------------------
\* Concurrent callers "cannot observe a half-written file".
NoHalfWrittenRead == read \subseteq {"complete"}

\* A failure of the first shared_library call "is still surfaced (and not silently
\* retried)": all callers of one process see one and the same result.
OneOutcome == Cardinality(outcomes) <= 1

\* No caller stays blocked on either OnceLock.
EveryCallReturns == \A t \in Threads : pc[t] # "idle" ~> pc[t] = "idle"
=============================================================================
