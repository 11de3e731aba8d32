----------------------------- MODULE GroupBuild -----------------------------
(***************************************************************************)
(* What the build phase of a group-by promises (BuildOutput of             *)
(* crates/polars-metal-kernels/src/groupby_build_partitioned/mod.rs): one  *)
(* atomic step from the encoded keys to a group id per row.  The GPU       *)
(* kernel of one partition and the host code that runs it, falls back to   *)
(* the CPU and serves concurrent callers are both shown to implement it.   *)
(***************************************************************************)
EXTENDS Naturals

CONSTANT MayOverflow    \* TRUE for a build that may decline its input

VARIABLES
  keys,          \* the encoded key of each row
  answer         \* a record of kind "none", "overflow", "groups" or "output"

\* Rows share a group exactly when they share a key, and the group ids are
\* 0..n_groups-1 with none unused.
IsGrouping(k, rowToGroup, nGroups) ==
  /\ rowToGroup \in [DOMAIN k -> 0..(nGroups - 1)]
  /\ \A r, q \in DOMAIN k : rowToGroup[r] = rowToGroup[q] <=> k[r] = k[q]
  /\ \A g \in 0..(nGroups - 1) : \E r \in DOMAIN k : rowToGroup[r] = g

\* first_row_per_group: "the index of its first occurrence in the input".
IsFirstRow(rowToGroup, nGroups, firstRow) ==
  /\ DOMAIN firstRow = 0..(nGroups - 1)
  /\ \A g \in 0..(nGroups - 1) :
       /\ firstRow[g] \in DOMAIN rowToGroup
       /\ rowToGroup[firstRow[g]] = g
       /\ \A r \in DOMAIN rowToGroup : rowToGroup[r] = g => firstRow[g] <= r

\* A kernel answers with groups, the host with a whole BuildOutput.
IsAnswer(a) ==
  \/ a.kind = "overflow" /\ MayOverflow
  \/ a.kind = "groups" /\ IsGrouping(keys, a.rowToGroup, a.nGroups)
  \/ /\ a.kind = "output"
     /\ IsGrouping(keys, a.rowToGroup, a.nGroups)
     /\ IsFirstRow(a.rowToGroup, a.nGroups, a.firstRow)

Init == answer.kind = "none" \/ IsAnswer(answer)

Build ==
  /\ answer.kind = "none"
  /\ IsAnswer(answer')
  /\ UNCHANGED keys

\* The next call, with any keys.
Call ==
  /\ answer.kind # "none"
  /\ answer'.kind = "none"

Next == Build \/ Call

Spec == Init /\ [][Next]_<<keys, answer>>
=============================================================================
