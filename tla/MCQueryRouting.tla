--------------------------- MODULE MCQueryRouting ---------------------------
(* Instances of QueryRouting for TLC.  Scans have a row count on each side of  *)
(* the threshold; keys are none, fitting or too wide; HStack bindings are      *)
(* fused or not; sorts and reductions are fused or not.                        *)
EXTENDS QueryRouting

MCScans == [kind : {"Scan"}, rows : {1, 2}, projected : BOOLEAN, opaque : BOOLEAN]
MCJoins == {[kind |-> "Join"]}
MCLeaves == MCScans \cup MCJoins

Node(k, b, f) == [kind |-> k, bits |-> b, fused |-> f]

MCInner ==
  {Project, [kind |-> "Filter"],
   Node("GroupBy", 0, FALSE), Node("GroupBy", 0, TRUE),
   Node("GroupBy", 65, FALSE), Node("GroupBy", 130, FALSE),
   Node("Sort", 0, FALSE), Node("Sort", 0, TRUE),
   Node("HStack", 0, FALSE), Node("HStack", 0, TRUE)}
=============================================================================
