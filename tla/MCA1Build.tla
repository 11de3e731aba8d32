------------------------------ MODULE MCA1Build ------------------------------
(* Instance of A1Build for TLC: two callers and three keys in two partitions.  *)
(* The inputs include the empty one, one below the threshold, one below and one *)
(* at the largest size, so that a call finds the buffers too small, too large   *)
(* and full of another caller's rows.                                           *)
EXTENDS A1Build

CONSTANTS c1, c2

MCKeys == 1..3
MCPart == [k \in MCKeys |-> IF k = 2 THEN 1 ELSE 0]
Sized(n, f) == [i \in 0..(n - 1) |-> f[i + 1]]
MCCalls == [c \in {c1, c2} |-> IF c = c1 THEN 2 ELSE 1]
MCInputs ==
  {Sized(0, <<>>), Sized(1, <<2>>), Sized(2, <<2, 2>>), Sized(3, <<3, 2, 1>>)}
=============================================================================
