---------------------------- MODULE MCSortBuild ----------------------------
(* Instance of SortBuild for TLC: two-digit keys of radix 4, tiles of two SIMD   *)
(* groups of two lanes, and two bits per word.  A tile has as many lanes as a     *)
(* digit has values, as in the code, so that each SIMD group clears counts of the *)
(* other.  Five rows make a full tile and one with a single active row; every     *)
(* column of five of the keys is an input.                                        *)
EXTENDS SortBuild

Key(high, low) == [l \in 0..1 |-> IF l = 0 THEN low ELSE high]
MCKeys == {Key(0, 0), Key(0, 2), Key(2, 0), Key(2, 1)}

Column(n) == [0..(n - 1) -> MCKeys]
MCInputs  == Column(0) \cup Column(1) \cup Column(5)
=============================================================================
