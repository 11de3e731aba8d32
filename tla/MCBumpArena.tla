----------------------------- MODULE MCBumpArena -----------------------------
(* Instance of BumpArena for TLC: an arena one byte short of the largest usize,*)
(* so that rounding up and adding reach the edge.                               *)
EXTENDS BumpArena, TLC

MCSizes  == 0..15
Symmetry == Permutations(Views) \cup Permutations(Handles)
=============================================================================
