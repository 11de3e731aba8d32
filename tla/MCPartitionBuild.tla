-------------------------- MODULE MCPartitionBuild --------------------------
(* Instance of PartitionBuild for TLC.  A key is two one-bit words (k \div 2 and *)
(* k % 2).  Keys 0 and 1 share the last slot as their home, and the probe limit  *)
(* is below the numbers of keys and slots, so that probing collides, wraps       *)
(* around and gives up while another slot is free.                               *)
EXTENDS PartitionBuild

MCKeys == 0..2
MCHash == [k \in MCKeys |-> IF k = 2 THEN 0 ELSE 2]
MCTorn == [k \in MCKeys |-> {0, k % 2, k - (k % 2)}]
=============================================================================
