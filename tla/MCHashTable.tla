---------------------------- MODULE MCHashTable ----------------------------
(* Three keys that collide, in a table of two buckets.                      *)
EXTENDS HashTable, TLC
CONSTANTS k1, k2, k3
MCHeads == 0..1
MCSymmetry == Permutations(Nodes) \cup Permutations(KeyObjs) \cup Permutations(ValueObjs)
MCHash == k1 :> 1 @@ k2 :> 3 @@ k3 :> 5
=============================================================================
