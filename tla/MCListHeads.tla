---------------------------- MODULE MCListHeads ----------------------------
(* Two lists, which can be cut and joined, and three nodes, so that there is *)
(* a first, a middle and a last one.                                         *)
EXTENDS ListHeads
MCSymmetry == Permutations(Nodes) \cup Permutations(Heads)
=============================================================================
