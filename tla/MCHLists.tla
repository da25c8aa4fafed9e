------------------------------ MODULE MCHLists ------------------------------
(* Four nodes on two lists. *)
EXTENDS HLists
=============================================================================
