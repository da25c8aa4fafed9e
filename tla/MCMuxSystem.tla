---------------------------- MODULE MCMuxSystem ----------------------------
(* The server and the session of its one child, under fairness: which bytes  *)
(* pass does not matter, so there is one for each end, and neither end can   *)
(* starve the other, be ignored, or keep the process or the connection.      *)
EXTENDS MuxSystem
=============================================================================
