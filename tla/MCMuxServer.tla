---------------------------- MODULE MCMuxServer ----------------------------
(* Three clients, two process ids (so that fork() also meets a full process *)
(* table), a backlog of one, for which the kernel queues two.               *)
EXTENDS MuxServer
=============================================================================
