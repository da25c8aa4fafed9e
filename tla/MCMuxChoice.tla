---------------------------- MODULE MCMuxChoice ----------------------------
(* What a client can type at the prompt and what becomes of the rest of its  *)
(* bytes: four characters, a buffer that two of them fill, an int of two     *)
(* bits that 12 overflows, and sockets that hold one byte, so that the write *)
(* of a chunk of two blocks half way.                                        *)
EXTENDS MuxSession
=============================================================================
