---------------------------- MODULE MCCountdown ----------------------------
(* Hours of four minutes of eight seconds: every start and duration, sleeps *)
(* that a key cuts short, and others that take three seconds too much in all.*)
EXTENDS Countdown
=============================================================================
