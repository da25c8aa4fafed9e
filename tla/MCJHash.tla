------------------------------ MODULE MCJHash ------------------------------
(* Bytes of one bit, words of four bits, and every key up to four words: one *)
(* block of three words, whole or not, or two, the second of one word.       *)
EXTENDS JHash, Bitwise
MCXor(x, y) == x ^^ y
=============================================================================
