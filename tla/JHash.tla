------------------------------- MODULE JHash -------------------------------
(***************************************************************************)
(* jhash.h: Bob Jenkins' hash, on words of any width.  A word is four      *)
(* bytes, its arithmetic drops what is carried out of it, and the byte     *)
(* that comes first is the least significant (the build is little-endian). *)
(* The caller gives it keys of every length, byte by byte.                 *)
(***************************************************************************)
EXTENDS Integers, Sequences

CONSTANTS
  ByteBase,       \* 256
  Bits,           \* 32
  JHASH_INITVAL,  \* 0xdeadbeef
  BitXor(_, _),   \* ^ on words
  InitVals,       \* the initvals that callers pass
  MaxLen          \* bound: the longest key

Base == ByteBase^4
Word == 0..Base - 1

ASSUME JHashAssumption ==
  /\ ByteBase \in Nat \ {0} /\ Base \in Nat \ {0} /\ Bits \in Nat \ {0}
  /\ JHASH_INITVAL \in Word /\ InitVals \subseteq Word
  /\ MaxLen \in Nat

ASSUME BitXorAssumption == \A x, y \in Word : BitXor(x, y) \in Word /\ BitXor(BitXor(x, y), y) = x

\* Words have that many bits and four bytes; spelt out because the prover
\* knows no powers.
ASSUME PowerAssumption ==
  /\ \A s \in 0..Bits : 2^s \in Nat \ {0} /\ 2^s * 2^(Bits - s) = Base
  /\ ByteBase^0 = 1 /\ \A j \in 0..3 : ByteBase^(j + 1) = ByteBase * ByteBase^j

VARIABLES k, initval  \* a key and what it is hashed with

vars == <<k, initval>>

Init == k = <<>> /\ initval \in InitVals
Type(byte) == Len(k) < MaxLen /\ k' = Append(k, byte) /\ UNCHANGED initval
Next == \E byte \in 0..ByteBase - 1 : Type(byte)
Spec == Init /\ [][Next]_vars

-----------------------------------------------------------------------------

Plus(x, y)  == IF x + y < Base THEN x + y ELSE x + y - Base
Minus(x, y) == IF x < y THEN x - y + Base ELSE x - y

\* << loses what it shifts out, and >> brings it back at the other end.
rol32(word, shift) ==
  2^shift * (word % 2^(Bits - shift)) + word \div 2^(Bits - shift)

\* The state (a, b, c), and two statements on it:
State == [{"a", "b", "c"} -> Word]

\* x is rotated in instead of z.
Mut_Round(v, x, z, y, shift) ==
  LET m == Minus(v[x], v[z])
  IN  [v EXCEPT ![x] = BitXor(m, rol32(m, shift % Bits)), ![z] = Plus(@, v[y])]

\*   x -= z;  x ^= rol32(z, shift);  z += y
Round(v, x, z, y, shift) ==
  [v EXCEPT ![x] = BitXor(Minus(@, v[z]), rol32(v[z], shift % Bits)), ![z] = Plus(@, v[y])]

\*   x ^= y;  x -= rol32(y, shift)
FinalRound(v, x, y, shift) ==
  [v EXCEPT ![x] = Minus(BitXor(@, v[y]), rol32(v[y], shift % Bits))]

jhash_mix(v) ==
  LET v1 == Round(v, "a", "c", "b", 4)
      v2 == Round(v1, "b", "a", "c", 6)
      v3 == Round(v2, "c", "b", "a", 8)
      v4 == Round(v3, "a", "c", "b", 16)
      v5 == Round(v4, "b", "a", "c", 19)
  IN  Round(v5, "c", "b", "a", 4)

jhash_final(v) ==
  LET v1 == FinalRound(v, "c", "b", 14)
      v2 == FinalRound(v1, "a", "c", 11)
      v3 == FinalRound(v2, "b", "a", 25)
      v4 == FinalRound(v3, "c", "b", 16)
      v5 == FinalRound(v4, "a", "c", 4)
      v6 == FinalRound(v5, "b", "a", 14)
  IN  FinalRound(v6, "c", "b", 24)

\* What brings the state before back; the code has no need of it.
UndoRound(v, x, z, y, shift) ==
  LET old == Minus(v[z], v[y])
  IN  [v EXCEPT ![x] = Plus(BitXor(@, rol32(old, shift % Bits)), old), ![z] = old]

Unmix(v) ==
  LET v5 == UndoRound(v, "c", "b", "a", 4)
      v4 == UndoRound(v5, "b", "a", "c", 19)
      v3 == UndoRound(v4, "a", "c", "b", 16)
      v2 == UndoRound(v3, "c", "b", "a", 8)
      v1 == UndoRound(v2, "b", "a", "c", 6)
  IN  UndoRound(v1, "a", "c", "b", 4)

-----------------------------------------------------------------------------

\* Both hashes begin with three equal words, add the key to them in blocks of
\* three words, mix after each block but the last, and take c after the last.
Hashed(start, blocks) ==
  LET Added(v, t) == [x \in {"a", "b", "c"} |-> Plus(v[x], blocks[t][x])]
      v[t \in 0..Len(blocks) - 1] ==
        IF t = 0 THEN [x \in {"a", "b", "c"} |-> start] ELSE jhash_mix(Added(v[t - 1], t))
  IN  jhash_final(Added(v[Len(blocks) - 1], Len(blocks)))["c"]

\* The turns of `while (length > block)', and the last block.
Turns(length, block) == 1..(length - 1) \div block + 1

\* The cases of two bytes are swapped.
Mut_WordAt(key, i) ==
  LET byte(j) == IF j <= Len(key) THEN key[j] ELSE 0
  IN  byte(i) + byte(i + 2) * ByteBase + byte(i + 1) * ByteBase^2 + byte(i + 3) * ByteBase^3

\* The word at the i-th byte, of which those behind the key's end are zero:
\* the cases of the switch add what there is, byte by byte.
WordAt(key, i) ==
  LET byte(j) == IF j <= Len(key) THEN key[j] ELSE 0
  IN  byte(i) + byte(i + 1) * ByteBase + byte(i + 2) * ByteBase^2 + byte(i + 3) * ByteBase^3

jhash(key, init) ==
  LET start == Plus(Plus(JHASH_INITVAL, Len(key) % Base), init)
      blocks == [t \in Turns(Len(key), 12) |->
                   [a |-> WordAt(key, 12 * t - 11), b |-> WordAt(key, 12 * t - 7),
                    c |-> WordAt(key, 12 * t - 3)]]
  IN  IF key = <<>> THEN start ELSE Hashed(start, blocks)

jhash2(words, init) ==
  LET start == Plus(Plus(JHASH_INITVAL, (4 * Len(words)) % Base), init)
      word(i) == IF i <= Len(words) THEN words[i] ELSE 0
      blocks == [t \in Turns(Len(words), 3) |->
                   [a |-> word(3 * t - 2), b |-> word(3 * t - 1), c |-> word(3 * t)]]
  IN  IF words = <<>> THEN start ELSE Hashed(start, blocks)

-----------------------------------------------------------------------------

\* The words that are those bytes in memory.
WordsOf(key) ==
  [i \in 1..Len(key) \div 4 |->
     CHOOSE w \in Word : \A j \in 0..3 : (w \div ByteBase^j) % ByteBase = key[4 * i - 3 + j]]

\* A key of whole words has one hash, whether it is given as bytes or words:
\* the two loops leave the same last block to the switch, also when the length
\* is a multiple of the block's, and bytes are put into words in their order.
SameHash == Len(k) % 4 = 0 => jhash(k, initval) = jhash2(WordsOf(k), initval)

\* Mixing three words loses nothing.
Reversible ==
  Len(k) = 12 =>
    LET w == WordsOf(k)
        v == [a |-> w[1], b |-> w[2], c |-> w[3]]
    IN  Unmix(jhash_mix(v)) = v
=============================================================================
