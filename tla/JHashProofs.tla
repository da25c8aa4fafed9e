---------------------------- MODULE JHashProofs ----------------------------
(***************************************************************************)
(* jhash.h says of __jhash_mix() that it mixes three words reversibly:     *)
(* proved for words of every width, one statement after the other.  jhash()*)
(* and jhash2() agree on keys of whole words, because a word is its bytes  *)
(* in one way only.                                                        *)
(***************************************************************************)
EXTENDS JHash, TLAPS

\* What one operator of a round does, another undoes, within words.
LEMMA PlusMinus ==
  ASSUME NEW x \in Word, NEW y \in Word
  PROVE  /\ Plus(x, y) \in Word /\ Minus(x, y) \in Word
         /\ Minus(Plus(x, y), y) = x /\ Plus(Minus(x, y), y) = x
<1>1. Base \in Nat \ {0}
  BY JHashAssumption
<1> QED
  BY <1>1 DEF Plus, Minus, Word

\* Two factors bound the sum of a multiple of one and a remainder.
LEMMA Places ==
  ASSUME NEW P \in Nat \ {0}, NEW Q \in Nat \ {0},
         NEW d \in 0..P - 1, NEW r \in 0..Q - 1
  PROVE  P * r + d \in 0..P * Q - 1
<1>1. P * r + P = P * (r + 1)
  OBVIOUS
<1>2. r + 1 <= Q /\ r + 1 \in Nat
  OBVIOUS
<1>3. P * (r + 1) <= P * Q
  <2>1. Q = (r + 1) + (Q - r - 1) /\ Q - r - 1 \in Nat
    OBVIOUS
  <2>2. P * Q = P * (r + 1) + P * (Q - r - 1)
    BY <2>1, SMT
  <2>3. P * (Q - r - 1) \in Nat
    BY <2>1, SMT
  <2> QED
    BY <2>2, <2>3, SMT
<1>4. P * r \in Nat
  BY SMT
<1> QED
  BY <1>1, <1>3, <1>4, SMT

\* A rotation of a word is a word.
LEMMA RotateIsWord ==
  ASSUME NEW word \in Word, NEW s \in 0..Bits
  PROVE  rol32(word, s) \in Word
<1> DEFINE P == 2^s
           Q == 2^(Bits - s)
<1>1. P \in Nat \ {0} /\ Q \in Nat \ {0} /\ P * Q = Base
  BY JHashAssumption, PowerAssumption
<1>2. word \in Nat /\ word < P * Q
  BY <1>1, JHashAssumption DEF Word
<1> HIDE DEF P, Q
<1>3. word % Q \in 0..Q - 1 /\ word \div Q \in Nat /\ word = Q * (word \div Q) + (word % Q)
  BY <1>1, <1>2, SMT
<1>4. word \div Q \in 0..P - 1
  BY <1>1, <1>2, <1>3, SMT
<1>5. P * (word % Q) + word \div Q \in 0..P * Q - 1
  BY <1>1, <1>3, <1>4, Places
<1> QED
  BY <1>1, <1>5 DEF rol32, P, Q, Word

Names == {"a", "b", "c"}

\* What undoing a round does, with the old value of its second word named.
LEMMA UndoRoundIs ==
  ASSUME NEW v, NEW x, NEW z, NEW y, NEW shift
  PROVE  UndoRound(v, x, z, y, shift)
           = [v EXCEPT ![x] = Plus(BitXor(v[x], rol32(Minus(v[z], v[y]), shift % Bits)), Minus(v[z], v[y])),
                       ![z] = Minus(v[z], v[y])]
  BY Zenon DEF UndoRound

\* One round is undone, whichever of the three words it is about.
LEMMA RoundUndone ==
  ASSUME NEW v \in State, NEW x \in Names, NEW z \in Names, NEW y \in Names,
         x # z, x # y, y # z, NEW shift \in Nat
  PROVE  /\ Round(v, x, z, y, shift) \in State
         /\ UndoRound(Round(v, x, z, y, shift), x, z, y, shift) = v
<1> DEFINE r == rol32(v[z], shift % Bits)
           m == Minus(v[x], v[z])
           u == BitXor(m, r)
           w == Plus(v[z], v[y])
           t == Round(v, x, z, y, shift)
<1>1. v[x] \in Word /\ v[y] \in Word /\ v[z] \in Word
  BY DEF State, Names
<1>2. r \in Word
  <2>1. shift % Bits \in 0..Bits
    BY JHashAssumption, SMT
  <2> QED
    BY <1>1, <2>1, RotateIsWord
<1>3. m \in Word /\ Plus(m, v[z]) = v[x]
  BY <1>1, PlusMinus
<1>4. u \in Word /\ BitXor(u, r) = m
  BY <1>2, <1>3, BitXorAssumption
<1>5. w \in Word /\ Minus(w, v[y]) = v[z]
  BY <1>1, PlusMinus
<1>6. t = [v EXCEPT ![x] = u, ![z] = w]
  BY DEF Round
<1> HIDE DEF r, m, u, w, t
<1>7. t \in State /\ t[x] = u /\ t[z] = w /\ t[y] = v[y]
  BY <1>4, <1>5, <1>6 DEF State, Names
<1>8. UndoRound(t, x, z, y, shift) = [t EXCEPT ![x] = v[x], ![z] = v[z]]
  <2> DEFINE old == Minus(t[z], t[y])
  <2>1. old = v[z]
    BY <1>5, <1>7
  <2>2. UndoRound(t, x, z, y, shift)
          = [t EXCEPT ![x] = Plus(BitXor(t[x], rol32(old, shift % Bits)), old), ![z] = old]
    BY UndoRoundIs
  <2> HIDE DEF old
  <2>3. Plus(BitXor(t[x], rol32(old, shift % Bits)), old) = v[x]
    BY <1>3, <1>4, <1>7, <2>1 DEF r
  <2> QED
    BY <2>1, <2>2, <2>3
<1>9. [t EXCEPT ![x] = v[x], ![z] = v[z]] = v
  BY <1>6, <1>7 DEF State, Names
<1> QED
  BY <1>7, <1>8, <1>9 DEF t

\* __jhash_mix() is reversible: what it makes of three words, of any width,
\* determines them.
THEOREM MixReversible == \A v \in State : Unmix(jhash_mix(v)) = v
<1> SUFFICES ASSUME NEW v \in State
             PROVE  Unmix(jhash_mix(v)) = v
  OBVIOUS
<1> DEFINE v1 == Round(v, "a", "c", "b", 4)
           v2 == Round(v1, "b", "a", "c", 6)
           v3 == Round(v2, "c", "b", "a", 8)
           v4 == Round(v3, "a", "c", "b", 16)
           v5 == Round(v4, "b", "a", "c", 19)
           v6 == Round(v5, "c", "b", "a", 4)
<1>1. v1 \in State /\ UndoRound(v1, "a", "c", "b", 4) = v
  BY RoundUndone DEF Names
<1> HIDE DEF v1
<1>2. v2 \in State /\ UndoRound(v2, "b", "a", "c", 6) = v1
  BY <1>1, RoundUndone DEF Names
<1> HIDE DEF v2
<1>3. v3 \in State /\ UndoRound(v3, "c", "b", "a", 8) = v2
  BY <1>2, RoundUndone DEF Names
<1> HIDE DEF v3
<1>4. v4 \in State /\ UndoRound(v4, "a", "c", "b", 16) = v3
  BY <1>3, RoundUndone DEF Names
<1> HIDE DEF v4
<1>5. v5 \in State /\ UndoRound(v5, "b", "a", "c", 19) = v4
  BY <1>4, RoundUndone DEF Names
<1> HIDE DEF v5
<1>6. v6 \in State /\ UndoRound(v6, "c", "b", "a", 4) = v5
  BY <1>5, RoundUndone DEF Names
<1> HIDE DEF v6
<1>7. jhash_mix(v) = v6
  BY DEF jhash_mix, v1, v2, v3, v4, v5, v6
<1> QED
  BY <1>1, <1>2, <1>3, <1>4, <1>5, <1>6, <1>7 DEF Unmix
-----------------------------------------------------------------------------
(* Bytes and words *)

Byte == 0..ByteBase - 1

\* Four bytes, the least significant first.
OfBytes(b0, b1, b2, b3) == b0 + b1 * ByteBase + b2 * ByteBase^2 + b3 * ByteBase^3

\* A division with its remainder.
LEMMA DivMod ==
  ASSUME NEW P \in Nat \ {0}, NEW q \in Nat, NEW r \in 0..P - 1
  PROVE  (P * q + r) \div P = q /\ (P * q + r) % P = r
<1> DEFINE n == P * q + r
           d == n \div P
<1>1. P * q \in Nat
  BY SMT
<1>2. n \in Nat
  BY <1>1
<1> HIDE DEF n
<1>3. d \in Nat /\ n % P \in 0..P - 1 /\ n = P * d + (n % P)
  BY <1>2, SMT
<1> HIDE DEF d
<1>4. P * (d - q) = r - (n % P)
  <2>1. P * (d - q) = P * d - P * q
    BY <1>3, SMT
  <2> QED
    BY <1>1, <1>3, <2>1, SMT DEF n
<1>5. ~(d - q >= 1)
  <2> SUFFICES ASSUME d - q >= 1 PROVE FALSE
    OBVIOUS
  <2>1. P * (d - q) = P + P * (d - q - 1) /\ P * (d - q - 1) \in Nat
    BY <1>3, SMT
  <2> QED
    BY <1>3, <1>4, <2>1, SMT
<1>6. ~(d - q <= -1)
  <2> SUFFICES ASSUME d - q <= -1 PROVE FALSE
    OBVIOUS
  <2>1. P * (d - q) = -P - P * (q - d - 1) /\ P * (q - d - 1) \in Nat
    BY <1>3, SMT
  <2> QED
    BY <1>3, <1>4, <2>1, SMT
<1>7. d = q
  BY <1>3, <1>5, <1>6
<1> QED
  BY <1>1, <1>2, <1>3, <1>7 DEF n, d

\* The places of the bytes.
LEMMA Powers ==
  /\ ByteBase \in Nat \ {0} /\ ByteBase * ByteBase \in Nat \ {0}
  /\ ByteBase^0 = 1 /\ ByteBase^1 = ByteBase /\ ByteBase^2 = ByteBase * ByteBase
  /\ ByteBase^3 = (ByteBase * ByteBase) * ByteBase /\ ByteBase^3 \in Nat \ {0}
  /\ Base = (ByteBase * ByteBase) * (ByteBase * ByteBase)
<1> DEFINE B == ByteBase
<1>1. B \in Nat \ {0}
  BY JHashAssumption
<1>2. B^0 = 1 /\ B^(0 + 1) = B * B^0 /\ B^(1 + 1) = B * B^1 /\ B^(2 + 1) = B * B^2 /\ B^(3 + 1) = B * B^3
  BY PowerAssumption
<1>3. B^1 = B /\ B^2 = B * B /\ B^3 = B * (B * B) /\ B^4 = B * (B * (B * B))
  BY <1>1, <1>2
<1> HIDE DEF B
<1>4. B * B \in Nat \ {0}
  BY <1>1, SMT
<1>5. B * (B * B) = (B * B) * B /\ B * (B * (B * B)) = (B * B) * (B * B)
  BY <1>1, SMT
<1>6. (B * B) * B \in Nat \ {0}
  <2> DEFINE C == B * B
  <2> HIDE DEF C
  <2>1. C \in Nat \ {0}
    BY <1>4 DEF C
  <2>2. C * B \in Nat \ {0}
    BY <1>1, <2>1, SMT
  <2> QED
    BY <2>2 DEF C
<1> QED
  BY <1>1, <1>2, <1>3, <1>4, <1>5, <1>6 DEF Base, B

\* Four bytes make a word, and can be read from it.
LEMMA BytesOfWord ==
  ASSUME NEW b0 \in Byte, NEW b1 \in Byte, NEW b2 \in Byte, NEW b3 \in Byte,
         NEW w, w = OfBytes(b0, b1, b2, b3)
  PROVE  /\ w \in Word
         /\ (w \div ByteBase^0) % ByteBase = b0 /\ (w \div ByteBase^1) % ByteBase = b1
         /\ (w \div ByteBase^2) % ByteBase = b2 /\ (w \div ByteBase^3) % ByteBase = b3
<1> DEFINE B == ByteBase
           C == B * B
           lo == B * b1 + b0
           hi == B * b3 + b2
<1>1. /\ B \in Nat \ {0} /\ C \in Nat \ {0} /\ C * B \in Nat \ {0}
      /\ B^0 = 1 /\ B^1 = B /\ B^2 = C /\ B^3 = C * B /\ Base = C * C
  BY Powers
<1>2. b0 \in 0..B - 1 /\ b1 \in 0..B - 1 /\ b2 \in 0..B - 1 /\ b3 \in 0..B - 1
  BY DEF Byte
<1>3. w = b0 + b1 * B + b2 * C + b3 * (C * B)
  BY <1>1 DEF OfBytes
<1>4. lo \in 0..C - 1 /\ hi \in 0..C - 1
  <2> HIDE DEF B
  <2> QED
    BY <1>1, <1>2, Places
<1> DEFINE mid == B * hi + b1
           rest == C * b2 + lo
<1>5. w = C * hi + lo /\ w = B * mid + b0 /\ w = (C * B) * b3 + rest
  <2> HIDE DEF B
  <2> QED
    BY <1>1, <1>2, <1>3, SMT
<1> HIDE DEF B, C, lo, hi
<1>6. w \in Word
  BY <1>1, <1>4, <1>5, Places DEF Word
<1>7. w \div B = mid /\ w % B = b0 /\ mid % B = b1
  <2>1. B * hi \in Nat
    BY <1>1, <1>4, SMT
  <2>2. mid \in Nat
    BY <1>1, <1>2, <2>1
  <2>3. (B * hi + b1) % B = b1
    <3>1. B \in Nat \ {0} /\ hi \in Nat /\ b1 \in 0..B - 1
      BY <1>1, <1>2, <1>4
    <3> QED
      BY <3>1, DivMod
  <2> HIDE DEF mid
  <2> QED
    <3>1. B \in Nat \ {0} /\ mid \in Nat /\ b0 \in 0..B - 1
      BY <1>1, <1>2, <2>2
    <3>2. (B * mid + b0) \div B = mid /\ (B * mid + b0) % B = b0
      BY <3>1, DivMod
    <3>3. mid % B = b1
      BY <2>3 DEF mid
    <3> QED
      BY <1>5, <3>2, <3>3
<1>8. w \div C = hi /\ hi % B = b2
  <2>1. hi \in Nat
    BY <1>1, <1>4
  <2>2. w \div C = hi
    <3>1. C \in Nat \ {0} /\ hi \in Nat /\ lo \in 0..C - 1
      BY <1>1, <1>4
    <3>2. (C * hi + lo) \div C = hi
      BY <3>1, DivMod
    <3> QED
      BY <1>5, <3>2
  <2>3. hi % B = b2
    <3>1. B \in Nat \ {0} /\ b3 \in Nat /\ b2 \in 0..B - 1
      BY <1>1, <1>2
    <3>2. (B * b3 + b2) % B = b2
      BY <3>1, DivMod
    <3> QED
      BY <3>2 DEF hi
  <2> QED
    BY <2>2, <2>3
<1>9. w \div (C * B) = b3 /\ b3 % B = b3
  <2>1. rest \in 0..C * B - 1
    BY <1>1, <1>2, <1>4, Places
  <2> HIDE DEF rest
  <2> DEFINE E == C * B
  <2>2. E \in Nat \ {0} /\ rest \in 0..E - 1 /\ w = E * b3 + rest
    BY <1>1, <1>5, <2>1
  <2> HIDE DEF E
  <2>3. w \div E = b3
    BY <1>1, <1>2, <2>2, DivMod
  <2>4. b3 % B = b3
    BY <1>1, <1>2
  <2> QED
    BY <2>3, <2>4 DEF E
<1>10. w \div 1 = w
  BY <1>1, <1>6 DEF Word
<1> QED
  BY <1>1, <1>6, <1>7, <1>8, <1>9, <1>10 DEF B

\* Every word is four bytes.
LEMMA WordOfBytes ==
  ASSUME NEW w \in Word
  PROVE  \E b0, b1, b2, b3 \in Byte : w = OfBytes(b0, b1, b2, b3)
<1> DEFINE B == ByteBase
           C == B * B
<1>1. /\ B \in Nat \ {0} /\ C \in Nat \ {0}
      /\ B^0 = 1 /\ B^1 = B /\ B^2 = C /\ B^3 = C * B /\ Base = C * C
  BY Powers
<1>2. C = B * B
  OBVIOUS
<1>3. w \in Nat /\ w < C * C
  BY <1>1, JHashAssumption DEF Word
<1> HIDE DEF B, C
<1> DEFINE lo == w % C
           hi == w \div C
<1>4. lo \in 0..C - 1 /\ hi \in Nat /\ w = C * hi + lo
  BY <1>1, <1>3, SMT
<1>5. hi \in 0..C - 1
  BY <1>1, <1>3, <1>4, SMT
<1> HIDE DEF lo, hi
<1>6. ASSUME NEW x \in 0..C - 1
      PROVE  \E d, e \in 0..B - 1 : x = B * e + d
  <2> DEFINE d == x % B
             e == x \div B
  <2>1. x \in Nat /\ x < B * B
    BY <1>1, <1>2
  <2>2. d \in 0..B - 1 /\ e \in Nat /\ x = B * e + d
    BY <1>1, <2>1, SMT
  <2> HIDE DEF d, e
  <2>3. e \in 0..B - 1
    BY <1>1, <2>1, <2>2, SMT
  <2> QED
    BY <2>2, <2>3
<1>7. PICK b0, b1 \in 0..B - 1 : lo = B * b1 + b0
  BY <1>4, <1>6
<1>8. PICK b2, b3 \in 0..B - 1 : hi = B * b3 + b2
  BY <1>5, <1>6
<1>9. w = b0 + b1 * B + b2 * C + b3 * (C * B)
  BY <1>1, <1>4, <1>7, <1>8, SMT
<1> QED
  BY <1>1, <1>7, <1>8, <1>9 DEF OfBytes, Byte, B

\* A byte of a key; there is nothing behind its end.
ByteAt(key, j) == IF j <= Len(key) THEN key[j] ELSE 0

\* The switch puts the bytes that there are together.
LEMMA WordAtIs ==
  ASSUME NEW key \in Seq(Byte), NEW i \in Nat \ {0}
  PROVE  /\ \A j \in Nat \ {0} : ByteAt(key, j) \in Byte
         /\ WordAt(key, i) = OfBytes(ByteAt(key, i), ByteAt(key, i + 1), ByteAt(key, i + 2), ByteAt(key, i + 3))
         /\ WordAt(key, i) \in Word
<1>1. ASSUME NEW j \in Nat \ {0} PROVE ByteAt(key, j) \in Byte
  <2>1. Len(key) \in Nat /\ (j <= Len(key) => key[j] \in Byte) /\ 0 \in Byte
    BY JHashAssumption DEF Byte
  <2> QED
    BY <2>1 DEF ByteAt
<1>2. WordAt(key, i) = OfBytes(ByteAt(key, i), ByteAt(key, i + 1), ByteAt(key, i + 2), ByteAt(key, i + 3))
  BY DEF WordAt, OfBytes, ByteAt
<1>3. i + 1 \in Nat \ {0} /\ i + 2 \in Nat \ {0} /\ i + 3 \in Nat \ {0}
  OBVIOUS
<1>4. WordAt(key, i) \in Word
  BY <1>1, <1>2, <1>3, BytesOfWord
<1> QED
  BY <1>1, <1>2, <1>4

\* The words in memory are those that the switch puts together.
LEMMA WordsOfIs ==
  ASSUME NEW key \in Seq(Byte), NEW n \in 1..Len(key) \div 4
  PROVE  WordsOf(key)[n] = WordAt(key, 4 * n - 3)
<1> DEFINE Is(w) == \A j \in 0..3 : (w \div ByteBase^j) % ByteBase = key[4 * n - 3 + j]
           a == WordAt(key, 4 * n - 3)
           b(j) == key[4 * n - 3 + j]
<1>1. Len(key) \in Nat /\ n \in Nat /\ 4 * n <= Len(key)
  BY SMT
<1>2. \A j \in 0..3 : b(j) \in Byte /\ 4 * n - 3 + j <= Len(key)
  BY <1>1
<1>3. a = OfBytes(b(0), b(1), b(2), b(3)) /\ a \in Word
  <2>1. 4 * n - 3 \in Nat \ {0} /\ \A j \in 0..3 : ByteAt(key, 4 * n - 3 + j) = b(j)
    BY <1>1, <1>2 DEF ByteAt
  <2>2. /\ ByteAt(key, 4 * n - 3) = b(0) /\ ByteAt(key, (4 * n - 3) + 1) = b(1)
        /\ ByteAt(key, (4 * n - 3) + 2) = b(2) /\ ByteAt(key, (4 * n - 3) + 3) = b(3)
    BY <1>1, <2>1
  <2> HIDE DEF b
  <2>3. /\ a = OfBytes(ByteAt(key, 4 * n - 3), ByteAt(key, (4 * n - 3) + 1), ByteAt(key, (4 * n - 3) + 2),
                       ByteAt(key, (4 * n - 3) + 3))
        /\ a \in Word
    BY <2>1, WordAtIs
  <2> QED
    BY <2>2, <2>3
<1>4. 0..3 = {0, 1, 2, 3} /\ b(0) \in Byte /\ b(1) \in Byte /\ b(2) \in Byte /\ b(3) \in Byte
  BY <1>2
<1>5. \A w : Is(w) <=> /\ (w \div ByteBase^0) % ByteBase = b(0) /\ (w \div ByteBase^1) % ByteBase = b(1)
                       /\ (w \div ByteBase^2) % ByteBase = b(2) /\ (w \div ByteBase^3) % ByteBase = b(3)
  BY <1>4, Zenon
<1> HIDE DEF Is, a, b
<1>6. Is(a)
  BY <1>3, <1>4, <1>5, BytesOfWord
<1>7. ASSUME NEW w \in Word, Is(w) PROVE w = a
  <2>1. PICK b0, b1, b2, b3 \in Byte : w = OfBytes(b0, b1, b2, b3)
    BY WordOfBytes
  <2>2. /\ (w \div ByteBase^0) % ByteBase = b0 /\ (w \div ByteBase^1) % ByteBase = b1
        /\ (w \div ByteBase^2) % ByteBase = b2 /\ (w \div ByteBase^3) % ByteBase = b3
    BY <2>1, BytesOfWord
  <2>3. b0 = b(0) /\ b1 = b(1) /\ b2 = b(2) /\ b3 = b(3)
    BY <1>5, <1>7, <2>2, Zenon
  <2> QED
    BY <1>3, <2>1, <2>3
<1>8. (CHOOSE w \in Word : Is(w)) = a
  BY <1>3, <1>6, <1>7
<1>9. WordsOf(key)[n] = CHOOSE w \in Word : Is(w)
  BY DEF WordsOf, Is
<1> QED
  BY <1>8, <1>9 DEF a

\* What the caller gives are bytes.
Typing == k \in Seq(Byte)

\* The caller appends nothing else.
LEMMA Typed == Spec => []Typing
<1>1. Init => Typing
  BY DEF Init, Typing
<1>2. Typing /\ [Next]_vars => Typing'
  <2>1. ASSUME Typing, NEW byte \in Byte, Type(byte) PROVE Typing'
    BY <2>1 DEF Typing, Type
  <2>2. ASSUME Typing, UNCHANGED vars PROVE Typing'
    BY <2>2 DEF Typing, vars
  <2> QED
    BY <2>1, <2>2 DEF Next, Byte
<1> QED
  BY <1>1, <1>2, PTL DEF Spec

-----------------------------------------------------------------------------

\* Mixing loses nothing of the first block of a key either, for bytes and
\* words of every width.
THEOREM KeyReversible == Spec => []Reversible
<1>1. ASSUME Typing, Len(k) = 12
      PROVE  LET w == WordsOf(k)
                 v == [a |-> w[1], b |-> w[2], c |-> w[3]]
             IN  Unmix(jhash_mix(v)) = v
  <2> DEFINE w == WordsOf(k)
             v == [a |-> w[1], b |-> w[2], c |-> w[3]]
  <2>1. ASSUME NEW n \in 1..3 PROVE w[n] \in Word
    <3>1. n \in 1..Len(k) \div 4 /\ 4 * n - 3 \in Nat \ {0}
      BY <1>1
    <3> QED
      BY <1>1, <3>1, WordsOfIs, WordAtIs DEF Typing
  <2>2. w[1] \in Word /\ w[2] \in Word /\ w[3] \in Word
    BY <2>1
  <2> HIDE DEF w
  <2>3. v \in State
    BY <2>2 DEF State
  <2> HIDE DEF v
  <2>4. Unmix(jhash_mix(v)) = v
    BY <2>3, MixReversible
  <2> QED
    BY <2>4 DEF v, w
<1>2. Typing => Reversible
  BY <1>1 DEF Reversible
<1> QED
  BY <1>2, Typed, PTL

\* A key of whole words has one hash, whether jhash() is given its bytes or
\* jhash2() its words, for keys of every length.
THEOREM OneHash == Spec => []SameHash
<1>1. ASSUME Typing, Len(k) % 4 = 0
      PROVE  jhash(k, initval) = jhash2(WordsOf(k), initval)
  <2> DEFINE L == Len(k)
             m == L \div 4
             w == WordsOf(k)
             word(i) == IF i <= Len(w) THEN w[i] ELSE 0
  <2>1. L \in Nat /\ m \in Nat /\ L = 4 * m /\ k \in Seq(Byte)
    BY <1>1 DEF Typing
  <2>2. Len(w) = m /\ \A n \in 1..m : w[n] = WordAt(k, 4 * n - 3)
    <3>1. Len(w) = m
      BY <2>1 DEF WordsOf
    <3> QED
      BY <2>1, <3>1, WordsOfIs
  <2>3. k = <<>> <=> w = <<>>
    <3>1. k = <<>> <=> L = 0
      BY <2>1
    <3>2. w = <<>> <=> m = 0
      BY <2>1, <2>2 DEF WordsOf
    <3> QED
      BY <2>1, <3>1, <3>2
  <2>4. ASSUME NEW n \in Nat \ {0} PROVE WordAt(k, 4 * n - 3) = word(n)
    <3>1. CASE n <= m
      BY <2>1, <2>2, <3>1
    <3>2. CASE ~(n <= m)
      <4>1. 4 * n - 3 \in Nat \ {0} /\ \A j \in 0..3 : ~(4 * n - 3 + j <= L)
        BY <2>1, <3>2
      <4>2. /\ ByteAt(k, 4 * n - 3) = 0 /\ ByteAt(k, (4 * n - 3) + 1) = 0
            /\ ByteAt(k, (4 * n - 3) + 2) = 0 /\ ByteAt(k, (4 * n - 3) + 3) = 0
        BY <2>1, <4>1 DEF ByteAt
      <4>3. WordAt(k, 4 * n - 3) = OfBytes(0, 0, 0, 0)
        BY <2>1, <4>1, <4>2, WordAtIs
      <4>4. OfBytes(0, 0, 0, 0) = 0
        BY Powers DEF OfBytes
      <4> QED
        BY <2>2, <3>2, <4>3, <4>4
    <3> QED
      BY <3>1, <3>2
  <2>5. CASE k = <<>>
    <3>1. Len(<<>>) = 0 /\ 4 * 0 = 0
      OBVIOUS
    <3> QED
      BY <2>3, <2>5, <3>1 DEF jhash, jhash2
  <2>6. CASE k # <<>>
    <3> DEFINE bytes == [t \in Turns(L, 12) |->
                          [a |-> WordAt(k, 12 * t - 11), b |-> WordAt(k, 12 * t - 7),
                           c |-> WordAt(k, 12 * t - 3)]]
               words == [t \in Turns(Len(w), 3) |->
                          [a |-> word(3 * t - 2), b |-> word(3 * t - 1), c |-> word(3 * t)]]
    <3>1. m > 0
      BY <2>1, <2>6
    <3>2. Turns(L, 12) = Turns(Len(w), 3) /\ Turns(L, 12) \subseteq Nat \ {0}
      <4>1. (4 * m - 1) \div 12 = (m - 1) \div 3
        BY <2>1, <3>1
      <4> QED
        BY <2>1, <2>2, <4>1 DEF Turns
    <3>3. ASSUME NEW t \in Nat \ {0}
          PROVE  /\ WordAt(k, 12 * t - 11) = word(3 * t - 2)
                 /\ WordAt(k, 12 * t - 7) = word(3 * t - 1)
                 /\ WordAt(k, 12 * t - 3) = word(3 * t)
      <4>1. /\ 3 * t - 2 \in Nat \ {0} /\ 3 * t - 1 \in Nat \ {0} /\ 3 * t \in Nat \ {0}
            /\ 12 * t - 11 = 4 * (3 * t - 2) - 3 /\ 12 * t - 7 = 4 * (3 * t - 1) - 3
            /\ 12 * t - 3 = 4 * (3 * t) - 3
        OBVIOUS
      <4> HIDE DEF word
      <4> QED
        BY <2>4, <4>1
    <3>4. bytes = words
      <4> HIDE DEF word
      <4> QED
        BY <3>2, <3>3
    <3> DEFINE start == Plus(Plus(JHASH_INITVAL, L % Base), initval)
    <3>5. jhash(k, initval) = Hashed(start, bytes)
      BY <2>6 DEF jhash
    <3>6. jhash2(w, initval) = Hashed(start, words)
      <4>1. 4 * Len(w) = L /\ w # <<>>
        BY <2>1, <2>2, <2>3, <2>6
      <4> HIDE DEF w, L
      <4> QED
        BY <4>1 DEF jhash2
    <3> QED
      BY <3>4, <3>5, <3>6
  <2> QED
    BY <2>5, <2>6
<1>2. Typing => SameHash
  BY <1>1 DEF SameHash
<1> QED
  BY <1>2, Typed, PTL
=============================================================================
