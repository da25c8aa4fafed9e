-------------------------- MODULE MuxSessionProofs --------------------------
(***************************************************************************)
(* Safety of MuxSession for every number of services, buffer, chunk and    *)
(* socket size, and however many bytes the two ends send.  RelayExact      *)
(* speaks of the bytes from the point where read_int() stopped, and says   *)
(* nothing before the service is dialed: IInv adds what the child has and  *)
(* has not done at every point before it, and which index of the menu and  *)
(* of buff it stands at.  RightService needs ChoiceInv besides: what buff  *)
(* holds, byte by byte, while the number is read, and what of all that the *)
(* client sends, later too, ends it.                                       *)
(***************************************************************************)
EXTENDS MuxSession, NatRecursion, SequenceTheorems, TLAPS

Bytes    == Typed \cup ServiceBytes
Endings  == {"open", "shut", "closed", "reset", "dead", "absent"}
Choosing == pc \in {"menu", "first", "more", "atoi", "decide"}

Pcs      == {"menu", "first", "more", "atoi", "decide", "select", "exited"}
              \cup Ends \cup Range(To)
Buffers  == [0..BufSize - 1 -> Typed \cup Digits \cup {"[", "]", NUL}]

\* TypeOK, with the domains that it does not speak of, and with who sends what.
Typing ==
  /\ pc \in Pcs
  /\ i \in Nat
  /\ buff \in Buffers
  /\ idx \in 0..IdxModulus - 1
  /\ dialed \in 0..NServices - 1 \cup {NoService}
  /\ sel \in Nat
  /\ ready \subseteq Ends
  /\ out \in Seq(Bytes)
  /\ sent \in [Ends -> Seq(Bytes)] /\ sent["client"] \in Seq(Typed)
  /\ taken \in [Ends -> Nat] /\ \A e \in Ends : taken[e] <= Len(sent[e])
  /\ written \in [Ends -> Seq(Bytes)]
  /\ drained \in [Ends -> Nat] /\ \A e \in Ends : Len(written[e]) - drained[e] \in 0..Cap
  /\ ending \in [Ends -> Endings]

\* Until a service is dialed nothing is relayed, and no byte is taken but for
\* the number.
BeforeDial ==
  /\ Choosing =>
       /\ dialed = NoService
       /\ taken["service"] = 0
       /\ \A e \in Ends : written[e] = <<>>
  /\ pc \in {"menu", "first"} => taken["client"] = 0 /\ sel = 0
  /\ pc = "menu" => i <= NServices
  /\ pc \in {"more", "atoi"} => i \in 1..BufSize - 1
  /\ pc = "decide" => sel = taken["client"]
  /\ sel <= taken["client"]

\* A byte is held between read() and write() only, and a client that is
\* absent has sent none.
BetweenReads ==
  /\ Relaying => dialed # NoService
  /\ pc \in Range(To) => out # <<>>
  /\ ending["client"] = "absent" => sent["client"] = <<>>

IInv == Typing /\ BeforeDial /\ BetweenReads /\ RelayExact

-----------------------------------------------------------------------------
(* Numbers *)

\* What a digit is and is not.
LEMMA DigitFacts ==
  /\ NUL \notin Digits /\ "-" \notin Digits
  /\ \A c \in Digits : DigitVal(c) \in 0..9
<1>1. DOMAIN DigitOf = 1..10
  BY DEF DigitOf
<1>2. Digits = {DigitOf[n] : n \in 1..10}
  BY <1>1 DEF Digits, Range
<1>3. \A c \in Digits : \E n \in 0..9 : DigitOf[n + 1] = c
  <2>1. \A n \in 1..10 : n - 1 \in 0..9 /\ (n - 1) + 1 = n
    OBVIOUS
  <2> QED
    BY <1>2, <2>1
<1>4. \A c \in Digits : DigitVal(c) \in 0..9
  BY <1>3 DEF DigitVal
<1>5. Digits = {"0", "1", "2", "3", "4", "5", "6", "7", "8", "9"}
  BY <1>2 DEF DigitOf
<1> QED
  BY <1>4, <1>5 DEF NUL

\* The value of digits s..e - 1 of b, from the left, as atoi() goes.
LEMMA FromTheLeft ==
  ASSUME NEW b, NEW s \in Nat, NEW e \in Nat, s <= e, \A k \in s..e - 1 : b[k] \in Digits
  PROVE  LET upTo[k \in s..e] == IF k = s THEN 0 ELSE 10 * upTo[k - 1] + DigitVal(b[k - 1])
         IN  /\ upTo \in [s..e -> Nat] /\ upTo[s] = 0
             /\ \A k \in s + 1..e : upTo[k] = 10 * upTo[k - 1] + DigitVal(b[k - 1])
<1> DEFINE upTo[k \in s..e] == IF k = s THEN 0 ELSE 10 * upTo[k - 1] + DigitVal(b[k - 1])
           D(k) == IF k \in s + 1..e THEN DigitVal(b[k - 1]) ELSE 0
           G == [p \in Nat \X Nat |-> 10 * p[2] + D(p[1])]
<1>1. \A k \in s + 1..e : k - 1 \in s..e - 1 /\ k - 1 \in s..e
  OBVIOUS
<1>2. \A k \in Nat : D(k) \in Nat
  BY <1>1, DigitFacts
<1> HIDE DEF D
<1>3. \A k \in s + 1..e, x \in Nat : G[<<k, x>>] = 10 * x + D(k)
  BY <1>2
<1>4. \A k \in s + 1..e, x \in Nat : G[<<k, x>>] \in Nat
  BY <1>2
<1> HIDE DEF G
<1>5. PICK f \in [s..e -> Nat] : f[s] = 0 /\ \A k \in s + 1..e : f[k] = G[<<k, f[k - 1]>>]
  <2>1. 0 \in Nat
    OBVIOUS
  <2>2. Recursive(Nat, 0, s, e, G)
    BY <1>4, <2>1, Recursion
  <2> QED
    BY <2>2 DEF Recursive
<1>6. \A k \in s + 1..e : f[k] = 10 * f[k - 1] + DigitVal(b[k - 1])
  BY <1>1, <1>3, <1>5 DEF D
<1>7. f = [k \in s..e |-> IF k = s THEN 0 ELSE 10 * f[k - 1] + DigitVal(b[k - 1])]
  <2> DEFINE g == [k \in s..e |-> IF k = s THEN 0 ELSE 10 * f[k - 1] + DigitVal(b[k - 1])]
  <2>1. ASSUME NEW k \in s..e PROVE f[k] = g[k]
    <3>1. k = s \/ (k # s /\ k \in s + 1..e)
      OBVIOUS
    <3> QED
      BY <3>1, <1>5, <1>6
  <2>2. f = g
    BY <1>5, <2>1
  <2> QED
    BY <2>2
<1>8. upTo = [k \in s..e |-> IF k = s THEN 0 ELSE 10 * upTo[k - 1] + DigitVal(b[k - 1])]
  BY <1>7
<1> HIDE DEF upTo
<1>9. upTo[s] = 0 /\ \A k \in s + 1..e : upTo[k] = 10 * upTo[k - 1] + DigitVal(b[k - 1])
  BY <1>8
<1>10. \A k \in s..e : upTo[k] = f[k]
  <2> DEFINE T == {k \in s..e : upTo[k] = f[k]}
  <2>1. s \in T
    BY <1>5, <1>9
  <2>2. \A k \in s + 1..e : k - 1 \in T => k \in T
    BY <1>6, <1>9
  <2> HIDE DEF T
  <2>3. \A k \in s..e : k \in T
    BY <2>1, <2>2, Upward
  <2> QED
    BY <2>3 DEF T
<1>11. upTo \in [s..e -> Nat]
  BY <1>5, <1>8, <1>10
<1> QED
  BY <1>9, <1>11 DEF upTo

\* The powers of ten that Number() weighs digits with.
LEMMA PowersOfTen ==
  ASSUME NEW d \in Nat
  PROVE  LET tenTo[k \in 0..d] == IF k = 0 THEN 1 ELSE 10 * tenTo[k - 1]
         IN  /\ tenTo \in [0..d -> Nat] /\ tenTo[0] = 1
             /\ \A k \in 1..d : tenTo[k] = 10 * tenTo[k - 1]
<1> DEFINE tenTo[k \in 0..d] == IF k = 0 THEN 1 ELSE 10 * tenTo[k - 1]
           G == [p \in Nat \X Nat |-> 10 * p[2]]
<1>1. \A k \in 0 + 1..d : k \in 1..d /\ k \in Nat /\ k - 1 \in 0..d
  OBVIOUS
<1>2. \A k \in 1..d, x \in Nat : G[<<k, x>>] = 10 * x /\ G[<<k, x>>] \in Nat
  OBVIOUS
<1> HIDE DEF G
<1>3. PICK f \in [0..d -> Nat] : f[0] = 1 /\ \A k \in 1..d : f[k] = G[<<k, f[k - 1]>>]
  <2>1. 1 \in Nat /\ 0 \in Nat /\ 0 <= d /\ \A k \in 0 + 1..d, x \in Nat : G[<<k, x>>] \in Nat
    BY <1>1, <1>2
  <2>2. Recursive(Nat, 1, 0, d, G)
    BY <2>1, Recursion
  <2> QED
    BY <2>2 DEF Recursive
<1>4. f = [k \in 0..d |-> IF k = 0 THEN 1 ELSE 10 * f[k - 1]]
  <2> DEFINE g == [k \in 0..d |-> IF k = 0 THEN 1 ELSE 10 * f[k - 1]]
  <2>1. ASSUME NEW k \in 0..d PROVE f[k] = g[k]
    <3>1. k = 0 \/ (k # 0 /\ k \in 1..d /\ k - 1 \in 0..d)
      OBVIOUS
    <3> QED
      BY <3>1, <1>2, <1>3
  <2>2. f = g
    BY <1>3, <2>1
  <2> QED
    BY <2>2
<1>5. tenTo = [k \in 0..d |-> IF k = 0 THEN 1 ELSE 10 * tenTo[k - 1]]
  BY <1>4
<1> HIDE DEF tenTo
<1>6. tenTo[0] = 1 /\ \A k \in 1..d : tenTo[k] = 10 * tenTo[k - 1]
  BY <1>5
<1>7. \A k \in 0..d : tenTo[k] \in Nat
  <2> DEFINE T == {k \in 0..d : tenTo[k] \in Nat}
  <2>1. 0 \in T /\ \A k \in 0 + 1..d : k - 1 \in T => k \in T
    BY <1>6
  <2> HIDE DEF T
  <2>2. \A k \in 0..d : k \in T
    BY <2>1, Upward
  <2> QED
    BY <2>2 DEF T
<1>8. tenTo \in [0..d -> Nat]
  BY <1>5, <1>7
<1> QED
  BY <1>6, <1>8 DEF tenTo

\* Number() adds the digits by place, and comes to what atoi() has computed
\* from the left.
LEMMA PlaceValue ==
  ASSUME NEW text, NEW d \in Nat, \A k \in 1..d : text[k] \in Digits,
         NEW h \in [0..d -> Nat], h[0] = 0,
         \A k \in 1..d : h[k] = 10 * h[k - 1] + DigitVal(text[k])
  PROVE  Number(text, d) = h[d]
<1> DEFINE tenTo[k \in 0..d] == IF k = 0 THEN 1 ELSE 10 * tenTo[k - 1]
           upTo[k \in 0..d] ==
             IF k = 0 THEN 0 ELSE upTo[k - 1] + DigitVal(text[k]) * tenTo[d - k]
<1>1. /\ tenTo \in [0..d -> Nat] /\ tenTo[0] = 1
      /\ \A k \in 1..d : tenTo[k] = 10 * tenTo[k - 1]
  BY PowersOfTen
<1>2. Number(text, d) = upTo[d]
  BY DEF Number
<1> HIDE DEF tenTo
<1> DEFINE f == [k \in 0..d |-> h[k] * tenTo[d - k]]
<1>3. ASSUME NEW k \in 1..d
      PROVE  h[k] * tenTo[d - k] = h[k - 1] * tenTo[d - (k - 1)] + DigitVal(text[k]) * tenTo[d - k]
  <2> DEFINE x == h[k - 1]
             p == tenTo[d - k]
             v == DigitVal(text[k])
  <2>1. k - 1 \in 0..d /\ d - k \in 0..d /\ d - (k - 1) \in 1..d /\ (d - (k - 1)) - 1 = d - k
    OBVIOUS
  <2>2. x \in Nat /\ p \in Nat /\ v \in Nat
    <3>1. v \in 0..9
      BY DigitFacts
    <3>2. x \in Nat
      BY <2>1
    <3>3. p \in Nat
      BY <1>1, <2>1
    <3>4. v \in Nat
      BY <3>1, SMTT(20)
    <3> QED
      BY <3>2, <3>3, <3>4, Zenon
  <2>3. h[k] = 10 * x + v /\ tenTo[d - (k - 1)] = 10 * p
    BY <1>1, <2>1
  <2> HIDE DEF x, p, v
  <2>4. (10 * x + v) * p = x * (10 * p) + v * p
    BY <2>2
  <2> QED
    BY <2>3, <2>4 DEF x, p, v
<1>4. f = [k \in 0..d |-> IF k = 0 THEN 0 ELSE f[k - 1] + DigitVal(text[k]) * tenTo[d - k]]
  <2> DEFINE g == [k \in 0..d |-> IF k = 0 THEN 0 ELSE f[k - 1] + DigitVal(text[k]) * tenTo[d - k]]
  <2>1. ASSUME NEW k \in 0..d PROVE f[k] = g[k]
    <3>1. CASE k = 0
      <4>1. tenTo[d - k] \in Nat /\ h[0] = 0
        BY <1>1, <3>1
      <4> QED
        BY <3>1, <4>1
    <3>2. CASE k # 0
      <4>1. k \in 1..d /\ k - 1 \in 0..d
        BY <3>2
      <4> QED
        BY <1>3, <3>2, <4>1
    <3> QED
      BY <3>1, <3>2
  <2>2. f = g
    BY <2>1
  <2> QED
    BY <2>2
<1>5. upTo = [k \in 0..d |-> IF k = 0 THEN 0 ELSE upTo[k - 1] + DigitVal(text[k]) * tenTo[d - k]]
  BY <1>4
<1> HIDE DEF upTo
<1>6. upTo[0] = 0 /\ \A k \in 1..d : upTo[k] = upTo[k - 1] + DigitVal(text[k]) * tenTo[d - k]
  BY <1>5
<1>7. \A k \in 0..d : upTo[k] = h[k] * tenTo[d - k]
  <2> DEFINE T == {k \in 0..d : upTo[k] = h[k] * tenTo[d - k]}
  <2>1. 0 \in T
    <3>1. tenTo[d - 0] \in Nat
      BY <1>1
    <3> QED
      BY <1>6, <3>1
  <2>2. \A k \in 0 + 1..d : k - 1 \in T => k \in T
    BY <1>3, <1>6
  <2> HIDE DEF T
  <2>3. \A k \in 0..d : k \in T
    BY <2>1, <2>2, Upward
  <2> QED
    BY <2>3 DEF T
<1>8. upTo[d] = h[d] * tenTo[d - d] /\ d - d = 0 /\ h[d] \in Nat
  BY <1>7
<1>9. upTo[d] = h[d]
  BY <1>1, <1>8
<1> QED
  BY <1>2, <1>9

\* atoi() of a string that ends within the buffer is an unsigned int, and the
\* number that the string spells if that fits one.
LEMMA AtoiValue ==
  ASSUME NEW b, NEW n \in 1..BufSize - 1, b[n] = NUL, NEW text
  PROVE  /\ Atoi(b) \in 0..IdxModulus - 1
         /\ /\ \A k \in 1..n : text[k] \in Digits /\ b[k - 1] = text[k]
            /\ Number(text, n) < IdxModulus
            => Atoi(b) = Number(text, n)
<1> DEFINE start == IF b[0] \in Digits THEN 0 ELSE 1
           end == CHOOSE m \in start..BufSize - 1 :
                    b[m] \notin Digits /\ \A k \in start..m - 1 : b[k] \in Digits
           upTo[k \in start..end] == IF k = start THEN 0 ELSE 10 * upTo[k - 1] + DigitVal(b[k - 1])
           T == {m \in start..BufSize - 1 : b[m] \notin Digits}
<1>1. start \in {0, 1} /\ n \in T /\ T \in SUBSET Nat
  BY DigitFacts, MuxSessionAssumption
<1>2. \E m \in start..BufSize - 1 : b[m] \notin Digits /\ \A k \in start..m - 1 : b[k] \in Digits
  <2>1. PICK m \in T : \A k \in T : m <= k
    BY <1>1, LeastNat
  <2>2. \A k \in start..m - 1 : k \in start..BufSize - 1 /\ ~(m <= k)
    BY <1>1, <2>1, MuxSessionAssumption
  <2>3. \A k \in start..m - 1 : b[k] \in Digits
    BY <2>1, <2>2
  <2> QED
    BY <2>1, <2>3
<1>3. /\ end \in start..BufSize - 1 /\ b[end] \notin Digits
      /\ \A k \in start..end - 1 : b[k] \in Digits
  BY <1>2
<1>4. /\ upTo \in [start..end -> Nat] /\ upTo[start] = 0
      /\ \A k \in start + 1..end : upTo[k] = 10 * upTo[k - 1] + DigitVal(b[k - 1])
  <2> HIDE DEF start, end
  <2>1. start \in Nat /\ end \in Nat /\ start <= end
    BY <1>1, <1>3, MuxSessionAssumption
  <2> QED
    BY <1>3, <2>1, FromTheLeft, ZenonT(40)
<1> DEFINE u == upTo[end]
<1>5. Atoi(b) = CASE b[0] \in Digits \cup Blanks \cup {"+"} -> (IF u > LongMax THEN LongMax ELSE u) % IdxModulus
                  [] b[0] = "-" -> (0 - (IF u > LongMax THEN LongMax + 1 ELSE u)) % IdxModulus
                  [] OTHER -> 0
  BY DEF Atoi
<1>6. u \in Nat /\ LongMax \in Nat /\ IdxModulus \in Nat /\ IdxModulus > 0
  <2> HIDE DEF start, end, upTo
  <2>1. end \in start..end
    BY <1>1, <1>3
  <2> QED
    BY <1>4, <2>1, MuxSessionAssumption
<1>7. Atoi(b) \in 0..IdxModulus - 1
  <2> HIDE DEF u
  <2>1. \A x \in Int : x % IdxModulus \in 0..IdxModulus - 1
    BY <1>6
  <2>2. /\ (IF u > LongMax THEN LongMax ELSE u) \in Int
        /\ (0 - (IF u > LongMax THEN LongMax + 1 ELSE u)) \in Int
        /\ 0 \in 0..IdxModulus - 1
    BY <1>6
  <2> QED
    BY <1>5, <2>1, <2>2, Zenon
<1>8. ASSUME \A k \in 1..n : text[k] \in Digits /\ b[k - 1] = text[k],
             Number(text, n) < IdxModulus
      PROVE  Atoi(b) = Number(text, n)
  <2>1. b[0] \in Digits /\ start = 0
    <3>1. 1 \in 1..n /\ 1 - 1 = 0
      OBVIOUS
    <3> QED
      BY <1>8, <3>1
  <2>2. \A k \in 0..n - 1 : b[k] \in Digits
    <3>1. \A k \in 0..n - 1 : k + 1 \in 1..n /\ (k + 1) - 1 = k
      OBVIOUS
    <3> QED
      BY <1>8, <3>1
  <2>3. b[n] \notin Digits
    BY <1>8, DigitFacts
  <2> HIDE DEF start, end, upTo
  <2>4. end = n
    <3>1. end \in Nat /\ ~(end < n) /\ ~(n < end)
      BY <1>3, <2>1, <2>2, <2>3, MuxSessionAssumption
    <3> QED
      BY <3>1
  <2>5. /\ upTo \in [0..n -> Nat] /\ upTo[0] = 0
        /\ \A k \in 1..n : upTo[k] = 10 * upTo[k - 1] + DigitVal(text[k])
    <3>1. 0 + 1 = 1
      OBVIOUS
    <3> QED
      BY <1>4, <1>8, <2>1, <2>4, <3>1
  <2>6. Number(text, n) = u
    <3>1. n \in Nat /\ \A k \in 1..n : text[k] \in Digits
      BY <1>8
    <3>2. Number(text, n) = upTo[n]
      BY <2>5, <3>1, PlaceValue
    <3> QED
      BY <2>4, <3>2
  <2> HIDE DEF u
  <2>7. u <= LongMax
    <3>1. IdxModulus <= LongMax + 1
      BY <1>6, MuxSessionAssumption
    <3> QED
      BY <1>6, <1>8, <2>6, <3>1
  <2>8. u % IdxModulus = u
    BY <1>6, <1>8, <2>6
  <2> QED
    <3>1. Atoi(b) = (IF u > LongMax THEN LongMax ELSE u) % IdxModulus
      <4>1. b[0] \in Digits \cup Blanks \cup {"+"} /\ b[0] # "-"
        BY <2>1, DigitFacts
      <4> QED
        BY <1>5, <4>1, Zenon
    <3>2. ~(u > LongMax)
      BY <1>6, <2>7
    <3> QED
      BY <2>6, <2>8, <3>1, <3>2
<1> QED
  BY <1>7, <1>8
-----------------------------------------------------------------------------
(* The ends, and sequences *)

\* What To and Peer are.
LEMMA EndFacts ==
  /\ Peer("client") = "service" /\ Peer("service") = "client"
  /\ To["client"] = "to client" /\ To["service"] = "to service"
  /\ Range(To) = {"to client", "to service"}
  /\ \A e \in Ends : Peer(e) \in Ends /\ Peer(e) # e /\ Peer(Peer(e)) = e
  /\ \A e \in Ends : To[e] \in Range(To) /\ After(e) \notin Range(To) /\ e \notin Range(To)
  /\ \A e \in Ends : After(e) \in {"select", "service"}
<1>1. Peer("client") = "service" /\ Peer("service") = "client"
  BY DEF Peer, Ends
<1>2. To["client"] = "to client" /\ To["service"] = "to service"
  BY DEF To
<1>3. DOMAIN To = {"client", "service"}
  BY DEF To
<1> QED
  BY <1>1, <1>2, <1>3 DEF Range, Ends, After

\* A prefix, element by element.
LEMMA PrefixMeans ==
  ASSUME NEW S, NEW s \in Seq(S), NEW t \in Seq(S)
  PROVE  IsPrefix(s, t) <=> Len(s) <= Len(t) /\ \A k \in 1..Len(s) : s[k] = t[k]
<1>1. CASE Len(s) <= Len(t)
  <2> DEFINE u == SubSeq(t, 1, Len(s))
  <2>1. SubSeq(s, 1, Len(s)) = s
    BY SubSeqFull
  <2>2. u \in Seq(S) /\ Len(u) = Len(s) /\ \A k \in 1..Len(s) : u[k] = t[k]
    <3>1. Len(s) \in Nat /\ \A k \in 1..Len(s) : t[k] \in S
      BY <1>1
    <3> QED
      BY <3>1, SubSeqProperties
  <2> HIDE DEF u
  <2>3. s = u <=> \A k \in 1..Len(s) : s[k] = u[k]
    BY <2>2, SeqEqual
  <2> QED
    BY <1>1, <2>1, <2>2, <2>3 DEF IsPrefix, u
<1> QED
  BY <1>1 DEF IsPrefix

\* What is written of a sequence is a prefix of it, and of what it grows to.
LEMMA PrefixOfConcat ==
  ASSUME NEW S, NEW s \in Seq(S), NEW t \in Seq(S)
  PROVE  IsPrefix(s, s \o t)
<1>1. /\ s \o t \in Seq(S) /\ Len(s) <= Len(s \o t)
      /\ \A k \in 1..Len(s) : (s \o t)[k] = s[k]
  BY ConcatProperties, LenProperties
<1> QED
  BY <1>1, PrefixMeans

\* A prefix stays one of what grows.
LEMMA PrefixGrows ==
  ASSUME NEW S, NEW s \in Seq(S), NEW t \in Seq(S), NEW u \in Seq(S), IsPrefix(s, t)
  PROVE  IsPrefix(s, t \o u)
<1>1. Len(s) <= Len(t) /\ \A k \in 1..Len(s) : s[k] = t[k]
  BY PrefixMeans
<1>2. /\ t \o u \in Seq(S) /\ Len(t) <= Len(t \o u)
      /\ \A k \in 1..Len(t) : (t \o u)[k] = t[k]
  BY ConcatProperties, LenProperties
<1>3. Len(s) \in Nat /\ Len(t) \in Nat /\ Len(t \o u) \in Nat
  BY <1>2
<1>4. Len(s) <= Len(t \o u) /\ \A k \in 1..Len(s) : s[k] = (t \o u)[k]
  BY <1>1, <1>2, <1>3
<1> QED
  BY <1>2, <1>4, PrefixMeans

\* write() of one byte moves it, and loses none.
LEMMA OneMoves ==
  ASSUME NEW S, NEW w \in Seq(S), NEW o \in Seq(S), o # <<>>
  PROVE  /\ Append(w, Head(o)) \in Seq(S) /\ Tail(o) \in Seq(S)
         /\ Len(Append(w, Head(o))) = Len(w) + 1
         /\ Append(w, Head(o)) \o Tail(o) = w \o o
<1>1. Head(o) \in S /\ Tail(o) \in Seq(S)
  BY HeadTailProperties
<1>2. Append(w, Head(o)) = w \o <<Head(o)>> /\ Append(w, Head(o)) \in Seq(S)
  BY <1>1, AppendIsConcat, AppendProperties
<1>3. <<Head(o)>> \in Seq(S)
  BY <1>1
<1>4. <<Head(o)>> \o Tail(o) = o
  <2>1. Len(o) \in Nat \ {0}
    BY EmptySeq
  <2>2. o = SubSeq(o, 1, Len(o)) /\ Tail(o) = SubSeq(o, 2, Len(o)) /\ Head(o) = o[1]
    BY SubSeqFull, TailIsSubSeq
  <2> QED
    BY <2>1, <2>2, SubSeqRecursiveFirst
<1> QED
  BY <1>1, <1>2, <1>3, <1>4, ConcatAssociative

\* What more arrives does not change what was relayed.
LEMMA ArrivalKeeps ==
  ASSUME NEW S, NEW s \in Seq(S), NEW c \in S, NEW a \in Nat, NEW n \in 0..Len(s)
  PROVE  SubSeq(Append(s, c), a + 1, n) = SubSeq(s, a + 1, n)
<1>1. /\ Append(s, c) \in Seq(S) /\ \A k \in 1..Len(s) : Append(s, c)[k] = s[k]
      /\ Len(Append(s, c)) = Len(s) + 1
  BY AppendProperties
<1>2. \A k \in a + 1..n : s[k] \in S /\ Append(s, c)[k] \in S
  BY <1>1
<1>3. /\ SubSeq(Append(s, c), a + 1, n) \in Seq(S)
      /\ Len(SubSeq(Append(s, c), a + 1, n)) = IF a + 1 <= n THEN n - (a + 1) + 1 ELSE 0
      /\ \A k \in 1..n - (a + 1) + 1 : SubSeq(Append(s, c), a + 1, n)[k] = Append(s, c)[a + 1 + k - 1]
  BY <1>2, SubSeqProperties
<1>4. /\ SubSeq(s, a + 1, n) \in Seq(S)
      /\ Len(SubSeq(s, a + 1, n)) = IF a + 1 <= n THEN n - (a + 1) + 1 ELSE 0
      /\ \A k \in 1..n - (a + 1) + 1 : SubSeq(s, a + 1, n)[k] = s[a + 1 + k - 1]
  BY <1>2, SubSeqProperties
<1> DEFINE x == SubSeq(Append(s, c), a + 1, n)
           y == SubSeq(s, a + 1, n)
<1>5. ASSUME NEW k \in 1..Len(x) PROVE x[k] = y[k]
  <2>1. k \in 1..n - (a + 1) + 1 /\ a + 1 + k - 1 \in 1..Len(s)
    BY <1>3
  <2> QED
    BY <1>1, <1>3, <1>4, <2>1
<1> QED
  BY <1>3, <1>4, <1>5, SeqEqual

\* A chunk follows what was read before it.
LEMMA ChunkFollows ==
  ASSUME NEW S, NEW s \in Seq(S), NEW a \in Nat, NEW k \in a..Len(s), NEW n \in k..Len(s)
  PROVE  /\ SubSeq(s, a + 1, k) \in Seq(S) /\ SubSeq(s, k + 1, n) \in Seq(S)
         /\ SubSeq(s, a + 1, k) \o SubSeq(s, k + 1, n) = SubSeq(s, a + 1, n)
<1>1. a + 1 \in 1..Len(s) + 1 /\ k \in (a + 1) - 1..Len(s)
  OBVIOUS
<1>2. SubSeq(s, a + 1, k) \o SubSeq(s, k + 1, n) = SubSeq(s, a + 1, n)
  BY <1>1, ConcatAdjacentSubSeq
<1>3. (\A j \in a + 1..k : s[j] \in S) /\ (\A j \in k + 1..n : s[j] \in S)
  OBVIOUS
<1>4. SubSeq(s, a + 1, k) \in Seq(S) /\ SubSeq(s, k + 1, n) \in Seq(S)
  BY <1>3, SubSeqProperties
<1> QED
  BY <1>2, <1>4
-----------------------------------------------------------------------------

\* The types, and where i stands, give TypeOK.
LEMMA TypingOK == Typing /\ BeforeDial => TypeOK
<1> SUFFICES ASSUME Typing, BeforeDial PROVE TypeOK
  OBVIOUS
<1>1. /\ \A e \in Ends : sent[e] \in Seq(Bytes) /\ taken[e] \in 0..Len(sent[e])
      /\ \A e \in Ends : written[e] \in Seq(Bytes) /\ Len(written[e]) - drained[e] \in 0..Cap
      /\ \A e \in Ends : ending[e] \in Endings
  BY DEF Typing
<1>2. i \in CASE pc = "menu" -> 0..NServices
             [] pc \in {"more", "atoi"} -> 1..BufSize - 1
             [] OTHER -> Nat
  <2>1. i \in Nat /\ NServices \in Nat
    BY MuxSessionAssumption DEF Typing
  <2>2. CASE pc = "menu"
    <3>1. i \in 0..NServices
      BY <2>1, <2>2 DEF BeforeDial
    <3> QED
      BY <2>2, <3>1
  <2>3. CASE pc \in {"more", "atoi"}
    BY <2>3 DEF BeforeDial
  <2>4. CASE pc \notin {"menu", "more", "atoi"}
    BY <2>1, <2>4
  <2> QED
    BY <2>2, <2>3, <2>4
<1> QED
  BY <1>1, <1>2 DEF Typing, TypeOK, Pcs, Bytes, Endings, Buffers

\* What the mux holds for d between read() and write().
Held(d) == IF pc = To[d] THEN out ELSE <<>>

\* RelayExact, for what e sends.
RelayOne(e) ==
  IF Healthy(Peer(e))
  THEN written[Peer(e)] \o Held(Peer(e)) = Relayed(e, taken[e])
  ELSE IsPrefix(written[Peer(e)], Relayed(e, taken[e]))

\* RelayExact, end by end.
LEMMA RelayOnes == RelayExact <=> (dialed # NoService => \A e \in Ends : RelayOne(e))
  BY DEF RelayExact, RelayOne, Held

\* What is relayed, written and held are sequences of bytes.
LEMMA RelayedType ==
  ASSUME Typing, BeforeDial, NEW e \in Ends
  PROVE  /\ Relayed(e, taken[e]) \in Seq(Bytes)
         /\ written[Peer(e)] \in Seq(Bytes) /\ Held(Peer(e)) \in Seq(Bytes)
<1>1. taken[e] \in 0..Len(sent[e]) /\ sent[e] \in Seq(Bytes) /\ Base(e) \in Nat
  BY DEF Typing, Base
<1>2. \A k \in Base(e) + 1..taken[e] : sent[e][k] \in Bytes
  BY <1>1
<1>3. Relayed(e, taken[e]) \in Seq(Bytes)
  BY <1>1, <1>2, SubSeqProperties DEF Relayed
<1>4. Peer(e) \in Ends
  BY EndFacts
<1>5. <<>> \in Seq(Bytes)
  OBVIOUS
<1> QED
  BY <1>3, <1>4, <1>5 DEF Typing, Held, Bytes

\* A step that leaves alone what was read from e and written for it keeps
\* RelayOne(e), even if it is the peer that breaks.
LEMMA RelayFrame ==
  ASSUME Typing, BeforeDial, NEW e \in Ends, RelayOne(e),
         written'[Peer(e)] = written[Peer(e)],
         Relayed(e, taken[e])' = Relayed(e, taken[e]),
         Healthy(Peer(e))' => Healthy(Peer(e)) /\ Held(Peer(e))' = Held(Peer(e))
  PROVE  RelayOne(e)'
<1>1. CASE Healthy(Peer(e))'
  BY <1>1 DEF RelayOne
<1>2. CASE ~Healthy(Peer(e))' /\ Healthy(Peer(e))
  <2>1. IsPrefix(written[Peer(e)], written[Peer(e)] \o Held(Peer(e)))
    BY RelayedType, PrefixOfConcat
  <2> QED
    BY <1>2, <2>1 DEF RelayOne
<1>3. CASE ~Healthy(Peer(e))' /\ ~Healthy(Peer(e))
  BY <1>3 DEF RelayOne
<1> QED
  BY <1>1, <1>2, <1>3

\* The same, after a step.
LEMMA RelayOnesNext == RelayExact' <=> (dialed' # NoService => \A e \in Ends : RelayOne(e)')
  BY DEF RelayExact, RelayOne, Held

\* A step that reads and writes nothing keeps RelayExact.
LEMMA RelayKept ==
  ASSUME Typing, BeforeDial, RelayExact, dialed' = dialed, written' = written,
         \A e \in Ends : Relayed(e, taken[e])' = Relayed(e, taken[e]),
         \A d \in Ends : Healthy(d)' => Healthy(d) /\ Held(d)' = Held(d)
  PROVE  RelayExact'
<1>1. ASSUME dialed # NoService, NEW e \in Ends PROVE RelayOne(e)'
  BY <1>1, RelayOnes, RelayFrame, EndFacts
<1> QED
  BY <1>1, RelayOnesNext

\* When the service is dialed nothing has been relayed, and every byte that was
\* read was one of the number.
LEMMA DialedRelay ==
  ASSUME Typing, BeforeDial, pc = "decide", pc' \in {"select", "exited"},
         UNCHANGED <<sel, taken, sent, written, ending>>
  PROVE  RelayExact'
<1>1. ASSUME NEW e \in Ends
      PROVE  Relayed(e, taken[e])' = <<>> /\ written'[Peer(e)] = <<>> /\ Held(Peer(e))' = <<>>
  <2>1. Relayed(e, taken[e])' = SubSeq(sent[e], Base(e) + 1, taken[e])
    BY DEF Relayed, Base
  <2>2. taken[e] \in Nat /\ Base(e) = taken[e]
    BY DEF Typing, BeforeDial, Choosing, Base, Ends
  <2>3. SubSeq(sent[e], taken[e] + 1, taken[e]) = <<>>
    BY <2>2, SubSeqEmpty
  <2>4. written'[Peer(e)] = <<>>
    BY EndFacts DEF BeforeDial, Choosing
  <2>5. Held(Peer(e))' = <<>>
    BY EndFacts DEF Held, Ends
  <2> QED
    BY <2>1, <2>2, <2>3, <2>4, <2>5
<1>2. <<>> \o <<>> = <<>> /\ IsPrefix(<<>>, <<>>)
  <2>1. <<>> \o <<>> = <<>>
    OBVIOUS
  <2>2. Len(<<>>) <= Len(<<>>)
    OBVIOUS
  <2> QED
    BY <2>1, <2>2 DEF IsPrefix
<1> QED
  BY <1>1, <1>2, RelayOnesNext DEF RelayOne

\* How far a read goes.
LEMMA ForwardChunk ==
  ASSUME Typing, NEW e \in Ends, Forward(e)
  PROVE  /\ taken[e] \in Nat /\ Len(sent[e]) \in Nat
         /\ taken' = [taken EXCEPT ![e] = taken'[e]] /\ taken' \in [Ends -> Nat]
         /\ taken'[e] \in taken[e] + 1..Len(sent[e])
         /\ out' = SubSeq(sent[e], taken[e] + 1, taken'[e])
         /\ out' \in Seq(Bytes) /\ out' # <<>>
<1> DEFINE n == IF taken[e] + Chunk < Len(sent[e]) THEN taken[e] + Chunk ELSE Len(sent[e])
<1>1. taken[e] \in Nat /\ Len(sent[e]) \in Nat /\ taken[e] < Len(sent[e]) /\ sent[e] \in Seq(Bytes)
  BY DEF Forward, Data, Typing
<1>2. n \in taken[e] + 1..Len(sent[e])
  BY <1>1, MuxSessionAssumption
<1>3. out' = SubSeq(sent[e], taken[e] + 1, n) /\ taken' = [taken EXCEPT ![e] = n]
  BY DEF Forward
<1> HIDE DEF n
<1>4. taken'[e] = n /\ taken' \in [Ends -> Nat]
  BY <1>1, <1>2, <1>3 DEF Typing
<1>5. \A k \in taken[e] + 1..n : sent[e][k] \in Bytes
  BY <1>1, <1>2
<1>6. out' \in Seq(Bytes) /\ Len(out') = n - (taken[e] + 1) + 1
  BY <1>1, <1>2, <1>3, <1>5, SubSeqProperties
<1>7. out' # <<>>
  <2>1. Len(out') # 0
    BY <1>1, <1>2, <1>6
  <2> QED
    BY <2>1
<1> QED
  BY <1>1, <1>2, <1>3, <1>4, <1>6, <1>7

\* A read that finds data leaves nothing out and nothing twice.
LEMMA ForwardRelay ==
  ASSUME Typing, BeforeDial, RelayExact, dialed # NoService,
         NEW e \in Ends, Forward(e), NEW f \in Ends
  PROVE  RelayOne(f)'
<1>1. RelayOne(f)
  BY RelayOnes
<1>2. /\ pc = e /\ pc' = To[Peer(e)] /\ sent' = sent /\ written' = written
      /\ ending' = ending /\ sel' = sel
  BY DEF Forward, choosing, output
<1>3. Held(Peer(f)) = <<>>
  BY <1>2, EndFacts DEF Held, Ends
<1>4. CASE f # e
  <2>1. Peer(f) = e /\ To[Peer(e)] # To[e]
    BY <1>4, EndFacts DEF Ends
  <2>2. Held(Peer(f))' = <<>>
    BY <1>2, <2>1 DEF Held
  <2>3. taken'[f] = taken[f]
    BY <1>4 DEF Forward, Typing
  <2> QED
    BY <1>1, <1>2, <1>3, <2>2, <2>3, RelayFrame DEF Relayed, Base, Healthy
<1>5. CASE f = e
  <2> DEFINE n == taken'[e]
             x == SubSeq(sent[e], taken[e] + 1, n)
  <2>1. out' = x /\ n \in taken[e]..Len(sent[e]) /\ taken[e] \in Nat /\ Len(sent[e]) \in Nat
    BY ForwardChunk
  <2>2. Base(e) \in Nat /\ taken[e] \in Base(e)..Len(sent[e]) /\ sent[e] \in Seq(Bytes)
    BY <2>1 DEF Base, Typing, BeforeDial
  <2>3. /\ x \in Seq(Bytes) /\ Relayed(e, taken[e]) \in Seq(Bytes)
        /\ Relayed(e, taken[e]) \o x = Relayed(e, n)
    <3> HIDE DEF n
    <3> QED
      BY <2>1, <2>2, ChunkFollows DEF Relayed
  <2>4. Relayed(e, taken[e])' = Relayed(e, n)
    BY <1>2 DEF Relayed, Base
  <2>5. Held(Peer(e))' = x
    BY <1>2, <2>1 DEF Held
  <2>6. written[Peer(e)] \in Seq(Bytes)
    BY RelayedType
  <2>7. CASE Healthy(Peer(e))
    <3>1. written[Peer(e)] = Relayed(e, taken[e])
      BY <1>1, <1>3, <1>5, <2>6, <2>7, ConcatEmptySeq DEF RelayOne
    <3> QED
      BY <1>2, <1>5, <2>3, <2>4, <2>5, <2>7, <3>1 DEF RelayOne, Healthy
  <2>8. CASE ~Healthy(Peer(e))
    <3>1. IsPrefix(written[Peer(e)], Relayed(e, taken[e]) \o x)
      BY <1>1, <1>5, <2>3, <2>6, <2>8, PrefixGrows DEF RelayOne
    <3> QED
      BY <1>2, <1>5, <2>3, <2>4, <2>8, <3>1 DEF RelayOne, Healthy
  <2> QED
    BY <2>7, <2>8
<1> QED
  BY <1>4, <1>5

\* A byte that is written is the next one.
LEMMA WriteRelay ==
  ASSUME Typing, BeforeDial, BetweenReads, RelayExact, dialed # NoService,
         NEW e \in Ends, Write(e), NEW f \in Ends
  PROVE  RelayOne(f)'
<1>1. RelayOne(f)
  BY RelayOnes
<1>2. /\ pc = To[e] /\ sent' = sent /\ taken' = taken /\ ending' = ending /\ sel' = sel
      /\ Healthy(e) /\ out # <<>> /\ out' = Tail(out)
      /\ pc' = IF Tail(out) = <<>> THEN After(Peer(e)) ELSE pc
      /\ written' = [written EXCEPT ![e] = Append(@, Head(out))]
  BY EndFacts DEF Write, choosing, input, BetweenReads
<1>3. Relayed(f, taken[f])' = Relayed(f, taken[f])
  BY <1>2 DEF Relayed, Base
<1>4. \A d \in Ends : After(d) # To[e]
  BY EndFacts DEF After, Ends
<1>5. CASE f = e
  <2>1. written'[Peer(f)] = written[Peer(f)]
    BY <1>2, <1>5, EndFacts DEF Typing
  <2>2. To[e] # To[Peer(e)] /\ After(Peer(e)) # To[Peer(e)]
    BY EndFacts DEF Ends, After
  <2>3. Held(Peer(f)) = <<>> /\ Held(Peer(f))' = <<>>
    BY <1>2, <1>5, <2>2 DEF Held
  <2> QED
    BY <1>1, <1>2, <1>3, <2>1, <2>3, RelayFrame DEF Healthy
<1>6. CASE f # e
  <2>1. Peer(f) = e
    BY <1>6, EndFacts DEF Ends
  <2>2. Held(e) = out /\ Held(e)' = Tail(out)
    BY <1>2, <1>4, EndFacts DEF Held
  <2>3. written[e] \in Seq(Bytes) /\ out \in Seq(Bytes)
    BY DEF Typing
  <2>4. Append(written[e], Head(out)) \o Tail(out) = written[e] \o out
    BY <1>2, <2>3, OneMoves
  <2>5. written'[e] = Append(written[e], Head(out))
    BY <1>2 DEF Typing
  <2> QED
    BY <1>1, <1>2, <1>3, <2>1, <2>2, <2>4, <2>5 DEF RelayOne, Healthy
<1> QED
  BY <1>5, <1>6

\* A menu line fits buff.
LEMMA LineType ==
  ASSUME NEW k \in Nat, k < NServices
  PROVE  Line(k) \in Buffers
<1>1. k + 1 \in 1..10 /\ DOMAIN DigitOf = 1..10
  BY MuxSessionAssumption DEF DigitOf
<1>2. DigitOf[k + 1] \in Digits
  BY <1>1 DEF Digits, Range
<1> QED
  BY <1>2 DEF Line, Buffers

\* The number that read_int() ends with NUL fits an unsigned int.
LEMMA AtoiBuff ==
  ASSUME Typing, BeforeDial, pc = "atoi"
  PROVE  Atoi([buff EXCEPT ![i] = NUL]) \in 0..IdxModulus - 1
<1>1. i \in 1..BufSize - 1 /\ [buff EXCEPT ![i] = NUL][i] = NUL
  BY MuxSessionAssumption DEF Typing, BeforeDial, Buffers
<1> QED
  BY <1>1, AtoiValue

\* What the types need of MuxSessionAssumption.
LEMMA ConstFacts ==
  /\ NServices \in Nat \ {0} /\ BufSize \in Nat /\ BufSize >= 3
  /\ IdxModulus \in Nat \ {0} /\ NServices < IdxModulus
  /\ 0 \in 0..BufSize - 1 /\ IdxModulus - 1 \in 0..IdxModulus - 1
  /\ Chunk \in Nat \ {0} /\ Cap \in Nat \ {0}
<1>1. /\ NServices \in 1..10 /\ BufSize \in Nat /\ BufSize >= 3 /\ IdxModulus \in Nat
      /\ NServices < IdxModulus /\ Chunk \in Nat \ {0} /\ Cap \in Nat \ {0}
  BY MuxSessionAssumption, Zenon
<1> QED
  BY <1>1

\* One more byte of the client is taken.
LEMMA TakeType ==
  ASSUME Typing, Data("client"), Take
  PROVE  /\ NextByte \in Typed /\ sent' = sent
         /\ taken' \in [Ends -> Nat] /\ taken'["service"] = taken["service"]
         /\ taken'["client"] = taken["client"] + 1
         /\ taken'["client"] \in 0..Len(sent["client"])
<1>1. taken["client"] \in Nat /\ sent["client"] \in Seq(Typed) /\ taken["client"] < Len(sent["client"])
  BY DEF Typing, Data, Ends
<1>2. taken["client"] + 1 \in 1..Len(sent["client"])
  BY <1>1
<1>3. NextByte \in Typed
  BY <1>1, <1>2 DEF NextByte
<1>4. /\ taken' \in [Ends -> Nat] /\ taken'["service"] = taken["service"]
      /\ taken'["client"] = taken["client"] + 1 /\ sent' = sent
  BY <1>1 DEF Take, Typing, Ends
<1> QED
  BY <1>2, <1>3, <1>4

\* What a read that failed, or a write, changes of the endings.
LEMMA ReportedType ==
  ASSUME Typing, NEW e \in Ends, Reported(e)
  PROVE  /\ ending' \in [Ends -> Endings]
         /\ \A f \in Ends : ending'[f] = ending[f] \/ (ending[f] = "reset" /\ ending'[f] = "dead")
<1>1. ending \in [Ends -> Endings] /\ "dead" \in Endings
  BY DEF Typing, Endings
<1>2. ending' = [ending EXCEPT ![e] = IF @ = "reset" THEN "dead" ELSE @]
  BY DEF Reported
<1>3. ending'[e] = IF ending[e] = "reset" THEN "dead" ELSE ending[e]
  BY <1>1, <1>2
<1>4. \A f \in Ends : f # e => ending'[f] = ending[f]
  BY <1>1, <1>2
<1>5. ending' \in [Ends -> Endings]
  BY <1>1, <1>2
<1>6. ASSUME NEW f \in Ends
      PROVE  ending'[f] = ending[f] \/ (ending[f] = "reset" /\ ending'[f] = "dead")
  BY <1>3, <1>4
<1> QED
  BY <1>5, <1>6

\* What read_int() puts in buff.
LEMMA ReadType ==
  ASSUME Typing, NEW k \in 0..BufSize - 1,
         \/ Data("client") /\ Take /\ buff' = [buff EXCEPT ![k] = NextByte] /\ UNCHANGED ending
         \/ Failed("client") /\ Reported("client") /\ UNCHANGED <<buff, input>>
  PROVE  /\ buff' \in Buffers
         /\ taken' \in [Ends -> Nat] /\ taken'["service"] = taken["service"] /\ sent' = sent
         /\ taken["client"] <= taken'["client"]
         /\ \A e \in Ends : taken'[e] \in 0..Len(sent[e])
         /\ ending' \in [Ends -> Endings]
         /\ ending'["client"] = "absent" => ending["client"] = "absent"
<1>1. taken \in [Ends -> Nat] /\ ending \in [Ends -> Endings]
      /\ \A e \in Ends : taken[e] \in 0..Len(sent[e])
  BY DEF Typing
<1>2. CASE Data("client") /\ Take /\ buff' = [buff EXCEPT ![k] = NextByte] /\ UNCHANGED ending
  <2>1. buff' \in Buffers
    BY <1>2, TakeType DEF Typing, Buffers
  <2> QED
    BY <1>1, <1>2, <2>1, TakeType DEF Ends
<1>3. CASE Failed("client") /\ Reported("client") /\ UNCHANGED <<buff, input>>
  <2>1. ending' \in [Ends -> Endings] /\ (ending'["client"] = "absent" => ending["client"] = "absent")
    BY <1>3, ReportedType DEF Ends
  <2>2. buff' = buff /\ taken' = taken /\ sent' = sent
    BY <1>3 DEF input
  <2>3. taken["client"] <= taken["client"]
    BY <1>1 DEF Ends
  <2> QED
    BY <1>1, <2>1, <2>2, <2>3 DEF Typing
<1> QED
  BY <1>2, <1>3

\* Where the child can stand.
LEMMA PcFacts ==
  /\ Pcs = {"menu", "first", "more", "atoi", "decide", "select", "exited",
            "client", "service", "to client", "to service"}
  /\ Relaying <=> pc \in {"select", "client", "service", "to client", "to service"}
  /\ "client" \in Ends /\ "service" \in Ends /\ {"client", "service"} = Ends
  BY EndFacts DEF Pcs, Relaying, Ends

\* A byte that an end sends comes after all it has sent.
LEMMA SendType ==
  ASSUME Typing, BeforeDial, NEW e \in Ends, Send(e)
  PROVE  /\ sent' \in [Ends -> Seq(Bytes)] /\ sent'["client"] \in Seq(Typed)
         /\ \A f \in Ends : taken[f] <= Len(sent'[f])
         /\ \A f \in Ends : f # e => sent'[f] = sent[f]
         /\ \A f \in Ends : Relayed(f, taken[f])' = Relayed(f, taken[f])
<1>1. PICK c \in IF e = "client" THEN Typed ELSE ServiceBytes :
        sent' = [sent EXCEPT ![e] = Append(@, c)]
  BY DEF Send
<1>2. c \in Bytes /\ sent \in [Ends -> Seq(Bytes)] /\ sent["client"] \in Seq(Typed)
  BY <1>1 DEF Bytes, Typing
<1>3. Append(sent[e], c) \in Seq(Bytes) /\ Len(Append(sent[e], c)) = Len(sent[e]) + 1
  BY <1>2, AppendProperties
<1>4. sent' \in [Ends -> Seq(Bytes)] /\ sent'[e] = Append(sent[e], c)
      /\ \A f \in Ends : f # e => sent'[f] = sent[f]
  BY <1>1, <1>2, <1>3
<1>5. sent'["client"] \in Seq(Typed)
  <2>1. CASE e = "client"
    BY <1>1, <1>2, <1>4, <2>1, AppendProperties
  <2>2. CASE e # "client"
    BY <1>2, <1>4, <2>2, PcFacts
  <2> QED
    BY <2>1, <2>2
<1>6. \A f \in Ends : taken[f] \in Nat /\ Len(sent[f]) \in Nat /\ taken[f] <= Len(sent[f])
  BY <1>2 DEF Typing
<1>7. ASSUME NEW f \in Ends PROVE taken[f] <= Len(sent'[f])
  BY <1>3, <1>4, <1>6
<1>8. ASSUME NEW f \in Ends PROVE Relayed(f, taken[f])' = Relayed(f, taken[f])
  <2>1. taken' = taken /\ sel' = sel
    BY DEF Send, choosing
  <2>2. Base(f) \in Nat /\ taken[f] \in 0..Len(sent[f])
    BY <1>6 DEF Base, Typing
  <2>3. SubSeq(sent'[f], Base(f) + 1, taken[f]) = SubSeq(sent[f], Base(f) + 1, taken[f])
    <3>1. CASE f = e
      <4>1. c \in Bytes /\ sent[e] \in Seq(Bytes) /\ Base(e) \in Nat /\ taken[e] \in 0..Len(sent[e])
        BY <1>2, <2>2, <3>1
      <4>2. SubSeq(Append(sent[e], c), Base(e) + 1, taken[e]) = SubSeq(sent[e], Base(e) + 1, taken[e])
        BY <4>1, ArrivalKeeps
      <4> QED
        BY <1>4, <3>1, <4>2
    <3>2. CASE f # e
      BY <1>4, <3>2
    <3> QED
      BY <3>1, <3>2
  <2> QED
    BY <2>1, <2>3 DEF Relayed, Base
<1> QED
  BY <1>4, <1>5, <1>7, <1>8

\* Every step of the child, an end or the kernel keeps IInv.
LEMMA StepInv == IInv /\ [Next]_vars => IInv'
<1> SUFFICES ASSUME Typing, BeforeDial, BetweenReads, RelayExact, [Next]_vars
    PROVE  IInv'
  BY DEF IInv
<1> USE DEF Relaying, Choosing, choosing, relaying, input, output
<1>0. i \in Nat /\ sel \in Nat /\ taken["client"] \in Nat /\ Len(sent["client"]) \in Nat
      /\ idx \in 0..IdxModulus - 1 /\ ending \in [Ends -> Endings]
  <2>1. "client" \in Ends
    BY PcFacts
  <2>2. taken["client"] \in Nat /\ sent["client"] \in Seq(Typed)
    BY <2>1 DEF Typing
  <2> QED
    BY <2>2 DEF Typing
<1>1. CASE Menu
  <2>1. Typing'
    <3>1. buff' \in Buffers
      BY <1>1, LineType DEF Menu, Typing
    <3>2. ending' \in [Ends -> Endings]
      BY <1>1, PcFacts, ReportedType DEF Menu
    <3>3. i' \in Nat /\ pc' \in Pcs
      <4>1. i' \in Nat
        BY <1>0, <1>1 DEF Menu
      <4>2. pc' \in Pcs
        BY <1>1, PcFacts DEF Menu
      <4> QED
        BY <4>1, <4>2
    <3> QED
      BY <1>1, <3>1, <3>2, <3>3 DEF Menu, Typing
  <2>2. BeforeDial'
    <3>1. pc' = "menu" => i' <= NServices
      BY <1>0, <1>1, ConstFacts DEF Menu
    <3> QED
      BY <1>1, <3>1, PcFacts DEF Menu, Line, Reported, Typing, BeforeDial
  <2>3. BetweenReads'
    BY <1>1, EndFacts, PcFacts DEF Menu, Line, Reported, Typing, BetweenReads, BeforeDial
  <2>4. RelayExact'
    BY <1>1, PcFacts DEF Menu, Line, Reported, BeforeDial, RelayExact
  <2> QED
    BY <2>1, <2>2, <2>3, <2>4 DEF IInv
<1>2. CASE MenuKilled
  <2>1. Typing'
    BY <1>2, PcFacts DEF MenuKilled, Typing
  <2>2. BeforeDial'
    BY <1>2, PcFacts DEF MenuKilled, Typing, BeforeDial
  <2>3. BetweenReads'
    BY <1>2, EndFacts, PcFacts DEF MenuKilled, Typing, BetweenReads, BeforeDial
  <2>4. RelayExact'
    BY <1>2, PcFacts DEF MenuKilled, BeforeDial, RelayExact
  <2> QED
    BY <2>1, <2>2, <2>3, <2>4 DEF IInv
<1>3. CASE ReadFirst
  <2>0. /\ buff' \in Buffers
        /\ taken' \in [Ends -> Nat] /\ taken'["service"] = taken["service"] /\ sent' = sent
        /\ taken["client"] <= taken'["client"]
        /\ \A e \in Ends : taken'[e] \in 0..Len(sent[e])
        /\ ending' \in [Ends -> Endings]
        /\ ending'["client"] = "absent" => ending["client"] = "absent"
    <3>1. 0 \in 0..BufSize - 1
      BY ConstFacts
    <3> QED
      BY <1>3, <3>1, PcFacts, ReadType DEF ReadFirst
  <2>1. Typing'
    <3>1. i' \in Nat /\ pc' \in Pcs
      BY <1>3, PcFacts DEF ReadFirst
    <3>2. \A e \in Ends : taken'[e] <= Len(sent'[e])
      BY <2>0 DEF Typing
    <3> QED
      BY <1>3, <3>1, <3>2, <2>0 DEF ReadFirst, Typing
  <2>2. BeforeDial'
    <3>1. i' = 1 /\ 1 \in 1..BufSize - 1
      BY <1>3, ConstFacts DEF ReadFirst
    <3>2. taken'["client"] \in Nat
      BY <2>0, PcFacts
    <3>3. sel <= taken'["client"]
      BY <1>0, <2>0, <3>2 DEF BeforeDial
    <3> QED
      BY <1>3, <3>1, <3>3, PcFacts, <2>0 DEF ReadFirst, BeforeDial
  <2>3. BetweenReads'
    BY <1>3, EndFacts, PcFacts, <2>0 DEF ReadFirst, BetweenReads
  <2>4. RelayExact'
    BY <1>3, PcFacts DEF ReadFirst, BeforeDial, RelayExact
  <2> QED
    BY <2>1, <2>2, <2>3, <2>4 DEF IInv
<1>4. CASE FirstEof
  <2>1. Typing'
    BY <1>4, PcFacts, ConstFacts DEF FirstEof, Typing
  <2>2. BeforeDial'
    BY <1>4, PcFacts DEF FirstEof, Typing, BeforeDial
  <2>3. BetweenReads'
    BY <1>4, EndFacts, PcFacts DEF FirstEof, Typing, BetweenReads, BeforeDial
  <2>4. RelayExact'
    BY <1>4, PcFacts DEF FirstEof, BeforeDial, RelayExact
  <2> QED
    BY <2>1, <2>2, <2>3, <2>4 DEF IInv
<1>5. CASE ReadMore
  <2>0. /\ buff' \in Buffers
        /\ taken' \in [Ends -> Nat] /\ taken'["service"] = taken["service"] /\ sent' = sent
        /\ taken["client"] <= taken'["client"]
        /\ \A e \in Ends : taken'[e] \in 0..Len(sent[e])
        /\ ending' \in [Ends -> Endings]
        /\ ending'["client"] = "absent" => ending["client"] = "absent"
    <3>1. i \in 0..BufSize - 1
      BY <1>5, ConstFacts DEF ReadMore, InLoop, Typing
    <3> QED
      BY <1>5, <3>1, PcFacts, ReadType DEF ReadMore
  <2>1. Typing'
    <3>1. i' \in Nat /\ pc' \in Pcs
      <4>1. i' \in Nat
        BY <1>0, <1>5 DEF ReadMore
      <4>2. pc' \in Pcs
        BY <1>5, PcFacts DEF ReadMore
      <4> QED
        BY <4>1, <4>2
    <3>2. \A e \in Ends : taken'[e] <= Len(sent'[e])
      BY <2>0 DEF Typing
    <3> QED
      BY <1>5, <3>1, <3>2, <2>0 DEF ReadMore, Typing
  <2>2. BeforeDial'
    <3>1. i' \in 1..BufSize - 1
      BY <1>5, ConstFacts DEF ReadMore, InLoop, BeforeDial
    <3>2. taken'["client"] \in Nat
      BY <2>0, PcFacts
    <3>3. sel <= taken'["client"]
      BY <1>0, <2>0, <3>2 DEF BeforeDial
    <3> QED
      BY <1>5, <3>1, <3>3, PcFacts, <2>0 DEF ReadMore, BeforeDial
  <2>3. BetweenReads'
    BY <1>5, EndFacts, PcFacts, <2>0 DEF ReadMore, BetweenReads
  <2>4. RelayExact'
    BY <1>5, PcFacts DEF ReadMore, BeforeDial, RelayExact
  <2> QED
    BY <2>1, <2>2, <2>3, <2>4 DEF IInv
<1>6. CASE LoopEnds
  <2>1. Typing'
    BY <1>6, PcFacts DEF LoopEnds, Typing
  <2>2. BeforeDial'
    BY <1>6, PcFacts DEF LoopEnds, Typing, BeforeDial
  <2>3. BetweenReads'
    BY <1>6, EndFacts, PcFacts DEF LoopEnds, Typing, BetweenReads, BeforeDial
  <2>4. RelayExact'
    BY <1>6, PcFacts DEF LoopEnds, BeforeDial, RelayExact
  <2> QED
    BY <2>1, <2>2, <2>3, <2>4 DEF IInv
<1>7. CASE ReadIntReturns
  <2>1. Typing'
    <3>1. idx' \in 0..IdxModulus - 1
      BY <1>7, AtoiBuff DEF ReadIntReturns
    <3>2. buff' \in Buffers
      BY <1>7 DEF ReadIntReturns, Typing, Buffers
    <3>3. sel' \in Nat /\ pc' \in Pcs
      BY <1>7, PcFacts DEF ReadIntReturns, Typing
    <3> QED
      BY <1>7, <3>1, <3>2, <3>3 DEF ReadIntReturns, Typing
  <2>2. BeforeDial'
    <3>1. sel' <= taken'["client"]
      BY <1>0, <1>7 DEF ReadIntReturns
    <3> QED
      BY <1>7, <3>1, PcFacts DEF ReadIntReturns, BeforeDial
  <2>3. BetweenReads'
    BY <1>7, EndFacts, PcFacts DEF ReadIntReturns, Typing, BetweenReads, BeforeDial
  <2>4. RelayExact'
    BY <1>7, PcFacts DEF ReadIntReturns, BeforeDial, RelayExact
  <2> QED
    BY <2>1, <2>2, <2>3, <2>4 DEF IInv
<1>8. CASE WrongIndex
  <2>1. Typing'
    BY <1>8, PcFacts DEF WrongIndex, Typing
  <2>2. BeforeDial'
    BY <1>8, PcFacts DEF WrongIndex, Typing, BeforeDial
  <2>3. BetweenReads'
    BY <1>8, EndFacts, PcFacts DEF WrongIndex, Typing, BetweenReads, BeforeDial
  <2>4. RelayExact'
    BY <1>8, PcFacts DEF WrongIndex, BeforeDial, RelayExact
  <2> QED
    BY <2>1, <2>2, <2>3, <2>4 DEF IInv
<1>9. CASE Connect
  <2>1. Typing'
    <3>1. dialed' \in 0..NServices - 1 /\ pc' \in Pcs
      <4>1. dialed' \in 0..NServices - 1
        BY <1>0, <1>9, ConstFacts DEF Connect
      <4>2. pc' \in Pcs
        BY <1>9, PcFacts DEF Connect
      <4> QED
        BY <4>1, <4>2
    <3> QED
      BY <1>9, <3>1 DEF Connect, Typing
  <2>2. BeforeDial'
    BY <1>9, PcFacts DEF Connect, Typing, BeforeDial
  <2>3. BetweenReads'
    <3>1. dialed' # NoService
      BY <1>0, <1>9, ConstFacts DEF Connect, NoService
    <3> QED
      BY <1>9, <3>1, EndFacts, PcFacts DEF Connect, BetweenReads
  <2>4. RelayExact'
    BY <1>9, PcFacts, DialedRelay DEF Connect
  <2> QED
    BY <2>1, <2>2, <2>3, <2>4 DEF IInv
<1>10. CASE ConnectFails
  <2>1. Typing'
    <3>1. dialed' \in 0..NServices - 1 /\ pc' \in Pcs
      <4>1. dialed' \in 0..NServices - 1
        BY <1>0, <1>10, ConstFacts DEF ConnectFails
      <4>2. pc' \in Pcs
        BY <1>10, PcFacts DEF ConnectFails
      <4> QED
        BY <4>1, <4>2
    <3> QED
      BY <1>10, <3>1 DEF ConnectFails, Typing
  <2>2. BeforeDial'
    BY <1>10, PcFacts DEF ConnectFails, Typing, BeforeDial
  <2>3. BetweenReads'
    BY <1>10, EndFacts, PcFacts DEF ConnectFails, Typing, BetweenReads, BeforeDial
  <2>4. RelayExact'
    BY <1>10, PcFacts, DialedRelay DEF ConnectFails
  <2> QED
    BY <2>1, <2>2, <2>3, <2>4 DEF IInv
<1>11. CASE Select
  <2>1. Typing'
    BY <1>11, PcFacts DEF Select, Typing
  <2>2. BeforeDial'
    BY <1>11, PcFacts DEF Select, Typing, BeforeDial
  <2>3. BetweenReads'
    BY <1>11, EndFacts, PcFacts DEF Select, Typing, BetweenReads, BeforeDial
  <2>4. RelayExact'
    <3>1. \A d \in Ends : Healthy(d)' => Healthy(d) /\ Held(d)' = Held(d)
      BY <1>11, EndFacts, PcFacts DEF Select, Healthy, Held, Typing, BetweenReads
    <3> QED
      BY <1>11, <3>1, RelayKept DEF Select, Relayed, Base
  <2> QED
    BY <2>1, <2>2, <2>3, <2>4 DEF IInv
<1>12. CASE SelectFails
  <2>1. Typing'
    BY <1>12, PcFacts DEF SelectFails, Typing
  <2>2. BeforeDial'
    BY <1>12, PcFacts DEF SelectFails, Typing, BeforeDial
  <2>3. BetweenReads'
    BY <1>12, EndFacts, PcFacts DEF SelectFails, Typing, BetweenReads, BeforeDial
  <2>4. RelayExact'
    <3>1. \A d \in Ends : Healthy(d)' => Healthy(d) /\ Held(d)' = Held(d)
      BY <1>12, EndFacts, PcFacts DEF SelectFails, Healthy, Held, Typing, BetweenReads
    <3> QED
      BY <1>12, <3>1, RelayKept DEF SelectFails, Relayed, Base
  <2> QED
    BY <2>1, <2>2, <2>3, <2>4 DEF IInv
<1>13. CASE SelectAborts
  <2>1. Typing'
    BY <1>13, PcFacts DEF SelectAborts, Typing
  <2>2. BeforeDial'
    BY <1>13, PcFacts DEF SelectAborts, Typing, BeforeDial
  <2>3. BetweenReads'
    BY <1>13, EndFacts, PcFacts DEF SelectAborts, Typing, BetweenReads, BeforeDial
  <2>4. RelayExact'
    <3>1. \A d \in Ends : Healthy(d)' => Healthy(d) /\ Held(d)' = Held(d)
      BY <1>13, EndFacts, PcFacts DEF SelectAborts, Healthy, Held, Typing, BetweenReads
    <3> QED
      BY <1>13, <3>1, RelayKept DEF SelectAborts, Relayed, Base
  <2> QED
    BY <2>1, <2>2, <2>3, <2>4 DEF IInv
<1>14. ASSUME NEW e \in Ends, NotReady(e) PROVE IInv'
  <2>1. Typing'
    BY <1>14, PcFacts DEF NotReady, After, Typing
  <2>2. BeforeDial'
    BY <1>14, PcFacts DEF NotReady, After, Typing, BeforeDial
  <2>3. BetweenReads'
    BY <1>14, EndFacts, PcFacts DEF NotReady, After, Typing, BetweenReads, BeforeDial
  <2>4. RelayExact'
    <3>1. \A d \in Ends : Healthy(d)' => Healthy(d) /\ Held(d)' = Held(d)
      BY <1>14, EndFacts, PcFacts DEF NotReady, After, Healthy, Held, Typing, BetweenReads
    <3> QED
      BY <1>14, <3>1, RelayKept DEF NotReady, After, Relayed, Base
  <2> QED
    BY <2>1, <2>2, <2>3, <2>4 DEF IInv
<1>15. ASSUME NEW e \in Ends, Forward(e) PROVE IInv'
  <2>1. Typing'
    <3>1. /\ taken' \in [Ends -> Nat] /\ out' \in Seq(Bytes)
          /\ \A f \in Ends : taken'[f] <= Len(sent[f])
      <4>1. /\ taken' = [taken EXCEPT ![e] = taken'[e]] /\ taken' \in [Ends -> Nat]
            /\ Len(sent[e]) \in Nat /\ taken'[e] \in taken[e] + 1..Len(sent[e])
            /\ out' \in Seq(Bytes)
        BY <1>15, ForwardChunk
      <4>2. taken'[e] <= Len(sent[e])
        BY <4>1
      <4>3. \A f \in Ends : f # e => taken'[f] = taken[f]
        BY <4>1
      <4> QED
        BY <4>1, <4>2, <4>3 DEF Typing
    <3>2. pc' \in Pcs
      BY <1>15, EndFacts DEF Forward, Pcs
    <3> QED
      BY <1>15, <3>1, <3>2 DEF Forward, Typing
  <2>2. BeforeDial'
    <3>1. pc = e /\ pc' = To[Peer(e)] /\ UNCHANGED <<sel, dialed>>
      BY <1>15 DEF Forward
    <3>2. pc' \in {"to client", "to service"}
      BY <3>1, EndFacts, PcFacts
    <3>3. taken["client"] <= taken'["client"]
      <4>1. CASE e = "client"
        BY <1>0, <1>15, <4>1, ForwardChunk
      <4>2. CASE e # "client"
        <5>1. taken' = [taken EXCEPT ![e] = taken'[e]] /\ "client" \in Ends
          BY <1>15, ForwardChunk, PcFacts
        <5>2. taken'["client"] = taken["client"]
          BY <4>2, <5>1 DEF Typing
        <5> QED
          BY <1>0, <5>2
      <4> QED
        BY <4>1, <4>2
    <3>4. sel' <= taken'["client"]
      <4>1. taken'["client"] \in Nat
        BY <1>15, ForwardChunk, PcFacts
      <4> QED
        BY <1>0, <3>1, <3>3, <4>1 DEF BeforeDial
    <3> QED
      BY <3>2, <3>4, PcFacts DEF BeforeDial
  <2>3. BetweenReads'
    <3>1. out' # <<>> /\ pc' = To[Peer(e)] /\ pc = e /\ UNCHANGED <<sent, ending, dialed>>
      BY <1>15, ForwardChunk DEF Forward
    <3> QED
      BY <3>1, EndFacts, PcFacts DEF BetweenReads
  <2>4. RelayExact'
    <3>1. dialed' = dialed
      BY <1>15 DEF Forward
    <3> QED
      BY <1>15, <3>1, ForwardRelay, RelayOnesNext
  <2> QED
    BY <2>1, <2>2, <2>3, <2>4 DEF IInv
<1>16. ASSUME NEW e \in Ends, ForwardEnds(e) PROVE IInv'
  <2>1. Typing'
    <3>1. ending' \in [Ends -> Endings]
      BY <1>16, ReportedType DEF ForwardEnds
    <3> QED
      BY <1>16, <3>1, PcFacts DEF ForwardEnds, Typing
  <2>2. BeforeDial'
    BY <1>16, PcFacts DEF ForwardEnds, Reported, Typing, BeforeDial
  <2>3. BetweenReads'
    BY <1>16, EndFacts, PcFacts DEF ForwardEnds, Reported, Typing, BetweenReads, BeforeDial
  <2>4. RelayExact'
    <3>1. \A d \in Ends : Healthy(d)' => Healthy(d) /\ Held(d)' = Held(d)
      BY <1>16, EndFacts, PcFacts DEF ForwardEnds, Reported, Healthy, Held, Typing, BetweenReads
    <3> QED
      BY <1>16, <3>1, RelayKept DEF ForwardEnds, Reported, Relayed, Base
  <2> QED
    BY <2>1, <2>2, <2>3, <2>4 DEF IInv
<1>17. ASSUME NEW e \in Ends, Write(e) PROVE IInv'
  <2>1. Typing'
    <3>1. out # <<>> /\ out \in Seq(Bytes) /\ written[e] \in Seq(Bytes)
      BY <1>17, EndFacts DEF Write, BetweenReads, Typing
    <3>2. /\ Append(written[e], Head(out)) \in Seq(Bytes) /\ Tail(out) \in Seq(Bytes)
          /\ Len(Append(written[e], Head(out))) = Len(written[e]) + 1
      BY <3>1, OneMoves
    <3>3. /\ written' \in [Ends -> Seq(Bytes)] /\ written'[e] = Append(written[e], Head(out))
          /\ \A f \in Ends \ {e} : written'[f] = written[f]
      BY <1>17, <3>2 DEF Write, Typing
    <3>4. Len(written'[e]) - drained[e] \in 0..Cap
      BY <1>17, <3>1, <3>2, <3>3, ConstFacts, SMTT(20) DEF Write, Typing
    <3>5. \A f \in Ends : Len(written'[f]) - drained[f] \in 0..Cap
      BY <3>3, <3>4 DEF Typing
    <3>6. pc' \in Pcs
      BY <1>17, EndFacts, PcFacts DEF Write, Typing
    <3>7. UNCHANGED <<i, buff, idx, dialed, sel, ready, sent, taken, drained, ending>> /\ out' = Tail(out)
      BY <1>17 DEF Write
    <3> QED
      BY <3>2, <3>3, <3>5, <3>6, <3>7 DEF Typing
  <2>2. BeforeDial'
    BY <1>17, EndFacts, PcFacts DEF Write, Typing, BeforeDial
  <2>3. BetweenReads'
    BY <1>17, EndFacts, PcFacts DEF Write, After, Typing, BetweenReads, BeforeDial
  <2>4. RelayExact'
    <3>1. dialed' = dialed
      BY <1>17 DEF Write
    <3> QED
      BY <1>17, <3>1, WriteRelay, RelayOnesNext
  <2> QED
    BY <2>1, <2>2, <2>3, <2>4 DEF IInv
<1>18. ASSUME NEW e \in Ends, WriteFails(e) PROVE IInv'
  <2>1. Typing'
    <3>1. ending' \in [Ends -> Endings] /\ out' \in Seq(Bytes)
      BY <1>18, ReportedType DEF WriteFails
    <3>2. pc' \in Pcs
      BY <1>18, EndFacts, PcFacts DEF WriteFails
    <3> QED
      BY <1>18, <3>1, <3>2 DEF WriteFails, Typing
  <2>2. BeforeDial'
    BY <1>18, PcFacts DEF WriteFails, Reported, After, Typing, BeforeDial
  <2>3. BetweenReads'
    BY <1>18, EndFacts, PcFacts DEF WriteFails, Reported, After, Typing, BetweenReads, BeforeDial
  <2>4. RelayExact'
    <3>1. \A d \in Ends : Healthy(d)' => Healthy(d) /\ Held(d)' = Held(d)
      <4> SUFFICES ASSUME NEW d \in Ends, Healthy(d)' PROVE Healthy(d) /\ Held(d)' = Held(d)
        OBVIOUS
      <4>1. pc = To[e] /\ ending[e] \in {"reset", "absent"} /\ pc' = After(Peer(e))
        BY <1>18 DEF WriteFails
      <4>2. ending' = [ending EXCEPT ![e] = IF @ = "reset" THEN "dead" ELSE @]
            /\ ending \in [Ends -> Endings]
        BY <1>18 DEF WriteFails, Reported, Typing
      <4>3. d # e /\ ending'[d] = ending[d]
        BY <4>1, <4>2 DEF Healthy
      <4>4. Peer(e) \in Ends /\ To[d] \in Range(To) /\ To[d] # To[e] /\ pc' \notin Range(To)
        BY <4>1, <4>3, EndFacts, PcFacts
      <4> QED
        BY <4>1, <4>3, <4>4 DEF Healthy, Held
    <3> QED
      BY <1>18, <3>1, RelayKept DEF WriteFails, Reported, After, Relayed, Base
  <2> QED
    BY <2>1, <2>2, <2>3, <2>4 DEF IInv
<1>19. ASSUME NEW e \in Ends, WriteKilled(e) PROVE IInv'
  <2>1. Typing'
    BY <1>19, PcFacts DEF WriteKilled, Typing
  <2>2. BeforeDial'
    BY <1>19, PcFacts DEF WriteKilled, Typing, BeforeDial
  <2>3. BetweenReads'
    BY <1>19, EndFacts, PcFacts DEF WriteKilled, Typing, BetweenReads, BeforeDial
  <2>4. RelayExact'
    <3>1. \A d \in Ends : Healthy(d)' => Healthy(d) /\ Held(d)' = Held(d)
      <4> SUFFICES ASSUME NEW d \in Ends, Healthy(d)' PROVE Healthy(d) /\ Held(d)' = Held(d)
        OBVIOUS
      <4>1. pc = To[e] /\ ending[e] = "dead" /\ pc' = "exited" /\ ending' = ending
        BY <1>19 DEF WriteKilled
      <4>2. d # e
        BY <4>1 DEF Healthy
      <4>3. To[d] \in Range(To) /\ To[d] # To[e] /\ "exited" \notin Range(To)
        BY <4>2, EndFacts, PcFacts
      <4> QED
        BY <4>1, <4>2, <4>3 DEF Healthy, Held
    <3> QED
      BY <1>19, <3>1, RelayKept DEF WriteKilled, Relayed, Base
  <2> QED
    BY <2>1, <2>2, <2>3, <2>4 DEF IInv
<1>20. ASSUME NEW e \in Ends, Send(e) PROVE IInv'
  <2>1. Typing'
    <3>1. sent' \in [Ends -> Seq(Bytes)] /\ sent'["client"] \in Seq(Typed)
          /\ \A f \in Ends : taken[f] <= Len(sent'[f])
      BY <1>20, SendType
    <3> QED
      BY <1>20, <3>1 DEF Send, Typing
  <2>2. BeforeDial'
    BY <1>20, PcFacts DEF Send, There, Typing, BeforeDial
  <2>3. BetweenReads'
    <3>1. ending[e] = "open" /\ UNCHANGED <<pc, dialed, out, ending>>
      BY <1>20 DEF Send
    <3>2. sent'["client"] = sent["client"] \/ e = "client"
      BY <1>20, SendType, PcFacts
    <3> QED
      BY <3>1, <3>2, EndFacts DEF BetweenReads
  <2>4. RelayExact'
    <3>1. \A d \in Ends : Healthy(d)' => Healthy(d) /\ Held(d)' = Held(d)
      BY <1>20, EndFacts, PcFacts DEF Send, There, Healthy, Held, Typing, BetweenReads
    <3> QED
      BY <1>20, SendType, EndFacts, <3>1, RelayKept DEF Send
  <2> QED
    BY <2>1, <2>2, <2>3, <2>4 DEF IInv
<1>21. ASSUME NEW e \in Ends, Drain(e) PROVE IInv'
  <2>1. Typing'
    <3>1. drained' \in [Ends -> Nat] /\ \A f \in Ends : Len(written[f]) - drained'[f] \in 0..Cap
      <4>1. /\ drained[e] < Len(written[e]) /\ drained[e] \in Nat /\ Len(written[e]) \in Nat
            /\ Len(written[e]) - drained[e] \in 0..Cap
        BY <1>21 DEF Drain, Typing
      <4>2. drained[e] + 1 \in Nat /\ Len(written[e]) - (drained[e] + 1) \in 0..Cap
        BY <4>1, ConstFacts
      <4>3. drained' = [drained EXCEPT ![e] = drained[e] + 1]
        BY <1>21 DEF Drain
      <4> QED
        BY <4>2, <4>3 DEF Typing
    <3> QED
      BY <1>21, <3>1 DEF Drain, Typing
  <2>2. BeforeDial'
    BY <1>21, PcFacts DEF Drain, Typing, BeforeDial
  <2>3. BetweenReads'
    BY <1>21, EndFacts, PcFacts DEF Drain, Typing, BetweenReads, BeforeDial
  <2>4. RelayExact'
    <3>1. \A d \in Ends : Healthy(d)' => Healthy(d) /\ Held(d)' = Held(d)
      BY <1>21, EndFacts, PcFacts DEF Drain, Healthy, Held, Typing, BetweenReads
    <3> QED
      BY <1>21, <3>1, RelayKept DEF Drain, Relayed, Base
  <2> QED
    BY <2>1, <2>2, <2>3, <2>4 DEF IInv
<1>22. ASSUME NEW e \in Ends, End(e) PROVE IInv'
  <2>1. Typing'
    <3>1. ending' \in [Ends -> Endings]
      BY <1>22 DEF End, Typing, Endings
    <3> QED
      BY <1>22, <3>1 DEF End, Typing
  <2>2. BeforeDial'
    BY <1>22, PcFacts DEF End, There, Typing, BeforeDial
  <2>3. BetweenReads'
    BY <1>22, EndFacts, PcFacts DEF End, There, Typing, BetweenReads, BeforeDial
  <2>4. RelayExact'
    <3>1. \A d \in Ends : Healthy(d)' => Healthy(d) /\ Held(d)' = Held(d)
      BY <1>22, EndFacts, PcFacts DEF End, There, Healthy, Held, Typing, BetweenReads
    <3> QED
      BY <1>22, <3>1, RelayKept DEF End, There, Relayed, Base
  <2> QED
    BY <2>1, <2>2, <2>3, <2>4 DEF IInv
<1>23. ASSUME NEW e \in Ends, Refuse(e) PROVE IInv'
  <2>1. Typing'
    <3>1. ending' \in [Ends -> Endings]
      BY <1>23 DEF Refuse, Typing, Endings
    <3> QED
      BY <1>23, <3>1 DEF Refuse, Typing
  <2>2. BeforeDial'
    BY <1>23, PcFacts DEF Refuse, Typing, BeforeDial
  <2>3. BetweenReads'
    BY <1>23, EndFacts, PcFacts DEF Refuse, Typing, BetweenReads, BeforeDial
  <2>4. RelayExact'
    <3>1. \A d \in Ends : Healthy(d)' => Healthy(d) /\ Held(d)' = Held(d)
      BY <1>23, EndFacts, PcFacts DEF Refuse, Healthy, Held, Typing, BetweenReads
    <3> QED
      BY <1>23, <3>1, RelayKept DEF Refuse, Relayed, Base
  <2> QED
    BY <2>1, <2>2, <2>3, <2>4 DEF IInv
<1>24. CASE UNCHANGED vars
  <2>1. Typing'
    BY <1>24, PcFacts DEF vars, Typing
  <2>2. BeforeDial'
    BY <1>24, PcFacts DEF vars, Typing, BeforeDial
  <2>3. BetweenReads'
    BY <1>24, EndFacts, PcFacts DEF vars, Typing, BetweenReads, BeforeDial
  <2>4. RelayExact'
    <3>1. \A d \in Ends : Healthy(d)' => Healthy(d) /\ Held(d)' = Held(d)
      BY <1>24, EndFacts, PcFacts DEF vars, Healthy, Held, Typing, BetweenReads
    <3> QED
      BY <1>24, <3>1, RelayKept DEF vars, Relayed, Base
  <2> QED
    BY <2>1, <2>2, <2>3, <2>4 DEF IInv
<1> QED
  BY <1>1, <1>2, <1>3, <1>4, <1>5, <1>6, <1>7, <1>8, <1>9, <1>10, <1>11, <1>12, <1>13, <1>14, <1>15, <1>16, <1>17, <1>18, <1>19, <1>20, <1>21, <1>22, <1>23, <1>24 DEF Next, Step

\* A child that has just started.
LEMMA InitInv == Init => IInv
<1> SUFFICES ASSUME Init PROVE IInv
  OBVIOUS
<1>1. /\ sent \in [Ends -> Seq(Bytes)] /\ sent["client"] \in Seq(Typed)
      /\ written \in [Ends -> Seq(Bytes)]
      /\ \A e \in Ends : Len(sent[e]) = 0 /\ Len(written[e]) = 0
  <2>1. <<>> \in Seq(Bytes) /\ <<>> \in Seq(Typed) /\ Len(<<>>) = 0
    OBVIOUS
  <2>2. sent = [e \in Ends |-> <<>>] /\ written = [e \in Ends |-> <<>>]
    BY DEF Init
  <2> QED
    BY <2>1, <2>2, PcFacts
<1>2. /\ taken \in [Ends -> Nat] /\ drained \in [Ends -> Nat]
      /\ \A e \in Ends : taken[e] = 0 /\ drained[e] = 0
  BY DEF Init
<1>3. /\ \A e \in Ends : taken[e] <= Len(sent[e])
      /\ \A e \in Ends : Len(written[e]) - drained[e] \in 0..Cap
  BY <1>1, <1>2, ConstFacts
<1>4. buff \in Buffers
  BY DEF Init, Buffers
<1>5. idx \in 0..IdxModulus - 1 /\ i \in Nat /\ sel \in Nat
  BY ConstFacts DEF Init
<1>6. ending \in [Ends -> Endings]
  BY DEF Init, Ends, Endings
<1>7. pc \in Pcs /\ dialed = NoService /\ ready \subseteq Ends /\ out \in Seq(Bytes)
  <2>1. pc \in Pcs
    BY PcFacts DEF Init
  <2>2. <<>> \in Seq(Bytes)
    OBVIOUS
  <2> QED
    BY <2>1, <2>2 DEF Init
<1>8. Typing
  BY <1>1, <1>2, <1>3, <1>4, <1>5, <1>6, <1>7 DEF Typing
<1>9. BeforeDial
  <2>1. sel = 0 /\ pc = "menu" /\ dialed = NoService /\ written = [e \in Ends |-> <<>>]
    BY DEF Init
  <2>2. taken["client"] = 0 /\ taken["service"] = 0
    BY <1>2, PcFacts
  <2>3. \A e \in Ends : written[e] = <<>>
    BY <2>1
  <2>4. sel <= taken["client"] /\ i <= NServices
    BY <2>1, <2>2, ConstFacts DEF Init
  <2> QED
    BY <2>1, <2>2, <2>3, <2>4 DEF BeforeDial, Choosing
<1>10. BetweenReads /\ RelayExact
  <2>1. sent = [e \in Ends |-> <<>>] /\ "client" \in Ends
    BY PcFacts DEF Init
  <2>2. sent["client"] = <<>>
    BY <2>1
  <2> QED
    BY <2>2, EndFacts, PcFacts DEF Init, BetweenReads, RelayExact
<1> QED
  BY <1>8, <1>9, <1>10 DEF IInv

\* IInv holds throughout.
LEMMA Invariance == Spec => []IInv
  BY InitInv, StepInv, PTL DEF Spec

-----------------------------------------------------------------------------

\* Every variable keeps its type: the menu shows no line but those of the
\* services, read_int() writes nowhere but at places 1 to BufSize - 1 of buff
\* once it has the first byte, what atoi() makes of it is an unsigned int, a
\* socket never holds more than Cap, and services[idx] is one of the services.
THEOREM TypeCorrect == Spec => []TypeOK
<1>1. IInv => TypeOK
  BY TypingOK DEF IInv
<1> QED
  BY <1>1, Invariance, PTL

\* What the mux has written to an end and holds for it is what it has read from
\* the other, in order, without loss or repetition.
THEOREM RelaysExactly == Spec => []RelayExact
<1>1. IInv => RelayExact
  BY DEF IInv
<1> QED
  BY <1>1, Invariance, PTL

\* What EndsWhenSaid allows a session that relays to end for.
Said ==
  \E e \in Ends :
    \/ pc = To[e] /\ ending[e] = "dead"
    \/ /\ ending[e] # "open"
       /\ Healthy(Peer(e)) => written[Peer(e)] = Relayed(e, Len(sent[e]))

LEMMA ExitSaid == IInv /\ [Next]_vars /\ Relaying /\ pc' = "exited" => Said
<1> SUFFICES ASSUME IInv, [Next]_vars, Relaying, pc' = "exited" PROVE Said
  OBVIOUS
<1>1. ASSUME NEW e \in Ends, ~Data(e), pc \notin Range(To), ending[e] # "open"
      PROVE  Said
  <2>1. taken[e] = Len(sent[e])
    <3>1. taken[e] \in Nat /\ Len(sent[e]) \in Nat /\ taken[e] <= Len(sent[e])
      BY DEF IInv, Typing
    <3> QED
      BY <1>1, <3>1 DEF Data
  <2>2. RelayOne(e) /\ Peer(e) \in Ends
    BY RelayOnes, EndFacts DEF IInv, BetweenReads
  <2>3. Held(Peer(e)) = <<>>
    BY <1>1, <2>2, EndFacts DEF Held
  <2>4. written[Peer(e)] \o <<>> = written[Peer(e)]
    BY <2>2, ConcatEmptySeq DEF IInv, Typing
  <2> QED
    BY <1>1, <2>1, <2>2, <2>3, <2>4 DEF RelayOne, Said
<1>2. CASE SelectAborts
  <2>1. sent["client"] = <<>> /\ ending["client"] = "absent" /\ pc = "select"
    BY <1>2 DEF SelectAborts, IInv, BetweenReads
  <2>2. ~Data("client")
    <3>1. taken["client"] \in Nat /\ Len(sent["client"]) = 0
      BY <2>1, PcFacts DEF IInv, Typing
    <3> QED
      BY <3>1 DEF Data
  <2> QED
    BY <1>1, <2>1, <2>2, EndFacts, PcFacts
<1>3. ASSUME NEW e \in Ends, ForwardEnds(e) PROVE Said
  <2>1. ~Data(e) /\ ending[e] # "open" /\ pc = e
    BY <1>3 DEF ForwardEnds, Eof, Failed
  <2> QED
    BY <1>1, <2>1, EndFacts
<1>4. ASSUME NEW e \in Ends, WriteKilled(e) PROVE Said
  BY <1>4 DEF WriteKilled, Said
<1>5. ASSUME NEW e \in Ends,
             NotReady(e) \/ Forward(e) \/ Write(e) \/ WriteFails(e)
      PROVE  FALSE
  BY <1>5, EndFacts, PcFacts DEF NotReady, Forward, Write, WriteFails
<1>6. ~(Menu \/ MenuKilled \/ ReadFirst \/ FirstEof \/ ReadMore \/ LoopEnds
        \/ ReadIntReturns \/ WrongIndex \/ Connect \/ ConnectFails)
  BY PcFacts DEF Menu, MenuKilled, ReadFirst, FirstEof, ReadMore, LoopEnds, ReadIntReturns,
     WrongIndex, Connect, ConnectFails
<1>7. ~(Select \/ SelectFails) /\ pc' # pc
  BY PcFacts DEF Select, SelectFails
<1>8. ASSUME NEW e \in Ends PROVE ~(Send(e) \/ Drain(e) \/ End(e) \/ Refuse(e))
  BY <1>7 DEF Send, Drain, End, Refuse
<1> QED
  BY <1>2, <1>3, <1>4, <1>5, <1>6, <1>7, <1>8 DEF Next, Step, vars

\* A session that relays ends by SIGPIPE on an end that was reset, or when an end
\* is over and all that it sent has been written to the other.
THEOREM EndsAsSaid == Spec => EndsWhenSaid
<1>1. IInv /\ [Next]_vars => [Relaying /\ pc' = "exited" => Said]_vars
  BY ExitSaid
<1> QED
  BY <1>1, Invariance, PTL DEF Spec, EndsWhenSaid, Said

-----------------------------------------------------------------------------
(* The choice of the service *)

\* The first n bytes of the client are in buff, and all but the first, which
\* may be a sign, are digits.
Read(n) ==
  /\ \A k \in 1..n : buff[k - 1] = sent["client"][k]
  /\ \A k \in 2..n : sent["client"][k] \in Digits

\* After the first n bytes no digit can follow that read_int() had to take:
\* buff is full, another byte came, or the client sends no more.
Over(n) ==
  LET s == sent["client"]
  IN  \/ n = BufSize - 1
      \/ n < Len(s) /\ s[n + 1] \notin Digits
      \/ n = Len(s) /\ ending["client"] # "open"

\* As long as no read has failed, what buff holds above i is of no account, and
\* atoi() sees all digits that the client will ever have sent or that fit.
ReadSoFar ==
  ending["client"] \notin {"dead", "absent"} =>
    /\ pc = "more" => taken["client"] = i /\ Read(i)
    /\ pc = "atoi" => taken["client"] \in {i, i + 1} /\ Read(i) /\ Over(i)

\* n digits were read, and idx is their number.
Chose(n) ==
  LET s == sent["client"]
  IN  /\ n <= Len(s) /\ Over(n)
      /\ \A k \in 1..n : s[k] \in Digits
      /\ n > 0 => /\ sel <= n + 1
                  /\ Number(s, n) < IdxModulus => idx = Number(s, n)

Chosen ==
  /\ pc \notin {"menu", "first", "more", "atoi"} /\ ending["client"] \notin {"dead", "absent"}
       => \E n \in 0..BufSize - 1 : Chose(n)
  /\ dialed # NoService => dialed = idx

ChoiceInv == ReadSoFar /\ Chosen

\* The digits at the head of a text.
DigitsOf(text, n) ==
  CHOOSE m \in 0..n : /\ \A k \in 1..m : text[k] \in Digits
                      /\ m < n => text[m + 1] \notin Digits

\* They end in one place only.
LEMMA DigitsAre ==
  ASSUME NEW n \in Nat, NEW text, NEW d \in 0..n, \A k \in 1..d : text[k] \in Digits,
         d < n => text[d + 1] \notin Digits
  PROVE  DigitsOf(text, n) = d
<1> DEFINE P(m) == /\ \A k \in 1..m : text[k] \in Digits
                   /\ m < n => text[m + 1] \notin Digits
<1>1. ASSUME NEW m \in 0..n, P(m) PROVE m = d
  <2>1. ~(m < d)
    <3>1. m < d => m + 1 \in 1..d /\ m < n
      OBVIOUS
    <3> QED
      BY <1>1, <3>1
  <2>2. ~(d < m)
    <3>1. d < m => d + 1 \in 1..m /\ d < n
      OBVIOUS
    <3> QED
      BY <1>1, <3>1
  <2> QED
    BY <2>1, <2>2
<1>2. P(d)
  OBVIOUS
<1> QED
  BY <1>1, <1>2 DEF DigitsOf

\* There is such a place.
LEMMA DigitsEnd ==
  ASSUME NEW n \in Nat, NEW text
  PROVE  \E d \in 0..n : /\ \A k \in 1..d : text[k] \in Digits
                         /\ d < n => text[d + 1] \notin Digits
<1> DEFINE T == {m \in 0..n : m < n => text[m + 1] \notin Digits}
<1>1. T \in SUBSET Nat /\ n \in T
  OBVIOUS
<1>2. PICK d \in T : \A m \in T : d <= m
  BY <1>1, LeastNat
<1>3. ASSUME NEW k \in 1..d PROVE text[k] \in Digits
  <2>1. k - 1 \in 0..n /\ k - 1 < n /\ ~(d <= k - 1) /\ (k - 1) + 1 = k
    BY <1>2
  <2> QED
    BY <1>2, <2>1
<1> QED
  BY <1>2, <1>3

\* A number is that of its digits, whatever text they stand in.
LEMMA SameNumber ==
  ASSUME NEW text, NEW other, NEW d \in Nat, \A k \in 1..d : text[k] \in Digits /\ other[k] = text[k]
  PROVE  Number(other, d) = Number(text, d)
<1> DEFINE b == [k \in 0..d |-> text[k + 1]]
           h[k \in 0..d] == IF k = 0 THEN 0 ELSE 10 * h[k - 1] + DigitVal(b[k - 1])
<1>1. \A k \in 1..d : k - 1 \in 0..d /\ b[k - 1] = text[k]
  <2>1. \A k \in 1..d : k - 1 \in 0..d /\ (k - 1) + 1 = k
    OBVIOUS
  <2> QED
    BY <2>1
<1>2. \A k \in 0..d - 1 : b[k] \in Digits
  <2>1. \A k \in 0..d - 1 : k + 1 \in 1..d /\ k \in 0..d
    OBVIOUS
  <2> QED
    BY <2>1
<1> HIDE DEF b
<1>3. /\ h \in [0..d -> Nat] /\ h[0] = 0
      /\ \A k \in 0 + 1..d : h[k] = 10 * h[k - 1] + DigitVal(b[k - 1])
  <2>1. 0 \in Nat /\ 0 <= d
    OBVIOUS
  <2> QED
    BY <1>2, <2>1, FromTheLeft, ZenonT(40)
<1> HIDE DEF h
<1>4. /\ \A k \in 1..d : h[k] = 10 * h[k - 1] + DigitVal(text[k])
      /\ \A k \in 1..d : h[k] = 10 * h[k - 1] + DigitVal(other[k])
  <2>1. 0 + 1 = 1
    OBVIOUS
  <2> QED
    BY <1>1, <1>3, <2>1
<1> PICK f \in [0..d -> Nat] : f = h
  BY <1>3
<1>5. Number(text, d) = f[d]
  <2>1. f[0] = 0
    BY <1>3
  <2>2. \A k \in 1..d : text[k] \in Digits
    OBVIOUS
  <2>3. \A k \in 1..d : f[k] = 10 * f[k - 1] + DigitVal(text[k])
    BY <1>4
  <2> QED
    BY <2>1, <2>2, <2>3, PlaceValue, Zenon
<1>6. Number(other, d) = f[d]
  <2>1. f[0] = 0
    BY <1>3
  <2>2. \A k \in 1..d : other[k] \in Digits
    OBVIOUS
  <2>3. \A k \in 1..d : f[k] = 10 * f[k - 1] + DigitVal(other[k])
    BY <1>4
  <2> QED
    BY <2>1, <2>2, <2>3, PlaceValue, Zenon
<1> QED
  BY <1>5, <1>6

\* read_int() returns the number.
LEMMA ReturnsNumber ==
  ASSUME IInv, ChoiceInv, ReadIntReturns, ending["client"] \notin {"dead", "absent"}
  PROVE  \E n \in 0..BufSize - 1 : Chose(n)'
<1> DEFINE s == sent["client"]
           b == [buff EXCEPT ![i] = NUL]
<1>1. /\ pc = "atoi" /\ sel' = taken["client"] /\ idx' = Atoi(b)
      /\ i' = i /\ sent' = sent /\ ending' = ending
  BY DEF ReadIntReturns, input
<1>2. taken["client"] \in {i, i + 1} /\ Read(i) /\ Over(i)
  BY <1>1 DEF ChoiceInv, ReadSoFar
<1>3. i \in 1..BufSize - 1 /\ i \in Nat /\ i <= Len(s) /\ Len(s) \in Nat
  <2>1. i \in 1..BufSize - 1 /\ i \in Nat
    BY <1>1 DEF IInv, BeforeDial, Typing
  <2>2. s \in Seq(Typed) /\ taken["client"] \in Nat /\ taken["client"] <= Len(s)
    BY PcFacts DEF IInv, Typing
  <2> QED
    BY <1>2, <2>1, <2>2
<1> HIDE DEF s
<1>4. CASE s[1] \in Digits
  <2>1. \A k \in 1..i : s[k] \in Digits /\ buff[k - 1] = s[k]
    <3>1. \A k \in 1..i : k = 1 \/ k \in 2..i
      BY <1>3
    <3> QED
      BY <1>2, <1>4, <3>1 DEF Read, s
  <2>2. b[i] = NUL /\ \A k \in 1..i : b[k - 1] = s[k]
    <3>1. buff \in Buffers /\ i \in 0..BufSize - 1
      BY <1>3, ConstFacts DEF IInv, Typing
    <3>2. \A k \in 1..i : k - 1 \in 0..BufSize - 1 /\ k - 1 # i
      BY <1>3, ConstFacts
    <3> QED
      BY <2>1, <3>1, <3>2 DEF Buffers
  <2>3. Number(s, i) < IdxModulus => Atoi(b) = Number(s, i)
    <3> HIDE DEF b
    <3> QED
      BY <1>3, <2>1, <2>2, AtoiValue
  <2>4. sel' <= i + 1
    BY <1>1, <1>2, <1>3
  <2>5. PICK n \in 0..BufSize - 1 : n = i
    BY <1>3, ConstFacts
  <2>6. Over(n)'
    BY <1>1, <1>2, <2>5 DEF Over
  <2>7. Chose(n)'
    BY <1>1, <1>3, <2>1, <2>3, <2>4, <2>5, <2>6 DEF Chose, s
  <2> QED
    BY <2>7
<1>5. CASE s[1] \notin Digits
  <2>1. 0 < Len(s) /\ 0 + 1 = 1 /\ 0 \in 0..BufSize - 1 /\ \A k \in 1..0 : FALSE
    BY <1>3, ConstFacts
  <2>2. Over(0)'
    BY <1>1, <1>5, <2>1 DEF Over, s
  <2>3. Chose(0)'
    BY <1>1, <2>1, <2>2 DEF Chose, s
  <2> QED
    BY <2>1, <2>3
<1> QED
  BY <1>4, <1>5

\* A byte that read_int() takes goes to buff.
LEMMA ReadMoreReads ==
  ASSUME IInv, ChoiceInv, ReadMore
  PROVE  ReadSoFar'
<1> SUFFICES ASSUME ending'["client"] \notin {"dead", "absent"}
    PROVE  /\ pc' = "more" => taken'["client"] = i' /\ Read(i)' /\ sent' = sent
           /\ pc' = "atoi" => taken'["client"] = i' + 1 /\ Read(i)' /\ Over(i)'
  BY DEF ReadSoFar
<1> DEFINE s == sent["client"]
<1>1. ending["client"] \in Endings /\ "client" \in Ends
  BY PcFacts DEF IInv, Typing
<1>2. ending["client"] \notin {"dead", "absent"}
  <2>1. CASE UNCHANGED ending
    BY <2>1
  <2>2. CASE Reported("client")
    BY <1>1, <2>2, ReportedType DEF IInv
  <2> QED
    BY <2>1, <2>2 DEF ReadMore
<1>3. ~Failed("client")
  <2>1. CASE Failed("client") /\ Reported("client")
    <3>1. ending["client"] = "reset"
      BY <1>2, <2>1 DEF Failed
    <3>2. ending'["client"] = "dead"
      BY <1>1, <2>1, <3>1 DEF Reported, IInv, Typing
    <3> QED
      BY <3>2
  <2>2. CASE Data("client")
    BY <2>2 DEF Failed
  <2> QED
    BY <2>1, <2>2 DEF ReadMore
<1>4. Data("client") /\ Take /\ buff' = [buff EXCEPT ![i] = NextByte]
  BY <1>3 DEF ReadMore
<1>5. pc = "more" /\ taken["client"] = i /\ Read(i)
  BY <1>2 DEF ReadMore, ChoiceInv, ReadSoFar
<1>6. taken'["client"] = i + 1 /\ sent' = sent /\ NextByte = s[i + 1]
  BY <1>4, <1>5, TakeType DEF IInv, NextByte
<1>7. i \in Nat /\ i \in 1..BufSize - 1 /\ i \in 0..BufSize - 1 /\ buff \in Buffers
  BY <1>5, ConstFacts DEF IInv, Typing, BeforeDial
<1>8. buff'[i] = s[i + 1] /\ \A k \in 1..i : buff'[k - 1] = s[k]
  <2>1. \A k \in 1..i : k - 1 \in 0..BufSize - 1 /\ k - 1 # i
    BY <1>7, ConstFacts
  <2> QED
    BY <1>4, <1>5, <1>6, <1>7, <2>1 DEF Buffers, Read
<1>9. CASE buff'[i] \in Digits
  <2>1. i' = i + 1 /\ pc' = "more"
    BY <1>5, <1>9 DEF ReadMore
  <2>2. \A k \in 1..i + 1 : buff'[k - 1] = s[k]
    <3>1. \A k \in 1..i + 1 : k \in 1..i \/ (k = i + 1 /\ k - 1 = i)
      BY <1>7
    <3> QED
      BY <1>8, <3>1
  <2>3. \A k \in 2..i + 1 : s[k] \in Digits
    <3>1. \A k \in 2..i + 1 : k \in 2..i \/ k = i + 1
      BY <1>7
    <3> QED
      BY <1>5, <1>8, <1>9, <3>1 DEF Read
  <2> QED
    BY <1>6, <2>1, <2>2, <2>3 DEF Read
<1>10. CASE buff'[i] \notin Digits
  <2>1. i' = i /\ pc' = "atoi"
    BY <1>10 DEF ReadMore
  <2>2. i < Len(s)
    BY <1>4, <1>5 DEF Data
  <2>3. Over(i)'
    BY <1>6, <1>8, <1>10, <2>1, <2>2 DEF Over
  <2> QED
    BY <1>5, <1>6, <1>8, <2>1, <2>3 DEF Read
<1> QED
  BY <1>9, <1>10

\* The first byte, or nothing.
LEMMA ReadFirstReads ==
  ASSUME IInv, ChoiceInv, ReadFirst
  PROVE  ReadSoFar'
<1> SUFFICES ASSUME ending'["client"] \notin {"dead", "absent"}
    PROVE  taken'["client"] = i' /\ Read(i)'
  BY DEF ReadSoFar, ReadFirst
<1> DEFINE s == sent["client"]
<1>1. ending["client"] \in Endings /\ "client" \in Ends
  BY PcFacts DEF IInv, Typing
<1>2. ~Failed("client")
  <2>1. CASE Failed("client") /\ Reported("client")
    <3>1. ending'["client"] = IF ending["client"] = "reset" THEN "dead" ELSE ending["client"]
      BY <1>1, <2>1 DEF Reported, IInv, Typing
    <3> QED
      BY <2>1, <3>1 DEF Failed
  <2>2. CASE Data("client")
    BY <2>2 DEF Failed
  <2> QED
    BY <2>1, <2>2 DEF ReadFirst
<1>3. Data("client") /\ Take /\ buff' = [buff EXCEPT ![0] = NextByte] /\ i' = 1
  BY <1>2 DEF ReadFirst
<1>4. taken["client"] = 0 /\ taken'["client"] = taken["client"] + 1 /\ sent' = sent
  BY <1>3, TakeType DEF ReadFirst, IInv, BeforeDial
<1>5. NextByte = s[1] /\ taken'["client"] = 1
  BY <1>4 DEF NextByte
<1>6. buff'[0] = s[1]
  BY <1>3, <1>5, ConstFacts DEF IInv, Typing, Buffers
<1>7. /\ \A k \in 1..1 : buff'[k - 1] = s[k]
      /\ \A k \in 2..1 : s[k] \in Digits
  <2>1. \A k \in 1..1 : k = 1 /\ k - 1 = 0
    OBVIOUS
  <2> QED
    BY <1>6, <2>1
<1> QED
  BY <1>3, <1>4, <1>5, <1>7 DEF Read

\* An end that is dead or absent stays so.
LEMMA GoneStaysGone ==
  ASSUME IInv, [Next]_vars, ending["client"] \in {"dead", "absent"}
  PROVE  ending'["client"] = ending["client"]
<1> USE EndFacts, PcFacts
<1>1. ending \in [Ends -> Endings] /\ "client" \in Ends
  BY DEF IInv, Typing
<1>2. ASSUME NEW e \in Ends, Reported(e) PROVE ending'["client"] = ending["client"]
  BY <1>1, <1>2, ReportedType DEF IInv
<1>3. ASSUME NEW e \in Ends, End(e) \/ Refuse(e) PROVE ending'["client"] = ending["client"]
  <2>1. CASE e = "client"
    BY <1>3, <2>1 DEF End, Refuse
  <2>2. CASE e # "client"
    BY <1>1, <1>3, <2>2 DEF End, Refuse
  <2> QED
    BY <2>1, <2>2
<1>4. CASE UNCHANGED ending
  BY <1>4
<1> QED
  BY <1>2, <1>3, <1>4 DEF Next, Step, vars, Menu, MenuKilled, ReadFirst, FirstEof, ReadMore,
     LoopEnds, ReadIntReturns, WrongIndex, Connect, ConnectFails, Select, SelectFails,
     SelectAborts, NotReady, Forward, ForwardEnds, Write, WriteFails, WriteKilled, Send, Drain

\* A client that sends no more never does again.
LEMMA StaysEnded ==
  ASSUME IInv, [Next]_vars, ending["client"] # "open"
  PROVE  ending'["client"] # "open"
<1> USE EndFacts, PcFacts
<1>1. ending \in [Ends -> Endings] /\ "client" \in Ends
  BY DEF IInv, Typing
<1>2. ASSUME NEW e \in Ends, Reported(e) PROVE ending'["client"] # "open"
  BY <1>1, <1>2 DEF Reported
<1>3. ASSUME NEW e \in Ends, End(e) \/ Refuse(e) PROVE ending'["client"] # "open"
  <2>1. CASE e = "client"
    BY <1>1, <1>3, <2>1 DEF End, Refuse
  <2>2. CASE e # "client"
    BY <1>1, <1>3, <2>2 DEF End, Refuse
  <2> QED
    BY <2>1, <2>2
<1>4. CASE UNCHANGED ending
  BY <1>4
<1> QED
  BY <1>2, <1>3, <1>4 DEF Next, Step, vars, Menu, MenuKilled, ReadFirst, FirstEof, ReadMore,
     LoopEnds, ReadIntReturns, WrongIndex, Connect, ConnectFails, Select, SelectFails,
     SelectAborts, NotReady, Forward, ForwardEnds, Write, WriteFails, WriteKilled, Send, Drain

\* A client that was there is never taken for one that was not.
LEMMA NoneVanishes ==
  ASSUME IInv, [Next]_vars, ending["client"] # "absent"
  PROVE  ending'["client"] # "absent"
<1> USE EndFacts, PcFacts
<1>1. ending \in [Ends -> Endings] /\ "client" \in Ends
  BY DEF IInv, Typing
<1>2. ASSUME NEW e \in Ends, Reported(e) PROVE ending'["client"] # "absent"
  BY <1>1, <1>2 DEF Reported
<1>3. ASSUME NEW e \in Ends, End(e) \/ Refuse(e) PROVE ending'["client"] # "absent"
  <2>1. CASE e = "client"
    BY <1>1, <1>3, <2>1 DEF End, Refuse
  <2>2. CASE e # "client"
    BY <1>1, <1>3, <2>2 DEF End, Refuse
  <2> QED
    BY <2>1, <2>2
<1>4. CASE UNCHANGED ending
  BY <1>4
<1> QED
  BY <1>2, <1>3, <1>4 DEF Next, Step, vars, Menu, MenuKilled, ReadFirst, FirstEof, ReadMore,
     LoopEnds, ReadIntReturns, WrongIndex, Connect, ConnectFails, Select, SelectFails,
     SelectAborts, NotReady, Forward, ForwardEnds, Write, WriteFails, WriteKilled, Send, Drain

\* What a session that goes on without read_int() leaves as it was.
Settled == UNCHANGED <<idx, sel>> /\ (dialed' = dialed \/ dialed' = idx)

\* Until the service is dialed only read_int() takes bytes and writes to buff,
\* after that nobody changes the choice, and what the client sends comes after
\* what was read.
LEMMA ChoiceStep == IInv /\ ChoiceInv /\ [Next]_vars => ChoiceInv'
<1> SUFFICES ASSUME IInv, ChoiceInv, [Next]_vars PROVE ChoiceInv'
  OBVIOUS
<1> DEFINE s == sent["client"]
<1>0. /\ IInv' /\ "client" \in Ends
      /\ taken["client"] \in Nat /\ taken["client"] <= Len(s) /\ s \in Seq(Bytes) /\ Len(s) \in Nat
      /\ sel \in Nat /\ sel <= taken["client"] /\ i \in Nat
  <2>1. "client" \in Ends
    BY PcFacts
  <2>2. taken["client"] \in Nat /\ taken["client"] <= Len(s) /\ s \in Seq(Bytes)
    BY <2>1 DEF IInv, Typing
  <2>3. sel \in Nat /\ sel <= taken["client"] /\ i \in Nat
    BY DEF IInv, Typing, BeforeDial
  <2> QED
    BY <2>1, <2>2, <2>3, StepInv
<1>1. CASE Menu \/ MenuKilled
  BY <1>1 DEF Menu, MenuKilled, ChoiceInv, ReadSoFar, Chosen, IInv, BeforeDial, Choosing, choosing
<1>2. CASE ReadFirst
  <2>1. dialed' = NoService /\ pc' = "more"
    BY <1>2 DEF ReadFirst, IInv, BeforeDial, Choosing
  <2> QED
    BY <1>2, <2>1, ReadFirstReads DEF ChoiceInv, Chosen
<1>3. CASE FirstEof
  <2>1. /\ dialed' = NoService /\ pc' = "decide" /\ sent' = sent /\ ending' = ending
        /\ taken["client"] = 0 /\ Eof("client")
    BY <1>3 DEF FirstEof, IInv, BeforeDial, Choosing, input
  <2>2. Len(s) = 0 /\ ending["client"] # "open" /\ 0 \in 0..BufSize - 1
    BY <1>0, <2>1, ConstFacts DEF Eof, Data
  <2>3. Chose(0)'
    BY <2>1, <2>2 DEF Chose, Over
  <2> QED
    BY <2>1, <2>2, <2>3 DEF ChoiceInv, ReadSoFar, Chosen
<1>4. CASE ReadMore
  <2>1. dialed' = NoService /\ pc' \in {"more", "atoi"}
    BY <1>4 DEF ReadMore, IInv, BeforeDial, Choosing
  <2> QED
    BY <1>4, <2>1, ReadMoreReads DEF ChoiceInv, Chosen
<1>5. CASE LoopEnds
  <2>1. dialed' = NoService /\ pc' = "atoi"
    BY <1>5 DEF LoopEnds, IInv, BeforeDial, Choosing, choosing
  <2>2. ASSUME ending["client"] \notin {"dead", "absent"}
        PROVE  taken["client"] = i /\ Read(i) /\ Over(i)
    <3>1. pc = "more" /\ taken["client"] = i /\ Read(i)
      BY <1>5, <2>2 DEF LoopEnds, ChoiceInv, ReadSoFar
    <3>2. CASE ~InLoop
      <4>1. i \in 1..BufSize - 1
        BY <3>1 DEF IInv, BeforeDial
      <4>2. i = BufSize - 1
        BY <3>2, <4>1, ConstFacts DEF InLoop
      <4> QED
        BY <3>1, <4>2 DEF Over
    <3>3. CASE Eof("client")
      <4>1. i = Len(s) /\ ending["client"] # "open"
        BY <1>0, <3>1, <3>3 DEF Eof, Data
      <4> QED
        BY <3>1, <4>1 DEF Over
    <3> QED
      BY <1>5, <3>2, <3>3 DEF LoopEnds
  <2>3. ReadSoFar'
    BY <1>5, <2>2 DEF LoopEnds, ReadSoFar, Read, Over, choosing, input
  <2> QED
    BY <2>1, <2>3 DEF ChoiceInv, Chosen
<1>6. CASE ReadIntReturns
  <2>1. dialed' = NoService /\ pc' = "decide" /\ ending' = ending
    BY <1>6 DEF ReadIntReturns, IInv, BeforeDial, Choosing
  <2> QED
    BY <1>6, <2>1, ReturnsNumber DEF ChoiceInv, ReadSoFar, Chosen
<1>7. ASSUME NEW e \in Ends, Send(e) PROVE ChoiceInv'
  <2>1. /\ UNCHANGED <<pc, i, buff, idx, dialed, sel, taken, ending>>
        /\ sent'["client"] = s \/ \E c \in Bytes : sent'["client"] = Append(s, c)
    <3>1. UNCHANGED <<pc, i, buff, idx, dialed, sel, taken, ending>>
      BY <1>7 DEF Send, choosing
    <3>2. PICK c \in IF e = "client" THEN Typed ELSE ServiceBytes :
            sent' = [sent EXCEPT ![e] = Append(@, c)]
      BY <1>7 DEF Send
    <3>3. c \in Bytes /\ sent \in [Ends -> Seq(Bytes)]
      BY <3>2 DEF Bytes, IInv, Typing
    <3>4. CASE e = "client"
      BY <3>1, <3>2, <3>3, <3>4
    <3>5. CASE e # "client"
      BY <1>0, <3>1, <3>2, <3>3, <3>5
    <3> QED
      BY <3>4, <3>5
  <2>2. \A k \in 1..Len(s) : sent'["client"][k] = s[k]
    BY <1>0, <2>1, AppendProperties
  <2>3. ASSUME NEW n \in Nat, Over(n) PROVE Over(n)'
    <3>1. CASE e = "client"
      <4>1. ending["client"] = "open"
        BY <1>7, <3>1 DEF Send
      <4>2. n = BufSize - 1 \/ (n < Len(s) /\ s[n + 1] \notin Digits)
        BY <2>3, <4>1 DEF Over
      <4>3. n < Len(s) => n < Len(sent'["client"]) /\ n + 1 \in 1..Len(s)
        BY <1>0, <2>1, AppendProperties
      <4> QED
        BY <2>2, <4>2, <4>3 DEF Over
    <3>2. CASE e # "client"
      <4>1. sent'["client"] = s
        BY <1>0, <1>7, <3>2 DEF Send, IInv, Typing
      <4> QED
        BY <2>1, <2>3, <4>1 DEF Over
    <3> QED
      BY <3>1, <3>2
  <2>4. Chosen'
    <3>1. ASSUME NEW n \in 0..BufSize - 1, Chose(n) PROVE Chose(n)'
      <4>1. n \in Nat /\ n <= Len(s) /\ Over(n) /\ \A k \in 1..n : s[k] \in Digits
        BY <3>1, ConstFacts DEF Chose
      <4>2. n <= Len(sent'["client"]) /\ \A k \in 1..n : sent'["client"][k] = s[k]
        BY <1>0, <2>1, <2>2, <4>1, AppendProperties
      <4>3. Number(sent'["client"], n) = Number(s, n)
        BY <4>1, <4>2, SameNumber
      <4>4. Over(n)'
        BY <2>3, <4>1
      <4> QED
        BY <2>1, <3>1, <4>1, <4>2, <4>3, <4>4 DEF Chose
    <3> QED
      BY <2>1, <3>1 DEF ChoiceInv, Chosen
  <2>5. ASSUME ending'["client"] \notin {"dead", "absent"}, pc' \in {"more", "atoi"}
        PROVE  /\ pc' = "more" => taken'["client"] = i' /\ Read(i)'
               /\ pc' = "atoi" => taken'["client"] \in {i', i' + 1} /\ Read(i)' /\ Over(i)'
    <3>1. /\ Read(i)
          /\ pc = "more" => taken["client"] = i
          /\ pc = "atoi" => taken["client"] \in {i, i + 1} /\ Over(i)
      BY <2>1, <2>5 DEF ChoiceInv, ReadSoFar
    <3>2. i <= taken["client"] /\ \A k \in 1..i : k \in 1..Len(s)
      BY <1>0, <2>1, <2>5, <3>1
    <3>3. Read(i)'
      <4>1. \A k \in 2..i : k \in 1..i
        BY <1>0
      <4> QED
        BY <2>1, <2>2, <3>1, <3>2, <4>1 DEF Read
    <3>4. pc = "atoi" => Over(i)'
      <4>1. Over(i) => Over(i)'
        BY <1>0, <2>1, <2>3
      <4> QED
        BY <3>1, <4>1
    <3> QED
      BY <2>1, <3>1, <3>3, <3>4
  <2>6. ReadSoFar'
    BY <2>5 DEF ReadSoFar
  <2> QED
    BY <2>4, <2>6 DEF ChoiceInv
<1>8. CASE /\ pc \notin {"menu", "first", "more", "atoi"} /\ pc' \notin {"menu", "first", "more", "atoi"}
           /\ Settled /\ sent' = sent
  <2>1. ending'["client"] \notin {"dead", "absent"} => ending["client"] \notin {"dead", "absent"}
    BY GoneStaysGone
  <2>2. ASSUME NEW n \in 0..BufSize - 1, Chose(n) PROVE Chose(n)'
    BY <1>8, <2>2, StaysEnded DEF Chose, Over, Settled
  <2> QED
    BY <1>8, <2>1, <2>2 DEF ChoiceInv, ReadSoFar, Chosen, Settled
<1>9. CASE UNCHANGED <<pc, i, buff, idx, dialed, sel, sent, taken>>
  <2>1. ending'["client"] \notin {"dead", "absent"} => ending["client"] \notin {"dead", "absent"}
    BY GoneStaysGone
  <2>2. ASSUME NEW n \in Nat, Over(n) PROVE Over(n)'
    BY <1>9, <2>2, StaysEnded DEF Over
  <2>3. ASSUME NEW n \in 0..BufSize - 1, Chose(n) PROVE Chose(n)'
    <3>1. n \in Nat
      BY ConstFacts
    <3> QED
      BY <1>9, <2>2, <2>3, <3>1 DEF Chose
  <2>4. ReadSoFar'
    BY <1>0, <1>9, <2>1, <2>2 DEF ChoiceInv, ReadSoFar, Read
  <2> QED
    BY <1>9, <2>1, <2>3, <2>4 DEF ChoiceInv, Chosen
<1>10. CASE WrongIndex \/ Connect \/ ConnectFails \/ Select \/ SelectFails \/ SelectAborts
  BY <1>8, <1>10 DEF WrongIndex, Connect, ConnectFails, Select, SelectFails, SelectAborts, Settled,
     choosing, input
<1>11. ASSUME NEW e \in Ends,
             NotReady(e) \/ Forward(e) \/ ForwardEnds(e) \/ Write(e) \/ WriteFails(e) \/ WriteKilled(e)
       PROVE  ChoiceInv'
  <2>1. pc \in {"client", "service", "to client", "to service"}
    BY <1>11, EndFacts, PcFacts DEF NotReady, Forward, ForwardEnds, Write, WriteFails, WriteKilled
  <2>2. pc' \in {"client", "service", "to client", "to service", "select", "exited"}
    BY <1>11, <2>1, EndFacts, PcFacts DEF NotReady, Forward, ForwardEnds, Write, WriteFails, WriteKilled
  <2>3. Settled /\ sent' = sent
    BY <1>11 DEF NotReady, Forward, ForwardEnds, Write, WriteFails, WriteKilled, Settled, choosing, input
  <2> QED
    BY <1>8, <2>1, <2>2, <2>3
<1>12. ASSUME NEW e \in Ends, Drain(e) \/ End(e) \/ Refuse(e) PROVE ChoiceInv'
  BY <1>9, <1>12 DEF Drain, End, Refuse, choosing, input
<1>13. CASE UNCHANGED vars
  BY <1>9, <1>13 DEF vars, choosing, input
<1> QED
  BY <1>1, <1>2, <1>3, <1>4, <1>5, <1>6, <1>7, <1>10, <1>11, <1>12, <1>13 DEF Next, Step

LEMMA InitChoice == Init => ChoiceInv
  BY DEF Init, ChoiceInv, ReadSoFar, Chosen

\* The choice is right: a client that is absent typed no number, and of one that
\* is there all digits that fit were read.
LEMMA RightChoice == IInv /\ ChoiceInv => RightService
<1> DEFINE s == sent["client"]
           d == DigitsOf(s, Len(s))
<1> SUFFICES ASSUME IInv, ChoiceInv, dialed # NoService, ending["client"] # "dead",
                    d \in 1..BufSize - 1, Number(s, d) < IdxModulus
    PROVE  dialed = Number(s, d) /\ sel <= d + 1
  BY DEF RightService, DigitsOf
<1>1. pc \notin {"menu", "first", "more", "atoi"} /\ dialed = idx
  BY DEF IInv, BeforeDial, Choosing, ChoiceInv, Chosen
<1>2. s \in Seq(Typed) /\ Len(s) \in Nat
  BY DEF IInv, Typing
<1>3. /\ d \in 0..Len(s) /\ \A k \in 1..d : s[k] \in Digits
      /\ d < Len(s) => s[d + 1] \notin Digits
  <2> HIDE DEF s
  <2> QED
    BY <1>2, DigitsEnd DEF DigitsOf
<1>4. ending["client"] # "absent"
  <2>1. Len(<<>>) = 0
    OBVIOUS
  <2> QED
    BY <1>3, <2>1 DEF IInv, BetweenReads
<1>5. PICK n \in 0..BufSize - 1 : Chose(n)
  BY <1>1, <1>4 DEF ChoiceInv, Chosen
<1>6. n <= Len(s) /\ Over(n) /\ n \in Nat /\ \A k \in 1..n : s[k] \in Digits
  BY <1>5, ConstFacts DEF Chose
<1>7. d = n
  <2>1. CASE n < Len(s) => s[n + 1] \notin Digits
    <3> HIDE DEF s
    <3> QED
      BY <1>2, <1>6, <2>1, DigitsAre
  <2>2. CASE n = BufSize - 1
    <3>1. ~(d < n)
      <4>1. d < n => d + 1 \in 1..n /\ d < Len(s)
        BY <1>2, <1>3, <1>6
      <4> QED
        BY <1>3, <1>6, <4>1
    <3> QED
      BY <1>3, <1>6, <2>2, <3>1, ConstFacts
  <2> QED
    BY <1>2, <1>6, <2>1, <2>2 DEF Over
<1> QED
  BY <1>1, <1>5, <1>7 DEF Chose

\* A client that types the number of a service is connected to that service,
\* however its bytes arrive, whatever the menu left in the buffer and whatever
\* follows the number, and at most one byte of what follows is lost: all digits
\* at the head of what the client sends count, as long as buff and an unsigned
\* int can hold them.
THEOREM ConnectsRight == Spec => []RightService
  BY InitChoice, RightChoice, InitInv, Invariance, ChoiceStep, PTL DEF Spec
=============================================================================
