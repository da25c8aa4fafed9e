-------------------------- MODULE ListHeadsProofs --------------------------
(***************************************************************************)
(* The circular lists of list.h are sequences, for any number of heads and *)
(* entries.  Holds says which sequence the ring of each head holds, in     *)
(* both directions.  Sections of rings go in and out (SectionIn,           *)
(* SectionOut); most functions of the header are made of these, and each   *)
(* does what module Deques says.  Then the test without the lock, which    *)
(* needs an invariant on the stores that are still to arrive, and the      *)
(* loops that are safe against removal, which need one on what is left to  *)
(* visit.                                                                  *)
(***************************************************************************)
EXTENDS ListHeads, NatRecursion, FiniteSetTheorems, SequenceTheorems

-----------------------------------------------------------------------------
(* Sequences in memory *)

\* The i-th link of the ring of head h, which is where the ring begins and ends.
At(ls, h, i) == IF i \in 1..Len(ls[h]) THEN ls[h][i] ELSE h

\* The sequences ls are what the memory m holds: those of the heads lv hold the
\* nodes `on', each once, and next and prev lead from link to link.
Holds(m, lv, on, ls) ==
  /\ ls \in [Heads -> Seq(Nodes)]
  /\ \A h \in Heads \ lv : ls[h] = <<>>
  /\ \A h \in Heads : \A i \in 1..Len(ls[h]) : ls[h][i] \in on
  /\ \A n \in on : \E h \in Heads : \E i \in 1..Len(ls[h]) : ls[h][i] = n
  /\ \A h, g \in Heads : \A i \in 1..Len(ls[h]), j \in 1..Len(ls[g]) :
       ls[h][i] = ls[g][j] => h = g /\ i = j
  /\ \A h \in lv : \A i \in 0..Len(ls[h]) :
       m.next[At(ls, h, i)] = At(ls, h, i + 1) /\ m.prev[At(ls, h, i + 1)] = At(ls, h, i)

\* The places of the lists.
LEMMA Elements ==
  ASSUME NEW m, NEW lv, NEW on, NEW ls, Holds(m, lv, on, ls)
  PROVE  \A h \in Heads :
           /\ ls[h] \in Seq(Nodes) /\ Len(ls[h]) \in Nat
           /\ \A i \in 1..Len(ls[h]) : ls[h][i] \in Nodes /\ ls[h][i] \in on /\ ls[h][i] \notin Heads
<1> TAKE h \in Heads
<1>1. ls[h] \in Seq(Nodes)
  BY DEF Holds
<1>2. Len(ls[h]) \in Nat /\ ls[h] \in [1..Len(ls[h]) -> Nodes]
  BY <1>1, LenProperties
<1>3. \A i \in 1..Len(ls[h]) : ls[h][i] \in on
  BY DEF Holds
<1> QED
  BY <1>1, <1>2, <1>3, ListHeadAssumption

\* The links of the rings.
LEMMA Ats ==
  ASSUME NEW m, NEW lv, NEW on, NEW ls, Holds(m, lv, on, ls), NEW h \in Heads
  PROVE  /\ At(ls, h, 0) = h /\ At(ls, h, Len(ls[h]) + 1) = h
         /\ \A i \in 1..Len(ls[h]) : At(ls, h, i) = ls[h][i]
         /\ \A i \in Nat : At(ls, h, i) \in Links /\ At(ls, h, i) \in {h} \cup on
<1>1. Len(ls[h]) \in Nat /\ \A i \in 1..Len(ls[h]) : ls[h][i] \in Nodes /\ ls[h][i] \in on
  BY Elements
<1> QED
  BY <1>1 DEF At, Links

\* No link is in two places.
LEMMA AtsDiffer ==
  ASSUME NEW m, NEW lv, NEW on, NEW ls, Holds(m, lv, on, ls), NEW h \in Heads, NEW g \in Heads
  PROVE  /\ \A i \in 0..Len(ls[h]), j \in 0..Len(ls[g]) :
              At(ls, h, i) = At(ls, g, j) => h = g /\ i = j
         /\ \A i \in 1..Len(ls[h]) + 1, j \in 1..Len(ls[g]) + 1 :
              At(ls, h, i) = At(ls, g, j) => h = g /\ i = j
<1>1. Len(ls[h]) \in Nat /\ Len(ls[g]) \in Nat
  BY Elements
<1>2. \A i \in 1..Len(ls[h]) : ls[h][i] \notin Heads
  BY Elements
<1>3. \A i \in 1..Len(ls[g]) : ls[g][i] \notin Heads
  BY Elements
<1>4. \A i \in 1..Len(ls[h]), j \in 1..Len(ls[g]) : ls[h][i] = ls[g][j] => h = g /\ i = j
  BY DEF Holds
<1>5. ASSUME NEW i \in Nat, NEW j \in Nat, At(ls, h, i) = At(ls, g, j)
      PROVE  \/ h = g /\ i = j
             \/ h = g /\ i \notin 1..Len(ls[h]) /\ j \notin 1..Len(ls[g])
  <2>1. CASE i \in 1..Len(ls[h]) /\ j \in 1..Len(ls[g])
    BY <1>4, <1>5, <2>1 DEF At
  <2>2. CASE i \in 1..Len(ls[h]) /\ j \notin 1..Len(ls[g])
    BY <1>2, <1>5, <2>2 DEF At
  <2>3. CASE i \notin 1..Len(ls[h]) /\ j \in 1..Len(ls[g])
    BY <1>3, <1>5, <2>3 DEF At
  <2>4. CASE i \notin 1..Len(ls[h]) /\ j \notin 1..Len(ls[g])
    BY <1>5, <2>4 DEF At
  <2> QED
    BY <2>1, <2>2, <2>3, <2>4
<1>6. ASSUME NEW i \in 0..Len(ls[h]), NEW j \in 0..Len(ls[g]), At(ls, h, i) = At(ls, g, j)
      PROVE  h = g /\ i = j
  <2>1. i \in Nat /\ j \in Nat /\ (i \notin 1..Len(ls[h]) => i = 0) /\ (j \notin 1..Len(ls[g]) => j = 0)
    BY <1>1
  <2> QED
    BY <1>5, <1>6, <2>1
<1>7. ASSUME NEW i \in 1..Len(ls[h]) + 1, NEW j \in 1..Len(ls[g]) + 1, At(ls, h, i) = At(ls, g, j)
      PROVE  h = g /\ i = j
  <2>1. /\ i \in Nat /\ j \in Nat
        /\ (i \notin 1..Len(ls[h]) => i = Len(ls[h]) + 1) /\ (j \notin 1..Len(ls[g]) => j = Len(ls[g]) + 1)
    BY <1>1
  <2> QED
    BY <1>5, <1>7, <2>1
<1> QED
  BY <1>6, <1>7

-----------------------------------------------------------------------------
(* Sections go in and out *)

Set(t) == {t[k] : k \in 1..Len(t)}

\* u is s with t put in before the i-th element.
With(s, i, t, u) ==
  /\ u \in Seq(Nodes) /\ Len(u) = Len(s) + Len(t)
  /\ \A k \in 1..Len(s) + Len(t) :
       u[k] = IF k < i THEN s[k] ELSE IF k < i + Len(t) THEN t[k - i + 1] ELSE s[k - Len(t)]

\* The nodes of t are linked to each other.
Chain(m, t) ==
  /\ t \in Seq(Nodes) /\ Len(t) >= 1
  /\ \A k, l \in 1..Len(t) : t[k] = t[l] => k = l
  /\ \A k \in 1..Len(t) - 1 : m.next[t[k]] = t[k + 1] /\ m.prev[t[k + 1]] = t[k]

\* What the two stores of __list_del() do to b, and the four of a splice.
Joined(a, b, p, q) ==
  \A l \in Links : /\ b.next[l] = IF l = p THEN q ELSE a.next[l]
                   /\ b.prev[l] = IF l = q THEN p ELSE a.prev[l]
JoinedTwice(a, b, p, first, end, q) ==
  \A l \in Links : /\ b.next[l] = IF l = p THEN first ELSE IF l = end THEN q ELSE a.next[l]
                   /\ b.prev[l] = IF l = q THEN end ELSE IF l = first THEN p ELSE a.prev[l]

\* The chain t of the memory a is linked in before the i-th place of the list of
\* h in b, which makes u of the list.
LinkIn(a, b, lv, on, ls, h, i, t, u) ==
  /\ Holds(a, lv, on, ls) /\ lv \subseteq Heads /\ h \in lv
  /\ i \in 1..Len(ls[h]) + 1
  /\ Chain(a, t) /\ Set(t) \cap on = {}
  /\ With(ls[h], i, t, u)
  /\ JoinedTwice(a, b, At(ls, h, i - 1), t[1], t[Len(t)], At(ls, h, i))

\* A chain that is linked in between two neighbours is on their list.
LEMMA SectionIn ==
  ASSUME NEW a, NEW b, NEW lv, NEW on, NEW ls, NEW h, NEW i, NEW t, NEW u,
         LinkIn(a, b, lv, on, ls, h, i, t, u)
  PROVE  Holds(b, lv, on \cup Set(t), [ls EXCEPT ![h] = u])
<1> USE DEF LinkIn
<1> DEFINE us == [ls EXCEPT ![h] = u]
           s == ls[h]
           L == Len(ls[h])
           T == Len(t)
<1>0. h \in Heads
  OBVIOUS
<1>1. us \in [Heads -> Seq(Nodes)] /\ us[h] = u /\ \A g \in Heads : g # h => us[g] = ls[g]
  BY DEF Holds, With
<1>2. /\ L \in Nat /\ i \in 1..L + 1 /\ T \in Nat /\ T >= 1
      /\ \A k \in 1..L : s[k] \in Nodes /\ s[k] \in on /\ s[k] \notin Heads
      /\ \A k \in 1..T : t[k] \in Nodes /\ t[k] \notin on /\ t[k] \notin Heads
  <2>1. T \in Nat /\ \A k \in 1..T : t[k] \in Nodes
    BY LenProperties DEF Chain
  <2>2. \A k \in 1..T : t[k] \notin on
    BY DEF Set
  <2> QED
    BY <1>0, <2>1, <2>2, Elements, ListHeadAssumption DEF Chain
<1>3. /\ u \in Seq(Nodes) /\ Len(u) = L + T
      /\ \A k \in 1..L + T : u[k] = IF k < i THEN s[k] ELSE IF k < i + T THEN t[k - i + 1] ELSE s[k - T]
  BY DEF With
<1>4. /\ \A k \in 1..L + T : \/ k < i /\ k \in 1..L /\ u[k] = s[k]
                             \/ i <= k /\ k < i + T /\ k - i + 1 \in 1..T /\ u[k] = t[k - i + 1]
                             \/ i + T <= k /\ k - T \in 1..L /\ u[k] = s[k - T]
  BY <1>2, <1>3, SMTT(30)
<1>5. \A g \in Heads : Len(ls[g]) \in Nat /\ \A j \in 1..Len(ls[g]) : ls[g][j] \in Nodes /\ ls[g][j] \in on
  BY Elements
<1>6. \A k, l \in 1..L : s[k] = s[l] => k = l
  BY <1>0 DEF Holds
<1>7. \A k, l \in 1..T : t[k] = t[l] => k = l
  BY DEF Chain
<1>8. \A g \in Heads : g # h => \A k \in 1..L, j \in 1..Len(ls[g]) : s[k] # ls[g][j]
  BY <1>0 DEF Holds
<1> HIDE DEF us
<1>10. \A g \in Heads \ lv : us[g] = <<>>
  BY <1>1 DEF Holds
<1>11. \A g \in Heads : \A j \in 1..Len(us[g]) : us[g][j] \in on \cup Set(t)
  <2> TAKE g \in Heads
  <2>1. CASE g = h
    <3>1. \A k \in 1..L + T : u[k] \in on \cup Set(t)
      BY <1>2, <1>4 DEF Set
    <3> QED
      BY <1>1, <1>3, <2>1, <3>1
  <2>2. CASE g # h
    BY <1>1, <1>5, <2>2
  <2> QED
    BY <2>1, <2>2
<1>12. \A n \in on \cup Set(t) : \E g \in Heads : \E j \in 1..Len(us[g]) : us[g][j] = n
  <2> TAKE n \in on \cup Set(t)
  <2>1. CASE n \in Set(t)
    <3>1. PICK k \in 1..T : t[k] = n
      BY <2>1 DEF Set
    <3>2. k + i - 1 \in 1..L + T /\ u[k + i - 1] = n
      <4>0. k \in Nat /\ 1 <= k /\ k <= T /\ i \in Nat /\ 1 <= i /\ i <= L + 1
        BY <1>2
      <4>1. k + i - 1 \in 1..L + T /\ ~(k + i - 1 < i) /\ k + i - 1 < i + T /\ (k + i - 1) - i + 1 = k
        BY <1>2, <4>0
      <4> QED
        BY <1>3, <3>1, <4>1
    <3> QED
      BY <1>0, <1>1, <1>3, <3>2
  <2>2. CASE n \in on
    <3>1. PICK g \in Heads : \E j \in 1..Len(ls[g]) : ls[g][j] = n
      BY <2>2 DEF Holds
    <3>2. PICK j \in 1..Len(ls[g]) : ls[g][j] = n
      BY <3>1
    <3>3. CASE g # h
      BY <1>1, <3>2, <3>3
    <3>4. CASE g = h /\ j < i
      <4>1. j \in 1..L + T /\ u[j] = n
        BY <1>2, <1>3, <3>2, <3>4
      <4> QED
        BY <1>0, <1>1, <1>3, <4>1
    <3>5. CASE g = h /\ ~(j < i)
      <4>1. j + T \in 1..L + T /\ ~(j + T < i) /\ ~(j + T < i + T) /\ (j + T) - T = j
        BY <1>2, <3>5
      <4>2. u[j + T] = n
        BY <1>3, <3>2, <3>5, <4>1
      <4> QED
        BY <1>0, <1>1, <1>3, <4>1, <4>2
    <3> QED
      BY <3>3, <3>4, <3>5
  <2> QED
    BY <2>1, <2>2
<1>13. \A k, l \in 1..L + T : u[k] = u[l] => k = l
  <2> TAKE k, l \in 1..L + T
  <2> HAVE u[k] = u[l]
  <2>0. /\ k \in Nat /\ l \in Nat
        /\ \/ k < i /\ k \in 1..L /\ u[k] = s[k]
           \/ i <= k /\ k < i + T /\ k - i + 1 \in 1..T /\ u[k] = t[k - i + 1]
           \/ i + T <= k /\ k - T \in 1..L /\ u[k] = s[k - T]
        /\ \/ l < i /\ l \in 1..L /\ u[l] = s[l]
           \/ i <= l /\ l < i + T /\ l - i + 1 \in 1..T /\ u[l] = t[l - i + 1]
           \/ i + T <= l /\ l - T \in 1..L /\ u[l] = s[l - T]
    BY <1>2, <1>4
  <2>1. CASE i <= k /\ k < i + T /\ i <= l /\ l < i + T
    <3>1. k - i + 1 \in 1..T /\ l - i + 1 \in 1..T /\ t[k - i + 1] = t[l - i + 1]
      BY <1>2, <2>0, <2>1
    <3>2. k - i + 1 = l - i + 1
      BY <1>7, <3>1
    <3> QED
      BY <1>2, <2>0, <3>2
  <2>2. CASE i <= k /\ k < i + T /\ ~(i <= l /\ l < i + T)
    <3>1. u[k] \notin on
      BY <1>2, <2>0, <2>2, SMTT(30)
    <3>2. u[l] \in on
      BY <1>2, <2>0, <2>2
    <3> QED
      BY <3>1, <3>2
  <2>3. CASE ~(i <= k /\ k < i + T) /\ i <= l /\ l < i + T
    <3>1. u[l] \notin on
      BY <1>2, <2>0, <2>3
    <3>2. u[k] \in on
      BY <1>2, <2>0, <2>3
    <3> QED
      BY <3>1, <3>2
  <2>4. CASE ~(i <= k /\ k < i + T) /\ ~(i <= l /\ l < i + T)
    <3>1. CASE k < i /\ l < i
      BY <1>2, <1>6, <2>0, <3>1
    <3>2. CASE i + T <= k /\ i + T <= l
      <4>1. k - T \in 1..L /\ l - T \in 1..L /\ s[k - T] = s[l - T]
        BY <1>2, <2>0, <3>2
      <4>2. k - T = l - T
        BY <1>6, <4>1
      <4> QED
        BY <1>2, <2>0, <4>2
    <3>3. CASE k < i /\ i + T <= l
      <4>1. k \in 1..L /\ l - T \in 1..L /\ s[k] = s[l - T]
        BY <1>2, <2>0, <3>3
      <4>2. k = l - T
        BY <1>6, <4>1
      <4> QED
        BY <1>2, <2>0, <3>3, <4>2
    <3>4. CASE i + T <= k /\ l < i
      <4>1. k - T \in 1..L /\ l \in 1..L /\ s[k - T] = s[l]
        BY <1>2, <2>0, <3>4
      <4>2. k - T = l
        BY <1>6, <4>1
      <4> QED
        BY <1>2, <2>0, <3>4, <4>2
    <3> QED
      BY <1>2, <2>0, <2>4, <3>1, <3>2, <3>3, <3>4
  <2> QED
    BY <1>2, <2>0, <2>1, <2>2, <2>3, <2>4
<1>14. \A g \in Heads : g # h => \A k \in 1..L + T, j \in 1..Len(ls[g]) : u[k] # ls[g][j]
  <2> TAKE g \in Heads
  <2> HAVE g # h
  <2> TAKE k \in 1..L + T, j \in 1..Len(ls[g])
  <2>1. ls[g][j] \in on /\ \A l \in 1..L : s[l] # ls[g][j]
    BY <1>5, <1>8
  <2> QED
    BY <1>2, <1>4, <2>1
<1>15. \A g, f \in Heads : \A j \in 1..Len(us[g]), k \in 1..Len(us[f]) :
         us[g][j] = us[f][k] => g = f /\ j = k
  <2> TAKE g, f \in Heads
  <2> TAKE j \in 1..Len(us[g]), k \in 1..Len(us[f])
  <2>1. CASE g = h /\ f = h
    BY <1>1, <1>3, <1>13, <2>1
  <2>2. CASE g = h /\ f # h
    BY <1>1, <1>3, <1>14, <2>2
  <2>3. CASE g # h /\ f = h
    <3>1. us[g] = ls[g] /\ us[f] = u /\ u[k] # ls[g][j]
      BY <1>1, <1>3, <1>14, <2>3
    <3> QED
      BY <3>1
  <2>4. CASE g # h /\ f # h
    <3>1. us[g] = ls[g] /\ us[f] = ls[f]
      BY <1>1, <2>4
    <3>2. \A x \in 1..Len(ls[g]), y \in 1..Len(ls[f]) : ls[g][x] = ls[f][y] => g = f /\ x = y
      BY DEF Holds
    <3> QED
      BY <3>1, <3>2
  <2> QED
    BY <2>1, <2>2, <2>3, <2>4
<1>16. /\ \A k \in 1..T : t[k] \in Links /\ \A g \in lv : \A j \in Nat : t[k] # At(ls, g, j)
       /\ \A g \in lv : \A j \in Nat : At(ls, g, j) \in Links
  <2>1. \A g \in lv : \A j \in Nat : At(ls, g, j) \in Links /\ At(ls, g, j) \in {g} \cup on
    BY Ats
  <2>2. \A k \in 1..T : t[k] \in Links
    BY <1>2 DEF Links
  <2> QED
    BY <1>2, <2>1, <2>2
<1>17. ASSUME NEW g \in lv, g # h, NEW j \in 0..Len(us[g])
       PROVE  b.next[At(us, g, j)] = At(us, g, j + 1) /\ b.prev[At(us, g, j + 1)] = At(us, g, j)
  <2>1. /\ g \in Heads /\ us[g] = ls[g] /\ Len(ls[g]) \in Nat /\ j \in 0..Len(ls[g])
        /\ j \in Nat /\ j + 1 \in Nat /\ j + 1 \in 1..Len(ls[g]) + 1 /\ i - 1 \in 0..L /\ i \in 1..L + 1
        /\ i \in Nat /\ i - 1 \in Nat /\ 1 \in 1..T /\ T \in 1..T
    BY <1>1, <1>2, <1>5, <1>17
  <2>2. At(us, g, j) = At(ls, g, j) /\ At(us, g, j + 1) = At(ls, g, j + 1)
    BY <2>1 DEF At
  <2>3. a.next[At(ls, g, j)] = At(ls, g, j + 1) /\ a.prev[At(ls, g, j + 1)] = At(ls, g, j)
    BY <2>1 DEF Holds
  <2>4. At(ls, g, j) # At(ls, h, i - 1) /\ At(ls, g, j + 1) # At(ls, h, i)
    BY <1>0, <1>17, <2>1, AtsDiffer, SMTT(30)
  <2>5. At(ls, g, j) \in Links /\ At(ls, g, j + 1) \in Links
        /\ At(ls, g, j) # t[T] /\ At(ls, g, j + 1) # t[1]
    BY <1>16, <2>1
  <2> QED
    BY <2>2, <2>3, <2>4, <2>5 DEF JoinedTwice
<1>18. \A j \in 0..L + T + 1 :
         /\ j < i => At(us, h, j) = At(ls, h, j)
         /\ i <= j /\ j < i + T => At(us, h, j) = t[j - i + 1]
         /\ i + T <= j => At(us, h, j) = At(ls, h, j - T)
  <2> TAKE j \in 0..L + T + 1
  <2>1. us[h] = u /\ Len(us[h]) = L + T
    BY <1>1, <1>3
  <2>2. CASE j < i
    <3>1. (j \in 1..L + T) <=> (j \in 1..L)
      BY <1>2, <2>2
    <3> QED
      BY <1>2, <1>3, <2>1, <2>2, <3>1 DEF At
  <2>3. CASE i <= j /\ j < i + T
    <3>1. j \in 1..L + T /\ ~(j < i) /\ ~(i + T <= j)
      BY <1>2, <2>3
    <3> QED
      BY <1>3, <2>1, <2>3, <3>1 DEF At
  <2>4. CASE i + T <= j
    <3>1. ~(j < i) /\ ~(j < i + T) /\ ((j \in 1..L + T) <=> (j - T \in 1..L))
      BY <1>2, <2>4
    <3> QED
      BY <1>3, <2>1, <2>4, <3>1 DEF At
  <2> QED
    BY <1>2, <2>2, <2>3, <2>4
<1>19. \A j \in 0..L : b.next[At(ls, h, j)] = IF j = i - 1 THEN t[1] ELSE At(ls, h, j + 1)
  <2> TAKE j \in 0..L
  <2>1. j \in Nat /\ i - 1 \in 0..L /\ T \in 1..T
    BY <1>2
  <2>2. At(ls, h, j) \in Links /\ At(ls, h, j) # t[T]
    BY <1>16, <2>1
  <2>3. At(ls, h, j) = At(ls, h, i - 1) => j = i - 1
    BY <1>0, <2>1, AtsDiffer
  <2>4. a.next[At(ls, h, j)] = At(ls, h, j + 1)
    BY DEF Holds
  <2>5. b.next[At(ls, h, j)] = IF At(ls, h, j) = At(ls, h, i - 1) THEN t[1]
          ELSE IF At(ls, h, j) = t[T] THEN At(ls, h, i) ELSE a.next[At(ls, h, j)]
    BY <2>2 DEF JoinedTwice
  <2> QED
    BY <2>2, <2>3, <2>4, <2>5
<1>20. \A j \in 1..L + 1 : b.prev[At(ls, h, j)] = IF j = i THEN t[T] ELSE At(ls, h, j - 1)
  <2> TAKE j \in 1..L + 1
  <2>1. j \in Nat /\ j - 1 \in 0..L /\ (j - 1) + 1 = j /\ 1 \in 1..T
    BY <1>2
  <2>2. At(ls, h, j) \in Links /\ At(ls, h, j) # t[1]
    BY <1>16, <2>1
  <2>3. At(ls, h, j) = At(ls, h, i) => j = i
    BY <1>0, <2>1, AtsDiffer
  <2>4. a.prev[At(ls, h, j)] = At(ls, h, j - 1)
    <3>1. \A k \in 0..L : a.prev[At(ls, h, k + 1)] = At(ls, h, k)
      BY DEF Holds
    <3> QED
      BY <2>1, <3>1
  <2>5. b.prev[At(ls, h, j)] = IF At(ls, h, j) = At(ls, h, i) THEN t[T]
          ELSE IF At(ls, h, j) = t[1] THEN At(ls, h, i - 1) ELSE a.prev[At(ls, h, j)]
    BY <2>2 DEF JoinedTwice
  <2> QED
    BY <2>2, <2>3, <2>4, <2>5
<1>21. \A k \in 1..T : /\ b.next[t[k]] = IF k = T THEN At(ls, h, i) ELSE t[k + 1]
                       /\ b.prev[t[k]] = IF k = 1 THEN At(ls, h, i - 1) ELSE t[k - 1]
  <2> TAKE k \in 1..T
  <2>1. t[k] \in Links /\ t[k] # At(ls, h, i - 1) /\ t[k] # At(ls, h, i)
    BY <1>2, <1>16
  <2>2. t[k] = t[T] => k = T
    BY <1>2, <1>7
  <2>3. t[k] = t[1] => k = 1
    BY <1>2, <1>7
  <2>4. /\ b.next[t[k]] = IF t[k] = t[T] THEN At(ls, h, i) ELSE a.next[t[k]]
        /\ b.prev[t[k]] = IF t[k] = t[1] THEN At(ls, h, i - 1) ELSE a.prev[t[k]]
    BY <2>1 DEF JoinedTwice
  <2>5. k # T => a.next[t[k]] = t[k + 1]
    <3>1. k # T => k \in 1..T - 1
      BY <1>2
    <3> QED
      BY <3>1 DEF Chain
  <2>6. k # 1 => a.prev[t[k]] = t[k - 1]
    <3>1. k # 1 => k - 1 \in 1..T - 1 /\ (k - 1) + 1 = k
      BY <1>2
    <3>2. \A l \in 1..T - 1 : a.prev[t[l + 1]] = t[l]
      BY DEF Chain
    <3> QED
      BY <3>1, <3>2
  <2> QED
    BY <2>2, <2>3, <2>4, <2>5, <2>6
<1>22. ASSUME NEW j \in 0..L + T
       PROVE  b.next[At(us, h, j)] = At(us, h, j + 1)
  <2>0. j \in 0..L + T + 1 /\ j + 1 \in 0..L + T + 1
    BY <1>2
  <2>9. /\ L \in Nat /\ T \in Nat /\ i \in Nat /\ j \in Nat
        /\ T >= 1 /\ 1 <= i /\ i <= L + 1 /\ j <= L + T
    BY <1>2
  <2>1. CASE j + 1 < i
    <3>1. j < i /\ j \in 0..L /\ j # i - 1
      BY <1>2, <2>1
    <3> QED
      BY <1>18, <1>19, <2>0, <2>1, <3>1
  <2>2. CASE j + 1 = i
    <3>1. j < i /\ j \in 0..L /\ j = i - 1 /\ i <= j + 1 /\ j + 1 < i + T /\ (j + 1) - i + 1 = 1
      BY <2>9, <2>2
    <3>2. At(us, h, j) = At(ls, h, j) /\ At(us, h, j + 1) = t[(j + 1) - i + 1]
      BY <1>18, <2>0, <3>1
    <3> QED
      BY <1>19, <3>1, <3>2
  <2>3. CASE i <= j /\ j + 1 < i + T
    <3>1. i <= j + 1 /\ j < i + T /\ j - i + 1 \in 1..T /\ j - i + 1 # T /\ (j + 1) - i + 1 = (j - i + 1) + 1
      BY <1>2, <2>3
    <3>2. At(us, h, j) = t[j - i + 1] /\ At(us, h, j + 1) = t[(j + 1) - i + 1]
      BY <1>18, <2>0, <2>3, <3>1
    <3>3. b.next[t[j - i + 1]] = t[(j - i + 1) + 1]
      BY <1>21, <3>1
    <3> QED
      BY <3>1, <3>2, <3>3
  <2>4. CASE j + 1 = i + T
    <3>1. i <= j /\ j < i + T /\ j - i + 1 \in 1..T /\ j - i + 1 = T /\ (j + 1) - T = i /\ i + T <= j + 1
      BY <2>9, <2>4
    <3>2. At(us, h, j) = t[j - i + 1] /\ At(us, h, j + 1) = At(ls, h, (j + 1) - T)
      BY <1>18, <2>0, <3>1
    <3>3. b.next[t[j - i + 1]] = At(ls, h, i)
      BY <1>21, <3>1
    <3> QED
      BY <3>1, <3>2, <3>3
  <2>5. CASE i + T <= j
    <3>1. i + T <= j + 1 /\ j - T \in 0..L /\ j - T # i - 1 /\ (j + 1) - T = (j - T) + 1
      BY <1>2, <2>5
    <3>2. At(us, h, j) = At(ls, h, j - T) /\ At(us, h, j + 1) = At(ls, h, (j + 1) - T)
      BY <1>18, <2>0, <2>5, <3>1
    <3>3. b.next[At(ls, h, j - T)] = At(ls, h, (j - T) + 1)
      BY <1>19, <3>1
    <3> QED
      BY <3>1, <3>2, <3>3
  <2> QED
    BY <2>9, <2>1, <2>2, <2>3, <2>4, <2>5
<1>23. ASSUME NEW j \in 0..L + T
       PROVE  b.prev[At(us, h, j + 1)] = At(us, h, j)
  <2>0. j \in 0..L + T + 1 /\ j + 1 \in 0..L + T + 1
    BY <1>2
  <2>9. /\ L \in Nat /\ T \in Nat /\ i \in Nat /\ j \in Nat
        /\ T >= 1 /\ 1 <= i /\ i <= L + 1 /\ j <= L + T
    BY <1>2
  <2>1. CASE j + 1 < i
    <3>1. j < i /\ j + 1 \in 1..L + 1 /\ j + 1 # i /\ (j + 1) - 1 = j
      BY <1>2, <2>1
    <3>2. b.prev[At(ls, h, j + 1)] = At(ls, h, (j + 1) - 1)
      BY <1>20, <3>1
    <3> QED
      BY <1>18, <2>0, <2>1, <3>1, <3>2
  <2>2. CASE j + 1 = i
    <3>1. j < i /\ j = i - 1 /\ 1 \in 1..T /\ i <= j + 1 /\ j + 1 < i + T /\ (j + 1) - i + 1 = 1
      BY <2>9, <2>2
    <3>2. At(us, h, j) = At(ls, h, j) /\ At(us, h, j + 1) = t[(j + 1) - i + 1]
      BY <1>18, <2>0, <3>1
    <3>3. b.prev[t[1]] = At(ls, h, i - 1)
      BY <1>21, <3>1
    <3> QED
      BY <3>1, <3>2, <3>3
  <2>3. CASE i <= j /\ j + 1 < i + T
    <3>1. /\ i <= j + 1 /\ j < i + T /\ (j + 1) - i + 1 \in 1..T /\ (j + 1) - i + 1 # 1
          /\ ((j + 1) - i + 1) - 1 = j - i + 1
      BY <1>2, <2>3
    <3>2. At(us, h, j) = t[j - i + 1] /\ At(us, h, j + 1) = t[(j + 1) - i + 1]
      BY <1>18, <2>0, <2>3, <3>1
    <3>3. b.prev[t[(j + 1) - i + 1]] = t[((j + 1) - i + 1) - 1]
      BY <1>21, <3>1
    <3> QED
      BY <3>1, <3>2, <3>3
  <2>4. CASE j + 1 = i + T
    <3>1. /\ i <= j /\ j < i + T /\ j - i + 1 \in 1..T /\ j - i + 1 = T /\ (j + 1) - T = i /\ i + T <= j + 1
          /\ i \in 1..L + 1
      BY <2>9, <2>4
    <3>2. At(us, h, j) = t[j - i + 1] /\ At(us, h, j + 1) = At(ls, h, (j + 1) - T)
      BY <1>18, <2>0, <3>1
    <3>3. b.prev[At(ls, h, i)] = t[T]
      BY <1>20, <3>1
    <3> QED
      BY <3>1, <3>2, <3>3
  <2>5. CASE i + T <= j
    <3>1. /\ i + T <= j + 1 /\ (j + 1) - T \in 1..L + 1 /\ (j + 1) - T # i
          /\ ((j + 1) - T) - 1 = j - T
      BY <2>5, <2>9
    <3>2. At(us, h, j) = At(ls, h, j - T) /\ At(us, h, j + 1) = At(ls, h, (j + 1) - T)
      BY <1>18, <2>0, <2>5, <3>1
    <3>3. b.prev[At(ls, h, (j + 1) - T)] = At(ls, h, ((j + 1) - T) - 1)
      BY <1>20, <3>1
    <3> QED
      BY <3>1, <3>2, <3>3
  <2> QED
    BY <2>9, <2>1, <2>2, <2>3, <2>4, <2>5
<1>24. \A g \in lv : \A j \in 0..Len(us[g]) :
         b.next[At(us, g, j)] = At(us, g, j + 1) /\ b.prev[At(us, g, j + 1)] = At(us, g, j)
  BY <1>1, <1>3, <1>17, <1>22, <1>23
<1> QED
  BY <1>1, <1>10, <1>11, <1>12, <1>15, <1>24 DEF Holds, us

\* t is the section from the i-th element of the list of h, and u is what is left
\* of that list; its neighbours in the memory a are joined in b.
CutOut(a, b, lv, on, ls, h, i, t, u) ==
  /\ Holds(a, lv, on, ls) /\ lv \subseteq Heads /\ h \in lv
  /\ u \in Seq(Nodes) /\ t \in Seq(Nodes) /\ Len(t) >= 1 /\ i \in 1..Len(u) + 1
  /\ With(u, i, t, ls[h])
  /\ Joined(a, b, At(ls, h, i - 1), At(ls, h, i + Len(t)))

\* The places of the ring of h in ls, without the k that come from the i-th on.
Closed(us, ls, h, i, k) ==
  \A j \in 0..Len(us[h]) + 1 : At(us, h, j) = IF j < i THEN At(ls, h, j) ELSE At(ls, h, j + k)

\* A section whose neighbours are joined is off the list, and stays a chain.
LEMMA SectionOut ==
  ASSUME NEW a, NEW b, NEW lv, NEW on, NEW ls, NEW h, NEW i, NEW t, NEW u,
         CutOut(a, b, lv, on, ls, h, i, t, u)
  PROVE  /\ Holds(b, lv, on \ Set(t), [ls EXCEPT ![h] = u])
         /\ Chain(b, t) /\ Set(t) \subseteq on
         /\ Closed([ls EXCEPT ![h] = u], ls, h, i, Len(t))
<1> USE DEF CutOut
<1> DEFINE us == [ls EXCEPT ![h] = u]
           s == ls[h]
           L == Len(u)
           T == Len(t)
<1>0. h \in Heads
  OBVIOUS
<1>1. us \in [Heads -> Seq(Nodes)] /\ us[h] = u /\ \A g \in Heads : g # h => us[g] = ls[g]
  BY DEF Holds
<1>2. /\ L \in Nat /\ T \in Nat /\ T >= 1 /\ i \in Nat /\ 1 <= i /\ i <= L + 1 /\ Len(s) = L + T
  BY LenProperties DEF With
<1>3. \A k \in 1..L + T : s[k] = IF k < i THEN u[k] ELSE IF k < i + T THEN t[k - i + 1] ELSE u[k - T]
  BY DEF With
<1>4. \A k \in 1..L + T : s[k] \in Nodes /\ s[k] \in on /\ s[k] \notin Heads
  BY <1>0, <1>2, Elements
<1>5. /\ \A k \in 1..L : k < i => k \in 1..L + T /\ u[k] = s[k]
      /\ \A k \in 1..L : i <= k => k + T \in 1..L + T /\ u[k] = s[k + T]
  <2>1. ASSUME NEW k \in 1..L, k < i PROVE k \in 1..L + T /\ u[k] = s[k]
    <3>1. k \in 1..L + T
      BY <1>2
    <3> QED
      BY <1>3, <2>1, <3>1
  <2>2. ASSUME NEW k \in 1..L, i <= k PROVE k + T \in 1..L + T /\ u[k] = s[k + T]
    <3>0. k \in Nat /\ k <= L
      BY <1>2
    <3>1. k + T \in 1..L + T /\ ~(k + T < i) /\ ~(k + T < i + T) /\ (k + T) - T = k /\ ~(k < i)
      BY <1>2, <2>2, <3>0
    <3>2. s[k + T] = u[(k + T) - T]
      BY <1>3, <3>1
    <3> QED
      BY <3>1, <3>2
  <2> QED
    BY <2>1, <2>2
<1>6. \A k \in 1..T : k + i - 1 \in 1..L + T /\ t[k] = s[k + i - 1]
  <2> TAKE k \in 1..T
  <2>0. k \in Nat /\ 1 <= k /\ k <= T
    BY <1>2
  <2>1. k + i - 1 \in 1..L + T /\ ~(k + i - 1 < i) /\ k + i - 1 < i + T /\ (k + i - 1) - i + 1 = k
    BY <1>2, <2>0
  <2>2. s[k + i - 1] = t[(k + i - 1) - i + 1]
    BY <1>3, <2>1
  <2> QED
    BY <2>1, <2>2
<1>7. \A k, l \in 1..L + T : s[k] = s[l] => k = l
  <2>1. \A k, l \in 1..Len(s) : s[k] = s[l] => k = l
    BY <1>0 DEF Holds
  <2> QED
    BY <1>2, <2>1
<1>8. \A g \in Heads : g # h => \A k \in 1..L + T, j \in 1..Len(ls[g]) : s[k] # ls[g][j]
  <2>1. \A g \in Heads : g # h => \A k \in 1..Len(s), j \in 1..Len(ls[g]) : s[k] # ls[g][j]
    BY <1>0 DEF Holds
  <2> QED
    BY <1>2, <2>1
<1>9. \A g \in Heads : Len(ls[g]) \in Nat /\ \A j \in 1..Len(ls[g]) : ls[g][j] \in Nodes /\ ls[g][j] \in on
  BY Elements
<1> HIDE DEF us
<1>10. Set(t) \subseteq on
  BY <1>4, <1>6 DEF Set
<1>11. \A k, l \in 1..T : t[k] = t[l] => k = l
  <2> TAKE k, l \in 1..T
  <2> HAVE t[k] = t[l]
  <2>1. k + i - 1 = l + i - 1
    BY <1>6, <1>7
  <2> QED
    BY <1>2, <2>1
<1>12. \A k \in 1..L, l \in 1..T : u[k] # t[l]
  <2> TAKE k \in 1..L, l \in 1..T
  <2> SUFFICES ASSUME u[k] = t[l] PROVE FALSE
    OBVIOUS
  <2>0. l + i - 1 \in 1..L + T /\ u[k] = s[l + i - 1]
    BY <1>6
  <2>1. CASE k < i
    <3>1. k \in 1..L + T /\ u[k] = s[k]
      BY <1>5, <2>1
    <3>2. k = l + i - 1
      BY <1>7, <2>0, <3>1
    <3> QED
      BY <1>2, <2>1, <3>2
  <2>2. CASE i <= k
    <3>1. k + T \in 1..L + T /\ u[k] = s[k + T]
      BY <1>5, <2>2
    <3>2. k + T = l + i - 1
      BY <1>7, <2>0, <3>1
    <3> QED
      BY <1>2, <2>2, <3>2
  <2> QED
    BY <1>2, <2>1, <2>2
<1>13. \A k \in 1..L : u[k] \in on /\ u[k] \notin Set(t)
  <2> TAKE k \in 1..L
  <2>0. k \in Nat
    OBVIOUS
  <2>1. u[k] \in on
    <3>1. CASE k < i
      BY <1>4, <1>5, <3>1
    <3>2. CASE i <= k
      BY <1>4, <1>5, <3>2
    <3> QED
      BY <1>2, <2>0, <3>1, <3>2
  <2> QED
    BY <1>12, <2>1 DEF Set
<1>14. \A k, l \in 1..L : u[k] = u[l] => k = l
  <2> TAKE k, l \in 1..L
  <2> HAVE u[k] = u[l]
  <2>0. k \in Nat /\ l \in Nat
    OBVIOUS
  <2>1. CASE k < i /\ l < i
    BY <1>5, <1>7, <2>1
  <2>2. CASE k < i /\ i <= l
    <3>1. k \in 1..L + T /\ l + T \in 1..L + T /\ s[k] = s[l + T]
      BY <1>5, <2>2
    <3>2. k = l + T
      BY <1>7, <3>1
    <3> QED
      BY <1>2, <2>0, <2>2, <3>2
  <2>3. CASE i <= k /\ l < i
    <3>1. k + T \in 1..L + T /\ l \in 1..L + T /\ s[k + T] = s[l]
      BY <1>5, <2>3
    <3>2. k + T = l
      BY <1>7, <3>1
    <3> QED
      BY <1>2, <2>0, <2>3, <3>2
  <2>4. CASE i <= k /\ i <= l
    <3>1. k + T \in 1..L + T /\ l + T \in 1..L + T /\ s[k + T] = s[l + T]
      BY <1>5, <2>4
    <3>2. k + T = l + T
      BY <1>7, <3>1
    <3> QED
      BY <1>2, <2>0, <3>2
  <2> QED
    BY <1>2, <2>0, <2>1, <2>2, <2>3, <2>4
<1>15. \A g \in Heads : g # h => \A k \in 1..L, j \in 1..Len(ls[g]) : u[k] # ls[g][j]
  <2> TAKE g \in Heads
  <2> HAVE g # h
  <2> TAKE k \in 1..L, j \in 1..Len(ls[g])
  <2>1. \A l \in 1..L + T : s[l] # ls[g][j]
    BY <1>8
  <2>2. \E l \in 1..L + T : u[k] = s[l]
    BY <1>2, <1>5
  <2> QED
    BY <2>1, <2>2
<1>16. \A g \in Heads \ lv : us[g] = <<>>
  BY <1>1 DEF Holds
<1>17. \A g \in Heads : \A j \in 1..Len(us[g]) : us[g][j] \in on \ Set(t)
  <2> TAKE g \in Heads
  <2>1. CASE g = h
    BY <1>1, <1>13, <2>1
  <2>2. CASE g # h
    <3>1. ASSUME NEW j \in 1..Len(ls[g]) PROVE ls[g][j] \notin Set(t)
      <4>1. \A k \in 1..T : t[k] # ls[g][j]
        BY <1>6, <1>8, <2>2
      <4> QED
        BY <4>1 DEF Set
    <3> QED
      BY <1>1, <1>9, <2>2, <3>1
  <2> QED
    BY <2>1, <2>2
<1>18. \A n \in on \ Set(t) : \E g \in Heads : \E j \in 1..Len(us[g]) : us[g][j] = n
  <2> TAKE n \in on \ Set(t)
  <2>1. PICK g \in Heads : \E j \in 1..Len(ls[g]) : ls[g][j] = n
    BY DEF Holds
  <2>2. PICK j \in 1..Len(ls[g]) : ls[g][j] = n
    BY <2>1
  <2>3. CASE g # h
    BY <1>1, <2>2, <2>3
  <2>4. CASE g = h
    <3>0. j \in 1..L + T /\ j \in Nat /\ s[j] = n
      BY <1>2, <2>2, <2>4
    <3>1. CASE j < i
      <4>1. j \in 1..L /\ u[j] = n
        BY <1>2, <1>3, <3>0, <3>1
      <4> QED
        BY <1>0, <1>1, <4>1
    <3>2. CASE i <= j /\ j < i + T
      <4>1. j - i + 1 \in 1..T /\ ~(j < i)
        BY <1>2, <3>0, <3>2
      <4>2. t[j - i + 1] = n
        BY <1>3, <3>0, <3>2, <4>1
      <4> QED
        BY <4>1, <4>2 DEF Set
    <3>3. CASE i + T <= j
      <4>1. j - T \in 1..L /\ ~(j < i) /\ ~(j < i + T)
        BY <1>2, <3>0, <3>3
      <4>2. u[j - T] = n
        BY <1>3, <3>0, <4>1
      <4> QED
        BY <1>0, <1>1, <4>1, <4>2
    <3> QED
      BY <1>2, <3>0, <3>1, <3>2, <3>3
  <2> QED
    BY <2>3, <2>4
<1>19. \A g, f \in Heads : \A j \in 1..Len(us[g]), k \in 1..Len(us[f]) :
         us[g][j] = us[f][k] => g = f /\ j = k
  <2> TAKE g, f \in Heads
  <2> TAKE j \in 1..Len(us[g]), k \in 1..Len(us[f])
  <2>1. CASE g = h /\ f = h
    BY <1>1, <1>14, <2>1
  <2>2. CASE g = h /\ f # h
    BY <1>1, <1>15, <2>2
  <2>3. CASE g # h /\ f = h
    <3>1. us[g] = ls[g] /\ us[f] = u /\ u[k] # ls[g][j]
      BY <1>1, <1>15, <2>3
    <3> QED
      BY <3>1
  <2>4. CASE g # h /\ f # h
    <3>1. us[g] = ls[g] /\ us[f] = ls[f]
      BY <1>1, <2>4
    <3>2. \A x \in 1..Len(ls[g]), y \in 1..Len(ls[f]) : ls[g][x] = ls[f][y] => g = f /\ x = y
      BY DEF Holds
    <3> QED
      BY <3>1, <3>2
  <2> QED
    BY <2>1, <2>2, <2>3, <2>4
<1>20. \A g \in lv : \A j \in Nat : At(ls, g, j) \in Links
  BY Ats
<1>21. ASSUME NEW g \in lv, g # h, NEW j \in 0..Len(us[g])
       PROVE  b.next[At(us, g, j)] = At(us, g, j + 1) /\ b.prev[At(us, g, j + 1)] = At(us, g, j)
  <2>1. /\ g \in Heads /\ us[g] = ls[g] /\ Len(ls[g]) \in Nat /\ j \in 0..Len(ls[g])
        /\ j \in Nat /\ j + 1 \in Nat /\ j + 1 \in 1..Len(ls[g]) + 1
        /\ i - 1 \in 0..Len(s) /\ i + T \in 1..Len(s) + 1
    BY <1>1, <1>2, <1>9, <1>21, SMTT(30)
  <2>2. At(us, g, j) = At(ls, g, j) /\ At(us, g, j + 1) = At(ls, g, j + 1)
    BY <2>1 DEF At
  <2>3. a.next[At(ls, g, j)] = At(ls, g, j + 1) /\ a.prev[At(ls, g, j + 1)] = At(ls, g, j)
    BY <2>1 DEF Holds
  <2>4. At(ls, g, j) # At(ls, h, i - 1) /\ At(ls, g, j + 1) # At(ls, h, i + T)
    <3>1. /\ \A x \in 0..Len(ls[g]), y \in 0..Len(s) : At(ls, g, x) = At(ls, h, y) => g = h
          /\ \A x \in 1..Len(ls[g]) + 1, y \in 1..Len(s) + 1 : At(ls, g, x) = At(ls, h, y) => g = h
      BY <1>0, <2>1, AtsDiffer
    <3> QED
      BY <1>21, <2>1, <3>1
  <2>5. At(ls, g, j) \in Links /\ At(ls, g, j + 1) \in Links
    BY <1>20, <2>1
  <2> QED
    BY <2>2, <2>3, <2>4, <2>5 DEF Joined
<1>22. \A j \in 0..L + 1 : /\ j < i => At(us, h, j) = At(ls, h, j)
                           /\ i <= j => At(us, h, j) = At(ls, h, j + T)
  <2> TAKE j \in 0..L + 1
  <2>0. j \in Nat /\ j <= L + 1
    BY <1>2
  <2>1. CASE j < i
    <3>1. (j \in 1..L) <=> (j \in 1..L + T)
      BY <1>2, <2>0, <2>1
    <3> QED
      BY <1>1, <1>2, <1>5, <2>0, <2>1, <3>1 DEF At
  <2>2. CASE i <= j
    <3>1. (j \in 1..L) <=> (j + T \in 1..L + T)
      BY <1>2, <2>0, <2>2
    <3> QED
      BY <1>1, <1>2, <1>5, <2>0, <2>2, <3>1 DEF At
  <2> QED
    BY <1>2, <2>0, <2>1, <2>2
<1>23. \A j \in 0..L + T : b.next[At(ls, h, j)] = At(ls, h, IF j = i - 1 THEN i + T ELSE j + 1)
  <2> TAKE j \in 0..L + T
  <2>1. j \in Nat /\ i - 1 \in 0..L + T
    BY <1>2
  <2>2. At(ls, h, j) \in Links
    BY <1>20, <2>1
  <2>3. At(ls, h, j) = At(ls, h, i - 1) => j = i - 1
    <3>1. \A x, y \in 0..Len(s) : At(ls, h, x) = At(ls, h, y) => x = y
      BY <1>0, AtsDiffer
    <3> QED
      BY <1>2, <2>1, <3>1
  <2>4. a.next[At(ls, h, j)] = At(ls, h, j + 1)
    BY <1>2 DEF Holds
  <2>5. b.next[At(ls, h, j)] = IF At(ls, h, j) = At(ls, h, i - 1) THEN At(ls, h, i + T) ELSE a.next[At(ls, h, j)]
    BY <2>2 DEF Joined
  <2> QED
    BY <2>3, <2>4, <2>5
<1>24. \A j \in 1..L + T + 1 : b.prev[At(ls, h, j)] = At(ls, h, IF j = i + T THEN i - 1 ELSE j - 1)
  <2> TAKE j \in 1..L + T + 1
  <2>1. j \in Nat /\ j - 1 \in 0..L + T /\ (j - 1) + 1 = j /\ i + T \in 1..L + T + 1
    BY <1>2
  <2>2. At(ls, h, j) \in Links
    BY <1>20, <2>1
  <2>3. At(ls, h, j) = At(ls, h, i + T) => j = i + T
    <3>1. \A x, y \in 1..Len(s) + 1 : At(ls, h, x) = At(ls, h, y) => x = y
      BY <1>0, AtsDiffer
    <3> QED
      BY <1>2, <2>1, <3>1
  <2>4. a.prev[At(ls, h, j)] = At(ls, h, j - 1)
    <3>1. \A k \in 0..L + T : a.prev[At(ls, h, k + 1)] = At(ls, h, k)
      BY <1>2 DEF Holds
    <3> QED
      BY <2>1, <3>1
  <2>5. b.prev[At(ls, h, j)] = IF At(ls, h, j) = At(ls, h, i + T) THEN At(ls, h, i - 1) ELSE a.prev[At(ls, h, j)]
    BY <2>2 DEF Joined
  <2> QED
    BY <2>3, <2>4, <2>5
<1>25. ASSUME NEW j \in 0..L
       PROVE  b.next[At(us, h, j)] = At(us, h, j + 1) /\ b.prev[At(us, h, j + 1)] = At(us, h, j)
  <2>0. j \in 0..L + 1 /\ j + 1 \in 0..L + 1 /\ j \in Nat /\ j <= L
    BY <1>2
  <2>1. CASE j + 1 < i
    <3>1. /\ j < i /\ j \in 0..L + T /\ j # i - 1
          /\ j + 1 \in 1..L + T + 1 /\ j + 1 # i + T /\ (j + 1) - 1 = j
      BY <1>2, <2>0, <2>1
    <3>2. b.next[At(ls, h, j)] = At(ls, h, j + 1) /\ b.prev[At(ls, h, j + 1)] = At(ls, h, (j + 1) - 1)
      BY <1>23, <1>24, <3>1
    <3> QED
      BY <1>22, <2>0, <2>1, <3>1, <3>2
  <2>2. CASE j + 1 = i
    <3>1. /\ j < i /\ j \in 0..L + T /\ j = i - 1 /\ i <= j + 1 /\ (j + 1) + T = i + T /\ i + T \in 1..L + T + 1
      BY <1>2, <2>0, <2>2
    <3>2. b.next[At(ls, h, j)] = At(ls, h, i + T) /\ b.prev[At(ls, h, i + T)] = At(ls, h, i - 1)
      BY <1>23, <1>24, <3>1
    <3>3. At(us, h, j) = At(ls, h, j) /\ At(us, h, j + 1) = At(ls, h, (j + 1) + T)
      BY <1>22, <2>0, <3>1
    <3> QED
      BY <3>1, <3>2, <3>3
  <2>3. CASE i <= j
    <3>1. /\ i <= j + 1 /\ j + T \in 0..L + T /\ j + T # i - 1 /\ (j + 1) + T = (j + T) + 1
          /\ (j + 1) + T \in 1..L + T + 1 /\ (j + 1) + T # i + T /\ ((j + 1) + T) - 1 = j + T
      BY <1>2, <2>0, <2>3
    <3>2. /\ b.next[At(ls, h, j + T)] = At(ls, h, (j + T) + 1)
          /\ b.prev[At(ls, h, (j + 1) + T)] = At(ls, h, ((j + 1) + T) - 1)
      BY <1>23, <1>24, <3>1
    <3>3. At(us, h, j) = At(ls, h, j + T) /\ At(us, h, j + 1) = At(ls, h, (j + 1) + T)
      BY <1>22, <2>0, <2>3, <3>1
    <3> QED
      BY <3>1, <3>2, <3>3
  <2> QED
    BY <1>2, <2>0, <2>1, <2>2, <2>3
<1>26. \A g \in lv : \A j \in 0..Len(us[g]) :
         b.next[At(us, g, j)] = At(us, g, j + 1) /\ b.prev[At(us, g, j + 1)] = At(us, g, j)
  BY <1>1, <1>21, <1>25
<1>27. ASSUME NEW k \in 1..T - 1
       PROVE  b.next[t[k]] = t[k + 1] /\ b.prev[t[k + 1]] = t[k]
  <2>0. k \in Nat /\ 1 <= k /\ k <= T - 1
    BY <1>2
  <2>1. /\ k \in 1..T /\ k + 1 \in 1..T
        /\ k + i - 1 \in 1..L + T /\ k + i - 1 \in 0..L + T /\ k + i - 1 # i - 1 /\ (k + i - 1) + 1 = k + i
        /\ k + i \in 1..L + T /\ k + i \in 1..L + T + 1 /\ k + i # i + T /\ (k + 1) + i - 1 = k + i
        /\ (k + i) - 1 = k + i - 1
    BY <1>2, <2>0
  <2>2. t[k] = At(ls, h, k + i - 1) /\ t[k + 1] = At(ls, h, k + i)
    BY <1>2, <1>6, <2>1 DEF At
  <2>3. b.next[At(ls, h, k + i - 1)] = At(ls, h, (k + i - 1) + 1) /\ b.prev[At(ls, h, k + i)] = At(ls, h, (k + i) - 1)
    BY <1>23, <1>24, <2>1
  <2> QED
    BY <2>1, <2>2, <2>3
<1>28. Chain(b, t)
  BY <1>11, <1>27 DEF Chain
<1>29. Holds(b, lv, on \ Set(t), us)
  BY <1>1, <1>16, <1>17, <1>18, <1>19, <1>26 DEF Holds
<1>30. Closed(us, ls, h, i, T)
  BY <1>1, <1>2, <1>22 DEF Closed
<1> QED
  BY <1>10, <1>28, <1>29, <1>30 DEF us

-----------------------------------------------------------------------------
(* The same with the operators of Deques *)

LEMMA SubIs ==
  ASSUME NEW s \in Seq(Nodes), NEW i \in 1..Len(s) + 1, NEW j \in i - 1..Len(s)
  PROVE  /\ SubSeq(s, i, j) \in Seq(Nodes) /\ Len(SubSeq(s, i, j)) = j - i + 1
         /\ \A k \in 1..j - i + 1 : SubSeq(s, i, j)[k] = s[i + k - 1]
<1>1. Len(s) \in Nat /\ i \in Int /\ j \in Int /\ i - 1 <= j /\ \A k \in 1..Len(s) : s[k] \in Nodes
  BY LenProperties
<1>2. \A k \in i..j : s[k] \in Nodes
  BY <1>1
<1>3. /\ SubSeq(s, i, j) \in Seq(Nodes)
      /\ Len(SubSeq(s, i, j)) = IF i <= j THEN j - i + 1 ELSE 0
      /\ \A k \in 1..j - i + 1 : SubSeq(s, i, j)[k] = s[i + k - 1]
  BY <1>1, <1>2, SubSeqProperties
<1> QED
  BY <1>1, <1>3

\* s with t put in before the i-th element, and s without those from i to j.
Put(s, i, t) == SubSeq(s, 1, i - 1) \o t \o SubSeq(s, i, Len(s))
Out(s, i, j) == SubSeq(s, 1, i - 1) \o SubSeq(s, j + 1, Len(s))

LEMMA PutIs ==
  ASSUME NEW s \in Seq(Nodes), NEW i \in 1..Len(s) + 1, NEW t \in Seq(Nodes)
  PROVE  With(s, i, t, Put(s, i, t))
<1> DEFINE L == Len(s)
           T == Len(t)
           p == SubSeq(s, 1, i - 1)
           q == SubSeq(s, i, L)
           o == p \o t
           w == o \o q
<1>1. L \in Nat /\ T \in Nat /\ i \in Nat /\ 1 <= i /\ i <= L + 1
  BY LenProperties
<1>2. p \in Seq(Nodes) /\ Len(p) = i - 1 /\ \A k \in 1..i - 1 : p[k] = s[k]
  <2>1. 1 \in 1..L + 1 /\ i - 1 \in 1 - 1..L
    BY <1>1
  <2>2. p \in Seq(Nodes) /\ Len(p) = (i - 1) - 1 + 1 /\ \A k \in 1..(i - 1) - 1 + 1 : p[k] = s[1 + k - 1]
    BY <2>1, SubIs
  <2> QED
    BY <1>1, <2>2
<1>3. q \in Seq(Nodes) /\ Len(q) = L - i + 1 /\ \A k \in 1..L - i + 1 : q[k] = s[i + k - 1]
  <2>1. L \in i - 1..L
    BY <1>1
  <2> QED
    BY <2>1, SubIs
<1> HIDE DEF p, q, o, w
<1>4. /\ o \in Seq(Nodes) /\ Len(o) = Len(p) + T
      /\ \A k \in 1..Len(p) + T : o[k] = IF k <= Len(p) THEN p[k] ELSE t[k - Len(p)]
  BY <1>2, ConcatProperties DEF o
<1>5. /\ w \in Seq(Nodes) /\ Len(w) = Len(o) + Len(q)
      /\ \A k \in 1..Len(o) + Len(q) : w[k] = IF k <= Len(o) THEN o[k] ELSE q[k - Len(o)]
  <2>1. o \in Seq(Nodes) /\ q \in Seq(Nodes)
    BY <1>3, <1>4
  <2> QED
    BY <2>1, ConcatProperties DEF w
<1>6. Len(o) = i - 1 + T /\ Len(o) + Len(q) = L + T
  BY <1>1, <1>2, <1>3, <1>4
<1>7. ASSUME NEW k \in 1..L + T
      PROVE  w[k] = IF k < i THEN s[k] ELSE IF k < i + T THEN t[k - i + 1] ELSE s[k - T]
  <2>0. k \in Nat /\ 1 <= k /\ k <= L + T
    BY <1>1
  <2>1. CASE k < i
    <3>1. k \in 1..Len(o) + Len(q) /\ k <= Len(o) /\ k \in 1..Len(p) + T /\ k <= Len(p) /\ k \in 1..i - 1
      BY <1>1, <1>2, <1>6, <2>0, <2>1
    <3> QED
      BY <1>2, <1>4, <1>5, <2>1, <3>1
  <2>2. CASE i <= k /\ k < i + T
    <3>1. /\ k \in 1..Len(o) + Len(q) /\ k <= Len(o) /\ k \in 1..Len(p) + T /\ ~(k <= Len(p))
          /\ k - Len(p) = k - i + 1 /\ ~(k < i)
      BY <1>1, <1>2, <1>6, <2>0, <2>2
    <3>2. w[k] = o[k] /\ o[k] = t[k - i + 1]
      BY <1>4, <1>5, <3>1
    <3> QED
      BY <2>2, <3>1, <3>2
  <2>3. CASE i + T <= k
    <3>1. /\ k \in 1..Len(o) + Len(q) /\ ~(k <= Len(o)) /\ k - Len(o) \in 1..L - i + 1
          /\ i + (k - Len(o)) - 1 = k - T /\ ~(k < i) /\ ~(k < i + T)
      BY <1>1, <1>6, <2>0, <2>3
    <3>2. w[k] = q[k - Len(o)] /\ q[k - Len(o)] = s[i + (k - Len(o)) - 1]
      BY <1>3, <1>5, <3>1
    <3> QED
      BY <3>1, <3>2
  <2> QED
    BY <1>1, <2>0, <2>1, <2>2, <2>3
<1> QED
  BY <1>5, <1>6, <1>7 DEF With, Put, o, p, q, w

LEMMA OutIs ==
  ASSUME NEW s \in Seq(Nodes), NEW i \in 1..Len(s), NEW j \in i..Len(s)
  PROVE  /\ SubSeq(s, i, j) \in Seq(Nodes) /\ Len(SubSeq(s, i, j)) = j - i + 1
         /\ \A k \in 1..j - i + 1 : SubSeq(s, i, j)[k] = s[i + k - 1]
         /\ Out(s, i, j) \in Seq(Nodes) /\ Len(Out(s, i, j)) = Len(s) - (j - i + 1)
         /\ i \in 1..Len(Out(s, i, j)) + 1
         /\ With(Out(s, i, j), i, SubSeq(s, i, j), s)
<1> DEFINE L == Len(s)
           p == SubSeq(s, 1, i - 1)
           q == SubSeq(s, j + 1, L)
           t == SubSeq(s, i, j)
           o == p \o q
<1>1. L \in Nat /\ i \in Nat /\ j \in Nat /\ 1 <= i /\ i <= j /\ j <= L
  BY LenProperties
<1>2. p \in Seq(Nodes) /\ Len(p) = i - 1 /\ \A k \in 1..i - 1 : p[k] = s[k]
  <2>1. 1 \in 1..L + 1 /\ i - 1 \in 1 - 1..L
    BY <1>1
  <2>2. p \in Seq(Nodes) /\ Len(p) = (i - 1) - 1 + 1 /\ \A k \in 1..(i - 1) - 1 + 1 : p[k] = s[1 + k - 1]
    BY <2>1, SubIs
  <2> QED
    BY <1>1, <2>2
<1>3. q \in Seq(Nodes) /\ Len(q) = L - j /\ \A k \in 1..L - j : q[k] = s[j + k]
  <2>1. j + 1 \in 1..L + 1 /\ L \in (j + 1) - 1..L
    BY <1>1
  <2>2. q \in Seq(Nodes) /\ Len(q) = L - (j + 1) + 1 /\ \A k \in 1..L - (j + 1) + 1 : q[k] = s[(j + 1) + k - 1]
    BY <2>1, SubIs
  <2> QED
    BY <1>1, <2>2
<1>4. t \in Seq(Nodes) /\ Len(t) = j - i + 1 /\ \A k \in 1..j - i + 1 : t[k] = s[i + k - 1]
  <2>1. i \in 1..L + 1 /\ j \in i - 1..L
    BY <1>1
  <2> QED
    BY <2>1, SubIs
<1> HIDE DEF p, q, o, t
<1>5. /\ o \in Seq(Nodes) /\ Len(o) = Len(p) + Len(q)
      /\ \A k \in 1..Len(p) + Len(q) : o[k] = IF k <= Len(p) THEN p[k] ELSE q[k - Len(p)]
  BY <1>2, <1>3, ConcatProperties DEF o
<1>6. Len(o) = L - (j - i + 1) /\ Len(o) + Len(t) = L /\ i \in 1..Len(o) + 1
  BY <1>1, <1>2, <1>3, <1>4, <1>5
<1>7. ASSUME NEW k \in 1..L
      PROVE  s[k] = IF k < i THEN o[k] ELSE IF k < i + Len(t) THEN t[k - i + 1] ELSE o[k - Len(t)]
  <2>0. k \in Nat /\ 1 <= k /\ k <= L
    BY <1>1
  <2>1. CASE k < i
    <3>1. k \in 1..Len(p) + Len(q) /\ k <= Len(p) /\ k \in 1..i - 1
      BY <1>1, <1>2, <1>3, <2>0, <2>1
    <3> QED
      BY <1>2, <1>5, <2>1, <3>1
  <2>2. CASE i <= k /\ k < i + Len(t)
    <3>1. k - i + 1 \in 1..j - i + 1 /\ i + (k - i + 1) - 1 = k /\ ~(k < i)
      BY <1>1, <1>4, <2>0, <2>2
    <3>2. t[k - i + 1] = s[i + (k - i + 1) - 1]
      BY <1>4, <3>1
    <3> QED
      BY <2>2, <3>1, <3>2
  <2>3. CASE i + Len(t) <= k
    <3>1. /\ k - Len(t) \in 1..Len(p) + Len(q) /\ ~(k - Len(t) <= Len(p)) /\ (k - Len(t)) - Len(p) \in 1..L - j
          /\ j + ((k - Len(t)) - Len(p)) = k /\ ~(k < i) /\ ~(k < i + Len(t))
      BY <1>1, <1>2, <1>3, <1>4, <2>0, <2>3
    <3>2. /\ o[k - Len(t)] = q[(k - Len(t)) - Len(p)]
          /\ q[(k - Len(t)) - Len(p)] = s[j + ((k - Len(t)) - Len(p))]
      BY <1>3, <1>5, <3>1
    <3> QED
      BY <3>1, <3>2
  <2> QED
    BY <1>1, <1>4, <2>0, <2>1, <2>2, <2>3
<1>8. With(o, i, t, s)
  BY <1>6, <1>7 DEF With
<1> QED
  BY <1>4, <1>5, <1>6, <1>8 DEF Out, o, p, q, t

\* Nothing before the first element and nothing after the last.
LEMMA PutAtEnds ==
  ASSUME NEW s \in Seq(Nodes), NEW t \in Seq(Nodes)
  PROVE  Put(s, 1, t) = t \o s /\ Put(s, Len(s) + 1, t) = s \o t
<1>1. Len(s) \in Nat /\ 1 - 1 = 0 /\ (Len(s) + 1) - 1 = Len(s)
  BY LenProperties
<1>2. SubSeq(s, 1, 0) = <<>> /\ SubSeq(s, Len(s) + 1, Len(s)) = <<>> /\ SubSeq(s, 1, Len(s)) = s
  BY <1>1, SubSeqEmpty, SubSeqFull
<1>3. <<>> \o t = t /\ s \o t \in Seq(Nodes) /\ (s \o t) \o <<>> = s \o t
  <2>1. s \o t \in Seq(Nodes)
    BY ConcatProperties
  <2> QED
    BY <2>1, ConcatEmptySeq
<1> QED
  BY <1>1, <1>2, <1>3 DEF Put

\* What is left when the first i elements are out.
LEMMA OutFirst ==
  ASSUME NEW s \in Seq(Nodes), NEW i \in 1..Len(s)
  PROVE  Out(s, 1, i) = SubSeq(s, i + 1, Len(s)) /\ SubSeq(s, i + 1, Len(s)) \in Seq(Nodes)
<1>1. Len(s) \in Nat /\ 1 - 1 = 0 /\ i \in Nat
  BY LenProperties
<1>2. SubSeq(s, 1, 1 - 1) = <<>>
  BY <1>1, SubSeqEmpty
<1>3. i + 1 \in 1..Len(s) + 1 /\ Len(s) \in (i + 1) - 1..Len(s)
  BY <1>1
<1>4. SubSeq(s, i + 1, Len(s)) \in Seq(Nodes)
  BY <1>3, SubIs
<1> QED
  BY <1>2, <1>4, ConcatEmptySeq DEF Out

\* A node is found on its list only, and in its place.
LEMMA Found ==
  ASSUME NEW m, NEW lv, NEW on, NEW ls, Holds(m, lv, on, ls), NEW h \in Heads, NEW i \in 1..Len(ls[h])
  PROVE  /\ D!Index(ls[h], ls[h][i]) = i
         /\ \A g \in Heads : D!Contains(ls[g], ls[h][i]) <=> g = h
         /\ ls[h][i] \notin Heads
<1>1. \A j \in 1..Len(ls[h]) : ls[h][j] = ls[h][i] => j = i
  BY DEF Holds
<1>2. D!Index(ls[h], ls[h][i]) = i
  BY <1>1 DEF D!Index
<1>3. \A g \in Heads : \A j \in 1..Len(ls[g]) : ls[g][j] = ls[h][i] => g = h
  BY DEF Holds
<1>4. ls[h][i] \notin Heads
  BY Elements
<1> QED
  BY <1>2, <1>3, <1>4 DEF D!Contains

\* What is on no list is found on none.
LEMMA NotFound ==
  ASSUME NEW m, NEW lv, NEW on, NEW ls, Holds(m, lv, on, ls), NEW x, x \notin on
  PROVE  \A g \in Heads : ~D!Contains(ls[g], x)
  BY Elements DEF D!Contains

\* Every link in use has a place, in both ways of counting the head.
LEMMA PlaceOf ==
  ASSUME NEW m, NEW lv, NEW on, NEW ls, Holds(m, lv, on, ls), lv \subseteq Heads, NEW at \in lv \cup on
  PROVE  /\ \E h \in lv : \E i \in 0..Len(ls[h]) : At(ls, h, i) = at
         /\ \E h \in lv : \E i \in 1..Len(ls[h]) + 1 : At(ls, h, i) = at
<1>1. CASE at \in lv
  <2>1. /\ Len(ls[at]) \in Nat /\ At(ls, at, 0) = at /\ At(ls, at, Len(ls[at]) + 1) = at
    BY <1>1, Ats, Elements
  <2>2. 0 \in 0..Len(ls[at]) /\ Len(ls[at]) + 1 \in 1..Len(ls[at]) + 1
    BY <2>1
  <2> QED
    BY <1>1, <2>1, <2>2
<1>2. CASE at \in on
  <2>1. PICK h \in Heads : \E i \in 1..Len(ls[h]) : ls[h][i] = at
    BY <1>2 DEF Holds
  <2>2. PICK i \in 1..Len(ls[h]) : ls[h][i] = at
    BY <2>1
  <2>3. Len(ls[h]) \in Nat /\ At(ls, h, i) = at
    BY <2>2, Ats, Elements
  <2>4. h \in lv
    <3>1. h \notin lv => Len(ls[h]) = 0
      BY DEF Holds
    <3> QED
      BY <2>2, <3>1
  <2>5. i \in 0..Len(ls[h]) /\ i \in 1..Len(ls[h]) + 1
    BY <2>3
  <2> QED
    BY <2>3, <2>4, <2>5
<1> QED
  BY <1>1, <1>2

LEMMA AfterIs ==
  ASSUME NEW m, NEW lv, NEW on, NEW ls, Holds(m, lv, on, ls), NEW h \in Heads,
         NEW i \in 0..Len(ls[h]), NEW t \in Seq(Nodes)
  PROVE  D!After(ls, At(ls, h, i), t) = [ls EXCEPT ![h] = Put(ls[h], i + 1, t)]
<1>1. ls \in [Heads -> Seq(Nodes)] /\ ls[h] \in Seq(Nodes) /\ Len(ls[h]) \in Nat
  BY Elements DEF Holds
<1>2. CASE i = 0
  <2>1. At(ls, h, i) = h /\ Put(ls[h], i + 1, t) = t \o ls[h]
    BY <1>1, <1>2, Ats, PutAtEnds
  <2>2. \A g \in Heads : ~D!Contains(ls[g], h)
    BY Elements DEF D!Contains
  <2>3. D!After(ls, h, t) = [g \in Heads |-> IF g = h THEN t \o ls[h] ELSE ls[g]]
    BY <2>2 DEF D!After
  <2> QED
    BY <1>1, <2>1, <2>3
<1>3. CASE i # 0
  <2>1. i \in 1..Len(ls[h]) /\ (i + 1) - 1 = i
    BY <1>1, <1>3
  <2> DEFINE x == ls[h][i]
  <2>2. At(ls, h, i) = x
    BY <2>1 DEF At
  <2>3. x \notin Heads /\ D!Index(ls[h], x) = i /\ \A g \in Heads : D!Contains(ls[g], x) <=> g = h
    BY <2>1, Found
  <2> HIDE DEF x
  <2>4. D!After(ls, x, t)
          = [g \in Heads |-> IF g = h THEN SubSeq(ls[h], 1, i) \o t \o SubSeq(ls[h], i + 1, Len(ls[h])) ELSE ls[g]]
    BY <2>3 DEF D!After
  <2>5. Put(ls[h], i + 1, t) = SubSeq(ls[h], 1, i) \o t \o SubSeq(ls[h], i + 1, Len(ls[h]))
    BY <2>1 DEF Put
  <2> QED
    BY <1>1, <2>2, <2>4, <2>5
<1> QED
  BY <1>2, <1>3

LEMMA BeforeIs ==
  ASSUME NEW m, NEW lv, NEW on, NEW ls, Holds(m, lv, on, ls), NEW h \in Heads,
         NEW i \in 1..Len(ls[h]) + 1, NEW t \in Seq(Nodes)
  PROVE  D!Before(ls, At(ls, h, i), t) = [ls EXCEPT ![h] = Put(ls[h], i, t)]
<1>1. ls \in [Heads -> Seq(Nodes)] /\ ls[h] \in Seq(Nodes) /\ Len(ls[h]) \in Nat
  BY Elements DEF Holds
<1>2. CASE i = Len(ls[h]) + 1
  <2>1. At(ls, h, i) = h /\ Put(ls[h], i, t) = ls[h] \o t
    BY <1>1, <1>2, Ats, PutAtEnds
  <2>2. \A g \in Heads : ~D!Contains(ls[g], h)
    BY Elements DEF D!Contains
  <2>3. D!Before(ls, h, t) = [g \in Heads |-> IF g = h THEN ls[h] \o t ELSE ls[g]]
    BY <2>2 DEF D!Before
  <2> QED
    BY <1>1, <2>1, <2>3
<1>3. CASE i # Len(ls[h]) + 1
  <2>1. i \in 1..Len(ls[h])
    BY <1>1, <1>3
  <2> DEFINE x == ls[h][i]
  <2>2. At(ls, h, i) = x
    BY <2>1 DEF At
  <2>3. x \notin Heads /\ D!Index(ls[h], x) = i /\ \A g \in Heads : D!Contains(ls[g], x) <=> g = h
    BY <2>1, Found
  <2> HIDE DEF x
  <2>4. D!Before(ls, x, t)
          = [g \in Heads |-> IF g = h THEN SubSeq(ls[h], 1, i - 1) \o t \o SubSeq(ls[h], i, Len(ls[h])) ELSE ls[g]]
    BY <2>3 DEF D!Before
  <2> QED
    BY <1>1, <2>2, <2>4 DEF Put
<1> QED
  BY <1>2, <1>3

LEMMA RemovedIs ==
  ASSUME NEW m, NEW lv, NEW on, NEW ls, Holds(m, lv, on, ls), NEW h \in Heads, NEW i \in 1..Len(ls[h])
  PROVE  D!Removed(ls, ls[h][i]) = [ls EXCEPT ![h] = Out(ls[h], i, i)]
<1>1. ls \in [Heads -> Seq(Nodes)]
  BY DEF Holds
<1> DEFINE x == ls[h][i]
<1>2. D!Index(ls[h], x) = i /\ \A g \in Heads : D!Contains(ls[g], x) <=> g = h
  BY Found
<1> HIDE DEF x
<1>3. D!Removed(ls, x)
        = [g \in Heads |-> IF g = h THEN SubSeq(ls[h], 1, i - 1) \o SubSeq(ls[h], i + 1, Len(ls[h])) ELSE ls[g]]
  BY <1>2 DEF D!Removed, D!RemoveAt
<1> QED
  BY <1>1, <1>3 DEF x, Out

LEMMA RemovedNone ==
  ASSUME NEW m, NEW lv, NEW on, NEW ls, Holds(m, lv, on, ls), NEW x, x \notin on
  PROVE  D!Removed(ls, x) = ls
<1>1. ls \in [Heads -> Seq(Nodes)]
  BY DEF Holds
<1>2. \A g \in Heads : ~D!Contains(ls[g], x)
  BY NotFound
<1> QED
  BY <1>1, <1>2 DEF D!Removed

-----------------------------------------------------------------------------
(* Calls on a memory *)

Memory == [next : Pointers, prev : Pointers]

\* What the stores are.
LEMMA Joins ==
  ASSUME NEW m \in Memory, NEW p \in Links, NEW q \in Links
  PROVE  Join(m, p, q) \in Memory /\ Joined(m, Join(m, p, q), p, q)
  BY DEF Join, Joined, Memory, Pointers

LEMMA JoinsTwice ==
  ASSUME NEW m \in Memory, NEW p \in Links, NEW first \in Links, NEW end \in Links, NEW q \in Links, p # end
  PROVE  /\ Join(Join(m, p, first), end, q) \in Memory
         /\ JoinedTwice(m, Join(Join(m, p, first), end, q), p, first, end, q)
  BY DEF Join, JoinedTwice, Memory, Pointers

LEMMA AddsBetween ==
  ASSUME NEW m \in Memory, NEW new \in Links, NEW p \in Links, NEW q \in Links, new # q
  PROVE  /\ AddBetween(m, new, p, q) \in Memory
         /\ JoinedTwice(m, AddBetween(m, new, p, q), p, new, new, q)
  BY DEF AddBetween, JoinedTwice, Memory, Pointers

LEMMA Inits ==
  ASSUME NEW m \in Memory, NEW l \in Links
  PROVE  /\ INIT_LIST_HEAD(m, l) \in Memory
         /\ INIT_LIST_HEAD(m, l).next[l] = l /\ INIT_LIST_HEAD(m, l).prev[l] = l
         /\ \A k \in Links \ {l} : /\ INIT_LIST_HEAD(m, l).next[k] = m.next[k]
                                   /\ INIT_LIST_HEAD(m, l).prev[k] = m.prev[k]
  BY DEF INIT_LIST_HEAD, Memory, Pointers

Agree(a, b, S) == \A l \in S : b.next[l] = a.next[l] /\ b.prev[l] = a.prev[l]

\* What the pointers of no ring are does not matter.
LEMMA Untouched ==
  ASSUME NEW a, NEW lv, NEW on, NEW ls, Holds(a, lv, on, ls), lv \subseteq Heads, NEW b, Agree(a, b, lv \cup on)
  PROVE  Holds(b, lv, on, ls)
<1>1. ASSUME NEW h \in lv, NEW i \in 0..Len(ls[h])
      PROVE  b.next[At(ls, h, i)] = At(ls, h, i + 1) /\ b.prev[At(ls, h, i + 1)] = At(ls, h, i)
  <2>1. Len(ls[h]) \in Nat /\ i \in Nat /\ i + 1 \in Nat
    BY Elements
  <2>2. At(ls, h, i) \in lv \cup on /\ At(ls, h, i + 1) \in lv \cup on
    BY <2>1, Ats
  <2>3. a.next[At(ls, h, i)] = At(ls, h, i + 1) /\ a.prev[At(ls, h, i + 1)] = At(ls, h, i)
    BY DEF Holds
  <2> QED
    BY <2>2, <2>3 DEF Agree
<1> QED
  BY <1>1 DEF Holds

\* A head is initialised.
LEMMA Fresh ==
  ASSUME NEW a, NEW lv, NEW on, NEW ls, Holds(a, lv, on, ls), lv \subseteq Heads,
         NEW l \in Heads, ls[l] = <<>>, NEW b, b.next[l] = l, b.prev[l] = l, Agree(a, b, (lv \cup on) \ {l})
  PROVE  Holds(b, lv \cup {l}, on, ls)
<1>1. ASSUME NEW h \in lv \cup {l}, NEW i \in 0..Len(ls[h])
      PROVE  b.next[At(ls, h, i)] = At(ls, h, i + 1) /\ b.prev[At(ls, h, i + 1)] = At(ls, h, i)
  <2>1. CASE h = l
    <3>1. Len(ls[h]) = 0 /\ i = 0
      BY <2>1
    <3> QED
      BY <2>1, <3>1 DEF At
  <2>2. CASE h # l
    <3>0. h \in lv /\ h \in Heads
      BY <2>2
    <3>1. Len(ls[h]) \in Nat /\ i \in Nat /\ i + 1 \in Nat
      BY <3>0, Elements
    <3>2. At(ls, h, i) \in {h} \cup on /\ At(ls, h, i + 1) \in {h} \cup on
      BY <3>0, <3>1, Ats
    <3>3. l \notin on
      <4>1. \A n \in on : \E g \in Heads : \E i2 \in 1..Len(ls[g]) : ls[g][i2] = n
        BY DEF Holds
      <4>2. \A g \in Heads : \A i2 \in 1..Len(ls[g]) : ls[g][i2] # l
        BY Elements
      <4> QED
        BY <4>1, <4>2
    <3>4. a.next[At(ls, h, i)] = At(ls, h, i + 1) /\ a.prev[At(ls, h, i + 1)] = At(ls, h, i)
      BY <3>0 DEF Holds
    <3>5. At(ls, h, i) \in (lv \cup on) \ {l} /\ At(ls, h, i + 1) \in (lv \cup on) \ {l}
      BY <2>2, <3>0, <3>2, <3>3
    <3> QED
      BY <3>4, <3>5 DEF Agree
  <2> QED
    BY <2>1, <2>2
<1> QED
  BY <1>1 DEF Holds

\* A head whose list is empty is given up.
LEMMA Abandoned ==
  ASSUME NEW a, NEW lv, NEW on, NEW ls, Holds(a, lv, on, ls), NEW l, ls[l] = <<>>
  PROVE  Holds(a, lv \ {l}, on, ls)
  BY DEF Holds

\* The neighbours of an entry, and of a head.
LEMMA Neighbours ==
  ASSUME NEW m, NEW lv, NEW on, NEW ls, Holds(m, lv, on, ls), lv \subseteq Heads, NEW h \in lv
  PROVE  /\ \A i \in 0..Len(ls[h]) : m.next[At(ls, h, i)] = At(ls, h, i + 1)
         /\ \A i \in 1..Len(ls[h]) + 1 : m.prev[At(ls, h, i)] = At(ls, h, i - 1)
         /\ m.next[h] = At(ls, h, 1) /\ m.prev[h] = At(ls, h, Len(ls[h]))
         /\ m.next[h] = h <=> ls[h] = <<>>
         /\ m.prev[h] = h <=> ls[h] = <<>>
<1>0. ls[h] \in Seq(Nodes) /\ Len(ls[h]) \in Nat /\ \A i \in 1..Len(ls[h]) : ls[h][i] \notin Heads
  BY Elements
<1>1. \A i \in 0..Len(ls[h]) : m.next[At(ls, h, i)] = At(ls, h, i + 1) /\ m.prev[At(ls, h, i + 1)] = At(ls, h, i)
  BY DEF Holds
<1>2. \A i \in 1..Len(ls[h]) + 1 : m.prev[At(ls, h, i)] = At(ls, h, i - 1)
  <2> TAKE i \in 1..Len(ls[h]) + 1
  <2>1. i - 1 \in 0..Len(ls[h]) /\ (i - 1) + 1 = i
    BY <1>0
  <2> QED
    BY <1>1, <2>1
<1>3. At(ls, h, 0) = h /\ At(ls, h, Len(ls[h]) + 1) = h
  BY Ats
<1>4. m.next[h] = At(ls, h, 1) /\ m.prev[h] = At(ls, h, Len(ls[h]))
  <2>1. 0 \in 0..Len(ls[h]) /\ Len(ls[h]) \in 0..Len(ls[h]) /\ 0 + 1 = 1
    BY <1>0
  <2> QED
    BY <1>1, <1>3, <2>1
<1>5. CASE ls[h] = <<>>
  <2>1. Len(ls[h]) = 0
    BY <1>5
  <2> QED
    BY <1>1, <1>2, <1>4, <1>5, <2>1 DEF At
<1>6. CASE ls[h] # <<>>
  <2>1. 1 \in 1..Len(ls[h]) /\ Len(ls[h]) \in 1..Len(ls[h])
    BY <1>0, <1>6
  <2>2. m.next[h] = ls[h][1] /\ m.prev[h] = ls[h][Len(ls[h])]
    BY <1>4, <2>1 DEF At
  <2>3. m.next[h] # h /\ m.prev[h] # h
    BY <1>0, <2>1, <2>2
  <2> QED
    BY <1>1, <1>2, <1>4, <1>6, <2>3
<1> QED
  BY <1>5, <1>6

\* A chain is put behind a place, or before it.
LEMMA PutAfter ==
  ASSUME NEW a, NEW lv, NEW on, NEW ls, Holds(a, lv, on, ls), lv \subseteq Heads, NEW at \in lv \cup on,
         NEW t, Chain(a, t), Set(t) \cap on = {}, NEW b, JoinedTwice(a, b, at, t[1], t[Len(t)], a.next[at])
  PROVE  Holds(b, lv, on \cup Set(t), D!After(ls, at, t))
<1>1. PICK h \in lv : \E i \in 0..Len(ls[h]) : At(ls, h, i) = at
  BY PlaceOf
<1>2. PICK i \in 0..Len(ls[h]) : At(ls, h, i) = at
  BY <1>1
<1>3. /\ h \in Heads /\ ls[h] \in Seq(Nodes) /\ t \in Seq(Nodes)
      /\ i + 1 \in 1..Len(ls[h]) + 1 /\ (i + 1) - 1 = i
  BY Elements DEF Chain
<1>4. a.next[at] = At(ls, h, i + 1)
  <2>1. \A k \in 0..Len(ls[h]) : a.next[At(ls, h, k)] = At(ls, h, k + 1)
    BY Neighbours
  <2> QED
    BY <1>2, <2>1
<1>5. With(ls[h], i + 1, t, Put(ls[h], i + 1, t))
  BY <1>3, PutIs
<1> DEFINE k == i + 1
           u == Put(ls[h], k, t)
<1>6. k \in 1..Len(ls[h]) + 1 /\ JoinedTwice(a, b, At(ls, h, k - 1), t[1], t[Len(t)], At(ls, h, k))
  BY <1>2, <1>3, <1>4
<1>7. D!After(ls, at, t) = [ls EXCEPT ![h] = u]
  BY <1>2, <1>3, AfterIs
<1> HIDE DEF k
<1>8. With(ls[h], k, t, u)
  BY <1>5 DEF k
<1> HIDE DEF u
<1>9. Holds(b, lv, on \cup Set(t), [ls EXCEPT ![h] = u])
  <2>1. LinkIn(a, b, lv, on, ls, h, k, t, u)
    BY <1>6, <1>8 DEF LinkIn
  <2> QED
    BY <2>1, SectionIn
<1> QED
  BY <1>7, <1>9

LEMMA PutBefore ==
  ASSUME NEW a, NEW lv, NEW on, NEW ls, Holds(a, lv, on, ls), lv \subseteq Heads, NEW at \in lv \cup on,
         NEW t, Chain(a, t), Set(t) \cap on = {}, NEW b, JoinedTwice(a, b, a.prev[at], t[1], t[Len(t)], at)
  PROVE  Holds(b, lv, on \cup Set(t), D!Before(ls, at, t))
<1>1. PICK h \in lv : \E i \in 1..Len(ls[h]) + 1 : At(ls, h, i) = at
  BY PlaceOf
<1>2. PICK i \in 1..Len(ls[h]) + 1 : At(ls, h, i) = at
  BY <1>1
<1>3. h \in Heads /\ ls[h] \in Seq(Nodes) /\ t \in Seq(Nodes)
  BY Elements DEF Chain
<1>4. a.prev[at] = At(ls, h, i - 1)
  <2>1. \A k \in 1..Len(ls[h]) + 1 : a.prev[At(ls, h, k)] = At(ls, h, k - 1)
    BY Neighbours
  <2> QED
    BY <1>2, <2>1
<1> DEFINE u == Put(ls[h], i, t)
<1>5. With(ls[h], i, t, u)
  BY <1>3, PutIs
<1>6. JoinedTwice(a, b, At(ls, h, i - 1), t[1], t[Len(t)], At(ls, h, i))
  BY <1>2, <1>4
<1>7. D!Before(ls, at, t) = [ls EXCEPT ![h] = u]
  BY <1>2, <1>3, BeforeIs
<1> HIDE DEF u
<1>8. Holds(b, lv, on \cup Set(t), [ls EXCEPT ![h] = u])
  <2>1. LinkIn(a, b, lv, on, ls, h, i, t, u)
    BY <1>5, <1>6 DEF LinkIn
  <2> QED
    BY <2>1, SectionIn
<1> QED
  BY <1>7, <1>8

\* The places around the section t of the list of h, from the i-th to the j-th
\* entry, are joined in b.
Skipped(a, b, lv, on, ls, h, i, j, t) ==
  /\ Holds(a, lv, on, ls) /\ lv \subseteq Heads /\ h \in lv
  /\ i \in 1..Len(ls[h]) /\ j \in i..Len(ls[h]) /\ t = SubSeq(ls[h], i, j)
  /\ Joined(a, b, At(ls, h, i - 1), At(ls, h, j + 1))

\* A section is taken out.
LEMMA TakeOut ==
  ASSUME NEW a, NEW b, NEW lv, NEW on, NEW ls, NEW h, NEW i, NEW j, NEW t,
         Skipped(a, b, lv, on, ls, h, i, j, t)
  PROVE  /\ Holds(b, lv, on \ Set(t), [ls EXCEPT ![h] = Out(ls[h], i, j)])
         /\ Chain(b, t) /\ Set(t) \subseteq on
<1>0. /\ Holds(a, lv, on, ls) /\ lv \subseteq Heads /\ h \in lv
      /\ i \in 1..Len(ls[h]) /\ j \in i..Len(ls[h]) /\ t = SubSeq(ls[h], i, j)
      /\ Joined(a, b, At(ls, h, i - 1), At(ls, h, j + 1))
  BY DEF Skipped
<1>1. h \in Heads /\ ls[h] \in Seq(Nodes) /\ Len(ls[h]) \in Nat
  BY <1>0, Elements
<1> DEFINE u == Out(ls[h], i, j)
<1>2. /\ t \in Seq(Nodes) /\ Len(t) = j - i + 1 /\ u \in Seq(Nodes) /\ i \in 1..Len(u) + 1 /\ With(u, i, t, ls[h])
  BY <1>0, <1>1, OutIs
<1>3. Len(t) >= 1 /\ i + Len(t) = j + 1
  BY <1>0, <1>1, <1>2
<1> HIDE DEF u
<1>4. Joined(a, b, At(ls, h, i - 1), At(ls, h, i + Len(t)))
  BY <1>0, <1>3
<1>5. Holds(b, lv, on \ Set(t), [ls EXCEPT ![h] = u]) /\ Chain(b, t) /\ Set(t) \subseteq on
  <2>1. u \in Seq(Nodes) /\ i \in 1..Len(u) + 1 /\ t \in Seq(Nodes) /\ Len(t) >= 1 /\ With(u, i, t, ls[h])
    BY <1>2, <1>3
  <2>2. CutOut(a, b, lv, on, ls, h, i, t, u)
    BY <1>0, <1>4, <2>1 DEF CutOut
  <2> QED
    BY <2>2, SectionOut
<1> QED
  BY <1>5 DEF u

\* One node.
LEMMA Single ==
  ASSUME NEW m, NEW n \in Nodes
  PROVE  Chain(m, <<n>>) /\ Set(<<n>>) = {n} /\ <<n>>[1] = n /\ Len(<<n>>) = 1 /\ <<n>> \in Seq(Nodes)
<1>1. <<n>>[1] = n /\ Len(<<n>>) = 1 /\ <<n>> \in Seq(Nodes) /\ 1..1 = {1} /\ 1..1 - 1 = {}
  OBVIOUS
<1> QED
  BY <1>1 DEF Chain, Set

\* The neighbours of a node on a list.
LEMMA Reached ==
  ASSUME NEW m, NEW lv, NEW on, NEW ls, Holds(m, lv, on, ls), lv \subseteq Heads, NEW n \in on
  PROVE  \E h \in lv, i \in Nat :
           /\ i \in 1..Len(ls[h]) /\ n = ls[h][i] /\ n = At(ls, h, i)
           /\ m.prev[n] = At(ls, h, i - 1) /\ m.next[n] = At(ls, h, i + 1)
           /\ m.prev[n] \in Links \ {n} /\ m.next[n] \in Links \ {n}
           /\ m.prev[n] \in (lv \cup on) \ {n} /\ m.next[n] \in (lv \cup on) \ {n}
<1>1. PICK h \in Heads : \E i \in 1..Len(ls[h]) : ls[h][i] = n
  BY DEF Holds
<1>2. PICK i \in 1..Len(ls[h]) : ls[h][i] = n
  BY <1>1
<1>3. Len(ls[h]) \in Nat /\ At(ls, h, i) = n
  BY <1>2, Ats, Elements
<1>4. h \in lv
  <2>1. h \notin lv => Len(ls[h]) = 0
    BY DEF Holds
  <2> QED
    BY <1>2, <2>1
<1>5. /\ i \in Nat /\ i \in 0..Len(ls[h]) /\ i \in 1..Len(ls[h]) + 1 /\ i - 1 \in 0..Len(ls[h]) /\ i - 1 # i
      /\ i + 1 \in 1..Len(ls[h]) + 1 /\ i + 1 # i /\ i - 1 \in Nat /\ i + 1 \in Nat
  BY <1>3
<1>6. m.prev[n] = At(ls, h, i - 1) /\ m.next[n] = At(ls, h, i + 1)
  <2>1. /\ \A k \in 0..Len(ls[h]) : m.next[At(ls, h, k)] = At(ls, h, k + 1)
        /\ \A k \in 1..Len(ls[h]) + 1 : m.prev[At(ls, h, k)] = At(ls, h, k - 1)
    BY <1>4, Neighbours
  <2> QED
    BY <1>3, <1>5, <2>1
<1>7. m.prev[n] # n /\ m.next[n] # n
  <2>1. /\ \A x, y \in 0..Len(ls[h]) : At(ls, h, x) = At(ls, h, y) => x = y
        /\ \A x, y \in 1..Len(ls[h]) + 1 : At(ls, h, x) = At(ls, h, y) => x = y
    BY AtsDiffer
  <2> QED
    BY <1>3, <1>5, <1>6, <2>1
<1>8. m.prev[n] \in Links /\ m.next[n] \in Links /\ m.prev[n] \in {h} \cup on /\ m.next[n] \in {h} \cup on
  BY <1>5, <1>6, Ats
<1> QED
  BY <1>2, <1>3, <1>4, <1>5, <1>6, <1>7, <1>8

-----------------------------------------------------------------------------
(* Calls on lists *)

\* The memory m holds the lists ls.
Good(m, lv, on, ls) == m \in Memory /\ lv \subseteq Heads /\ Holds(m, lv, on, ls)

LEMMA Used ==
  ASSUME NEW m, NEW lv, NEW on, NEW ls, Good(m, lv, on, ls)
  PROVE  /\ m \in Memory /\ DOMAIN m.next = Links /\ DOMAIN m.prev = Links
         /\ lv \subseteq Heads /\ on \subseteq Nodes /\ lv \cup on \subseteq Links
         /\ \A l \in lv \cup on : m.next[l] \in lv \cup on /\ m.prev[l] \in lv \cup on
<1>1. m \in Memory /\ DOMAIN m.next = Links /\ DOMAIN m.prev = Links /\ lv \subseteq Heads
  BY DEF Good, Memory, Pointers
<1>2. Holds(m, lv, on, ls)
  BY DEF Good
<1>3. on \subseteq Nodes
  <2>1. \A n \in on : \E h \in Heads : \E i \in 1..Len(ls[h]) : ls[h][i] = n
    BY <1>2 DEF Holds
  <2>2. \A h \in Heads : \A i \in 1..Len(ls[h]) : ls[h][i] \in Nodes
    BY <1>2, Elements
  <2> QED
    BY <2>1, <2>2
<1>4. ASSUME NEW l \in lv \cup on PROVE m.next[l] \in lv \cup on /\ m.prev[l] \in lv \cup on
  <2>1. PICK h \in lv : \E i \in 0..Len(ls[h]) : At(ls, h, i) = l
    BY <1>1, <1>2, PlaceOf
  <2>2. PICK i \in 0..Len(ls[h]) : At(ls, h, i) = l
    BY <2>1
  <2>3. PICK g \in lv : \E j \in 1..Len(ls[g]) + 1 : At(ls, g, j) = l
    BY <1>1, <1>2, PlaceOf
  <2>4. PICK j \in 1..Len(ls[g]) + 1 : At(ls, g, j) = l
    BY <2>3
  <2>5. Len(ls[h]) \in Nat /\ Len(ls[g]) \in Nat /\ h \in Heads /\ g \in Heads
    BY <1>1, <1>2, Elements
  <2>6. i + 1 \in Nat /\ j - 1 \in Nat
    BY <2>5
  <2>7. m.next[l] = At(ls, h, i + 1)
    <3>1. \A k \in 0..Len(ls[h]) : m.next[At(ls, h, k)] = At(ls, h, k + 1)
      BY <1>1, <1>2, Neighbours
    <3> QED
      BY <2>2, <3>1
  <2>8. m.prev[l] = At(ls, g, j - 1)
    <3>1. \A k \in 1..Len(ls[g]) + 1 : m.prev[At(ls, g, k)] = At(ls, g, k - 1)
      BY <1>1, <1>2, Neighbours
    <3> QED
      BY <2>4, <3>1
  <2>9. At(ls, h, i + 1) \in {h} \cup on /\ At(ls, g, j - 1) \in {g} \cup on
    BY <1>2, <2>5, <2>6, Ats
  <2> QED
    BY <2>7, <2>8, <2>9
<1> QED
  BY <1>1, <1>3, <1>4 DEF Links

\* A new entry behind a place, and before it.
LEMMA Adds ==
  ASSUME NEW m, NEW lv, NEW on, NEW ls, Good(m, lv, on, ls), NEW n \in Nodes \ on, NEW at \in lv \cup on
  PROVE  /\ Good(list_add(m, n, at), lv, on \cup {n}, D!After(ls, at, <<n>>))
         /\ Good(list_add_tail(m, n, at), lv, on \cup {n}, D!Before(ls, at, <<n>>))
<1> DEFINE t == <<n>>
<1>1. Chain(m, t) /\ Set(t) = {n} /\ t[1] = n /\ t[Len(t)] = n
  BY Single
<1>2. /\ m \in Memory /\ lv \subseteq Heads /\ Holds(m, lv, on, ls) /\ n \in Links /\ at \in Links
      /\ m.next[at] \in lv \cup on /\ m.prev[at] \in lv \cup on
      /\ m.next[at] \in Links /\ m.prev[at] \in Links
  BY Used DEF Good, Links
<1>3. n \notin lv \cup on
  BY <1>2, ListHeadAssumption
<1> HIDE DEF t
<1>4. Set(t) \cap on = {}
  BY <1>1
<1>5. Good(list_add(m, n, at), lv, on \cup {n}, D!After(ls, at, t))
  <2> DEFINE b == AddBetween(m, n, at, m.next[at])
  <2>1. b \in Memory /\ JoinedTwice(m, b, at, n, n, m.next[at])
    BY <1>2, <1>3, AddsBetween
  <2> HIDE DEF b
  <2>2. JoinedTwice(m, b, at, t[1], t[Len(t)], m.next[at])
    BY <1>1, <2>1
  <2>3. Holds(b, lv, on \cup Set(t), D!After(ls, at, t))
    BY <1>1, <1>2, <1>4, <2>2, PutAfter
  <2> QED
    BY <1>1, <1>2, <2>1, <2>3 DEF Good, b, list_add
<1>6. Good(list_add_tail(m, n, at), lv, on \cup {n}, D!Before(ls, at, t))
  <2> DEFINE b == AddBetween(m, n, m.prev[at], at)
  <2>1. b \in Memory /\ JoinedTwice(m, b, m.prev[at], n, n, at)
    BY <1>2, <1>3, AddsBetween
  <2> HIDE DEF b
  <2>2. JoinedTwice(m, b, m.prev[at], t[1], t[Len(t)], at)
    BY <1>1, <2>1
  <2>3. Holds(b, lv, on \cup Set(t), D!Before(ls, at, t))
    BY <1>1, <1>2, <1>4, <2>2, PutBefore
  <2> QED
    BY <1>1, <1>2, <2>1, <2>3 DEF Good, b, list_add_tail
<1> QED
  BY <1>5, <1>6 DEF t

\* Two memories that agree on the links in use hold the same.
LEMMA Same ==
  ASSUME NEW a, NEW b, NEW lv, NEW on, NEW ls, Good(a, lv, on, ls), Agree(a, b, lv \cup on), b \in Memory
  PROVE  Good(b, lv, on, ls)
  BY Untouched DEF Good

\* The section of one node.
LEMMA OneOut ==
  ASSUME NEW s \in Seq(Nodes), NEW i \in 1..Len(s)
  PROVE  SubSeq(s, i, i) = <<s[i]>>
<1>1. Len(s) \in Nat /\ i \in i..Len(s) /\ s[i] \in Nodes /\ 1 \in 1..i - i + 1 /\ i - i + 1 = 1 /\ i + 1 - 1 = i
  BY LenProperties
<1>2. /\ SubSeq(s, i, i) \in Seq(Nodes) /\ Len(SubSeq(s, i, i)) = 1
      /\ \A k \in 1..1 : SubSeq(s, i, i)[k] = s[i + k - 1]
  BY <1>1, OutIs
<1>3. <<s[i]>> \in Seq(Nodes) /\ Len(<<s[i]>>) = 1 /\ \A k \in 1..1 : <<s[i]>>[k] = s[i + k - 1]
  BY <1>1
<1> QED
  BY <1>2, <1>3, SeqEqual

\* An entry is unlinked.
LEMMA Unlinks ==
  ASSUME NEW m, NEW lv, NEW on, NEW ls, Good(m, lv, on, ls), NEW n \in on
  PROVE  Good(Unlink(m, n), lv, on \ {n}, D!Removed(ls, n))
<1>1. m \in Memory /\ lv \subseteq Heads /\ Holds(m, lv, on, ls)
  BY DEF Good
<1>2. PICK h \in lv, i \in Nat :
        /\ i \in 1..Len(ls[h]) /\ n = ls[h][i]
        /\ m.prev[n] = At(ls, h, i - 1) /\ m.next[n] = At(ls, h, i + 1)
        /\ m.prev[n] \in Links /\ m.next[n] \in Links
  BY <1>1, Reached
<1> DEFINE b == Unlink(m, n)
<1>3. b \in Memory /\ Joined(m, b, At(ls, h, i - 1), At(ls, h, i + 1))
  BY <1>1, <1>2, Joins DEF Unlink
<1>4. h \in Heads /\ ls[h] \in Seq(Nodes) /\ Len(ls[h]) \in Nat
  BY <1>1, Elements
<1>5. i \in i..Len(ls[h]) /\ <<n>> = SubSeq(ls[h], i, i)
  BY <1>2, <1>4, OneOut
<1> HIDE DEF b
<1>6. Holds(b, lv, on \ Set(<<n>>), [ls EXCEPT ![h] = Out(ls[h], i, i)])
  <2>1. Skipped(m, b, lv, on, ls, h, i, i, <<n>>)
    BY <1>1, <1>2, <1>3, <1>5 DEF Skipped
  <2> QED
    BY <2>1, TakeOut
<1>7. D!Removed(ls, n) = [ls EXCEPT ![h] = Out(ls[h], i, i)]
  BY <1>1, <1>2, <1>4, RemovedIs
<1>8. Set(<<n>>) = {n}
  <2>1. n \in Nodes
    BY Used
  <2> QED
    BY <2>1, Single
<1> QED
  BY <1>1, <1>3, <1>6, <1>7, <1>8 DEF Good, b

\* Whatever becomes of the pointers of an entry that is deleted, which may have
\* been alone.
LEMMA Dels ==
  ASSUME NEW m, NEW lv, NEW on, NEW ls, Good(m, lv, on, ls), NEW n \in Nodes,
         n \in on \/ (m.next[n] = n /\ m.prev[n] = n),
         NEW b, b \in Memory, Agree(Unlink(m, n), b, Links \ {n})
  PROVE  Good(b, lv, on \ {n}, D!Removed(ls, n))
<1>1. n \notin lv /\ lv \cup on \subseteq Links
  BY Used, ListHeadAssumption
<1>2. CASE n \in on
  <2>1. Good(Unlink(m, n), lv, on \ {n}, D!Removed(ls, n))
    BY <1>2, Unlinks
  <2>2. Agree(Unlink(m, n), b, lv \cup (on \ {n}))
    BY <1>1 DEF Agree
  <2> QED
    BY <2>1, <2>2, Same
<1>3. CASE n \notin on
  <2>1. D!Removed(ls, n) = ls /\ on \ {n} = on
    BY <1>3, RemovedNone DEF Good
  <2>2. Joined(m, Unlink(m, n), n, n)
    BY <1>3, Joins DEF Unlink, Good, Links
  <2>3. Agree(m, b, lv \cup on)
    BY <1>1, <1>3, <2>2 DEF Agree, Joined
  <2> QED
    BY <2>1, <2>3, Same
<1> QED
  BY <1>2, <1>3

LEMMA DelStores ==
  ASSUME NEW m \in Memory, NEW n \in Nodes, m.prev[n] \in Links, m.next[n] \in Links,
         NEW b \in {list_del(m, n), list_del_init(m, n), list_del_clearprev(m, n)}
  PROVE  b \in Memory /\ Agree(Unlink(m, n), b, Links \ {n})
<1>1. Unlink(m, n) \in Memory /\ n \in Links
  BY Joins DEF Unlink, Links
<1> DEFINE u == Unlink(m, n)
<1> HIDE DEF u
<1>2. u \in Memory
  BY <1>1 DEF u
<1>3. CASE b = list_del(m, n)
  <2>1. b = [u EXCEPT !.next[n] = Poison, !.prev[n] = Poison]
    BY <1>3 DEF list_del, u
  <2> QED
    BY <1>1, <1>2, <2>1 DEF u, Agree, Memory, Pointers
<1>4. CASE b = list_del_init(m, n)
  <2>1. b = INIT_LIST_HEAD(u, n)
    BY <1>4 DEF list_del_init, u
  <2> QED
    BY <1>1, <1>2, <2>1, Inits DEF u, Agree
<1>5. CASE b = list_del_clearprev(m, n)
  <2>1. b = [u EXCEPT !.prev[n] = NULL]
    BY <1>5 DEF list_del_clearprev, u
  <2> QED
    BY <1>1, <1>2, <2>1 DEF u, Agree, Memory, Pointers
<1> QED
  BY <1>3, <1>4, <1>5

\* A node takes the place of another.
LEMMA NodeReplaced ==
  ASSUME NEW m, NEW lv, NEW on, NEW ls, Good(m, lv, on, ls), NEW old \in on, NEW new \in Nodes \ on
  PROVE  Good(list_replace(m, old, new), lv, (on \ {old}) \cup {new}, D!Replaced(ls, old, new))
<1>1. m \in Memory /\ lv \subseteq Heads /\ Holds(m, lv, on, ls) /\ lv \cup on \subseteq Links /\ on \subseteq Nodes
  BY Used DEF Good
<1>2. PICK h \in lv, i \in Nat :
        /\ i \in 1..Len(ls[h]) /\ old = ls[h][i]
        /\ m.prev[old] = At(ls, h, i - 1) /\ m.next[old] = At(ls, h, i + 1)
        /\ m.prev[old] \in (lv \cup on) \ {old} /\ m.next[old] \in (lv \cup on) \ {old}
  BY <1>1, Reached
<1>3. h \in Heads /\ ls[h] \in Seq(Nodes) /\ Len(ls[h]) \in Nat /\ ls \in [Heads -> Seq(Nodes)]
  BY <1>1, Elements DEF Holds
<1> DEFINE p == m.prev[old]
           q == m.next[old]
           a == Join(m, p, q)
           b == list_replace(m, old, new)
           t == <<old>>
           u == Out(ls[h], i, i)
           v == [k \in 1..Len(ls[h]) |-> IF ls[h][k] = old THEN new ELSE ls[h][k]]
           us == [ls EXCEPT ![h] = u]
<1>4. p \in Links /\ q \in Links /\ old \in Links /\ new \in Links /\ new # p /\ new # q /\ old # p /\ old # q /\ old # new
  BY <1>1, <1>2, ListHeadAssumption DEF Links
<1>5. a \in Memory /\ Joined(m, a, p, q)
  BY <1>1, <1>4, Joins
<1>6. b \in Memory /\ JoinedTwice(a, b, p, new, new, q)
  <2>1. b.next = [m.next EXCEPT ![new] = q, ![p] = new] /\ b.prev = [[m.prev EXCEPT ![q] = new] EXCEPT ![new] = p]
    BY <1>1, <1>4 DEF list_replace, Memory, Pointers
  <2>2. b \in Memory
    <3>1. DOMAIN b = {"next", "prev"} /\ b = [next |-> b.next, prev |-> b.prev]
      BY DEF list_replace
    <3> QED
      BY <1>1, <1>4, <2>1, <3>1 DEF Memory, Pointers
  <2>3. a.next = [m.next EXCEPT ![p] = q] /\ a.prev = [m.prev EXCEPT ![q] = p]
    BY DEF Join
  <2> QED
    BY <1>1, <1>4, <2>1, <2>2, <2>3 DEF JoinedTwice, Memory, Pointers
<1> HIDE DEF a, b, u, v
<1>7. /\ t = SubSeq(ls[h], i, i) /\ t \in Seq(Nodes) /\ Len(t) = 1 /\ t[1] = old /\ Set(t) = {old}
      /\ u \in Seq(Nodes) /\ Len(u) = Len(ls[h]) - 1 /\ i \in 1..Len(u) + 1 /\ With(u, i, t, ls[h])
  <2>1. i \in i..Len(ls[h]) /\ t = SubSeq(ls[h], i, i) /\ old \in Nodes
    <3>1. ls[h] \in Seq(Nodes) /\ i \in 1..Len(ls[h]) /\ Len(ls[h]) \in Nat
      BY <1>2, <1>3
    <3>2. SubSeq(ls[h], i, i) = <<ls[h][i]>>
      BY <3>1, OneOut
    <3> QED
      BY <1>1, <1>2, <3>1, <3>2
  <2>2. /\ SubSeq(ls[h], i, i) \in Seq(Nodes)
        /\ u \in Seq(Nodes) /\ Len(u) = Len(ls[h]) - (i - i + 1) /\ i \in 1..Len(u) + 1
        /\ With(u, i, SubSeq(ls[h], i, i), ls[h])
    BY <1>2, <1>3, <2>1, OutIs DEF u
  <2>3. Len(t) = 1 /\ t[1] = old /\ Set(t) = {old}
    BY <2>1, Single
  <2>4. i - i + 1 = 1
    BY <1>2
  <2> QED
    BY <2>1, <2>2, <2>3, <2>4
<1> HIDE DEF t
<1>8. CutOut(m, a, lv, on, ls, h, i, t, u)
  <2>1. Joined(m, a, At(ls, h, i - 1), At(ls, h, i + Len(t)))
    BY <1>2, <1>5, <1>7
  <2> QED
    BY <1>1, <1>2, <1>7, <2>1 DEF CutOut
<1>9. Holds(a, lv, on \ {old}, us) /\ Closed(us, ls, h, i, 1)
  <2>1. Holds(a, lv, on \ Set(t), [ls EXCEPT ![h] = u])
    BY <1>8, SectionOut
  <2>2. Closed([ls EXCEPT ![h] = u], ls, h, i, Len(t))
    BY <1>8, SectionOut
  <2> QED
    BY <1>7, <2>1, <2>2
<1>10. us[h] = u /\ \A g \in Heads : g # h => us[g] = ls[g]
  BY <1>3, <1>7
<1> HIDE DEF us
<1>11. At(us, h, i - 1) = p /\ At(us, h, i) = q
  <2>1. i - 1 \in 0..Len(u) + 1 /\ i \in 0..Len(u) + 1 /\ i - 1 < i /\ ~(i < i)
    <3>1. i \in Nat /\ 1 <= i /\ i <= Len(ls[h])
      BY <1>2, <1>3
    <3> QED
      BY <1>3, <1>7, <3>1
  <2> QED
    BY <1>2, <1>9, <1>10, <2>1 DEF Closed
<1>12. v \in Seq(Nodes) /\ Len(v) = Len(ls[h]) /\ \A k \in 1..Len(ls[h]) : v[k] = IF ls[h][k] = old THEN new ELSE ls[h][k]
  <2>1. \A k \in 1..Len(ls[h]) : (IF ls[h][k] = old THEN new ELSE ls[h][k]) \in Nodes
    BY <1>1, <1>3, Elements
  <2>2. v \in [1..Len(ls[h]) -> Nodes]
    BY <2>1 DEF v
  <2>3. v \in Seq(Nodes)
    BY <1>3, <2>2
  <2> QED
    BY <1>3, <2>2, <2>3 DEF v
<1>13. With(u, i, <<new>>, v)
  <2>1. <<new>>[1] = new /\ Len(<<new>>) = 1
    OBVIOUS
  <2>2. \A k \in 1..Len(ls[h]) : ls[h][k] = IF k < i THEN u[k] ELSE IF k < i + 1 THEN t[k - i + 1] ELSE u[k - 1]
    BY <1>3, <1>7 DEF With
  <2>3. \A k \in 1..Len(ls[h]) : ls[h][k] = old <=> k = i
    <3>1. \A k, l \in 1..Len(ls[h]) : ls[h][k] = ls[h][l] => k = l
      BY <1>1, <1>3 DEF Holds
    <3> QED
      BY <1>2, <3>1
  <2>4. ASSUME NEW k \in 1..Len(ls[h])
        PROVE  v[k] = IF k < i THEN u[k] ELSE IF k < i + 1 THEN <<new>>[k - i + 1] ELSE u[k - 1]
    <3>0. k \in Nat /\ i \in Nat
      BY <1>2
    <3>1. CASE k < i
      BY <1>12, <2>2, <2>3, <3>0, <3>1
    <3>2. CASE k = i
      <4>1. v[k] = new /\ ~(k < i) /\ k < i + 1 /\ k - i + 1 = 1
        BY <1>12, <2>3, <3>0, <3>2
      <4> QED
        BY <2>1, <4>1
    <3>3. CASE k > i
      <4>1. ~(k < i) /\ ~(k < i + 1) /\ k # i
        BY <3>0, <3>3
      <4> QED
        BY <1>12, <2>2, <2>3, <4>1
    <3> QED
      BY <3>0, <3>1, <3>2, <3>3
  <2>5. Len(u) + Len(<<new>>) = Len(ls[h])
    BY <1>3, <1>7, <2>1
  <2> QED
    BY <1>12, <2>1, <2>4, <2>5 DEF With
<1>14. Chain(a, <<new>>) /\ Set(<<new>>) = {new} /\ <<new>>[1] = new /\ Len(<<new>>) = 1
  BY Single
<1>15. LinkIn(a, b, lv, on \ {old}, us, h, i, <<new>>, v)
  <2>1. JoinedTwice(a, b, At(us, h, i - 1), <<new>>[1], <<new>>[Len(<<new>>)], At(us, h, i))
    BY <1>6, <1>11, <1>14
  <2>2. i \in 1..Len(us[h]) + 1 /\ With(us[h], i, <<new>>, v)
    BY <1>7, <1>10, <1>13
  <2>3. Set(<<new>>) \cap (on \ {old}) = {}
    BY <1>14
  <2> QED
    BY <1>1, <1>2, <1>9, <1>14, <2>1, <2>2, <2>3 DEF LinkIn
<1>16. Holds(b, lv, (on \ {old}) \cup {new}, [us EXCEPT ![h] = v])
  BY <1>14, <1>15, SectionIn
<1>17. D!Replaced(ls, old, new) = [us EXCEPT ![h] = v]
  <2> DEFINE ws == [g \in Heads |-> [k \in DOMAIN ls[g] |-> IF ls[g][k] = old THEN new ELSE ls[g][k]]]
  <2>1. D!Replaced(ls, old, new) = ws
    BY <1>1, ListHeadAssumption DEF D!Replaced, D!Renamed
  <2>2. ASSUME NEW g \in Heads, g # h PROVE ws[g] = ls[g]
    <3>1. \A k \in 1..Len(ls[g]) : ls[g][k] # old
      BY <1>1, <1>2, <1>3, <2>2 DEF Holds
    <3>2. ls[g] \in [1..Len(ls[g]) -> Nodes] /\ DOMAIN ls[g] = 1..Len(ls[g])
      BY <1>3, LenProperties
    <3> QED
      BY <3>1, <3>2
  <2>3. ws[h] = v
    <3>1. DOMAIN ls[h] = 1..Len(ls[h])
      BY <1>3, LenProperties
    <3> QED
      BY <1>3, <3>1 DEF v
  <2>4. DOMAIN us = Heads
    BY <1>3 DEF us
  <2> DEFINE xs == [us EXCEPT ![h] = v]
  <2>5. DOMAIN xs = Heads /\ xs[h] = v /\ \A g \in Heads : g # h => xs[g] = ls[g]
    BY <1>3, <1>10, <2>4
  <2> HIDE DEF xs
  <2>6. DOMAIN ws = Heads /\ \A g \in Heads : ws[g] = xs[g]
    BY <2>2, <2>3, <2>5
  <2>7. ws = [g \in Heads |-> ws[g]] /\ xs = [g \in Heads |-> xs[g]]
    BY <2>4 DEF xs
  <2> HIDE DEF ws
  <2> QED
    BY <2>1, <2>6, <2>7 DEF xs
<1> QED
  BY <1>1, <1>6, <1>16, <1>17 DEF Good, b

\* One leads back to where the other came from.
LEMMA LeadsBack ==
  ASSUME NEW m, NEW lv, NEW on, NEW ls, Good(m, lv, on, ls), NEW l \in lv \cup on
  PROVE  m.prev[m.next[l]] = l /\ m.next[m.prev[l]] = l
<1>1. lv \subseteq Heads /\ Holds(m, lv, on, ls)
  BY DEF Good
<1>2. PICK h \in lv : \E i \in 0..Len(ls[h]) : At(ls, h, i) = l
  BY <1>1, PlaceOf
<1>3. PICK i \in 0..Len(ls[h]) : At(ls, h, i) = l
  BY <1>2
<1>4. PICK g \in lv : \E j \in 1..Len(ls[g]) + 1 : At(ls, g, j) = l
  BY <1>1, PlaceOf
<1>5. PICK j \in 1..Len(ls[g]) + 1 : At(ls, g, j) = l
  BY <1>4
<1>6. Len(ls[h]) \in Nat /\ Len(ls[g]) \in Nat /\ h \in Heads /\ g \in Heads
  BY <1>1, Elements
<1>7. /\ i + 1 \in 1..Len(ls[h]) + 1 /\ (i + 1) - 1 = i
      /\ j - 1 \in 0..Len(ls[g]) /\ (j - 1) + 1 = j
  BY <1>6
<1>8. /\ \A k \in 0..Len(ls[h]) : m.next[At(ls, h, k)] = At(ls, h, k + 1)
      /\ \A k \in 1..Len(ls[h]) + 1 : m.prev[At(ls, h, k)] = At(ls, h, k - 1)
  BY <1>1, Neighbours
<1>9. /\ \A k \in 0..Len(ls[g]) : m.next[At(ls, g, k)] = At(ls, g, k + 1)
      /\ \A k \in 1..Len(ls[g]) + 1 : m.prev[At(ls, g, k)] = At(ls, g, k - 1)
  BY <1>1, Neighbours
<1>10. m.next[l] = At(ls, h, i + 1) /\ m.prev[At(ls, h, i + 1)] = At(ls, h, (i + 1) - 1)
  BY <1>3, <1>7, <1>8
<1>11. m.prev[l] = At(ls, g, j - 1) /\ m.next[At(ls, g, j - 1)] = At(ls, g, (j - 1) + 1)
  BY <1>5, <1>7, <1>9
<1> QED
  BY <1>3, <1>5, <1>7, <1>10, <1>11

\* A node that is on no list, or a head whose list is empty, is initialised.
LEMMA NodeInit ==
  ASSUME NEW m, NEW lv, NEW on, NEW ls, Good(m, lv, on, ls), NEW n \in Nodes \ on
  PROVE  Good(INIT_LIST_HEAD(m, n), lv, on, ls)
<1>1. n \in Links /\ n \notin lv \cup on /\ lv \cup on \subseteq Links /\ m \in Memory
  BY Used, ListHeadAssumption DEF Links
<1>2. INIT_LIST_HEAD(m, n) \in Memory /\ Agree(m, INIT_LIST_HEAD(m, n), lv \cup on)
  BY <1>1, Inits DEF Agree
<1> QED
  BY <1>2, Same

LEMMA HeadInit ==
  ASSUME NEW m, NEW lv, NEW on, NEW ls, Good(m, lv, on, ls), NEW l \in Heads, ls[l] = <<>>
  PROVE  Good(INIT_LIST_HEAD(m, l), lv \cup {l}, on, ls)
<1>1. l \in Links /\ lv \cup on \subseteq Links /\ m \in Memory /\ lv \subseteq Heads /\ Holds(m, lv, on, ls)
  BY Used DEF Good, Links
<1> DEFINE b == INIT_LIST_HEAD(m, l)
<1>2. b \in Memory /\ b.next[l] = l /\ b.prev[l] = l /\ Agree(m, b, (lv \cup on) \ {l})
  BY <1>1, Inits DEF Agree
<1> HIDE DEF b
<1>3. Holds(b, lv \cup {l}, on, ls)
  BY <1>1, <1>2, Fresh
<1> QED
  BY <1>1, <1>2, <1>3 DEF Good, b

\* A head is not looked at any more.
LEMMA HeadLeft ==
  ASSUME NEW a, NEW lv, NEW on, NEW ls, Good(a, lv, on, ls), NEW l \in Heads, ls[l] = <<>>,
         NEW b, b \in Memory, Agree(a, b, Links \ {l})
  PROVE  Good(b, lv \ {l}, on, ls)
<1>1. lv \cup on \subseteq Links /\ l \notin on
  BY Used, ListHeadAssumption
<1>2. Good(a, lv \ {l}, on, ls)
  BY Abandoned DEF Good
<1>3. Agree(a, b, (lv \ {l}) \cup on)
  BY <1>1 DEF Agree
<1> QED
  BY <1>2, <1>3, Same

\* A chain whose nodes were not written to is one still.
LEMMA ChainKept ==
  ASSUME NEW a, NEW t, Chain(a, t), NEW b, Agree(a, b, Set(t))
  PROVE  Chain(b, t)
<1>1. Len(t) \in Nat
  BY LenProperties DEF Chain
<1>2. \A k \in 1..Len(t) - 1 : k \in 1..Len(t) /\ k + 1 \in 1..Len(t)
  BY <1>1
<1>3. \A k \in 1..Len(t) - 1 : t[k] \in Set(t) /\ t[k + 1] \in Set(t)
  BY <1>2 DEF Set
<1> QED
  BY <1>3 DEF Chain, Agree

\* The first i entries of the list of h, and the place behind them.
Prefix(m, lv, on, ls, h, i, q, t) ==
  /\ Good(m, lv, on, ls) /\ h \in lv /\ i \in 1..Len(ls[h])
  /\ q = At(ls, h, i + 1) /\ t = SubSeq(ls[h], 1, i)

\* They leave the list.
PrefixLeft(m, lv, on, ls, h, i, q, t) ==
  /\ Good(Join(m, h, q), lv, on \ Set(t), [ls EXCEPT ![h] = SubSeq(ls[h], i + 1, Len(ls[h]))])
  /\ Chain(Join(m, h, q), t) /\ Set(t) \subseteq on
  /\ t \in Seq(Nodes) /\ t[1] = m.next[h] /\ t[Len(t)] = ls[h][i] /\ m.next[ls[h][i]] = q
  /\ q \in Links /\ q \in lv \cup on

LEMMA PrefixOut ==
  ASSUME NEW m, NEW lv, NEW on, NEW ls, NEW h, NEW i, NEW q, NEW t, Prefix(m, lv, on, ls, h, i, q, t)
  PROVE  PrefixLeft(m, lv, on, ls, h, i, q, t)
<1>0. /\ Good(m, lv, on, ls) /\ h \in lv /\ i \in 1..Len(ls[h])
      /\ q = At(ls, h, i + 1) /\ t = SubSeq(ls[h], 1, i)
  BY DEF Prefix
<1>1. m \in Memory /\ lv \subseteq Heads /\ Holds(m, lv, on, ls) /\ h \in Heads /\ h \in Links
  BY <1>0 DEF Good, Links
<1>2. ls[h] \in Seq(Nodes) /\ Len(ls[h]) \in Nat
  BY <1>1, Elements
<1>3. 1 \in 1..Len(ls[h]) /\ i \in 1..Len(ls[h]) /\ 1 - 1 = 0 /\ i \in Nat /\ i + 1 \in Nat /\ i >= 1
      /\ i \in 0..Len(ls[h])
  BY <1>0, <1>2
<1>4. At(ls, h, 0) = h /\ q \in Links /\ q \in {h} \cup on /\ At(ls, h, i) = ls[h][i] /\ At(ls, h, 1) = ls[h][1]
  <2>1. /\ At(ls, h, 0) = h /\ \A k \in 1..Len(ls[h]) : At(ls, h, k) = ls[h][k]
        /\ \A k \in Nat : At(ls, h, k) \in Links /\ At(ls, h, k) \in {h} \cup on
    BY <1>1, Ats
  <2> QED
    BY <1>0, <1>3, <2>1
<1> DEFINE a == Join(m, h, q)
<1>5. a \in Memory /\ Joined(m, a, At(ls, h, 1 - 1), At(ls, h, i + 1))
  BY <1>0, <1>1, <1>3, <1>4, Joins
<1> HIDE DEF a
<1>6. i \in 1..Len(ls[h]) /\ 1 \in 1..Len(ls[h])
  BY <1>3
<1>7. /\ Holds(a, lv, on \ Set(t), [ls EXCEPT ![h] = Out(ls[h], 1, i)])
      /\ Chain(a, t) /\ Set(t) \subseteq on
  <2>1. Skipped(m, a, lv, on, ls, h, 1, i, t)
    BY <1>0, <1>1, <1>5, <1>6 DEF Skipped
  <2> QED
    BY <2>1, TakeOut
<1>8. Out(ls[h], 1, i) = SubSeq(ls[h], i + 1, Len(ls[h]))
  BY <1>0, <1>2, OutFirst
<1>9. t \in Seq(Nodes) /\ Len(t) = i /\ t[1] = ls[h][1] /\ t[i] = ls[h][i]
  <2>1. i - 1 + 1 = i /\ 1 + 1 - 1 = 1 /\ 1 + i - 1 = i /\ 1 \in 1..i /\ i \in 1..i
    BY <1>3
  <2>2. t \in Seq(Nodes) /\ Len(t) = i - 1 + 1 /\ \A k \in 1..i - 1 + 1 : t[k] = ls[h][1 + k - 1]
    BY <1>0, <1>2, <1>6, OutIs
  <2> QED
    BY <2>1, <2>2
<1>10. m.next[h] = ls[h][1] /\ m.next[ls[h][i]] = q
  <2>1. m.next[h] = At(ls, h, 1) /\ \A k \in 0..Len(ls[h]) : m.next[At(ls, h, k)] = At(ls, h, k + 1)
    BY <1>0, <1>1, Neighbours
  <2> QED
    BY <1>0, <1>3, <1>4, <2>1
<1> QED
  BY <1>0, <1>1, <1>4, <1>5, <1>7, <1>8, <1>9, <1>10 DEF Good, a, PrefixLeft

\* A list loses all its entries.
LEMMA WholeOut ==
  ASSUME NEW m, NEW lv, NEW on, NEW ls, Good(m, lv, on, ls), NEW l \in lv, ls[l] # <<>>
  PROVE  /\ Good(Join(m, l, l), lv, on \ Set(ls[l]), [ls EXCEPT ![l] = <<>>])
         /\ Chain(Join(m, l, l), ls[l]) /\ Set(ls[l]) \subseteq on
         /\ ls[l][1] = m.next[l] /\ ls[l][Len(ls[l])] = m.prev[l]
         /\ m.next[l] \in Set(ls[l]) /\ m.prev[l] \in Set(ls[l])
<1>1. lv \subseteq Heads /\ Holds(m, lv, on, ls) /\ l \in Heads
  BY DEF Good
<1>2. ls[l] \in Seq(Nodes) /\ Len(ls[l]) \in Nat
  BY <1>1, Elements
<1> DEFINE i == Len(ls[l])
<1>3. i \in 1..Len(ls[l]) /\ i \in Nat /\ 1 \in 1..i
  BY <1>2
<1>4. l = At(ls, l, i + 1) /\ m.prev[l] = At(ls, l, i) /\ m.prev[l] = ls[l][i]
  <2>1. l = At(ls, l, i + 1) /\ m.prev[l] = At(ls, l, i)
    BY <1>1, Ats, Neighbours
  <2>2. At(ls, l, i) = ls[l][i]
    BY <1>1, <1>3, Ats
  <2> QED
    BY <2>1, <2>2
<1>5. ls[l] = SubSeq(ls[l], 1, i) /\ SubSeq(ls[l], i + 1, Len(ls[l])) = <<>>
  BY <1>2, SubSeqFull, SubSeqEmpty
<1> HIDE DEF i
<1>6. /\ Good(Join(m, l, l), lv, on \ Set(ls[l]), [ls EXCEPT ![l] = SubSeq(ls[l], i + 1, Len(ls[l]))])
      /\ Chain(Join(m, l, l), ls[l]) /\ Set(ls[l]) \subseteq on
      /\ ls[l][1] = m.next[l]
  <2>1. Prefix(m, lv, on, ls, l, i, l, ls[l])
    BY <1>3, <1>4, <1>5 DEF Prefix
  <2> QED
    <3>1. PrefixLeft(m, lv, on, ls, l, i, l, ls[l])
      BY <2>1, PrefixOut
    <3> QED
      BY <3>1 DEF PrefixLeft
<1>7. ls[l][1] \in Set(ls[l]) /\ ls[l][i] \in Set(ls[l])
  BY <1>3 DEF Set, i
<1> QED
  BY <1>4, <1>5, <1>6, <1>7 DEF i

\* A chain comes to a list.
LEMMA ChainIn ==
  ASSUME NEW a, NEW lv, NEW on, NEW ls, Good(a, lv, on, ls), NEW at \in lv \cup on,
         NEW t, Chain(a, t), Set(t) \cap on = {}
  PROVE  /\ Good(Join(Join(a, at, t[1]), t[Len(t)], a.next[at]), lv, on \cup Set(t), D!After(ls, at, t))
         /\ Good(Join(Join(a, a.prev[at], t[1]), t[Len(t)], at), lv, on \cup Set(t), D!Before(ls, at, t))
<1>1. /\ a \in Memory /\ lv \subseteq Heads /\ Holds(a, lv, on, ls) /\ lv \cup on \subseteq Links /\ at \in Links
      /\ a.next[at] \in lv \cup on /\ a.prev[at] \in lv \cup on
      /\ a.next[at] \in Links /\ a.prev[at] \in Links
  BY Used DEF Good
<1>2. /\ Len(t) \in 1..Len(t) /\ 1 \in 1..Len(t) /\ t[1] \in Set(t) /\ t[Len(t)] \in Set(t)
      /\ t[1] \in Nodes /\ t[Len(t)] \in Nodes
  <2>1. Len(t) \in Nat /\ Len(t) >= 1 /\ \A k \in 1..Len(t) : t[k] \in Nodes
    BY LenProperties DEF Chain
  <2>2. Len(t) \in 1..Len(t) /\ 1 \in 1..Len(t)
    BY <2>1
  <2> QED
    BY <2>1, <2>2 DEF Set
<1>3. t[1] \in Links /\ t[Len(t)] \in Links /\ at # t[Len(t)] /\ a.prev[at] # t[Len(t)]
  BY <1>1, <1>2, ListHeadAssumption DEF Links
<1> DEFINE b == Join(Join(a, at, t[1]), t[Len(t)], a.next[at])
           c == Join(Join(a, a.prev[at], t[1]), t[Len(t)], at)
<1>4. b \in Memory /\ JoinedTwice(a, b, at, t[1], t[Len(t)], a.next[at])
  BY <1>1, <1>3, JoinsTwice
<1>5. c \in Memory /\ JoinedTwice(a, c, a.prev[at], t[1], t[Len(t)], at)
  BY <1>1, <1>3, JoinsTwice
<1> HIDE DEF b, c
<1>6. Holds(b, lv, on \cup Set(t), D!After(ls, at, t))
  BY <1>1, <1>4, PutAfter
<1>7. Holds(c, lv, on \cup Set(t), D!Before(ls, at, t))
  BY <1>1, <1>5, PutBefore
<1> QED
  BY <1>1, <1>4, <1>5, <1>6, <1>7 DEF Good, b, c

\* Before the first entry of a list, and behind its last.
LEMMA AtHead ==
  ASSUME NEW m, NEW lv, NEW on, NEW ls, Holds(m, lv, on, ls), NEW h \in Heads, NEW t \in Seq(Nodes)
  PROVE  /\ D!After(ls, h, t) = [ls EXCEPT ![h] = t \o ls[h]]
         /\ D!Before(ls, h, t) = [ls EXCEPT ![h] = ls[h] \o t]
<1>1. ls[h] \in Seq(Nodes) /\ Len(ls[h]) \in Nat
  BY Elements
<1>2. /\ 0 \in 0..Len(ls[h]) /\ Len(ls[h]) + 1 \in 1..Len(ls[h]) + 1
      /\ At(ls, h, 0) = h /\ At(ls, h, Len(ls[h]) + 1) = h /\ 0 + 1 = 1
  BY <1>1, Ats
<1>3. D!After(ls, At(ls, h, 0), t) = [ls EXCEPT ![h] = Put(ls[h], 0 + 1, t)]
  BY <1>2, AfterIs
<1>4. D!Before(ls, At(ls, h, Len(ls[h]) + 1), t) = [ls EXCEPT ![h] = Put(ls[h], Len(ls[h]) + 1, t)]
  BY <1>2, BeforeIs
<1>5. Put(ls[h], 1, t) = t \o ls[h] /\ Put(ls[h], Len(ls[h]) + 1, t) = ls[h] \o t
  BY <1>1, PutAtEnds
<1> QED
  BY <1>2, <1>3, <1>4, <1>5

\* A node that is on no list, and alone, may be replaced as well.
LEMMA LonelyReplaced ==
  ASSUME NEW m, NEW lv, NEW on, NEW ls, Good(m, lv, on, ls), NEW old \in Nodes \ on,
         m.next[old] = old, m.prev[old] = old, NEW new \in Nodes \ on, old # new
  PROVE  Good(list_replace(m, old, new), lv, on, D!Replaced(ls, old, new))
<1>1. /\ m \in Memory /\ lv \subseteq Heads /\ on \subseteq Nodes /\ lv \cup on \subseteq Links
      /\ old \in Links /\ new \in Links /\ old \notin lv \cup on /\ new \notin lv \cup on
      /\ Holds(m, lv, on, ls) /\ old \notin Heads
  BY Used, ListHeadAssumption DEF Good, Links
<1> DEFINE b == list_replace(m, old, new)
<1>2. b \in Memory /\ Agree(m, b, lv \cup on)
  BY <1>1 DEF list_replace, Memory, Pointers, Agree
<1> HIDE DEF b
<1>3. Good(b, lv, on, ls)
  BY <1>2, Same
<1>4. D!Replaced(ls, old, new) = ls
  <2> DEFINE ws == [g \in Heads |-> [k \in DOMAIN ls[g] |-> IF ls[g][k] = old THEN new ELSE ls[g][k]]]
  <2>1. D!Replaced(ls, old, new) = ws
    BY <1>1 DEF D!Replaced, D!Renamed
  <2>2. ASSUME NEW g \in Heads PROVE ws[g] = ls[g]
    <3>1. ls[g] \in Seq(Nodes) /\ \A k \in 1..Len(ls[g]) : ls[g][k] # old
      BY <1>1, Elements
    <3>2. ls[g] \in [1..Len(ls[g]) -> Nodes] /\ DOMAIN ls[g] = 1..Len(ls[g])
      BY <3>1, LenProperties
    <3> QED
      BY <3>1, <3>2
  <2>3. ls = [g \in Heads |-> ls[g]]
    BY <1>1 DEF Holds
  <2>4. DOMAIN ws = Heads
    OBVIOUS
  <2> HIDE DEF ws
  <2>5. ws = [g \in Heads |-> ws[g]]
    BY DEF ws
  <2> QED
    BY <2>1, <2>2, <2>3, <2>5
<1> QED
  BY <1>3, <1>4 DEF b

\* A head takes the list of another.
LEMMA HeadReplaced ==
  ASSUME NEW m, NEW lv, NEW on, NEW ls, Good(m, lv, on, ls), NEW old \in lv, NEW new \in Heads,
         old # new, ls[new] = <<>>
  PROVE  /\ Good(list_replace_init(m, old, new), lv \cup {new}, on, D!Replaced(ls, old, new))
         /\ Good(list_replace(m, old, new), (lv \ {old}) \cup {new}, on, D!Replaced(ls, old, new))
<1>1. /\ m \in Memory /\ lv \subseteq Heads /\ on \subseteq Nodes /\ lv \cup on \subseteq Links
      /\ Holds(m, lv, on, ls) /\ old \in Heads /\ old \in Links /\ new \in Links
      /\ m.next[old] \in Links /\ m.prev[old] \in Links
  BY Used DEF Good, Links
<1>2. ls \in [Heads -> Seq(Nodes)] /\ ls[old] \in Seq(Nodes)
  BY <1>1 DEF Holds
<1> DEFINE b == list_replace(m, old, new)
           c == list_replace_init(m, old, new)
           vs == [ls EXCEPT ![new] = ls[old], ![old] = <<>>]
<1>3. D!Replaced(ls, old, new) = vs
  BY <1>1 DEF D!Replaced
<1>4. b \in Memory
  BY <1>1 DEF list_replace, Memory, Pointers
<1>5. c \in Memory /\ Agree(c, b, Links \ {old})
  <2>1. c = INIT_LIST_HEAD(b, old)
    BY DEF list_replace_init
  <2> HIDE DEF b, c
  <2> QED
    BY <1>1, <1>4, <2>1, Inits DEF Agree
<1>6. vs[old] = <<>>
  BY <1>1, <1>2
<1>7. Good(c, lv \cup {new}, on, vs)
  <2>1. CASE ls[old] = <<>>
    <3>1. m.next[old] = old /\ m.prev[old] = old
      BY <1>1, <2>1, Neighbours
    <3> DEFINE a1 == INIT_LIST_HEAD(m, new)
               a2 == INIT_LIST_HEAD(a1, old)
    <3>2. Good(a1, lv \cup {new}, on, ls)
      BY HeadInit
    <3> HIDE DEF a1
    <3>3. Good(a2, (lv \cup {new}) \cup {old}, on, ls)
      BY <1>1, <2>1, <3>2, HeadInit
    <3>4. Agree(a2, c, Links)
      BY <1>1, <3>1 DEF Agree, a1, list_replace_init, list_replace, INIT_LIST_HEAD, Memory, Pointers
    <3> HIDE DEF a2, c
    <3>5. (lv \cup {new}) \cup {old} = lv \cup {new} /\ (lv \cup {new}) \cup on \subseteq Links
      BY <1>1
    <3>6. vs = ls
      BY <1>1, <1>2, <2>1
    <3>7. Agree(a2, c, (lv \cup {new}) \cup on)
      BY <3>4, <3>5 DEF Agree
    <3>8. Good(c, lv \cup {new}, on, ls)
      <4> HIDE DEF vs
      <4> QED
        BY <1>5, <3>3, <3>5, <3>7, Same
    <3> QED
      BY <3>6, <3>8
  <2>2. CASE ls[old] # <<>>
    <3> DEFINE t == ls[old]
               us == [ls EXCEPT ![old] = <<>>]
               a1 == Join(m, old, old)
               a2 == INIT_LIST_HEAD(a1, new)
               a3 == Join(Join(a2, new, t[1]), t[Len(t)], a2.next[new])
    <3>1. /\ Good(a1, lv, on \ Set(t), us)
          /\ Chain(a1, t) /\ Set(t) \subseteq on
          /\ t[1] = m.next[old] /\ t[Len(t)] = m.prev[old]
          /\ m.next[old] \in Nodes /\ m.prev[old] \in Nodes
      <4>1. /\ Good(Join(m, old, old), lv, on \ Set(ls[old]), [ls EXCEPT ![old] = <<>>])
            /\ Chain(Join(m, old, old), ls[old]) /\ Set(ls[old]) \subseteq on
            /\ ls[old][1] = m.next[old] /\ ls[old][Len(ls[old])] = m.prev[old]
            /\ m.next[old] \in Set(ls[old]) /\ m.prev[old] \in Set(ls[old])
        BY <2>2, WholeOut
      <4> QED
        BY <1>1, <4>1
    <3>2. us[new] = <<>> /\ us \in [Heads -> Seq(Nodes)] /\ t \in Seq(Nodes)
      BY <1>1, <1>2
    <3>3. /\ a2.next[new] = new /\ a2 \in Memory /\ Agree(a1, a2, Links \ {new})
      BY <1>1, <3>1, Inits DEF Agree, Good
    <3>4. Good(a2, lv \cup {new}, on \ Set(t), us)
      <4> HIDE DEF us, t, a1
      <4> QED
        BY <3>1, <3>2, HeadInit
    <3>5. Agree(a1, a2, Set(t))
      BY <1>1, <3>1, <3>3, ListHeadAssumption DEF Agree, Links
    <3>6. Chain(a2, t)
      <4> HIDE DEF t, a1, a2
      <4> QED
        BY <3>1, <3>5, ChainKept
    <3>7. Good(a3, lv \cup {new}, (on \ Set(t)) \cup Set(t), D!After(us, new, t))
      <4>1. new \in (lv \cup {new}) \cup (on \ Set(t)) /\ Set(t) \cap (on \ Set(t)) = {}
        OBVIOUS
      <4> HIDE DEF t, a1, a2, us
      <4> QED
        BY <3>4, <3>6, <4>1, ChainIn
    <3>8. (on \ Set(t)) \cup Set(t) = on
      BY <3>1
    <3>9. D!After(us, new, t) = vs
      <4>1. D!After(us, new, t) = [us EXCEPT ![new] = t \o us[new]]
        <5>1. Holds(a2, lv \cup {new}, on \ Set(t), us)
          BY <3>4 DEF Good
        <5> HIDE DEF t, us, a2
        <5>2. new \in Heads /\ t \in Seq(Nodes)
          BY <3>2
        <5> QED
          BY <5>1, <5>2, AtHead
      <4>2. t \o us[new] = t
        BY <3>2, ConcatEmptySeq
      <4> QED
        BY <1>1, <1>2, <4>1, <4>2
    <3>10. Agree(a3, c, Links)
      <4>1. m.next[old] # old /\ m.prev[old] # old /\ m.next[old] # new /\ m.prev[old] # new
        BY <1>1, <3>1, ListHeadAssumption
      <4>2. a3 = Join(Join(a2, new, m.next[old]), m.prev[old], new)
        BY <3>1, <3>3
      <4> HIDE DEF a3, t, us
      <4> QED
        BY <1>1, <4>1, <4>2 DEF Agree, Join, list_replace_init, list_replace, INIT_LIST_HEAD, Memory, Pointers
    <3>11. Agree(a3, c, (lv \cup {new}) \cup on)
      BY <1>1, <3>10 DEF Agree
    <3> HIDE DEF a3, c, vs
    <3> QED
      BY <1>5, <3>7, <3>8, <3>9, <3>11, Same
  <2> QED
    BY <2>1, <2>2
<1>8. Good(b, (lv \cup {new}) \ {old}, on, vs)
  <2> HIDE DEF b, c, vs
  <2> QED
    BY <1>1, <1>4, <1>5, <1>6, <1>7, HeadLeft
<1>9. (lv \cup {new}) \ {old} = (lv \ {old}) \cup {new}
  OBVIOUS
<1> QED
  BY <1>3, <1>7, <1>8, <1>9

\* An entry moves to another place, which may be on another list.
LEMMA Moves ==
  ASSUME NEW m, NEW lv, NEW on, NEW ls, Good(m, lv, on, ls), NEW n \in Nodes,
         n \in on \/ (m.next[n] = n /\ m.prev[n] = n), NEW at \in lv \cup on, at # n
  PROVE  /\ Good(list_move(m, n, at), lv, on \cup {n}, D!After(D!Removed(ls, n), at, <<n>>))
         /\ Good(list_move_tail(m, n, at), lv, on \cup {n}, D!Before(D!Removed(ls, n), at, <<n>>))
<1>1. m \in Memory /\ n \in Links /\ lv \cup on \subseteq Links /\ m.prev[n] \in Links /\ m.next[n] \in Links
  BY Used DEF Links
<1> DEFINE b == Unlink(m, n)
<1>2. b \in Memory /\ Agree(Unlink(m, n), b, Links \ {n})
  BY <1>1, Joins DEF Unlink, Agree
<1>3. Good(b, lv, on \ {n}, D!Removed(ls, n))
  BY <1>2, Dels
<1>4. n \in Nodes \ (on \ {n}) /\ at \in lv \cup (on \ {n}) /\ (on \ {n}) \cup {n} = on \cup {n}
  OBVIOUS
<1> HIDE DEF b
<1>5. /\ Good(list_add(b, n, at), lv, (on \ {n}) \cup {n}, D!After(D!Removed(ls, n), at, <<n>>))
      /\ Good(list_add_tail(b, n, at), lv, (on \ {n}) \cup {n}, D!Before(D!Removed(ls, n), at, <<n>>))
  BY <1>3, <1>4, Adds
<1> QED
  BY <1>4, <1>5 DEF b, list_move, list_move_tail

\* The first entry of a list becomes its last.
LEMMA RotatesLeft ==
  ASSUME NEW m, NEW lv, NEW on, NEW ls, Good(m, lv, on, ls), NEW h \in lv
  PROVE  Good(list_rotate_left(m, h), lv, on,
              [ls EXCEPT ![h] = IF @ = <<>> THEN @ ELSE Append(Tail(@), Head(@))])
<1>1. lv \subseteq Heads /\ Holds(m, lv, on, ls) /\ ls \in [Heads -> Seq(Nodes)] /\ h \in Heads
  BY DEF Good, Holds
<1>2. list_empty(m, h) <=> ls[h] = <<>>
  BY <1>1, Neighbours DEF list_empty
<1>3. CASE ls[h] = <<>>
  BY <1>1, <1>2, <1>3 DEF list_rotate_left
<1>4. CASE ls[h] # <<>>
  <2> DEFINE s == ls[h]
             n == s[1]
             us == [ls EXCEPT ![h] = Tail(s)]
  <2>1. s \in Seq(Nodes) /\ Len(s) \in Nat /\ Len(s) >= 1 /\ 1 \in 1..Len(s)
    BY <1>1, <1>4, EmptySeq, LenProperties
  <2>2. n \in Nodes /\ n \in on /\ n # h /\ n = m.next[h] /\ n \in Links
    <3>1. n \in on /\ n \in Nodes /\ n \notin Heads
      BY <1>1, <2>1, Elements
    <3>2. At(ls, h, 1) = n /\ m.next[h] = At(ls, h, 1)
      BY <1>1, <2>1, Ats, Neighbours
    <3> QED
      BY <1>1, <3>1, <3>2 DEF Links
  <2>3. list_rotate_left(m, h) = list_move_tail(m, n, h)
    BY <1>2, <1>4, <2>2 DEF list_rotate_left
  <2>4. D!Removed(ls, n) = us
    <3>1. D!Removed(ls, n) = [ls EXCEPT ![h] = Out(s, 1, 1)]
      <4> DEFINE i == 1
      <4>1. h \in Heads /\ i \in 1..Len(ls[h])
        BY <1>1, <2>1
      <4>2. Holds(m, lv, on, ls)
        BY <1>1
      <4> HIDE DEF i
      <4>3. D!Removed(ls, ls[h][i]) = [ls EXCEPT ![h] = Out(ls[h], i, i)]
        BY <4>1, <4>2, RemovedIs
      <4> QED
        BY <4>3 DEF i
    <3>2. Out(s, 1, 1) = SubSeq(s, 1 + 1, Len(s)) /\ 1 + 1 = 2
      BY <2>1, OutFirst
    <3>3. Tail(s) = SubSeq(s, 2, Len(s))
      BY <1>4, <2>1, TailIsSubSeq
    <3> QED
      BY <3>1, <3>2, <3>3
  <2>5. us[h] = Tail(s) /\ Tail(s) \in Seq(Nodes)
    BY <1>1, <1>4, <2>1, HeadTailProperties
  <2>6. Good(Unlink(m, n), lv, on \ {n}, D!Removed(ls, n))
    BY <2>2, Unlinks
  <2>7. Good(list_move_tail(m, n, h), lv, on \cup {n}, D!Before(D!Removed(ls, n), h, <<n>>))
    BY <2>2, Moves
  <2>8. D!Before(us, h, <<n>>) = [us EXCEPT ![h] = us[h] \o <<n>>]
    <3> DEFINE t == <<n>>
    <3>1. Holds(Unlink(m, n), lv, on \ {n}, us)
      BY <2>4, <2>6 DEF Good
    <3>2. h \in Heads /\ t \in Seq(Nodes)
      BY <1>1, <2>2
    <3> HIDE DEF us, n, t
    <3>3. D!Before(us, h, t) = [us EXCEPT ![h] = us[h] \o t]
      BY <3>1, <3>2, AtHead
    <3> QED
      BY <3>3 DEF t
  <2>9. Append(Tail(s), Head(s)) = us[h] \o <<n>>
    <3>1. Append(Tail(s), n) = Tail(s) \o <<n>>
      BY <2>2, <2>5, AppendIsConcat
    <3>2. Head(s) = n
      BY <2>1
    <3> HIDE DEF n
    <3> QED
      BY <2>5, <3>1, <3>2
  <2>10. [us EXCEPT ![h] = us[h] \o <<n>>] = [ls EXCEPT ![h] = Append(Tail(s), Head(s))]
    <3> HIDE DEF n
    <3> QED
      BY <1>1, <2>5, <2>9
  <2>11. on \cup {n} = on
    BY <2>2
  <2> QED
    BY <1>4, <2>3, <2>4, <2>7, <2>8, <2>10, <2>11
<1> QED
  BY <1>3, <1>4

\* Nothing is cut off.
LEMMA CutNone ==
  ASSUME NEW m, NEW lv, NEW on, NEW ls, Good(m, lv, on, ls), NEW h \in Heads, NEW l \in Heads,
         l # h, ls[l] = <<>>
  PROVE  D!Cut(ls, l, h, 0) = ls
<1>1. ls \in [Heads -> Seq(Nodes)] /\ ls[h] \in Seq(Nodes) /\ 0 + 1 = 1
  BY DEF Good, Holds
<1>2. SubSeq(ls[h], 1, 0) = <<>> /\ SubSeq(ls[h], 1, Len(ls[h])) = ls[h]
  BY <1>1, SubSeqEmpty, SubSeqFull
<1> QED
  BY <1>1, <1>2 DEF D!Cut

\* The stores of a cut behind the i-th entry of h.
CutStores(m, l, h, q, t) == Join(Join(Join(m, l, t[1]), t[Len(t)], l), h, q)

LEMMA CutAt ==
  ASSUME NEW m, NEW lv, NEW on, NEW ls, NEW h, NEW i, NEW q, NEW t, Prefix(m, lv, on, ls, h, i, q, t),
         NEW l \in Heads, l # h, ls[l] = <<>>
  PROVE  Good(CutStores(m, l, h, q, t), lv \cup {l}, on, D!Cut(ls, l, h, i))
<1>1. /\ Good(m, lv, on, ls) /\ h \in lv /\ i \in 1..Len(ls[h])
      /\ q = At(ls, h, i + 1) /\ t = SubSeq(ls[h], 1, i)
  BY DEF Prefix
<1>2. /\ m \in Memory /\ lv \subseteq Heads /\ on \subseteq Nodes /\ lv \cup on \subseteq Links
      /\ Holds(m, lv, on, ls) /\ ls \in [Heads -> Seq(Nodes)]
      /\ h \in Heads /\ h \in Links /\ l \in Links /\ l \notin on /\ h \notin on
  <2>1. lv \subseteq Heads /\ on \subseteq Nodes /\ lv \cup on \subseteq Links /\ m \in Memory
    BY <1>1, Used
  <2>2. Holds(m, lv, on, ls) /\ ls \in [Heads -> Seq(Nodes)]
    BY <1>1 DEF Good, Holds
  <2> QED
    BY <1>1, <2>1, <2>2, ListHeadAssumption DEF Links
<1> DEFINE us == [ls EXCEPT ![h] = SubSeq(ls[h], i + 1, Len(ls[h]))]
           a == Join(m, h, q)
           b == INIT_LIST_HEAD(a, l)
           c == Join(Join(b, l, t[1]), t[Len(t)], b.next[l])
           d == CutStores(m, l, h, q, t)
<1>3. /\ Good(a, lv, on \ Set(t), us) /\ Chain(a, t) /\ Set(t) \subseteq on
      /\ t \in Seq(Nodes) /\ q \in Links
  BY PrefixOut DEF PrefixLeft
<1>4. us[l] = <<>> /\ us \in [Heads -> Seq(Nodes)]
  <2>1. SubSeq(ls[h], i + 1, Len(ls[h])) \in Seq(Nodes)
    BY <1>1, <1>2, OutFirst
  <2> QED
    BY <1>2, <2>1
<1>5. b.next[l] = l /\ b \in Memory /\ Agree(a, b, Links \ {l})
  <2>1. a \in Memory
    BY <1>3 DEF Good
  <2> HIDE DEF a
  <2> QED
    BY <1>2, <2>1, Inits DEF Agree
<1>6. Good(b, lv \cup {l}, on \ Set(t), us) /\ Chain(b, t)
  <2>1. Agree(a, b, Set(t))
    BY <1>2, <1>3, <1>5 DEF Agree
  <2> HIDE DEF us, a
  <2>2. Good(b, lv \cup {l}, on \ Set(t), us)
    BY <1>3, <1>4, HeadInit
  <2>3. Chain(b, t)
    BY <1>3, <2>1, ChainKept
  <2> QED
    BY <2>2, <2>3
<1>7. Good(c, lv \cup {l}, on, D!After(us, l, t))
  <2>1. l \in (lv \cup {l}) \cup (on \ Set(t)) /\ Set(t) \cap (on \ Set(t)) = {} /\ (on \ Set(t)) \cup Set(t) = on
    BY <1>3
  <2> HIDE DEF us, b
  <2>2. Good(c, lv \cup {l}, (on \ Set(t)) \cup Set(t), D!After(us, l, t))
    BY <1>6, <2>1, ChainIn
  <2> QED
    BY <2>1, <2>2
<1>8. D!After(us, l, t) = D!Cut(ls, l, h, i)
  <2>1. D!After(us, l, t) = [us EXCEPT ![l] = t \o us[l]]
    <3>1. Holds(b, lv \cup {l}, on \ Set(t), us) /\ l \in Heads /\ t \in Seq(Nodes)
      BY <1>3, <1>6 DEF Good
    <3> HIDE DEF us, b
    <3> QED
      BY <3>1, AtHead
  <2>2. t \o us[l] = t
    BY <1>3, <1>4, ConcatEmptySeq
  <2>3. D!Cut(ls, l, h, i) = [ls EXCEPT ![l] = t, ![h] = SubSeq(ls[h], i + 1, Len(ls[h]))]
    BY <1>1 DEF D!Cut
  <2> QED
    BY <1>2, <2>1, <2>2, <2>3
<1>9. t[1] \in Set(t) /\ t[Len(t)] \in Set(t) /\ t[1] \in Links /\ t[Len(t)] \in Links
  <2>1. Len(t) \in Nat /\ Len(t) >= 1
    BY <1>3, LenProperties DEF Chain
  <2>2. Len(t) \in 1..Len(t) /\ 1 \in 1..Len(t)
    BY <2>1
  <2>3. t[1] \in Set(t) /\ t[Len(t)] \in Set(t)
    BY <2>2 DEF Set
  <2> QED
    BY <1>2, <1>3, <2>3
<1>10. q # t[1] /\ q # l /\ t[1] \notin {h, l} /\ t[Len(t)] \notin {h, l}
  <2>1. a.next[h] = q
    BY <1>2 DEF Join, Memory, Pointers
  <2>2. q \in lv \cup (on \ Set(t))
    <3> HIDE DEF a, us
    <3> QED
      BY <1>1, <1>3, <2>1, Used
  <2>3. q \in {h} \cup on
    <3>1. i + 1 \in Nat /\ \A k \in Nat : At(ls, h, k) \in Links /\ At(ls, h, k) \in {h} \cup on
      BY <1>1, <1>2, Ats
    <3> QED
      BY <1>1, <3>1
  <2>4. q \notin Set(t)
    BY <1>2, <1>3, <2>2, ListHeadAssumption
  <2> QED
    BY <1>2, <1>3, <1>9, <2>3, <2>4
<1>11. d \in Memory /\ Agree(c, d, Links)
  <2>1. c = Join(Join(b, l, t[1]), t[Len(t)], l)
    BY <1>5
  <2> HIDE DEF c
  <2>2. d \in Memory
    BY <1>2, <1>3, <1>9, Joins DEF CutStores
  <2> QED
    BY <1>2, <1>3, <1>9, <1>10, <2>1, <2>2 DEF Agree, CutStores, Join, INIT_LIST_HEAD, Memory, Pointers
<1>12. Agree(c, d, (lv \cup {l}) \cup on)
  BY <1>2, <1>11 DEF Agree
<1> HIDE DEF c, d
<1>13. Good(d, lv \cup {l}, on, D!After(us, l, t))
  BY <1>7, <1>11, <1>12, Same
<1> QED
  BY <1>8, <1>13 DEF d

\* The two cuts, behind the i-th entry, and before the next place.
LEMMA CutsPosition ==
  ASSUME NEW m, NEW lv, NEW on, NEW ls, Good(m, lv, on, ls), NEW h \in lv, NEW l \in Heads,
         l # h, ls[l] = <<>>, NEW i \in 0..Len(ls[h]), NEW e, e = At(ls, h, i)
  PROVE  Good(list_cut_position(m, l, h, e), IF ls[h] = <<>> THEN lv ELSE lv \cup {l}, on, D!Cut(ls, l, h, i))
<1>1. /\ lv \subseteq Heads /\ Holds(m, lv, on, ls) /\ h \in Heads
      /\ list_empty(m, h) <=> ls[h] = <<>>
  BY Neighbours DEF Good, list_empty
<1>2. ls[h] \in Seq(Nodes) /\ Len(ls[h]) \in Nat /\ At(ls, h, 0) = h
  BY <1>1, Ats, Elements
<1>3. D!Cut(ls, l, h, 0) = ls
  BY <1>1, CutNone
<1>4. CASE ls[h] = <<>>
  <2>1. i = 0
    BY <1>2, <1>4
  <2> QED
    BY <1>1, <1>3, <1>4, <2>1 DEF list_cut_position
<1>5. CASE ls[h] # <<>> /\ i = 0
  <2>1. e = h
    BY <1>2, <1>5
  <2>2. list_cut_position(m, l, h, e) = INIT_LIST_HEAD(m, l)
    BY <1>1, <1>5, <2>1 DEF list_cut_position
  <2>3. Good(INIT_LIST_HEAD(m, l), lv \cup {l}, on, ls)
    BY HeadInit
  <2> QED
    BY <1>3, <1>5, <2>2, <2>3
<1>6. CASE ls[h] # <<>> /\ i # 0
  <2> DEFINE q == At(ls, h, i + 1)
             t == SubSeq(ls[h], 1, i)
  <2>1. i \in 1..Len(ls[h])
    BY <1>6
  <2>2. Prefix(m, lv, on, ls, h, i, q, t)
    BY <2>1 DEF Prefix
  <2> HIDE DEF q, t
  <2>3. t[1] = m.next[h] /\ t[Len(t)] = ls[h][i] /\ m.next[ls[h][i]] = q
    <3>1. PrefixLeft(m, lv, on, ls, h, i, q, t)
      BY <2>2, PrefixOut
    <3> QED
      BY <3>1 DEF PrefixLeft
  <2>4. Good(CutStores(m, l, h, q, t), lv \cup {l}, on, D!Cut(ls, l, h, i))
    BY <2>2, CutAt
  <2>5. e = ls[h][i] /\ e # h
    <3>1. At(ls, h, i) = ls[h][i] /\ ls[h][i] \notin Heads
      BY <1>1, <2>1, Ats, Elements
    <3> QED
      BY <1>1, <3>1
  <2>6. list_is_singular(m, h) => e = m.next[h]
    <3>1. m.next[h] = At(ls, h, 1) /\ m.prev[h] = At(ls, h, Len(ls[h]))
      BY <1>1, Neighbours
    <3>2. 1 \in 0..Len(ls[h]) /\ Len(ls[h]) \in 0..Len(ls[h])
      BY <1>2, <2>1
    <3>3. \A x, y \in 0..Len(ls[h]) : At(ls, h, x) = At(ls, h, y) => x = y
      BY <1>1, AtsDiffer
    <3>4. m.next[h] = m.prev[h] => i = 1
      BY <2>1, <3>1, <3>2, <3>3
    <3> QED
      BY <3>1, <3>4 DEF list_is_singular
  <2>7. list_cut_position(m, l, h, e) = CutStores(m, l, h, q, t)
    BY <1>1, <1>6, <2>3, <2>5, <2>6 DEF list_cut_position, CutStores
  <2> QED
    BY <1>6, <2>4, <2>7
<1> QED
  BY <1>4, <1>5, <1>6

LEMMA CutsBefore ==
  ASSUME NEW m, NEW lv, NEW on, NEW ls, Good(m, lv, on, ls), NEW h \in lv, NEW l \in Heads,
         l # h, ls[l] = <<>>, NEW i \in 0..Len(ls[h]), NEW e, e = At(ls, h, i + 1)
  PROVE  Good(list_cut_before(m, l, h, e), lv \cup {l}, on, D!Cut(ls, l, h, i))
<1>1. lv \subseteq Heads /\ Holds(m, lv, on, ls) /\ h \in Heads
  BY DEF Good
<1>2. Len(ls[h]) \in Nat /\ i \in Nat
  BY <1>1, Elements
<1>3. m.next[h] = At(ls, h, 1)
  BY <1>1, Neighbours
<1>4. CASE i = 0
  <2>1. list_cut_before(m, l, h, e) = INIT_LIST_HEAD(m, l)
    BY <1>3, <1>4 DEF list_cut_before
  <2>2. Good(INIT_LIST_HEAD(m, l), lv \cup {l}, on, ls)
    BY HeadInit
  <2>3. D!Cut(ls, l, h, 0) = ls
    BY <1>1, CutNone
  <2> QED
    BY <1>4, <2>1, <2>2, <2>3
<1>5. CASE i # 0
  <2> DEFINE t == SubSeq(ls[h], 1, i)
  <2>1. i \in 1..Len(ls[h]) /\ i + 1 \in 1..Len(ls[h]) + 1 /\ 1 \in 1..Len(ls[h]) + 1 /\ (i + 1) - 1 = i /\ i + 1 # 1
    BY <1>2, <1>5
  <2>2. Prefix(m, lv, on, ls, h, i, e, t)
    BY <2>1 DEF Prefix
  <2> HIDE DEF t
  <2>3. t[1] = m.next[h] /\ t[Len(t)] = ls[h][i]
    <3>1. PrefixLeft(m, lv, on, ls, h, i, e, t)
      BY <2>2, PrefixOut
    <3> QED
      BY <3>1 DEF PrefixLeft
  <2>4. Good(CutStores(m, l, h, e, t), lv \cup {l}, on, D!Cut(ls, l, h, i))
    BY <2>2, CutAt
  <2>5. m.next[h] # e
    <3>1. \A x, y \in 1..Len(ls[h]) + 1 : At(ls, h, x) = At(ls, h, y) => x = y
      BY <1>1, AtsDiffer
    <3> QED
      BY <1>3, <2>1, <3>1
  <2>6. m.prev[e] = ls[h][i]
    <3>1. \A k \in 1..Len(ls[h]) + 1 : m.prev[At(ls, h, k)] = At(ls, h, k - 1)
      BY <1>1, Neighbours
    <3>2. At(ls, h, i) = ls[h][i]
      BY <1>1, <2>1, Ats
    <3> QED
      BY <2>1, <3>1, <3>2
  <2>7. list_cut_before(m, l, h, e) = CutStores(m, l, h, e, t)
    BY <2>3, <2>5, <2>6 DEF list_cut_before, CutStores
  <2> QED
    BY <2>4, <2>7
<1> QED
  BY <1>4, <1>5

\* A list that is not empty is joined to a place of another, and its head is
\* left behind or initialised.
LEMMA SplicesAll ==
  ASSUME NEW m, NEW lv, NEW on, NEW ls, Good(m, lv, on, ls), NEW l \in lv, ls[l] # <<>>,
         NEW at \in lv \cup on, at # l, at \notin Set(ls[l]), NEW us, us = [ls EXCEPT ![l] = <<>>]
  PROVE  /\ Good(list_splice_init(m, l, at), lv, on, D!After(us, at, ls[l]))
         /\ Good(list_splice(m, l, at), lv \ {l}, on, D!After(us, at, ls[l]))
         /\ Good(list_splice_tail_init(m, l, at), lv, on, D!Before(us, at, ls[l]))
         /\ Good(list_splice_tail(m, l, at), lv \ {l}, on, D!Before(us, at, ls[l]))
<1>1. /\ m \in Memory /\ lv \subseteq Heads /\ on \subseteq Nodes /\ lv \cup on \subseteq Links
      /\ l \in Heads /\ l \in Links /\ at \in Links
      /\ m.next[at] \in Links /\ m.prev[at] \in Links /\ m.next[l] \in Links /\ m.prev[l] \in Links
  BY Used DEF Good, Links
<1>2. Holds(m, lv, on, ls) /\ ls \in [Heads -> Seq(Nodes)]
  BY DEF Good, Holds
<1> DEFINE t == ls[l]
           x == m.next[l]
           y == m.prev[l]
           a == Join(m, l, l)
           b == Join(Join(a, at, t[1]), t[Len(t)], a.next[at])
           c == Join(Join(a, a.prev[at], t[1]), t[Len(t)], at)
           bs == list_splice(m, l, at)
           cs == list_splice_tail(m, l, at)
           bi == INIT_LIST_HEAD(bs, l)
           ci == INIT_LIST_HEAD(cs, l)
<1>3. /\ Good(a, lv, on \ Set(t), us) /\ Chain(a, t) /\ Set(t) \subseteq on
      /\ t[1] = x /\ t[Len(t)] = y /\ x \in Set(t) /\ y \in Set(t)
  <2>1. /\ Good(Join(m, l, l), lv, on \ Set(ls[l]), [ls EXCEPT ![l] = <<>>])
        /\ Chain(Join(m, l, l), ls[l]) /\ Set(ls[l]) \subseteq on
        /\ ls[l][1] = m.next[l] /\ ls[l][Len(ls[l])] = m.prev[l]
        /\ m.next[l] \in Set(ls[l]) /\ m.prev[l] \in Set(ls[l])
    BY WholeOut
  <2> QED
    BY <2>1
<1>4. at \in lv \cup (on \ Set(t)) /\ Set(t) \cap (on \ Set(t)) = {} /\ (on \ Set(t)) \cup Set(t) = on
  BY <1>3
<1>5. Good(b, lv, on, D!After(us, at, t)) /\ Good(c, lv, on, D!Before(us, at, t))
  <2> HIDE DEF t, a
  <2>1. /\ Good(b, lv, (on \ Set(t)) \cup Set(t), D!After(us, at, t))
        /\ Good(c, lv, (on \ Set(t)) \cup Set(t), D!Before(us, at, t))
    BY <1>3, <1>4, ChainIn
  <2> QED
    BY <1>4, <2>1
<1>6. ~list_empty(m, l)
  BY <1>1, <1>2, Neighbours DEF list_empty
<1>7. x # l /\ y # l /\ at # x /\ at # y
  BY <1>1, <1>3, ListHeadAssumption
<1>8. m.next[at] # l /\ m.prev[at] # l
  <2>1. m.prev[m.next[at]] = at /\ m.next[m.prev[at]] = at
    BY LeadsBack
  <2> QED
    BY <1>7, <2>1
<1>9. bs = SpliceBetween(m, l, at, m.next[at]) /\ cs = SpliceBetween(m, l, m.prev[at], at)
  BY <1>6 DEF list_splice, list_splice_tail
<1>10. bs \in Memory /\ cs \in Memory
  <2> HIDE DEF bs, cs
  <2> QED
    BY <1>1, <1>9, Joins DEF SpliceBetween
<1>11. a.next[at] = m.next[at] /\ a.prev[at] = m.prev[at]
  BY <1>1 DEF Join, Memory, Pointers
<1>12. Agree(b, bi, Links)
  <2>1. b = Join(Join(a, at, x), y, m.next[at])
    BY <1>3, <1>11
  <2> HIDE DEF b, bs, cs, t
  <2> QED
    BY <1>1, <1>7, <1>8, <1>9, <2>1 DEF Agree, Join, INIT_LIST_HEAD, SpliceBetween, Memory, Pointers
<1>13. Agree(c, ci, Links)
  <2>1. c = Join(Join(a, m.prev[at], x), y, at)
    BY <1>3, <1>11
  <2> HIDE DEF c, bs, cs, t
  <2> QED
    BY <1>1, <1>7, <1>8, <1>9, <2>1 DEF Agree, Join, INIT_LIST_HEAD, SpliceBetween, Memory, Pointers
<1>14. /\ bi \in Memory /\ Agree(bi, bs, Links \ {l})
       /\ ci \in Memory /\ Agree(ci, cs, Links \ {l})
  <2> HIDE DEF bs, cs
  <2>1. /\ bi \in Memory
        /\ \A k \in Links \ {l} : bi.next[k] = bs.next[k] /\ bi.prev[k] = bs.prev[k]
    BY <1>1, <1>10, Inits
  <2>2. /\ ci \in Memory
        /\ \A k \in Links \ {l} : ci.next[k] = cs.next[k] /\ ci.prev[k] = cs.prev[k]
    BY <1>1, <1>10, Inits
  <2> QED
    BY <2>1, <2>2 DEF Agree
<1>15. Good(bi, lv, on, D!After(us, at, t)) /\ Good(ci, lv, on, D!Before(us, at, t))
  <2>1. Agree(b, bi, lv \cup on) /\ Agree(c, ci, lv \cup on)
    BY <1>1, <1>12, <1>13 DEF Agree
  <2> HIDE DEF b, bi, c, ci, t
  <2> QED
    BY <1>5, <1>14, <2>1, Same
<1>16. D!After(us, at, t)[l] = <<>> /\ D!Before(us, at, t)[l] = <<>>
  <2>1. us[l] = <<>>
    BY <1>1, <1>2
  <2>2. ~D!Contains(us[l], at)
    BY <2>1 DEF D!Contains
  <2> HIDE DEF t
  <2> QED
    BY <1>1, <2>1, <2>2 DEF D!After, D!Before
<1>17. Good(bs, lv \ {l}, on, D!After(us, at, t)) /\ Good(cs, lv \ {l}, on, D!Before(us, at, t))
  <2> DEFINE vs == D!After(us, at, t)
             ws == D!Before(us, at, t)
  <2>1. vs[l] = <<>> /\ ws[l] = <<>> /\ Good(bi, lv, on, vs) /\ Good(ci, lv, on, ws)
    BY <1>15, <1>16
  <2> HIDE DEF vs, ws, bi, ci, bs, cs
  <2>2. Good(bs, lv \ {l}, on, vs) /\ Good(cs, lv \ {l}, on, ws)
    BY <1>1, <1>10, <1>14, <2>1, HeadLeft
  <2> QED
    BY <2>2 DEF vs, ws
<1>18. list_splice_init(m, l, at) = bi /\ list_splice_tail_init(m, l, at) = ci
  BY <1>6 DEF list_splice_init, list_splice_tail_init
<1> QED
  BY <1>15, <1>17, <1>18

\* The list of h begins at its i-th entry.
LEMMA RotatesToFront ==
  ASSUME NEW m, NEW lv, NEW on, NEW ls, Good(m, lv, on, ls), NEW h \in lv, NEW i \in 1..Len(ls[h]),
         NEW n, n = ls[h][i]
  PROVE  Good(list_rotate_to_front(m, n, h), lv, on,
              [ls EXCEPT ![h] = SubSeq(@, i, Len(@)) \o SubSeq(@, 1, i - 1)])
<1>1. /\ m \in Memory /\ lv \subseteq Heads /\ on \subseteq Nodes /\ lv \cup on \subseteq Links
      /\ h \in Heads /\ h \in Links /\ h \notin on
      /\ m.next[h] \in Links /\ m.prev[h] \in Links
  BY Used, ListHeadAssumption DEF Good, Links
<1>2. Holds(m, lv, on, ls) /\ ls \in [Heads -> Seq(Nodes)]
  BY DEF Good, Holds
<1>3. ls[h] \in Seq(Nodes) /\ Len(ls[h]) \in Nat /\ i \in Nat
  BY <1>1, <1>2, Elements
<1>4. n \in on /\ n \in Links /\ n # h /\ n = At(ls, h, i) /\ m.prev[n] \in Links
  <2>1. ls[h][i] \in on /\ At(ls, h, i) = ls[h][i]
    BY <1>1, <1>2, Ats, Elements
  <2>2. ls[h][i] \in lv \cup on /\ m.prev[ls[h][i]] \in lv \cup on
    BY <2>1, Used
  <2> QED
    BY <1>1, <2>1, <2>2
<1> DEFINE s == ls[h]
           x == m.next[h]
           y == m.prev[h]
           u == Join(m, y, x)
           b == list_rotate_to_front(m, n, h)
<1>5. b = AddBetween(u, h, u.prev[n], n)
  BY DEF list_rotate_to_front, list_move_tail, list_add_tail, Unlink
<1>6. b \in Memory /\ u \in Memory
  <2>1. u \in Memory
    BY <1>1, Joins
  <2>2. u.prev[n] \in Links
    BY <1>1, <1>4 DEF Join, Memory, Pointers
  <2> HIDE DEF u
  <2> QED
    BY <1>1, <1>4, <1>5, <2>1, <2>2, AddsBetween
<1>7. x # h /\ y # h
  <2>1. Len(ls[h]) # 0
    BY <1>3
  <2>2. ls[h] # <<>>
    BY <2>1
  <2> QED
    BY <1>1, <1>2, <2>2, Neighbours
<1>8. CASE i = 1
  <2>1. n = x
    BY <1>1, <1>2, <1>4, <1>8, Neighbours
  <2>2. m.prev[x] = h /\ m.next[y] = h
    BY LeadsBack
  <2>3. Agree(m, b, Links)
    <3> HIDE DEF b
    <3> QED
      BY <1>1, <1>4, <1>5, <1>7, <2>1, <2>2 DEF Agree, AddBetween, Join, Memory, Pointers
  <2>4. SubSeq(s, i, Len(s)) \o SubSeq(s, 1, i - 1) = s
    <3>1. SubSeq(s, 1, Len(s)) = s /\ SubSeq(s, 1, 0) = <<>> /\ s \o <<>> = s
      BY <1>3, SubSeqFull, SubSeqEmpty, ConcatEmptySeq
    <3> QED
      BY <1>8, <3>1
  <2>5. Agree(m, b, lv \cup on)
    BY <1>1, <2>3 DEF Agree
  <2>6. Good(b, lv, on, ls)
    <3> HIDE DEF b
    <3> QED
      BY <1>6, <2>5, Same
  <2> QED
    BY <1>2, <2>4, <2>6
<1>9. CASE i # 1
  <2> DEFINE j == i - 1
             t == SubSeq(s, 1, j)
             us == [ls EXCEPT ![h] = SubSeq(s, j + 1, Len(s))]
             a == Join(m, h, n)
             c == Join(Join(a, a.prev[h], t[1]), t[Len(t)], h)
  <2>1. j \in 1..Len(ls[h]) /\ j + 1 = i
    BY <1>3, <1>9
  <2>2. Prefix(m, lv, on, ls, h, j, n, t)
    BY <1>4, <2>1 DEF Prefix
  <2> HIDE DEF j
  <2>3. PrefixLeft(m, lv, on, ls, h, j, n, t)
    <3> HIDE DEF t
    <3> QED
      BY <2>2, PrefixOut
  <2>4. /\ Good(a, lv, on \ Set(t), us) /\ Chain(a, t) /\ Set(t) \subseteq on
        /\ t \in Seq(Nodes) /\ t[1] = x /\ m.next[t[Len(t)]] = n
    BY <2>3 DEF PrefixLeft
  <2>5. t[1] \in Set(t) /\ t[Len(t)] \in Set(t)
    <3> HIDE DEF t
    <3>1. Len(t) \in Nat /\ Len(t) >= 1
      BY <2>4, LenProperties DEF Chain
    <3>2. Len(t) \in 1..Len(t) /\ 1 \in 1..Len(t)
      BY <3>1
    <3> QED
      BY <3>2 DEF Set
  <2>6. Good(c, lv, on, D!Before(us, h, t))
    <3>1. h \in lv \cup (on \ Set(t)) /\ Set(t) \cap (on \ Set(t)) = {} /\ (on \ Set(t)) \cup Set(t) = on
      BY <2>4
    <3> HIDE DEF t, a, us
    <3>2. Good(c, lv, (on \ Set(t)) \cup Set(t), D!Before(us, h, t))
      BY <2>4, <3>1, ChainIn
    <3> QED
      BY <3>1, <3>2
  <2>7. D!Before(us, h, t) = [ls EXCEPT ![h] = SubSeq(s, i, Len(s)) \o SubSeq(s, 1, i - 1)]
    <3>1. Holds(a, lv, on \ Set(t), us) /\ h \in Heads /\ t \in Seq(Nodes)
      BY <1>1, <2>4 DEF Good
    <3>2. D!Before(us, h, t) = [us EXCEPT ![h] = us[h] \o t]
      <4> HIDE DEF us, t, a
      <4> QED
        BY <3>1, AtHead
    <3>3. us[h] = SubSeq(s, i, Len(s))
      BY <1>1, <1>2, <2>1
    <3> QED
      BY <1>1, <1>2, <3>2, <3>3 DEF j
  <2>8. /\ n # x /\ t[Len(t)] # h /\ t[Len(t)] \in Links
        /\ m.prev[n] = t[Len(t)] /\ a.prev[h] = y
    <3>1. a.next[h] = n /\ a.prev[h] = m.prev[h]
      BY <1>1, <1>4 DEF Join, Memory, Pointers
    <3>2. n \in lv \cup (on \ Set(t))
      <4> HIDE DEF a, us, t
      <4> QED
        BY <2>4, <3>1, Used
    <3>3. n \notin lv
      BY <1>1, <1>4, ListHeadAssumption
    <3>4. t[Len(t)] \in on
      BY <2>4, <2>5
    <3>5. m.prev[m.next[t[Len(t)]]] = t[Len(t)]
      <4> HIDE DEF t
      <4> QED
        BY <3>4, LeadsBack
    <3> QED
      BY <1>1, <2>4, <2>5, <3>1, <3>2, <3>3, <3>4, <3>5
  <2>9. Agree(c, b, Links)
    <3> DEFINE p == t[Len(t)]
    <3>1. c = Join(Join(a, y, x), p, h)
      BY <2>4, <2>8
    <3>2. n # x /\ p # h /\ p \in Links /\ m.prev[n] = p
      BY <2>8
    <3> HIDE DEF b, c, p, t, us
    <3>3. u.prev[n] = p
      BY <1>1, <1>4, <3>2 DEF Join, Memory, Pointers
    <3>4. b = AddBetween(u, h, p, n)
      BY <1>5, <3>3
    <3> QED
      BY <1>1, <1>4, <1>7, <3>1, <3>2, <3>4 DEF Agree, AddBetween, Join, Memory, Pointers
  <2>10. Agree(c, b, lv \cup on)
    BY <1>1, <2>9 DEF Agree
  <2>11. Good(b, lv, on, D!Before(us, h, t))
    <3> HIDE DEF b, c, us, t
    <3> QED
      BY <1>6, <2>6, <2>10, Same
  <2> QED
    BY <2>7, <2>11
<1> QED
  BY <1>8, <1>9

\* A section moves to before another place.
LEMMA BulkMoves ==
  ASSUME NEW m, NEW lv, NEW on, NEW ls, Good(m, lv, on, ls), NEW h \in lv, NEW i \in 1..Len(ls[h]),
         NEW j \in i..Len(ls[h]), NEW at \in lv \cup on, at \notin Set(SubSeq(ls[h], i, j)),
         NEW first, first = ls[h][i], NEW end, end = ls[h][j]
  PROVE  Good(list_bulk_move_tail(m, at, first, end), lv, on,
              D!Before(D!Without(ls, first, end), at, D!Section(ls, first, end)))
<1>1. m \in Memory /\ lv \subseteq Heads /\ Holds(m, lv, on, ls) /\ h \in Heads /\ ls \in [Heads -> Seq(Nodes)]
  BY DEF Good, Holds
<1>2. ls[h] \in Seq(Nodes) /\ Len(ls[h]) \in Nat
  BY <1>1, Elements
<1>3. /\ i \in Nat /\ j \in Nat /\ i - 1 \in Nat /\ j + 1 \in Nat /\ j \in 1..Len(ls[h]) /\ i <= j
      /\ i \in 1..Len(ls[h]) + 1 /\ j \in 0..Len(ls[h])
  BY <1>2
<1> DEFINE t == SubSeq(ls[h], i, j)
           us == [ls EXCEPT ![h] = Out(ls[h], i, j)]
           p == At(ls, h, i - 1)
           q == At(ls, h, j + 1)
           a == Join(m, p, q)
           b == list_bulk_move_tail(m, at, first, end)
<1>4. p \in Links /\ q \in Links /\ At(ls, h, i) = first /\ At(ls, h, j) = end
  <2>1. /\ \A k \in Nat : At(ls, h, k) \in Links /\ At(ls, h, k) \in {h} \cup on
        /\ \A k \in 1..Len(ls[h]) : At(ls, h, k) = ls[h][k]
    BY <1>1, Ats
  <2> QED
    BY <1>3, <2>1
<1>5. m.prev[first] = p /\ m.next[end] = q
  <2>1. /\ \A k \in 0..Len(ls[h]) : m.next[At(ls, h, k)] = At(ls, h, k + 1)
        /\ \A k \in 1..Len(ls[h]) + 1 : m.prev[At(ls, h, k)] = At(ls, h, k - 1)
    BY <1>1, Neighbours
  <2> QED
    BY <1>3, <1>4, <2>1
<1>6. a \in Memory /\ Joined(m, a, At(ls, h, i - 1), At(ls, h, j + 1))
  BY <1>1, <1>4, Joins
<1>7. Skipped(m, a, lv, on, ls, h, i, j, t)
  BY <1>1, <1>6 DEF Skipped
<1>8. Good(a, lv, on \ Set(t), us) /\ Chain(a, t) /\ Set(t) \subseteq on
  <2> HIDE DEF a, t
  <2>1. Holds(a, lv, on \ Set(t), us) /\ Chain(a, t) /\ Set(t) \subseteq on
    BY <1>7, TakeOut
  <2> QED
    BY <1>1, <1>6, <2>1 DEF Good
<1>9. t[1] = first /\ t[Len(t)] = end
  <2>1. Len(t) = j - i + 1 /\ \A k \in 1..j - i + 1 : t[k] = ls[h][i + k - 1]
    BY <1>2, OutIs
  <2>2. 1 \in 1..j - i + 1 /\ j - i + 1 \in 1..j - i + 1 /\ i + 1 - 1 = i /\ i + (j - i + 1) - 1 = j
    BY <1>3
  <2> HIDE DEF t
  <2> QED
    BY <2>1, <2>2
<1>10. Good(b, lv, on, D!Before(us, at, t))
  <2>1. at \in lv \cup (on \ Set(t)) /\ Set(t) \cap (on \ Set(t)) = {} /\ (on \ Set(t)) \cup Set(t) = on
    BY <1>8
  <2>2. b = Join(Join(a, a.prev[at], t[1]), t[Len(t)], at)
    BY <1>5, <1>9 DEF list_bulk_move_tail
  <2> HIDE DEF a, b, t, us
  <2>3. Good(Join(Join(a, a.prev[at], t[1]), t[Len(t)], at), lv, (on \ Set(t)) \cup Set(t), D!Before(us, at, t))
    BY <1>8, <2>1, ChainIn
  <2> QED
    BY <2>1, <2>2, <2>3
<1>11. /\ D!Index(ls[h], first) = i /\ D!Index(ls[h], end) = j
       /\ \A g \in Heads : D!Contains(ls[g], first) <=> g = h
  <2>1. /\ D!Index(ls[h], ls[h][i]) = i
        /\ \A g \in Heads : D!Contains(ls[g], ls[h][i]) <=> g = h
    BY <1>1, Found
  <2>2. D!Index(ls[h], ls[h][j]) = j
    BY <1>1, <1>3, Found
  <2> QED
    BY <2>1, <2>2
<1>12. D!Section(ls, first, end) = t
  BY <1>1, <1>11 DEF D!Section
<1>13. D!Without(ls, first, end) = us
  <2> DEFINE ws == D!Without(ls, first, end)
  <2>1. ws = [g \in Heads |-> ws[g]]
    BY DEF D!Without
  <2>2. us = [g \in Heads |-> us[g]]
    BY <1>1
  <2>3. ASSUME NEW g \in Heads PROVE ws[g] = us[g]
    BY <1>1, <1>11 DEF D!Without, Out
  <2> HIDE DEF ws, us
  <2>4. ws = us
    BY <2>1, <2>2, <2>3
  <2> QED
    BY <2>4 DEF ws
<1> QED
  BY <1>10, <1>12, <1>13

\* Two entries change places.
Swapped(ls, e, f) ==
  [g \in Heads |-> [k \in DOMAIN ls[g] |-> IF ls[g][k] = e THEN f ELSE IF ls[g][k] = f THEN e ELSE ls[g][k]]]

LEMMA Swaps ==
  ASSUME NEW m, NEW lv, NEW on, NEW ls, Good(m, lv, on, ls), NEW e \in on, NEW f \in on, e # f
  PROVE  Good(list_swap(m, e, f), lv, on, Swapped(ls, e, f))
<1>1. /\ m \in Memory /\ lv \subseteq Heads /\ Holds(m, lv, on, ls) /\ on \subseteq Nodes
      /\ e \in Nodes /\ f \in Nodes /\ ls \in [Heads -> Seq(Nodes)]
  <2>1. on \subseteq Nodes /\ lv \subseteq Heads /\ m \in Memory
    BY Used
  <2>2. Holds(m, lv, on, ls) /\ ls \in [Heads -> Seq(Nodes)]
    BY DEF Good, Holds
  <2> QED
    BY <2>1, <2>2
<1>2. PICK h \in lv, i \in Nat :
        /\ i \in 1..Len(ls[h]) /\ f = ls[h][i]
        /\ m.prev[f] = At(ls, h, i - 1)
        /\ m.prev[f] \in Links /\ m.next[f] \in Links
        /\ m.prev[f] \in (lv \cup on) \ {f}
  BY <1>1, Reached
<1>3. h \in Heads /\ ls[h] \in Seq(Nodes) /\ Len(ls[h]) \in Nat
  BY <1>1, <1>2, Elements
<1> DEFINE o == Out(ls[h], i, i)
           us == [ls EXCEPT ![h] = o]
           re == [n \in Nodes |-> IF n = e THEN f ELSE n]
           vs == [g \in Heads |-> [k \in DOMAIN us[g] |-> IF us[g][k] = e THEN f ELSE us[g][k]]]
           two == ((on \ {f}) \ {e}) \cup {f}
           p == m.prev[f]
           pos == IF p = e THEN f ELSE p
           m1 == list_del(m, f)
           m2 == list_replace(m1, e, f)
           t == <<e>>
           w == Put(vs[h], i, t)
\* The three calls.
<1>4. D!Removed(ls, f) = us
  <2>1. h \in Heads /\ i \in 1..Len(ls[h]) /\ Holds(m, lv, on, ls)
    BY <1>1, <1>2, <1>3
  <2>2. D!Removed(ls, ls[h][i]) = [ls EXCEPT ![h] = Out(ls[h], i, i)]
    BY <2>1, RemovedIs
  <2> QED
    BY <1>2, <2>2
<1>5. Good(m1, lv, on \ {f}, us)
  <2>1. m1 \in Memory /\ Agree(Unlink(m, f), m1, Links \ {f})
    BY <1>1, <1>2, DelStores
  <2> HIDE DEF m1, us
  <2>2. Good(m1, lv, on \ {f}, D!Removed(ls, f))
    BY <1>1, <2>1, Dels
  <2> QED
    BY <1>4, <2>2
<1>6. Good(m2, lv, two, vs)
  <2> HIDE DEF m1, us
  <2>1. e \in on \ {f} /\ f \in Nodes \ (on \ {f})
    BY <1>1
  <2>2. Good(m2, lv, ((on \ {f}) \ {e}) \cup {f}, D!Replaced(us, e, f))
    BY <1>5, <2>1, NodeReplaced
  <2>3. D!Replaced(us, e, f) = vs
    BY <1>1, ListHeadAssumption DEF D!Replaced, D!Renamed
  <2>4. two = ((on \ {f}) \ {e}) \cup {f}
    OBVIOUS
  <2> HIDE DEF vs, two, m2
  <2> QED
    BY <2>2, <2>3, <2>4
<1>7. pos \in lv \cup two /\ e \in Nodes \ two /\ two \cup {e} = on /\ two \subseteq Nodes
  <2>1. e \in Nodes \ two /\ two \cup {e} = on /\ two \subseteq Nodes /\ f \in two
    BY <1>1
  <2>2. p \in lv \cup on
    BY <1>2
  <2> HIDE DEF p, two
  <2> QED
    BY <2>1, <2>2
<1>8. Good(list_swap(m, e, f), lv, on, D!After(vs, pos, t))
  <2>1. list_swap(m, e, f) = list_add(m2, e, pos)
    BY DEF list_swap
  <2> HIDE DEF m2, vs, pos, two
  <2>2. Good(list_add(m2, e, pos), lv, two \cup {e}, D!After(vs, pos, t))
    BY <1>6, <1>7, Adds
  <2> QED
    BY <1>7, <2>1, <2>2
\* What they have done.
<1>9. /\ o \in Seq(Nodes) /\ Len(o) = Len(ls[h]) - 1 /\ i \in 1..Len(o) + 1
      /\ With(o, i, <<f>>, ls[h])
  <2>1. i \in i..Len(ls[h]) /\ i - i + 1 = 1
    BY <1>2, <1>3
  <2>2. /\ Out(ls[h], i, i) \in Seq(Nodes) /\ Len(Out(ls[h], i, i)) = Len(ls[h]) - (i - i + 1)
        /\ i \in 1..Len(Out(ls[h], i, i)) + 1
        /\ With(Out(ls[h], i, i), i, SubSeq(ls[h], i, i), ls[h])
    BY <1>2, <1>3, <2>1, OutIs
  <2>3. SubSeq(ls[h], i, i) = <<f>>
    BY <1>2, <1>3, OneOut
  <2> QED
    BY <2>1, <2>2, <2>3
<1>10. /\ us[h] = o /\ \A g \in Heads : g # h => us[g] = ls[g]
       /\ DOMAIN us = Heads
  <2> HIDE DEF o
  <2> QED
    BY <1>1, <1>3
<1> HIDE DEF o, us
<1>11. /\ vs[h] \in Seq(Nodes) /\ Len(vs[h]) = Len(o)
       /\ \A k \in 1..Len(o) : vs[h][k] = IF o[k] = e THEN f ELSE o[k]
  <2>1. vs[h] \in Seq(Nodes)
    BY <1>3, <1>6 DEF Good, Holds
  <2>2. DOMAIN o = 1..Len(o) /\ Len(o) \in Nat
    BY <1>9, LenProperties
  <2>3. DOMAIN vs[h] = 1..Len(o) /\ \A k \in 1..Len(o) : vs[h][k] = IF o[k] = e THEN f ELSE o[k]
    BY <1>3, <1>10, <2>2
  <2>4. DOMAIN vs[h] = 1..Len(vs[h]) /\ Len(vs[h]) \in Nat
    BY <2>1, LenProperties
  <2> HIDE DEF vs
  <2> QED
    BY <2>1, <2>2, <2>3, <2>4
<1>12. \A g \in Heads : g # h => vs[g] = [k \in DOMAIN ls[g] |-> IF ls[g][k] = e THEN f ELSE ls[g][k]]
  BY <1>10
<1>13. pos = At(vs, h, i - 1)
  <2>1. CASE i = 1
    <3>1. p = h /\ h # e
      <4>1. At(ls, h, 0) = h
        BY <1>1, <1>3, Ats
      <4> QED
        BY <1>1, <1>2, <1>3, <2>1, <4>1, ListHeadAssumption
    <3> QED
      BY <2>1, <3>1 DEF At
  <2>2. CASE i # 1
    <3>1. i - 1 \in 1..Len(ls[h]) /\ i - 1 \in 1..Len(o) /\ i - 1 < i
      BY <1>2, <1>3, <1>9, <2>2
    <3>2. p = ls[h][i - 1]
      BY <1>2, <3>1 DEF At
    <3>3. ls[h][i - 1] = o[i - 1]
      <4>1. \A k \in 1..Len(o) + Len(<<f>>) : k < i => ls[h][k] = o[k]
        BY <1>9 DEF With
      <4>2. i - 1 \in 1..Len(o) + Len(<<f>>)
        BY <1>9, <3>1
      <4> QED
        BY <3>1, <4>1, <4>2
    <3>4. vs[h][i - 1] = pos
      <4> HIDE DEF vs
      <4> QED
        BY <1>11, <3>1, <3>2, <3>3
    <3> HIDE DEF vs, pos
    <3> QED
      BY <1>11, <3>1, <3>4 DEF At
  <2> QED
    BY <2>1, <2>2
<1> HIDE DEF vs, pos, p
<1>14. t \in Seq(Nodes) /\ Len(t) = 1 /\ t[1] = e
  BY <1>1
<1>15. D!After(vs, pos, t) = [vs EXCEPT ![h] = w]
  <2>1. Holds(m2, lv, two, vs)
    BY <1>6 DEF Good
  <2>2. i - 1 \in 0..Len(vs[h]) /\ (i - 1) + 1 = i
    BY <1>2, <1>3, <1>9, <1>11
  <2> HIDE DEF m2, two, t
  <2>3. D!After(vs, At(vs, h, i - 1), t) = [vs EXCEPT ![h] = Put(vs[h], (i - 1) + 1, t)]
    BY <1>3, <1>14, <2>1, <2>2, AfterIs
  <2> QED
    BY <1>13, <2>2, <2>3
<1>16. With(vs[h], i, t, w)
  <2>1. i \in 1..Len(vs[h]) + 1
    BY <1>9, <1>11
  <2> HIDE DEF t
  <2> QED
    BY <1>11, <1>14, <2>1, PutIs
<1>17. w \in Seq(Nodes) /\ Len(w) = Len(ls[h])
  <2> HIDE DEF w, t
  <2> QED
    BY <1>3, <1>9, <1>11, <1>14, <1>16 DEF With
<1>18. \A k \in 1..Len(ls[h]) : w[k] = IF ls[h][k] = e THEN f ELSE IF ls[h][k] = f THEN e ELSE ls[h][k]
  <2> TAKE k \in 1..Len(ls[h])
  <2> HIDE DEF w, t
  <2>0. k \in Nat /\ i \in Nat /\ k >= 1 /\ Len(o) \in Nat /\ k \in 1..Len(o) + 1
    BY <1>2, <1>3, <1>9
  <2>1. ls[h][k] = IF k < i THEN o[k] ELSE IF k < i + 1 THEN <<f>>[k - i + 1] ELSE o[k - 1]
    <3>1. \A l \in 1..Len(o) + Len(<<f>>) :
            ls[h][l] = IF l < i THEN o[l] ELSE IF l < i + Len(<<f>>) THEN <<f>>[l - i + 1] ELSE o[l - Len(<<f>>)]
      BY <1>9 DEF With
    <3>2. Len(<<f>>) = 1
      OBVIOUS
    <3> QED
      BY <2>0, <3>1, <3>2
  <2>2. w[k] = IF k < i THEN vs[h][k] ELSE IF k < i + 1 THEN t[k - i + 1] ELSE vs[h][k - 1]
    <3>1. \A l \in 1..Len(vs[h]) + Len(t) :
            w[l] = IF l < i THEN vs[h][l] ELSE IF l < i + Len(t) THEN t[l - i + 1] ELSE vs[h][l - Len(t)]
      BY <1>16 DEF With
    <3> QED
      BY <1>11, <1>14, <2>0, <3>1
  <2>3. k # i => ls[h][k] # f
    <3>1. \A a, b \in 1..Len(ls[h]) : ls[h][a] = ls[h][b] => a = b
      BY <1>1, <1>3 DEF Holds
    <3> QED
      BY <1>2, <3>1
  <2>4. CASE k < i
    <3>1. k \in 1..Len(o)
      BY <1>9, <2>0, <2>4
    <3>2. vs[h][k] = IF o[k] = e THEN f ELSE o[k]
      BY <1>11, <3>1
    <3> QED
      BY <2>0, <2>1, <2>2, <2>3, <2>4, <3>2
  <2>5. CASE k = i
    <3>1. w[k] = t[k - i + 1] /\ k - i + 1 = 1
      BY <2>0, <2>2, <2>5
    <3> QED
      BY <1>2, <1>14, <2>5, <3>1
  <2>6. CASE k > i
    <3>1. k - 1 \in 1..Len(o)
      BY <1>9, <2>0, <2>6
    <3>2. vs[h][k - 1] = IF o[k - 1] = e THEN f ELSE o[k - 1]
      BY <1>11, <3>1
    <3>3. ~(k < i) /\ ~(k < i + 1) /\ k # i
      BY <2>0, <2>6
    <3> QED
      BY <2>1, <2>2, <2>3, <3>2, <3>3
  <2> QED
    BY <2>0, <2>4, <2>5, <2>6
<1> DEFINE xs == [vs EXCEPT ![h] = w]
           ys == Swapped(ls, e, f)
<1>19. DOMAIN vs = Heads /\ \A g \in Heads : DOMAIN ls[g] = 1..Len(ls[g])
  <2>1. \A g \in Heads : ls[g] \in Seq(Nodes)
    BY <1>1
  <2> QED
    BY <2>1, LenProperties DEF vs
<1>20. xs[h] = ys[h]
  <2>1. xs[h] = w
    BY <1>3, <1>19
  <2>2. DOMAIN w = 1..Len(ls[h]) /\ w \in [1..Len(ls[h]) -> Nodes]
    <3> HIDE DEF w
    <3> QED
      BY <1>17, LenProperties
  <2>3. ys[h] = [k \in 1..Len(ls[h]) |-> IF ls[h][k] = e THEN f ELSE IF ls[h][k] = f THEN e ELSE ls[h][k]]
    BY <1>3, <1>19 DEF Swapped
  <2> HIDE DEF w, xs, ys
  <2> QED
    BY <1>18, <2>1, <2>2, <2>3
<1>21. ASSUME NEW g \in Heads, g # h PROVE xs[g] = ys[g]
  <2>1. xs[g] = vs[g]
    BY <1>19, <1>21
  <2>2. \A k \in DOMAIN ls[g] : ls[g][k] # f
    BY <1>1, <1>2, <1>3, <1>19, <1>21 DEF Holds
  <2>3. ys[g] = [k \in DOMAIN ls[g] |-> IF ls[g][k] = e THEN f ELSE IF ls[g][k] = f THEN e ELSE ls[g][k]]
    BY DEF Swapped
  <2>4. vs[g] = [k \in DOMAIN ls[g] |-> IF ls[g][k] = e THEN f ELSE ls[g][k]]
    BY <1>12, <1>21
  <2> HIDE DEF xs, ys
  <2> QED
    BY <2>1, <2>2, <2>3, <2>4
<1>22. xs = ys
  <2>1. xs = [g \in Heads |-> xs[g]] /\ ys = [g \in Heads |-> ys[g]]
    BY <1>19 DEF Swapped
  <2> HIDE DEF xs, ys
  <2> QED
    BY <1>20, <1>21, <2>1
<1> QED
  BY <1>8, <1>15, <1>22

-----------------------------------------------------------------------------
(* What is walked is what the memory holds *)

\* A loop's pointers, each from the one before.
LEMMA CursorIs ==
  ASSUME NEW link \in Pointers, NEW h \in Links
  PROVE  /\ Cardinality(Nodes) \in Nat
         /\ DOMAIN Cursor(link, h) = 0..Cardinality(Nodes)
         /\ Cursor(link, h)[0] = link[h]
         /\ \A k \in 1..Cardinality(Nodes) :
              Cursor(link, h)[k] = IF Cursor(link, h)[k - 1] \in Nodes THEN link[Cursor(link, h)[k - 1]]
                                   ELSE Cursor(link, h)[k - 1]
<1> DEFINE N == Cardinality(Nodes)
           V == Links \cup {NULL, Poison, Wild}
           After(pos) == IF pos \in Nodes THEN link[pos] ELSE pos
           G == [p \in Nat \X V |-> After(p[2])]
           cell[k \in 0..N] ==
             IF k = 0 THEN link[h]
             ELSE LET pos == cell[k - 1] IN IF pos \in Nodes THEN link[pos] ELSE pos
<1>0. N \in Nat
  BY ListHeadAssumption, FS_CardinalityType
<1>1. Cursor(link, h) = cell
  BY DEF Cursor
<1> HIDE DEF N
<1>2. link[h] \in V /\ \A x \in V : After(x) \in V
  BY DEF Pointers, Links
<1> HIDE DEF V
<1>3. \A k \in 1..N, x \in V : G[<<k, x>>] = After(x)
  OBVIOUS
<1> HIDE DEF G
<1>4. PICK f \in [0..N -> V] :
        f[0] = link[h] /\ \A k \in 1..N : f[k] = G[<<k, f[k - 1]>>]
  <2>1. 0 \in Nat /\ 0 <= N /\ \A k \in 0 + 1..N, x \in V : G[<<k, x>>] \in V
    BY <1>0, <1>2, <1>3
  <2>2. Recursive(V, link[h], 0, N, G)
    BY <1>0, <1>2, <2>1, Recursion
  <2>3. 0 + 1 = 1
    OBVIOUS
  <2> QED
    BY <2>2, <2>3, Zenon DEF Recursive
<1>5. \A k \in 1..N : k - 1 \in 0..N /\ k \in 0..N /\ k # 0
  BY <1>0
<1>6. \A k \in 1..N : f[k] = After(f[k - 1])
  BY <1>3, <1>4, <1>5
<1>7. f = [k \in 0..N |-> IF k = 0 THEN link[h]
             ELSE LET pos == f[k - 1] IN IF pos \in Nodes THEN link[pos] ELSE pos]
  <2> DEFINE g == [k \in 0..N |-> IF k = 0 THEN link[h]
             ELSE LET pos == f[k - 1] IN IF pos \in Nodes THEN link[pos] ELSE pos]
  <2>1. ASSUME NEW k \in 0..N PROVE f[k] = g[k]
    <3>1. k = 0 \/ k \in 1..N
      BY <1>0
    <3> QED
      BY <1>4, <1>6, <3>1
  <2>2. f = g
    BY <1>4, <2>1
  <2> QED
    BY <2>2
<1>8. cell = [k \in 0..N |-> IF k = 0 THEN link[h]
             ELSE LET pos == cell[k - 1] IN IF pos \in Nodes THEN link[pos] ELSE pos]
  BY <1>7
<1> HIDE DEF cell
<1>9. cell[0] = link[h] /\ \A k \in 1..N : cell[k] = After(cell[k - 1])
  BY <1>0, <1>5, <1>8
<1>10. DOMAIN cell = 0..N
  BY <1>8
<1> QED
  BY <1>0, <1>1, <1>9, <1>10 DEF N

\* A loop without a body goes through the sequence, and ends.
LEMMA WalkIs ==
  ASSUME NEW m, NEW lv, NEW on, NEW ls, Good(m, lv, on, ls), NEW h \in lv
  PROVE  Entries(m.next, h) = ls[h]
<1> DEFINE N == Cardinality(Nodes)
           s == ls[h]
           L == Len(s)
           cell == Cursor(m.next, h)
           e == [k \in Nat |-> At(ls, h, k)]
<1>0. /\ Holds(m, lv, on, ls) /\ lv \subseteq Heads /\ h \in Heads /\ h \in Links /\ h \notin Nodes
      /\ m.next \in Pointers
  BY ListHeadAssumption DEF Good, Memory, Links
<1>1. /\ N \in Nat /\ DOMAIN cell = 0..N /\ cell[0] = m.next[h]
      /\ \A k \in 1..N : cell[k] = IF cell[k - 1] \in Nodes THEN m.next[cell[k - 1]] ELSE cell[k - 1]
  BY <1>0, CursorIs
<1>2. /\ s \in Seq(Nodes) /\ L \in Nat /\ s = [k \in 1..L |-> s[k]]
      /\ \A i \in 1..L : s[i] \in Nodes
  <2>1. ls[h] \in Seq(Nodes) /\ Len(ls[h]) \in Nat /\ \A i \in 1..Len(ls[h]) : ls[h][i] \in Nodes
    BY <1>0, Elements
  <2>2. ls[h] \in [1..Len(ls[h]) -> Nodes]
    BY <2>1, LenProperties
  <2> QED
    BY <2>1, <2>2
<1>3. /\ \A i \in 1..L : e[i] = s[i]
      /\ \A i \in Nat : i > L => e[i] = h
      /\ e[0] = h
  BY <1>2 DEF At
<1>4. m.next[h] = e[1] /\ \A i \in 1..L : m.next[s[i]] = e[i + 1]
  <2>1. \A i \in 0..L : m.next[At(ls, h, i)] = At(ls, h, i + 1)
    BY <1>0, Neighbours
  <2>2. \A i \in 1..L : i \in 0..L /\ i \in Nat /\ i + 1 \in Nat
    BY <1>2
  <2>3. 0 \in 0..L /\ At(ls, h, 0) = h /\ 0 + 1 = 1 /\ 1 \in Nat
    BY <1>0, <1>2, Ats
  <2>4. \A i \in Nat : e[i] = At(ls, h, i)
    OBVIOUS
  <2>5. \A i \in 1..L : At(ls, h, i) = s[i]
    BY <1>3, <2>2, <2>4
  <2> HIDE DEF e, s, L
  <2> QED
    BY <2>1, <2>2, <2>3, <2>4, <2>5
<1>5. \A i, j \in 1..L : s[i] = s[j] => i = j
  BY <1>0 DEF Holds
<1> HIDE DEF cell, s, N, e
<1>6. L <= N
  <2> SUFFICES ASSUME N < L PROVE FALSE
    BY <1>1, <1>2
  <2>1. IsFiniteSet(1..L) /\ Cardinality(1..L) = L
    <3>1. 1 \in Int /\ L \in Int
      BY <1>2
    <3>2. IsFiniteSet(1..L) /\ Cardinality(1..L) = IF 1 > L THEN 0 ELSE L - 1 + 1
      BY <3>1, FS_Interval
    <3> QED
      BY <1>2, <3>2
  <2>2. IsFiniteSet(Nodes) /\ Cardinality(Nodes) < Cardinality(1..L)
    BY <2>1, ListHeadAssumption DEF N
  <2>3. s \in [1..L -> Nodes]
    BY <1>2
  <2> DEFINE I == 1..L
  <2>4. IsFiniteSet(I) /\ Cardinality(Nodes) < Cardinality(I) /\ s \in [I -> Nodes] /\ \A i, j \in I : s[i] = s[j] => i = j
    BY <1>5, <2>1, <2>2, <2>3
  <2> HIDE DEF I
  <2>5. \E x, y \in I : x # y /\ s[x] = s[y]
    BY <2>2, <2>4, FS_PigeonHole
  <2> QED
    BY <2>4, <2>5
<1> HIDE DEF L
<1>7. \A k \in 0..N : cell[k] = e[k + 1]
  <2> DEFINE T == {k \in 0..N : cell[k] = e[k + 1]}
  <2>1. 0 \in T
    BY <1>1, <1>4
  <2>2. ASSUME NEW k \in 0 + 1..N, k - 1 \in T PROVE k \in T
    <3>1. k \in 1..N /\ k \in 0..N /\ (k - 1) + 1 = k /\ k \in Nat /\ k + 1 \in Nat
      BY <1>1
    <3>2. cell[k - 1] = e[k]
      BY <2>2, <3>1
    <3>3. CASE k <= L
      <4>1. k \in 1..L
        BY <1>2, <3>1, <3>3
      <4>2. cell[k - 1] = s[k] /\ s[k] \in Nodes /\ m.next[s[k]] = e[k + 1]
        BY <1>2, <1>3, <1>4, <3>2, <4>1
      <4> QED
        BY <1>1, <3>1, <4>2
    <3>4. CASE ~(k <= L)
      <4>1. k > L /\ k + 1 > L
        BY <1>2, <3>1, <3>4
      <4>2. cell[k - 1] = h /\ e[k + 1] = h
        BY <1>3, <3>1, <3>2, <4>1
      <4> QED
        BY <1>0, <1>1, <3>1, <4>2
    <3> QED
      BY <3>3, <3>4
  <2> HIDE DEF T
  <2>3. \A k \in 0..N : k \in T
    BY <1>1, <2>1, <2>2, Upward
  <2> QED
    BY <2>3 DEF T
<1>8. {j \in 0..N : cell[j] \in Nodes} = 0..L - 1
  <2>1. \A j \in 0..L - 1 : j \in 0..N /\ j + 1 \in 1..L
    BY <1>1, <1>2, <1>6
  <2>2. \A j \in 0..N : j \notin 0..L - 1 => j + 1 \in Nat /\ j + 1 > L
    BY <1>1, <1>2
  <2>3. \A j \in 0..L - 1 : cell[j] \in Nodes
    BY <1>2, <1>3, <1>7, <2>1
  <2>4. \A j \in 0..N : j \notin 0..L - 1 => cell[j] = h
    BY <1>3, <1>7, <2>2
  <2> QED
    BY <1>0, <2>1, <2>3, <2>4
<1>9. Cardinality(0..L - 1) = L
  <2>1. 0 \in Int /\ L - 1 \in Int
    BY <1>2
  <2>2. Cardinality(0..L - 1) = IF 0 > L - 1 THEN 0 ELSE (L - 1) - 0 + 1
    BY <2>1, FS_Interval
  <2> QED
    BY <1>2, <2>2
<1>10. Entries(m.next, h) = [k \in 1..L |-> cell[k - 1]]
  BY <1>1, <1>8, <1>9 DEF Entries, cell
<1>11. \A k \in 1..L : k - 1 \in 0..N /\ (k - 1) + 1 = k
  BY <1>1, <1>2, <1>6
<1>12. \A k \in 1..L : cell[k - 1] = s[k]
  BY <1>3, <1>7, <1>11
<1> QED
  BY <1>2, <1>10, <1>12 DEF s

-----------------------------------------------------------------------------
(* Steps *)

\* Call a answers nothing, and leaves of the lists ls the lists to.
Does(a, ls, to) == D!Effect(a, ls) = to /\ D!Answered(a, ls)

\* What each call leaves.
LEMMA InitDoes ==
  ASSUME NEW ls, NEW x
  PROVE  Does(<<"init", x>>, ls, ls) /\ Does(<<"for_each">>, ls, ls)
BY DEF Does, D!Effect, D!Answered

LEMMA AddDoes ==
  ASSUME NEW ls, NEW x, NEW y
  PROVE  Does(<<"add", x, y>>, ls, D!After(ls, y, <<x>>))
BY DEF Does, D!Effect, D!Answered

LEMMA AddTailDoes ==
  ASSUME NEW ls, NEW x, NEW y
  PROVE  Does(<<"add_tail", x, y>>, ls, D!Before(ls, y, <<x>>))
BY DEF Does, D!Effect, D!Answered

LEMMA DelDoes ==
  ASSUME NEW ls, NEW x, NEW y
  PROVE  Does(<<"del", x>>, ls, D!Removed(ls, x)) /\ Does(<<"del", x, y>>, ls, D!Removed(ls, x))
BY DEF Does, D!Effect, D!Answered

LEMMA ReplaceDoes ==
  ASSUME NEW ls, NEW x, NEW y
  PROVE  Does(<<"replace", x, y>>, ls, D!Replaced(ls, x, y))
BY DEF Does, D!Effect, D!Answered

LEMMA SwapDoes ==
  ASSUME NEW ls, NEW x, NEW y
  PROVE  Does(<<"swap", x, y>>, ls, Swapped(ls, x, y))
BY DEF Does, D!Effect, D!Answered, D!Renamed, Swapped

LEMMA MoveDoes ==
  ASSUME NEW ls, NEW x, NEW y
  PROVE  Does(<<"move", x, y>>, ls, D!After(D!Removed(ls, x), y, <<x>>))
BY DEF Does, D!Effect, D!Answered

LEMMA MoveTailDoes ==
  ASSUME NEW ls, NEW x, NEW y
  PROVE  Does(<<"move_tail", x, y>>, ls, D!Before(D!Removed(ls, x), y, <<x>>))
BY DEF Does, D!Effect, D!Answered

LEMMA BulkMoveTailDoes ==
  ASSUME NEW ls, NEW x, NEW y, NEW z
  PROVE  Does(<<"bulk_move_tail", x, y, z>>, ls, D!Before(D!Without(ls, y, z), x, D!Section(ls, y, z)))
BY DEF Does, D!Effect, D!Answered

LEMMA RotateLeftDoes ==
  ASSUME NEW ls, NEW x
  PROVE  Does(<<"rotate_left", x>>, ls,
              [ls EXCEPT ![x] = IF @ = <<>> THEN @ ELSE Append(Tail(@), Head(@))])
BY DEF Does, D!Effect, D!Answered

LEMMA RotateToFrontDoes ==
  ASSUME NEW ls, NEW x, NEW y
  PROVE  Does(<<"rotate_to_front", x, y>>, ls,
              [ls EXCEPT ![y] = SubSeq(@, D!Index(ls[y], x), Len(@))
                                  \o SubSeq(@, 1, D!Index(ls[y], x) - 1)])
BY DEF Does, D!Effect, D!Answered

LEMMA CutPositionDoes ==
  ASSUME NEW ls, NEW x, NEW y, NEW z
  PROVE  Does(<<"cut_position", x, y, z>>, ls,
              D!Cut(ls, x, y, IF z = y THEN 0 ELSE D!Index(ls[y], z)))
BY DEF Does, D!Effect, D!Answered

LEMMA CutBeforeDoes ==
  ASSUME NEW ls, NEW x, NEW y, NEW z
  PROVE  Does(<<"cut_before", x, y, z>>, ls,
              D!Cut(ls, x, y, IF z = y THEN Len(ls[y]) ELSE D!Index(ls[y], z) - 1))
BY DEF Does, D!Effect, D!Answered

LEMMA SpliceDoes ==
  ASSUME NEW ls, NEW x, NEW y
  PROVE  Does(<<"splice", x, y>>, ls, D!After([ls EXCEPT ![x] = <<>>], y, ls[x]))
BY DEF Does, D!Effect, D!Answered

LEMMA SpliceTailDoes ==
  ASSUME NEW ls, NEW x, NEW y
  PROVE  Does(<<"splice_tail", x, y>>, ls, D!Before([ls EXCEPT ![x] = <<>>], y, ls[x]))
BY DEF Does, D!Effect, D!Answered

\* What callers know of the lists is so.
LEMMA Known ==
  ASSUME NEW ls, Good(mem, live, listed, ls)
  PROVE  /\ live \subseteq Heads /\ listed \subseteq Nodes /\ Places \subseteq Links
         /\ \A h \in live : Entries(mem.next, h) = ls[h] /\ Of(h) = Set(ls[h])
         /\ \A h \in live : list_empty(mem, h) <=> ls[h] = <<>>
         /\ \A h \in Heads : Unused(h) => ls[h] = <<>>
<1>1. live \subseteq Heads /\ listed \subseteq Nodes /\ Places \subseteq Links /\ Holds(mem, live, listed, ls)
  BY Used DEF Good, Places
<1>2. ASSUME NEW h \in live PROVE Entries(mem.next, h) = ls[h] /\ Of(h) = Set(ls[h])
  <2>1. Entries(mem.next, h) = ls[h]
    BY <1>2, WalkIs
  <2>2. ls[h] \in Seq(Nodes)
    BY <1>1, <1>2, Elements
  <2>3. DOMAIN ls[h] = 1..Len(ls[h])
    BY <2>2, LenProperties
  <2> QED
    BY <2>1, <2>3 DEF Of, Set, Range
<1>3. \A h \in live : list_empty(mem, h) <=> ls[h] = <<>>
  BY <1>1, Neighbours DEF list_empty
<1>4. \A h \in Heads : Unused(h) => ls[h] = <<>>
  BY <1>1, <1>3 DEF Unused, Holds
<1> QED
  BY <1>1, <1>2, <1>3, <1>4

\* The memory holds what the abstract call leaves of the lists ls.
Moved(ls) == Good(mem', live', listed', D!Effect(last', ls)) /\ D!Answered(last', ls)

\* Such a call, when the memory then holds what it leaves.
LEMMA MovedBy ==
  ASSUME NEW ls, NEW to, Does(last', ls, to), Good(mem', live', listed', to)
  PROVE  Moved(ls)
BY DEF Moved, Does

LEMMA InitialiseSteps ==
  ASSUME NEW ls, Good(mem, live, listed, ls), NEW l \in Links, Initialise(l)
  PROVE  Moved(ls)
<1>1. /\ (l \in Heads /\ Unused(l)) \/ l \in Nodes \ listed
      /\ mem' = INIT_LIST_HEAD(mem, l) /\ live' = live \cup ({l} \cap Heads)
      /\ last' = <<"init", l>> /\ listed' = listed
  BY DEF Initialise, Stored
<1>2. Does(<<"init", l>>, ls, ls)
  BY InitDoes
<1>3. CASE l \in Heads /\ Unused(l)
  <2>1. ls[l] = <<>>
    BY <1>3, Known
  <2>2. Good(INIT_LIST_HEAD(mem, l), live \cup {l}, listed, ls)
    BY <1>3, <2>1, HeadInit
  <2>3. live' = live \cup {l}
    BY <1>1, <1>3
  <2> QED
    BY <1>1, <1>2, <2>2, <2>3, MovedBy
<1>4. CASE l \in Nodes \ listed
  <2>1. Good(INIT_LIST_HEAD(mem, l), live, listed, ls)
    BY <1>4, NodeInit
  <2>2. live' = live
    BY <1>1, <1>4, ListHeadAssumption
  <2> QED
    BY <1>1, <1>2, <2>1, <2>2, MovedBy
<1> QED
  BY <1>1, <1>3, <1>4

LEMMA AddSteps ==
  ASSUME NEW ls, Good(mem, live, listed, ls), NEW n \in Nodes, NEW at \in Links, Add(n, at)
  PROVE  Moved(ls)
<1>1. /\ n \in Nodes \ listed /\ at \in live \cup listed
      /\ listed' = listed \cup {n} /\ live' = live
  BY DEF Add, Places
<1>2. /\ Good(list_add(mem, n, at), live, listed \cup {n}, D!After(ls, at, <<n>>))
      /\ Good(list_add_tail(mem, n, at), live, listed \cup {n}, D!Before(ls, at, <<n>>))
  BY <1>1, Adds
<1>3. CASE mem' = list_add(mem, n, at) /\ last' = <<"add", n, at>>
  <2>1. Does(<<"add", n, at>>, ls, D!After(ls, at, <<n>>))
    BY AddDoes
  <2> QED
    BY <1>1, <1>2, <1>3, <2>1, MovedBy
<1>4. CASE mem' = list_add_tail(mem, n, at) /\ last' = <<"add_tail", n, at>>
  <2>1. Does(<<"add_tail", n, at>>, ls, D!Before(ls, at, <<n>>))
    BY AddTailDoes
  <2> QED
    BY <1>1, <1>2, <1>4, <2>1, MovedBy
<1> QED
  BY <1>3, <1>4 DEF Add, Stored

LEMMA DelSteps ==
  ASSUME NEW ls, Good(mem, live, listed, ls), NEW n \in Nodes, NEW how,
         Del(n) \/ DelInit(n, how)
  PROVE  Moved(ls)
<1>1. /\ n \in listed \/ (mem.next[n] = n /\ mem.prev[n] = n)
      /\ mem' \in {list_del(mem, n), list_del_init(mem, n), list_del_clearprev(mem, n)}
      /\ listed' = listed \ {n} /\ live' = live
      /\ last' = <<"del", n>> \/ last' = <<"del", n, how>>
  BY DEF Del, DelInit, Stored, Removable, Alone
<1>2. Does(<<"del", n>>, ls, D!Removed(ls, n)) /\ Does(<<"del", n, how>>, ls, D!Removed(ls, n))
  BY DelDoes
<1>3. mem \in Memory /\ mem.prev[n] \in Links /\ mem.next[n] \in Links
  <2>1. mem \in Memory /\ live \cup listed \subseteq Links
        /\ \A l \in live \cup listed : mem.next[l] \in live \cup listed /\ mem.prev[l] \in live \cup listed
    BY Used
  <2> QED
    BY <1>1, <2>1 DEF Links
<1>4. mem' \in Memory /\ Agree(Unlink(mem, n), mem', Links \ {n})
  BY <1>1, <1>3, DelStores
<1>5. Good(mem', live, listed \ {n}, D!Removed(ls, n))
  BY <1>1, <1>4, Dels
<1> QED
  BY <1>1, <1>2, <1>5, MovedBy

LEMMA ReplaceSteps ==
  ASSUME NEW ls, Good(mem, live, listed, ls), NEW old \in Links, NEW new \in Links, Replace(old, new)
  PROVE  Moved(ls)
<1>1. /\ \/ Removable(old) /\ new \in Nodes \ listed
         \/ old \in live /\ new \in Heads /\ Unused(new)
      /\ old # new
      /\ \/ /\ mem' = list_replace(mem, old, new)
            /\ live' = IF old \in Heads THEN (live \ {old}) \cup {new} ELSE live
         \/ /\ mem' = list_replace_init(mem, old, new)
            /\ live' = IF old \in Heads THEN live \cup {new} ELSE live
      /\ listed' = IF old \in listed THEN (listed \ {old}) \cup {new} ELSE listed
      /\ last' = <<"replace", old, new>>
  BY DEF Replace, Stored
<1>2. Does(<<"replace", old, new>>, ls, D!Replaced(ls, old, new))
  BY ReplaceDoes
<1>3. live \subseteq Heads /\ listed \subseteq Nodes
  BY Known
<1>4. CASE Removable(old) /\ new \in Nodes \ listed
  <2>1. old \in Nodes /\ old \notin Heads /\ live' = live
        /\ (old \in listed \/ (mem.next[old] = old /\ mem.prev[old] = old))
    BY <1>1, <1>4, ListHeadAssumption DEF Removable, Alone
  <2>2. Good(list_replace(mem, old, new), live, listed', D!Replaced(ls, old, new))
    <3>1. CASE old \in listed
      <4>1. Good(list_replace(mem, old, new), live, (listed \ {old}) \cup {new}, D!Replaced(ls, old, new))
        BY <1>4, <3>1, NodeReplaced
      <4> QED
        BY <1>1, <3>1, <4>1
    <3>2. CASE old \notin listed
      <4>1. old \in Nodes \ listed /\ mem.next[old] = old /\ mem.prev[old] = old /\ new \in Nodes \ listed /\ old # new
        BY <1>1, <1>4, <2>1, <3>2
      <4>2. Good(list_replace(mem, old, new), live, listed, D!Replaced(ls, old, new))
        BY <4>1, LonelyReplaced
      <4> QED
        BY <1>1, <3>2, <4>2
    <3> QED
      BY <3>1, <3>2
  <2>3. Good(list_replace_init(mem, old, new), live, listed', D!Replaced(ls, old, new))
    <3>1. old \in Nodes \ listed'
      BY <1>1, <2>1
    <3> QED
      BY <2>2, <3>1, NodeInit DEF list_replace_init
  <2> QED
    BY <1>1, <1>2, <2>1, <2>2, <2>3, MovedBy
<1>5. CASE old \in live /\ new \in Heads /\ Unused(new)
  <2>1. ls[new] = <<>>
    BY <1>5, Known
  <2>2. /\ Good(list_replace_init(mem, old, new), live \cup {new}, listed, D!Replaced(ls, old, new))
        /\ Good(list_replace(mem, old, new), (live \ {old}) \cup {new}, listed, D!Replaced(ls, old, new))
    BY <1>1, <1>5, <2>1, HeadReplaced
  <2>3. old \in Heads /\ listed' = listed
    BY <1>1, <1>3, <1>5, ListHeadAssumption
  <2> QED
    BY <1>1, <1>2, <2>2, <2>3, MovedBy
<1> QED
  BY <1>1, <1>4, <1>5

LEMMA SwapSteps ==
  ASSUME NEW ls, Good(mem, live, listed, ls), NEW e \in Nodes, NEW f \in Nodes, Swap(e, f)
  PROVE  Moved(ls)
<1>1. /\ e \in listed /\ f \in listed /\ e # f /\ mem' = list_swap(mem, e, f)
      /\ last' = <<"swap", e, f>> /\ live' = live /\ listed' = listed
  BY DEF Swap, Stored
<1>2. Does(<<"swap", e, f>>, ls, Swapped(ls, e, f))
  BY SwapDoes
<1>3. Good(list_swap(mem, e, f), live, listed, Swapped(ls, e, f))
  BY <1>1, Swaps
<1> QED
  BY <1>1, <1>2, <1>3, MovedBy

LEMMA MoveSteps ==
  ASSUME NEW ls, Good(mem, live, listed, ls), NEW n \in Nodes, NEW at \in Links, Move(n, at)
  PROVE  Moved(ls)
<1>1. /\ n \in listed \/ (mem.next[n] = n /\ mem.prev[n] = n)
      /\ at \in live \cup listed /\ at # n /\ listed' = listed \cup {n} /\ live' = live
  BY DEF Move, Places, Removable, Alone
<1>2. /\ Good(list_move(mem, n, at), live, listed \cup {n}, D!After(D!Removed(ls, n), at, <<n>>))
      /\ Good(list_move_tail(mem, n, at), live, listed \cup {n}, D!Before(D!Removed(ls, n), at, <<n>>))
  BY <1>1, Moves
<1>3. CASE mem' = list_move(mem, n, at) /\ last' = <<"move", n, at>>
  <2>1. Does(<<"move", n, at>>, ls, D!After(D!Removed(ls, n), at, <<n>>))
    BY MoveDoes
  <2> QED
    BY <1>1, <1>2, <1>3, <2>1, MovedBy
<1>4. CASE mem' = list_move_tail(mem, n, at) /\ last' = <<"move_tail", n, at>>
  <2>1. Does(<<"move_tail", n, at>>, ls, D!Before(D!Removed(ls, n), at, <<n>>))
    BY MoveTailDoes
  <2> QED
    BY <1>1, <1>2, <1>4, <2>1, MovedBy
<1> QED
  BY <1>3, <1>4 DEF Move, Stored

LEMMA BulkMoveTailSteps ==
  ASSUME NEW ls, Good(mem, live, listed, ls), NEW h \in Heads, NEW i \in Nat \ {0}, NEW j \in Nat \ {0},
         NEW at \in Links, BulkMoveTail(h, i, j, at)
  PROVE  Moved(ls)
<1> DEFINE first == ls[h][i]
           end   == ls[h][j]
<1>1. h \in live /\ Entries(mem.next, h) = ls[h] /\ ls[h] \in Seq(Nodes)
  BY Known, Elements DEF BulkMoveTail, Good
<1>2. i \in 1..Len(ls[h]) /\ j \in i..Len(ls[h])
  BY <1>1, LenProperties DEF BulkMoveTail
<1>3. at \in live \cup listed
  <2>1. at = h \/ at \in Range(ls[h])
    BY <1>1 DEF BulkMoveTail
  <2>2. CASE at \in Range(ls[h])
    <3>1. PICK k \in 1..Len(ls[h]) : at = ls[h][k]
      BY <1>1, <2>2, LenProperties DEF Range
    <3> QED
      BY <1>1, <3>1 DEF Good, Holds
  <2> QED
    BY <1>1, <2>1, <2>2
<1>4. at \notin Set(SubSeq(ls[h], i, j))
  <2>1. at \notin {ls[h][k] : k \in i..j}
    BY <1>1 DEF BulkMoveTail
  <2>2. Len(SubSeq(ls[h], i, j)) = j - i + 1
        /\ \A k \in 1..j - i + 1 : SubSeq(ls[h], i, j)[k] = ls[h][i + k - 1]
    BY <1>1, <1>2, OutIs
  <2>3. \A k \in 1..j - i + 1 : i + k - 1 \in i..j
    BY <1>2
  <2> QED
    BY <2>1, <2>2, <2>3 DEF Set
<1>5. Good(list_bulk_move_tail(mem, at, first, end), live, listed,
           D!Before(D!Without(ls, first, end), at, D!Section(ls, first, end)))
  BY <1>1, <1>2, <1>3, <1>4, BulkMoves
<1>6. Does(<<"bulk_move_tail", at, first, end>>, ls,
           D!Before(D!Without(ls, first, end), at, D!Section(ls, first, end)))
  BY BulkMoveTailDoes
<1>7. mem' = list_bulk_move_tail(mem, at, first, end) /\ live' = live /\ listed' = listed
      /\ last' = <<"bulk_move_tail", at, first, end>>
  BY <1>1 DEF BulkMoveTail, Stored
<1> HIDE DEF first, end
<1> QED
  BY <1>5, <1>6, <1>7, MovedBy

LEMMA RotateLeftSteps ==
  ASSUME NEW ls, Good(mem, live, listed, ls), NEW h \in Heads, RotateLeft(h)
  PROVE  Moved(ls)
<1> DEFINE to == [ls EXCEPT ![h] = IF @ = <<>> THEN @ ELSE Append(Tail(@), Head(@))]
<1>1. h \in live /\ mem' = list_rotate_left(mem, h) /\ live' = live /\ listed' = listed
      /\ last' = <<"rotate_left", h>>
  BY DEF RotateLeft, Stored
<1>2. Good(list_rotate_left(mem, h), live, listed, to)
  BY <1>1, RotatesLeft
<1>3. Does(<<"rotate_left", h>>, ls, to)
  BY RotateLeftDoes
<1> HIDE DEF to
<1> QED
  BY <1>1, <1>2, <1>3, MovedBy

\* An entry of a list is found where it is.
LEMMA Entry ==
  ASSUME NEW ls, Good(mem, live, listed, ls), NEW h \in live, NEW n \in Of(h)
  PROVE  /\ D!Index(ls[h], n) \in 1..Len(ls[h]) /\ ls[h][D!Index(ls[h], n)] = n
         /\ n \notin Heads /\ n # h /\ n \in listed
<1>1. Of(h) = Set(ls[h]) /\ h \in Heads
  BY Known
<1>2. PICK i \in 1..Len(ls[h]) : ls[h][i] = n
  BY <1>1 DEF Set
<1>3. Holds(mem, live, listed, ls)
  BY DEF Good
<1>4. D!Index(ls[h], ls[h][i]) = i /\ ls[h][i] \notin Heads
  BY <1>1, <1>3, Found
<1>5. ls[h][i] \in listed
  BY <1>1, <1>3, Elements
<1> QED
  BY <1>1, <1>2, <1>4, <1>5

LEMMA RotateToFrontSteps ==
  ASSUME NEW ls, Good(mem, live, listed, ls), NEW n \in Nodes, NEW h \in Heads, RotateToFront(n, h)
  PROVE  Moved(ls)
<1> DEFINE i  == D!Index(ls[h], n)
           to == [ls EXCEPT ![h] = SubSeq(@, i, Len(@)) \o SubSeq(@, 1, i - 1)]
<1>1. h \in live /\ n \in Of(h) /\ mem' = list_rotate_to_front(mem, n, h) /\ live' = live /\ listed' = listed
      /\ last' = <<"rotate_to_front", n, h>>
  BY DEF RotateToFront, Stored
<1>2. i \in 1..Len(ls[h]) /\ n = ls[h][i]
  BY <1>1, Entry
<1>3. Does(<<"rotate_to_front", n, h>>, ls, to)
  BY RotateToFrontDoes
<1> HIDE DEF i
<1>4. Good(list_rotate_to_front(mem, n, h), live, listed, to)
  BY <1>1, <1>2, RotatesToFront
<1> HIDE DEF to
<1> QED
  BY <1>1, <1>3, <1>4, MovedBy

LEMMA CutPositionSteps ==
  ASSUME NEW ls, Good(mem, live, listed, ls), NEW l \in Heads, NEW h \in Heads, NEW entry \in Links,
         CutPosition(l, h, entry)
  PROVE  Moved(ls)
<1> DEFINE i  == IF entry = h THEN 0 ELSE D!Index(ls[h], entry)
           to == D!Cut(ls, l, h, i)
<1>1. /\ h \in live /\ l # h /\ Unused(l) /\ entry \in {h} \cup Of(h)
      /\ mem' = list_cut_position(mem, l, h, entry) /\ listed' = listed
      /\ live' = IF list_empty(mem, h) THEN live ELSE live \cup {l}
      /\ last' = <<"cut_position", l, h, entry>>
  BY DEF CutPosition, Stored
<1>2. ls[l] = <<>> /\ (list_empty(mem, h) <=> ls[h] = <<>>)
  BY <1>1, Known
<1>3. i \in 0..Len(ls[h]) /\ entry = At(ls, h, i)
  <2>1. Len(ls[h]) \in Nat
    BY Elements DEF Good
  <2>2. CASE entry = h
    BY <2>1, <2>2 DEF At
  <2>3. CASE entry \in Of(h)
    <3>1. D!Index(ls[h], entry) \in 1..Len(ls[h]) /\ ls[h][D!Index(ls[h], entry)] = entry /\ entry # h
      BY <1>1, <2>3, Entry
    <3> QED
      BY <2>1, <3>1 DEF At
  <2> QED
    BY <1>1, <2>2, <2>3
<1>4. Does(<<"cut_position", l, h, entry>>, ls, to)
  BY CutPositionDoes
<1> HIDE DEF i
<1>5. Good(list_cut_position(mem, l, h, entry), IF ls[h] = <<>> THEN live ELSE live \cup {l}, listed, to)
  BY <1>1, <1>2, <1>3, CutsPosition
<1> HIDE DEF to
<1>6. live' = IF ls[h] = <<>> THEN live ELSE live \cup {l}
  BY <1>1, <1>2
<1> QED
  BY <1>1, <1>4, <1>5, <1>6, MovedBy

LEMMA CutBeforeSteps ==
  ASSUME NEW ls, Good(mem, live, listed, ls), NEW l \in Heads, NEW h \in Heads, NEW entry \in Links,
         CutBefore(l, h, entry)
  PROVE  Moved(ls)
<1> DEFINE i  == IF entry = h THEN Len(ls[h]) ELSE D!Index(ls[h], entry) - 1
           to == D!Cut(ls, l, h, i)
<1>1. /\ h \in live /\ l # h /\ Unused(l) /\ entry \in {h} \cup Of(h)
      /\ mem' = list_cut_before(mem, l, h, entry) /\ listed' = listed
      /\ live' = live \cup {l}
      /\ last' = <<"cut_before", l, h, entry>>
  BY DEF CutBefore, Stored
<1>2. ls[l] = <<>>
  BY <1>1, Known
<1>3. i \in 0..Len(ls[h]) /\ entry = At(ls, h, i + 1)
  <2>1. Len(ls[h]) \in Nat
    BY Elements DEF Good
  <2>2. CASE entry = h
    BY <2>1, <2>2 DEF At
  <2>3. CASE entry \in Of(h)
    <3>1. D!Index(ls[h], entry) \in 1..Len(ls[h]) /\ ls[h][D!Index(ls[h], entry)] = entry /\ entry # h
      BY <1>1, <2>3, Entry
    <3> QED
      BY <2>1, <3>1 DEF At
  <2> QED
    BY <1>1, <2>2, <2>3
<1>4. Does(<<"cut_before", l, h, entry>>, ls, to)
  BY CutBeforeDoes
<1> HIDE DEF i
<1>5. Good(list_cut_before(mem, l, h, entry), live \cup {l}, listed, to)
  BY <1>1, <1>2, <1>3, CutsBefore
<1> HIDE DEF to
<1> QED
  BY <1>1, <1>4, <1>5, MovedBy

\* Nothing to splice, nothing done.
LEMMA NothingIn ==
  ASSUME NEW m, NEW lv, NEW on, NEW ls, Good(m, lv, on, ls), NEW at \in lv \cup on
  PROVE  D!After(ls, at, <<>>) = ls /\ D!Before(ls, at, <<>>) = ls
<1>0. Holds(m, lv, on, ls) /\ lv \subseteq Heads
  BY DEF Good
<1> DEFINE none == <<>>
<1>1. none \in Seq(Nodes) /\ Len(none) = 0
  BY EmptySeq
<1> HIDE DEF none
<1>2. PICK h \in lv : \E i \in 0..Len(ls[h]) : At(ls, h, i) = at
  BY <1>0, PlaceOf
<1>3. PICK i \in 0..Len(ls[h]) : At(ls, h, i) = at
  BY <1>2
<1>4. PICK g \in lv : \E j \in 1..Len(ls[g]) + 1 : At(ls, g, j) = at
  BY <1>0, PlaceOf
<1>5. PICK j \in 1..Len(ls[g]) + 1 : At(ls, g, j) = at
  BY <1>4
<1>6. h \in Heads /\ g \in Heads /\ ls \in [Heads -> Seq(Nodes)]
  BY <1>0 DEF Holds
<1>7. ASSUME NEW s \in Seq(Nodes), NEW k \in 1..Len(s) + 1 PROVE Put(s, k, none) = s
  <2>1. With(s, k, none, Put(s, k, none))
    BY <1>1, PutIs
  <2>2. Put(s, k, none) \in Seq(Nodes) /\ Len(Put(s, k, none)) = Len(s)
        /\ \A q \in 1..Len(s) : Put(s, k, none)[q] = s[q]
    <3>1. Len(s) \in Nat /\ Len(s) + Len(none) = Len(s) /\ \A q \in 1..Len(s) : q - Len(none) = q
      BY <1>1, LenProperties
    <3>2. \A q \in 1..Len(s) : (q < k + Len(none) <=> q < k)
      BY <1>1
    <3> QED
      BY <2>1, <3>1, <3>2 DEF With
  <2> QED
    BY <2>2, SeqEqual
<1>8. D!After(ls, at, none) = [ls EXCEPT ![h] = Put(ls[h], i + 1, none)]
  <2>1. Holds(m, lv, on, ls)
    BY <1>0
  <2>2. h \in Heads /\ none \in Seq(Nodes)
    BY <1>1, <1>6
  <2>3. D!After(ls, At(ls, h, i), none) = [ls EXCEPT ![h] = Put(ls[h], i + 1, none)]
    BY <2>1, <2>2, AfterIs
  <2> QED
    BY <1>3, <2>3
<1>9. D!Before(ls, at, none) = [ls EXCEPT ![g] = Put(ls[g], j, none)]
  <2>1. Holds(m, lv, on, ls)
    BY <1>0
  <2>2. g \in Heads /\ none \in Seq(Nodes)
    BY <1>1, <1>6
  <2>3. D!Before(ls, At(ls, g, j), none) = [ls EXCEPT ![g] = Put(ls[g], j, none)]
    BY <2>1, <2>2, BeforeIs
  <2> QED
    BY <1>5, <2>3
<1>10. ls[h] \in Seq(Nodes) /\ ls[g] \in Seq(Nodes) /\ Len(ls[h]) \in Nat /\ Len(ls[g]) \in Nat
  BY <1>6, LenProperties
<1>11. i + 1 \in 1..Len(ls[h]) + 1
  BY <1>3, <1>10
<1>12. Put(ls[h], i + 1, none) = ls[h]
  BY <1>7, <1>10, <1>11
<1>13. Put(ls[g], j, none) = ls[g]
  BY <1>7, <1>5, <1>10
<1>14. [ls EXCEPT ![h] = ls[h]] = ls /\ [ls EXCEPT ![g] = ls[g]] = ls
  BY <1>6
<1> QED
  BY <1>8, <1>9, <1>12, <1>13, <1>14 DEF none

LEMMA SpliceSteps ==
  ASSUME NEW ls, Good(mem, live, listed, ls), NEW l \in Heads, NEW at \in Links,
         Splice(l, at) \/ SpliceInit(l, at)
  PROVE  Moved(ls)
<1> DEFINE us == [ls EXCEPT ![l] = <<>>]
<1>1. /\ l \in live /\ at \in live \cup listed /\ at # l /\ at \notin Of(l) /\ listed' = listed
      /\ \/ live' = live /\ mem' = list_splice_init(mem, l, at) /\ last' = <<"splice", l, at>>
         \/ live' = live /\ mem' = list_splice_tail_init(mem, l, at) /\ last' = <<"splice_tail", l, at>>
         \/ /\ live' = IF list_empty(mem, l) THEN live ELSE live \ {l}
            /\ \/ mem' = list_splice(mem, l, at) /\ last' = <<"splice", l, at>>
               \/ mem' = list_splice_tail(mem, l, at) /\ last' = <<"splice_tail", l, at>>
  BY DEF Splice, SpliceInit, Stored, Places
<1>2. (list_empty(mem, l) <=> ls[l] = <<>>) /\ Of(l) = Set(ls[l])
  BY <1>1, Known
<1>3. Does(<<"splice", l, at>>, ls, D!After(us, at, ls[l]))
  BY SpliceDoes
<1>4. Does(<<"splice_tail", l, at>>, ls, D!Before(us, at, ls[l]))
  BY SpliceTailDoes
<1>5. CASE ls[l] = <<>>
  <2>1. mem' = mem /\ live' = live /\ (last' = <<"splice", l, at>> \/ last' = <<"splice_tail", l, at>>)
    BY <1>1, <1>2, <1>5 DEF list_splice, list_splice_init, list_splice_tail, list_splice_tail_init
  <2>2. us = ls
    BY <1>5 DEF Good, Holds
  <2>3. D!After(us, at, ls[l]) = ls /\ D!Before(us, at, ls[l]) = ls
    BY <1>1, <1>5, <2>2, NothingIn
  <2>4. Does(<<"splice", l, at>>, ls, ls) /\ Does(<<"splice_tail", l, at>>, ls, ls)
    BY <1>3, <1>4, <2>3
  <2>5. Good(mem', live', listed', ls)
    BY <1>1, <2>1
  <2> QED
    BY <2>1, <2>4, <2>5, MovedBy
<1>6. CASE ls[l] # <<>>
  <2>1. /\ Good(list_splice_init(mem, l, at), live, listed, D!After(us, at, ls[l]))
        /\ Good(list_splice(mem, l, at), live \ {l}, listed, D!After(us, at, ls[l]))
        /\ Good(list_splice_tail_init(mem, l, at), live, listed, D!Before(us, at, ls[l]))
        /\ Good(list_splice_tail(mem, l, at), live \ {l}, listed, D!Before(us, at, ls[l]))
    BY <1>1, <1>2, <1>6, SplicesAll
  <2> HIDE DEF us
  <2>2. CASE last' = <<"splice", l, at>> /\ Good(mem', live', listed', D!After(us, at, ls[l]))
    BY <1>3, <2>2, MovedBy
  <2>3. CASE last' = <<"splice_tail", l, at>> /\ Good(mem', live', listed', D!Before(us, at, ls[l]))
    BY <1>4, <2>3, MovedBy
  <2> QED
    BY <1>1, <1>2, <1>6, <2>1, <2>2, <2>3
<1> QED
  BY <1>5, <1>6

-----------------------------------------------------------------------------
(* Questions, and steps that do nothing to the lists *)

LEMMA AskListSteps ==
  ASSUME NEW ls, Good(mem, live, listed, ls), NEW h \in Heads, AskList(h)
  PROVE  Moved(ls)
<1> DEFINE s   == ls[h]
           was == [empty |-> list_empty(mem, h), singular |-> list_is_singular(mem, h),
                   first |-> list_first_entry_or_null(mem, h), count |-> list_count_nodes(mem, h)]
           is  == [empty |-> s = <<>>, singular |-> Len(s) = 1,
                   first |-> IF s = <<>> THEN NULL ELSE Head(s), count |-> Len(s)]
<1>1. h \in live /\ last' = <<"ask_list", h, was>> /\ mem' = mem /\ live' = live /\ listed' = listed
  BY DEF AskList
<1>2. Holds(mem, live, listed, ls) /\ live \subseteq Heads
  BY DEF Good
<1>3. s \in Seq(Nodes) /\ Len(s) \in Nat
  BY <1>2, Elements
<1>4. list_empty(mem, h) <=> s = <<>>
  BY <1>1, Known
<1>5. s # <<>> => Len(s) >= 1 /\ mem.next[h] = s[1] /\ mem.prev[h] = s[Len(s)]
  <2>1. mem.next[h] = At(ls, h, 1) /\ mem.prev[h] = At(ls, h, Len(s))
    BY <1>1, <1>2, Neighbours
  <2>2. s # <<>> => Len(s) >= 1
    BY <1>3, EmptySeq
  <2> QED
    BY <1>3, <2>1, <2>2 DEF At
<1>6. list_is_singular(mem, h) <=> Len(s) = 1
  <2>1. CASE s = <<>>
    BY <1>4, <2>1, EmptySeq DEF list_is_singular
  <2>2. CASE s # <<>>
    <3>1. s[1] = s[Len(s)] => Len(s) = 1
      <4>1. \A i, j \in 1..Len(s) : s[i] = s[j] => i = j
        BY <1>2 DEF Holds
      <4>2. 1 \in 1..Len(s) /\ Len(s) \in 1..Len(s)
        BY <1>3, <1>5, <2>2
      <4> QED
        BY <4>1, <4>2
    <3> QED
      BY <1>4, <1>5, <2>2, <3>1 DEF list_is_singular
  <2> QED
    BY <2>1, <2>2
<1>7. list_first_entry_or_null(mem, h) = IF s = <<>> THEN NULL ELSE Head(s)
  <2>1. s # <<>> => Head(s) = s[1]
    BY <1>3
  <2> QED
    BY <1>4, <1>5, <2>1 DEF list_first_entry_or_null
<1>8. list_count_nodes(mem, h) = Len(s)
  BY <1>1, Known DEF list_count_nodes
<1>9. list_empty(mem, h) \in BOOLEAN /\ list_is_singular(mem, h) \in BOOLEAN
  BY DEF list_empty, list_is_singular
<1>10. was = is
  BY <1>4, <1>6, <1>7, <1>8, <1>9
<1>11. D!Effect(<<"ask_list", h, is>>, ls) = ls
  BY DEF D!Effect
<1>12. D!Answered(<<"ask_list", h, is>>, ls)
  BY DEF D!Answered
<1> HIDE DEF was, is
<1> QED
  BY <1>1, <1>10, <1>11, <1>12 DEF Moved

LEMMA AskEntrySteps ==
  ASSUME NEW ls, Good(mem, live, listed, ls), NEW n \in Nodes, NEW h \in Heads, AskEntry(n, h)
  PROVE  Moved(ls)
<1> DEFINE s == ls[h]
           i == D!Index(s, n)
           L == Len(s)
           r == [head |-> h, first |-> list_is_first(mem, n, h), last |-> list_is_last(mem, n, h),
                 next |-> list_next_entry_circular(mem, n, h),
                 prev |-> list_prev_entry_circular(mem, n, h)]
<1>1. h \in live /\ n \in Of(h) /\ last' = <<"ask_entry", n, r>>
      /\ mem' = mem /\ live' = live /\ listed' = listed
  BY DEF AskEntry
<1>2. Holds(mem, live, listed, ls) /\ live \subseteq Heads
  BY DEF Good
<1>3. s \in Seq(Nodes) /\ L \in Nat
  BY <1>2, Elements
<1>4. i \in 1..L /\ s[i] = n /\ n # h
  BY <1>1, Entry
<1>5. /\ \A k \in 0..L : mem.next[At(ls, h, k)] = At(ls, h, k + 1)
      /\ \A k \in 1..L + 1 : mem.prev[At(ls, h, k)] = At(ls, h, k - 1)
      /\ mem.next[h] = At(ls, h, 1) /\ mem.prev[h] = At(ls, h, L)
  BY <1>1, <1>2, Neighbours
<1>6. At(ls, h, 0) = h /\ At(ls, h, L + 1) = h /\ \A k \in 1..L : At(ls, h, k) = s[k] /\ s[k] # h
  BY <1>2, Ats, Elements
<1>7. \A k \in 1..L : D!Index(s, s[k]) = k
  BY <1>2, Found
<1> HIDE DEF i, s, L
<1>8. mem.next[n] = At(ls, h, i + 1) /\ mem.prev[n] = At(ls, h, i - 1)
  <2>1. i \in 0..L /\ i \in 1..L + 1 /\ At(ls, h, i) = n
    BY <1>3, <1>4, <1>6
  <2> QED
    BY <1>5, <2>1
<1>9. list_is_first(mem, n, h) <=> i = 1
  <2>1. i # 1 => i - 1 \in 1..L
    BY <1>3, <1>4
  <2> QED
    BY <1>4, <1>6, <1>8, <2>1 DEF list_is_first
<1>10. list_is_last(mem, n, h) <=> i = L
  <2>1. i # L => i + 1 \in 1..L
    BY <1>3, <1>4
  <2> QED
    BY <1>4, <1>6, <1>8, <2>1 DEF list_is_last
<1>11. list_next_entry_circular(mem, n, h) = s[(i % L) + 1]
  <2>1. CASE i = L
    <3>1. i % L = 0 /\ 1 \in 1..L
      BY <1>3, <1>4, <2>1
    <3> QED
      BY <1>5, <1>6, <1>10, <2>1, <3>1 DEF list_next_entry_circular
  <2>2. CASE i # L
    <3>1. i % L = i /\ i + 1 \in 1..L
      BY <1>3, <1>4, <2>2
    <3> QED
      BY <1>6, <1>8, <1>10, <2>2, <3>1 DEF list_next_entry_circular
  <2> QED
    BY <2>1, <2>2
<1> DEFINE p == list_prev_entry_circular(mem, n, h)
<1>12. s[(D!Index(s, p) % L) + 1] = n
  <2>1. CASE i = 1
    <3>1. L \in 1..L /\ L % L = 0
      BY <1>3, <1>4
    <3>2. p = s[L]
      BY <1>5, <1>6, <1>9, <2>1, <3>1 DEF list_prev_entry_circular
    <3>3. D!Index(s, p) = L
      BY <1>7, <3>1, <3>2
    <3> QED
      BY <1>4, <2>1, <3>1, <3>3
  <2>2. CASE i # 1
    <3>1. i - 1 \in 1..L /\ (i - 1) % L = i - 1
      BY <1>3, <1>4, <2>2
    <3>2. p = s[i - 1]
      BY <1>6, <1>8, <1>9, <2>2, <3>1 DEF list_prev_entry_circular
    <3>3. D!Index(s, p) = i - 1
      BY <1>7, <3>1, <3>2
    <3> QED
      BY <1>3, <1>4, <3>1, <3>3
  <2> QED
    BY <2>1, <2>2
<1>13. r.head = h /\ r.first = list_is_first(mem, n, h) /\ r.last = list_is_last(mem, n, h)
       /\ r.next = list_next_entry_circular(mem, n, h) /\ r.prev = p
  OBVIOUS
<1> HIDE DEF r, p
<1>14. D!Effect(<<"ask_entry", n, r>>, ls) = ls
  BY DEF D!Effect
<1>15. D!Answered(<<"ask_entry", n, r>>, ls)
  BY <1>9, <1>10, <1>11, <1>12, <1>13 DEF D!Answered, s, i, L
<1> QED
  BY <1>1, <1>14, <1>15 DEF Moved

LEMMA LoopStartSteps ==
  ASSUME NEW ls, Good(mem, live, listed, ls), NEW dir, NEW h, NEW at, LoopStart(dir, h, at)
  PROVE  Moved(ls)
<1>1. last' = <<"for_each">> /\ mem' = mem /\ live' = live /\ listed' = listed
  BY DEF LoopStart
<1>2. Does(<<"for_each">>, ls, ls)
  BY InitDoes
<1> QED
  BY <1>1, <1>2, MovedBy


\* A step either is a call of the abstract lists, or leaves everything it is
\* about.
LEMMA Steps ==
  ASSUME NEW ls, Good(mem, live, listed, ls), Next
  PROVE  Moved(ls) \/ UNCHANGED <<mem, live, listed, last>>
<1>1. CASE \E l \in Links : Initialise(l)
  BY <1>1, InitialiseSteps
<1>2. CASE \E n \in Nodes, at \in Links : Add(n, at)
  BY <1>2, AddSteps
<1>3. CASE \E n \in Nodes, at \in Links : Move(n, at)
  BY <1>3, MoveSteps
<1>4. CASE \E n \in Nodes : Del(n)
  BY <1>4, DelSteps
<1>5. CASE \E old, new \in Links : Replace(old, new)
  BY <1>5, ReplaceSteps
<1>6. CASE \E e, f \in Nodes : Swap(e, f)
  BY <1>6, SwapSteps
<1>7. CASE \E h \in Heads, i, j \in 1..Cardinality(Nodes), at \in Links : BulkMoveTail(h, i, j, at)
  <2>1. PICK h \in Heads, i \in 1..Cardinality(Nodes), j \in 1..Cardinality(Nodes), at \in Links :
          BulkMoveTail(h, i, j, at)
    BY <1>7
  <2>2. i \in Nat \ {0} /\ j \in Nat \ {0}
    OBVIOUS
  <2> QED
    BY <2>1, <2>2, BulkMoveTailSteps
<1>8. CASE \E h \in Heads : RotateLeft(h)
  BY <1>8, RotateLeftSteps
<1>9. CASE \E h \in Heads : AskList(h)
  BY <1>9, AskListSteps
<1>10. CASE \E dir \in {"next", "prev"}, h \in Heads, at \in Links : LoopStart(dir, h, at)
  BY <1>10, LoopStartSteps
<1>11. CASE \E n \in Nodes, h \in Heads : RotateToFront(n, h)
  BY <1>11, RotateToFrontSteps
<1>12. CASE \E n \in Nodes, h \in Heads : AskEntry(n, h)
  BY <1>12, AskEntrySteps
<1>13. CASE \E l, h \in Heads, entry \in Links : CutPosition(l, h, entry)
  BY <1>13, CutPositionSteps
<1>14. CASE \E l, h \in Heads, entry \in Links : CutBefore(l, h, entry)
  BY <1>14, CutBeforeSteps
<1>15. CASE \E l \in Heads, at \in Links : Splice(l, at) \/ SpliceInit(l, at)
  BY <1>15, SpliceSteps
<1>16. CASE \E n \in Nodes, how \in {"init", "careful"} : DelInit(n, how)
  BY <1>16, DelSteps
<1>17. CASE LoopNext \/ LoopEnds \/ DropLock \/ ResetNext \/ TestNext \/ TestPrev \/ Tested
  BY <1>17 DEF LoopNext, LoopEnds, DropLock, ResetNext, TestNext, TestPrev, Tested
<1>18. CASE \E f \in {"next", "prev"}, l \in Links : Arrive(f, l)
  BY <1>18 DEF Arrive
<1> QED
  BY <1>1, <1>2, <1>3, <1>4, <1>5, <1>6, <1>7, <1>8, <1>9, <1>10, <1>11, <1>12, <1>13, <1>14, <1>15,
     <1>16, <1>17, <1>18 DEF Next

-----------------------------------------------------------------------------
(* The lists that the memory holds *)

Walked == [h \in Heads |-> IF h \in live THEN Entries(mem.next, h) ELSE <<>>]

\* The invariant: the memory holds sequences, those that a walk of it finds.
ListsHeld == Good(mem, live, listed, Walked)

\* Only one family of sequences can be held.
LEMMA OnlyWalked ==
  ASSUME NEW ls, Good(mem, live, listed, ls)
  PROVE  Walked = ls
<1>1. \A h \in live : Entries(mem.next, h) = ls[h]
  BY WalkIs
<1>2. ls \in [Heads -> Seq(Nodes)] /\ \A h \in Heads \ live : ls[h] = <<>>
  BY DEF Good, Holds
<1> QED
  BY <1>1, <1>2 DEF Walked

LEMMA OnlyWalkedNext ==
  ASSUME NEW ls, Good(mem', live', listed', ls)
  PROVE  Walked' = ls
<1>1. \A h \in live' : Entries(mem'.next, h) = ls[h]
  BY WalkIs
<1>2. ls \in [Heads -> Seq(Nodes)] /\ \A h \in Heads \ live' : ls[h] = <<>>
  BY DEF Good, Holds
<1> QED
  BY <1>1, <1>2 DEF Walked

LEMMA InitListsHeld == Init => ListsHeld /\ Walked = [h \in Heads |-> <<>>]
<1> SUFFICES ASSUME Init PROVE ListsHeld /\ Walked = [h \in Heads |-> <<>>]
  OBVIOUS
<1> DEFINE none == [h \in Heads |-> <<>>]
<1>1. Walked = none
  BY DEF Init, Walked
<1>2. mem \in Memory
  BY DEF Init, Memory, Pointers
<1>3. none \in [Heads -> Seq(Nodes)] /\ \A h \in Heads : none[h] = <<>> /\ Len(none[h]) = 0
  BY EmptySeq
<1> HIDE DEF none
<1>4. Holds(mem, live, listed, none)
  BY <1>3 DEF Init, Holds
<1> QED
  BY <1>1, <1>2, <1>4 DEF ListsHeld, Good, Init, none

LEMMA StepListsHeld ==
  ASSUME ListsHeld, [Next]_vars
  PROVE  /\ ListsHeld'
         /\ \/ Walked' = D!Effect(last', Walked) /\ D!Answered(last', Walked)
            \/ Walked' = Walked /\ last' = last
<1>1. CASE Next /\ Moved(Walked)
  <2>1. Good(mem', live', listed', D!Effect(last', Walked)) /\ D!Answered(last', Walked)
    BY <1>1 DEF Moved
  <2>2. Walked' = D!Effect(last', Walked)
    BY <2>1, OnlyWalkedNext
  <2> QED
    BY <2>1, <2>2 DEF ListsHeld
<1>2. CASE UNCHANGED <<mem, live, listed, last>>
  <2>1. Walked' = Walked
    BY <1>2 DEF Walked
  <2> QED
    BY <1>2, <2>1 DEF ListsHeld
<1>3. CASE UNCHANGED vars
  BY <1>2, <1>3 DEF vars
<1> QED
  BY <1>1, <1>2, <1>3, Steps DEF ListsHeld

\* Every link in use leads to one in use, which leads back to it, after any
\* sequence of calls.
THEOREM RingsSound == Spec => []Ringed
<1>1. Init => ListsHeld
  BY InitListsHeld
<1>2. ListsHeld /\ [Next]_vars => ListsHeld'
  BY StepListsHeld
<1>3. ListsHeld => Ringed
  <2> SUFFICES ASSUME ListsHeld PROVE Ringed
    OBVIOUS
  <2>1. Good(mem, live, listed, Walked)
    BY DEF ListsHeld
  <2>2. /\ mem \in Memory /\ live \subseteq Heads /\ listed \subseteq Nodes
        /\ \A l \in live \cup listed : mem.next[l] \in live \cup listed /\ mem.prev[l] \in live \cup listed
    BY <2>1, Used
  <2>3. \A l \in live \cup listed : mem.prev[mem.next[l]] = l /\ mem.next[mem.prev[l]] = l
    BY <2>1, LeadsBack
  <2> QED
    BY <2>2, <2>3 DEF Ringed, Places, Memory
<1> QED
  BY <1>1, <1>2, <1>3, PTL DEF Spec

\* The rings implement sequences of nodes: each call does to them what its
\* comment says, whatever its arguments are, and answers what they are.
THEOREM ImplementsDeques == Spec => AreDeques
<1>1. Init => ListsHeld
  BY InitListsHeld
<1>2. ListsHeld /\ [Next]_vars => ListsHeld'
  BY StepListsHeld
<1>3. Init => D!Init
  BY InitListsHeld DEF Init, D!Init, Walked
<1>4. ListsHeld /\ [Next]_vars => [D!Next]_<<Walked, last>>
  BY StepListsHeld DEF D!Next, Walked
<1> QED
  BY <1>1, <1>2, <1>3, <1>4, PTL DEF Spec, AreDeques, D!Spec, Walked

-----------------------------------------------------------------------------
(* The test without the lock *)

\* Another CPU may be told of the deletion of the last call.
Told == last[1] = "del" /\ Len(last) = 3

\* What is so of that entry: the CPU that deleted it sees it alone; if it was
\* deleted with care, its next arrives last; and what was tested has arrived.
Deleted ==
  /\ last[2] \in Nodes /\ last[3] \in {"init", "careful"}
  /\ mem.next[last[2]] = last[2] /\ mem.prev[last[2]] = last[2]
  /\ last[3] = "careful" /\ ~Late("next", last[2]) =>
       \A f \in {"next", "prev"}, l \in Links : ~Late(f, l)
  /\ test # "none" => ~Late("next", last[2])
  /\ test = "empty" => ~Late("prev", last[2])

\* The invariant: stores are late, and tests run, only for such a deletion.
Tests ==
  /\ others \in Memory
  /\ loop # NoLoop => Quiet
  /\ ~Quiet => Told
  /\ Told => Deleted

\* A call whose stores are seen at once.
LEMMA SeenAtOnce ==
  ASSUME Tests, ListsHeld', Quiet, others' = mem', test' = test, ~Told'
  PROVE  Tests'
<1>1. mem' \in Memory
  BY DEF ListsHeld, Good
<1>2. Quiet'
  BY DEF Quiet
<1> QED
  BY <1>1, <1>2 DEF Tests

LEMMA RunsQuietly ==
  ASSUME Tests, Idle \/ loop.dropped
  PROVE  Quiet
BY DEF Tests, Idle, NoLoop

\* A step that changes no more than the loop.
LEMMA LoopsOn ==
  ASSUME Tests, Quiet, UNCHANGED <<mem, others, test, last>>
  PROVE  Tests'
BY DEF Tests, Quiet, Told, Deleted, Late

LEMMA DelInitTests ==
  ASSUME ListsHeld, ListsHeld', Tests, NEW n \in Nodes, NEW how \in {"init", "careful"}, DelInit(n, how)
  PROVE  Tests'
<1>1. /\ n \in listed /\ mem' = list_del_init(mem, n) /\ last' = <<"del", n, how>>
      /\ UNCHANGED <<loop, others, test>> /\ Idle
  BY DEF DelInit
<1>2. loop = NoLoop /\ others = mem /\ test = "none"
  BY <1>1 DEF Idle, Quiet
<1>3. mem \in Memory /\ mem.next[n] # n /\ mem.prev[n] \in Links /\ mem.next[n] \in Links
  BY <1>1, Reached DEF ListsHeld, Good
<1>4. Unlink(mem, n) \in Memory
  BY <1>3, Joins DEF Unlink
<1>5. mem'.next[n] = n /\ mem'.prev[n] = n
  BY <1>1, <1>4, Inits DEF list_del_init, Links
<1>6. Late("next", n)'
  BY <1>1, <1>2, <1>3, <1>5 DEF Late
<1>7. last'[1] = "del" /\ last'[2] = n /\ last'[3] = how /\ Len(last') = 3
  BY <1>1
<1>8. Deleted'
  BY <1>1, <1>2, <1>5, <1>6, <1>7 DEF Deleted
<1>9. Told'
  BY <1>7 DEF Told
<1>10. others' \in Memory /\ loop' = NoLoop
  BY <1>1, <1>2, <1>3
<1> QED
  BY <1>8, <1>9, <1>10 DEF Tests

LEMMA ArriveTests ==
  ASSUME ListsHeld, Tests, NEW f \in {"next", "prev"}, NEW l \in Links, Arrive(f, l)
  PROVE  Tests'
<1> DEFINE e == last[2]
<1>1. /\ Late(f, l) /\ InOrder(f, l) /\ others' = [others EXCEPT ![f][l] = mem[f][l]]
      /\ UNCHANGED <<mem, loop, test, last>>
  BY DEF Arrive
<1>2. ~Quiet
  BY <1>1 DEF Late, Quiet
<1>3. Told /\ Deleted /\ loop = NoLoop /\ others \in Memory
  BY <1>2 DEF Tests
<1>4. mem \in Memory
  BY DEF ListsHeld, Good
<1>5. others' \in Memory
  BY <1>1, <1>3, <1>4 DEF Memory, Pointers
<1>6. \A g \in {"next", "prev"}, k \in Links :
        Late(g, k)' <=> (Late(g, k) /\ <<g, k>> # <<f, l>>)
  BY <1>1, <1>3, <1>4 DEF Late, Memory, Pointers
<1>7. ASSUME last[3] = "careful", ~Late("next", e)'
      PROVE  \A g \in {"next", "prev"}, k \in Links : ~Late(g, k)'
  <2>1. e \in Links
    BY <1>3 DEF Deleted, Links
  <2>2. CASE ~Late("next", e)
    BY <1>1, <1>3, <1>7, <2>2 DEF Deleted
  <2>3. CASE Late("next", e)
    <3>1. f = "next" /\ l = e
      BY <1>1, <1>6, <1>7, <2>1, <2>3
    <3>2. \A g \in {"next", "prev"}, k \in Links : ~(Late(g, k) /\ <<g, k>> # <<f, l>>)
      BY <1>1, <1>7, <3>1 DEF InOrder
    <3> QED
      BY <1>6, <3>2
  <2> QED
    BY <2>2, <2>3
<1>8. Deleted'
  <2>1. e \in Links /\ last' = last /\ mem' = mem /\ test' = test
    BY <1>1, <1>3 DEF Deleted, Links
  <2>2. ~Late("next", e) => ~Late("next", e)'
    BY <1>6, <2>1
  <2>3. ~Late("prev", e) => ~Late("prev", e)'
    BY <1>6, <2>1
  <2> QED
    BY <1>3, <1>7, <2>1, <2>2, <2>3 DEF Deleted
<1>9. Told' /\ loop' = NoLoop
  BY <1>1, <1>3 DEF Told
<1> QED
  BY <1>5, <1>8, <1>9 DEF Tests

LEMMA TestTests ==
  ASSUME Tests, TestNext \/ TestPrev \/ Tested
  PROVE  Tests'
<1>1. UNCHANGED <<mem, loop, others, last>>
  BY DEF TestNext, TestPrev, Tested
<1>2. \A f, l : Late(f, l)' <=> Late(f, l)
  BY <1>1 DEF Late
<1>3. Told /\ loop = NoLoop
  <2>1. CASE TestNext
    BY <2>1 DEF TestNext, Told
  <2>2. CASE TestPrev \/ Tested
    BY <2>2 DEF TestPrev, Tested, Tests, Quiet
  <2> QED
    BY <2>1, <2>2
<1>4. Deleted /\ others \in Memory
  BY <1>3 DEF Tests
<1>5. Deleted'
  <2>1. CASE TestNext
    <3>1. test' # "none" => ~Late("next", last[2])
      BY <1>4, <2>1 DEF TestNext, Late, Deleted
    <3>2. test' # "empty"
      BY <2>1 DEF TestNext
    <3> QED
      BY <1>1, <1>2, <1>4, <3>1, <3>2 DEF Deleted
  <2>2. CASE TestPrev
    <3>1. test' = "empty" => ~Late("prev", last[2])
      BY <1>4, <2>2 DEF TestPrev, Late, Deleted
    <3>2. test # "none"
      BY <2>2 DEF TestPrev
    <3> QED
      BY <1>1, <1>2, <1>4, <3>1, <3>2 DEF Deleted
  <2>3. CASE Tested
    <3>1. test' = "none"
      BY <2>3 DEF Tested
    <3> QED
      BY <1>1, <1>2, <1>4, <3>1 DEF Deleted
  <2> QED
    BY <2>1, <2>2, <2>3
<1>6. Told' /\ loop' = NoLoop /\ others' \in Memory
  BY <1>1, <1>3, <1>4 DEF Told
<1> QED
  BY <1>5, <1>6 DEF Tests

LEMMA InBodyRuns ==
  ASSUME NEW n \in Nodes, InBody(n)
  PROVE  Idle \/ loop # NoLoop
<1>1. CASE Idle
  BY <1>1
<1>2. CASE loop.dropped # (loop.pos = n)
  <2>1. NULL # n
    BY ListHeadAssumption DEF Links
  <2>2. ASSUME loop = NoLoop PROVE FALSE
    <3>1. loop.dropped = FALSE /\ loop.pos = NULL
      BY <2>2 DEF NoLoop
    <3>2. (loop.pos = n) = FALSE
      BY <2>1, <3>1
    <3> QED
      BY <1>2, <3>1, <3>2
  <2> QED
    BY <2>2
<1> QED
  BY <1>1, <1>2 DEF InBody

LEMMA StepTests ==
  ASSUME ListsHeld, ListsHeld', Tests, Next
  PROVE  Tests'
<1>1. CASE \/ \E l \in Links : Initialise(l)
           \/ \E n \in Nodes, at \in Links : Add(n, at) \/ Move(n, at)
           \/ \E n \in Nodes : Del(n)
           \/ \E old, new \in Links : Replace(old, new)
           \/ \E e, f \in Nodes : Swap(e, f)
  <2> DEFINE AtOnce == (Idle \/ loop # NoLoop) /\ others' = mem' /\ test' = test /\ ~Told'
  <2>1. ASSUME \E l \in Links : Initialise(l) PROVE AtOnce
    BY <2>1 DEF Initialise, Stored, Told
  <2>2. ASSUME \E n \in Nodes, at \in Links : Add(n, at) PROVE AtOnce
    BY <2>2 DEF Add, Stored, Told, NoLoop
  <2>3. ASSUME \E n \in Nodes, at \in Links : Move(n, at) PROVE AtOnce
    BY <2>3, InBodyRuns DEF Move, Stored, Told
  <2>4. ASSUME \E n \in Nodes : Del(n) PROVE AtOnce
    BY <2>4, InBodyRuns DEF Del, Stored, Told
  <2>5. ASSUME \E old, new \in Links : Replace(old, new) PROVE AtOnce
    BY <2>5 DEF Replace, Stored, Told
  <2>6. ASSUME \E e, f \in Nodes : Swap(e, f) PROVE AtOnce
    BY <2>6 DEF Swap, Stored, Told
  <2>7. AtOnce
    BY <1>1, <2>1, <2>2, <2>3, <2>4, <2>5, <2>6
  <2> QED
    BY <2>7, SeenAtOnce DEF Tests, Idle
<1>2. CASE \/ \E h \in Heads, i, j \in 1..Cardinality(Nodes), at \in Links : BulkMoveTail(h, i, j, at)
           \/ \E h \in Heads : RotateLeft(h)
           \/ \E n \in Nodes, h \in Heads : RotateToFront(n, h)
           \/ \E l, h \in Heads, entry \in Links : CutPosition(l, h, entry) \/ CutBefore(l, h, entry)
           \/ \E l \in Heads, at \in Links : Splice(l, at) \/ SpliceInit(l, at)
  <2>1. Idle /\ others' = mem' /\ test' = test /\ ~Told'
    BY <1>2 DEF BulkMoveTail, RotateLeft, RotateToFront, CutPosition, CutBefore, Splice, SpliceInit,
                Stored, Told
  <2> QED
    BY <2>1, SeenAtOnce DEF Idle
<1>3. CASE \/ \E h \in Heads : AskList(h)
           \/ \E dir \in {"next", "prev"}, h \in Heads, at \in Links : LoopStart(dir, h, at)
           \/ \E n \in Nodes, h \in Heads : AskEntry(n, h)
  <2>1. Idle /\ others' = others /\ mem' = mem /\ test' = test /\ ~Told'
    BY <1>3 DEF AskList, LoopStart, AskEntry, Told
  <2> QED
    BY <2>1, SeenAtOnce DEF Idle, Quiet
<1>4. CASE LoopNext \/ LoopEnds \/ DropLock \/ ResetNext
  <2>1. loop # NoLoop /\ UNCHANGED <<mem, others, test, last>>
    BY <1>4 DEF LoopNext, LoopEnds, DropLock, ResetNext, NoLoop
  <2> QED
    BY <2>1, LoopsOn DEF Tests
<1>5. CASE \E n \in Nodes, how \in {"init", "careful"} : DelInit(n, how)
  BY <1>5, DelInitTests
<1>6. CASE \E f \in {"next", "prev"}, l \in Links : Arrive(f, l)
  BY <1>6, ArriveTests
<1>7. CASE TestNext \/ TestPrev \/ Tested
  BY <1>7, TestTests
<1> QED
  BY <1>1, <1>2, <1>3, <1>4, <1>5, <1>6, <1>7 DEF Next

\* When list_empty_careful() says yes, the deletion is done with the entry;
\* one with care is done with everything.
THEOREM DoneWhenSaid == Spec => []TestSaysDone
<1>1. Init => ListsHeld
  BY InitListsHeld
<1>2. ListsHeld /\ [Next]_vars => ListsHeld'
  BY StepListsHeld
<1>3. Init => Tests
  <2> SUFFICES ASSUME Init PROVE Tests
    OBVIOUS
  <2>1. others \in Memory /\ Quiet /\ loop = NoLoop
    BY InitListsHeld DEF Init, ListsHeld, Good, Quiet
  <2>2. ~Told
    BY DEF Init, Told
  <2> QED
    BY <2>1, <2>2 DEF Tests
<1>4. ListsHeld /\ Tests /\ [Next]_vars => Tests'
  <2> SUFFICES ASSUME ListsHeld, Tests, [Next]_vars PROVE Tests'
    OBVIOUS
  <2>1. CASE Next
    BY <1>2, <2>1, StepTests
  <2>2. CASE UNCHANGED vars
    BY <2>2 DEF vars, Tests, Quiet, Told, Deleted, Late
  <2> QED
    BY <2>1, <2>2
<1>5. Tests => TestSaysDone
  <2> SUFFICES ASSUME Tests, test = "empty", NEW f \in {"next", "prev"}, NEW l \in Links, Late(f, l)
               PROVE  l # last[2] /\ last[3] # "careful"
    BY DEF TestSaysDone
  <2>1. Deleted
    BY DEF Tests, Quiet
  <2> QED
    BY <2>1 DEF Deleted
<1> QED
  BY <1>1, <1>2, <1>3, <1>4, <1>5, PTL DEF Spec

-----------------------------------------------------------------------------
(* Loops that are safe against removal *)

\* The list of h in the order of a loop in the direction dir.
Way(ls, dir, h) == IF dir = "next" THEN ls[h] ELSE Reverse(ls[h])

LEMMA WayIs ==
  ASSUME NEW m, NEW lv, NEW on, NEW ls, Good(m, lv, on, ls), NEW h \in lv,
         NEW dir \in {"next", "prev"}, NEW w, w = Way(ls, dir, h)
  PROVE  /\ w \in Seq(Nodes) /\ Len(w) \in Nat /\ Set(w) = Set(ls[h])
         /\ \A i, j \in 1..Len(w) : w[i] = w[j] => i = j
         /\ \A i \in 1..Len(w) : /\ w[i] \in on /\ w[i] # h
                                 /\ m[dir][w[i]] = IF i < Len(w) THEN w[i + 1] ELSE h
         /\ m[dir][h] \in {h} \cup Set(w)
<1> DEFINE s == ls[h]
           L == Len(s)
<1>1. Holds(m, lv, on, ls) /\ lv \subseteq Heads /\ h \in Heads
  BY DEF Good
<1>2. /\ s \in Seq(Nodes) /\ L \in Nat
      /\ \A i \in 1..L : s[i] \in on /\ s[i] # h
  BY <1>1, Elements
<1>3. \A i, j \in 1..L : s[i] = s[j] => i = j
  BY <1>1 DEF Holds
<1>4. /\ \A i \in 0..L : m.next[At(ls, h, i)] = At(ls, h, i + 1)
      /\ \A i \in 1..L + 1 : m.prev[At(ls, h, i)] = At(ls, h, i - 1)
      /\ m.next[h] = At(ls, h, 1) /\ m.prev[h] = At(ls, h, L)
  BY <1>1, Neighbours
<1>5. At(ls, h, 0) = h /\ At(ls, h, L + 1) = h /\ \A k \in 1..L : At(ls, h, k) = s[k]
  BY <1>1, Ats
<1>6. m.next[h] \in {h} \cup Set(s) /\ m.prev[h] \in {h} \cup Set(s)
  BY <1>4 DEF At, Set
<1>7. CASE dir = "next"
  <2>1. w = s
    BY <1>7 DEF Way
  <2>2. ASSUME NEW i \in 1..L PROVE m.next[s[i]] = IF i < L THEN s[i + 1] ELSE h
    <3> HIDE DEF s, L
    <3>1. i \in 0..L /\ m.next[s[i]] = At(ls, h, i + 1)
      BY <1>2, <1>4, <1>5
    <3>2. i < L => i + 1 \in 1..L
      BY <1>2
    <3>3. i >= L => i + 1 = L + 1
      BY <1>2
    <3> QED
      BY <1>2, <1>5, <3>1, <3>2, <3>3
  <2> QED
    BY <1>2, <1>3, <1>6, <1>7, <2>1, <2>2
<1>8. CASE dir = "prev"
  <2>1. w = [i \in 1..L |-> s[(L - i) + 1]]
    BY <1>8 DEF Way, Reverse
  <2> HIDE DEF s, L
  <2>2. \A i \in 1..L : (L - i) + 1 \in 1..L
    BY <1>2
  <2>3. w \in Seq(Nodes) /\ Len(w) = L /\ \A i \in 1..L : w[i] = s[(L - i) + 1]
    <3>1. \A i \in 1..L : s[i] \in Nodes
      BY <1>2, ElementOfSeq DEF L
    <3>2. \A i \in 1..L : s[(L - i) + 1] \in Nodes
      BY <2>2, <3>1
    <3>3. L \in Nat
      BY <1>2
    <3> HIDE DEF L
    <3> QED
      BY <2>1, <3>2, <3>3
  <2>4. Set(w) = Set(s)
    <3>1. \A i \in 1..L : \E k \in 1..L : w[i] = s[k]
      BY <2>2, <2>3
    <3>2. \A i \in 1..L : s[i] = w[(L - i) + 1]
      <4>1. \A i \in 1..L : (L - ((L - i) + 1)) + 1 = i
        BY <1>2
      <4> QED
        BY <2>2, <2>3, <4>1
    <3>3. \A i \in 1..L : \E k \in 1..L : s[i] = w[k]
      BY <2>2, <3>2
    <3>4. \A x : x \in Set(w) <=> \E i \in 1..L : x = w[i]
      BY <2>3 DEF Set
    <3>5. \A x : x \in Set(s) <=> \E i \in 1..L : x = s[i]
      BY DEF Set, L
    <3>6. ASSUME NEW x PROVE x \in Set(w) <=> x \in Set(s)
      BY <3>1, <3>3, <3>4, <3>5
    <3> QED
      BY <3>6
  <2>5. ASSUME NEW i \in 1..L, NEW j \in 1..L, w[i] = w[j] PROVE i = j
    <3>1. s[(L - i) + 1] = s[(L - j) + 1] /\ (L - i) + 1 \in 1..L /\ (L - j) + 1 \in 1..L
      BY <2>2, <2>3, <2>5
    <3>2. \A k, l \in 1..L : s[k] = s[l] => k = l
      BY <1>3 DEF L
    <3>3. (L - i) + 1 = (L - j) + 1
      BY <3>1, <3>2
    <3> QED
      BY <1>2, <3>3
  <2>6. ASSUME NEW i \in 1..L PROVE m.prev[w[i]] = IF i < L THEN w[i + 1] ELSE h
    <3> DEFINE k == (L - i) + 1
    <3>1. k \in 1..L /\ k \in 1..L + 1 /\ w[i] = s[k]
      BY <1>2, <2>2, <2>3
    <3>2. i < L => i + 1 \in 1..L /\ k - 1 \in 1..L /\ (L - (i + 1)) + 1 = k - 1
      BY <1>2
    <3>3. i >= L => k - 1 = 0
      BY <1>2
    <3> HIDE DEF k
    <3>4. m.prev[w[i]] = At(ls, h, k - 1)
      BY <1>4, <1>5, <3>1 DEF L
    <3>5. CASE i < L
      <4>1. w[i + 1] = s[k - 1]
        BY <2>3, <3>2, <3>5
      <4> QED
        BY <1>5, <3>2, <3>4, <3>5, <4>1 DEF L
    <3>6. CASE ~(i < L)
      BY <1>2, <1>5, <3>3, <3>4, <3>6
    <3> QED
      BY <3>5, <3>6
  <2>7. \A i \in 1..L : w[i] \in on /\ w[i] # h
    BY <1>2, <2>2, <2>3 DEF L
  <2>8. L \in Nat
    BY <1>2
  <2> QED
    BY <1>6, <1>8, <2>3, <2>4, <2>5, <2>6, <2>7, <2>8 DEF s
<1> QED
  BY <1>7, <1>8

\* A loop at pos, with n behind it, has the rest of its list before it, pos
\* included, which may have been taken out: from n on, the pointers lead through
\* the others to the head.
OnCourse(m, on, dir, h, pos, n, rest) ==
  \/ rest = <<>> /\ pos = h
  \/ /\ Len(rest) >= 1 /\ pos = rest[1]
     /\ \A j, k \in 1..Len(rest) : rest[j] = rest[k] => j = k
     /\ n = IF Len(rest) > 1 THEN rest[2] ELSE h
     /\ \A k \in 2..Len(rest) :
          /\ rest[k] \in on
          /\ m[dir][rest[k]] = IF k < Len(rest) THEN rest[k + 1] ELSE h

\* The first place of an element, when elements differ.
LEMMA Selected ==
  ASSUME NEW s \in Seq(Nodes), NEW i \in 1..Len(s), \A j \in 1..Len(s) : s[j] = s[i] => j = i,
         NEW x, x = s[i]
  PROVE  LET I == {j \in 1..Len(s) : s[j] = x} IN I # {} /\ Min(I) = i
<1> DEFINE I == {j \in 1..Len(s) : s[j] = x}
<1>1. I = {i}
  OBVIOUS
<1>2. Min(I) = i
  BY <1>1 DEF Min
<1> QED
  BY <1>1, <1>2

\* A loop that begins, or goes on after the lock was dropped.
LEMMA AheadIs ==
  ASSUME NEW ls, Good(mem, live, listed, ls), NEW h \in live, NEW dir \in {"next", "prev"},
         NEW pos \in {h} \cup Set(ls[h]), NEW rest, rest = Ahead(dir, h, pos)
  PROVE  /\ rest \in Seq(Nodes)
         /\ OnCourse(mem, listed, dir, h, pos, mem[dir][pos], rest)
<1>1. CASE pos = h
  BY <1>1, EmptySeq DEF Ahead, OnCourse
<1>2. CASE pos # h
  <2> DEFINE w == Way(ls, dir, h)
             L == Len(w)
  <2>1. /\ w \in Seq(Nodes) /\ L \in Nat /\ Set(w) = Set(ls[h])
        /\ \A i, j \in 1..L : w[i] = w[j] => i = j
        /\ \A i \in 1..L : w[i] \in listed /\ mem[dir][w[i]] = IF i < L THEN w[i + 1] ELSE h
    BY WayIs
  <2>2. PICK i \in 1..L : pos = w[i]
    BY <1>2, <2>1 DEF Set
  <2>3. Entries(mem.next, h) = ls[h]
    BY Known
  <2>4. SelectInSeq(w, LAMBDA e : e = pos) = i
    <3>1. w \in Seq(Nodes) /\ i \in 1..Len(w)
      BY <2>1
    <3>2. \A j \in 1..Len(w) : w[j] = w[i] => j = i
      BY <2>1
    <3> HIDE DEF w, L
    <3> QED
      BY <2>2, <3>1, <3>2, Selected DEF SelectInSeq
  <2>5. rest = SubSeq(w, i, L)
    BY <1>2, <2>3, <2>4 DEF Ahead, Way
  <2> HIDE DEF w
  <2>6. rest \in Seq(Nodes) /\ Len(rest) = L - i + 1 /\ \A k \in 1..L - i + 1 : rest[k] = w[i + k - 1]
    <3>1. w \in Seq(Nodes) /\ i \in 1..Len(w) /\ L \in i..Len(w)
      BY <2>1
    <3> QED
      BY <2>5, <3>1, OutIs
  <2> HIDE DEF L
  <2> DEFINE R == L - i + 1
  <2>7. R \in Nat /\ R >= 1 /\ \A k \in 1..R : i + k - 1 \in 1..L
    BY <2>1, <2>2
  <2>8. pos = rest[1]
    BY <2>2, <2>6, <2>7
  <2>9. ASSUME NEW j \in 1..R, NEW k \in 1..R, rest[j] = rest[k] PROVE j = k
    <3>1. i + j - 1 = i + k - 1
      BY <2>1, <2>6, <2>7, <2>9
    <3> QED
      BY <2>1, <2>2, <3>1
  <2>10. ASSUME NEW k \in 1..R
         PROVE  rest[k] \in listed /\ mem[dir][rest[k]] = IF k < R THEN rest[k + 1] ELSE h
    <3>1. i + k - 1 \in 1..L /\ rest[k] = w[i + k - 1]
      BY <2>6, <2>7
    <3>2. k < R <=> i + k - 1 < L
      BY <2>1, <2>2
    <3>3. k < R => k + 1 \in 1..R /\ i + (k + 1) - 1 = (i + k - 1) + 1
      BY <2>1, <2>2
    <3>4. k < R => rest[k + 1] = w[(i + k - 1) + 1]
      BY <2>6, <3>3
    <3> QED
      BY <2>1, <3>1, <3>2, <3>4
  <2>11. 1 \in 1..R /\ (R > 1 <=> 1 < R) /\ 1 + 1 = 2
    BY <2>7
  <2>12. mem[dir][pos] = IF R > 1 THEN rest[2] ELSE h
    BY <2>8, <2>10, <2>11
  <2>13. Len(rest) = R /\ \A k \in 2..R : k \in 1..R
    BY <2>6
  <2> HIDE DEF R
  <2>14. OnCourse(mem, listed, dir, h, pos, mem[dir][pos], rest)
    BY <2>7, <2>8, <2>9, <2>10, <2>12, <2>13 DEF OnCourse
  <2> QED
    BY <2>6, <2>14
<1> QED
  BY <1>1, <1>2

\* The pointers of the rest, pos excluded, are as they were.
Still(a, b, dir, rest) == \A k \in 2..Len(rest) : b[dir][rest[k]] = a[dir][rest[k]]

LEMMA CourseKept ==
  ASSUME NEW a, NEW on, NEW dir, NEW h, NEW pos, NEW n, NEW rest \in Seq(Nodes),
         OnCourse(a, on, dir, h, pos, n, rest),
         NEW b, Still(a, b, dir, rest), NEW to, on \ {pos} \subseteq to
  PROVE  OnCourse(b, to, dir, h, pos, n, rest)
<1>1. CASE rest = <<>> /\ pos = h
  BY <1>1 DEF OnCourse
<1>2. CASE ~(rest = <<>> /\ pos = h)
  <2>1. /\ Len(rest) >= 1 /\ pos = rest[1]
        /\ \A j, k \in 1..Len(rest) : rest[j] = rest[k] => j = k
        /\ \A k \in 2..Len(rest) : rest[k] \in on
    BY <1>2 DEF OnCourse
  <2>2. \A k \in 2..Len(rest) : k \in 1..Len(rest) /\ 1 \in 1..Len(rest) /\ k # 1
    BY LenProperties
  <2>3. \A k \in 2..Len(rest) : rest[k] # pos
    BY <2>1, <2>2
  <2> QED
    BY <1>2, <2>1, <2>3 DEF OnCourse, Still
<1> QED
  BY <1>1, <1>2

\* The entry that a loop is at is taken out: nothing that the loop will read
\* is written.
LEMMA OutOfTheWay ==
  ASSUME NEW m, NEW lv, NEW on, NEW ls, Good(m, lv, on, ls), NEW h \in lv,
         NEW dir \in {"next", "prev"}, NEW pos \in Nodes,
         pos \in on \/ (m.next[pos] = pos /\ m.prev[pos] = pos),
         NEW n, NEW rest \in Seq(Nodes), OnCourse(m, on, dir, h, pos, n, rest)
  PROVE  /\ \A k \in 2..Len(rest) : rest[k] \in on /\ rest[k] # pos
         /\ \A k \in 2..Len(rest) : m[dir][rest[k]] \in Nodes \cup {h} /\ m[dir][rest[k]] # pos
         /\ Still(m, Unlink(m, pos), dir, rest)
<1>1. m \in Memory /\ lv \subseteq Heads /\ on \subseteq Nodes /\ h \in Heads /\ pos # h
  BY Used, ListHeadAssumption
<1>2. /\ Len(rest) >= 1 /\ pos = rest[1]
      /\ \A j, k \in 1..Len(rest) : rest[j] = rest[k] => j = k
      /\ \A k \in 2..Len(rest) :
           rest[k] \in on /\ m[dir][rest[k]] = IF k < Len(rest) THEN rest[k + 1] ELSE h
  BY <1>1 DEF OnCourse
<1> DEFINE L == Len(rest)
<1>3. L \in Nat /\ \A k \in 1..L : rest[k] \in Nodes
  BY LenProperties, ElementOfSeq
<1>4. ASSUME NEW k \in 2..L PROVE rest[k] # pos
  BY <1>2, <1>3
<1>5. ASSUME NEW k \in 2..L PROVE m[dir][rest[k]] \in Nodes \cup {h} /\ m[dir][rest[k]] # pos
  <2>1. CASE k < L
    <3>1. k + 1 \in 2..L /\ k + 1 \in 1..L
      BY <1>3, <2>1
    <3>2. m[dir][rest[k]] = rest[k + 1]
      BY <1>2, <2>1
    <3> QED
      BY <1>3, <1>4, <3>1, <3>2
  <2>2. CASE ~(k < L)
    BY <1>1, <1>2, <2>2
  <2> QED
    BY <2>1, <2>2
<1>6. m.prev[pos] \in Links /\ m.next[pos] \in Links
  <2>1. \A l \in lv \cup on : m.next[l] \in lv \cup on /\ m.prev[l] \in lv \cup on
    BY Used
  <2> QED
    BY <1>1, <2>1 DEF Links
<1>7. \A l \in Links : /\ Unlink(m, pos).next[l] = IF l = m.prev[pos] THEN m.next[pos] ELSE m.next[l]
                       /\ Unlink(m, pos).prev[l] = IF l = m.next[pos] THEN m.prev[pos] ELSE m.prev[l]
  <2>1. Joined(m, Join(m, m.prev[pos], m.next[pos]), m.prev[pos], m.next[pos])
    BY <1>1, <1>6, Joins
  <2> QED
    BY <2>1 DEF Unlink, Joined
<1>8. m.next[m.prev[pos]] = pos /\ m.prev[m.next[pos]] = pos
  BY LeadsBack
<1>9. ASSUME NEW k \in 2..L PROVE Unlink(m, pos)[dir][rest[k]] = m[dir][rest[k]]
  <2>1. rest[k] \in Links /\ m[dir][rest[k]] # pos
    BY <1>2, <1>1, <1>5 DEF Links
  <2>2. CASE dir = "next"
    <3>1. rest[k] # m.prev[pos]
      BY <1>8, <2>1, <2>2
    <3> QED
      BY <1>7, <2>1, <2>2, <3>1
  <2>3. CASE dir = "prev"
    <3>1. rest[k] # m.next[pos]
      BY <1>8, <2>1, <2>3
    <3> QED
      BY <1>7, <2>1, <2>3, <3>1
  <2> QED
    BY <2>2, <2>3
<1> QED
  BY <1>2, <1>4, <1>5, <1>9 DEF Still

\* It is put on another list: nor is it then.
LEMMA OntoAnother ==
  ASSUME NEW m, NEW lv, NEW on, NEW ls, Good(m, lv, on, ls), NEW h \in lv,
         NEW dir \in {"next", "prev"}, NEW pos \in Nodes,
         pos \in on \/ (m.next[pos] = pos /\ m.prev[pos] = pos),
         NEW n, NEW rest \in Seq(Nodes), OnCourse(m, on, dir, h, pos, n, rest),
         NEW g \in lv, g # h, NEW b \in {list_move(m, pos, g), list_move_tail(m, pos, g)}
  PROVE  Still(m, b, dir, rest)
<1> DEFINE u == Unlink(m, pos)
           us == D!Removed(ls, pos)
<1>1. /\ \A k \in 2..Len(rest) : rest[k] \in on /\ rest[k] # pos
      /\ \A k \in 2..Len(rest) : m[dir][rest[k]] \in Nodes \cup {h} /\ m[dir][rest[k]] # pos
      /\ \A k \in 2..Len(rest) : u[dir][rest[k]] = m[dir][rest[k]]
  BY OutOfTheWay DEF Still
<1>2. m \in Memory /\ lv \subseteq Heads /\ on \subseteq Nodes /\ pos # g
  BY Used, ListHeadAssumption
<1>3. m.prev[pos] \in Links /\ m.next[pos] \in Links
  <2>1. \A l \in lv \cup on : m.next[l] \in lv \cup on /\ m.prev[l] \in lv \cup on
    BY Used
  <2> QED
    BY <1>2, <2>1 DEF Links
<1>4. u \in Memory
  BY <1>2, <1>3, Joins DEF Unlink
<1>5. Good(u, lv, on \ {pos}, us)
  <2>1. Agree(u, u, Links \ {pos})
    BY DEF Agree
  <2> HIDE DEF us
  <2>2. us = D!Removed(ls, pos)
    BY DEF us
  <2> QED
    BY <1>4, <2>1, <2>2, Dels
<1> HIDE DEF u, us
<1>6. u.next[g] \in (lv \cup on) \ {pos} /\ u.prev[g] \in (lv \cup on) \ {pos}
  <2>1. \A l \in lv \cup (on \ {pos}) : /\ u.next[l] \in lv \cup (on \ {pos})
                                        /\ u.prev[l] \in lv \cup (on \ {pos})
    BY <1>5, Used
  <2> QED
    BY <1>2, <2>1, ListHeadAssumption
<1>7. u.prev[u.next[g]] = g /\ u.next[u.prev[g]] = g
  BY <1>5, LeadsBack
<1>8. g \notin Nodes /\ g # h /\ g \in Links /\ pos \in Links
  BY <1>2, ListHeadAssumption DEF Links
<1>9. u.next[g] \in Links /\ u.prev[g] \in Links
  BY <1>2, <1>6 DEF Links
<1>10. CASE b = list_move(m, pos, g)
  <2> DEFINE q == u.next[g]
  <2>1. b = AddBetween(u, pos, g, q)
    BY <1>10 DEF list_move, list_add, u
  <2>2. q \in Links /\ pos # q
    BY <1>6, <1>9
  <2> HIDE DEF q
  <2>3. JoinedTwice(u, b, g, pos, pos, q)
    BY <1>4, <1>8, <2>1, <2>2, AddsBetween
  <2>4. ASSUME NEW k \in 2..Len(rest) PROVE b[dir][rest[k]] = m[dir][rest[k]]
    <3>1. rest[k] \in Links /\ rest[k] # pos /\ rest[k] # g /\ u[dir][rest[k]] = m[dir][rest[k]]
          /\ u[dir][rest[k]] # g
      BY <1>1, <1>2, <1>8 DEF Links
    <3>2. CASE dir = "next"
      BY <2>3, <3>1, <3>2 DEF JoinedTwice
    <3>3. CASE dir = "prev"
      <4>1. rest[k] # q
        BY <1>7, <3>1, <3>3 DEF q
      <4> QED
        BY <2>3, <3>1, <3>3, <4>1 DEF JoinedTwice
    <3> QED
      BY <3>2, <3>3
  <2> QED
    BY <2>4 DEF Still
<1>11. CASE b = list_move_tail(m, pos, g)
  <2> DEFINE p == u.prev[g]
  <2>1. b = AddBetween(u, pos, p, g)
    BY <1>11 DEF list_move_tail, list_add_tail, u
  <2>2. p \in Links /\ pos # p
    BY <1>6, <1>9
  <2> HIDE DEF p
  <2>3. JoinedTwice(u, b, p, pos, pos, g)
    BY <1>2, <1>4, <1>8, <2>1, <2>2, AddsBetween
  <2>4. ASSUME NEW k \in 2..Len(rest) PROVE b[dir][rest[k]] = m[dir][rest[k]]
    <3>1. rest[k] \in Links /\ rest[k] # pos /\ rest[k] # g /\ u[dir][rest[k]] = m[dir][rest[k]]
          /\ u[dir][rest[k]] # g
      BY <1>1, <1>2, <1>8 DEF Links
    <3>2. CASE dir = "prev"
      BY <2>3, <3>1, <3>2 DEF JoinedTwice
    <3>3. CASE dir = "next"
      <4>1. rest[k] # p
        BY <1>7, <3>1, <3>3 DEF p
      <4> QED
        BY <2>3, <3>1, <3>3, <4>1 DEF JoinedTwice
    <3> QED
      BY <3>2, <3>3
  <2> QED
    BY <2>4 DEF Still
<1> QED
  BY <1>10, <1>11

\* An entry stays on its list when another one is taken out, or put in.
LEMMA StaysOut ==
  ASSUME NEW m, NEW lv, NEW on, NEW ls, Holds(m, lv, on, ls), NEW h \in Heads, NEW x \in Set(ls[h]),
         NEW n, n # x
  PROVE  x \in Set(D!Removed(ls, n)[h])
<1>1. CASE n \notin on
  BY <1>1, RemovedNone
<1>2. CASE n \in on
  <2>1. PICK g \in Heads : \E i \in 1..Len(ls[g]) : ls[g][i] = n
    BY <1>2 DEF Holds
  <2>2. PICK i \in 1..Len(ls[g]) : ls[g][i] = n
    BY <2>1
  <2> DEFINE s == ls[g]
             u == Out(s, i, i)
  <2>3. D!Removed(ls, n) = [ls EXCEPT ![g] = u] /\ ls \in [Heads -> Seq(Nodes)]
    <3>1. ls \in [Heads -> Seq(Nodes)]
      BY DEF Holds
    <3>2. D!Removed(ls, ls[g][i]) = [ls EXCEPT ![g] = Out(ls[g], i, i)]
      BY RemovedIs
    <3> QED
      BY <2>2, <3>1, <3>2
  <2>4. CASE g # h
    BY <2>3, <2>4
  <2>5. CASE g = h
    <3>1. s \in Seq(Nodes) /\ Len(s) \in Nat /\ i \in 1..Len(s) /\ i \in i..Len(s)
      BY <2>2, Elements
    <3>2. u \in Seq(Nodes) /\ Len(u) = Len(s) - (i - i + 1) /\ With(u, i, SubSeq(s, i, i), s)
          /\ Len(SubSeq(s, i, i)) = i - i + 1
      BY <3>1, OutIs
    <3>3. PICK k \in 1..Len(s) : x = s[k]
      BY <2>5 DEF Set
    <3>4. k # i
      BY <2>2, <3>3
    <3> DEFINE j == IF k < i THEN k ELSE k - 1
    <3>5. j \in 1..Len(u)
      BY <3>1, <3>2, <3>3, <3>4
    <3>6. u[j] = x
      <4> HIDE DEF u, s
      <4>1. CASE k < i
        BY <3>1, <3>2, <3>3, <4>1 DEF With
      <4>2. CASE k > i
        <5>1. k >= i + 1 /\ k \in 1..Len(s) /\ Len(u) + 1 = Len(s)
          BY <3>1, <3>2, <3>3, <4>2
        <5>2. s[k] = u[k - 1]
          BY <3>1, <3>2, <4>2, <5>1 DEF With
        <5> QED
          BY <3>1, <3>3, <4>2, <5>2
      <4> QED
        BY <3>1, <3>3, <3>4, <4>1, <4>2
    <3>7. x \in Set(u)
      BY <3>5, <3>6 DEF Set
    <3>8. D!Removed(ls, n)[h] = u
      BY <2>3, <2>5
    <3> QED
      BY <3>7, <3>8
  <2> QED
    BY <2>4, <2>5
<1> QED
  BY <1>1, <1>2

LEMMA StaysPut ==
  ASSUME NEW s \in Seq(Nodes), NEW i \in 1..Len(s) + 1, NEW t \in Seq(Nodes), NEW x \in Set(s)
  PROVE  x \in Set(Put(s, i, t))
<1> DEFINE u == Put(s, i, t)
<1>1. With(s, i, t, u)
  BY PutIs
<1>2. PICK k \in 1..Len(s) : x = s[k]
  BY DEF Set
<1>3. Len(s) \in Nat /\ Len(t) \in Nat
  BY LenProperties
<1> HIDE DEF u
<1> DEFINE j == IF k < i THEN k ELSE k + Len(t)
<1>4. Len(u) = Len(s) + Len(t)
      /\ \A q \in 1..Len(s) + Len(t) :
           u[q] = IF q < i THEN s[q] ELSE IF q < i + Len(t) THEN t[q - i + 1] ELSE s[q - Len(t)]
  BY <1>1 DEF With
<1>5. j \in 1..Len(s) + Len(t)
  BY <1>2, <1>3
<1>6. u[j] = s[k]
  <2>1. CASE k < i
    BY <1>4, <1>5, <2>1
  <2>2. CASE ~(k < i)
    <3>1. ~(k + Len(t) < i) /\ ~(k + Len(t) < i + Len(t)) /\ (k + Len(t)) - Len(t) = k
      BY <1>2, <1>3, <2>2
    <3> QED
      BY <1>4, <1>5, <2>2, <3>1
  <2> QED
    BY <2>1, <2>2
<1> QED
  BY <1>2, <1>4, <1>5, <1>6 DEF Set, u

LEMMA StaysIn ==
  ASSUME NEW m, NEW lv, NEW on, NEW ls, Holds(m, lv, on, ls), lv \subseteq Heads, NEW at \in lv \cup on,
         NEW t \in Seq(Nodes), NEW h \in Heads, NEW x \in Set(ls[h])
  PROVE  x \in Set(D!After(ls, at, t)[h]) /\ x \in Set(D!Before(ls, at, t)[h])
<1>1. ls \in [Heads -> Seq(Nodes)]
  BY DEF Holds
<1>2. x \in Set(D!After(ls, at, t)[h])
  <2>1. PICK g \in lv : \E i \in 0..Len(ls[g]) : At(ls, g, i) = at
    BY PlaceOf
  <2>2. PICK i \in 0..Len(ls[g]) : At(ls, g, i) = at
    BY <2>1
  <2>3. g \in Heads /\ ls[g] \in Seq(Nodes) /\ Len(ls[g]) \in Nat
    BY <1>1, LenProperties
  <2>4. i + 1 \in 1..Len(ls[g]) + 1
    BY <2>2, <2>3
  <2>5. D!After(ls, at, t) = [ls EXCEPT ![g] = Put(ls[g], i + 1, t)]
    BY <2>2, <2>3, AfterIs
  <2>6. g = h => x \in Set(Put(ls[g], i + 1, t))
    BY <2>3, <2>4, StaysPut
  <2> QED
    BY <1>1, <2>5, <2>6
<1>3. x \in Set(D!Before(ls, at, t)[h])
  <2>1. PICK g \in lv : \E i \in 1..Len(ls[g]) + 1 : At(ls, g, i) = at
    BY PlaceOf
  <2>2. PICK i \in 1..Len(ls[g]) + 1 : At(ls, g, i) = at
    BY <2>1
  <2>3. g \in Heads /\ ls[g] \in Seq(Nodes)
    BY <1>1
  <2>4. D!Before(ls, at, t) = [ls EXCEPT ![g] = Put(ls[g], i, t)]
    BY <2>2, <2>3, BeforeIs
  <2>5. g = h => x \in Set(Put(ls[g], i, t))
    BY <2>2, <2>3, StaysPut
  <2> QED
    BY <1>1, <2>4, <2>5
<1> QED
  BY <1>2, <1>3

Loop ==
  [dir : {"next", "prev"}, head : Heads, pos : Links, n : Links, rest : Seq(Nodes), dropped : BOOLEAN]

\* The invariant of loops: their list stays, they are on course, and what is
\* pinned stays on the list while the lock is dropped.
Loops ==
  \/ loop = NoLoop
  \/ /\ loop \in Loop /\ loop.head \in live
     /\ ~loop.dropped => OnCourse(mem, listed, loop.dir, loop.head, loop.pos, loop.n, loop.rest)
     /\ loop.dropped => loop.dir = "next" /\ loop.pos \in Set(Walked[loop.head])

LEMMA LoopStartLoops ==
  ASSUME ListsHeld, NEW dir \in {"next", "prev"}, NEW h \in Heads, NEW at \in Links, LoopStart(dir, h, at)
  PROVE  Loops'
<1> DEFINE ls == Walked
<1>1. h \in live /\ at \in {h} \cup Of(h) /\ UNCHANGED <<mem, live, listed>>
  BY DEF LoopStart
<1>2. PICK pos \in {at, mem[dir][at]} :
        loop' = [dir |-> dir, head |-> h, pos |-> pos, n |-> mem[dir][pos],
                 rest |-> Ahead(dir, h, pos), dropped |-> FALSE]
  BY DEF LoopStart
<1>3. Good(mem, live, listed, ls)
  BY DEF ListsHeld
<1> HIDE DEF ls
<1>4. Of(h) = Set(ls[h]) /\ live \subseteq Heads
  BY <1>1, <1>3, Known
<1>5. pos \in {h} \cup Set(ls[h])
  <2> DEFINE w == Way(ls, dir, h)
  <2>1. /\ Set(w) = Set(ls[h]) /\ mem[dir][h] \in {h} \cup Set(w)
        /\ \A i \in 1..Len(w) : mem[dir][w[i]] = IF i < Len(w) THEN w[i + 1] ELSE h
    BY <1>1, <1>3, WayIs
  <2>2. Len(w) \in Nat
    BY <1>1, <1>3, WayIs
  <2> HIDE DEF w
  <2>3. CASE at = h
    BY <1>2, <2>1, <2>3
  <2>4. CASE at \in Set(w)
    <3>1. PICK i \in 1..Len(w) : at = w[i]
      BY <2>4 DEF Set
    <3>2. i < Len(w) => i + 1 \in 1..Len(w)
      BY <2>2
    <3>3. mem[dir][at] \in {h} \cup Set(w)
      BY <2>1, <3>1, <3>2 DEF Set
    <3> QED
      BY <1>2, <2>1, <2>4, <3>3
  <2> QED
    BY <1>1, <1>4, <2>1, <2>3, <2>4
<1> DEFINE rest == Ahead(dir, h, pos)
<1>6. rest \in Seq(Nodes) /\ OnCourse(mem, listed, dir, h, pos, mem[dir][pos], rest)
  BY <1>1, <1>3, <1>5, AheadIs
<1>7. pos \in live \cup listed
  <2>1. \A i \in 1..Len(ls[h]) : ls[h][i] \in listed
    BY <1>1, <1>3 DEF Good, Holds
  <2> QED
    BY <1>1, <1>5, <2>1 DEF Set
<1>8. pos \in Links /\ mem[dir][pos] \in Links
  <2>1. live \cup listed \subseteq Links
        /\ \A l \in live \cup listed : mem.next[l] \in live \cup listed /\ mem.prev[l] \in live \cup listed
    BY <1>3, Used
  <2> QED
    BY <1>7, <2>1
<1> HIDE DEF rest
<1>9. loop' = [dir |-> dir, head |-> h, pos |-> pos, n |-> mem[dir][pos], rest |-> rest, dropped |-> FALSE]
  BY <1>2 DEF rest
<1>10. loop' \in Loop
  BY <1>6, <1>8, <1>9 DEF Loop
<1>11. /\ loop'.dir = dir /\ loop'.head = h /\ loop'.pos = pos /\ loop'.n = mem[dir][pos]
       /\ loop'.rest = rest /\ loop'.dropped = FALSE
  BY <1>9
<1> QED
  BY <1>1, <1>6, <1>10, <1>11 DEF Loops

LEMMA LoopNextLoops ==
  ASSUME ListsHeld, Loops, LoopNext
  PROVE  Loops'
<1> DEFINE h    == loop.head
           rest == loop.rest
           n    == loop.n
           dir  == loop.dir
           rest2 == Tail(rest)
           n2   == mem[dir][n]
<1>1. /\ loop \in Loop /\ h \in live /\ ~loop.dropped /\ loop.pos # h
      /\ OnCourse(mem, listed, dir, h, loop.pos, n, rest)
      /\ loop' = [loop EXCEPT !.pos = n, !.n = n2, !.rest = rest2]
      /\ UNCHANGED <<mem, live, listed>>
  BY DEF LoopNext, Loops
<1>2. /\ dir \in {"next", "prev"} /\ h \in Heads /\ n \in Links /\ rest \in Seq(Nodes)
  BY <1>1 DEF Loop
<1>3. loop' = [dir |-> dir, head |-> h, pos |-> n, n |-> n2, rest |-> rest2, dropped |-> FALSE]
  BY <1>1 DEF Loop
<1> HIDE DEF h, rest, n, dir
<1>4. /\ Len(rest) >= 1
      /\ \A j, k \in 1..Len(rest) : rest[j] = rest[k] => j = k
      /\ n = IF Len(rest) > 1 THEN rest[2] ELSE h
      /\ \A k \in 2..Len(rest) :
           rest[k] \in listed /\ mem[dir][rest[k]] = IF k < Len(rest) THEN rest[k + 1] ELSE h
  BY <1>1 DEF OnCourse
<1> DEFINE L == Len(rest) - 1
<1>5. L \in Nat /\ Len(rest) = L + 1
  BY <1>2, <1>4, LenProperties
<1>6. rest2 \in Seq(Nodes) /\ Len(rest2) = L /\ \A k \in 1..L : rest2[k] = rest[k + 1]
  BY <1>2, <1>4, <1>5, HeadTailProperties, EmptySeq
<1> HIDE DEF rest2, L
<1>7. OnCourse(mem, listed, dir, h, n, n2, rest2)
  <2>1. CASE L = 0
    <3>1. n = h /\ rest2 = <<>>
      BY <1>4, <1>5, <1>6, <2>1, EmptySeq
    <3> QED
      BY <3>1 DEF OnCourse
  <2>2. CASE L # 0
    <3>1. L >= 1 /\ Len(rest) > 1 /\ 1 \in 1..L /\ 1 + 1 = 2
      BY <1>5, <2>2
    <3>2. n = rest2[1] /\ n = rest[2]
      BY <1>4, <1>6, <3>1
    <3>3. ASSUME NEW j \in 1..L, NEW k \in 1..L, rest2[j] = rest2[k] PROVE j = k
      <4>1. j + 1 \in 1..Len(rest) /\ k + 1 \in 1..Len(rest) /\ rest[j + 1] = rest[k + 1]
        BY <1>5, <1>6, <3>3
      <4> QED
        BY <1>4, <4>1
    <3>4. ASSUME NEW k \in 1..L
          PROVE  rest2[k] \in listed /\ mem[dir][rest2[k]] = IF k < L THEN rest2[k + 1] ELSE h
      <4>1. k + 1 \in 2..Len(rest) /\ rest2[k] = rest[k + 1] /\ (k < L <=> k + 1 < Len(rest))
        BY <1>5, <1>6
      <4>2. k < L => k + 1 \in 1..L
        BY <1>5
      <4>3. k < L => rest2[k + 1] = rest[(k + 1) + 1]
        BY <1>6, <4>2
      <4> QED
        BY <1>4, <4>1, <4>3
    <3>5. n2 = IF L > 1 THEN rest2[2] ELSE h
      <4>1. n2 = IF 1 < L THEN rest2[1 + 1] ELSE h
        BY <3>1, <3>2, <3>4
      <4> QED
        BY <1>5, <3>1, <4>1
    <3>6. \A k \in 2..L : k \in 1..L
      OBVIOUS
    <3> HIDE DEF n2
    <3> QED
      BY <1>6, <3>1, <3>2, <3>3, <3>4, <3>5, <3>6 DEF OnCourse
  <2> QED
    BY <2>1, <2>2
<1>8. n2 \in Links
  <2>1. live \cup listed \subseteq Links
        /\ \A l \in live \cup listed : mem.next[l] \in live \cup listed /\ mem.prev[l] \in live \cup listed
    BY Used DEF ListsHeld
  <2>2. n \in live \cup listed
    <3>1. Len(rest) > 1 => 2 \in 2..Len(rest)
      BY <1>5
    <3> QED
      BY <1>1, <1>4, <3>1 DEF h
  <2> QED
    BY <1>2, <2>1, <2>2
<1> HIDE DEF n2
<1>9. loop' \in Loop
  BY <1>2, <1>3, <1>6, <1>8 DEF Loop
<1>10. /\ loop'.dir = dir /\ loop'.head = h /\ loop'.pos = n /\ loop'.n = n2
       /\ loop'.rest = rest2 /\ loop'.dropped = FALSE
  BY <1>3
<1>11. h \in live
  BY <1>1 DEF h
<1> QED
  BY <1>1, <1>7, <1>9, <1>10, <1>11 DEF Loops

LEMMA LockLoops ==
  ASSUME ListsHeld, Loops, DropLock \/ ResetNext
  PROVE  Loops'
<1> DEFINE ls == Walked
<1>0. Good(mem, live, listed, ls)
  BY DEF ListsHeld
<1>1. CASE DropLock
  <2>1. /\ loop \in Loop /\ loop.head \in live /\ loop.dir = "next" /\ loop.pos \in Of(loop.head)
        /\ loop' = [loop EXCEPT !.dropped = TRUE] /\ UNCHANGED <<mem, live, listed>>
    BY <1>1 DEF DropLock, Loops
  <2> HIDE DEF ls
  <2>2. Of(loop.head) = Set(ls[loop.head])
    BY <1>0, <2>1, Known
  <2>3. loop' \in Loop /\ loop'.head = loop.head /\ loop'.dir = loop.dir /\ loop'.pos = loop.pos
        /\ loop'.dropped = TRUE
    BY <2>1 DEF Loop
  <2>4. Walked' = Walked
    BY <2>1 DEF Walked
  <2> QED
    BY <2>1, <2>2, <2>3, <2>4 DEF Loops, ls
<1>2. CASE ResetNext
  <2> DEFINE h == loop.head
             pos == loop.pos
             rest == Ahead("next", h, pos)
             n == mem.next[pos]
  <2>1. /\ loop \in Loop /\ h \in live /\ loop.dir = "next" /\ pos \in Set(ls[h])
        /\ loop' = [loop EXCEPT !.n = n, !.dropped = FALSE, !.rest = rest]
        /\ UNCHANGED <<mem, live, listed>>
    BY <1>2 DEF ResetNext, Loops, NoLoop
  <2> HIDE DEF ls
  <2>2. rest \in Seq(Nodes) /\ OnCourse(mem, listed, "next", h, pos, mem["next"][pos], rest)
    BY <1>0, <2>1, AheadIs
  <2>3. n \in Links
    <3>1. live \cup listed \subseteq Links
          /\ \A l \in live \cup listed : mem.next[l] \in live \cup listed /\ mem.prev[l] \in live \cup listed
      BY <1>0, Used
    <3>2. pos \in listed
      BY <1>0, <2>1 DEF Good, Holds, Set
    <3> QED
      BY <3>1, <3>2
  <2> HIDE DEF rest, n
  <2>4. /\ loop' \in Loop /\ loop'.head = h /\ loop'.dir = "next" /\ loop'.pos = pos /\ loop'.n = n
        /\ loop'.rest = rest /\ loop'.dropped = FALSE
    BY <2>1, <2>2, <2>3 DEF Loop
  <2> QED
    BY <2>1, <2>2, <2>4 DEF Loops, n
<1> QED
  BY <1>1, <1>2

\* The body of a loop, or, while its lock is dropped, someone else.
LEMMA BodyLoops ==
  ASSUME ListsHeld, Loops, loop # NoLoop, ~loop.dropped, NEW n \in Nodes, NEW at \in Links,
         Del(n) \/ Move(n, at)
  PROVE  Loops'
<1> DEFINE h == loop.head
           ls == Walked
<1>1. /\ loop \in Loop /\ h \in live
      /\ OnCourse(mem, listed, loop.dir, h, loop.pos, loop.n, loop.rest)
  BY DEF Loops
<1>2. ~Idle /\ ~loop.dropped
  BY DEF Idle
<1>3. n = loop.pos
  <2>1. InBody(n)
    BY DEF Del, Move
  <2> QED
    BY <1>1, <1>2, <2>1 DEF InBody, Loop
<1>4. n \in listed \/ (mem.next[n] = n /\ mem.prev[n] = n)
  BY DEF Del, Move, Removable, Alone
<1>5. Good(mem, live, listed, ls) /\ loop.dir \in {"next", "prev"} /\ loop.rest \in Seq(Nodes)
  BY <1>1 DEF ListsHeld, Loop
<1> HIDE DEF ls
<1>6. /\ \A k \in 2..Len(loop.rest) : loop.rest[k] \in listed /\ loop.rest[k] # n
      /\ Still(mem, Unlink(mem, n), loop.dir, loop.rest)
  BY <1>1, <1>3, <1>4, <1>5, OutOfTheWay
<1>7. CASE Del(n)
  <2>1. mem' \in {list_del(mem, n), list_del_init(mem, n), list_del_clearprev(mem, n)}
        /\ listed' = listed \ {n} /\ UNCHANGED <<live, loop>>
    BY <1>7 DEF Del, Stored
  <2>2. mem \in Memory /\ mem.prev[n] \in Links /\ mem.next[n] \in Links
    <3>1. mem \in Memory /\ live \cup listed \subseteq Links
          /\ \A l \in live \cup listed : mem.next[l] \in live \cup listed /\ mem.prev[l] \in live \cup listed
      BY <1>5, Used
    <3> QED
      BY <1>4, <3>1 DEF Links
  <2>3. Agree(Unlink(mem, n), mem', Links \ {n})
    BY <2>1, <2>2, DelStores
  <2>4. Still(mem, mem', loop.dir, loop.rest)
    <3>1. \A k \in 2..Len(loop.rest) : loop.rest[k] \in Links \ {n}
      BY <1>5, <1>6, Used
    <3> QED
      BY <1>5, <1>6, <2>3, <3>1 DEF Still, Agree
  <2>5. OnCourse(mem', listed', loop.dir, h, loop.pos, loop.n, loop.rest)
    <3>1. listed \ {loop.pos} \subseteq listed'
      BY <1>3, <2>1
    <3> QED
      BY <1>1, <1>5, <2>4, <3>1, CourseKept
  <2> QED
    BY <1>1, <2>1, <2>5 DEF Loops
<1>8. CASE Move(n, at)
  <2>1. mem' \in {list_move(mem, n, at), list_move_tail(mem, n, at)}
        /\ listed' = listed \cup {n} /\ at \in live \ {h} /\ UNCHANGED <<live, loop>>
    BY <1>2, <1>8 DEF Move, Stored
  <2>2. Still(mem, mem', loop.dir, loop.rest)
    BY <1>1, <1>3, <1>4, <1>5, <2>1, OntoAnother
  <2>3. OnCourse(mem', listed', loop.dir, h, loop.pos, loop.n, loop.rest)
    <3>1. listed \ {loop.pos} \subseteq listed'
      BY <1>3, <2>1
    <3> QED
      BY <1>1, <1>5, <2>2, <3>1, CourseKept
  <2> QED
    BY <1>1, <2>1, <2>3 DEF Loops
<1> QED
  BY <1>7, <1>8

LEMMA OthersLoops ==
  ASSUME ListsHeld, Loops, loop # NoLoop, loop.dropped, NEW n \in Nodes, NEW at \in Links,
         Add(n, at) \/ Del(n) \/ Move(n, at)
  PROVE  Loops'
<1> DEFINE h == loop.head
           x == loop.pos
           ls == Walked
<1>1. loop \in Loop /\ h \in live /\ loop.dir = "next" /\ x \in Set(ls[h])
  BY DEF Loops
<1>2. Good(mem, live, listed, ls) /\ Holds(mem, live, listed, ls) /\ live \subseteq Heads
  BY DEF ListsHeld, Good
<1>3. UNCHANGED <<live, loop>>
  BY DEF Add, Del, Move
<1> SUFFICES x \in Set(Walked'[h])
  BY <1>1, <1>3 DEF Loops
<1> HIDE DEF h, x, ls
<1>4. h \in Heads /\ <<n>> \in Seq(Nodes)
  BY <1>1, <1>2
<1>5. CASE Add(n, at)
  <2>1. at \in live \cup listed
    BY <1>5 DEF Add, Places
  <2>2. x \in Set(D!After(ls, at, <<n>>)[h]) /\ x \in Set(D!Before(ls, at, <<n>>)[h])
    BY <1>1, <1>2, <1>4, <2>1, StaysIn
  <2>3. Walked' = D!Effect(last', ls)
    BY <1>2, <1>5, AddSteps, OnlyWalkedNext DEF Moved
  <2>4. D!Effect(<<"add", n, at>>, ls) = D!After(ls, at, <<n>>)
    BY AddDoes DEF Does
  <2>5. D!Effect(<<"add_tail", n, at>>, ls) = D!Before(ls, at, <<n>>)
    BY AddTailDoes DEF Does
  <2>6. last' = <<"add", n, at>> \/ last' = <<"add_tail", n, at>>
    BY <1>5 DEF Add
  <2> QED
    BY <2>2, <2>3, <2>4, <2>5, <2>6
<1>6. ASSUME Del(n) \/ Move(n, at) PROVE n # x
  <2>1. InBody(n) /\ ~Idle
    BY <1>6 DEF Del, Move, Idle
  <2> QED
    BY <2>1 DEF InBody, x
<1>7. CASE Del(n)
  <2>1. x \in Set(D!Removed(ls, n)[h])
    BY <1>1, <1>2, <1>4, <1>6, <1>7, StaysOut
  <2>2. Walked' = D!Effect(last', ls)
    BY <1>2, <1>7, DelSteps, OnlyWalkedNext DEF Moved
  <2>3. D!Effect(<<"del", n>>, ls) = D!Removed(ls, n)
    BY DelDoes DEF Does
  <2>4. last' = <<"del", n>>
    BY <1>7 DEF Del
  <2> QED
    BY <2>1, <2>2, <2>3, <2>4
<1>8. CASE Move(n, at)
  <2> DEFINE us == D!Removed(ls, n)
  <2>1. at \in live \cup listed /\ at # n /\ (n \in listed \/ (mem.next[n] = n /\ mem.prev[n] = n))
    BY <1>8 DEF Move, Places, Removable, Alone
  <2>2. x \in Set(us[h])
    BY <1>1, <1>2, <1>4, <1>6, <1>8, StaysOut
  <2>3. Good(Unlink(mem, n), live, listed \ {n}, us)
    <3>1. Agree(Unlink(mem, n), Unlink(mem, n), Links \ {n})
      BY DEF Agree
    <3>2. mem \in Memory /\ mem.prev[n] \in Links /\ mem.next[n] \in Links
      <4>1. mem \in Memory /\ live \cup listed \subseteq Links
            /\ \A l \in live \cup listed : mem.next[l] \in live \cup listed /\ mem.prev[l] \in live \cup listed
        BY <1>2, Used
      <4> QED
        BY <2>1, <4>1 DEF Links
    <3>3. Unlink(mem, n) \in Memory
      BY <3>2, Joins DEF Unlink
    <3> QED
      BY <1>2, <2>1, <3>1, <3>3, Dels
  <2> HIDE DEF us
  <2>4. Holds(Unlink(mem, n), live, listed \ {n}, us)
    BY <2>3 DEF Good
  <2>5. at \in live \cup (listed \ {n})
    BY <2>1
  <2>6. x \in Set(D!After(us, at, <<n>>)[h]) /\ x \in Set(D!Before(us, at, <<n>>)[h])
    BY <1>2, <1>4, <2>2, <2>4, <2>5, StaysIn
  <2>7. Walked' = D!Effect(last', ls)
    BY <1>2, <1>8, MoveSteps, OnlyWalkedNext DEF Moved
  <2>8. D!Effect(<<"move", n, at>>, ls) = D!After(us, at, <<n>>)
    BY MoveDoes DEF Does, us
  <2>9. D!Effect(<<"move_tail", n, at>>, ls) = D!Before(us, at, <<n>>)
    BY MoveTailDoes DEF Does, us
  <2>10. last' = <<"move", n, at>> \/ last' = <<"move_tail", n, at>>
    BY <1>8 DEF Move
  <2> QED
    BY <2>6, <2>7, <2>8, <2>9, <2>10
<1> QED
  BY <1>5, <1>7, <1>8

LEMMA StepLoops ==
  ASSUME ListsHeld, Loops, Next
  PROVE  Loops'
<1>1. CASE loop' = NoLoop
  BY <1>1 DEF Loops
<1>2. CASE UNCHANGED <<mem, live, listed, loop>>
  BY <1>2 DEF Loops, Walked
<1>3. CASE \/ \E n \in Nodes, at \in Links : Add(n, at) \/ Move(n, at)
           \/ \E n \in Nodes : Del(n)
  <2>1. CASE loop = NoLoop
    <3>1. loop' = loop
      BY <1>3 DEF Add, Move, Del
    <3> QED
      BY <1>1, <2>1, <3>1
  <2>2. CASE loop # NoLoop /\ loop.dropped
    BY <1>3, <2>2, OthersLoops DEF Links
  <2>3. CASE loop # NoLoop /\ ~loop.dropped
    <3>1. \A n \in Nodes, at \in Links : ~Add(n, at)
      BY <2>3 DEF Add, Idle
    <3> QED
      BY <1>3, <2>3, <3>1, BodyLoops DEF Links
  <2> QED
    BY <2>1, <2>2, <2>3
<1>4. CASE \E dir \in {"next", "prev"}, h \in Heads, at \in Links : LoopStart(dir, h, at)
  BY <1>4, LoopStartLoops
<1>5. CASE LoopNext
  BY <1>5, LoopNextLoops
<1>6. CASE DropLock \/ ResetNext
  BY <1>6, LockLoops
<1>7. CASE LoopEnds
  BY <1>1, <1>7 DEF LoopEnds
<1>8. CASE \/ \E l \in Links : Initialise(l)
           \/ \E old, new \in Links : Replace(old, new)
           \/ \E e, f \in Nodes : Swap(e, f)
           \/ \E h \in Heads, i, j \in 1..Cardinality(Nodes), at \in Links : BulkMoveTail(h, i, j, at)
           \/ \E h \in Heads : RotateLeft(h) \/ AskList(h)
           \/ \E n \in Nodes, h \in Heads : RotateToFront(n, h) \/ AskEntry(n, h)
  <2>1. Idle /\ loop' = loop
    BY <1>8 DEF Initialise, Replace, Swap, BulkMoveTail, RotateLeft, AskList, RotateToFront, AskEntry
  <2> QED
    BY <1>1, <2>1 DEF Idle
<1>9. CASE \/ \E l, h \in Heads, entry \in Links : CutPosition(l, h, entry) \/ CutBefore(l, h, entry)
           \/ \E l \in Heads, at \in Links : Splice(l, at) \/ SpliceInit(l, at)
           \/ \E n \in Nodes, how \in {"init", "careful"} : DelInit(n, how)
  <2>1. Idle /\ loop' = loop
    BY <1>9 DEF CutPosition, CutBefore, Splice, SpliceInit, DelInit
  <2> QED
    BY <1>1, <2>1 DEF Idle
<1>10. CASE \/ \E f \in {"next", "prev"}, l \in Links : Arrive(f, l)
            \/ TestNext \/ TestPrev \/ Tested
  BY <1>2, <1>10 DEF Arrive, TestNext, TestPrev, Tested
<1> QED
  BY <1>3, <1>4, <1>5, <1>6, <1>7, <1>8, <1>9, <1>10 DEF Next

\* A loop that is safe against removal is where it should be, at any time.
THEOREM VisitsAll == Spec => []LoopVisitsAll
<1>1. Init => ListsHeld
  BY InitListsHeld
<1>2. ListsHeld /\ [Next]_vars => ListsHeld'
  BY StepListsHeld
<1>3. Init => Loops
  BY DEF Init, Loops
<1>4. ListsHeld /\ Loops /\ [Next]_vars => Loops'
  <2> SUFFICES ASSUME ListsHeld, Loops, [Next]_vars PROVE Loops'
    OBVIOUS
  <2>1. CASE Next
    BY <2>1, StepLoops
  <2>2. CASE UNCHANGED vars
    BY <2>2 DEF vars, Loops, Walked
  <2> QED
    BY <2>1, <2>2
<1>5. Loops => LoopVisitsAll
  <2> SUFFICES ASSUME Loops, loop # NoLoop, ~loop.dropped
               PROVE  loop.pos = IF loop.rest = <<>> THEN loop.head ELSE Head(loop.rest)
    BY DEF LoopVisitsAll
  <2>1. OnCourse(mem, listed, loop.dir, loop.head, loop.pos, loop.n, loop.rest) /\ loop.rest \in Seq(Nodes)
    BY DEF Loops, Loop
  <2>2. loop.rest # <<>> => Head(loop.rest) = loop.rest[1] /\ Len(loop.rest) >= 1
    BY <2>1, HeadTailProperties, EmptySeq
  <2>3. loop.rest = <<>> => ~(Len(loop.rest) >= 1)
    BY EmptySeq
  <2> QED
    BY <2>1, <2>2, <2>3 DEF OnCourse
<1> QED
  BY <1>1, <1>2, <1>3, <1>4, <1>5, PTL DEF Spec
=============================================================================
