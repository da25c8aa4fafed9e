---------------------------- MODULE HListsProofs ----------------------------
(***************************************************************************)
(* The links of list.h stay sound for any number of heads and nodes, and   *)
(* what the links hold are the sequences of module Deques.  Linked is about*)
(* single links, not about lists, and that is why it is inductive: no      *)
(* operation has to know what list its node is on.  ListsHeld adds that    *)
(* every node on a list is met by a walk; it needs Linked, which says where*)
(* a pprev leads.                                                          *)
(***************************************************************************)
EXTENDS HLists, NatRecursion, FiniteSetTheorems, SequenceTheorems

\* The next of one node is neither that of another nor a first.
LEMMA SlotsDiffer ==
  /\ \A h \in Heads : First(h) \in Slots
  /\ \A n \in Nodes : NextOf(n) \in Slots
  /\ \A h \in Heads, n \in Nodes : First(h) # NextOf(n)
  /\ \A n, o : NextOf(n) = NextOf(o) => n = o
  /\ \A h, g : First(h) = First(g) => h = g
  /\ {NULL, Poison, Wild} \cap (Nodes \cup Slots) = {}
  /\ \A s \in Slots : (\E h \in Heads : s = First(h)) \/ (\E n \in Nodes : s = NextOf(n))
  BY HListAssumption DEF Slots, First, NextOf

\* At the start no node is on a list.
LEMMA InitLinked == Init => Linked
<1> SUFFICES ASSUME Init PROVE Linked
  OBVIOUS
<1>1. mem \in Memory
  BY DEF Init, Memory
<1>2. /\ \A h \in Heads : mem.at[First(h)] = NULL
      /\ \A n \in Nodes : mem.at[NextOf(n)] = Wild /\ mem.pprev[n] = Wild
  BY SlotsDiffer DEF Init, First, NextOf
<1> QED
  BY <1>1, <1>2, SlotsDiffer DEF Init, Linked, hlist_fake, hlist_unhashed

\* Every operation keeps the links sound.
LEMMA StepLinked == Linked /\ [Next]_vars => Linked'
<1> SUFFICES ASSUME Linked, [Next]_vars PROVE Linked'
  OBVIOUS
<1> USE SlotsDiffer DEF Linked, Memory, Pointed, hlist_fake, hlist_unhashed
<1>1. ASSUME NEW n \in Nodes, NEW h \in Heads, AddHead(n, h) PROVE Linked'
  BY <1>1 DEF AddHead, hlist_add_head
<1>2. ASSUME NEW n \in Nodes, NEW m \in Nodes, AddBefore(n, m) PROVE Linked'
  BY <1>2 DEF AddBefore, hlist_add_before
<1>3. ASSUME NEW n \in Nodes, NEW m \in Nodes, AddBehind(n, m) PROVE Linked'
  BY <1>3 DEF AddBehind, hlist_add_behind
<1>4. ASSUME NEW n \in Nodes, Del(n) PROVE Linked'
  BY <1>4 DEF Del, hlist_del, Unlink
<1>5. ASSUME NEW n \in Nodes, InitNode(n) PROVE Linked'
  BY <1>5 DEF InitNode, INIT_HLIST_NODE
<1>6. ASSUME NEW n \in Nodes, DelInit(n) PROVE Linked'
  BY <1>6 DEF DelInit, hlist_del_init, Unlink, INIT_HLIST_NODE
<1>7. ASSUME NEW old \in Heads, NEW new \in Heads, MoveList(old, new) PROVE Linked'
  BY <1>7 DEF MoveList, hlist_empty, hlist_move_list
<1>8. ASSUME NEW n \in Nodes, AddFake(n) PROVE Linked'
  BY <1>8 DEF AddFake, hlist_add_fake
<1>9. CASE UNCHANGED vars
  BY <1>9 DEF vars
<1> QED
  BY <1>1, <1>2, <1>3, <1>4, <1>5, <1>6, <1>7, <1>8, <1>9 DEF Next

\* The links of every list are sound, whatever was added, removed or moved
\* before, and in any order.
THEOREM LinksSound == Spec => []Linked
  BY InitLinked, StepLinked, PTL DEF Spec

-----------------------------------------------------------------------------
(* Walks *)

Pointers == Nodes \cup {NULL, Poison, Wild}

\* hlist_for_each_entry() takes at most as many steps as there are nodes.
LEMMA NodesCounted == Cardinality(Nodes) \in Nat
  BY HListAssumption, FS_CardinalityType

\* The pointers that a walk goes through.
LEMMA CursorIs ==
  ASSUME NEW m \in Memory, NEW s \in Slots
  PROVE  /\ Cursor(m, s) \in [0..Cardinality(Nodes) -> Pointers]
         /\ Cursor(m, s)[0] = m.at[s]
         /\ \A k \in 1..Cardinality(Nodes) :
              Cursor(m, s)[k] = LET pos == Cursor(m, s)[k - 1] IN
                                IF pos \in Nodes THEN m.at[NextOf(pos)] ELSE pos
<1> DEFINE N == Cardinality(Nodes)
           After(pos) == IF pos \in Nodes THEN m.at[NextOf(pos)] ELSE pos
           G == [p \in Nat \X Pointers |-> After(p[2])]
           cell[k \in 0..N] ==
             IF k = 0 THEN m.at[s]
             ELSE LET pos == cell[k - 1] IN IF pos \in Nodes THEN m.at[NextOf(pos)] ELSE pos
<1>0. N \in Nat
  BY NodesCounted
<1>1. Cursor(m, s) = cell
  BY DEF Cursor
<1> HIDE DEF N
<1>2. m.at[s] \in Pointers /\ \A x \in Pointers : After(x) \in Pointers
  BY SlotsDiffer DEF Memory, Pointers
<1>3. \A k \in 1..N, x \in Pointers : G[<<k, x>>] = After(x)
  OBVIOUS
<1> HIDE DEF G
<1>4. PICK f \in [0..N -> Pointers] :
        f[0] = m.at[s] /\ \A k \in 1..N : f[k] = G[<<k, f[k - 1]>>]
  <2>1. 0 \in Nat /\ 0 <= N /\ \A k \in 0 + 1..N, x \in Pointers : G[<<k, x>>] \in Pointers
    BY <1>0, <1>2, <1>3
  <2>2. Recursive(Pointers, m.at[s], 0, N, G)
    BY <1>0, <1>2, <2>1, Recursion
  <2>3. 0 + 1 = 1
    OBVIOUS
  <2> QED
    BY <2>2, <2>3, Zenon DEF Recursive
<1>5. \A k \in 1..N : k - 1 \in 0..N /\ k \in 0..N /\ k # 0
  BY <1>0
<1>6. \A k \in 1..N : f[k] = After(f[k - 1])
  BY <1>3, <1>4, <1>5
<1>7. f = [k \in 0..N |-> IF k = 0 THEN m.at[s]
             ELSE LET pos == f[k - 1] IN IF pos \in Nodes THEN m.at[NextOf(pos)] ELSE pos]
  <2> DEFINE g == [k \in 0..N |-> IF k = 0 THEN m.at[s]
             ELSE LET pos == f[k - 1] IN IF pos \in Nodes THEN m.at[NextOf(pos)] ELSE pos]
  <2>1. ASSUME NEW k \in 0..N PROVE f[k] = g[k]
    <3>1. k = 0 \/ k \in 1..N
      BY <1>0
    <3> QED
      BY <1>4, <1>6, <3>1
  <2>2. f = g
    BY <1>4, <2>1
  <2> QED
    BY <2>2
<1>8. cell = [k \in 0..N |-> IF k = 0 THEN m.at[s]
             ELSE LET pos == cell[k - 1] IN IF pos \in Nodes THEN m.at[NextOf(pos)] ELSE pos]
  BY <1>7
<1> HIDE DEF cell
<1>9. cell[0] = m.at[s] /\ \A k \in 1..N : cell[k] = After(cell[k - 1])
  BY <1>0, <1>5, <1>8
<1>10. \A k \in 0..N : cell[k] \in Pointers
  <2> DEFINE T == {k \in 0..N : cell[k] \in Pointers}
  <2>1. 0 \in T /\ \A k \in 0 + 1..N : k - 1 \in T => k \in T
    BY <1>0, <1>2, <1>5, <1>9
  <2> HIDE DEF T
  <2>2. \A k \in 0..N : k \in T
    BY <1>0, <2>1, Upward
  <2> QED
    BY <2>2 DEF T
<1>11. cell \in [0..N -> Pointers]
  BY <1>8, <1>10
<1> QED
  BY <1>1, <1>9, <1>11 DEF N

-----------------------------------------------------------------------------
(* Sequences in memory *)

\* The slot that leads to the i-th node of a list, or to its end.
Lead(ls, h, i) == IF i = 1 THEN First(h) ELSE NextOf(ls[h][i - 1])

\* The sequences ls are what the memory m holds: the nodes `on' are in them,
\* each once, and each slot leads to the node that is next, or nowhere.
Holds(m, on, ls) ==
  /\ ls \in [Heads -> Seq(Nodes)]
  /\ \A h \in Heads : \A i \in 1..Len(ls[h]) : ls[h][i] \in on
  /\ \A n \in on : \E h \in Heads : \E i \in 1..Len(ls[h]) : ls[h][i] = n
  /\ \A h, g \in Heads : \A i \in 1..Len(ls[h]), j \in 1..Len(ls[g]) :
       ls[h][i] = ls[g][j] => h = g /\ i = j
  /\ \A h \in Heads : \A i \in 1..Len(ls[h]) + 1 :
       m.at[Lead(ls, h, i)] = IF i <= Len(ls[h]) THEN ls[h][i] ELSE NULL

\* The places of the lists.
LEMMA Elements ==
  ASSUME NEW m, NEW on, NEW ls, Holds(m, on, ls)
  PROVE  \A h \in Heads :
           /\ ls[h] \in Seq(Nodes) /\ Len(ls[h]) \in Nat
           /\ \A i \in 1..Len(ls[h]) : ls[h][i] \in Nodes /\ ls[h][i] \in on
<1> TAKE h \in Heads
<1>1. ls[h] \in Seq(Nodes)
  BY DEF Holds
<1>2. Len(ls[h]) \in Nat /\ ls[h] \in [1..Len(ls[h]) -> Nodes]
  BY <1>1, LenProperties
<1> QED
  BY <1>1, <1>2 DEF Holds

\* The slots that lead to them.
LEMMA Leads ==
  ASSUME NEW m, NEW on, NEW ls, Holds(m, on, ls)
  PROVE  \A h \in Heads : \A i \in 1..Len(ls[h]) + 1 :
           /\ Lead(ls, h, i) \in Slots
           /\ \A n \in Nodes \ on : Lead(ls, h, i) # NextOf(n)
           /\ m.at[Lead(ls, h, i)] = IF i <= Len(ls[h]) THEN ls[h][i] ELSE NULL
<1> TAKE h \in Heads
<1>1. Len(ls[h]) \in Nat /\ \A i \in 1..Len(ls[h]) : ls[h][i] \in Nodes /\ ls[h][i] \in on
  BY Elements
<1> TAKE i \in 1..Len(ls[h]) + 1
<1>2. i = 1 \/ i - 1 \in 1..Len(ls[h])
  BY <1>1
<1> QED
  BY <1>1, <1>2, SlotsDiffer DEF Lead, Holds

\* No slot leads to two places.
LEMMA LeadsDiffer ==
  ASSUME NEW m, NEW on, NEW ls, Holds(m, on, ls), NEW h \in Heads, NEW g \in Heads,
         NEW i \in 1..Len(ls[h]) + 1, NEW j \in 1..Len(ls[g]) + 1,
         Lead(ls, h, i) = Lead(ls, g, j)
  PROVE  h = g /\ i = j
<1>1. Len(ls[h]) \in Nat /\ Len(ls[g]) \in Nat
  BY Elements
<1>2. \A k \in 1..Len(ls[h]) : ls[h][k] \in Nodes
  BY Elements
<1>3. \A k \in 1..Len(ls[g]) : ls[g][k] \in Nodes
  BY Elements
<1>4. CASE i = 1 /\ j = 1
  BY <1>4, SlotsDiffer DEF Lead
<1>5. CASE i # 1 /\ j = 1
  BY <1>1, <1>2, <1>5, SlotsDiffer DEF Lead
<1>6. CASE i = 1 /\ j # 1
  BY <1>1, <1>3, <1>6, SlotsDiffer DEF Lead
<1>7. CASE i # 1 /\ j # 1
  <2>1. i - 1 \in 1..Len(ls[h]) /\ j - 1 \in 1..Len(ls[g]) /\ ls[h][i - 1] = ls[g][j - 1]
    BY <1>1, <1>7, SlotsDiffer DEF Lead
  <2>2. h = g /\ i - 1 = j - 1
    BY <2>1 DEF Holds
  <2> QED
    BY <2>2
<1> QED
  BY <1>4, <1>5, <1>6, <1>7

\* An hlist_for_each_entry() goes through the sequence.
LEMMA WalkIs ==
  ASSUME NEW m \in Memory, NEW on, NEW ls, Holds(m, on, ls), NEW h \in Heads
  PROVE  Items(m, First(h)) = ls[h]
<1> DEFINE N == Cardinality(Nodes)
           s == ls[h]
           L == Len(s)
           cell == Cursor(m, First(h))
<1>0. N \in Nat
  BY NodesCounted
<1>1. /\ DOMAIN cell = 0..N /\ cell[0] = m.at[First(h)]
      /\ \A k \in 1..N : cell[k] = IF cell[k - 1] \in Nodes THEN m.at[NextOf(cell[k - 1])] ELSE cell[k - 1]
  BY CursorIs, SlotsDiffer
<1>2. /\ s \in Seq(Nodes) /\ L \in Nat /\ s = [k \in 1..L |-> s[k]]
      /\ \A i \in 1..L : s[i] \in Nodes
  <2>1. ls[h] \in Seq(Nodes) /\ Len(ls[h]) \in Nat /\ ls[h] \in [1..Len(ls[h]) -> Nodes]
    BY LenProperties DEF Holds
  <2>2. \A i \in 1..Len(ls[h]) : ls[h][i] \in Nodes
    BY Elements
  <2> QED
    BY <2>1, <2>2
<1>3. /\ m.at[First(h)] = IF 1 <= L THEN s[1] ELSE NULL
      /\ \A i \in 1..L : m.at[NextOf(s[i])] = IF i + 1 <= L THEN s[i + 1] ELSE NULL
  <2>1. 1 \in 1..L + 1 /\ \A i \in 1..L : i + 1 \in 1..L + 1 /\ i + 1 # 1 /\ (i + 1) - 1 = i
    BY <1>2
  <2>2. \A i \in 1..L + 1 : m.at[Lead(ls, h, i)] = IF i <= L THEN s[i] ELSE NULL
    BY DEF Holds
  <2>3. Lead(ls, h, 1) = First(h) /\ \A i \in 1..L : Lead(ls, h, i + 1) = NextOf(s[i])
    BY <2>1 DEF Lead
  <2> QED
    BY <2>1, <2>2, <2>3
<1>4. \A i, j \in 1..L : s[i] = s[j] => i = j
  BY DEF Holds
<1> HIDE DEF cell, s, N
<1>5. L <= N
  <2> SUFFICES ASSUME N < L PROVE FALSE
    BY <1>0, <1>2
  <2>1. IsFiniteSet(1..L) /\ Cardinality(1..L) = L
    <3>1. 1 \in Int /\ L \in Int
      BY <1>2
    <3>2. IsFiniteSet(1..L) /\ Cardinality(1..L) = IF 1 > L THEN 0 ELSE L - 1 + 1
      BY <3>1, FS_Interval
    <3> QED
      BY <1>2, <3>2
  <2>2. IsFiniteSet(Nodes) /\ Cardinality(Nodes) < Cardinality(1..L)
    BY <2>1, HListAssumption DEF N
  <2>3. s \in [1..L -> Nodes]
    BY <1>2
  <2> DEFINE I == 1..L
  <2>4. IsFiniteSet(I) /\ Cardinality(Nodes) < Cardinality(I) /\ s \in [I -> Nodes] /\ \A i, j \in I : s[i] = s[j] => i = j
    BY <1>4, <2>1, <2>2, <2>3
  <2> HIDE DEF I
  <2>5. \E x, y \in I : x # y /\ s[x] = s[y]
    BY <2>2, <2>4, FS_PigeonHole
  <2> QED
    BY <2>4, <2>5
<1> HIDE DEF L
<1>6. \A k \in 0..N : cell[k] = IF k + 1 <= L THEN s[k + 1] ELSE NULL
  <2> DEFINE T == {k \in 0..N : cell[k] = IF k + 1 <= L THEN s[k + 1] ELSE NULL}
  <2>1. 0 \in T
    BY <1>0, <1>1, <1>3
  <2>2. ASSUME NEW k \in 0 + 1..N, k - 1 \in T PROVE k \in T
    <3>1. k \in 1..N /\ k \in 0..N /\ (k - 1) + 1 = k /\ k \in Nat
      BY <1>0
    <3>2. cell[k - 1] = IF k <= L THEN s[k] ELSE NULL
      BY <2>2, <3>1
    <3>3. CASE k <= L
      <4>1. k \in 1..L
        BY <1>2, <3>1, <3>3
      <4> QED
        BY <1>1, <1>2, <1>3, <3>1, <3>2, <3>3, <4>1
    <3>4. CASE ~(k <= L)
      BY <1>1, <1>2, <3>1, <3>2, <3>4, HListAssumption
    <3> QED
      BY <3>3, <3>4
  <2> HIDE DEF T
  <2>3. \A k \in 0..N : k \in T
    BY <1>0, <2>1, <2>2, Upward
  <2> QED
    BY <2>3 DEF T
<1>7. {j \in 0..N : cell[j] \in Nodes} = 0..L - 1
  <2>1. \A j \in 0..N : j + 1 <= L <=> j \in 0..L - 1
    BY <1>0, <1>2
  <2>2. \A j \in 0..L - 1 : j \in 0..N /\ j + 1 \in 1..L
    BY <1>0, <1>2, <1>5
  <2>3. \A j \in 0..N : cell[j] \in Nodes <=> j \in 0..L - 1
    BY <1>2, <1>6, <2>1, <2>2, HListAssumption
  <2> QED
    BY <2>2, <2>3
<1>8. Cardinality(0..L - 1) = L
  <2>1. 0 \in Int /\ L - 1 \in Int
    BY <1>2
  <2>2. Cardinality(0..L - 1) = IF 0 > L - 1 THEN 0 ELSE (L - 1) - 0 + 1
    BY <2>1, FS_Interval
  <2> QED
    BY <1>2, <2>2
<1>9. Items(m, First(h)) = [k \in 1..L |-> cell[k - 1]]
  BY <1>1, <1>7, <1>8 DEF Items, cell
<1>10. \A k \in 1..L : k - 1 \in 0..N /\ (k - 1) + 1 = k /\ k <= L
  BY <1>0, <1>2, <1>5
<1>11. \A k \in 1..L : cell[k - 1] = s[k]
  BY <1>6, <1>10
<1> QED
  BY <1>2, <1>9, <1>11 DEF s

\* t is s with n for its i-th element, or without the i-th.
With(s, i, n, t) ==
  /\ t \in Seq(Nodes) /\ Len(t) = Len(s) + 1
  /\ \A j \in 1..Len(s) + 1 : t[j] = IF j < i THEN s[j] ELSE IF j = i THEN n ELSE s[j - 1]
Without(s, i, t) ==
  /\ t \in Seq(Nodes) /\ Len(t) = Len(s) - 1
  /\ \A j \in 1..Len(s) - 1 : t[j] = IF j < i THEN s[j] ELSE s[j + 1]

\* Between the memory a and the memory b, node n is put behind the slot p, or
\* taken out from there.
LinkedIn(a, b, p, n) ==
  \A s \in Slots : b.at[s] = IF s = p THEN n ELSE IF s = NextOf(n) THEN a.at[p] ELSE a.at[s]
LinkedOut(a, b, p, n) ==
  \A s \in Slots : s # NextOf(n) => b.at[s] = IF s = p THEN a.at[NextOf(n)] ELSE a.at[s]

\* A node that is linked in before the i-th place of a list is the i-th there.
LEMMA Inserted ==
  ASSUME NEW a, NEW b, NEW on, NEW ls, Holds(a, on, ls), NEW n \in Nodes \ on,
         NEW h \in Heads, NEW i \in 1..Len(ls[h]) + 1,
         NEW t, With(ls[h], i, n, t), LinkedIn(a, b, Lead(ls, h, i), n)
  PROVE  Holds(b, on \cup {n}, [ls EXCEPT ![h] = t])
<1> DEFINE us == [ls EXCEPT ![h] = t]
           L == Len(ls[h])
<1>0. /\ t \in Seq(Nodes) /\ Len(t) = L + 1
      /\ \A j \in 1..L + 1 : t[j] = IF j < i THEN ls[h][j] ELSE IF j = i THEN n ELSE ls[h][j - 1]
      /\ \A s \in Slots : b.at[s] = IF s = Lead(ls, h, i) THEN n
                                    ELSE IF s = NextOf(n) THEN a.at[Lead(ls, h, i)] ELSE a.at[s]
  BY DEF With, LinkedIn
<1>1. us \in [Heads -> Seq(Nodes)] /\ us[h] = t /\ \A g \in Heads : g # h => us[g] = ls[g]
  BY <1>0 DEF Holds
<1>2. L \in Nat /\ i \in Nat /\ \A j \in 1..L : ls[h][j] \in Nodes /\ ls[h][j] \in on
  BY Elements
<1>3. \A g \in Heads : \A j \in 1..Len(ls[g]) : ls[g][j] \in Nodes /\ ls[g][j] \in on /\ ls[g][j] # n
  BY Elements
<1> HIDE DEF us
<1>4. Len(us[h]) = L + 1
  BY <1>0, <1>1
<1>5. \A j \in 1..L + 1 : IF j < i THEN j \in 1..L /\ t[j] = ls[h][j]
                          ELSE IF j = i THEN t[j] = n ELSE j - 1 \in 1..L /\ t[j] = ls[h][j - 1]
  BY <1>0, <1>2
<1>6. \A g \in Heads : \A j \in 1..Len(us[g]) : us[g][j] \in on \cup {n}
  <2> TAKE g \in Heads
  <2>1. CASE g = h
    BY <1>1, <1>2, <1>4, <1>5, <2>1
  <2>2. CASE g # h
    BY <1>1, <1>3, <2>2
  <2> QED
    BY <2>1, <2>2
<1>7. \A x \in on \cup {n} : \E g \in Heads : \E j \in 1..Len(us[g]) : us[g][j] = x
  <2> TAKE x \in on \cup {n}
  <2>1. CASE x = n
    <3>1. i \in 1..L + 1 /\ t[i] = n
      BY <1>2, <1>5
    <3> QED
      BY <1>1, <1>4, <2>1, <3>1
  <2>2. CASE x # n
    <3>0. PICK g \in Heads : \E j \in 1..Len(ls[g]) : ls[g][j] = x
      BY <2>2 DEF Holds
    <3>1. PICK j \in 1..Len(ls[g]) : ls[g][j] = x
      BY <3>0
    <3>2. CASE g # h
      BY <1>1, <3>1, <3>2
    <3>3. CASE g = h /\ j < i
      <4>1. j \in 1..L + 1 /\ t[j] = x
        BY <1>2, <1>5, <3>1, <3>3
      <4> QED
        BY <1>1, <1>4, <4>1
    <3>4. CASE g = h /\ ~(j < i)
      <4>1. j + 1 \in 1..L + 1 /\ ~(j + 1 < i) /\ j + 1 # i /\ (j + 1) - 1 = j
        BY <1>2, <3>1, <3>4
      <4>2. t[j + 1] = x
        BY <1>5, <3>1, <3>4, <4>1
      <4> QED
        BY <1>1, <1>4, <4>1, <4>2
    <3> QED
      BY <3>2, <3>3, <3>4
  <2> QED
    BY <2>1, <2>2
<1>8. \A j, k \in 1..L + 1 : t[j] = t[k] => j = k
  <2>1. \A j, k \in 1..L : ls[h][j] = ls[h][k] => j = k
    BY DEF Holds
  <2>2. \A j \in 1..L : ls[h][j] # n
    BY <1>3
  <2> TAKE j, k \in 1..L + 1
  <2> HAVE t[j] = t[k]
  <2> DEFINE p(x) == IF x < i THEN x ELSE x - 1
  <2>3. \A x \in 1..L + 1 : x # i => p(x) \in 1..L /\ t[x] = ls[h][p(x)]
    BY <1>2, <1>5
  <2>4. j = i <=> k = i
    <3>1. t[i] = n
      BY <1>2, <1>5
    <3>2. \A x \in 1..L + 1 : x # i => t[x] # n
      BY <2>2, <2>3
    <3> QED
      BY <3>1, <3>2
  <2>5. j # i => p(j) = p(k)
    BY <2>1, <2>3, <2>4
  <2> QED
    BY <1>2, <2>4, <2>5
<1>9. \A g \in Heads : g # h => \A j \in 1..L + 1, k \in 1..Len(ls[g]) : t[j] # ls[g][k]
  <2>1. \A g \in Heads : g # h => \A j \in 1..L, k \in 1..Len(ls[g]) : ls[h][j] # ls[g][k]
    BY DEF Holds
  <2>2. \A j \in 1..L + 1 : t[j] = n \/ \E x \in 1..L : t[j] = ls[h][x]
    BY <1>2, <1>5
  <2> QED
    BY <1>3, <2>1, <2>2
<1>10. \A g, f \in Heads : \A j \in 1..Len(us[g]), k \in 1..Len(us[f]) :
         us[g][j] = us[f][k] => g = f /\ j = k
  <2> TAKE g, f \in Heads
  <2> TAKE j \in 1..Len(us[g]), k \in 1..Len(us[f])
  <2>1. CASE g = h /\ f = h
    BY <1>1, <1>4, <1>8, <2>1
  <2>2. CASE g = h /\ f # h
    BY <1>1, <1>4, <1>9, <2>2
  <2>3. CASE g # h /\ f = h
    <3>1. us[g] = ls[g] /\ us[f] = t /\ t[k] # ls[g][j]
      BY <1>1, <1>4, <1>9, <2>3
    <3> QED
      BY <3>1
  <2>4. CASE g # h /\ f # h
    BY <1>1, <2>4 DEF Holds
  <2> QED
    BY <2>1, <2>2, <2>3, <2>4
<1>11. \A g \in Heads : \A j \in 1..Len(us[g]) + 1 :
         b.at[Lead(us, g, j)] = IF j <= Len(us[g]) THEN us[g][j] ELSE NULL
  <2> TAKE g \in Heads
  <2> TAKE j \in 1..Len(us[g]) + 1
  <2>1. ASSUME NEW f \in Heads, NEW k \in 1..Len(ls[f]) + 1, f # h \/ k # i
        PROVE  b.at[Lead(ls, f, k)] = IF k <= Len(ls[f]) THEN ls[f][k] ELSE NULL
    <3>1. Lead(ls, f, k) \in Slots /\ Lead(ls, f, k) # Lead(ls, h, i)
      BY <2>1, Leads, LeadsDiffer
    <3>2. Lead(ls, f, k) # NextOf(n)
      BY Leads
    <3> QED
      BY <1>0, <3>1, <3>2, Leads
  <2>2. CASE g # h
    BY <1>1, <2>1, <2>2 DEF Lead
  <2>3. CASE g = h /\ j < i
    <3>1. j \in 1..L + 1 /\ j # i /\ j <= L /\ t[j] = ls[h][j]
      BY <1>2, <1>4, <1>5, <2>3
    <3>2. Lead(us, h, j) = Lead(ls, h, j)
      <4>1. j = 1 \/ (j - 1 \in 1..L + 1 /\ j - 1 < i)
        BY <1>2, <2>3, <3>1
      <4> QED
        BY <1>1, <1>5, <4>1 DEF Lead
    <3> QED
      BY <1>1, <1>2, <1>4, <2>1, <2>3, <3>1, <3>2
  <2>4. CASE g = h /\ j = i
    <3>1. Lead(us, h, i) = Lead(ls, h, i) /\ Lead(ls, h, i) \in Slots
      <4>1. i = 1 \/ (i - 1 \in 1..L + 1 /\ i - 1 < i)
        BY <1>2
      <4>2. Lead(ls, h, i) \in Slots
        BY Leads
      <4> QED
        BY <1>1, <1>5, <4>1, <4>2 DEF Lead
    <3>2. i <= L + 1 /\ t[i] = n
      BY <1>2, <1>5
    <3> QED
      BY <1>0, <1>1, <1>4, <2>4, <3>1, <3>2
  <2>5. CASE g = h /\ j = i + 1
    <3>1. Lead(us, h, j) = NextOf(n) /\ NextOf(n) \in Slots
      <4>1. j # 1 /\ j - 1 = i /\ t[i] = n
        BY <1>2, <1>5, <2>5
      <4> QED
        BY <1>1, <4>1, SlotsDiffer DEF Lead
    <3>2. NextOf(n) # Lead(ls, h, i)
      BY Leads
    <3>3. b.at[NextOf(n)] = IF i <= L THEN ls[h][i] ELSE NULL
      BY <1>0, <3>1, <3>2, Leads
    <3>4. j <= L + 1 <=> i <= L
      BY <1>2, <2>5
    <3>5. j <= L + 1 => t[j] = ls[h][i]
      BY <1>2, <1>5, <2>5
    <3> QED
      BY <1>1, <1>4, <2>5, <3>1, <3>3, <3>4, <3>5
  <2>6. CASE g = h /\ j > i + 1
    <3>1. j \in 1..L + 2
      BY <1>2, <1>4, <2>6
    <3>2. /\ j - 1 \in 1..L + 1 /\ j - 1 # i /\ ~(j - 1 < i) /\ j - 1 # 1 /\ j # 1
          /\ (j - 1) - 1 \in 1..L /\ (j <= L + 1 <=> j - 1 <= L)
      BY <1>2, <2>6, <3>1
    <3>3. Lead(us, h, j) = Lead(ls, h, j - 1)
      BY <1>1, <1>5, <3>2 DEF Lead
    <3>4. j <= L + 1 => t[j] = ls[h][j - 1]
      BY <1>2, <1>5, <2>6, <3>1
    <3> QED
      BY <1>1, <1>4, <2>1, <2>6, <3>2, <3>3, <3>4
  <2> QED
    BY <1>2, <1>4, <2>2, <2>3, <2>4, <2>5, <2>6
<1> QED
  BY <1>1, <1>6, <1>7, <1>10, <1>11 DEF Holds, us

\* The i-th node of a list that is linked out is in none.
LEMMA Unlinked ==
  ASSUME NEW a, NEW b, NEW on, NEW ls, Holds(a, on, ls),
         NEW h \in Heads, NEW i \in 1..Len(ls[h]),
         NEW t, Without(ls[h], i, t), LinkedOut(a, b, Lead(ls, h, i), ls[h][i])
  PROVE  Holds(b, on \ {ls[h][i]}, [ls EXCEPT ![h] = t])
<1> DEFINE us == [ls EXCEPT ![h] = t]
           L == Len(ls[h])
           n == ls[h][i]
<1>0. /\ t \in Seq(Nodes) /\ Len(t) = L - 1
      /\ \A j \in 1..L - 1 : t[j] = IF j < i THEN ls[h][j] ELSE ls[h][j + 1]
      /\ \A s \in Slots : s # NextOf(n) => b.at[s] = IF s = Lead(ls, h, i) THEN a.at[NextOf(n)] ELSE a.at[s]
  BY DEF Without, LinkedOut
<1>1. us \in [Heads -> Seq(Nodes)] /\ us[h] = t /\ \A g \in Heads : g # h => us[g] = ls[g]
  BY <1>0 DEF Holds
<1>2. L \in Nat /\ i \in Nat /\ n \in Nodes /\ \A j \in 1..L : ls[h][j] \in Nodes /\ ls[h][j] \in on
  BY Elements
<1>3. \A g \in Heads : \A j \in 1..Len(ls[g]) :
        ls[g][j] \in Nodes /\ ls[g][j] \in on /\ (g # h \/ j # i => ls[g][j] # n)
  <2>1. \A g \in Heads : \A j \in 1..Len(ls[g]) : ls[g][j] = ls[h][i] => g = h /\ j = i
    BY DEF Holds
  <2>2. \A g \in Heads : \A j \in 1..Len(ls[g]) : ls[g][j] \in Nodes /\ ls[g][j] \in on
    BY Elements
  <2> QED
    BY <2>1, <2>2
<1> HIDE DEF us, n
<1>4. Len(us[h]) = L - 1
  BY <1>0, <1>1
<1>5. \A j \in 1..L - 1 : IF j < i THEN j \in 1..L /\ j # i /\ t[j] = ls[h][j]
                          ELSE j + 1 \in 1..L /\ j + 1 # i /\ t[j] = ls[h][j + 1]
  BY <1>0, <1>2
<1>6. \A g \in Heads : \A j \in 1..Len(us[g]) : us[g][j] \in on \ {n}
  <2> TAKE g \in Heads
  <2>1. CASE g = h
    BY <1>1, <1>3, <1>4, <1>5, <2>1
  <2>2. CASE g # h
    BY <1>1, <1>3, <2>2
  <2> QED
    BY <2>1, <2>2
<1>7. \A x \in on \ {n} : \E g \in Heads : \E j \in 1..Len(us[g]) : us[g][j] = x
  <2> TAKE x \in on \ {n}
  <2>0. PICK g \in Heads : \E j \in 1..Len(ls[g]) : ls[g][j] = x
    BY DEF Holds
  <2>1. PICK j \in 1..Len(ls[g]) : ls[g][j] = x
    BY <2>0
  <2>2. CASE g # h
    BY <1>1, <2>1, <2>2
  <2>3. CASE g = h /\ j < i
    <3>1. j \in 1..L - 1 /\ t[j] = x
      BY <1>2, <1>5, <2>1, <2>3
    <3> QED
      BY <1>1, <1>4, <3>1
  <2>4. CASE g = h /\ ~(j < i)
    <3>1. j # i
      BY <2>1, <2>4 DEF n
    <3>2. j - 1 \in 1..L - 1 /\ ~(j - 1 < i) /\ (j - 1) + 1 = j
      BY <1>2, <2>1, <2>4, <3>1
    <3>3. t[j - 1] = x
      BY <1>5, <2>1, <2>4, <3>2
    <3> QED
      BY <1>1, <1>4, <3>2, <3>3
  <2> QED
    BY <2>2, <2>3, <2>4
<1>8. \A j, k \in 1..L - 1 : t[j] = t[k] => j = k
  <2>1. \A j, k \in 1..L : ls[h][j] = ls[h][k] => j = k
    BY DEF Holds
  <2> TAKE j, k \in 1..L - 1
  <2> HAVE t[j] = t[k]
  <2> DEFINE p(x) == IF x < i THEN x ELSE x + 1
  <2>2. \A x \in 1..L - 1 : p(x) \in 1..L /\ t[x] = ls[h][p(x)]
    BY <1>2, <1>5
  <2>3. p(j) = p(k)
    BY <2>1, <2>2
  <2> QED
    BY <1>2, <2>3
<1>9. \A g \in Heads : g # h => \A j \in 1..L - 1, k \in 1..Len(ls[g]) : t[j] # ls[g][k]
  <2>1. \A g \in Heads : g # h => \A j \in 1..L, k \in 1..Len(ls[g]) : ls[h][j] # ls[g][k]
    BY DEF Holds
  <2> QED
    BY <1>2, <1>5, <2>1
<1>10. \A g, f \in Heads : \A j \in 1..Len(us[g]), k \in 1..Len(us[f]) :
         us[g][j] = us[f][k] => g = f /\ j = k
  <2> TAKE g, f \in Heads
  <2> TAKE j \in 1..Len(us[g]), k \in 1..Len(us[f])
  <2>1. CASE g = h /\ f = h
    BY <1>1, <1>4, <1>8, <2>1
  <2>2. CASE g = h /\ f # h
    BY <1>1, <1>4, <1>9, <2>2
  <2>3. CASE g # h /\ f = h
    <3>1. us[g] = ls[g] /\ us[f] = t /\ t[k] # ls[g][j]
      BY <1>1, <1>4, <1>9, <2>3
    <3> QED
      BY <3>1
  <2>4. CASE g # h /\ f # h
    <3>1. us[g] = ls[g] /\ us[f] = ls[f]
      BY <1>1, <2>4
    <3>2. \A x \in 1..Len(ls[g]), y \in 1..Len(ls[f]) : ls[g][x] = ls[f][y] => g = f /\ x = y
      BY DEF Holds
    <3> QED
      BY <3>1, <3>2
  <2> QED
    BY <2>1, <2>2, <2>3, <2>4
<1>11. \A g \in Heads : \A j \in 1..Len(us[g]) + 1 :
         b.at[Lead(us, g, j)] = IF j <= Len(us[g]) THEN us[g][j] ELSE NULL
  <2> TAKE g \in Heads
  <2> TAKE j \in 1..Len(us[g]) + 1
  <2>0. i + 1 \in 1..L + 1 /\ i \in 1..L + 1 /\ i + 1 # 1 /\ (i + 1) - 1 = i /\ i + 1 # i
    BY <1>2
  <2>1. Lead(ls, h, i + 1) = NextOf(n)
    BY <2>0 DEF Lead, n
  <2>2. ASSUME NEW f \in Heads, NEW k \in 1..Len(ls[f]) + 1, f # h \/ k \notin {i, i + 1}
        PROVE  b.at[Lead(ls, f, k)] = IF k <= Len(ls[f]) THEN ls[f][k] ELSE NULL
    <3>1. Lead(ls, f, k) \in Slots /\ Lead(ls, f, k) # Lead(ls, h, i)
      BY <2>0, <2>2, Leads, LeadsDiffer
    <3>2. Lead(ls, f, k) # NextOf(n)
      BY <2>0, <2>1, <2>2, LeadsDiffer
    <3> QED
      BY <1>0, <3>1, <3>2, Leads
  <2>3. CASE g # h
    BY <1>1, <2>2, <2>3 DEF Lead
  <2>4. CASE g = h /\ j < i
    <3>1. j \in 1..L + 1 /\ j \notin {i, i + 1} /\ j \in 1..L - 1 /\ t[j] = ls[h][j]
      BY <1>2, <1>4, <1>5, <2>4
    <3>2. Lead(us, h, j) = Lead(ls, h, j)
      <4>1. j = 1 \/ (j - 1 \in 1..L - 1 /\ j - 1 < i)
        BY <1>2, <2>4, <3>1
      <4> QED
        BY <1>1, <1>5, <4>1 DEF Lead
    <3> QED
      BY <1>1, <1>2, <1>4, <2>2, <2>4, <3>1, <3>2
  <2>5. CASE g = h /\ j = i
    <3>1. Lead(us, h, i) = Lead(ls, h, i) /\ Lead(ls, h, i) \in Slots
      <4>1. i = 1 \/ (i - 1 \in 1..L - 1 /\ i - 1 < i)
        BY <1>2
      <4>2. Lead(ls, h, i) \in Slots
        BY <2>0, Leads
      <4> QED
        BY <1>1, <1>5, <4>1, <4>2 DEF Lead
    <3>2. Lead(ls, h, i) # NextOf(n)
      BY <2>0, <2>1, LeadsDiffer
    <3>3. b.at[Lead(ls, h, i)] = IF i + 1 <= L THEN ls[h][i + 1] ELSE NULL
      <4>1. b.at[Lead(ls, h, i)] = a.at[Lead(ls, h, i + 1)]
        BY <1>0, <2>1, <3>1, <3>2
      <4> QED
        BY <2>0, <4>1, Leads
    <3>4. (i <= L - 1 <=> i + 1 <= L) /\ (i <= L - 1 => t[i] = ls[h][i + 1])
      BY <1>2, <1>5
    <3> QED
      BY <1>1, <1>4, <2>5, <3>1, <3>3, <3>4
  <2>6. CASE g = h /\ j > i
    <3>1. j \in 1..L
      BY <1>2, <1>4, <2>6
    <3>2. /\ j + 1 \in 1..L + 1 /\ j + 1 \notin {i, i + 1} /\ j # 1 /\ j + 1 # 1 /\ (j + 1) - 1 = j
          /\ j - 1 \in 1..L - 1 /\ ~(j - 1 < i) /\ (j - 1) + 1 = j /\ (j <= L - 1 <=> j + 1 <= L)
      BY <1>2, <2>6, <3>1
    <3>3. Lead(us, h, j) = Lead(ls, h, j + 1)
      <4>1. t[j - 1] = ls[h][j]
        BY <1>5, <3>2
      <4> QED
        BY <1>1, <3>2, <4>1 DEF Lead
    <3>4. j <= L - 1 => t[j] = ls[h][j + 1]
      <4>1. j <= L - 1 => j \in 1..L - 1 /\ ~(j < i)
        BY <1>2, <2>6, <3>1
      <4> QED
        BY <1>5, <4>1
    <3> QED
      BY <1>1, <1>4, <2>2, <2>6, <3>2, <3>3, <3>4
  <2> QED
    BY <1>2, <1>4, <2>3, <2>4, <2>5, <2>6
<1> QED
  BY <1>1, <1>6, <1>7, <1>10, <1>11 DEF Holds, us, n

-----------------------------------------------------------------------------
(* What the calls do to sequences *)

\* n is put before the i-th element of s.
LEMMA PutBefore ==
  ASSUME NEW s \in Seq(Nodes), NEW i \in 1..Len(s) + 1, NEW n \in Nodes
  PROVE  With(s, i, n, SubSeq(s, 1, i - 1) \o <<n>> \o SubSeq(s, i, Len(s)))
<1> DEFINE L == Len(s)
           p == SubSeq(s, 1, i - 1)
           q == SubSeq(s, i, L)
           o == p \o <<n>>
<1>1. L \in Nat /\ i \in Int /\ i - 1 \in Int /\ \A j \in 1..L : s[j] \in Nodes
  BY LenProperties
<1>2. p \in Seq(Nodes) /\ Len(p) = i - 1 /\ \A j \in 1..i - 1 : p[j] = s[j]
  <2>1. \A j \in 1..i - 1 : s[j] \in Nodes
    BY <1>1
  <2>2. /\ p \in Seq(Nodes) /\ Len(p) = IF 1 <= i - 1 THEN (i - 1) - 1 + 1 ELSE 0
        /\ \A j \in 1..(i - 1) - 1 + 1 : p[j] = s[1 + j - 1]
    BY <1>1, <2>1, SubSeqProperties
  <2> QED
    BY <1>1, <2>2
<1>3. q \in Seq(Nodes) /\ Len(q) = L + 1 - i /\ \A j \in 1..L + 1 - i : q[j] = s[i + j - 1]
  <2>1. \A j \in i..L : s[j] \in Nodes
    BY <1>1
  <2>2. /\ q \in Seq(Nodes) /\ Len(q) = IF i <= L THEN L - i + 1 ELSE 0
        /\ \A j \in 1..L - i + 1 : q[j] = s[i + j - 1]
    BY <1>1, <2>1, SubSeqProperties
  <2> QED
    BY <1>1, <2>2
<1>4. <<n>> \in Seq(Nodes) /\ Len(<<n>>) = 1 /\ <<n>>[1] = n
  OBVIOUS
<1> HIDE DEF p, q, o
<1>5. o \in Seq(Nodes) /\ Len(o) = i /\ \A j \in 1..i : o[j] = IF j < i THEN s[j] ELSE n
  <2>1. /\ o \in Seq(Nodes) /\ Len(o) = Len(p) + 1
        /\ \A j \in 1..Len(p) + 1 : o[j] = IF j <= Len(p) THEN p[j] ELSE <<n>>[j - Len(p)]
    BY <1>2, <1>4, ConcatProperties DEF o
  <2> QED
    BY <1>1, <1>2, <1>4, <2>1
<1>6. /\ o \o q \in Seq(Nodes) /\ Len(o \o q) = Len(o) + Len(q)
      /\ \A j \in 1..Len(o) + Len(q) : (o \o q)[j] = IF j <= Len(o) THEN o[j] ELSE q[j - Len(o)]
  BY <1>3, <1>5, ConcatProperties
<1>7. Len(o \o q) = L + 1
  BY <1>1, <1>3, <1>5, <1>6
<1>8. ASSUME NEW j \in 1..L + 1
      PROVE  (o \o q)[j] = IF j < i THEN s[j] ELSE IF j = i THEN n ELSE s[j - 1]
  <2>1. CASE j <= i
    BY <1>1, <1>3, <1>5, <1>6, <2>1
  <2>2. CASE ~(j <= i)
    <3>1. j - i \in 1..L + 1 - i /\ i + (j - i) - 1 = j - 1 /\ j \in 1..Len(o) + Len(q) /\ ~(j <= Len(o))
      BY <1>1, <1>3, <1>5, <2>2
    <3>2. (o \o q)[j] = q[j - i] /\ q[j - i] = s[j - 1]
      BY <1>3, <1>5, <1>6, <3>1
    <3> QED
      BY <1>1, <2>2, <3>2
  <2> QED
    BY <2>1, <2>2
<1> QED
  BY <1>6, <1>7, <1>8 DEF o, p, q, With

\* n is put first.
LEMMA PutFirst ==
  ASSUME NEW s \in Seq(Nodes), NEW n \in Nodes
  PROVE  With(s, 1, n, <<n>> \o s)
<1>1. <<n>> \in Seq(Nodes) /\ Len(<<n>>) = 1 /\ <<n>>[1] = n /\ Len(s) \in Nat
  OBVIOUS
<1>2. /\ <<n>> \o s \in Seq(Nodes) /\ Len(<<n>> \o s) = 1 + Len(s)
      /\ \A j \in 1..1 + Len(s) : (<<n>> \o s)[j] = IF j <= 1 THEN <<n>>[j] ELSE s[j - 1]
  BY <1>1, ConcatProperties
<1> QED
  BY <1>1, <1>2 DEF With

\* The i-th element of s is taken out.
LEMMA TakenOut ==
  ASSUME NEW s \in Seq(Nodes), NEW i \in 1..Len(s)
  PROVE  Without(s, i, SubSeq(s, 1, i - 1) \o SubSeq(s, i + 1, Len(s)))
<1> DEFINE L == Len(s)
           p == SubSeq(s, 1, i - 1)
           q == SubSeq(s, i + 1, L)
<1>1. L \in Nat /\ i \in Int /\ i - 1 \in Int /\ i + 1 \in Int /\ \A j \in 1..L : s[j] \in Nodes
  BY LenProperties
<1>2. p \in Seq(Nodes) /\ Len(p) = i - 1 /\ \A j \in 1..i - 1 : p[j] = s[j]
  <2>1. \A j \in 1..i - 1 : s[j] \in Nodes
    BY <1>1
  <2>2. /\ p \in Seq(Nodes) /\ Len(p) = IF 1 <= i - 1 THEN (i - 1) - 1 + 1 ELSE 0
        /\ \A j \in 1..(i - 1) - 1 + 1 : p[j] = s[1 + j - 1]
    BY <1>1, <2>1, SubSeqProperties
  <2> QED
    BY <1>1, <2>2
<1>3. q \in Seq(Nodes) /\ Len(q) = L - i /\ \A j \in 1..L - i : q[j] = s[i + j]
  <2>1. \A j \in i + 1..L : s[j] \in Nodes
    BY <1>1
  <2>2. /\ q \in Seq(Nodes) /\ Len(q) = IF i + 1 <= L THEN L - (i + 1) + 1 ELSE 0
        /\ \A j \in 1..L - (i + 1) + 1 : q[j] = s[(i + 1) + j - 1]
    BY <1>1, <2>1, SubSeqProperties
  <2> QED
    BY <1>1, <2>2
<1> HIDE DEF p, q
<1>4. /\ p \o q \in Seq(Nodes) /\ Len(p \o q) = Len(p) + Len(q)
      /\ \A j \in 1..Len(p) + Len(q) : (p \o q)[j] = IF j <= Len(p) THEN p[j] ELSE q[j - Len(p)]
  BY <1>2, <1>3, ConcatProperties
<1>5. Len(p \o q) = L - 1
  BY <1>1, <1>2, <1>3, <1>4
<1>6. ASSUME NEW j \in 1..L - 1
      PROVE  (p \o q)[j] = IF j < i THEN s[j] ELSE s[j + 1]
  <2>1. CASE j < i
    BY <1>1, <1>2, <1>3, <1>4, <2>1
  <2>2. CASE ~(j < i)
    <3>1. j - (i - 1) \in 1..L - i /\ i + (j - (i - 1)) = j + 1 /\ j \in 1..Len(p) + Len(q) /\ ~(j <= Len(p))
      BY <1>1, <1>2, <1>3, <2>2
    <3>2. (p \o q)[j] = q[j - (i - 1)] /\ q[j - (i - 1)] = s[j + 1]
      BY <1>2, <1>3, <1>4, <3>1
    <3> QED
      BY <1>1, <2>2, <3>2
  <2> QED
    BY <2>1, <2>2
<1> QED
  BY <1>4, <1>5, <1>6 DEF p, q, Without

\* A node is found on its list only, and in its place.
LEMMA Found ==
  ASSUME NEW m, NEW on, NEW ls, Holds(m, on, ls), NEW h \in Heads, NEW i \in 1..Len(ls[h])
  PROVE  /\ D!Index(ls[h], ls[h][i]) = i
         /\ \A g \in Heads : D!Contains(ls[g], ls[h][i]) <=> g = h
         /\ ls[h][i] \notin Heads
<1>1. \A j \in 1..Len(ls[h]) : ls[h][j] = ls[h][i] => j = i
  BY DEF Holds
<1>2. D!Index(ls[h], ls[h][i]) = i
  BY <1>1 DEF D!Index
<1>3. \A g \in Heads : \A j \in 1..Len(ls[g]) : ls[g][j] = ls[h][i] => g = h
  BY DEF Holds
<1>4. ls[h][i] \notin Heads
  BY Elements, HListsAssumption
<1> QED
  BY <1>2, <1>3, <1>4 DEF D!Contains

\* What is on no list is found on none.
LEMMA NotFound ==
  ASSUME NEW m, NEW on, NEW ls, Holds(m, on, ls), NEW x, x \notin on
  PROVE  \A g \in Heads : ~D!Contains(ls[g], x)
  BY Elements DEF D!Contains

\* A head is a place before its first node.
LEMMA AddFirst ==
  ASSUME NEW m, NEW on, NEW ls, Holds(m, on, ls), NEW h \in Heads, NEW n
  PROVE  D!Effect(<<"add", n, h>>, ls) = [ls EXCEPT ![h] = <<n>> \o ls[h]]
<1>1. ls \in [Heads -> Seq(Nodes)]
  BY DEF Holds
<1>2. \A g \in Heads : ~D!Contains(ls[g], h)
  BY Elements, HListsAssumption DEF D!Contains
<1>3. D!After(ls, h, <<n>>) = [ls EXCEPT ![h] = <<n>> \o ls[h]]
  BY <1>1, <1>2 DEF D!After
<1>4. D!Effect(<<"add", n, h>>, ls) = D!After(ls, h, <<n>>)
  BY DEF D!Effect
<1> QED
  BY <1>3, <1>4

\* Behind a node.
LEMMA AddNext ==
  ASSUME NEW m, NEW on, NEW ls, Holds(m, on, ls), NEW h \in Heads, NEW i \in 1..Len(ls[h]), NEW n
  PROVE  D!Effect(<<"add", n, ls[h][i]>>, ls)
           = [ls EXCEPT ![h] = SubSeq(ls[h], 1, i) \o <<n>> \o SubSeq(ls[h], i + 1, Len(ls[h]))]
<1>1. ls \in [Heads -> Seq(Nodes)]
  BY DEF Holds
<1> DEFINE x == ls[h][i]
<1>2. /\ D!Index(ls[h], x) = i /\ x \notin Heads
      /\ \A g \in Heads : D!Contains(ls[g], x) <=> g = h
  BY Found
<1> HIDE DEF x
<1>3. D!After(ls, x, <<n>>)
        = [g \in Heads |-> IF g = h THEN SubSeq(ls[h], 1, i) \o <<n>> \o SubSeq(ls[h], i + 1, Len(ls[h])) ELSE ls[g]]
  BY <1>2 DEF D!After
<1>4. D!Effect(<<"add", n, x>>, ls) = D!After(ls, x, <<n>>)
  BY DEF D!Effect
<1>5. x = ls[h][i]
  BY DEF x
<1> QED
  BY <1>1, <1>3, <1>4, <1>5

\* Before a node.
LEMMA AddPrevious ==
  ASSUME NEW m, NEW on, NEW ls, Holds(m, on, ls), NEW h \in Heads, NEW i \in 1..Len(ls[h]), NEW n
  PROVE  D!Effect(<<"add_tail", n, ls[h][i]>>, ls)
           = [ls EXCEPT ![h] = SubSeq(ls[h], 1, i - 1) \o <<n>> \o SubSeq(ls[h], i, Len(ls[h]))]
<1>1. ls \in [Heads -> Seq(Nodes)]
  BY DEF Holds
<1> DEFINE x == ls[h][i]
<1>2. /\ D!Index(ls[h], x) = i /\ x \notin Heads
      /\ \A g \in Heads : D!Contains(ls[g], x) <=> g = h
  BY Found
<1> HIDE DEF x
<1>3. D!Before(ls, x, <<n>>)
        = [g \in Heads |-> IF g = h THEN SubSeq(ls[h], 1, i - 1) \o <<n>> \o SubSeq(ls[h], i, Len(ls[h])) ELSE ls[g]]
  BY <1>2 DEF D!Before
<1>4. D!Effect(<<"add_tail", n, x>>, ls) = D!Before(ls, x, <<n>>)
  BY DEF D!Effect
<1>5. x = ls[h][i]
  BY DEF x
<1> QED
  BY <1>1, <1>3, <1>4, <1>5

\* A node that is on a list leaves it.
LEMMA Removes ==
  ASSUME NEW m, NEW on, NEW ls, Holds(m, on, ls), NEW h \in Heads, NEW i \in 1..Len(ls[h])
  PROVE  D!Effect(<<"del", ls[h][i]>>, ls)
           = [ls EXCEPT ![h] = SubSeq(ls[h], 1, i - 1) \o SubSeq(ls[h], i + 1, Len(ls[h]))]
<1>1. ls \in [Heads -> Seq(Nodes)]
  BY DEF Holds
<1> DEFINE x == ls[h][i]
<1>2. /\ D!Index(ls[h], x) = i
      /\ \A g \in Heads : D!Contains(ls[g], x) <=> g = h
  BY Found
<1> HIDE DEF x
<1>3. D!Removed(ls, x)
        = [g \in Heads |-> IF g = h THEN SubSeq(ls[h], 1, i - 1) \o SubSeq(ls[h], i + 1, Len(ls[h])) ELSE ls[g]]
  BY <1>2 DEF D!Removed, D!RemoveAt
<1>4. D!Effect(<<"del", x>>, ls) = D!Removed(ls, x)
  BY DEF D!Effect
<1>5. x = ls[h][i]
  BY DEF x
<1> QED
  BY <1>1, <1>3, <1>4, <1>5

\* A node that is on none, fake or initialised, leaves all as they are.
LEMMA RemovesNone ==
  ASSUME NEW m, NEW on, NEW ls, Holds(m, on, ls), NEW x, x \notin on
  PROVE  D!Effect(<<"del", x>>, ls) = ls
<1>1. ls \in [Heads -> Seq(Nodes)]
  BY DEF Holds
<1>2. \A g \in Heads : ~D!Contains(ls[g], x)
  BY NotFound
<1>3. D!Removed(ls, x) = ls
  BY <1>1, <1>2 DEF D!Removed
<1>4. D!Effect(<<"del", x>>, ls) = D!Removed(ls, x)
  BY DEF D!Effect
<1> QED
  BY <1>3, <1>4

-----------------------------------------------------------------------------
(* The lists are sequences *)

\* What the nodes that are on no list point to does not matter.
LEMMA Untouched ==
  ASSUME NEW a, NEW b, NEW on, NEW ls, Holds(a, on, ls),
         \A s \in Slots : (\A n \in Nodes \ on : s # NextOf(n)) => b.at[s] = a.at[s]
  PROVE  Holds(b, on, ls)
<1>1. \A h \in Heads : \A i \in 1..Len(ls[h]) + 1 : b.at[Lead(ls, h, i)] = a.at[Lead(ls, h, i)]
  BY Leads
<1> QED
  BY <1>1 DEF Holds

\* How a node on a list is reached.
LEMMA Reached ==
  ASSUME Linked, NEW ls, Holds(mem, listed, ls), NEW n \in listed
  PROVE  \E h \in Heads, i \in Nat :
           /\ i \in 1..Len(ls[h]) /\ n = ls[h][i] /\ mem.pprev[n] = Lead(ls, h, i) /\ mem.at[Lead(ls, h, i)] = n
           /\ i \in 1..Len(ls[h]) + 1 /\ i + 1 \in 1..Len(ls[h]) + 1 /\ (i + 1) - 1 = i
           /\ NextOf(n) = Lead(ls, h, i + 1) /\ NextOf(n) # Lead(ls, h, i)
<1>1. PICK h \in Heads : \E i \in 1..Len(ls[h]) : n = ls[h][i]
  BY DEF Holds
<1>2. PICK i \in 1..Len(ls[h]) : n = ls[h][i]
  BY <1>1
<1>3. /\ i \in 1..Len(ls[h]) + 1 /\ i + 1 \in 1..Len(ls[h]) + 1
      /\ (i + 1) - 1 = i /\ i + 1 # 1 /\ i <= Len(ls[h]) /\ i # i + 1
  BY Elements
<1>4. NextOf(n) = Lead(ls, h, i + 1)
  BY <1>2, <1>3 DEF Lead
<1>5. NextOf(n) # Lead(ls, h, i)
  BY <1>3, <1>4, LeadsDiffer
<1>6. Lead(ls, h, i) \in Slots /\ mem.at[Lead(ls, h, i)] = n /\ n \in Nodes
  BY <1>2, <1>3, Leads DEF Linked
<1>7. mem.pprev[n] = Lead(ls, h, i)
  BY <1>6 DEF Linked
<1> QED
  BY <1>2, <1>3, <1>4, <1>5, <1>6, <1>7

\* What is stored.
LEMMA Stores ==
  ASSUME NEW f, DOMAIN f = Slots, NEW p \in Slots, NEW q \in Slots, NEW x, NEW y
  PROVE  \A s \in Slots : [f EXCEPT ![p] = x, ![q] = y][s] = IF s = q THEN y ELSE IF s = p THEN x ELSE f[s]
  OBVIOUS

\* At the start every list is empty.
LEMMA InitHolds == Init => Holds(mem, listed, [h \in Heads |-> <<>>])
<1> SUFFICES ASSUME Init PROVE Holds(mem, listed, [h \in Heads |-> <<>>])
  OBVIOUS
<1> DEFINE ls == [h \in Heads |-> <<>>]
<1>1. ls \in [Heads -> Seq(Nodes)] /\ \A h \in Heads : ls[h] = <<>> /\ Len(ls[h]) = 0
  OBVIOUS
<1>2. listed = {} /\ \A h \in Heads : mem.at[First(h)] = NULL
  BY SlotsDiffer DEF Init, First, NextOf
<1> HIDE DEF ls
<1>3. 1..0 = {} /\ 1..0 + 1 = {1} /\ ~(1 <= 0)
  OBVIOUS
<1>4. \A h \in Heads : \A i \in 1..Len(ls[h]) + 1 :
        mem.at[Lead(ls, h, i)] = IF i <= Len(ls[h]) THEN ls[h][i] ELSE NULL
  BY <1>1, <1>2, <1>3 DEF Lead
<1>5. \A h, g \in Heads : \A i \in 1..Len(ls[h]), j \in 1..Len(ls[g]) : ls[h][i] = ls[g][j] => h = g /\ i = j
  BY <1>1, <1>3
<1>6. /\ \A h \in Heads : \A i \in 1..Len(ls[h]) : ls[h][i] \in listed
      /\ \A n \in listed : \E h \in Heads : \E i \in 1..Len(ls[h]) : ls[h][i] = n
  BY <1>1, <1>2, <1>3
<1>7. Holds(mem, listed, ls)
  BY <1>1, <1>4, <1>5, <1>6 DEF Holds
<1> QED
  BY <1>7 DEF ls

\* Every operation does to the sequences in memory what Deques says of its call.
LEMMA StepHolds ==
  ASSUME Linked, NEW ls, Holds(mem, listed, ls), Next
  PROVE  Holds(mem', listed', D!Effect(last', ls))
<1>0. /\ ls \in [Heads -> Seq(Nodes)] /\ DOMAIN mem.at = Slots /\ listed \subseteq Nodes
      /\ NULL \notin Slots /\ \A n \in Nodes : NextOf(n) \in Slots
  BY SlotsDiffer DEF Holds, Linked, Memory
<1>1. ASSUME NEW n \in Nodes, NEW h \in Heads, AddHead(n, h)
      PROVE  Holds(mem', listed', D!Effect(last', ls))
  <2>1. /\ n \in Nodes \ listed /\ listed' = listed \cup {n} /\ last' = <<"add", n, h>>
        /\ mem'.at = [mem.at EXCEPT ![NextOf(n)] = mem.at[First(h)], ![First(h)] = n]
    BY <1>1 DEF AddHead, hlist_add_head
  <2>2. 1 \in 1..Len(ls[h]) + 1 /\ Lead(ls, h, 1) = First(h) /\ First(h) \in Slots
    BY Elements, SlotsDiffer DEF Lead
  <2>3. LinkedIn(mem, mem', Lead(ls, h, 1), n)
    BY <1>0, <2>1, <2>2, Stores DEF LinkedIn
  <2> DEFINE t == <<n>> \o ls[h]
  <2>4. With(ls[h], 1, n, t)
    BY <1>0, PutFirst
  <2>5. D!Effect(last', ls) = [ls EXCEPT ![h] = t]
    <3>1. D!Effect(<<"add", n, h>>, ls) = [ls EXCEPT ![h] = <<n>> \o ls[h]]
      BY AddFirst
    <3> QED
      BY <2>1, <3>1
  <2> HIDE DEF t
  <2>6. Holds(mem', listed \cup {n}, [ls EXCEPT ![h] = t])
    BY <2>1, <2>2, <2>3, <2>4, Inserted
  <2> QED
    BY <2>1, <2>5, <2>6
<1>2. ASSUME NEW n \in Nodes, NEW next \in Nodes, AddBefore(n, next)
      PROVE  Holds(mem', listed', D!Effect(last', ls))
  <2>1. /\ n \in Nodes \ listed /\ next \in listed /\ listed' = listed \cup {n}
        /\ last' = <<"add_tail", n, next>>
        /\ mem'.at = [mem.at EXCEPT ![NextOf(n)] = next, ![mem.pprev[next]] = n]
    BY <1>2 DEF AddBefore, hlist_add_before
  <2>2. PICK h \in Heads, i \in Nat :
          /\ i \in 1..Len(ls[h]) /\ next = ls[h][i] /\ mem.pprev[next] = Lead(ls, h, i) /\ mem.at[Lead(ls, h, i)] = next
          /\ i \in 1..Len(ls[h]) + 1
    BY <2>1, Reached
  <2>3. LinkedIn(mem, mem', Lead(ls, h, i), n)
    BY <1>0, <2>1, <2>2, Leads, Stores DEF LinkedIn
  <2> DEFINE t == SubSeq(ls[h], 1, i - 1) \o <<n>> \o SubSeq(ls[h], i, Len(ls[h]))
  <2>4. With(ls[h], i, n, t)
    BY <1>0, <2>2, PutBefore
  <2>5. D!Effect(last', ls) = [ls EXCEPT ![h] = t]
    <3>1. D!Effect(<<"add_tail", n, ls[h][i]>>, ls)
            = [ls EXCEPT ![h] = SubSeq(ls[h], 1, i - 1) \o <<n>> \o SubSeq(ls[h], i, Len(ls[h]))]
      <4>1. i \in 1..Len(ls[h])
        BY <2>2
      <4> QED
        BY <4>1, AddPrevious
    <3> QED
      BY <2>1, <2>2, <3>1
  <2> HIDE DEF t
  <2>6. Holds(mem', listed \cup {n}, [ls EXCEPT ![h] = t])
    BY <2>1, <2>2, <2>3, <2>4, Inserted
  <2> QED
    BY <2>1, <2>5, <2>6
<1>3. ASSUME NEW n \in Nodes, NEW prev \in Nodes, AddBehind(n, prev)
      PROVE  Holds(mem', listed', D!Effect(last', ls))
  <2>1. /\ n \in Nodes \ listed /\ prev \in listed /\ listed' = listed \cup {n}
        /\ last' = <<"add", n, prev>>
        /\ mem'.at = [mem.at EXCEPT ![NextOf(n)] = mem.at[NextOf(prev)], ![NextOf(prev)] = n]
    BY <1>3 DEF AddBehind, hlist_add_behind
  <2>2. PICK h \in Heads, i \in Nat :
          /\ i \in 1..Len(ls[h]) /\ prev = ls[h][i] /\ NextOf(prev) = Lead(ls, h, i + 1)
          /\ i + 1 \in 1..Len(ls[h]) + 1 /\ (i + 1) - 1 = i
    BY <2>1, Reached
  <2> DEFINE k == i + 1
  <2>3. LinkedIn(mem, mem', Lead(ls, h, k), n)
    BY <1>0, <2>1, <2>2, Leads, Stores DEF LinkedIn
  <2> DEFINE t == SubSeq(ls[h], 1, k - 1) \o <<n>> \o SubSeq(ls[h], k, Len(ls[h]))
  <2>4. k \in 1..Len(ls[h]) + 1 /\ k - 1 = i
    BY <2>2
  <2>5. D!Effect(last', ls) = [ls EXCEPT ![h] = t]
    <3>1. D!Effect(<<"add", n, ls[h][i]>>, ls)
            = [ls EXCEPT ![h] = SubSeq(ls[h], 1, i) \o <<n>> \o SubSeq(ls[h], i + 1, Len(ls[h]))]
      BY <2>2, AddNext
    <3> QED
      BY <2>1, <2>2, <3>1
  <2> HIDE DEF k
  <2>6. With(ls[h], k, n, t)
    BY <1>0, <2>4, PutBefore
  <2> HIDE DEF t
  <2>7. Holds(mem', listed \cup {n}, [ls EXCEPT ![h] = t])
    BY <2>1, <2>3, <2>4, <2>6, Inserted
  <2> QED
    BY <2>1, <2>5, <2>7
<1>4. ASSUME NEW n \in listed, last' = <<"del", n>>, listed' = listed \ {n},
             LinkedOut(mem, mem', mem.pprev[n], n)
      PROVE  Holds(mem', listed', D!Effect(last', ls))
  <2>1. PICK h \in Heads, i \in Nat : i \in 1..Len(ls[h]) /\ n = ls[h][i] /\ mem.pprev[n] = Lead(ls, h, i)
    BY Reached
  <2> DEFINE t == SubSeq(ls[h], 1, i - 1) \o SubSeq(ls[h], i + 1, Len(ls[h]))
  <2>2. Without(ls[h], i, t)
    BY <1>0, <2>1, TakenOut
  <2>3. D!Effect(last', ls) = [ls EXCEPT ![h] = t]
    BY <1>0, <1>4, <2>1, Removes
  <2> HIDE DEF t
  <2>4. Holds(mem', listed \ {ls[h][i]}, [ls EXCEPT ![h] = t])
    <3>1. LinkedOut(mem, mem', Lead(ls, h, i), ls[h][i])
      BY <1>4, <2>1
    <3> QED
      BY <2>1, <2>2, <3>1, Unlinked
  <2> QED
    BY <1>4, <2>1, <2>3, <2>4
<1>5. ASSUME NEW n \in Nodes \ listed, D!Effect(last', ls) = ls, listed' = listed,
             \A s \in Slots : s # NextOf(n) => mem'.at[s] = mem.at[s]
      PROVE  Holds(mem', listed', D!Effect(last', ls))
  BY <1>5, Untouched
<1>6. ASSUME NEW n \in Nodes, Del(n)
      PROVE  Holds(mem', listed', D!Effect(last', ls))
  <2>1. /\ last' = <<"del", n>> /\ listed' = listed \ {n} /\ (n \in listed \/ hlist_fake(mem, n))
        /\ mem'.at = [[mem.at EXCEPT ![mem.pprev[n]] = mem.at[NextOf(n)]] EXCEPT ![NextOf(n)] = Poison]
    BY <1>6 DEF Del, hlist_del, Unlink
  <2>2. CASE n \in listed
    <3>1. mem.pprev[n] \in Slots
      BY <2>2 DEF Linked
    <3> QED
      BY <1>0, <1>4, <2>1, <2>2, <3>1 DEF LinkedOut
  <2>3. CASE n \notin listed
    <3>1. mem.pprev[n] = NextOf(n) /\ D!Effect(last', ls) = ls
      BY <1>0, <2>1, <2>3, RemovesNone DEF hlist_fake
    <3> QED
      BY <1>0, <1>5, <2>1, <2>3, <3>1
  <2> QED
    BY <2>2, <2>3
<1>7. ASSUME NEW n \in Nodes, DelInit(n)
      PROVE  Holds(mem', listed', D!Effect(last', ls))
  <2>1. /\ last' = <<"del", n>> /\ listed' = listed \ {n}
        /\ (n \in listed \/ hlist_fake(mem, n) \/ hlist_unhashed(mem, n))
        /\ IF mem.pprev[n] = NULL THEN mem' = mem
           ELSE mem'.at = [[mem.at EXCEPT ![mem.pprev[n]] = mem.at[NextOf(n)]] EXCEPT ![NextOf(n)] = NULL]
    BY <1>7 DEF DelInit, hlist_del_init, hlist_unhashed, INIT_HLIST_NODE, Unlink
  <2>2. CASE n \in listed
    <3>1. mem.pprev[n] \in Slots
      BY <2>2 DEF Linked
    <3> QED
      BY <1>0, <1>4, <2>1, <2>2, <3>1 DEF LinkedOut
  <2>3. CASE n \notin listed
    <3>1. D!Effect(last', ls) = ls
      BY <1>0, <2>1, <2>3, RemovesNone
    <3>2. mem.pprev[n] = NULL \/ mem.pprev[n] = NextOf(n)
      BY <2>1, <2>3 DEF hlist_fake, hlist_unhashed
    <3>3. \A s \in Slots : s # NextOf(n) => mem'.at[s] = mem.at[s]
      BY <1>0, <2>1, <3>2
    <3> QED
      BY <1>5, <2>1, <2>3, <3>1, <3>3
  <2> QED
    BY <2>2, <2>3
<1>8. ASSUME NEW n \in Nodes, InitNode(n)
      PROVE  Holds(mem', listed', D!Effect(last', ls))
  <2>1. /\ last' = <<"init", n>> /\ listed' = listed /\ n \in Nodes \ listed
        /\ mem'.at = [mem.at EXCEPT ![NextOf(n)] = NULL]
    BY <1>8 DEF InitNode, INIT_HLIST_NODE
  <2>2. D!Effect(last', ls) = ls
    BY <2>1 DEF D!Effect
  <2> QED
    BY <1>0, <1>5, <2>1, <2>2
<1>9. ASSUME NEW n \in Nodes, AddFake(n)
      PROVE  Holds(mem', listed', D!Effect(last', ls))
  <2>1. last' = <<"init", n>> /\ listed' = listed /\ n \in Nodes \ listed /\ mem'.at = mem.at
    BY <1>9 DEF AddFake, hlist_add_fake
  <2>2. D!Effect(last', ls) = ls
    BY <2>1 DEF D!Effect
  <2> QED
    BY <1>0, <1>5, <2>1, <2>2
<1>10. ASSUME NEW old \in Heads, NEW new \in Heads, MoveList(old, new)
       PROVE  Holds(mem', listed', D!Effect(last', ls))
  <2> DEFINE us == [ls EXCEPT ![new] = ls[old], ![old] = <<>>]
  <2>1. /\ last' = <<"replace", old, new>> /\ listed' = listed /\ old # new /\ mem.at[First(new)] = NULL
        /\ mem'.at = [mem.at EXCEPT ![First(new)] = mem.at[First(old)], ![First(old)] = NULL]
    BY <1>10 DEF MoveList, hlist_move_list, hlist_empty
  <2>2. D!Effect(last', ls) = us
    BY <2>1 DEF D!Effect, D!Replaced
  <2>3. us \in [Heads -> Seq(Nodes)]
    <3>1. <<>> \in Seq(Nodes) /\ ls[old] \in Seq(Nodes)
      BY <1>0
    <3> QED
      BY <1>0, <3>1
  <2>4. us[new] = ls[old] /\ us[old] = <<>> /\ \A g \in Heads : g \notin {old, new} => us[g] = ls[g]
    BY <1>0, <2>1
  <2> HIDE DEF us
  <2>5. Len(ls[new]) = 0 /\ Len(us[old]) = 0
    <3>1. Len(ls[new]) \in Nat /\ \A i \in 1..Len(ls[new]) : ls[new][i] \in Nodes
      BY Elements
    <3>2. 1 \in 1..Len(ls[new]) + 1 /\ Lead(ls, new, 1) = First(new)
      BY <3>1 DEF Lead
    <3>3. NULL = IF 1 <= Len(ls[new]) THEN ls[new][1] ELSE NULL
      BY <2>1, <3>2, Leads
    <3> QED
      BY <2>4, <3>1, <3>3, HListAssumption
  <2> DEFINE home(g) == IF g = new THEN old ELSE g
  <2>6. \A g \in Heads : g # old =>
          home(g) \in Heads /\ us[g] = ls[home(g)] /\ \A f \in Heads : f # old /\ home(f) = home(g) => f = g
    BY <2>1, <2>4
  <2>7. \A g \in Heads : \A i \in 1..Len(us[g]) : us[g][i] \in listed
    BY <2>5, <2>6, Elements
  <2>8. ASSUME NEW n \in listed PROVE \E g \in Heads : \E i \in 1..Len(us[g]) : us[g][i] = n
    <3>1. PICK g \in Heads : \E i \in 1..Len(ls[g]) : ls[g][i] = n
      BY DEF Holds
    <3>2. g # new
      BY <2>5, <3>1
    <3> QED
      BY <2>1, <2>4, <3>1, <3>2
  <2>9. ASSUME NEW h \in Heads, NEW g \in Heads, NEW i \in 1..Len(us[h]), NEW j \in 1..Len(us[g]),
               us[h][i] = us[g][j]
        PROVE  h = g /\ i = j
    <3>1. h # old /\ g # old
      BY <2>5
    <3>2. home(h) = home(g) /\ i = j
      BY <2>6, <2>9, <3>1 DEF Holds
    <3> QED
      BY <2>6, <3>1, <3>2
  <2>10. ASSUME NEW h \in Heads, NEW i \in 1..Len(us[h]) + 1
         PROVE  mem'.at[Lead(us, h, i)] = IF i <= Len(us[h]) THEN us[h][i] ELSE NULL
    <3>1. First(old) # First(new) /\ First(old) \in Slots /\ First(new) \in Slots
      BY <2>1, SlotsDiffer
    <3>2. \A s \in Slots : mem'.at[s] = IF s = First(old) THEN NULL ELSE IF s = First(new) THEN mem.at[First(old)] ELSE mem.at[s]
      BY <1>0, <2>1, <3>1, Stores
    <3>3. CASE h = old
      <4>1. i = 1 /\ Lead(us, h, i) = First(old) /\ ~(i <= Len(us[h]))
        BY <2>5, <3>3 DEF Lead
      <4> QED
        BY <3>1, <3>2, <4>1
    <3>4. CASE h # old /\ i = 1
      <4>1. Lead(us, h, i) = First(h) /\ First(h) \in Slots /\ First(h) # First(old)
        BY <3>4, SlotsDiffer DEF Lead
      <4>2. mem'.at[First(h)] = mem.at[First(home(h))]
        BY <3>2, <4>1, SlotsDiffer
      <4>3. Lead(ls, home(h), 1) = First(home(h)) /\ i \in 1..Len(ls[home(h)]) + 1
        BY <2>6, <2>10, <3>4 DEF Lead
      <4>4. home(h) \in Heads /\ us[h] = ls[home(h)]
        BY <2>6, <3>4
      <4> HIDE DEF home
      <4>5. mem.at[First(home(h))] = IF i <= Len(ls[home(h)]) THEN ls[home(h)][i] ELSE NULL
        BY <3>4, <4>3, <4>4, Leads
      <4> QED
        BY <4>1, <4>2, <4>4, <4>5
    <3>5. CASE h # old /\ i # 1
      <4>1. home(h) \in Heads /\ us[h] = ls[home(h)] /\ i \in 1..Len(ls[home(h)]) + 1
        BY <2>6, <2>10, <3>5
      <4> HIDE DEF home
      <4>2. Lead(us, h, i) = Lead(ls, home(h), i) /\ Lead(us, h, i) = NextOf(us[h][i - 1])
        BY <3>5, <4>1 DEF Lead
      <4>3. Lead(us, h, i) \in Slots /\ Lead(us, h, i) \notin {First(old), First(new)}
        <5>1. Len(ls[home(h)]) \in Nat /\ \A j \in 1..Len(ls[home(h)]) : ls[home(h)][j] \in Nodes
          BY <4>1, Elements
        <5>2. us[h][i - 1] \in Nodes
          BY <3>5, <4>1, <5>1
        <5> QED
          BY <4>2, <5>2, SlotsDiffer
      <4>4. mem.at[Lead(ls, home(h), i)] = IF i <= Len(ls[home(h)]) THEN ls[home(h)][i] ELSE NULL
        BY <4>1, Leads
      <4> QED
        BY <3>2, <4>1, <4>2, <4>3, <4>4
    <3> QED
      BY <3>3, <3>4, <3>5
  <2>11. Holds(mem', listed, us)
    BY <2>3, <2>7, <2>8, <2>9, <2>10 DEF Holds
  <2> QED
    BY <2>1, <2>2, <2>11
<1> QED
  BY <1>1, <1>2, <1>3, <1>6, <1>7, <1>8, <1>9, <1>10 DEF Next

\* What a walk of each list gives.
Walked(m) == [h \in Heads |-> Items(m, First(h))]

\* The memory holds what a walk of it gives, and nothing else.
LEMMA HeldIsWalked ==
  ASSUME NEW m \in Memory, NEW on, NEW ls, Holds(m, on, ls)
  PROVE  ls = Walked(m)
<1>1. DOMAIN ls = Heads /\ ls \in [Heads -> Seq(Nodes)]
  BY DEF Holds
<1>2. \A h \in Heads : Items(m, First(h)) = ls[h]
  BY WalkIs
<1> QED
  BY <1>1, <1>2 DEF Walked

\* The links are sound, and the nodes that are on a list are those that the
\* walks of the lists meet, each once.
ListsHeld == Linked /\ Holds(mem, listed, Walked(mem))

\* At the start no walk meets a node.
LEMMA InitListsHeld == Init => ListsHeld /\ Walked(mem) = [h \in Heads |-> <<>>]
<1> SUFFICES ASSUME Init PROVE ListsHeld /\ Walked(mem) = [h \in Heads |-> <<>>]
  OBVIOUS
<1>1. Linked /\ mem \in Memory
  BY InitLinked DEF Linked
<1> DEFINE ls == [h \in Heads |-> <<>>]
<1>2. Holds(mem, listed, ls)
  BY InitHolds
<1> HIDE DEF ls
<1>3. ls = Walked(mem)
  BY <1>1, <1>2, HeldIsWalked
<1> QED
  BY <1>1, <1>2, <1>3 DEF ListsHeld, ls

\* After a step they meet what the abstract call leaves.
LEMMA StepListsHeld ==
  ASSUME ListsHeld, [Next]_vars
  PROVE  /\ ListsHeld'
         /\ Next => Walked(mem)' = D!Effect(last', Walked(mem))
<1>1. Linked' /\ mem' \in Memory
  BY StepLinked DEF ListsHeld, Linked
<1>2. CASE Next
  <2> DEFINE us == D!Effect(last', Walked(mem))
  <2>1. Holds(mem', listed', us)
    BY <1>2, StepHolds DEF ListsHeld
  <2> HIDE DEF us
  <2>2. us = Walked(mem')
    BY <1>1, <2>1, HeldIsWalked
  <2>3. Walked(mem)' = Walked(mem')
    BY DEF Walked
  <2>4. ListsHeld'
    BY <1>1, <2>1, <2>2, <2>3 DEF ListsHeld, us
  <2> QED
    BY <2>2, <2>3, <2>4 DEF us
<1>3. CASE UNCHANGED vars /\ ~Next
  BY <1>3 DEF vars, ListsHeld, Linked, Holds, Walked, hlist_fake, hlist_unhashed, Lead
<1> QED
  BY <1>2, <1>3

\* A node is alone on a list if its two pointers say so.
LEMMA AloneIs ==
  ASSUME ListsHeld, NEW n \in listed, NEW h \in Heads
  PROVE  hlist_is_singular_node(mem, n, h) <=> Items(mem, First(h)) = <<n>>
<1> DEFINE ls == Walked(mem)
<1>1. Linked /\ Holds(mem, listed, ls) /\ ls[h] = Items(mem, First(h)) /\ mem \in Memory
  BY DEF ListsHeld, Walked, Linked
<1> HIDE DEF ls
<1>2. PICK g \in Heads, i \in Nat :
        /\ i \in 1..Len(ls[g]) /\ n = ls[g][i] /\ mem.pprev[n] = Lead(ls, g, i)
        /\ i \in 1..Len(ls[g]) + 1 /\ i + 1 \in 1..Len(ls[g]) + 1 /\ NextOf(n) = Lead(ls, g, i + 1)
  BY <1>1, Reached
<1>3. mem.at[NextOf(n)] = IF i + 1 <= Len(ls[g]) THEN ls[g][i + 1] ELSE NULL
  BY <1>1, <1>2, Leads
<1>4. /\ ls[h] \in Seq(Nodes) /\ Len(ls[h]) \in Nat /\ Len(ls[g]) \in Nat
      /\ \A k \in 1..Len(ls[g]) : ls[g][k] \in Nodes
  BY <1>1, Elements
<1>5. ASSUME hlist_is_singular_node(mem, n, h) PROVE ls[h] = <<n>>
  <2>1. mem.at[NextOf(n)] = NULL /\ mem.pprev[n] = First(h)
    BY <1>5 DEF hlist_is_singular_node
  <2>2. 1 \in 1..Len(ls[h]) + 1 /\ Lead(ls, h, 1) = First(h)
    BY <1>4 DEF Lead
  <2>3. g = h /\ i = 1
    <3>1. Lead(ls, g, i) = Lead(ls, h, 1) /\ i \in 1..Len(ls[g]) + 1
      BY <1>2, <2>1, <2>2
    <3> QED
      BY <1>1, <2>2, <3>1, LeadsDiffer
  <2>4. ~(i + 1 <= Len(ls[g]))
    BY <1>2, <1>3, <1>4, <2>1, HListAssumption
  <2>5. Len(ls[h]) = 1 /\ ls[h][1] = n
    <3> DEFINE L == Len(ls[h])
    <3>1. L \in Nat /\ 1 \in 1..L /\ ~(1 + 1 <= L)
      BY <1>2, <1>4, <2>3, <2>4
    <3>2. n = ls[h][1]
      BY <1>2, <2>3
    <3> HIDE DEF L
    <3>3. L = 1
      BY <3>1
    <3> QED
      BY <3>2, <3>3 DEF L
  <2> QED
    BY <1>4, <2>5
<1>6. ASSUME ls[h] = <<n>> PROVE hlist_is_singular_node(mem, n, h)
  <2>1. Len(ls[h]) = 1 /\ 1 \in 1..Len(ls[h]) /\ ls[h][1] = n
    BY <1>6
  <2>2. g = h /\ i = 1
    <3>1. \A k \in 1..Len(ls[g]), j \in 1..Len(ls[h]) : ls[g][k] = ls[h][j] => g = h /\ k = j
      BY <1>1 DEF Holds
    <3> QED
      BY <1>2, <2>1, <3>1
  <2>3. mem.pprev[n] = First(h) /\ mem.at[NextOf(n)] = NULL
    BY <1>2, <1>3, <2>1, <2>2 DEF Lead
  <2> QED
    BY <2>3 DEF hlist_is_singular_node
<1> QED
  BY <1>1, <1>5, <1>6

\* hlist_is_singular_node(), which looks at two pointers of the node, is right
\* about the whole list, after any sequence of calls.
THEOREM SingularAlone == Spec => []SingularMeansAlone
<1>1. Init => ListsHeld
  BY InitListsHeld
<1>2. ListsHeld /\ [Next]_vars => ListsHeld'
  BY StepListsHeld
<1>3. ListsHeld => SingularMeansAlone
  BY AloneIs DEF SingularMeansAlone
<1> QED
  BY <1>1, <1>2, <1>3, PTL DEF Spec

\* The pointers of hlist implement sequences of nodes: each call puts, takes
\* and moves what its name says, and leaves the rest in its order.
THEOREM ImplementsDeques == Spec => AreLists
<1>1. Init => ListsHeld
  BY InitListsHeld
<1>2. ListsHeld /\ [Next]_vars => ListsHeld'
  BY StepListsHeld
<1>3. Init => D!Init
  BY InitListsHeld DEF Init, D!Init, Walked
<1>4. ListsHeld /\ [Next]_vars => [D!Next]_<<Walked(mem), last>>
  <2> SUFFICES ASSUME ListsHeld, [Next]_vars PROVE [D!Next]_<<Walked(mem), last>>
    OBVIOUS
  <2>1. CASE Next
    <3>1. Walked(mem)' = D!Effect(last', Walked(mem))
      BY <2>1, StepListsHeld
    <3>2. last'[1] \notin {"ask_list", "ask_entry"}
      BY <2>1 DEF Next, AddHead, AddBefore, AddBehind, AddFake, Del, InitNode, DelInit, MoveList
    <3>3. D!Answered(last', Walked(mem))
      BY <3>2 DEF D!Answered
    <3> QED
      BY <3>1, <3>3 DEF D!Next, Walked
  <2>2. CASE UNCHANGED vars
    BY <2>2 DEF vars, Walked
  <2> QED
    BY <2>1, <2>2
<1> QED
  BY <1>1, <1>2, <1>3, <1>4, PTL DEF Spec, AreLists, D!Spec, Walked
=============================================================================
