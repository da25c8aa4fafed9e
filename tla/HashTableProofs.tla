-------------------------- MODULE HashTableProofs --------------------------
(***************************************************************************)
(* All that is said of simple_ht.c, for every table size, hash, number of  *)
(* entries and of objects, and any calls in any order.  The properties     *)
(* speak of whole lists as they are walked; the invariant does not, and    *)
(* that is why it is inductive.  It is about single links (Links), a rank  *)
(* that grows along them (Acyclic), the bucket of what follows what        *)
(* (Buckets), what entries and calls own (Owned), and the entries that the *)
(* running call has come past (Passed).  That walks end, and what they     *)
(* visit, follows from it once, in BucketList.                             *)
(***************************************************************************)
EXTENDS HashTable, Integers, NatRecursion, FiniteSetTheorems

-----------------------------------------------------------------------------
(* The number of buckets *)

\* __round_down_power_2() ends, and gives a number that is at least one and
\* not more than it was given, but more than half of it.
LEMMA RoundsDown ==
  ASSUME NEW size \in Nat
  PROVE  LET p == RoundDownPower2(size) IN
         p \in Nat /\ p >= 1 /\ (size >= 1 => p <= size /\ size < 2 * p)
<1> DEFINE Is(f, e) == /\ f \in [0..e -> Nat]
                       /\ \A v \in 0..e : f[v] = IF v <= 1 THEN 1 ELSE 2 * f[v \div 2]
           T == {e \in 0..size : \E f : Is(f, e)}
           res[v \in 0..size] == IF v <= 1 THEN 1 ELSE 2 * res[v \div 2]
<1>1. \A v \in Nat : v > 1 => v \div 2 \in 1..v - 1 /\ 2 * (v \div 2) <= v /\ v < 2 * (v \div 2) + 2
  OBVIOUS
<1>2. 0 \in T
  <2> DEFINE f == [v \in 0..0 |-> 1]
  <2>1. 0 \in 0..size /\ \A v \in 0..0 : v <= 1 /\ v \in Nat
    OBVIOUS
  <2>2. Is(f, 0)
    BY <2>1
  <2> QED
    BY <2>1, <2>2
<1>3. ASSUME NEW e \in 0 + 1..size, e - 1 \in T PROVE e \in T
  <2>1. PICK f : Is(f, e - 1)
    BY <1>3
  <2> DEFINE x == IF e <= 1 THEN 1 ELSE 2 * f[e \div 2]
             g == [v \in 0..e |-> IF v = e THEN x ELSE f[v]]
  <2>2. e \in Nat /\ (e > 1 => e \div 2 \in 0..e - 1)
    BY <1>1
  <2>3. x \in Nat
    BY <2>1, <2>2
  <2> HIDE DEF x
  <2>4. g \in [0..e -> Nat] /\ g[e] = x /\ \A v \in 0..e - 1 : g[v] = f[v]
    BY <2>1, <2>3
  <2> HIDE DEF g
  <2>5. ASSUME NEW v \in 0..e PROVE g[v] = IF v <= 1 THEN 1 ELSE 2 * g[v \div 2]
    <3>1. v > 1 => v \div 2 \in 0..e - 1
      BY <1>1
    <3>2. CASE v = e
      BY <2>4, <3>1, <3>2 DEF x
    <3>3. CASE v # e
      <4>1. v \in 0..e - 1
        BY <3>3
      <4> QED
        BY <2>1, <2>4, <3>1, <4>1
    <3> QED
      BY <3>2, <3>3
  <2>6. Is(g, e)
    BY <2>4, <2>5
  <2> QED
    BY <2>6, SMTT(20)
<1> HIDE DEF T
<1>4. \A e \in 0..size : e \in T
  BY <1>2, <1>3, Upward
<1>5. PICK f : Is(f, size)
  <2>1. size \in T
    BY <1>4
  <2> QED
    BY <2>1 DEF T
<1>6. f = [v \in 0..size |-> IF v <= 1 THEN 1 ELSE 2 * f[v \div 2]]
  BY <1>5
<1>7. res = [v \in 0..size |-> IF v <= 1 THEN 1 ELSE 2 * res[v \div 2]]
  BY <1>6
<1>8. RoundDownPower2(size) = res[size]
  BY DEF RoundDownPower2
<1> HIDE DEF res
<1> DEFINE Right(v) == res[v] \in Nat /\ res[v] >= 1 /\ (v >= 1 => res[v] <= v /\ v < 2 * res[v])
           Wrong == {v \in 0..size : ~Right(v)}
<1>9. ASSUME Wrong # {} PROVE FALSE
  <2>1. PICK v \in Wrong : \A w \in Wrong : v <= w
    <3>1. Wrong \in SUBSET Nat
      OBVIOUS
    <3> HIDE DEF Wrong
    <3> QED
      BY <1>9, <3>1, LeastNat
  <2>2. v \in 0..size /\ ~Right(v)
    OBVIOUS
  <2>3. res[v] = IF v <= 1 THEN 1 ELSE 2 * res[v \div 2]
    BY <1>7, <2>2
  <2>4. v > 1
    BY <2>2, <2>3
  <2>5. v \div 2 \in 1..v - 1 /\ v \div 2 \in 0..size /\ v \div 2 \notin Wrong
    BY <1>1, <2>1, <2>2, <2>4
  <2>6. Right(v \div 2)
    BY <2>5
  <2> QED
    BY <1>1, <2>2, <2>3, <2>4, <2>5, <2>6
<1>10. Right(size)
  BY <1>9
<1> QED
  BY <1>8, <1>10

\* Every key has a bucket, and there is a first one.
LEMMA BucketsAreHeads ==
  /\ Size \in Nat /\ Size >= 1 /\ 0 \in Heads
  /\ Heads = 0..Size - 1
  /\ \A k \in Keys : Bucket(k) \in Heads
<1>1. Size \in Nat /\ Size >= 1
  BY RoundsDown, HashTableAssumption DEF Size
<1>2. \A a \in Nat : a % Size \in 0..Size - 1
  BY <1>1
<1>3. \A k \in Keys : Hash[k] \in Nat
  BY HashTableAssumption
<1> QED
  BY <1>1, <1>2, <1>3, HashTableAssumption DEF Bucket

-----------------------------------------------------------------------------
(* Walks through a list *)

\* The next of one node is neither that of another nor a first.
LEMMA SlotsDiffer ==
  /\ \A h \in Heads : First(h) \in Slots
  /\ \A n \in Nodes : NextOf(n) \in Slots
  /\ \A h, n : First(h) # NextOf(n)
  /\ \A n, o : NextOf(n) = NextOf(o) => n = o
  /\ \A h, g : First(h) = First(g) => h = g
  /\ {NULL, Poison, Wild} \cap (Nodes \cup Slots) = {}
  /\ \A s \in Slots : (\E h \in Heads : s = First(h)) \/ (\E n \in Nodes : s = NextOf(n))
  BY HListAssumption DEF Slots, First, NextOf

Pointers == Nodes \cup {NULL, Poison, Wild}

\* hlist_for_each_entry() takes at most as many steps as there are nodes.
LEMMA NodesCounted == Cardinality(Nodes) \in Nat
  BY HListAssumption, FS_CardinalityType

\* The pointers that a walk goes through.
LEMMA CursorIs ==
  ASSUME NEW m \in Memory, NEW s \in Slots
  PROVE  /\ Cursor(m, s) \in [0..Cardinality(Nodes) -> Pointers]
         /\ Cursor(m, s)[0] = m.at[s]
         /\ \A k \in 1..Cardinality(Nodes) :
              Cursor(m, s)[k] = LET at == Cursor(m, s)[k - 1] IN
                                IF at \in Nodes THEN m.at[NextOf(at)] ELSE at
<1> DEFINE N == Cardinality(Nodes)
           After(at) == IF at \in Nodes THEN m.at[NextOf(at)] ELSE at
           G == [p \in Nat \X Pointers |-> After(p[2])]
           cell[k \in 0..N] ==
             IF k = 0 THEN m.at[s]
             ELSE LET at == cell[k - 1] IN IF at \in Nodes THEN m.at[NextOf(at)] ELSE at
<1>0. N \in Nat
  BY NodesCounted
<1>1. Cursor(m, s) = cell
  BY DEF Cursor
<1> HIDE DEF N
<1>2. m.at[s] \in Pointers /\ \A x \in Pointers : After(x) \in Pointers
  BY SlotsDiffer DEF Memory, Pointers
<1>3. \A k \in 1..N, x \in Pointers : G[<<k, x>>] = After(x)
  OBVIOUS
<1> HIDE DEF G
<1>4. PICK f \in [0..N -> Pointers] :
        f[0] = m.at[s] /\ \A k \in 1..N : f[k] = G[<<k, f[k - 1]>>]
  <2>1. 0 \in Nat /\ 0 <= N /\ \A k \in 0 + 1..N, x \in Pointers : G[<<k, x>>] \in Pointers
    BY <1>0, <1>2, <1>3
  <2>2. Recursive(Pointers, m.at[s], 0, N, G)
    BY <1>0, <1>2, <2>1, Recursion
  <2>3. 0 + 1 = 1
    OBVIOUS
  <2> QED
    BY <2>2, <2>3, Zenon DEF Recursive
<1>5. \A k \in 1..N : k - 1 \in 0..N /\ k \in 0..N /\ k # 0
  BY <1>0
<1>6. \A k \in 1..N : f[k] = After(f[k - 1])
  BY <1>3, <1>4, <1>5
<1>7. f = [k \in 0..N |-> IF k = 0 THEN m.at[s]
             ELSE LET at == f[k - 1] IN IF at \in Nodes THEN m.at[NextOf(at)] ELSE at]
  <2> DEFINE g == [k \in 0..N |-> IF k = 0 THEN m.at[s]
             ELSE LET at == f[k - 1] IN IF at \in Nodes THEN m.at[NextOf(at)] ELSE at]
  <2>1. ASSUME NEW k \in 0..N PROVE f[k] = g[k]
    <3>1. k = 0 \/ k \in 1..N
      BY <1>0
    <3> QED
      BY <1>4, <1>6, <3>1
  <2>2. f = g
    BY <1>4, <2>1
  <2> QED
    BY <2>2
<1>8. cell = [k \in 0..N |-> IF k = 0 THEN m.at[s]
             ELSE LET at == cell[k - 1] IN IF at \in Nodes THEN m.at[NextOf(at)] ELSE at]
  BY <1>7
<1> HIDE DEF cell
<1>9. cell[0] = m.at[s] /\ \A k \in 1..N : cell[k] = After(cell[k - 1])
  BY <1>0, <1>5, <1>8
<1>10. \A k \in 0..N : cell[k] \in Pointers
  <2> DEFINE T == {k \in 0..N : cell[k] \in Pointers}
  <2>1. 0 \in T /\ \A k \in 0 + 1..N : k - 1 \in T => k \in T
    BY <1>0, <1>2, <1>5, <1>9
  <2> HIDE DEF T
  <2>2. \A k \in 0..N : k \in T
    BY <1>0, <2>1, Upward
  <2> QED
    BY <2>2 DEF T
<1>11. cell \in [0..N -> Pointers]
  BY <1>8, <1>10
<1> QED
  BY <1>1, <1>9, <1>11 DEF N

-----------------------------------------------------------------------------

\* A set that is closed under next has all that is visited from a slot that
\* leads into it.
LEMMA VisitedWithin ==
  ASSUME NEW m \in Memory, NEW s \in Slots, NEW A,
         m.at[s] \in Nodes => m.at[s] \in A,
         \A n \in A \cap Nodes : m.at[NextOf(n)] \in Nodes => m.at[NextOf(n)] \in A
  PROVE  Visited(m, s) \subseteq A
<1> DEFINE N == Cardinality(Nodes)
           cell == Cursor(m, s)
           T == {k \in 0..N : cell[k] \in Nodes => cell[k] \in A}
<1>0. N \in Nat
  BY NodesCounted
<1>1. /\ cell \in [0..N -> Pointers] /\ cell[0] = m.at[s]
      /\ \A k \in 1..N : cell[k] = IF cell[k - 1] \in Nodes THEN m.at[NextOf(cell[k - 1])] ELSE cell[k - 1]
  BY CursorIs
<1> HIDE DEF cell, N
<1>2. 0 \in T /\ \A k \in 0 + 1..N : k - 1 \in T => k \in T
  BY <1>0, <1>1
<1> HIDE DEF T
<1>3. \A k \in 0..N : k \in T
  BY <1>0, <1>2, Upward
<1>4. \A k \in 0..N : cell[k] \in Nodes => cell[k] \in A
  BY <1>3 DEF T
<1>5. Visited(m, s) = {cell[k] : k \in 0..N} \cap Nodes
  BY <1>1 DEF Visited, cell
<1> QED
  BY <1>4, <1>5

\* The nodes of A are linked to each other, or to nothing, without a circle:
\* d grows along every link.
Linked(m, A, d) ==
  /\ A \subseteq Nodes
  /\ d \in [Nodes -> Nat]
  /\ \A n \in A : m.at[NextOf(n)] \in A \cup {NULL}
  /\ \A n \in A : m.at[NextOf(n)] \in A => d[n] < d[m.at[NextOf(n)]]

\* A walk through such nodes ends, and before it has taken more steps than
\* there are nodes: it would be at one of them twice.
LEMMA WalkEnds ==
  ASSUME NEW m \in Memory, NEW s \in Slots, NEW A, NEW d, Linked(m, A, d), m.at[s] \in A \cup {NULL}
  PROVE  /\ Ends(m, s)
         /\ \A k \in 0..Cardinality(Nodes) : Cursor(m, s)[k] \in A \cup {NULL}
         /\ \A k \in 0..Cardinality(Nodes), j \in 0..Cardinality(Nodes) :
              j < k /\ Cursor(m, s)[k] \in Nodes =>
                Cursor(m, s)[j] \in Nodes /\ d[Cursor(m, s)[j]] < d[Cursor(m, s)[k]]
<1> DEFINE N == Cardinality(Nodes)
           cell == Cursor(m, s)
<1>0. N \in Nat
  BY NodesCounted
<1>1. /\ cell \in [0..N -> Pointers] /\ cell[0] = m.at[s]
      /\ \A k \in 1..N : cell[k] = IF cell[k - 1] \in Nodes THEN m.at[NextOf(cell[k - 1])] ELSE cell[k - 1]
  BY CursorIs
<1> HIDE DEF cell
<1>2. A \subseteq Nodes /\ NULL \notin Nodes
  BY HListAssumption DEF Linked
<1>3. \A k \in 0..N : cell[k] \in A \cup {NULL}
  <2> DEFINE T == {k \in 0..N : cell[k] \in A \cup {NULL}}
  <2> HIDE DEF N
  <2>1. 0 \in T /\ \A k \in 0 + 1..N : k - 1 \in T => k \in T
    BY <1>0, <1>1, <1>2 DEF Linked
  <2> HIDE DEF T
  <2>2. \A k \in 0..N : k \in T
    BY <1>0, <2>1, Upward
  <2> QED
    BY <2>2 DEF T
<1>4. \A k \in 0..N, j \in 0..N : j < k /\ cell[k] \in Nodes => cell[j] \in Nodes /\ d[cell[j]] < d[cell[k]]
  <2> DEFINE T == {k \in 0..N : \A j \in 0..N : j < k /\ cell[k] \in Nodes =>
                     cell[j] \in Nodes /\ d[cell[j]] < d[cell[k]]}
  <2> HIDE DEF N
  <2>1. 0 \in T
    BY <1>0
  <2>2. ASSUME NEW k \in 0 + 1..N, k - 1 \in T PROVE k \in T
    <3>1. k \in 1..N /\ k - 1 \in 0..N /\ k \in 0..N
      BY <1>0
    <3>2. SUFFICES ASSUME NEW j \in 0..N, j < k, cell[k] \in Nodes
                   PROVE  cell[j] \in Nodes /\ d[cell[j]] < d[cell[k]]
      BY <3>1
    <3>3. cell[k - 1] \in A
      BY <1>1, <1>2, <1>3, <3>1, <3>2
    <3>4. cell[k] \in A
      BY <1>2, <1>3, <3>1, <3>2
    <3>5. d[cell[k - 1]] < d[cell[k]]
      BY <1>1, <1>2, <3>1, <3>3, <3>4 DEF Linked
    <3>6. j = k - 1 \/ (j < k - 1 /\ cell[j] \in Nodes /\ d[cell[j]] < d[cell[k - 1]])
      BY <1>2, <2>2, <3>2, <3>3
    <3>7. CASE j = k - 1
      BY <1>2, <3>3, <3>5, <3>7
    <3>8. CASE j < k - 1 /\ cell[j] \in Nodes /\ d[cell[j]] < d[cell[k - 1]]
      <4>1. d[cell[j]] \in Nat /\ d[cell[k - 1]] \in Nat /\ d[cell[k]] \in Nat
        BY <1>2, <3>2, <3>3, <3>8 DEF Linked
      <4> QED
        BY <3>5, <3>8, <4>1
    <3> QED
      BY <3>6, <3>7, <3>8
  <2> HIDE DEF T
  <2>3. \A k \in 0..N : k \in T
    BY <1>0, <2>1, <2>2, Upward
  <2> QED
    BY <2>3 DEF T
<1>5. ASSUME cell[N] # NULL PROVE FALSE
  <2>1. cell[N] \in Nodes
    BY <1>0, <1>2, <1>3, <1>5
  <2>2. \A k \in 0..N : cell[k] \in Nodes
    <3>1. \A k \in 0..N : k < N \/ k = N
      BY <1>0
    <3> QED
      BY <1>0, <1>4, <2>1, <3>1
  <2>3. cell \in [0..N -> Nodes]
    BY <1>1, <2>2
  <2>4. IsFiniteSet(0..N) /\ N < Cardinality(0..N)
    <3>1. 0 \in Int /\ N \in Int
      BY <1>0
    <3>2. IsFiniteSet(0..N) /\ Cardinality(0..N) = IF 0 > N THEN 0 ELSE N - 0 + 1
      BY <3>1, FS_Interval
    <3> QED
      BY <1>0, <3>2
  <2>5. PICK x \in 0..N, y \in 0..N : x # y /\ cell[x] = cell[y]
    <3>1. IsFiniteSet(Nodes) /\ Cardinality(Nodes) < Cardinality(0..N)
      BY <2>4, HListAssumption
    <3> HIDE DEF N
    <3>2. \E x, y \in 0..N : x # y /\ cell[x] = cell[y]
      BY <2>3, <2>4, <3>1, FS_PigeonHole
    <3> QED
      BY <3>2
  <2> HIDE DEF N
  <2>6. (x < y \/ y < x) /\ d[cell[x]] \in Nat
    BY <1>0, <2>2, <2>5 DEF Linked
  <2> QED
    BY <1>4, <2>2, <2>5, <2>6
<1> QED
  BY <1>3, <1>4, <1>5 DEF Ends, cell

\* What is visited is closed under next.
LEMMA VisitedCloses ==
  ASSUME NEW m \in Memory, NEW s \in Slots, NEW A, NEW d, Linked(m, A, d), m.at[s] \in A \cup {NULL}
  PROVE  /\ Visited(m, s) \subseteq A
         /\ m.at[s] # NULL => m.at[s] \in Visited(m, s)
         /\ \A n \in Visited(m, s) :
              m.at[NextOf(n)] # NULL => m.at[NextOf(n)] \in Visited(m, s)
<1> DEFINE N == Cardinality(Nodes)
           cell == Cursor(m, s)
<1>0. N \in Nat
  BY NodesCounted
<1>1. /\ cell \in [0..N -> Pointers] /\ cell[0] = m.at[s]
      /\ \A k \in 1..N : cell[k] = IF cell[k - 1] \in Nodes THEN m.at[NextOf(cell[k - 1])] ELSE cell[k - 1]
  BY CursorIs
<1>2. cell[N] = NULL /\ \A k \in 0..N : cell[k] \in A \cup {NULL}
  BY WalkEnds DEF Ends
<1>3. A \subseteq Nodes /\ NULL \notin Nodes
  BY HListAssumption DEF Linked
<1>4. Visited(m, s) = {cell[k] : k \in 0..N} \cap Nodes
  BY <1>1 DEF Visited
<1> HIDE DEF cell, N
<1>5. Visited(m, s) \subseteq A
  BY <1>2, <1>3, <1>4
<1>6. m.at[s] # NULL => m.at[s] \in Visited(m, s)
  BY <1>0, <1>1, <1>3, <1>4
<1>7. ASSUME NEW n \in Visited(m, s), m.at[NextOf(n)] # NULL
      PROVE  m.at[NextOf(n)] \in Visited(m, s)
  <2>1. PICK k \in 0..N : n = cell[k] /\ n \in Nodes
    BY <1>4
  <2>2. k # N
    BY <1>2, <1>3, <2>1
  <2>3. k + 1 \in 1..N /\ k + 1 \in 0..N /\ (k + 1) - 1 = k
    BY <1>0, <2>2
  <2>4. cell[k + 1] = m.at[NextOf(n)]
    BY <1>1, <2>1, <2>3
  <2>5. cell[k + 1] \in Nodes
    BY <1>2, <1>3, <1>7, <2>3, <2>4
  <2> QED
    BY <1>4, <2>3, <2>4, <2>5
<1> QED
  BY <1>5, <1>6, <1>7

-----------------------------------------------------------------------------
(* The invariant *)

KeyOf(n) == content[key[n]]
Walking  == pc \in {"insert", "lookup", "remove"}

\* The slots that are in use: those of the allocated entries, and the heads
\* that destroy has not been to.
LiveSlots ==
  {First(h) : h \in {g \in Heads : Whole \/ (pc = "destroy" /\ g > bkt)}}
    \cup {NextOf(n) : n \in alloc}

\* Every such slot leads to an entry that leads back to it, or nowhere, and
\* every entry is led to; but not destroy's cursor, as what led to it is freed.
Links ==
  /\ \A s \in LiveSlots :
       mem.at[s] # NULL => mem.at[s] \in alloc /\ mem.pprev[mem.at[s]] = s
  /\ \A n \in alloc :
       IF pc = "destroy" /\ n = pos THEN mem.pprev[n] \notin LiveSlots
       ELSE mem.pprev[n] \in LiveSlots /\ mem.at[mem.pprev[n]] = n

\* There are no circles.
Acyclic == \E d \in [Nodes -> Nat] : Linked(mem, alloc, d)

\* A list's first entry is in the bucket of its key, and so is every entry if
\* the one before it is; no two entries have one key.
Buckets ==
  /\ \A n, o \in alloc : KeyOf(n) = KeyOf(o) => n = o
  /\ Whole =>
       /\ \A h \in Heads : LET n == mem.at[First(h)] IN n \in alloc => Bucket(KeyOf(n)) = h
       /\ \A o \in alloc : LET n == mem.at[NextOf(o)] IN
            n \in alloc => Bucket(KeyOf(n)) = Bucket(KeyOf(o))

\* What an entry and a call have to themselves.
Owned ==
  /\ \A n \in alloc : key[n] \in KeyObjs /\ value[n] \in ValueObjs /\ KeyOf(n) \in Keys
  /\ Walking => arg.k \in Keys
  /\ pc = "insert" =>
       /\ arg.ko \in KeyObjs /\ arg.vo \in ValueObjs
       /\ owner[arg.ko] = "caller" /\ owner[arg.vo] = "caller"
       /\ content[arg.ko] = arg.k
  /\ pc \in {"none", "idle"} => pos = NULL

\* The walk has come from the head of the bucket of its key, through a set of
\* entries that have another key, to its cursor.
Passed ==
  Walking =>
    \E P \in SUBSET alloc :
      /\ mem.at[First(Bucket(arg.k))] \in P \cup {pos}
      /\ \A n \in P : KeyOf(n) # arg.k /\ mem.at[NextOf(n)] \in P \cup {pos}

\* The inductive invariant.
IInv == TypeOK /\ CursorSafe /\ ObjectsOwned /\ Links /\ Acyclic /\ Buckets /\ Owned /\ Passed

\* It holds before there is a table.
LEMMA InitIInv == Init => IInv
<1> SUFFICES ASSUME Init PROVE IInv
  OBVIOUS
<1>1. TypeOK
  BY BucketsAreHeads DEF Init, TypeOK, Memory, NoArg, Objects
<1>2. alloc = {} /\ pos = NULL /\ pc = "none" /\ owner = [o \in Objects |-> "free"]
  BY DEF Init
<1>3. LiveSlots = {}
  BY <1>2 DEF LiveSlots, Whole
<1>4. Acyclic
  <2> DEFINE d == [n \in Nodes |-> 0]
  <2>1. d \in [Nodes -> Nat] /\ Linked(mem, alloc, d)
    BY <1>2 DEF Linked
  <2> HIDE DEF d
  <2> QED
    BY <2>1 DEF Acyclic
<1>5. ObjectsOwned
  BY <1>2 DEF ObjectsOwned, Objects
<1> QED
  BY <1>1, <1>2, <1>3, <1>4, <1>5 DEF IInv, CursorSafe, Links, Buckets, Owned, Passed, Walking, Whole

\* While the table is whole, every head is in use.
LEMMA WholeSlots ==
  Whole => LiveSlots = {First(h) : h \in Heads} \cup {NextOf(n) : n \in alloc}
  BY DEF LiveSlots

\* What an entry is while the table is whole.
LEMMA WholeEntry ==
  ASSUME IInv, Whole
  PROVE  /\ alloc \subseteq Nodes
         /\ \A h \in Heads : LET n == mem.at[First(h)] IN
              n # NULL => n \in alloc /\ mem.pprev[n] = First(h)
         /\ \A o \in alloc : LET n == mem.at[NextOf(o)] IN
              n # NULL => n \in alloc /\ mem.pprev[n] = NextOf(o)
         /\ \A n \in alloc : mem.pprev[n] \in LiveSlots /\ mem.at[mem.pprev[n]] = n
         /\ LiveSlots \subseteq Slots
<1>1. Links /\ alloc \subseteq Nodes /\ pc # "destroy"
  BY DEF IInv, TypeOK, Whole
<1>2. \A s \in LiveSlots : mem.at[s] # NULL => mem.at[s] \in alloc /\ mem.pprev[mem.at[s]] = s
  BY <1>1 DEF Links
<1>3. \A n \in alloc : mem.pprev[n] \in LiveSlots /\ mem.at[mem.pprev[n]] = n
  BY <1>1 DEF Links
<1>4. /\ \A h \in Heads : First(h) \in LiveSlots
      /\ \A n \in alloc : NextOf(n) \in LiveSlots
      /\ LiveSlots \subseteq Slots
  BY <1>1, WholeSlots, SlotsDiffer
<1> QED
  BY <1>1, <1>2, <1>3, <1>4, Zenon

\* A step that leaves the lists and their keys alone.
LEMMA ListsKept ==
  ASSUME IInv, Whole, Whole', UNCHANGED <<mem, alloc>>,
         \A n \in alloc : content'[key'[n]] = content[key[n]]
  PROVE  Links' /\ Acyclic' /\ Buckets'
<1>1. LiveSlots' = LiveSlots
  BY DEF LiveSlots
<1>2. Links'
  <2>1. Links /\ pc # "destroy" /\ pc' # "destroy"
    BY DEF IInv, Whole
  <2> QED
    BY <1>1, <2>1 DEF Links
<1>3. Acyclic'
  BY DEF IInv, Acyclic, Linked
<1>4. Buckets'
  <2>1. Buckets /\ alloc' = alloc /\ mem'.at = mem.at
    BY DEF IInv
  <2>2. \A n, o \in alloc' : content'[key'[n]] = content'[key'[o]] => n = o
    BY <2>1 DEF Buckets, KeyOf
  <2>3. \A h \in Heads : LET n == mem'.at[First(h)] IN
          n \in alloc' => Hash[content'[key'[n]]] % Size = h
    BY <2>1 DEF Buckets, KeyOf, Bucket
  <2>4. \A o \in alloc' : LET n == mem'.at[NextOf(o)] IN
          n \in alloc' => Hash[content'[key'[n]]] % Size = Hash[content'[key'[o]]] % Size
    BY <2>1 DEF Buckets, KeyOf, Bucket
  <2> QED
    BY <2>2, <2>3, <2>4 DEF Buckets, KeyOf, Bucket
<1> QED
  BY <1>2, <1>3, <1>4

\* A walk begins at the head of its bucket.
LEMMA PassedStart ==
  ASSUME UNCHANGED <<mem, alloc>>, pos' = mem.at[First(Bucket(arg'.k))]
  PROVE  Passed'
<1>1. {} \in SUBSET alloc /\ mem.at[First(Bucket(arg'.k))] \in {} \cup {pos'}
  OBVIOUS
<1> QED
  BY <1>1 DEF Passed, Bucket

-----------------------------------------------------------------------------
(* Each step keeps the invariant *)

\* A call of insert, lookup or remove.
LEMMA CallKeeps ==
  ASSUME IInv,
         NEW k \in Keys,
         \/ \E ko \in KeyObjs, vo \in ValueObjs : InsertCall(k, ko, vo)
         \/ LookupCall(k) \/ RemoveCall(k)
  PROVE  IInv'
<1>1. /\ Whole /\ Whole' /\ Walking' /\ pc = "idle" /\ arg'.k = k
      /\ UNCHANGED <<mem, alloc, key, value, bkt, ret>>
      /\ pos' = mem.at[First(Bucket(k))]
  BY DEF InsertCall, LookupCall, RemoveCall, Call, Whole, Walking, NoArg
<1>2. TypeOK /\ Owned /\ ObjectsOwned /\ alloc \subseteq Nodes
  BY DEF IInv, TypeOK
<1>3. Bucket(k) \in Heads
  BY BucketsAreHeads
<1>4. pos' = NULL \/ pos' \in alloc
  BY <1>1, <1>3, WholeEntry
<1>5. CursorSafe'
  BY <1>1, <1>4 DEF CursorSafe
<1>6. CASE \E ko \in KeyObjs, vo \in ValueObjs : InsertCall(k, ko, vo)
  <2>1. PICK ko \in KeyObjs, vo \in ValueObjs : InsertCall(k, ko, vo)
    BY <1>6
  <2>2. /\ owner[ko] = "free" /\ owner[vo] = "free" /\ pc' = "insert"
        /\ owner' = [owner EXCEPT ![ko] = "caller", ![vo] = "caller"]
        /\ content' = [content EXCEPT ![ko] = k]
        /\ arg' = [k |-> k, ko |-> ko, vo |-> vo]
    BY <2>1 DEF InsertCall, Call
  <2>3. owner \in [Objects -> {"free", "caller", "table"}] /\ content \in [KeyObjs -> Keys \cup {Absent}]
        /\ ko \in Objects /\ vo \in Objects
    BY <1>2 DEF TypeOK, Objects
  <2>4. /\ owner' \in [Objects -> {"free", "caller", "table"}] /\ content' \in [KeyObjs -> Keys \cup {Absent}]
        /\ \A o \in Objects : owner'[o] = IF o \in {ko, vo} THEN "caller" ELSE owner[o]
        /\ \A o \in KeyObjs : content'[o] = IF o = ko THEN k ELSE content[o]
    BY <2>2, <2>3
  <2>5. TypeOK'
    BY <1>1, <1>2, <1>4, <2>2, <2>4 DEF TypeOK
  <2>6. \A n \in alloc : key[n] \in KeyObjs /\ value[n] \in ValueObjs /\ owner[key[n]] = "table" /\ owner[value[n]] = "table"
    BY <1>2 DEF Owned, ObjectsOwned
  <2>7. \A n \in alloc : content'[key'[n]] = content[key[n]]
    BY <1>1, <2>2, <2>4, <2>6
  <2>8. ObjectsOwned'
    <3>1. \A n \in alloc : owner'[key[n]] = "table" /\ owner'[value[n]] = "table"
      BY <2>2, <2>4, <2>6 DEF Objects
    <3>2. \A o \in ValueObjs : owner'[o] = "table" => owner[o] = "table"
      BY <2>4 DEF Objects
    <3> QED
      BY <1>1, <1>2, <2>2, <3>1, <3>2, ZenonT(60) DEF ObjectsOwned
  <2>9. Owned'
    BY <1>1, <1>2, <2>2, <2>3, <2>4, <2>6, <2>7 DEF Owned, KeyOf
  <2> QED
    BY <1>1, <2>5, <2>7, <2>8, <2>9, <1>5, ListsKept, PassedStart DEF IInv
<1>7. CASE LookupCall(k) \/ RemoveCall(k)
  <2>1. /\ pc' \in {"lookup", "remove"} /\ UNCHANGED <<content, owner>>
        /\ arg' = [NoArg EXCEPT !.k = k]
    BY <1>7 DEF LookupCall, RemoveCall, Call
  <2>2. TypeOK'
    BY <1>1, <1>2, <1>4, <2>1 DEF TypeOK, NoArg
  <2>3. ObjectsOwned' /\ Owned'
    BY <1>1, <1>2, <2>1 DEF ObjectsOwned, Owned, KeyOf
  <2> QED
    BY <1>1, <2>1, <2>2, <2>3, <1>5, ListsKept, PassedStart DEF IInv
<1> QED
  BY <1>6, <1>7

\* The loop goes on to the next entry.
LEMMA AdvanceKeeps ==
  ASSUME IInv, InsertAdvance \/ LookupAdvance \/ RemoveAdvance
  PROVE  IInv'
<1>1. /\ Whole /\ Whole' /\ Walking /\ Walking' /\ pos # NULL /\ content[key[pos]] # arg.k
      /\ UNCHANGED <<pc, mem, alloc, key, value, content, owner, arg, bkt, ret>>
      /\ pos' = mem.at[NextOf(pos)]
  BY DEF InsertAdvance, LookupAdvance, RemoveAdvance, Advance, Whole, Walking, objects, Matches
<1>2. TypeOK /\ Owned /\ ObjectsOwned /\ Passed /\ alloc \subseteq Nodes /\ pos \in alloc
  BY <1>1 DEF IInv, TypeOK, CursorSafe
<1>3. pos' = NULL \/ pos' \in alloc
  BY <1>1, <1>2, WholeEntry
<1>4. TypeOK' /\ CursorSafe'
  BY <1>1, <1>2, <1>3 DEF TypeOK, CursorSafe
<1>5. ObjectsOwned' /\ Owned'
  BY <1>1, <1>2 DEF ObjectsOwned, Owned, KeyOf, Walking
<1>6. Passed'
  <2>1. PICK P \in SUBSET alloc :
          /\ mem.at[First(Bucket(arg.k))] \in P \cup {pos}
          /\ \A n \in P : KeyOf(n) # arg.k /\ mem.at[NextOf(n)] \in P \cup {pos}
    BY <1>1, <1>2 DEF Passed
  <2> DEFINE Q == P \cup {pos}
  <2>2. Q \in SUBSET alloc
    BY <1>2
  <2>3. mem.at[First(Bucket(arg.k))] \in Q \cup {pos'}
    BY <2>1
  <2>4. \A n \in Q : content[key[n]] # arg.k /\ mem.at[NextOf(n)] \in Q \cup {pos'}
    BY <1>1, <2>1 DEF KeyOf
  <2> HIDE DEF Q
  <2> QED
    BY <1>1, <2>2, <2>3, <2>4 DEF Passed, KeyOf, Bucket
<1> QED
  BY <1>1, <1>4, <1>5, <1>6, ListsKept DEF IInv

\* A return that changes no entry.
LEMMA ReturnKeeps ==
  ASSUME IInv, LookupReturns \/ RemoveMiss \/ InsertFails
  PROVE  IInv'
<1>1. /\ Whole /\ Whole' /\ Walking /\ ~Walking' /\ pc' = "idle" /\ pos' = NULL /\ arg' = NoArg
      /\ UNCHANGED <<mem, alloc, key, value, content, bkt>>
      /\ owner' = owner \/ (pc = "insert" /\ owner' = Freed({arg.ko, arg.vo}))
  BY DEF LookupReturns, RemoveMiss, InsertFails, Return, Whole, Walking, objects
<1>2. TypeOK /\ Owned /\ ObjectsOwned /\ alloc \subseteq Nodes
  BY DEF IInv, TypeOK
<1>3. owner \in [Objects -> {"free", "caller", "table"}]
  BY <1>2 DEF TypeOK
<1>4. /\ owner' \in [Objects -> {"free", "caller", "table"}]
      /\ \A o \in Objects : owner'[o] = "table" <=> owner[o] = "table"
  BY <1>1, <1>2, <1>3 DEF Freed, Owned
<1>5. TypeOK' /\ CursorSafe'
  BY <1>1, <1>2, <1>4 DEF TypeOK, CursorSafe, NoArg
<1>6. Owned'
  BY <1>1, <1>2 DEF Owned, KeyOf
<1>7. ObjectsOwned'
  <2>1. \A n \in alloc : key[n] \in Objects /\ value[n] \in Objects
    BY <1>2 DEF Owned, Objects
  <2> QED
    BY <1>1, <1>2, <1>4, <2>1 DEF ObjectsOwned, Objects
<1> QED
  BY <1>1, <1>5, <1>6, <1>7, ListsKept DEF IInv, Passed

\* insert finds the key, and gives its entry the new value.
LEMMA InsertUpdateKeeps == ASSUME IInv, InsertUpdate PROVE IInv'
<1>1. /\ Whole /\ Whole' /\ pc = "insert" /\ ~Walking' /\ pc' = "idle" /\ pos' = NULL /\ arg' = NoArg
      /\ UNCHANGED <<mem, alloc, key, content, bkt>>
      /\ pos # NULL /\ value' = [value EXCEPT ![pos] = arg.vo]
      /\ owner' = [Freed({value[pos]}) EXCEPT ![arg.ko] = "table", ![arg.vo] = "table"]
  BY DEF InsertUpdate, Return, Whole, Walking
<1>2. TypeOK /\ Owned /\ ObjectsOwned /\ alloc \subseteq Nodes /\ pos \in alloc
  BY <1>1 DEF IInv, TypeOK, CursorSafe
<1>3. /\ owner \in [Objects -> {"free", "caller", "table"}]
      /\ value \in [Nodes -> ValueObjs \cup {Wild}]
  BY <1>2 DEF TypeOK
<1>4. /\ arg.ko \in KeyObjs /\ arg.vo \in ValueObjs /\ value[pos] \in ValueObjs
      /\ KeyObjs \cap ValueObjs = {}
      /\ owner[arg.ko] = "caller" /\ owner[arg.vo] = "caller" /\ owner[value[pos]] = "table"
  BY <1>1, <1>2, HashTableAssumption DEF Owned, ObjectsOwned
<1>5. /\ owner' \in [Objects -> {"free", "caller", "table"}]
      /\ \A o \in Objects : owner'[o] = IF o \in {arg.ko, arg.vo} THEN "table"
                                        ELSE IF o = value[pos] THEN "free" ELSE owner[o]
  BY <1>1, <1>3, <1>4 DEF Freed, Objects
<1>6. /\ value' \in [Nodes -> ValueObjs \cup {Wild}]
      /\ \A n \in Nodes : value'[n] = IF n = pos THEN arg.vo ELSE value[n]
  BY <1>1, <1>2, <1>3, <1>4
<1>7. TypeOK' /\ CursorSafe'
  BY <1>1, <1>2, <1>5, <1>6 DEF TypeOK, CursorSafe, NoArg
<1>8. Owned'
  BY <1>1, <1>2, <1>4, <1>6 DEF Owned, KeyOf
<1>9. ObjectsOwned'
  <2>1. \A n \in alloc : key[n] \in KeyObjs /\ value[n] \in ValueObjs /\ owner[key[n]] = "table" /\ owner[value[n]] = "table"
    BY <1>2 DEF Owned, ObjectsOwned
  <2>2. \A n \in alloc : owner'[key'[n]] = "table" /\ owner'[value'[n]] = "table"
    <3>1. \A n \in alloc : n # pos => value[n] # value[pos]
      BY <1>2 DEF ObjectsOwned
    <3> QED
      BY <1>1, <1>2, <1>4, <1>5, <1>6, <2>1, <3>1, SMTT(20) DEF Objects
  <2>3. \A n, o \in alloc : n # o => key'[n] # key'[o] /\ value'[n] # value'[o]
    BY <1>1, <1>2, <1>4, <1>6, <2>1 DEF ObjectsOwned
  <2>4. ASSUME NEW v \in ValueObjs, owner'[v] = "table" PROVE \E n \in alloc : value'[n] = v
    <3>1. CASE v = arg.vo
      BY <1>2, <1>6, <3>1
    <3>2. CASE v # arg.vo
      <4>1. owner[v] = "table" /\ v # value[pos]
        BY <1>4, <1>5, <2>4, <3>2 DEF Objects
      <4> QED
        BY <1>2, <1>6, <4>1 DEF ObjectsOwned
    <3> QED
      BY <3>1, <3>2
  <2> QED
    BY <1>1, <2>2, <2>3, <2>4 DEF ObjectsOwned
<1> QED
  BY <1>1, <1>7, <1>8, <1>9, ListsKept DEF IInv, Passed

\* The statistics.
LEMMA BucketStatsKeeps ==
  ASSUME IInv, NEW nb, NEW w, BucketStats(nb, w)
  PROVE  IInv'
<1>1. /\ Whole /\ Whole' /\ pc = "idle"
      /\ UNCHANGED <<pc, mem, alloc, key, value, content, owner, arg, pos, bkt>>
  BY DEF BucketStats, Whole, objects
<1>2. TypeOK' /\ CursorSafe' /\ ObjectsOwned' /\ Owned' /\ Passed'
  BY <1>1 DEF IInv, TypeOK, CursorSafe, ObjectsOwned, Owned, Passed, Walking, KeyOf
<1> QED
  BY <1>1, <1>2, ListsKept DEF IInv

\* A new table.
LEMMA CreateKeeps == ASSUME IInv, Create PROVE IInv'
<1>1. /\ Whole' /\ pc = "none" /\ pc' = "idle" /\ ~Walking'
      /\ UNCHANGED <<alloc, key, value, content, owner, arg, pos, bkt>>
      /\ mem' = [mem EXCEPT !.at = [s \in Slots |-> IF s[1] = "first" THEN NULL ELSE @[s]]]
  BY DEF Create, Whole, Walking, objects
<1>2. TypeOK /\ Owned /\ ObjectsOwned /\ alloc = {}
  BY <1>1 DEF IInv, ObjectsOwned
<1>3. mem' \in Memory /\ \A h \in Heads : mem'.at[First(h)] = NULL
  BY <1>1, <1>2, SlotsDiffer DEF TypeOK, Memory, First
<1>4. TypeOK' /\ CursorSafe' /\ ObjectsOwned' /\ Owned' /\ Passed'
  BY <1>1, <1>2, <1>3 DEF IInv, TypeOK, CursorSafe, ObjectsOwned, Owned, Passed, Walking
<1>5. LiveSlots' = {First(h) : h \in Heads}
  BY <1>1, <1>2 DEF LiveSlots
<1>6. Links'
  BY <1>1, <1>2, <1>3, <1>5 DEF Links
<1>7. Acyclic'
  BY <1>1, <1>2 DEF IInv, Acyclic, Linked
<1>8. Buckets'
  BY <1>1, <1>2 DEF Buckets
<1> QED
  BY <1>4, <1>6, <1>7, <1>8 DEF IInv

\* A set that the head of a bucket leads into, and that no next leads out of,
\* has every entry whose key is of this bucket: the one of least rank among
\* those it has not would be led to by none.
LEMMA ClosedHasAll ==
  ASSUME IInv, Whole, NEW h \in Heads, NEW P \in SUBSET alloc,
         mem.at[First(h)] \in P \cup {NULL},
         \A n \in P : mem.at[NextOf(n)] \in P \cup {NULL}
  PROVE  \A n \in alloc : Bucket(KeyOf(n)) = h => n \in P
<1>1. PICK d : Linked(mem, alloc, d)
  BY DEF IInv, Acyclic
<1>2. Buckets /\ alloc \subseteq Nodes /\ NULL \notin Nodes
  BY HListAssumption DEF IInv, TypeOK
<1> DEFINE Rest == {n \in alloc : Bucket(KeyOf(n)) = h /\ n \notin P}
           Ranks == {d[n] : n \in Rest}
<1>3. SUFFICES ASSUME Rest # {} PROVE FALSE
  OBVIOUS
<1>4. Ranks \in SUBSET Nat /\ Ranks # {}
  BY <1>1, <1>2, <1>3 DEF Linked
<1>5. PICK r \in Ranks : \A q \in Ranks : r <= q
  <2> HIDE DEF Ranks
  <2> QED
    BY <1>4, LeastNat
<1>6. PICK n \in Rest : \A o \in Rest : d[n] <= d[o]
  BY <1>5
<1>7. mem.pprev[n] \in LiveSlots /\ mem.at[mem.pprev[n]] = n /\ n # NULL
  BY <1>2, <1>6, WholeEntry
<1>8. CASE \E g \in Heads : mem.pprev[n] = First(g)
  <2>1. PICK g \in Heads : mem.pprev[n] = First(g)
    BY <1>8
  <2>2. g = h
    BY <1>2, <1>6, <1>7, <2>1 DEF Buckets
  <2> QED
    BY <1>6, <1>7, <2>1, <2>2
<1>9. CASE \E o \in alloc : mem.pprev[n] = NextOf(o)
  <2>1. PICK o \in alloc : mem.pprev[n] = NextOf(o)
    BY <1>9
  <2>2. mem.at[NextOf(o)] = n /\ n \in alloc
    BY <1>6, <1>7, <2>1
  <2>3. Bucket(KeyOf(o)) = h
    BY <1>2, <1>6, <2>2 DEF Buckets
  <2>4. o \notin P
    BY <1>6, <1>7, <2>2
  <2>5. d[o] < d[n] /\ d[o] \in Nat /\ d[n] \in Nat
    BY <1>1, <1>2, <2>2 DEF Linked
  <2>6. o \in Rest
    BY <2>3, <2>4
  <2> HIDE DEF Rest
  <2> QED
    BY <1>6, <2>5, <2>6
<1> QED
  BY <1>7, <1>8, <1>9, WholeSlots

\* When the walk of a key has come to the end of its bucket, no entry has the
\* key.
LEMMA NotFound ==
  ASSUME IInv, Walking, pos = NULL
  PROVE  \A n \in alloc : KeyOf(n) # arg.k
<1>1. Whole /\ arg.k \in Keys /\ Bucket(arg.k) \in Heads
  BY BucketsAreHeads DEF IInv, Owned, Walking, Whole
<1>2. PICK P \in SUBSET alloc :
          /\ mem.at[First(Bucket(arg.k))] \in P \cup {pos}
          /\ \A n \in P : KeyOf(n) # arg.k /\ mem.at[NextOf(n)] \in P \cup {pos}
  BY DEF IInv, Passed
<1>3. \A n \in alloc : Bucket(KeyOf(n)) = Bucket(arg.k) => n \in P
  BY <1>1, <1>2, ClosedHasAll
<1> QED
  BY <1>2, <1>3

\* insert makes an entry, and puts it first.
LEMMA InsertNewKeeps == ASSUME IInv, NEW n \in Nodes, InsertNew(n) PROVE IInv'
<1> DEFINE h == Bucket(arg.k)
           first == mem.at[First(h)]
<1>1. /\ Whole /\ Whole' /\ Walking /\ ~Walking' /\ pc = "insert" /\ pos = NULL
      /\ pc' = "idle" /\ pos' = NULL /\ arg' = NoArg
      /\ n \notin alloc /\ alloc' = alloc \cup {n}
      /\ key' = [key EXCEPT ![n] = arg.ko] /\ value' = [value EXCEPT ![n] = arg.vo]
      /\ owner' = [owner EXCEPT ![arg.ko] = "table", ![arg.vo] = "table"]
      /\ UNCHANGED <<content, bkt>>
  BY DEF InsertNew, Return, Whole, Walking
<1>2. TypeOK /\ Owned /\ ObjectsOwned /\ Buckets /\ alloc \subseteq Nodes
  BY DEF IInv, TypeOK
<1>3. /\ arg.k \in Keys /\ arg.ko \in KeyObjs /\ arg.vo \in ValueObjs /\ KeyObjs \cap ValueObjs = {}
      /\ owner[arg.ko] = "caller" /\ owner[arg.vo] = "caller" /\ content[arg.ko] = arg.k
      /\ h \in Heads
  BY <1>1, <1>2, HashTableAssumption, BucketsAreHeads DEF Owned
<1>4. /\ owner \in [Objects -> {"free", "caller", "table"}]
      /\ key \in [Nodes -> KeyObjs \cup {Wild}]
      /\ value \in [Nodes -> ValueObjs \cup {Wild}]
      /\ mem.at \in [Slots -> Nodes \cup {NULL, Poison, Wild}]
      /\ mem.pprev \in [Nodes -> Slots \cup {NULL, Poison, Wild}]
  BY <1>2 DEF TypeOK, Memory
<1>5. /\ owner' \in [Objects -> {"free", "caller", "table"}]
      /\ \A o \in Objects : owner'[o] = IF o \in {arg.ko, arg.vo} THEN "table" ELSE owner[o]
  BY <1>1, <1>3, <1>4 DEF Objects
<1>6. /\ key' \in [Nodes -> KeyObjs \cup {Wild}] /\ value' \in [Nodes -> ValueObjs \cup {Wild}]
      /\ \A x \in Nodes : /\ key'[x] = IF x = n THEN arg.ko ELSE key[x]
                          /\ value'[x] = IF x = n THEN arg.vo ELSE value[x]
  BY <1>1, <1>3, <1>4
<1>7. first = NULL \/ (first \in alloc /\ mem.pprev[first] = First(h))
  BY <1>1, <1>3, WholeEntry
<1>8. /\ mem' \in Memory
      /\ \A s \in Slots : mem'.at[s] = IF s = First(h) THEN n ELSE IF s = NextOf(n) THEN first ELSE mem.at[s]
      /\ \A x \in Nodes : mem'.pprev[x] = IF x = n THEN First(h)
                                          ELSE IF x = first THEN NextOf(n) ELSE mem.pprev[x]
  <2> DEFINE at0 == [mem.at EXCEPT ![NextOf(n)] = NULL]
             pp0 == [mem.pprev EXCEPT ![n] = NULL]
  <2>1. /\ First(h) \in Slots /\ NextOf(n) \in Slots /\ First(h) # NextOf(n)
        /\ first \in Nodes \cup {NULL, Poison, Wild}
    BY <1>3, <1>4, SlotsDiffer
  <2>2. at0 \in [Slots -> Nodes \cup {NULL, Poison, Wild}] /\ at0[First(h)] = first
        /\ pp0 \in [Nodes -> Slots \cup {NULL, Poison, Wild}]
        /\ \A s \in Slots : s # NextOf(n) => at0[s] = mem.at[s]
        /\ \A x \in Nodes : x # n => pp0[x] = mem.pprev[x]
    BY <1>4, <2>1
  <2>3. mem' = hlist_add_head([at |-> at0, pprev |-> pp0], n, h)
    BY DEF InsertNew
  <2> HIDE DEF at0, pp0
  <2>4. /\ mem' = [at |-> mem'.at, pprev |-> mem'.pprev]
        /\ mem'.at = [at0 EXCEPT ![NextOf(n)] = first, ![First(h)] = n]
        /\ mem'.pprev = [[y \in Nodes |-> IF y = first THEN NextOf(n) ELSE pp0[y]] EXCEPT ![n] = First(h)]
    BY <2>2, <2>3 DEF hlist_add_head, Pointed
  <2> HIDE DEF first, h
  <2>5. /\ mem'.at \in [Slots -> Nodes \cup {NULL, Poison, Wild}]
        /\ mem'.pprev \in [Nodes -> Slots \cup {NULL, Poison, Wild}]
    BY <2>1, <2>2, <2>4
  <2>6. \A s \in Slots : mem'.at[s] = IF s = First(h) THEN n ELSE IF s = NextOf(n) THEN first ELSE mem.at[s]
    BY <2>1, <2>2, <2>4
  <2>7. \A x \in Nodes : mem'.pprev[x] = IF x = n THEN First(h)
                                          ELSE IF x = first THEN NextOf(n) ELSE mem.pprev[x]
    BY <2>1, <2>2, <2>4
  <2> QED
    BY <2>4, <2>5, <2>6, <2>7 DEF Memory
<1>9. TypeOK' /\ CursorSafe'
  BY <1>1, <1>2, <1>5, <1>6, <1>8 DEF TypeOK, CursorSafe, NoArg
<1>10. \A x \in alloc : x # n /\ key'[x] = key[x] /\ value'[x] = value[x] /\ content'[key'[x]] = content[key[x]]
  BY <1>1, <1>2, <1>6
<1>11. key'[n] = arg.ko /\ value'[n] = arg.vo /\ content'[key'[n]] = arg.k
  BY <1>1, <1>3, <1>6
<1>12. Owned'
  BY <1>1, <1>2, <1>3, <1>10, <1>11 DEF Owned, KeyOf
<1>13. ObjectsOwned'
  <2>1. \A x \in alloc : key[x] \in KeyObjs /\ value[x] \in ValueObjs /\ owner[key[x]] = "table" /\ owner[value[x]] = "table"
    BY <1>2 DEF Owned, ObjectsOwned
  <2>2. \A x \in alloc' : owner'[key'[x]] = "table" /\ owner'[value'[x]] = "table"
    BY <1>1, <1>3, <1>5, <1>10, <1>11, <2>1 DEF Objects
  <2>3. \A x, o \in alloc' : x # o => key'[x] # key'[o] /\ value'[x] # value'[o]
    BY <1>1, <1>2, <1>3, <1>10, <1>11, <2>1 DEF ObjectsOwned
  <2>4. \A v \in ValueObjs : owner'[v] = "table" => \E x \in alloc' : value'[x] = v
    BY <1>1, <1>2, <1>3, <1>5, <1>10, <1>11 DEF ObjectsOwned, Objects
  <2> QED
    BY <1>1, <2>2, <2>3, <2>4 DEF ObjectsOwned
<1>14. LiveSlots' = LiveSlots \cup {NextOf(n)}
  BY <1>1 DEF LiveSlots
<1>15. \A s \in LiveSlots : s \in Slots /\ s # NextOf(n)
  BY <1>1, <1>2, WholeEntry, WholeSlots, SlotsDiffer
<1>16. Links'
  <2>1. \A s \in LiveSlots : mem.at[s] # NULL => mem.at[s] \in alloc /\ mem.pprev[mem.at[s]] = s
    BY DEF IInv, Links
  <2>2. \A x \in alloc : mem.pprev[x] \in LiveSlots /\ mem.at[mem.pprev[x]] = x
    BY <1>1, WholeEntry
  <2>3. First(h) \in LiveSlots /\ NextOf(n) \in Slots /\ NULL \notin Nodes
    BY <1>1, <1>3, WholeSlots, SlotsDiffer
  <2> HIDE DEF first, h
  <2>4. ASSUME NEW s \in LiveSlots', mem'.at[s] # NULL
        PROVE  mem'.at[s] \in alloc' /\ mem'.pprev[mem'.at[s]] = s
    <3>1. CASE s = First(h)
      BY <1>1, <1>8, <1>15, <2>3, <3>1
    <3>2. CASE s = NextOf(n)
      BY <1>1, <1>2, <1>7, <1>8, <1>15, <2>3, <2>4, <3>2
    <3>3. CASE s # First(h) /\ s # NextOf(n)
      <4>1. s \in LiveSlots /\ mem'.at[s] = mem.at[s]
        BY <1>8, <1>14, <1>15, <3>3
      <4>2. mem.at[s] \in alloc /\ mem.pprev[mem.at[s]] = s
        BY <2>1, <2>4, <4>1
      <4>3. mem.at[s] # n /\ mem.at[s] # first /\ mem.at[s] \in Nodes
        BY <1>1, <1>2, <1>7, <2>3, <3>3, <4>2
      <4>4. mem'.pprev[mem.at[s]] = mem.pprev[mem.at[s]]
        BY <1>8, <4>3
      <4> QED
        BY <1>1, <4>1, <4>2, <4>4
    <3> QED
      BY <3>1, <3>2, <3>3
  <2>5. ASSUME NEW x \in alloc'
        PROVE  mem'.pprev[x] \in LiveSlots' /\ mem'.at[mem'.pprev[x]] = x
    <3>1. CASE x = n
      BY <1>8, <1>14, <1>15, <2>3, <3>1
    <3>2. CASE x # n /\ x = first
      BY <1>1, <1>2, <1>8, <1>14, <1>15, <2>3, <3>2
    <3>3. CASE x # n /\ x # first
      <4>1. mem'.pprev[x] = mem.pprev[x] /\ mem.pprev[x] \in LiveSlots /\ mem.at[mem.pprev[x]] = x
        BY <1>1, <1>2, <1>8, <2>2, <3>3
      <4>2. mem.pprev[x] # First(h)
        BY <4>1, <3>3 DEF first
      <4> QED
        BY <1>8, <1>14, <1>15, <4>1, <4>2
    <3> QED
      BY <3>1, <3>2, <3>3
  <2> QED
    BY <1>1, <2>4, <2>5 DEF Links
<1>17. Acyclic'
  <2>1. PICK d : Linked(mem, alloc, d)
    BY DEF IInv, Acyclic
  <2> DEFINE e == [x \in Nodes |-> IF x = n THEN 0 ELSE d[x] + 1]
  <2>2. e \in [Nodes -> Nat] /\ e[n] = 0 /\ \A x \in alloc : e[x] = d[x] + 1 /\ d[x] \in Nat
    BY <1>1, <1>2, <2>1 DEF Linked
  <2> HIDE DEF e
  <2>3. mem'.at[NextOf(n)] = first /\ NextOf(n) \in Slots
    BY <1>8, SlotsDiffer
  <2>4. \A x \in alloc : mem'.at[NextOf(x)] = mem.at[NextOf(x)]
    BY <1>1, <1>2, <1>8, SlotsDiffer
  <2> HIDE DEF first, h
  <2>5. \A x \in alloc' : mem'.at[NextOf(x)] \in alloc' \cup {NULL}
    BY <1>1, <1>7, <2>1, <2>3, <2>4 DEF Linked
  <2>6. ASSUME NEW x \in alloc', mem'.at[NextOf(x)] \in alloc' PROVE e[x] < e[mem'.at[NextOf(x)]]
    <3>1. CASE x = n
      <4>1. first \in alloc
        BY <1>1, <1>2, <1>7, <2>3, <2>6, <3>1, HListAssumption
      <4> QED
        BY <2>2, <2>3, <3>1, <4>1
    <3>2. CASE x \in alloc
      <4>1. mem.at[NextOf(x)] \in alloc
        BY <1>1, <1>2, <2>1, <2>4, <2>6, <3>2, HListAssumption DEF Linked
      <4>2. d[x] < d[mem.at[NextOf(x)]]
        BY <2>1, <3>2, <4>1 DEF Linked
      <4> QED
        BY <2>2, <2>4, <3>2, <4>1, <4>2
    <3> QED
      BY <1>1, <3>1, <3>2
  <2>7. Linked(mem, alloc, e)'
    BY <1>1, <1>2, <2>2, <2>5, <2>6 DEF Linked
  <2> QED
    BY <2>2, <2>7 DEF Acyclic
<1>18. Buckets'
  <2>1. \A x \in alloc : content[key[x]] # arg.k
    BY <1>1, NotFound DEF KeyOf
  <2>2. \A x, o \in alloc' : content'[key'[x]] = content'[key'[o]] => x = o
    BY <1>1, <1>2, <1>10, <1>11, <2>1 DEF Buckets, KeyOf
  <2>3. \A g \in Heads : LET x == mem.at[First(g)] IN x \in alloc => Hash[content[key[x]]] % Size = g
    BY <1>1, <1>2 DEF Buckets, KeyOf, Bucket
  <2>4. \A o \in alloc : LET x == mem.at[NextOf(o)] IN
          x \in alloc => Hash[content[key[x]]] % Size = Hash[content[key[o]]] % Size
    BY <1>1, <1>2 DEF Buckets, KeyOf, Bucket
  <2>5. /\ NextOf(n) \in Slots /\ mem'.at[NextOf(n)] = first /\ mem'.at[First(h)] = n
        /\ h = Hash[arg.k] % Size /\ NULL \notin Nodes
    BY <1>3, <1>8, SlotsDiffer DEF Bucket
  <2>6. \A g \in Heads : g # h => mem'.at[First(g)] = mem.at[First(g)]
    BY <1>8, SlotsDiffer
  <2>7. \A x \in alloc : mem'.at[NextOf(x)] = mem.at[NextOf(x)]
    BY <1>1, <1>2, <1>8, SlotsDiffer
  <2>8. first \in alloc => Hash[content[key[first]]] % Size = h
    BY <1>3, <2>3
  <2>9. \A g \in Heads : mem.at[First(g)] # n
    BY <1>1, <1>2, <2>5, WholeEntry
  <2>10. \A o \in alloc : mem.at[NextOf(o)] # n
    BY <1>1, <1>2, <2>5, WholeEntry
  <2> HIDE DEF first, h
  <2>11. \A g \in Heads : LET x == mem'.at[First(g)] IN
            x \in alloc' => Hash[content'[key'[x]]] % Size = g
    BY <1>1, <1>10, <1>11, <2>3, <2>5, <2>6, <2>9
  <2>12. ASSUME NEW o \in alloc', mem'.at[NextOf(o)] \in alloc'
         PROVE  Hash[content'[key'[mem'.at[NextOf(o)]]]] % Size = Hash[content'[key'[o]]] % Size
    <3>1. CASE o = n
      <4>1. mem'.at[NextOf(o)] = first /\ first \in alloc
        BY <1>1, <1>2, <1>7, <2>5, <2>12, <3>1
      <4> QED
        BY <1>10, <1>11, <2>5, <2>8, <3>1, <4>1
    <3>2. CASE o # n
      <4>1. o \in alloc /\ mem'.at[NextOf(o)] = mem.at[NextOf(o)] /\ mem.at[NextOf(o)] \in alloc
        BY <1>1, <2>7, <2>10, <2>12, <3>2
      <4> QED
        BY <1>10, <2>4, <4>1
    <3> QED
      BY <3>1, <3>2
  <2> QED
    BY <2>2, <2>11, <2>12 DEF Buckets, KeyOf, Bucket
<1> QED
  BY <1>1, <1>9, <1>12, <1>13, <1>16, <1>17, <1>18 DEF IInv, Passed

\* free() of an entry and of its two objects.
LEMMA EntryFreed ==
  ASSUME IInv, pos \in alloc,
         NEW m, m.at \in [Slots -> Nodes \cup {NULL, Poison, Wild}],
         m.pprev \in [Nodes -> Slots \cup {NULL, Poison, Wild}],
         owner' = Freed({key[pos], value[pos]}),
         FreeEntry(m, pos)
  PROVE  /\ mem' \in Memory
         /\ alloc' = alloc \ {pos}
         /\ \A s \in Slots : mem'.at[s] = IF s = NextOf(pos) THEN Wild ELSE m.at[s]
         /\ \A x \in Nodes : mem'.pprev[x] = IF x = pos THEN Wild ELSE m.pprev[x]
         /\ key' \in [Nodes -> KeyObjs \cup {Wild}] /\ value' \in [Nodes -> ValueObjs \cup {Wild}]
         /\ owner' \in [Objects -> {"free", "caller", "table"}]
         /\ \A x \in alloc' : /\ x \in alloc /\ x # pos /\ x \in Nodes
                              /\ key'[x] = key[x] /\ value'[x] = value[x]
         /\ \A n \in alloc' : owner'[key'[n]] = "table" /\ owner'[value'[n]] = "table"
         /\ \A n, o \in alloc' : n # o => key'[n] # key'[o] /\ value'[n] # value'[o]
         /\ \A vo \in ValueObjs : owner'[vo] = "table" => \E n \in alloc' : value'[n] = vo
<1>1. TypeOK /\ Owned /\ ObjectsOwned /\ alloc \subseteq Nodes /\ NextOf(pos) \in Slots
  BY SlotsDiffer DEF IInv, TypeOK
<1>2. /\ owner \in [Objects -> {"free", "caller", "table"}]
      /\ key \in [Nodes -> KeyObjs \cup {Wild}]
      /\ value \in [Nodes -> ValueObjs \cup {Wild}]
  BY <1>1 DEF TypeOK
<1>3. /\ mem' = [at |-> [m.at EXCEPT ![NextOf(pos)] = Wild], pprev |-> [m.pprev EXCEPT ![pos] = Wild]]
      /\ alloc' = alloc \ {pos}
      /\ key' = [key EXCEPT ![pos] = Wild] /\ value' = [value EXCEPT ![pos] = Wild]
  BY DEF FreeEntry
<1>4. /\ mem' \in Memory
      /\ \A s \in Slots : mem'.at[s] = IF s = NextOf(pos) THEN Wild ELSE m.at[s]
      /\ \A x \in Nodes : mem'.pprev[x] = IF x = pos THEN Wild ELSE m.pprev[x]
  BY <1>1, <1>3 DEF Memory
<1>5. /\ key' \in [Nodes -> KeyObjs \cup {Wild}] /\ value' \in [Nodes -> ValueObjs \cup {Wild}]
      /\ \A x \in alloc' : /\ x \in alloc /\ x # pos /\ x \in Nodes
                           /\ key'[x] = key[x] /\ value'[x] = value[x]
  BY <1>1, <1>2, <1>3
<1>6. /\ owner' \in [Objects -> {"free", "caller", "table"}]
      /\ \A o \in Objects : owner'[o] = IF o \in {key[pos], value[pos]} THEN "free" ELSE owner[o]
  BY <1>2 DEF Freed
<1>7. \A x \in alloc : key[x] \in KeyObjs /\ value[x] \in ValueObjs /\ owner[key[x]] = "table" /\ owner[value[x]] = "table"
  BY <1>1 DEF Owned, ObjectsOwned
<1>8. \A n, o \in alloc : n # o => key[n] # key[o] /\ value[n] # value[o]
  BY <1>1 DEF ObjectsOwned
<1>9. \A n \in alloc' : owner'[key'[n]] = "table" /\ owner'[value'[n]] = "table"
  <2>1. ASSUME NEW n \in alloc' PROVE owner'[key[n]] = "table" /\ owner'[value[n]] = "table"
    <3>1. n \in alloc /\ n # pos
      BY <1>5
    <3>2. key[n] # key[pos] /\ value[n] # value[pos]
      BY <1>8, <3>1
    <3>3. KeyObjs \cap ValueObjs = {}
      BY HashTableAssumption
    <3> QED
      BY <1>6, <1>7, <3>1, <3>2, <3>3 DEF Objects
  <2> QED
    BY <1>5, <2>1
<1>10. \A n, o \in alloc' : n # o => key'[n] # key'[o] /\ value'[n] # value'[o]
  BY <1>5, <1>8
<1>11. ASSUME NEW v \in ValueObjs, owner'[v] = "table" PROVE \E n \in alloc' : value'[n] = v
  <2>1. owner[v] = "table" /\ v # value[pos]
    BY <1>6, <1>11 DEF Objects
  <2>2. PICK n \in alloc : value[n] = v
    BY <1>1, <2>1 DEF ObjectsOwned
  <2>3. n \in alloc'
    BY <1>3, <2>1, <2>2
  <2> QED
    BY <1>5, <2>2, <2>3
<1> QED
  BY <1>3, <1>4, <1>5, <1>6, <1>9, <1>10, <1>11

\* remove finds the key, and takes its entry out of the list.
LEMMA RemoveFoundKeeps == ASSUME IInv, RemoveFound PROVE IInv'
<1> DEFINE next == mem.at[NextOf(pos)]
           p == mem.pprev[pos]
           m == hlist_del(mem, pos)
<1>1. /\ Whole /\ Whole' /\ Walking /\ ~Walking' /\ pc = "remove" /\ pos # NULL
      /\ pc' = "idle" /\ pos' = NULL /\ arg' = NoArg
      /\ owner' = Freed({key[pos], value[pos]}) /\ FreeEntry(m, pos)
      /\ UNCHANGED <<content, bkt>>
  BY DEF RemoveFound, Return, Whole, Walking
<1>2. TypeOK /\ Owned /\ ObjectsOwned /\ Buckets /\ alloc \subseteq Nodes /\ pos \in alloc
  BY <1>1 DEF IInv, TypeOK, CursorSafe
<1>3. /\ mem.at \in [Slots -> Nodes \cup {NULL, Poison, Wild}]
      /\ mem.pprev \in [Nodes -> Slots \cup {NULL, Poison, Wild}]
      /\ NextOf(pos) \in Slots /\ NULL \notin Nodes
  BY <1>2, SlotsDiffer DEF TypeOK, Memory
<1>4. PICK d : Linked(mem, alloc, d)
  BY DEF IInv, Acyclic
<1>5. /\ next = NULL \/ (next \in alloc /\ mem.pprev[next] = NextOf(pos))
      /\ p \in LiveSlots /\ p \in Slots /\ mem.at[p] = pos
  BY <1>1, <1>2, WholeEntry
<1>6. p # NextOf(pos) /\ next # pos
  <2>1. next \in alloc => d[pos] < d[next] /\ d[pos] \in Nat
    BY <1>2, <1>4 DEF Linked
  <2> QED
    BY <1>2, <1>5, <2>1
<1>7. /\ m.at \in [Slots -> Nodes \cup {NULL, Poison, Wild}]
      /\ m.pprev \in [Nodes -> Slots \cup {NULL, Poison, Wild}]
      /\ \A s \in Slots : s # NextOf(pos) => m.at[s] = IF s = p THEN next ELSE mem.at[s]
      /\ \A x \in Nodes : x # pos => m.pprev[x] = IF x = next THEN p ELSE mem.pprev[x]
  <2>1. /\ m.at = [[mem.at EXCEPT ![p] = next] EXCEPT ![NextOf(pos)] = Poison]
        /\ m.pprev = [[y \in Nodes |-> IF y = next THEN p ELSE mem.pprev[y]] EXCEPT ![pos] = Poison]
    BY DEF hlist_del, Unlink, Pointed
  <2>2. next \in Nodes \cup {NULL, Poison, Wild}
    BY <1>3
  <2> HIDE DEF next, p, m
  <2> QED
    BY <1>2, <1>3, <1>5, <2>1, <2>2
<1> HIDE DEF m
<1>8. /\ mem' \in Memory
      /\ alloc' = alloc \ {pos}
      /\ \A s \in Slots : mem'.at[s] = IF s = NextOf(pos) THEN Wild ELSE m.at[s]
      /\ \A x \in Nodes : mem'.pprev[x] = IF x = pos THEN Wild ELSE m.pprev[x]
      /\ key' \in [Nodes -> KeyObjs \cup {Wild}] /\ value' \in [Nodes -> ValueObjs \cup {Wild}]
      /\ owner' \in [Objects -> {"free", "caller", "table"}]
      /\ \A x \in alloc' : /\ x \in alloc /\ x # pos /\ x \in Nodes
                           /\ key'[x] = key[x] /\ value'[x] = value[x]
      /\ \A n \in alloc' : owner'[key'[n]] = "table" /\ owner'[value'[n]] = "table"
      /\ \A n, o \in alloc' : n # o => key'[n] # key'[o] /\ value'[n] # value'[o]
      /\ \A vo \in ValueObjs : owner'[vo] = "table" => \E n \in alloc' : value'[n] = vo
  BY <1>1, <1>2, <1>7, EntryFreed
<1> HIDE DEF next, p
<1>9. TypeOK' /\ CursorSafe'
  BY <1>1, <1>2, <1>8 DEF TypeOK, CursorSafe, NoArg
<1>10. Owned' /\ ObjectsOwned'
  BY <1>1, <1>2, <1>8 DEF Owned, ObjectsOwned, KeyOf
<1>11. /\ \A s \in Slots : s # NextOf(pos) => mem'.at[s] = IF s = p THEN next ELSE mem.at[s]
       /\ \A x \in Nodes : x # pos => mem'.pprev[x] = IF x = next THEN p ELSE mem.pprev[x]
  BY <1>7, <1>8
<1>12. /\ LiveSlots' = LiveSlots \ {NextOf(pos)}
       /\ LiveSlots \subseteq Slots
       /\ \A x \in alloc : NextOf(x) \in LiveSlots /\ (x # pos => NextOf(x) # NextOf(pos))
       /\ \A g \in Heads : First(g) \in LiveSlots /\ First(g) # NextOf(pos)
  <2>1. LiveSlots' = {First(g) : g \in Heads} \cup {NextOf(x) : x \in alloc'}
    BY <1>1 DEF LiveSlots
  <2> QED
    BY <1>1, <1>2, <1>8, <2>1, WholeSlots, WholeEntry, SlotsDiffer
<1>13. /\ \A s \in LiveSlots : mem.at[s] # NULL => mem.at[s] \in alloc /\ mem.pprev[mem.at[s]] = s
       /\ \A x \in alloc : mem.pprev[x] \in LiveSlots /\ mem.at[mem.pprev[x]] = x
  BY <1>1, WholeEntry DEF IInv, Links
<1>14. Links'
  <2>1. ASSUME NEW s \in LiveSlots', mem'.at[s] # NULL
        PROVE  mem'.at[s] \in alloc' /\ mem'.pprev[mem'.at[s]] = s
    <3>1. CASE s = p
      <4>1. mem'.at[s] = next /\ next \in alloc
        BY <1>5, <1>6, <1>11, <2>1, <3>1
      <4> QED
        BY <1>2, <1>5, <1>6, <1>8, <1>11, <3>1, <4>1
    <3>2. CASE s # p
      <4>1. s \in LiveSlots /\ s \in Slots /\ s # NextOf(pos) /\ mem'.at[s] = mem.at[s]
        BY <1>11, <1>12, <3>2
      <4>2. mem.at[s] \in alloc /\ mem.pprev[mem.at[s]] = s
        BY <1>13, <2>1, <4>1
      <4>3. mem.at[s] # pos /\ mem.at[s] # next
        BY <1>2, <1>3, <1>5, <3>2, <4>1, <4>2 DEF p
      <4> QED
        BY <1>2, <1>8, <1>11, <4>1, <4>2, <4>3
    <3> QED
      BY <3>1, <3>2
  <2>2. ASSUME NEW x \in alloc'
        PROVE  mem'.pprev[x] \in LiveSlots' /\ mem'.at[mem'.pprev[x]] = x
    <3>1. x \in alloc /\ x # pos /\ x \in Nodes
      BY <1>8
    <3>2. CASE x = next
      BY <1>5, <1>6, <1>11, <1>12, <3>1, <3>2
    <3>3. CASE x # next
      <4>1. mem'.pprev[x] = mem.pprev[x] /\ mem.pprev[x] \in LiveSlots /\ mem.at[mem.pprev[x]] = x
        BY <1>11, <1>13, <3>1, <3>3
      <4>2. mem.pprev[x] # NextOf(pos) /\ mem.pprev[x] # p
        BY <1>5, <3>1, <3>3, <4>1 DEF next
      <4> QED
        BY <1>11, <1>12, <4>1, <4>2
    <3> QED
      BY <3>2, <3>3
  <2> QED
    BY <1>1, <2>1, <2>2 DEF Links
\* What follows an entry that is left is what followed it, or followed pos.
<1>15. \A x \in alloc' : \/ mem'.at[NextOf(x)] = mem.at[NextOf(x)] /\ mem.at[NextOf(x)] # pos
                         \/ mem.at[NextOf(x)] = pos /\ mem'.at[NextOf(x)] = next
  <2>1. ASSUME NEW x \in alloc'
        PROVE  \/ mem'.at[NextOf(x)] = mem.at[NextOf(x)] /\ mem.at[NextOf(x)] # pos
               \/ mem.at[NextOf(x)] = pos /\ mem'.at[NextOf(x)] = next
    <3>1. NextOf(x) \in LiveSlots /\ NextOf(x) \in Slots /\ NextOf(x) # NextOf(pos)
      BY <1>8, <1>12
    <3>2. mem.at[NextOf(x)] = pos => NextOf(x) = p
      BY <1>1, <1>13, <3>1 DEF p
    <3> QED
      BY <1>5, <1>11, <3>1, <3>2
  <2> QED
    BY <2>1
<1>16. Acyclic'
  <2>1. d \in [Nodes -> Nat]
    BY <1>4 DEF Linked
  <2>2. \A x \in alloc : /\ mem.at[NextOf(x)] \in alloc \cup {NULL}
                         /\ mem.at[NextOf(x)] \in alloc => d[x] < d[mem.at[NextOf(x)]]
                         /\ d[x] \in Nat
    BY <1>2, <1>4 DEF Linked
  <2>3. \A x \in alloc' : mem'.at[NextOf(x)] \in alloc' \cup {NULL}
    BY <1>5, <1>6, <1>8, <1>15, <2>2
  <2>4. ASSUME NEW x \in alloc', mem'.at[NextOf(x)] \in alloc' PROVE d[x] < d[mem'.at[NextOf(x)]]
    <3>1. CASE mem'.at[NextOf(x)] = mem.at[NextOf(x)]
      BY <1>8, <2>2, <2>4, <3>1
    <3>2. CASE mem.at[NextOf(x)] = pos /\ mem'.at[NextOf(x)] = next
      <4>1. x \in alloc /\ next \in alloc /\ next = mem.at[NextOf(pos)]
        BY <1>8, <2>4, <3>2 DEF next
      <4>2. d[x] < d[pos] /\ d[pos] < d[next] /\ d[x] \in Nat /\ d[pos] \in Nat /\ d[next] \in Nat
        BY <1>2, <2>2, <3>2, <4>1
      <4> QED
        BY <3>2, <4>2
    <3> QED
      BY <1>15, <3>1, <3>2
  <2>5. Linked(mem, alloc, d)'
    BY <1>2, <1>8, <2>1, <2>3, <2>4 DEF Linked
  <2> QED
    BY <2>1, <2>5 DEF Acyclic
<1>17. Buckets'
  <2>1. \A x, o \in alloc : content[key[x]] = content[key[o]] => x = o
    BY <1>2 DEF Buckets, KeyOf
  <2>2. \A g \in Heads : LET x == mem.at[First(g)] IN x \in alloc => Hash[content[key[x]]] % Size = g
    BY <1>1, <1>2 DEF Buckets, KeyOf, Bucket
  <2>3. \A o \in alloc : LET x == mem.at[NextOf(o)] IN
          x \in alloc => Hash[content[key[x]]] % Size = Hash[content[key[o]]] % Size
    BY <1>1, <1>2 DEF Buckets, KeyOf, Bucket
  <2>4. \A x \in alloc' : x \in alloc /\ content'[key'[x]] = content[key[x]]
    BY <1>1, <1>8
  <2>5. next \in alloc => Hash[content[key[next]]] % Size = Hash[content[key[pos]]] % Size
    BY <1>2, <2>3 DEF next
  <2>6. ASSUME NEW g \in Heads, mem'.at[First(g)] \in alloc'
        PROVE  Hash[content'[key'[mem'.at[First(g)]]]] % Size = g
    <3>1. First(g) \in Slots /\ First(g) # NextOf(pos)
      BY <1>12
    <3>2. CASE First(g) = p
      <4>1. mem'.at[First(g)] = next /\ mem.at[First(g)] = pos
        BY <1>5, <1>11, <3>1, <3>2
      <4> QED
        BY <1>2, <2>2, <2>4, <2>5, <2>6, <4>1
    <3>3. CASE First(g) # p
      BY <1>11, <2>2, <2>4, <2>6, <3>1, <3>3
    <3> QED
      BY <3>2, <3>3
  <2>7. ASSUME NEW o \in alloc', mem'.at[NextOf(o)] \in alloc'
        PROVE  Hash[content'[key'[mem'.at[NextOf(o)]]]] % Size = Hash[content'[key'[o]]] % Size
    <3>1. CASE mem'.at[NextOf(o)] = mem.at[NextOf(o)]
      BY <2>3, <2>4, <2>7, <3>1
    <3>2. CASE mem.at[NextOf(o)] = pos /\ mem'.at[NextOf(o)] = next
      BY <1>2, <2>3, <2>4, <2>5, <2>7, <3>2
    <3> QED
      BY <1>15, <3>1, <3>2
  <2>8. \A x, o \in alloc' : content'[key'[x]] = content'[key'[o]] => x = o
    BY <2>1, <2>4
  <2> QED
    BY <2>6, <2>7, <2>8 DEF Buckets, KeyOf, Bucket
<1> QED
  BY <1>1, <1>9, <1>10, <1>14, <1>16, <1>17 DEF IInv, Passed

\* destroy is called.
LEMMA DestroyCallKeeps == ASSUME IInv, DestroyCall PROVE IInv'
<1>1. /\ Whole /\ ~Whole' /\ ~Walking' /\ pc = "idle" /\ pc' = "destroy" /\ bkt' = 0
      /\ pos' = mem.at[First(0)]
      /\ UNCHANGED <<mem, alloc, key, value, content, owner, arg>>
  BY DEF DestroyCall, Whole, Walking, objects
<1>2. TypeOK /\ Owned /\ ObjectsOwned /\ Buckets /\ alloc \subseteq Nodes
  BY DEF IInv, TypeOK
<1>3. 0 \in Heads /\ 0 \in 0..Size - 1 /\ NULL \notin Nodes /\ Heads \subseteq Nat
  BY BucketsAreHeads, HListAssumption
<1>4. pos' = NULL \/ (pos' \in alloc /\ mem.pprev[pos'] = First(0))
  BY <1>1, <1>3, WholeEntry
<1>5. TypeOK' /\ CursorSafe' /\ Owned' /\ ObjectsOwned' /\ Passed'
  BY <1>1, <1>2, <1>3, <1>4 DEF TypeOK, CursorSafe, Owned, ObjectsOwned, Passed, KeyOf
<1>6. LiveSlots' = LiveSlots \ {First(0)}
  <2>1. LiveSlots' = {First(h) : h \in {g \in Heads : g > 0}} \cup {NextOf(n) : n \in alloc}
    BY <1>1 DEF LiveSlots
  <2>2. \A g \in Heads : g > 0 <=> g # 0
    BY <1>3
  <2> QED
    BY <1>1, <1>3, <2>1, <2>2, WholeSlots, SlotsDiffer
<1>7. Links'
  <2>1. /\ \A s \in LiveSlots : mem.at[s] # NULL => mem.at[s] \in alloc /\ mem.pprev[mem.at[s]] = s
        /\ \A n \in alloc : mem.pprev[n] \in LiveSlots /\ mem.at[mem.pprev[n]] = n
    BY <1>1, WholeEntry DEF IInv, Links
  <2>2. \A n \in alloc : n # pos' => mem.pprev[n] # First(0)
    BY <1>1, <2>1
  <2> QED
    BY <1>1, <1>2, <1>3, <1>4, <1>6, <2>1, <2>2 DEF Links
<1>8. Acyclic'
  BY <1>1 DEF IInv, Acyclic, Linked
<1>9. Buckets'
  BY <1>1, <1>2 DEF Buckets, KeyOf
<1> QED
  BY <1>5, <1>7, <1>8, <1>9 DEF IInv

\* destroy frees an entry.
LEMMA DestroyEntryKeeps == ASSUME IInv, DestroyEntry PROVE IInv'
<1> DEFINE next == mem.at[NextOf(pos)]
<1>1. /\ ~Whole /\ ~Whole' /\ ~Walking' /\ pc = "destroy" /\ pos # NULL /\ pos' = next
      /\ owner' = Freed({key[pos], value[pos]}) /\ FreeEntry(mem, pos)
      /\ UNCHANGED <<pc, content, arg, bkt>>
  BY DEF DestroyEntry, Whole, Walking
<1>2. TypeOK /\ Owned /\ ObjectsOwned /\ Buckets /\ Links /\ alloc \subseteq Nodes /\ pos \in alloc
  BY <1>1 DEF IInv, TypeOK, CursorSafe
<1>3. /\ mem.at \in [Slots -> Nodes \cup {NULL, Poison, Wild}]
      /\ mem.pprev \in [Nodes -> Slots \cup {NULL, Poison, Wild}]
      /\ NextOf(pos) \in Slots /\ NULL \notin Nodes
  BY <1>2, SlotsDiffer DEF TypeOK, Memory
<1>4. /\ mem' \in Memory
      /\ alloc' = alloc \ {pos}
      /\ \A s \in Slots : mem'.at[s] = IF s = NextOf(pos) THEN Wild ELSE mem.at[s]
      /\ \A x \in Nodes : mem'.pprev[x] = IF x = pos THEN Wild ELSE mem.pprev[x]
      /\ key' \in [Nodes -> KeyObjs \cup {Wild}] /\ value' \in [Nodes -> ValueObjs \cup {Wild}]
      /\ owner' \in [Objects -> {"free", "caller", "table"}]
      /\ \A x \in alloc' : /\ x \in alloc /\ x # pos /\ x \in Nodes
                           /\ key'[x] = key[x] /\ value'[x] = value[x]
      /\ \A n \in alloc' : owner'[key'[n]] = "table" /\ owner'[value'[n]] = "table"
      /\ \A n, o \in alloc' : n # o => key'[n] # key'[o] /\ value'[n] # value'[o]
      /\ \A vo \in ValueObjs : owner'[vo] = "table" => \E n \in alloc' : value'[n] = vo
  BY <1>1, <1>2, <1>3, EntryFreed
<1>5. PICK d : Linked(mem, alloc, d)
  BY DEF IInv, Acyclic
<1>6. NextOf(pos) \in LiveSlots /\ LiveSlots \subseteq Slots
  BY <1>2, SlotsDiffer DEF LiveSlots
<1>7. /\ \A s \in LiveSlots : mem.at[s] # NULL => mem.at[s] \in alloc /\ mem.pprev[mem.at[s]] = s
      /\ \A n \in alloc : n # pos => mem.pprev[n] \in LiveSlots /\ mem.at[mem.pprev[n]] = n
      /\ mem.pprev[pos] \notin LiveSlots
  BY <1>1, <1>2 DEF Links
<1>8. next = NULL \/ (next \in alloc' /\ mem.pprev[next] = NextOf(pos))
  <2>1. next # NULL => next \in alloc /\ mem.pprev[next] = NextOf(pos)
    BY <1>6, <1>7
  <2>2. next # pos
    <3>1. next \in alloc => d[pos] < d[next] /\ d[pos] \in Nat
      BY <1>2, <1>5 DEF Linked
    <3> QED
      BY <1>1, <1>2, <2>1, <3>1
  <2> QED
    BY <1>4, <2>1, <2>2
<1> HIDE DEF next
<1>9. TypeOK' /\ CursorSafe'
  <2>1. CursorSafe'
    BY <1>1, <1>8 DEF CursorSafe
  <2> QED
    BY <1>1, <1>2, <1>4, <1>8, <2>1 DEF TypeOK
<1>10. Owned' /\ ObjectsOwned'
  BY <1>1, <1>2, <1>4 DEF Owned, ObjectsOwned, KeyOf, Walking
<1>11. LiveSlots' = LiveSlots \ {NextOf(pos)}
  <2>1. /\ LiveSlots = {First(h) : h \in {g \in Heads : g > bkt}} \cup {NextOf(n) : n \in alloc}
        /\ LiveSlots' = {First(h) : h \in {g \in Heads : g > bkt}} \cup {NextOf(n) : n \in alloc'}
    BY <1>1 DEF LiveSlots
  <2> QED
    BY <1>2, <1>4, <2>1, SlotsDiffer
<1>12. Links'
  <2>1. ASSUME NEW s \in LiveSlots', mem'.at[s] # NULL
        PROVE  mem'.at[s] \in alloc' /\ mem'.pprev[mem'.at[s]] = s
    <3>1. s \in LiveSlots /\ mem'.at[s] = mem.at[s] /\ mem.at[s] \in alloc /\ mem.pprev[mem.at[s]] = s
      BY <1>4, <1>6, <1>7, <1>11, <2>1
    <3> QED
      BY <1>2, <1>4, <1>7, <3>1
  <2>2. ASSUME NEW x \in alloc', x # next
        PROVE  mem'.pprev[x] \in LiveSlots' /\ mem'.at[mem'.pprev[x]] = x
    <3>1. x \in alloc /\ x # pos /\ mem'.pprev[x] = mem.pprev[x]
      BY <1>4
    <3>2. mem.pprev[x] \in LiveSlots /\ mem.at[mem.pprev[x]] = x
      BY <1>7, <3>1
    <3>3. mem.pprev[x] # NextOf(pos)
      BY <2>2, <3>2 DEF next
    <3> QED
      BY <1>4, <1>6, <1>11, <3>1, <3>2, <3>3
  <2>3. next \in alloc' => mem'.pprev[next] \notin LiveSlots'
    BY <1>3, <1>2, <1>4, <1>8, <1>11
  <2> QED
    BY <1>1, <2>1, <2>2, <2>3 DEF Links
<1>13. Acyclic'
  <2>1. /\ d \in [Nodes -> Nat]
        /\ \A x \in alloc : mem.at[NextOf(x)] \in alloc \cup {NULL}
        /\ \A x \in alloc : mem.at[NextOf(x)] \in alloc => d[x] < d[mem.at[NextOf(x)]]
    BY <1>5 DEF Linked
  <2>2. \A x \in alloc' : mem'.at[NextOf(x)] = mem.at[NextOf(x)] /\ mem.at[NextOf(x)] # pos
    <3>1. \A x \in alloc' : NextOf(x) \in LiveSlots' /\ NextOf(x) \in LiveSlots /\ NextOf(x) \in Slots
      BY <1>6, <1>11 DEF LiveSlots
    <3> QED
      BY <1>1, <1>2, <1>4, <1>7, <1>11, <3>1
  <2>3. \A x \in alloc' : x \in alloc /\ x \in Nodes
    BY <1>4
  <2>4. \A x \in alloc' : mem'.at[NextOf(x)] \in alloc' \cup {NULL}
    BY <1>4, <2>1, <2>2, <2>3
  <2>5. \A x \in alloc' : mem'.at[NextOf(x)] \in alloc' => d[x] < d[mem'.at[NextOf(x)]]
    BY <2>1, <2>2, <2>3
  <2>6. alloc' \subseteq Nodes
    BY <2>3
  <2>7. Linked(mem, alloc, d)'
    BY <2>1, <2>4, <2>5, <2>6 DEF Linked
  <2> QED
    BY <2>1, <2>7 DEF Acyclic
<1>14. Buckets'
  BY <1>1, <1>2, <1>4 DEF Buckets, KeyOf
<1> QED
  BY <1>1, <1>9, <1>10, <1>12, <1>13, <1>14 DEF IInv, Passed

\* destroy goes on to the next bucket.
LEMMA DestroyBucketKeeps == ASSUME IInv, DestroyBucket PROVE IInv'
<1>1. /\ ~Whole /\ ~Whole' /\ ~Walking' /\ pc = "destroy" /\ pos = NULL /\ bkt < Size - 1
      /\ bkt' = bkt + 1 /\ pos' = mem.at[First(bkt + 1)]
      /\ UNCHANGED <<pc, mem, alloc, key, value, content, owner, arg>>
  BY DEF DestroyBucket, Whole, Walking, objects
<1>2. TypeOK /\ Owned /\ ObjectsOwned /\ Buckets /\ Links /\ alloc \subseteq Nodes /\ NULL \notin Nodes
  BY HListAssumption DEF IInv, TypeOK
<1>3. bkt + 1 \in Heads /\ bkt \in Nat /\ bkt + 1 > bkt /\ bkt + 1 \in 0..Size - 1 /\ Heads \subseteq Nat
  BY <1>1, <1>2, BucketsAreHeads DEF TypeOK
<1>4. /\ LiveSlots = {First(h) : h \in {g \in Heads : g > bkt}} \cup {NextOf(n) : n \in alloc}
      /\ LiveSlots' = {First(h) : h \in {g \in Heads : g > bkt + 1}} \cup {NextOf(n) : n \in alloc}
  BY <1>1 DEF LiveSlots
<1>5. First(bkt + 1) \in LiveSlots /\ LiveSlots' = LiveSlots \ {First(bkt + 1)}
  <2>1. \A g \in Heads : g > bkt + 1 <=> g > bkt /\ g # bkt + 1
    BY <1>3
  <2> QED
    BY <1>3, <1>4, <2>1, SlotsDiffer
<1>6. /\ \A s \in LiveSlots : mem.at[s] # NULL => mem.at[s] \in alloc /\ mem.pprev[mem.at[s]] = s
      /\ \A n \in alloc : mem.pprev[n] \in LiveSlots /\ mem.at[mem.pprev[n]] = n
  BY <1>1, <1>2 DEF Links
<1>7. pos' = NULL \/ (pos' \in alloc /\ mem.pprev[pos'] = First(bkt + 1))
  BY <1>1, <1>5, <1>6
<1>8. TypeOK' /\ CursorSafe' /\ Owned' /\ ObjectsOwned' /\ Passed'
  BY <1>1, <1>2, <1>3, <1>7 DEF TypeOK, CursorSafe, Owned, ObjectsOwned, Passed, KeyOf, Walking
<1>9. Links'
  <2>1. \A n \in alloc : n # pos' => mem.pprev[n] # First(bkt + 1)
    BY <1>1, <1>6
  <2> QED
    BY <1>1, <1>2, <1>5, <1>6, <1>7, <2>1 DEF Links
<1>10. Acyclic'
  BY <1>1 DEF IInv, Acyclic, Linked
<1>11. Buckets'
  BY <1>1, <1>2 DEF Buckets, KeyOf
<1> QED
  BY <1>8, <1>9, <1>10, <1>11 DEF IInv

\* When destroy has been to every bucket, no entry is left: the one of least
\* rank would be led to by none.
LEMMA NoneLeft == ASSUME IInv, pc = "destroy", pos = NULL, bkt = Size - 1 PROVE alloc = {}
<1>1. SUFFICES ASSUME alloc # {} PROVE FALSE
  OBVIOUS
<1>2. PICK d : Linked(mem, alloc, d)
  BY DEF IInv, Acyclic
<1>3. Links /\ alloc \subseteq Nodes /\ NULL \notin Nodes
  BY HListAssumption DEF IInv, TypeOK
<1> DEFINE Ranks == {d[n] : n \in alloc}
<1>4. Ranks \in SUBSET Nat /\ Ranks # {}
  BY <1>1, <1>2 DEF Linked
<1>5. PICK r \in Ranks : \A q \in Ranks : r <= q
  <2> HIDE DEF Ranks
  <2> QED
    BY <1>4, LeastNat
<1>6. PICK n \in alloc : \A o \in alloc : d[n] <= d[o]
  BY <1>5
<1>7. mem.pprev[n] \in LiveSlots /\ mem.at[mem.pprev[n]] = n
  BY <1>3 DEF Links
<1>8. LiveSlots = {NextOf(o) : o \in alloc}
  <2>1. \A g \in Heads : ~(g > bkt)
    BY BucketsAreHeads
  <2> QED
    BY <2>1 DEF LiveSlots, Whole
<1>9. PICK o \in alloc : mem.pprev[n] = NextOf(o)
  BY <1>7, <1>8
<1>10. d[o] < d[n] /\ d[o] \in Nat /\ d[n] \in Nat
  BY <1>2, <1>3, <1>7, <1>9 DEF Linked
<1> QED
  BY <1>6, <1>10

\* destroy frees the table.
LEMMA DestroyReturnsKeeps == ASSUME IInv, DestroyReturns PROVE IInv'
<1>1. /\ ~Whole /\ ~Whole' /\ ~Walking' /\ pc = "destroy" /\ pc' = "none" /\ pos = NULL
      /\ bkt = Size - 1 /\ bkt' = 0
      /\ mem' = [mem EXCEPT !.at = [s \in Slots |-> IF s[1] = "first" THEN Wild ELSE @[s]]]
      /\ UNCHANGED <<alloc, key, value, content, owner, arg, pos>>
  BY DEF DestroyReturns, Whole, Walking, objects
<1>2. TypeOK /\ Owned /\ ObjectsOwned /\ alloc = {}
  BY <1>1, NoneLeft DEF IInv
<1>3. mem' \in Memory /\ 0 \in 0..Size - 1
  BY <1>1, <1>2, BucketsAreHeads DEF TypeOK, Memory
<1>4. TypeOK' /\ CursorSafe' /\ Owned' /\ ObjectsOwned' /\ Passed'
  BY <1>1, <1>2, <1>3 DEF TypeOK, CursorSafe, Owned, ObjectsOwned, Passed
<1>5. LiveSlots' = {}
  BY <1>1, <1>2 DEF LiveSlots
<1>6. Links' /\ Buckets'
  BY <1>1, <1>2, <1>5 DEF Links, Buckets
<1>7. Acyclic'
  BY <1>1, <1>2 DEF IInv, Acyclic, Linked
<1> QED
  BY <1>4, <1>6, <1>7 DEF IInv

\* Every step keeps the invariant.
LEMMA StepIInv == IInv /\ [Next]_vars => IInv'
<1> SUFFICES ASSUME IInv, [Next]_vars PROVE IInv'
  OBVIOUS
<1>1. CASE UNCHANGED vars
  <2>1. UNCHANGED <<pc, mem, alloc, key, value, content, owner, arg, pos, bkt, ret>>
    BY <1>1 DEF vars, objects
  <2>2. LiveSlots' = LiveSlots /\ Whole' = Whole /\ Walking' = Walking
    BY <2>1 DEF LiveSlots, Whole, Walking
  <2>3. TypeOK' /\ CursorSafe' /\ ObjectsOwned' /\ Links' /\ Acyclic'
    BY <2>1, <2>2 DEF IInv, TypeOK, CursorSafe, ObjectsOwned, Links, Acyclic, Linked
  <2>4. Buckets' /\ Owned' /\ Passed'
    BY <2>1, <2>2 DEF IInv, Buckets, Owned, Passed, KeyOf, Bucket
  <2> QED
    BY <2>3, <2>4 DEF IInv
<1>2. CASE Next
  BY <1>2, CallKeeps, AdvanceKeeps, ReturnKeeps, InsertUpdateKeeps, BucketStatsKeeps, CreateKeeps,
     InsertNewKeeps, RemoveFoundKeeps, DestroyCallKeeps, DestroyEntryKeeps, DestroyBucketKeeps,
     DestroyReturnsKeeps DEF Next, Step
<1> QED
  BY <1>1, <1>2

\* So it always holds.
LEMMA Invariance == Spec => []IInv
  BY InitIInv, StepIInv, PTL DEF Spec

\* Every variable keeps its type: pos and bkt above all, which the calls of
\* simple_ht.c follow and count with.
THEOREM TypeCorrect == Spec => []TypeOK
<1>1. IInv => TypeOK
  BY DEF IInv
<1> QED
  BY <1>1, Invariance, PTL

\* No call of simple_ht.c is ever at an entry that was freed, whatever was
\* inserted and removed before, and while destroy frees the list it walks.
THEOREM CursorStaysSafe == Spec => []CursorSafe
<1>1. IInv => CursorSafe
  BY DEF IInv
<1> QED
  BY <1>1, Invariance, PTL

\* Each entry owns its key and its value alone, a value that was handed over
\* and not freed is in an entry, and destroy leaves none: remove, destroy and
\* an insert that replaces a value free each object once.
THEOREM OwnershipHolds == Spec => []ObjectsOwned
<1>1. IInv => ObjectsOwned
  BY DEF IInv
<1> QED
  BY <1>1, Invariance, PTL

-----------------------------------------------------------------------------
(* What the lists are *)

\* The walk of a bucket ends, and visits the entries whose keys belong there.
LEMMA BucketList ==
  ASSUME IInv, Whole, NEW h \in Heads
  PROVE  /\ Ends(mem, First(h))
         /\ Visited(mem, First(h)) = {n \in alloc : Bucket(KeyOf(n)) = h}
<1>1. PICK d : Linked(mem, alloc, d)
  BY DEF IInv, Acyclic
<1>2. Buckets /\ alloc \subseteq Nodes /\ NULL \notin Nodes /\ mem \in Memory /\ First(h) \in Slots
  BY HListAssumption, SlotsDiffer DEF IInv, TypeOK
<1>3. mem.at[First(h)] \in alloc \cup {NULL} /\ \A n \in alloc : mem.at[NextOf(n)] \in alloc \cup {NULL}
  BY WholeEntry
<1>4. Ends(mem, First(h))
  BY <1>1, <1>2, <1>3, WalkEnds
<1> DEFINE V == Visited(mem, First(h))
<1>5. V \subseteq alloc
  BY <1>1, <1>2, <1>3, VisitedCloses
<1>6. \A n \in alloc : Bucket(KeyOf(n)) = h => n \in V
  <2>1. mem.at[First(h)] \in V \cup {NULL} /\ \A n \in V : mem.at[NextOf(n)] \in V \cup {NULL}
    BY <1>1, <1>2, <1>3, VisitedCloses
  <2> HIDE DEF V
  <2> QED
    BY <1>5, <2>1, ClosedHasAll
<1>7. V \subseteq {n \in alloc : Bucket(KeyOf(n)) = h}
  <2> DEFINE A == {n \in alloc : Bucket(KeyOf(n)) = h}
  <2>1. mem.at[First(h)] \in Nodes => mem.at[First(h)] \in A
    BY <1>2, <1>3 DEF Buckets
  <2>2. \A n \in A \cap Nodes : mem.at[NextOf(n)] \in Nodes => mem.at[NextOf(n)] \in A
    BY <1>2, <1>3 DEF Buckets
  <2> HIDE DEF A
  <2>3. V \subseteq A
    BY <1>2, <2>1, <2>2, VisitedWithin
  <2> QED
    BY <2>3 DEF A
<1> QED
  BY <1>4, <1>5, <1>6, <1>7

\* The invariant says of links what ListsSound says of lists.
LEMMA ListsAreSound == IInv => ListsSound
<1> SUFFICES ASSUME IInv, Whole PROVE ListsSound
  BY DEF ListsSound
<1>1. \A h \in Heads : Ends(mem, First(h)) /\ Visited(mem, First(h)) = {n \in alloc : Bucket(KeyOf(n)) = h}
  BY BucketList
<1>2. \A n \in alloc : KeyOf(n) \in Keys /\ Bucket(KeyOf(n)) \in Heads
  BY BucketsAreHeads DEF IInv, Owned
<1>3. alloc = UNION {Visited(mem, First(h)) : h \in Heads}
  <2>1. \A h \in Heads : Visited(mem, First(h)) \subseteq alloc
    BY <1>1
  <2>2. \A n \in alloc : n \in Visited(mem, First(Bucket(KeyOf(n))))
    BY <1>1, <1>2
  <2> QED
    BY <1>2, <2>1, <2>2
<1>4. \A n \in alloc : mem.pprev[n] \in Slots /\ mem.at[mem.pprev[n]] = n
  BY WholeEntry
<1>5. \A h \in Heads : \A n \in Visited(mem, First(h)) : Bucket(content[key[n]]) = h
  BY <1>1 DEF KeyOf
<1>6. \A n, o \in alloc : content[key[n]] = content[key[o]] => n = o
  BY DEF IInv, Buckets, KeyOf
<1> QED
  BY <1>1, <1>3, <1>4, <1>5, <1>6 DEF ListsSound

\* The lists of simple_ht.c are the table: each ends, together they have the
\* allocated entries and no other, each entry leads back, is in the bucket of
\* its key, and is the only one with its key.
THEOREM ListsStaySound == Spec => []ListsSound
  BY ListsAreSound, Invariance, PTL

-----------------------------------------------------------------------------
(* The table is a map *)

\* The map that the lists hold, without a walk: the value of the only entry
\* that has the key.
MapIs ==
  /\ CurrentMap = [k \in Keys |-> CurrentMap[k]]
  /\ \A k \in Keys : ~(Whole /\ \E n \in alloc : KeyOf(n) = k) => CurrentMap[k] = Absent
  /\ \A n \in alloc : Whole => CurrentMap[KeyOf(n)] = value[n]

\* By the invariant, no two entries can give it two values.
LEMMA MapOfEntries == IInv => MapIs
<1> SUFFICES ASSUME IInv PROVE MapIs
  OBVIOUS
<1>1. \A n \in alloc : KeyOf(n) \in Keys
  BY DEF IInv, Owned
<1>2. \A n, o \in alloc : KeyOf(n) = KeyOf(o) => n = o
  BY DEF IInv, Buckets
<1>3. CurrentMap = [k \in Keys |-> CurrentMap[k]]
  BY DEF CurrentMap
<1> DEFINE found(k) == {n \in Visited(mem, First(Bucket(k))) : content[key[n]] = k}
<1>4. \A k \in Keys : CurrentMap[k] = IF Whole /\ found(k) # {} THEN value[CHOOSE n \in found(k) : TRUE] ELSE Absent
  BY DEF CurrentMap
<1>5. ASSUME NEW k \in Keys, Whole PROVE found(k) = {n \in alloc : KeyOf(n) = k}
  <2>1. Visited(mem, First(Bucket(k))) = {n \in alloc : Bucket(KeyOf(n)) = Bucket(k)}
    BY <1>5, BucketsAreHeads, BucketList
  <2> QED
    BY <2>1 DEF KeyOf
<1> HIDE DEF found
<1>6. \A k \in Keys : ~(Whole /\ \E n \in alloc : KeyOf(n) = k) => CurrentMap[k] = Absent
  BY <1>4, <1>5
<1>7. ASSUME NEW n \in alloc, Whole PROVE CurrentMap[KeyOf(n)] = value[n]
  <2>1. found(KeyOf(n)) = {n}
    BY <1>1, <1>2, <1>5, <1>7
  <2>2. (CHOOSE o \in {n} : TRUE) = n
    OBVIOUS
  <2> QED
    BY <1>1, <1>4, <1>7, <2>1, <2>2
<1> QED
  BY <1>3, <1>6, <1>7 DEF MapIs

\* A step that leaves the entries alone leaves the map alone.
LEMMA MapKept ==
  ASSUME MapIs, MapIs', Whole, Whole', UNCHANGED <<alloc, value>>,
         \A n \in alloc : content'[key'[n]] = content[key[n]]
  PROVE  CurrentMap' = CurrentMap
<1>1. ASSUME NEW k \in Keys PROVE CurrentMap'[k] = CurrentMap[k]
  <2>1. CASE \E n \in alloc : content[key[n]] = k
    BY <2>1 DEF MapIs, KeyOf
  <2>2. CASE ~ \E n \in alloc : content[key[n]] = k
    BY <2>2 DEF MapIs, KeyOf
  <2> QED
    BY <2>1, <2>2
<1>2. CurrentMap = [k \in Keys |-> CurrentMap[k]] /\ CurrentMap' = [k \in Keys |-> CurrentMap'[k]]
  BY DEF MapIs
<1> QED
  BY <1>1, <1>2

\* A step after which the table is not whole, or has no entry, leaves no map.
LEMMA MapGone ==
  ASSUME MapIs', Whole' => alloc' = {}
  PROVE  CurrentMap' = [k \in Keys |-> Absent]
<1>1. \A k \in Keys : CurrentMap'[k] = Absent
  BY DEF MapIs
<1>2. CurrentMap' = [k \in Keys |-> CurrentMap'[k]]
  BY DEF MapIs
<1> QED
  BY <1>1, <1>2

\* Before there is a table, the map is empty.
LEMMA InitMap == Init /\ MapIs => KV!Init
<1> SUFFICES ASSUME Init, MapIs PROVE KV!Init
  OBVIOUS
<1>1. ~Whole /\ ret = <<"none">>
  BY DEF Init, Whole
<1>2. CurrentMap = [k \in Keys |-> CurrentMap[k]] /\ \A k \in Keys : CurrentMap[k] = Absent
  BY <1>1 DEF MapIs
<1> QED
  BY <1>1, <1>2 DEF KV!Init

\* Every step is a step of the map, or none.
LEMMA StepMap ==
  ASSUME IInv, IInv', MapIs, MapIs', Next
  PROVE  KV!Next \/ UNCHANGED <<CurrentMap, ret>>
<1>1. TypeOK /\ Owned /\ alloc \subseteq Nodes
  BY DEF IInv, TypeOK
<1>2. value \in [Nodes -> ValueObjs \cup {Wild}] /\ key \in [Nodes -> KeyObjs \cup {Wild}]
  BY <1>1 DEF TypeOK
<1>3. CurrentMap = [k \in Keys |-> CurrentMap[k]] /\ CurrentMap' = [k \in Keys |-> CurrentMap'[k]]
  BY DEF MapIs
<1>4. CASE Create
  <2>1. ~Whole /\ alloc = {} /\ alloc' = {} /\ ret' = ret
    BY <1>4 DEF Create, Whole, IInv, ObjectsOwned
  <2>2. \A k \in Keys : CurrentMap[k] = Absent
    BY <2>1 DEF MapIs
  <2>3. CurrentMap' = [k \in Keys |-> Absent]
    BY <2>1, MapGone
  <2> QED
    BY <1>3, <2>1, <2>2, <2>3
<1>5. CASE \E k \in Keys, ko \in KeyObjs, vo \in ValueObjs : InsertCall(k, ko, vo)
  <2>1. PICK k \in Keys, ko \in KeyObjs, vo \in ValueObjs : InsertCall(k, ko, vo)
    BY <1>5
  <2>2. /\ Whole /\ Whole' /\ UNCHANGED <<alloc, key, value, ret>>
        /\ owner[ko] = "free" /\ content' = [content EXCEPT ![ko] = k]
    BY <2>1 DEF InsertCall, Call, Whole
  <2>3. \A n \in alloc : key[n] \in KeyObjs /\ key[n] # ko
    BY <1>1, <2>2 DEF IInv, ObjectsOwned, Owned
  <2>4. \A n \in alloc : content'[key'[n]] = content[key[n]]
    BY <1>1, <2>2, <2>3 DEF TypeOK
  <2> QED
    BY <2>2, <2>4, MapKept
<1>6. CASE \E k \in Keys : LookupCall(k) \/ RemoveCall(k)
  <2>1. Whole /\ Whole' /\ UNCHANGED <<alloc, key, value, content, ret>>
    BY <1>6 DEF LookupCall, RemoveCall, Call, Whole
  <2> QED
    BY <2>1, MapKept
<1>7. CASE InsertAdvance \/ LookupAdvance \/ RemoveAdvance
  <2>1. Whole /\ Whole' /\ UNCHANGED <<alloc, key, value, content, ret>>
    BY <1>7 DEF InsertAdvance, LookupAdvance, RemoveAdvance, Advance, Whole, objects
  <2> QED
    BY <2>1, MapKept
<1>8. CASE InsertUpdate
  <2>1. /\ Whole /\ Whole' /\ pos # NULL /\ UNCHANGED <<alloc, key, content>>
        /\ content[key[pos]] = arg.k /\ value' = [value EXCEPT ![pos] = arg.vo]
        /\ ret' = <<"insert", arg.k, arg.vo, TRUE>> /\ pc = "insert"
    BY <1>8 DEF InsertUpdate, Return, Matches, Whole
  <2>2. arg.k \in Keys /\ arg.vo \in ValueObjs /\ pos \in alloc
    BY <1>1, <2>1 DEF Owned, Walking, IInv, CursorSafe
  <2>3. \A n \in alloc : value'[n] = IF n = pos THEN arg.vo ELSE value[n]
    BY <1>1, <1>2, <2>1
  <2>4. ASSUME NEW k \in Keys PROVE CurrentMap'[k] = IF k = arg.k THEN arg.vo ELSE CurrentMap[k]
    <3>1. CASE k = arg.k
      BY <2>1, <2>2, <2>3, <3>1 DEF MapIs, KeyOf
    <3>2. CASE k # arg.k /\ \E n \in alloc : content[key[n]] = k
      BY <2>1, <2>3, <3>2 DEF MapIs, KeyOf
    <3>3. CASE k # arg.k /\ ~ \E n \in alloc : content[key[n]] = k
      BY <2>1, <3>3 DEF MapIs, KeyOf
    <3> QED
      BY <3>1, <3>2, <3>3
  <2>5. CurrentMap' = [CurrentMap EXCEPT ![arg.k] = arg.vo]
    BY <1>3, <2>4
  <2> QED
    BY <2>1, <2>2, <2>5 DEF KV!Next, KV!Insert
<1>9. ASSUME NEW n \in Nodes, InsertNew(n) PROVE KV!Next
  <2>1. /\ Whole /\ Whole' /\ pc = "insert" /\ pos = NULL /\ UNCHANGED content
        /\ n \notin alloc /\ alloc' = alloc \cup {n}
        /\ key' = [key EXCEPT ![n] = arg.ko] /\ value' = [value EXCEPT ![n] = arg.vo]
        /\ ret' = <<"insert", arg.k, arg.vo, TRUE>>
    BY <1>9 DEF InsertNew, Return, Whole
  <2>2. arg.k \in Keys /\ arg.vo \in ValueObjs /\ content[arg.ko] = arg.k
    BY <1>1, <2>1 DEF Owned, Walking
  <2>3. /\ \A x \in alloc : value'[x] = value[x] /\ content'[key'[x]] = content[key[x]]
        /\ value'[n] = arg.vo /\ content'[key'[n]] = arg.k
    BY <1>1, <1>2, <2>1, <2>2
  <2>4. ASSUME NEW k \in Keys PROVE CurrentMap'[k] = IF k = arg.k THEN arg.vo ELSE CurrentMap[k]
    <3>1. CASE k = arg.k
      BY <2>1, <2>3, <3>1 DEF MapIs, KeyOf
    <3>2. CASE k # arg.k /\ \E x \in alloc : content[key[x]] = k
      BY <2>1, <2>3, <3>2 DEF MapIs, KeyOf
    <3>3. CASE k # arg.k /\ ~ \E x \in alloc : content[key[x]] = k
      <4>1. ~ \E x \in alloc' : content'[key'[x]] = k
        BY <2>1, <2>3, <3>3
      <4> QED
        BY <3>3, <4>1 DEF MapIs, KeyOf
    <3> QED
      BY <3>1, <3>2, <3>3
  <2>5. CurrentMap' = [CurrentMap EXCEPT ![arg.k] = arg.vo]
    BY <1>3, <2>4
  <2> QED
    BY <2>1, <2>2, <2>5 DEF KV!Next, KV!Insert
<1>10. CASE InsertFails
  <2>1. /\ Whole /\ Whole' /\ pos = NULL /\ UNCHANGED <<alloc, key, value, content>>
        /\ ret' = <<"insert", arg.k, arg.vo, FALSE>> /\ Walking
    BY <1>10 DEF InsertFails, Return, Whole, Walking
  <2>2. arg.k \in Keys /\ arg.vo \in ValueObjs /\ \A n \in alloc : KeyOf(n) # arg.k
    BY <1>1, <1>10, <2>1, NotFound DEF Owned, InsertFails
  <2>3. CurrentMap[arg.k] = Absent
    BY <2>2 DEF MapIs
  <2>4. CurrentMap' = CurrentMap
    BY <2>1, MapKept
  <2> QED
    BY <2>1, <2>2, <2>3, <2>4 DEF KV!Next, KV!InsertFails
<1>11. CASE LookupReturns
  <2>1. /\ Whole /\ Whole' /\ UNCHANGED <<alloc, key, value, content>> /\ Walking
        /\ pos # NULL => content[key[pos]] = arg.k
        /\ ret' = <<"lookup", arg.k, IF pos = NULL THEN Absent ELSE value[pos]>>
    BY <1>11 DEF LookupReturns, Return, Whole, Walking, Matches, objects
  <2>2. arg.k \in Keys /\ (pos # NULL => pos \in alloc)
    BY <1>1, <2>1 DEF Owned, IInv, CursorSafe
  <2>3. CurrentMap[arg.k] = IF pos = NULL THEN Absent ELSE value[pos]
    <3>1. CASE pos = NULL
      <4>1. \A n \in alloc : KeyOf(n) # arg.k
        BY <2>1, <3>1, NotFound
      <4> QED
        BY <2>2, <3>1, <4>1 DEF MapIs
    <3>2. CASE pos # NULL
      BY <2>1, <2>2, <3>2 DEF MapIs, KeyOf
    <3> QED
      BY <3>1, <3>2
  <2>4. CurrentMap' = CurrentMap
    BY <2>1, MapKept
  <2> QED
    BY <2>1, <2>2, <2>3, <2>4 DEF KV!Next, KV!Lookup
<1>12. CASE RemoveMiss
  <2>1. /\ Whole /\ Whole' /\ pos = NULL /\ UNCHANGED <<alloc, key, value, content>>
        /\ ret' = <<"remove", arg.k>> /\ Walking
    BY <1>12 DEF RemoveMiss, Return, Whole, Walking, objects
  <2>2. arg.k \in Keys /\ \A n \in alloc : KeyOf(n) # arg.k
    BY <1>1, <2>1, NotFound DEF Owned
  <2>3. CurrentMap[arg.k] = Absent
    BY <2>2 DEF MapIs
  <2>4. CurrentMap' = CurrentMap
    BY <2>1, MapKept
  <2>5. CurrentMap' = [CurrentMap EXCEPT ![arg.k] = Absent]
    BY <1>3, <2>2, <2>3, <2>4
  <2> QED
    BY <2>1, <2>2, <2>5 DEF KV!Next, KV!Remove
<1>13. CASE RemoveFound
  <2>1. /\ Whole /\ Whole' /\ pos # NULL /\ content[key[pos]] = arg.k /\ Walking
        /\ UNCHANGED content /\ ret' = <<"remove", arg.k>>
        /\ alloc' = alloc \ {pos} /\ key' = [key EXCEPT ![pos] = Wild] /\ value' = [value EXCEPT ![pos] = Wild]
    BY <1>13 DEF RemoveFound, FreeEntry, Return, Whole, Walking, Matches
  <2>2. arg.k \in Keys /\ pos \in alloc
    BY <1>1, <2>1 DEF Owned, IInv, CursorSafe
  <2>3. \A n \in alloc' : n \in alloc /\ n # pos /\ value'[n] = value[n] /\ key'[n] = key[n]
    BY <1>1, <1>2, <2>1
  <2>4. \A n, o \in alloc : content[key[n]] = content[key[o]] => n = o
    BY DEF IInv, Buckets, KeyOf
  <2>5. ASSUME NEW k \in Keys PROVE CurrentMap'[k] = IF k = arg.k THEN Absent ELSE CurrentMap[k]
    <3>1. CASE k = arg.k
      <4>1. \A n \in alloc' : content'[key'[n]] # k
        BY <2>1, <2>2, <2>3, <2>4, <3>1
      <4> QED
        BY <3>1, <4>1 DEF MapIs, KeyOf
    <3>2. CASE k # arg.k /\ \E n \in alloc : content[key[n]] = k
      <4>1. PICK n \in alloc : content[key[n]] = k
        BY <3>2
      <4>2. n \in alloc' /\ content'[key'[n]] = k /\ value'[n] = value[n]
        BY <2>1, <2>3, <3>2, <4>1
      <4> QED
        BY <2>1, <3>2, <4>1, <4>2 DEF MapIs, KeyOf
    <3>3. CASE k # arg.k /\ ~ \E n \in alloc : content[key[n]] = k
      <4>1. \A n \in alloc' : content'[key'[n]] # k
        BY <2>1, <2>3, <3>3
      <4> QED
        BY <3>3, <4>1 DEF MapIs, KeyOf
    <3> QED
      BY <3>1, <3>2, <3>3
  <2>6. CurrentMap' = [CurrentMap EXCEPT ![arg.k] = Absent]
    BY <1>3, <2>5
  <2> QED
    BY <2>1, <2>2, <2>6 DEF KV!Next, KV!Remove
<1>14. CASE DestroyCall
  <2>1. ~Whole' /\ ret' = <<"destroy">>
    BY <1>14 DEF DestroyCall, Whole
  <2>2. CurrentMap' = [k \in Keys |-> Absent]
    BY <2>1, MapGone
  <2> QED
    BY <2>1, <2>2 DEF KV!Next, KV!Destroy
<1>15. CASE DestroyEntry \/ DestroyBucket \/ DestroyReturns
  <2>1. ~Whole /\ ~Whole' /\ ret' = ret
    BY <1>15 DEF DestroyEntry, DestroyBucket, DestroyReturns, Whole
  <2>2. CurrentMap' = [k \in Keys |-> Absent]
    BY <2>1, MapGone
  <2>3. \A k \in Keys : CurrentMap[k] = Absent
    BY <2>1 DEF MapIs
  <2> QED
    BY <1>3, <2>1, <2>2, <2>3
<1>16. CASE \E nb \in NbStats, w \in Words : BucketStats(nb, w)
  <2>1. PICK nb \in NbStats, w \in Words : BucketStats(nb, w)
    BY <1>16
  <2>2. Whole /\ Whole' /\ UNCHANGED <<alloc, key, value, content>> /\ ret'[1] = "stats"
    BY <2>1 DEF BucketStats, Whole, objects
  <2>3. CurrentMap' = CurrentMap
    BY <2>2, MapKept
  <2> QED
    BY <2>2, <2>3 DEF KV!Next, KV!Stats
<1> QED
  BY <1>4, <1>5, <1>6, <1>7, <1>8, <1>9, <1>10, <1>11, <1>12, <1>13, <1>14, <1>15, <1>16 DEF Next, Step

\* The table is the map that simple_ht.h promises: each call answers, and
\* changes the map, as the map would, and walking changes nothing.
THEOREM ImplementsMap == Spec => IsMap
<1>1. IInv /\ IInv' /\ MapIs /\ MapIs' /\ [Next]_vars => [KV!Next]_<<CurrentMap, ret>>
  <2> SUFFICES ASSUME IInv, IInv', MapIs, MapIs', [Next]_vars
               PROVE  KV!Next \/ UNCHANGED <<CurrentMap, ret>>
    BY DEF KV!Next
  <2>1. CASE Next
    BY <2>1, StepMap
  <2>2. CASE UNCHANGED vars
    BY <2>2 DEF vars, objects, CurrentMap, Whole
  <2> QED
    BY <2>1, <2>2
<1> QED
  BY <1>1, InitMap, Invariance, MapOfEntries, PTL DEF Spec, IsMap, KV!Spec

\* A key object goes with its entry.
LEMMA StepKeysKept ==
  ASSUME IInv, MapIs, Next
  PROVE  \A ko \in KeyObjs : ~Stray(ko) /\ Stray(ko)' => ko = arg.ko /\ CurrentMap[arg.k] # Absent
<1>1. TypeOK /\ Owned /\ ObjectsOwned /\ alloc \subseteq Nodes
  BY DEF IInv, TypeOK
<1>2. /\ value \in [Nodes -> ValueObjs \cup {Wild}] /\ key \in [Nodes -> KeyObjs \cup {Wild}]
      /\ owner \in [Objects -> {"free", "caller", "table"}]
      /\ KeyObjs \cap ValueObjs = {} /\ Absent \notin ValueObjs
      /\ KeyObjs \subseteq Objects
  BY <1>1, HashTableAssumption DEF TypeOK, Objects
<1>3. ASSUME NEW ko \in KeyObjs, ~Stray(ko), Stray(ko)', UNCHANGED <<alloc, key>>,
             owner'[ko] = "table" => owner[ko] = "table"
      PROVE  FALSE
  BY <1>3 DEF Stray
<1>4. CASE Create \/ DestroyCall \/ DestroyBucket \/ DestroyReturns \/ LookupReturns \/ RemoveMiss
           \/ InsertAdvance \/ LookupAdvance \/ RemoveAdvance
           \/ (\E k \in Keys : LookupCall(k) \/ RemoveCall(k))
           \/ (\E nb \in NbStats, w \in Words : BucketStats(nb, w))
  <2>1. UNCHANGED <<alloc, key, owner>>
    BY <1>4 DEF Create, DestroyCall, DestroyBucket, DestroyReturns, LookupReturns, RemoveMiss,
         InsertAdvance, LookupAdvance, RemoveAdvance, Advance, LookupCall, RemoveCall, Call, BucketStats, objects
  <2> QED
    BY <1>3, <2>1
<1>5. CASE \E k \in Keys, ko \in KeyObjs, vo \in ValueObjs : InsertCall(k, ko, vo)
  <2>1. PICK k \in Keys, ko \in KeyObjs, vo \in ValueObjs : InsertCall(k, ko, vo)
    BY <1>5
  <2>2. UNCHANGED <<alloc, key>> /\ owner' = [owner EXCEPT ![ko] = "caller", ![vo] = "caller"]
    BY <2>1 DEF InsertCall, Call
  <2>3. \A o \in KeyObjs : owner'[o] = "table" => owner[o] = "table"
    BY <1>2, <2>2
  <2> QED
    BY <1>3, <2>2, <2>3
<1>6. CASE InsertFails
  <2>1. UNCHANGED <<alloc, key>> /\ owner' = Freed({arg.ko, arg.vo})
    BY <1>6 DEF InsertFails
  <2>2. \A o \in KeyObjs : owner'[o] = "table" => owner[o] = "table"
    BY <1>2, <2>1 DEF Freed
  <2> QED
    BY <1>3, <2>1, <2>2
<1>7. CASE InsertUpdate
  <2>1. /\ Whole /\ pc = "insert" /\ pos # NULL /\ content[key[pos]] = arg.k /\ UNCHANGED <<alloc, key>>
        /\ owner' = [Freed({value[pos]}) EXCEPT ![arg.ko] = "table", ![arg.vo] = "table"]
    BY <1>7 DEF InsertUpdate, Matches, Whole
  <2>2. pos \in alloc /\ value[pos] \in ValueObjs /\ arg.ko \in KeyObjs /\ arg.vo \in ValueObjs
    BY <1>1, <2>1 DEF IInv, CursorSafe, Owned
  <2>3. CurrentMap[arg.k] # Absent
    BY <1>2, <2>1, <2>2 DEF MapIs, KeyOf
  <2>4. \A o \in KeyObjs : o # arg.ko => owner'[o] = owner[o]
    BY <1>2, <2>1, <2>2 DEF Freed
  <2> QED
    BY <1>3, <2>1, <2>3, <2>4
<1>8. ASSUME NEW n \in Nodes, InsertNew(n)
      PROVE  \A ko \in KeyObjs : ~(~Stray(ko) /\ Stray(ko)')
  <2>1. /\ pc = "insert" /\ n \notin alloc /\ alloc' = alloc \cup {n} /\ key' = [key EXCEPT ![n] = arg.ko]
        /\ owner' = [owner EXCEPT ![arg.ko] = "table", ![arg.vo] = "table"]
    BY <1>8 DEF InsertNew
  <2>2. arg.ko \in KeyObjs /\ arg.vo \in ValueObjs
    BY <1>1, <2>1 DEF Owned
  <2>3. key'[n] = arg.ko /\ \A x \in alloc : key'[x] = key[x]
    BY <1>1, <1>2, <2>1
  <2>4. \A o \in KeyObjs : o # arg.ko => owner'[o] = owner[o]
    BY <1>2, <2>1, <2>2
  <2> QED
    BY <2>1, <2>3, <2>4 DEF Stray
<1>9. CASE RemoveFound \/ DestroyEntry
  <2>1. /\ pos # NULL /\ alloc' = alloc \ {pos} /\ key' = [key EXCEPT ![pos] = Wild]
        /\ owner' = Freed({key[pos], value[pos]})
    BY <1>9 DEF RemoveFound, DestroyEntry, FreeEntry
  <2>2. pos \in alloc
    BY <2>1 DEF IInv, CursorSafe
  <2>3. \A x \in alloc : x # pos => key'[x] = key[x]
    BY <1>1, <1>2, <2>1
  <2>4. \A o \in KeyObjs : owner'[o] = "table" => owner[o] = "table" /\ o # key[pos]
    BY <1>2, <2>1 DEF Freed
  <2> QED
    BY <2>1, <2>2, <2>3, <2>4 DEF Stray
<1> QED
  BY <1>4, <1>5, <1>6, <1>7, <1>8, <1>9 DEF Next, Step

\* The table loses a key object in one way only: an insert whose key is there
\* already takes the new copy over and has no place for it.
THEOREM KeysStayKept == Spec => KeysKept
<1>1. IInv /\ MapIs /\ [Next]_vars =>
        [\A ko \in KeyObjs : ~Stray(ko) /\ Stray(ko)' => ko = arg.ko /\ CurrentMap[arg.k] # Absent]_vars
  BY StepKeysKept
<1> QED
  BY <1>1, Invariance, MapOfEntries, PTL DEF Spec, KeysKept

-----------------------------------------------------------------------------
(* Statistics *)

\* As many entries are walked through in a bucket as keys of the map are in it.
LEMMA ItemsCounted ==
  ASSUME IInv, MapIs, Whole, NEW h \in Heads
  PROVE  Len(Items(mem, First(h))) = BucketSize(h) /\ BucketSize(h) \in Nat
<1> DEFINE N == Cardinality(Nodes)
           cell == Cursor(mem, First(h))
           J == {j \in 0..N : cell[j] \in Nodes}
           K == {k \in Keys : Bucket(k) = h /\ CurrentMap[k] # Absent}
           f == [j \in J |-> KeyOf(cell[j])]
<1>0. N \in Nat
  BY NodesCounted
<1>1. PICK d : Linked(mem, alloc, d)
  BY DEF IInv, Acyclic
<1>2. alloc \subseteq Nodes /\ NULL \notin Nodes /\ mem \in Memory /\ First(h) \in Slots
  BY HListAssumption, SlotsDiffer DEF IInv, TypeOK
<1>3. mem.at[First(h)] \in alloc \cup {NULL}
  BY WholeEntry
<1>4. /\ \A k \in 0..N : cell[k] \in alloc \cup {NULL}
      /\ \A k \in 0..N, j \in 0..N : j < k /\ cell[k] \in Nodes => cell[j] \in Nodes /\ d[cell[j]] < d[cell[k]]
      /\ DOMAIN cell = 0..N
  BY <1>1, <1>2, <1>3, WalkEnds, CursorIs
<1>5. {cell[k] : k \in 0..N} \cap Nodes = {n \in alloc : Bucket(KeyOf(n)) = h}
  BY <1>4, BucketList DEF Visited
<1> HIDE DEF N, cell
<1>6. IsFiniteSet(J) /\ Cardinality(J) \in Nat
  <2>1. 0 \in Int /\ N \in Int
    BY <1>0
  <2>2. IsFiniteSet(0..N)
    BY <2>1, FS_Interval
  <2>3. J \in SUBSET (0..N)
    OBVIOUS
  <2> HIDE DEF J
  <2>4. IsFiniteSet(J)
    BY <2>2, <2>3, FS_Subset
  <2> QED
    BY <2>4, FS_CardinalityType
<1>7. \A n \in alloc : KeyOf(n) \in Keys /\ CurrentMap[KeyOf(n)] # Absent
  BY HashTableAssumption DEF IInv, Owned, MapIs
<1>8. \A n, o \in alloc : KeyOf(n) = KeyOf(o) => n = o
  BY DEF IInv, Buckets
<1>9. \A j \in J : cell[j] \in alloc /\ Bucket(KeyOf(cell[j])) = h
  BY <1>2, <1>4, <1>5
<1>10. f \in [J -> K]
  BY <1>7, <1>9
<1>11. \A i, j \in J : f[i] = f[j] => i = j
  <2> SUFFICES ASSUME NEW i \in J, NEW j \in J, f[i] = f[j], i # j PROVE FALSE
    OBVIOUS
  <2>1. cell[i] = cell[j]
    BY <1>8, <1>9
  <2>2. (i < j \/ j < i) /\ d[cell[i]] \in Nat
    BY <1>0, <1>1, <1>2, <1>9 DEF Linked
  <2> QED
    BY <1>4, <2>1, <2>2
<1>12. \A k \in K : \E j \in J : f[j] = k
  <2> SUFFICES ASSUME NEW k \in K PROVE \E j \in J : f[j] = k
    OBVIOUS
  <2>1. PICK n \in alloc : KeyOf(n) = k
    BY DEF MapIs
  <2>2. PICK j \in 0..N : cell[j] = n
    BY <1>5, <2>1
  <2>3. j \in J
    BY <1>2, <2>2
  <2> QED
    BY <2>1, <2>2, <2>3
<1>13. Cardinality(K) = Cardinality(J)
  <2> HIDE DEF J, K, f
  <2>1. f \in Bijection(J, K)
    BY <1>10, <1>11, <1>12 DEF Bijection, Injection, Surjection, IsInjective
  <2>2. ExistsBijection(J, K)
    BY <2>1 DEF ExistsBijection
  <2> QED
    BY <1>6, <2>2, FS_Bijection
<1>14. Len(Items(mem, First(h))) = Cardinality(J)
  <2>1. Items(mem, First(h)) = [k \in 1..Cardinality(J) |-> cell[k - 1]]
    BY <1>4 DEF Items, cell
  <2> HIDE DEF J
  <2> QED
    BY <1>6, <2>1
<1> QED
  BY <1>6, <1>13, <1>14 DEF BucketSize

\* What the statistics of zeros are.
LEMMA StatsAreExact ==
  ASSUME IInv, MapIs, NEW nb \in NbStats, nb >= 2, BucketStats(nb, 0)
  PROVE  Exact(nb, ret'[4])
<1>1. Whole /\ nb \in Nat
  BY HashTableAssumption DEF BucketStats, Whole
<1>2. \A h \in Heads : Len(Items(mem, First(h))) = BucketSize(h) /\ BucketSize(h) \in Nat
  BY <1>1, ItemsCounted
<1>3. \A j \in 0..nb - 1 : Cleared(j, 0, nb) = 0
  <2>1. nb % 4 \in 0..3 /\ (nb % 4) + 1 \in 1..4
    BY <1>1
  <2>2. \A k \in 1..4 : <<1, 256, 65536, 16777216>>[k] \in Nat \ {0}
    OBVIOUS
  <2>3. \A x \in Nat \ {0} : 0 - (0 % x) = 0
    OBVIOUS
  <2> QED
    BY <2>1, <2>2, <2>3 DEF Cleared
<1>4. ASSUME NEW j \in 0..nb - 1
      PROVE  ret'[4][j] = Cardinality({h \in Heads : Class(BucketSize(h), nb) = j})
  <2> DEFINE C == {h \in Heads : Class(Len(Items(mem, First(h))), nb) = j}
  <2>1. ret'[4][j] = Cleared(j, 0, nb) + Cardinality(C)
    <3>1. ret'[4] = [i \in 0..nb - 1 |->
                      IF nb < 2 THEN 0
                      ELSE Cleared(i, 0, nb)
                           + Cardinality({h \in Heads : Class(Len(Items(mem, First(h))), nb) = i})]
      BY DEF BucketStats
    <3> QED
      BY <1>1, <3>1
  <2>2. C = {h \in Heads : Class(BucketSize(h), nb) = j}
    BY <1>2
  <2>3. Cardinality(C) \in Nat
    <3>1. 0 \in Int /\ Size - 1 \in Int /\ Heads = 0..Size - 1
      BY BucketsAreHeads
    <3>2. IsFiniteSet(Heads)
      BY <3>1, FS_Interval
    <3>3. C \in SUBSET Heads
      OBVIOUS
    <3> HIDE DEF C
    <3>4. IsFiniteSet(C)
      BY <3>2, <3>3, FS_Subset
    <3> QED
      BY <3>4, FS_CardinalityType
  <2> HIDE DEF C
  <2> QED
    BY <1>3, <2>1, <2>2, <2>3
<1>5. ASSUME NEW j \in 0..nb - 2 PROVE ret'[4][j] = Cardinality({h \in Heads : BucketSize(h) = j})
  <2>1. j \in 0..nb - 1 /\ \A b \in Nat : Class(b, nb) = j <=> b = j
    BY <1>1 DEF Class
  <2>2. {h \in Heads : Class(BucketSize(h), nb) = j} = {h \in Heads : BucketSize(h) = j}
    BY <1>2, <2>1
  <2> QED
    BY <1>4, <2>1, <2>2
<1>6. ret'[4][nb - 1] = Cardinality({h \in Heads : BucketSize(h) > nb - 2})
  <2>1. nb - 1 \in 0..nb - 1 /\ \A b \in Nat : Class(b, nb) = nb - 1 <=> b > nb - 2
    BY <1>1 DEF Class
  <2>2. {h \in Heads : Class(BucketSize(h), nb) = nb - 1} = {h \in Heads : BucketSize(h) > nb - 2}
    BY <1>2, <2>1
  <2> QED
    BY <1>4, <2>1, <2>2
<1> QED
  BY <1>5, <1>6 DEF Exact

\* The statistics that the last call has left are of the table as it is: no
\* entry comes or goes before the next call.
StatsInv ==
  /\ pc \in {"none", "destroy"} => ret[1] # "stats"
  /\ StatsCounted

\* At first there are none.
LEMMA InitStats == Init => StatsInv
  BY DEF Init, StatsInv, StatsCounted, StatsAsked

\* They are counted when they are asked for, and forgotten by what changes the
\* entries.
LEMMA StepStats ==
  ASSUME IInv, MapIs, MapIs', StatsInv, [Next]_vars
  PROVE  StatsInv'
<1>1. CASE UNCHANGED <<pc, ret, CurrentMap>>
  BY <1>1 DEF StatsInv, StatsCounted, StatsAsked, Exact, BucketSize, Bucket
<1>2. CASE UNCHANGED vars
  BY <1>1, <1>2 DEF vars, objects, CurrentMap, Whole
<1>3. CASE \E nb \in NbStats, w \in Words : BucketStats(nb, w)
  <2>1. PICK nb \in NbStats, w \in Words : BucketStats(nb, w)
    BY <1>3
  <2>2. /\ Whole /\ Whole' /\ pc = "idle" /\ pc' = "idle" /\ UNCHANGED <<alloc, key, value, content>>
        /\ ret' = <<"stats", nb, w, ret'[4]>> /\ nb \in Nat
    BY <2>1, HashTableAssumption DEF BucketStats, Whole, objects
  <2>3. CurrentMap' = CurrentMap
    BY <2>2, MapKept
  <2>4. w = 0 /\ nb >= 2 => Exact(nb, ret'[4])
    BY <2>1, StatsAreExact
  <2>5. w = 0 /\ nb >= 2 => Exact(ret[2], ret[4])'
    <3>1. \A h \in Heads : BucketSize(h)' = BucketSize(h)
      BY <2>3 DEF BucketSize, Bucket
    <3>2. /\ \A j \in 0..nb - 2 : {h \in Heads : BucketSize(h)' = j} = {h \in Heads : BucketSize(h) = j}
          /\ {h \in Heads : BucketSize(h)' > nb - 2} = {h \in Heads : BucketSize(h) > nb - 2}
      BY <3>1
    <3>3. ret'[2] = nb
      BY <2>2
    <3> QED
      BY <2>4, <3>2, <3>3 DEF Exact
  <2> QED
    BY <2>2, <2>5 DEF StatsInv, StatsCounted, StatsAsked
<1>4. CASE Create
  BY <1>4 DEF Create, StatsInv, StatsCounted, StatsAsked
<1>5. CASE \/ \E k \in Keys, ko \in KeyObjs, vo \in ValueObjs : InsertCall(k, ko, vo)
           \/ \E k \in Keys : LookupCall(k) \/ RemoveCall(k)
           \/ InsertAdvance \/ LookupAdvance \/ RemoveAdvance
  <2>1. pc' \in {"insert", "lookup", "remove"}
    BY <1>5 DEF InsertCall, LookupCall, RemoveCall, Call, InsertAdvance, LookupAdvance, RemoveAdvance, Advance
  <2> QED
    BY <2>1 DEF StatsInv, StatsCounted, StatsAsked
<1>6. CASE InsertUpdate \/ (\E n \in Nodes : InsertNew(n)) \/ InsertFails \/ LookupReturns \/ RemoveFound
           \/ RemoveMiss \/ DestroyCall
  <2>1. ret'[1] # "stats"
    <3>1. CASE InsertUpdate \/ (\E n \in Nodes : InsertNew(n)) \/ InsertFails
      <4>1. \E b : ret' = <<"insert", arg.k, arg.vo, b>>
        BY <3>1 DEF InsertUpdate, InsertNew, InsertFails, Return
      <4> QED
        BY <4>1
    <3>2. CASE LookupReturns
      <4>1. ret' = <<"lookup", arg.k, IF pos = NULL THEN Absent ELSE value[pos]>>
        BY <3>2 DEF LookupReturns, Return
      <4> QED
        BY <4>1
    <3>3. CASE RemoveFound \/ RemoveMiss
      <4>1. ret' = <<"remove", arg.k>>
        BY <3>3 DEF RemoveFound, RemoveMiss, Return
      <4> QED
        BY <4>1
    <3>4. CASE DestroyCall
      <4>1. ret' = <<"destroy">>
        BY <3>4 DEF DestroyCall
      <4> QED
        BY <4>1
    <3> QED
      BY <1>6, <3>1, <3>2, <3>3, <3>4
  <2> QED
    BY <2>1 DEF StatsInv, StatsCounted, StatsAsked
<1>7. CASE DestroyEntry \/ DestroyBucket \/ DestroyReturns
  BY <1>7 DEF DestroyEntry, DestroyBucket, DestroyReturns, StatsInv, StatsCounted, StatsAsked
<1> QED
  BY <1>2, <1>3, <1>4, <1>5, <1>6, <1>7 DEF Next, Step

\* simple_ht_bucket_stats(), given zeros, counts each bucket by the number of
\* the map's keys in it.
THEOREM StatsStayCounted == Spec => []StatsCounted
<1>1. StatsInv => StatsCounted
  BY DEF StatsInv
<1>2. IInv /\ MapIs /\ MapIs' /\ StatsInv /\ [Next]_vars => StatsInv'
  BY StepStats
<1> QED
  BY <1>1, <1>2, InitStats, Invariance, MapOfEntries, PTL DEF Spec
=============================================================================
