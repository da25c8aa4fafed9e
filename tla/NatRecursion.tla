---------------------------- MODULE NatRecursion ----------------------------
(***************************************************************************)
(* Induction and recursion up to a number.  The induction theorems of the  *)
(* library take the formula as an operator, which no prover can            *)
(* instantiate; over a set, and with the step as a function, the same      *)
(* facts are first order.                                                  *)
(***************************************************************************)
EXTENDS Integers, NaturalsInduction, WellFoundedInduction, TLAPS

\* Every set of natural numbers that is not empty has a least element.
LEMMA LeastNat ==
  ASSUME NEW T \in SUBSET Nat, T # {}
  PROVE  \E x \in T : \A y \in T : x <= y
<1> DEFINE R == {ss \in Nat \X Nat : ss[1] < ss[2]}
<1>1. IsWellFoundedOn(R, Nat)
  BY NatLessThanWellFounded DEF OpToRel
<1> HIDE DEF R
<1>2. PICK x \in T : \A y \in T : ~ (<<y, x>> \in R)
  BY <1>1, WFMin
<1>3. ASSUME NEW y \in T PROVE x <= y
  <2>1. x \in Nat /\ y \in Nat /\ <<y, x>> \in Nat \X Nat /\ <<y, x>>[1] = y /\ <<y, x>>[2] = x
    OBVIOUS
  <2>2. ~(y < x)
    BY <1>2, <2>1 DEF R
  <2> QED
    BY <2>1, <2>2
<1> QED
  BY <1>3

\* Induction from m up to n, for a set.
LEMMA Upward ==
  ASSUME NEW m \in Nat, NEW n \in Nat, NEW T, m \in T,
         \A k \in m + 1..n : k - 1 \in T => k \in T
  PROVE  \A k \in m..n : k \in T
<1> DEFINE Rest == {k \in m..n : k \notin T}
<1> SUFFICES ASSUME Rest # {} PROVE FALSE
  OBVIOUS
<1>1. Rest \in SUBSET Nat
  OBVIOUS
<1>2. PICK k \in Rest : \A j \in Rest : k <= j
  BY <1>1, LeastNat
<1>3. k # m /\ k \in m + 1..n /\ k - 1 \in m..n /\ ~(k <= k - 1)
  BY <1>2
<1> QED
  BY <1>2, <1>3

\* A value for every k in m..n, each made of the one before it.
Recursive(S, a, m, n, G) ==
  \E f \in [m..n -> S] : f[m] = a /\ \A k \in m + 1..n : f[k] = G[<<k, f[k - 1]>>]

LEMMA Recursion ==
  ASSUME NEW S, NEW a \in S, NEW m \in Nat, NEW n \in Nat, m <= n, NEW G,
         \A k \in m + 1..n, x \in S : G[<<k, x>>] \in S
  PROVE  Recursive(S, a, m, n, G)
<1> DEFINE Is(f, e) == /\ f \in [m..e -> S] /\ f[m] = a
                       /\ \A k \in m + 1..e : f[k] = G[<<k, f[k - 1]>>]
           T == {e \in m..n : \E f : Is(f, e)}
<1>1. m \in T
  <2> DEFINE f == [k \in m..m |-> a]
  <2>1. m \in m..m /\ m \in m..n /\ m + 1..m = {}
    OBVIOUS
  <2>2. Is(f, m)
    BY <2>1
  <2> QED
    BY <2>1, <2>2
<1>2. ASSUME NEW e \in m + 1..n, e - 1 \in T PROVE e \in T
  <2>1. PICK f : Is(f, e - 1)
    BY <1>2
  <2> DEFINE g == [k \in m..e |-> IF k = e THEN G[<<e, f[e - 1]>>] ELSE f[k]]
  <2>2. f[e - 1] \in S /\ e \in Nat
    BY <2>1
  <2>3. g \in [m..e -> S] /\ g[m] = a /\ g[e] = G[<<e, f[e - 1]>>]
    BY <2>1, <2>2
  <2>4. \A k \in m..e - 1 : g[k] = f[k]
    OBVIOUS
  <2> HIDE DEF g
  <2>5. ASSUME NEW k \in m + 1..e PROVE g[k] = G[<<k, g[k - 1]>>]
    <3>0. k - 1 \in m..e - 1 /\ g[k - 1] = f[k - 1]
      BY <2>4
    <3>1. CASE k = e
      BY <2>3, <3>0, <3>1
    <3>2. CASE k # e
      <4>1. k \in m + 1..e - 1 /\ k \in m..e - 1
        BY <3>2
      <4>2. g[k] = f[k] /\ f[k] = G[<<k, f[k - 1]>>]
        BY <2>1, <2>4, <4>1
      <4> QED
        BY <3>0, <4>2
    <3> QED
      BY <3>1, <3>2
  <2>6. Is(g, e)
    BY <2>3, <2>5
  <2> QED
    BY <2>6
<1> HIDE DEF T
<1>3. \A k \in m + 1..n : k - 1 \in T => k \in T
  BY <1>2
<1>4. \A k \in m..n : k \in T
  BY <1>1, <1>3, Upward
<1>5. n \in T
  BY <1>4
<1> QED
  BY <1>5 DEF T, Recursive

-----------------------------------------------------------------------------
(* Recursion over arguments of a smaller size *)

\* What a function that is built from its own values at smaller arguments has
\* to satisfy in order to exist: G makes of f the function whose value at x is
\* computed from f, and looks at f only at arguments of a smaller size.
Shrinks(D, V, size, G) ==
  /\ \A f \in [D -> V] : G[f] \in [D -> V]
  /\ \A f, g \in [D -> V] : \A x \in D :
       (\A y \in D : size[y] < size[x] => f[y] = g[y]) => G[f][x] = G[g][x]

LEMMA SizeRecursion ==
  ASSUME NEW D, NEW V, NEW N \in Nat, NEW size \in [D -> 0..N], NEW G, Shrinks(D, V, size, G),
         NEW first \in [D -> V]
  PROVE  \E f \in [D -> V] : f = G[f]
<1> DEFINE S == [D -> V]
           H == [q \in Nat \X S |-> G[q[2]]]
<1>1. \A f \in S : G[f] \in S
  BY DEF Shrinks
<1>2. \A k \in 0 + 1..N + 2, f \in S : H[<<k, f>>] = G[f] /\ H[<<k, f>>] \in S
  <2>1. \A k \in 0 + 1..N + 2 : k \in Nat
    OBVIOUS
  <2> HIDE DEF S
  <2> QED
    BY <1>1, <2>1
<1>3. first \in S /\ 0 \in Nat /\ N + 2 \in Nat /\ 0 <= N + 2
  OBVIOUS
<1> HIDE DEF H, S
<1>4. PICK F \in [0..N + 2 -> S] : F[0] = first /\ \A k \in 0 + 1..N + 2 : F[k] = H[<<k, F[k - 1]>>]
  <2>1. Recursive(S, first, 0, N + 2, H)
    BY <1>2, <1>3, Recursion
  <2> QED
    BY <2>1 DEF Recursive
<1>5. \A k \in 1..N + 2 : F[k] = G[F[k - 1]] /\ F[k - 1] \in S /\ F[k] \in S
  <2> TAKE k \in 1..N + 2
  <2>1. k \in 0 + 1..N + 2 /\ k - 1 \in 0..N + 2 /\ k \in 0..N + 2
    OBVIOUS
  <2> QED
    BY <1>2, <1>4, <2>1
<1> DEFINE T == {k \in 1..N + 1 : \A x \in D : size[x] <= k - 1 => F[k + 1][x] = F[k][x]}
<1>6. ASSUME NEW k \in 1..N + 1, NEW x \in D, size[x] <= k - 1,
             \A y \in D : size[y] < size[x] => F[k][y] = F[k - 1][y]
      PROVE  F[k + 1][x] = F[k][x]
  <2>1. k \in 1..N + 2 /\ k + 1 \in 1..N + 2 /\ (k + 1) - 1 = k
    OBVIOUS
  <2>2. F[k] = G[F[k - 1]] /\ F[k + 1] = G[F[k]] /\ F[k] \in [D -> V] /\ F[k - 1] \in [D -> V]
    BY <1>5, <2>1 DEF S
  <2>3. G[F[k]][x] = G[F[k - 1]][x]
    BY <1>6, <2>2 DEF Shrinks
  <2> QED
    BY <2>2, <2>3
<1>7. 1 \in T
  <2>1. ASSUME NEW x \in D, size[x] <= 1 - 1 PROVE \A y \in D : ~(size[y] < size[x])
    BY <2>1
  <2>2. ASSUME NEW x \in D, size[x] <= 1 - 1 PROVE F[1 + 1][x] = F[1][x]
    <3>1. 1 \in 1..N + 1
      OBVIOUS
    <3> QED
      BY <1>6, <2>1, <2>2, <3>1
  <2> QED
    BY <2>2
<1>8. \A k \in 1 + 1..N + 1 : k - 1 \in T => k \in T
  <2> SUFFICES ASSUME NEW k \in 1 + 1..N + 1, k - 1 \in T,
                      NEW x \in D, size[x] <= k - 1 PROVE F[k + 1][x] = F[k][x]
    OBVIOUS
  <2>1. k \in 1..N + 1 /\ (k - 1) + 1 = k
    OBVIOUS
  <2>2. ASSUME NEW y \in D, size[y] < size[x] PROVE F[k][y] = F[k - 1][y]
    <3>1. size[y] \in Nat /\ size[x] \in Nat
      OBVIOUS
    <3>2. size[y] <= (k - 1) - 1
      BY <2>2, <3>1
    <3> QED
      BY <2>1, <3>2
  <2> QED
    BY <1>6, <2>1, <2>2
<1>9. N + 1 \in T
  <2> HIDE DEF T
  <2>0. 1 \in Nat /\ N + 1 \in Nat
    OBVIOUS
  <2>1. \A k \in 1..N + 1 : k \in T
    BY <1>7, <1>8, <2>0, Upward
  <2> QED
    BY <2>1
<1>10. F[N + 2] = F[N + 1] /\ F[N + 1] \in [D -> V] /\ F[N + 2] = G[F[N + 1]]
  <2>1. N + 2 \in 1..N + 2 /\ N + 1 \in 1..N + 2 /\ (N + 2) - 1 = N + 1 /\ (N + 1) + 1 = N + 2
    OBVIOUS
  <2>2. F[N + 1] \in [D -> V] /\ F[N + 2] \in [D -> V] /\ F[N + 2] = G[F[N + 1]]
    BY <1>5, <2>1 DEF S
  <2>3. \A x \in D : F[N + 2][x] = F[N + 1][x]
    <3>1. \A x \in D : size[x] <= (N + 1) - 1
      OBVIOUS
    <3> QED
      BY <1>9, <2>1, <3>1
  <2> QED
    BY <2>2, <2>3
<1> QED
  BY <1>10
=============================================================================
