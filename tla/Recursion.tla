------------------------------- MODULE Recursion -------------------------------
(***************************************************************************)
(* Induction on numbers with a set in the place of a formula, which the    *)
(* provers can instantiate, and functions that are defined by recursion.   *)
(***************************************************************************)
EXTENDS Integers, FiniteSetTheorems, WellFoundedInduction, TLAPS

\* Sets of numbers have a least element.
LEMMA Least ==
  ASSUME NEW T \in SUBSET Nat, T # {}
  PROVE  \E n \in T : \A m \in T : n <= m
  <1>0. PICK k \in T : TRUE
    OBVIOUS
  <1> DEFINE S == 1 .. k
             R == StrictSubsetOrdering(S)
             I == {1 .. n : n \in {m \in T : m <= k}}
  <1>2. IsWellFoundedOn(R, FiniteSubsetsOf(S))
    BY FS_StrictSubsetOrderingWellFounded
  <1>3. \A n \in T : n <= k => 1 .. n \in FiniteSubsetsOf(S)
    <2> SUFFICES ASSUME NEW n \in T, n <= k PROVE 1 .. n \in FiniteSubsetsOf(S)
      OBVIOUS
    <2>1. IsFiniteSet(1 .. n)
      BY FS_Interval
    <2>2. 1 .. n \subseteq S
      OBVIOUS
    <2> HIDE DEF S
    <2> QED
      BY <2>1, <2>2, Zenon DEF FiniteSubsetsOf
  <1>4. I # {}
    OBVIOUS
  <1>5. PICK i \in I : \A j \in I : ~(<<j, i>> \in R)
    <2>1. I \subseteq FiniteSubsetsOf(S)
      BY <1>3
    <2> HIDE DEF I, R
    <2> QED
      BY <1>2, <2>1, <1>4, WFMin
  <1>6. PICK n \in T : n <= k /\ i = 1 .. n
    OBVIOUS
  <1>7. ASSUME NEW m \in T, m < n PROVE FALSE
    <2>1. m <= k
      BY <1>6, <1>7
    <2>2. 1 .. m \in SUBSET S /\ 1 .. n \in SUBSET S
      BY <1>6, <2>1
    <2>3. 1 .. m \subseteq 1 .. n /\ n \in 1 .. n /\ n \notin 1 .. m
      BY <1>7
    <2>4. <<1 .. m, 1 .. n>> \in R
      BY <2>2, <2>3, Zenon DEF StrictSubsetOrdering
    <2> QED BY <2>1, <2>4, <1>5, <1>6
  <1> QED
    BY <1>6, <1>7

\* Induction, with a set for the formula.
LEMMA Induct ==
  ASSUME NEW S, 0 \in S, \A n \in Nat : n \in S => n + 1 \in S
  PROVE  Nat \subseteq S
  <1> SUFFICES ASSUME Nat \ S # {} PROVE FALSE
    OBVIOUS
  <1>1. PICK n \in Nat \ S : \A m \in Nat \ S : n <= m
    BY Least
  <1>2. n - 1 \in Nat /\ n - 1 \in S
    BY <1>1
  <1> QED
    BY <1>1, <1>2

\* The same from one number to another.
LEMMA InductTo ==
  ASSUME NEW N \in Nat, NEW S, 0 \in S, \A n \in 1 .. N : n - 1 \in S => n \in S
  PROVE  0 .. N \subseteq S
  <1> DEFINE T == {n \in Nat : n <= N => n \in S}
  <1>1. 0 \in T
    OBVIOUS
  <1>2. ASSUME NEW n \in Nat, n \in T PROVE n + 1 \in T
    <2> SUFFICES ASSUME n + 1 <= N PROVE n + 1 \in S
      OBVIOUS
    <2>1. n \in S /\ n + 1 \in 1 .. N /\ (n + 1) - 1 = n
      BY <1>2
    <2> QED
      BY <2>1
  <1>3. Nat \subseteq T
    <2> HIDE DEF T
    <2> QED
      BY <1>1, <1>2, Induct
  <1> QED
    BY <1>3

\* Induction from the greatest number down.
LEMMA InductDown ==
  ASSUME NEW N \in Nat, NEW R, NEW o \in [R -> 0 .. N], NEW S,
         \A b \in R : (\A a \in R : o[a] > o[b] => a \in S) => b \in S
  PROVE  R \subseteq S
  <1> SUFFICES ASSUME R \ S # {} PROVE FALSE
    OBVIOUS
  <1> DEFINE T == {N - o[b] : b \in R \ S}
  <1>1. T \in SUBSET Nat /\ T # {}
    OBVIOUS
  <1>2. PICK n \in T : \A m \in T : n <= m
    <2> HIDE DEF T
    <2> QED
      BY <1>1, Least
  <1>3. PICK b \in R \ S : n = N - o[b]
    BY <1>2
  <1>4. ASSUME NEW a \in R, o[a] > o[b], a \notin S PROVE FALSE
    <2>1. n <= N - o[a]
      BY <1>2, <1>4
    <2> QED
      BY <2>1, <1>3, <1>4
  <1> QED
    BY <1>3, <1>4

\* What is defined from one number to the next exists.
IsIteration(f, V, v, H) ==
  f \in [Nat -> V] /\ f[0] = v /\ \A n \in Nat : f[n + 1] = H[n][f[n]]
LEMMA Iterates ==
  ASSUME NEW V, NEW v \in V, NEW H \in [Nat -> [V -> V]]
  PROVE  \E f : IsIteration(f, V, v, H)
  <1> DEFINE Up(g, m) == g[0] = v /\ \A n \in Nat : n < m => g[n + 1] = H[n][g[n]]
             S == {m \in Nat : \E g \in [Nat -> V] : Up(g, m)}
  <1>1. 0 \in S
    <2>1. [n \in Nat |-> v] \in [Nat -> V] /\ Up([n \in Nat |-> v], 0)
      OBVIOUS
    <2> QED
      BY <2>1
  <1>2. ASSUME NEW m \in Nat, m \in S PROVE m + 1 \in S
    <2>1. PICK g \in [Nat -> V] : Up(g, m)
      BY <1>2
    <2>2. PICK w \in V : w = H[m][g[m]]
      OBVIOUS
    <2> DEFINE h == [n \in Nat |-> IF n = m + 1 THEN w ELSE g[n]]
    <2>3. h \in [Nat -> V]
      OBVIOUS
    <2>4. h[0] = v
      BY <2>1
    <2>5. \A n \in Nat : n < m + 1 => h[n] = g[n]
      OBVIOUS
    <2>6. ASSUME NEW n \in Nat, n < m + 1 PROVE h[n + 1] = H[n][h[n]]
      <3>1. h[n] = g[n]
        BY <2>5, <2>6
      <3>2. CASE n = m
        BY <2>2, <3>1, <3>2
      <3>3. CASE n # m
        <4>1. n < m /\ n + 1 # m + 1 /\ n + 1 \in Nat
          BY <2>6, <3>3
        <4>2. h[n + 1] = g[n + 1]
          BY <4>1
        <4> QED
          BY <2>1, <3>1, <4>1, <4>2
      <3> QED
        BY <3>2, <3>3
    <2> HIDE DEF h
    <2> QED
      BY <2>3, <2>4, <2>6
  <1>3. Nat \subseteq S
    <2> HIDE DEF S
    <2> QED
      BY <1>1, <1>2, Induct
  <1> DEFINE G == [m \in Nat |-> CHOOSE g \in [Nat -> V] : Up(g, m)]
             f == [m \in Nat |-> G[m][m]]
  <1>4. \A m \in Nat : G[m] \in [Nat -> V] /\ Up(G[m], m)
    <2> SUFFICES ASSUME NEW m \in Nat PROVE G[m] \in [Nat -> V] /\ Up(G[m], m)
      OBVIOUS
    <2>1. \E g \in [Nat -> V] : Up(g, m)
      BY <1>3
    <2> HIDE DEF Up
    <2> QED
      BY <2>1
  <1> HIDE DEF S, G
  <1>5. \A m \in Nat : f[m] = G[m][m]
    OBVIOUS
  <1>6. f \in [Nat -> V]
    BY <1>4
  <1> HIDE DEF f
  <1>7. \A m, n \in Nat : n < m => G[m][n + 1] = H[n][G[m][n]]
    BY <1>4
  <1>8. \A n \in Nat : \A m \in Nat : n <= m => G[m][n] = f[n]
    <2> DEFINE I == {n \in Nat : \A m \in Nat : n <= m => G[m][n] = f[n]}
    <2>1. 0 \in I
      BY <1>4, <1>5
    <2>2. ASSUME NEW n \in Nat, n \in I PROVE n + 1 \in I
      <3>1. ASSUME NEW m \in Nat, n + 1 <= m PROVE G[m][n + 1] = f[n + 1]
        <4>1. n < m /\ n <= m /\ n < n + 1 /\ n <= n + 1 /\ n + 1 \in Nat
          BY <3>1
        <4>2. G[m][n + 1] = H[n][G[m][n]] /\ G[n + 1][n + 1] = H[n][G[n + 1][n]]
          BY <1>7, <4>1
        <4>3. G[m][n] = f[n] /\ G[n + 1][n] = f[n]
          BY <2>2, <4>1
        <4> QED
          BY <4>1, <4>2, <4>3, <1>5
      <3>2. n + 1 \in Nat
        OBVIOUS
      <3> QED
        BY <3>1, <3>2
    <2>3. Nat \subseteq I
      <3> HIDE DEF I
      <3> QED
        BY <2>1, <2>2, Induct
    <2> QED
      BY <2>3
  <1>9. f[0] = v
    BY <1>4, <1>5
  <1>10. ASSUME NEW n \in Nat PROVE f[n + 1] = H[n][f[n]]
    <2>1. n < n + 1 /\ n <= n + 1 /\ n + 1 \in Nat
      OBVIOUS
    <2> QED
      BY <2>1, <1>5, <1>7, <1>8
  <1> QED
    BY <1>6, <1>9, <1>10 DEF IsIteration

\* A list of values, each made from the one before it.
IsList(f, N, V, v, H) ==
  f \in [0 .. N -> V] /\ f[0] = v /\ \A n \in 1 .. N : f[n] = H[n][f[n - 1]]
LEMMA Unfolds ==
  ASSUME NEW N \in Nat, NEW V, NEW v \in V, NEW H \in [1 .. N -> [V -> V]]
  PROVE  \E f : IsList(f, N, V, v, H)
  <1> DEFINE G == [n \in Nat |-> [w \in V |-> IF n + 1 \in 1 .. N THEN H[n + 1][w] ELSE w]]
  <1>1. G \in [Nat -> [V -> V]]
    OBVIOUS
  <1>2. PICK g : IsIteration(g, V, v, G)
    <2> HIDE DEF G
    <2> QED
      BY <1>1, Iterates
  <1>3. g \in [Nat -> V] /\ g[0] = v /\ \A n \in Nat : g[n + 1] = G[n][g[n]]
    BY <1>2 DEF IsIteration
  <1> DEFINE f == [n \in 0 .. N |-> g[n]]
  <1>4. f \in [0 .. N -> V] /\ f[0] = v
    BY <1>3
  <1>5. ASSUME NEW n \in 1 .. N PROVE f[n] = H[n][f[n - 1]]
    <2>1. n - 1 \in Nat /\ (n - 1) + 1 = n /\ n \in 0 .. N /\ n - 1 \in 0 .. N
      OBVIOUS
    <2>2. g[n] = G[n - 1][g[n - 1]]
      BY <1>3, <2>1
    <2>3. G[n - 1][g[n - 1]] = H[n][g[n - 1]]
      <3>1. g[n - 1] \in V
        BY <1>3, <2>1
      <3>2. \A w \in V : G[n - 1][w] = H[n][w]
        BY <2>1
      <3> QED
        BY <3>1, <3>2
    <2> QED
      BY <2>1, <2>2, <2>3
  <1> QED
    BY <1>4, <1>5 DEF IsList

\* A function that is defined at each place by its value at a later one.
IsDescent(f, D, R, V, val, next, G) ==
  /\ f \in [D -> V]
  /\ \A b \in D : f[b] = IF b \in R THEN G[b][f[next[b]]] ELSE val[b]
LEMMA Descends ==
  ASSUME NEW N \in Nat, NEW D, NEW R \in SUBSET D, NEW o \in [D -> 0 .. N], NEW V, NEW val \in [D -> V],
         NEW next \in [R -> D], NEW G \in [R -> [V -> V]], \A b \in R : o[next[b]] > o[b]
  PROVE  \E f : IsDescent(f, D, R, V, val, next, G)
  <1> DEFINE F == [D -> V]
             E(w) == [b \in D |-> IF b \in R THEN G[b][w[next[b]]] ELSE val[b]]
             H == [n \in 1 .. N + 1 |-> [w \in F |-> E(w)]]
  <1>1. \A w \in F : E(w) \in F
    OBVIOUS
  <1>2. N + 1 \in Nat /\ H \in [1 .. N + 1 -> [F -> F]]
    BY <1>1
  <1>3. PICK g : IsList(g, N + 1, F, val, H)
    <2> HIDE DEF H, F
    <2>1. val \in F
      BY DEF F
    <2> QED
      BY <1>2, <2>1, Unfolds
  <1>4. g \in [0 .. N + 1 -> F] /\ g[0] = val /\ \A n \in 1 .. N + 1 : g[n] = H[n][g[n - 1]]
    BY <1>3 DEF IsList
  <1>5. \A n \in 1 .. N + 1 : n - 1 \in 0 .. N + 1 /\ g[n - 1] \in F /\ g[n] = E(g[n - 1])
    <2> TAKE n \in 1 .. N + 1
    <2>1. n - 1 \in 0 .. N + 1
      OBVIOUS
    <2>2. g[n - 1] \in F
      BY <1>4, <2>1
    <2>3. H[n][g[n - 1]] = E(g[n - 1])
      BY <2>2
    <2> HIDE DEF E, F, H
    <2> QED
      BY <1>4, <2>1, <2>2, <2>3
  <1> HIDE DEF H
  <1>6. ASSUME NEW b \in D, b \notin R PROVE \A n \in 1 .. N + 1 : g[n][b] = val[b]
    <2>1. \A w : E(w)[b] = val[b]
      BY <1>6
    <2> HIDE DEF E
    <2> QED
      BY <1>5, <2>1
  <1>7. \A b \in R : \A n \in 1 .. N + 1 : g[n][b] = G[b][g[n - 1][next[b]]]
    BY <1>5
  <1> DEFINE S == {b \in R : \A n \in 1 .. N + 1 : n >= N - o[b] + 1 => g[n][b] = g[N + 1][b]}
             p == [b \in R |-> o[b]]
  <1>8. p \in [R -> 0 .. N]
    OBVIOUS
  <1>9. ASSUME NEW b \in R, \A a \in R : p[a] > p[b] => a \in S PROVE b \in S
    <2> SUFFICES ASSUME NEW n \in 1 .. N + 1, n >= N - o[b] + 1 PROVE g[n][b] = g[N + 1][b]
      OBVIOUS
    <2>1. next[b] \in D /\ o[next[b]] > o[b] /\ o[b] \in 0 .. N /\ o[next[b]] \in 0 .. N
      OBVIOUS
    <2>2. n >= 2 \/ next[b] \notin R
      <3>1. CASE next[b] \in R
        <4>1. next[b] \in S
          BY <1>9, <2>1, <3>1
        <4> QED
          BY <2>1
      <3> QED
        BY <3>1
    <2>3. g[n - 1][next[b]] = g[N][next[b]]
      <3>1. CASE next[b] \in R
        <4>1. next[b] \in S
          BY <1>9, <2>1, <3>1
        <4>2. n - 1 \in 1 .. N + 1 /\ N \in 1 .. N + 1 /\ n - 1 >= N - o[next[b]] + 1 /\ N >= N - o[next[b]] + 1
          BY <2>1, <2>2, <3>1
        <4> QED
          BY <4>1, <4>2
      <3>2. CASE next[b] \notin R
        <4>1. \A m \in 0 .. N + 1 : g[m][next[b]] = val[next[b]]
          <5>1. \A m \in 0 .. N + 1 : m = 0 \/ m \in 1 .. N + 1
            OBVIOUS
          <5> QED
            BY <1>4, <1>6, <2>1, <3>2, <5>1
        <4>2. n - 1 \in 0 .. N + 1 /\ N \in 0 .. N + 1
          OBVIOUS
        <4> QED
          BY <4>1, <4>2
      <3> QED
        BY <3>1, <3>2
    <2>4. N + 1 \in 1 .. N + 1 /\ (N + 1) - 1 = N
      OBVIOUS
    <2> QED
      BY <1>7, <2>3, <2>4
  <1>10. R \subseteq S
    <2> HIDE DEF S, p
    <2> QED
      BY <1>8, <1>9, InductDown
  <1>11. g[N + 1] \in F /\ N + 1 \in 1 .. N + 1 /\ (N + 1) - 1 = N
    BY <1>4
  <1>12. ASSUME NEW b \in R PROVE g[N + 1][b] = G[b][g[N + 1][next[b]]]
    <2>1. g[N + 1][b] = G[b][g[N][next[b]]]
      BY <1>7, <1>11
    <2>2. next[b] \in D /\ o[next[b]] > o[b] /\ o[b] \in 0 .. N /\ o[next[b]] \in 0 .. N
      OBVIOUS
    <2>3. N \in 1 .. N + 1 /\ N >= N - o[next[b]] + 1
      BY <2>2
    <2>4. g[N][next[b]] = g[N + 1][next[b]]
      <3>1. CASE next[b] \in R
        BY <1>10, <2>3, <3>1
      <3>2. CASE next[b] \notin R
        BY <1>6, <1>11, <2>2, <2>3, <3>2
      <3> QED
        BY <3>1, <3>2
    <2> QED
      BY <2>1, <2>4
  <1>13. ASSUME NEW b \in D, b \notin R PROVE g[N + 1][b] = val[b]
    BY <1>6, <1>11, <1>13
  <1> HIDE DEF E
  <1> QED
    BY <1>11, <1>12, <1>13 DEF IsDescent
================================================================================
