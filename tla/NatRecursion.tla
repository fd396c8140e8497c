--------------------------- MODULE NatRecursion ---------------------------
(***************************************************************************)
(* Induction over the natural numbers, and functions defined by recursion  *)
(* over 0..N, in a form the first-order provers can use: what is proved by *)
(* induction is that a set contains the numbers, which follows from the    *)
(* well-ordering of Nat.  And division with remainder, of which those      *)
(* provers know no more than its definition.                               *)
(***************************************************************************)
EXTENDS Integers, WellFoundedInduction, TLAPS

NatLess == OpToRel(<, Nat)

\* A set that holds 0 and the successor of each number it holds, holds them
\* all: the induction principle of the loops over ports, slots and links.
LEMMA NatSetInduction ==
  ASSUME NEW S, 0 \in S, \A n \in Nat : n \in S => n + 1 \in S
  PROVE  Nat \subseteq S
<1> SUFFICES ASSUME Nat \ S # {}
             PROVE  FALSE
  OBVIOUS
<1>1. IsWellFoundedOn(NatLess, Nat)
  BY NatLessThanWellFounded, Zenon DEF NatLess
<1>2. PICK m \in Nat \ S : \A k \in Nat \ S : <<k, m>> \notin NatLess
  BY <1>1, WFMin
<1>3. \A k \in Nat : <<k, m>> \in NatLess <=> k < m
  BY <1>2 DEF NatLess, OpToRel
<1>4. m # 0 /\ m - 1 \in Nat /\ m - 1 < m
  BY <1>2
<1>5. m - 1 \in S
  BY <1>2, <1>3, <1>4
<1> QED
  BY <1>2, <1>4, <1>5

\* A set of numbers that is not empty has a least one.
LEMMA LeastNumber ==
  ASSUME NEW S, S \subseteq Nat, S # {}
  PROVE  \E m \in S : \A k \in S : m <= k
<1>1. IsWellFoundedOn(NatLess, Nat)
  BY NatLessThanWellFounded, Zenon DEF NatLess
<1>2. PICK m \in S : \A k \in S : <<k, m>> \notin NatLess
  BY <1>1, WFMin
<1>3. \A k \in S : <<k, m>> \in NatLess <=> k < m
  BY <1>2 DEF NatLess, OpToRel
<1>4. ASSUME NEW k \in S
      PROVE  m <= k
  <2>1. m \in Nat /\ k \in Nat /\ ~(k < m)
    BY <1>2, <1>3
  <2> QED
    BY <2>1
<1> QED
  BY <1>4

\* Induction again, for a loop that runs from 0 to N.
LEMMA IntervalInduction ==
  ASSUME NEW N \in Nat, NEW S, 0 \in S, \A n \in 1..N : n - 1 \in S => n \in S
  PROVE  0..N \subseteq S
<1> DEFINE T == {n \in Nat : n <= N => n \in S}
<1>1. 0 \in T
  OBVIOUS
<1>2. ASSUME NEW n \in Nat, n \in T
      PROVE  n + 1 \in T
  <2>1. CASE n + 1 <= N
    <3>1. n + 1 \in 1..N /\ (n + 1) - 1 = n /\ n \in S
      BY <1>2, <2>1
    <3> QED
      BY <3>1
  <2> QED
    BY <2>1
<1> HIDE DEF T
<1>3. Nat \subseteq T
  BY <1>1, <1>2, NatSetInduction
<1> QED
  BY <1>3 DEF T

\* Loops of N turns over S: the n-th turn takes x to F[n][x].  A trace of one
\* that starts from a.
Loops(N, S) == [1..N -> [S -> S]]
IsTrace(g, N, S, a, F) ==
  g \in [0..N -> S] /\ g[0] = a /\ \A n \in 1..N : g[n] = F[n][g[n - 1]]

\* Every loop has a trace.
LEMMA RecursionExists ==
  ASSUME NEW N \in Nat, NEW S, NEW a \in S, NEW F \in Loops(N, S)
  PROVE  \E g : IsTrace(g, N, S, a, F)
<1> USE DEF Loops
<1> DEFINE Trace(g, k) == g[0] = a /\ \A n \in 1..k : g[n] = F[n][g[n - 1]]
           T == {k \in 0..N : \E g \in [0..N -> S] : Trace(g, k)}
<1>1. 0 \in T
  <2> DEFINE h == [n \in 0..N |-> a]
  <2>1. h \in [0..N -> S] /\ h[0] = a
    OBVIOUS
  <2>2. \A n \in 1..0 : h[n] = F[n][h[n - 1]]
    OBVIOUS
  <2> HIDE DEF h
  <2> QED
    BY <2>1, <2>2
<1>2. ASSUME NEW k \in 1..N, k - 1 \in T
      PROVE  k \in T
  <2>1. PICK g \in [0..N -> S] : Trace(g, k - 1)
    BY <1>2
  <2>2. k - 1 \in 0..N /\ g[k - 1] \in S /\ F[k][g[k - 1]] \in S
    OBVIOUS
  <2> DEFINE h == [g EXCEPT ![k] = F[k][g[k - 1]]]
  <2>3. h \in [0..N -> S]
    BY <2>2
  <2>4. h[0] = a
    BY <2>1
  <2>5. ASSUME NEW n \in 1..k
        PROVE  h[n] = F[n][h[n - 1]]
    <3>1. n - 1 \in 0..N /\ n \in 0..N /\ n - 1 # k /\ h[n - 1] = g[n - 1]
      OBVIOUS
    <3>2. CASE n = k
      BY <3>1, <3>2
    <3>3. CASE n # k
      <4>1. n \in 1..(k - 1) /\ h[n] = g[n]
        BY <3>1, <3>3
      <4> QED
        BY <2>1, <3>1, <4>1
    <3> QED
      BY <3>2, <3>3
  <2> HIDE DEF h
  <2>6. Trace(h, k)
    BY <2>4, <2>5
  <2> QED
    BY <2>3, <2>6
<1> HIDE DEF T
<1>3. 0..N \subseteq T
  BY <1>1, <1>2, IntervalInduction
<1>4. N \in T
  BY <1>3
<1> QED
  BY <1>4 DEF T, IsTrace
-----------------------------------------------------------------------------
(* Functions on Nat that recur to a smaller number: down[a] is the number  *)
(* that a not in Base recurs to, and step what is made of the value there. *)

Descends(Base, down) == \A a \in Nat : a \notin Base => down[a] \in Nat /\ down[a] < a
Recurs(g, D, Base, start, down, step) ==
  \A a \in D : g[a] = IF a \in Base THEN start[a] ELSE step[a][g[down[a]]]

\* Two such functions are equal as far as both are defined.
LEMMA RecursionUnique ==
  ASSUME NEW Base, NEW down, Descends(Base, down), NEW start, NEW step,
         NEW m \in Nat, NEW n \in Nat, m <= n,
         NEW g, Recurs(g, 0..m, Base, start, down, step),
         NEW h, Recurs(h, 0..n, Base, start, down, step)
  PROVE  \A a \in 0..m : g[a] = h[a]
<1> DEFINE S == {a \in 0..m : g[a] # h[a]}
<1> SUFFICES ASSUME S # {} PROVE FALSE
  OBVIOUS
<1>1. PICK a \in S : \A b \in S : a <= b
  <2>1. S \subseteq Nat
    OBVIOUS
  <2> HIDE DEF S
  <2> QED
    BY <2>1, LeastNumber
<1>2. a \in 0..m /\ a \in 0..n /\ a \in Nat /\ g[a] # h[a]
  OBVIOUS
<1>3. CASE a \in Base
  BY <1>2, <1>3 DEF Recurs
<1>4. CASE a \notin Base
  <2>1. down[a] \in Nat /\ down[a] < a
    BY <1>2, <1>4 DEF Descends
  <2>2. down[a] \in 0..m /\ down[a] \notin S
    BY <1>1, <1>2, <2>1
  <2>3. g[down[a]] = h[down[a]]
    BY <2>2
  <2>4. g[a] = step[a][g[down[a]]] /\ h[a] = step[a][h[down[a]]]
    BY <1>2, <1>4 DEF Recurs
  <2> QED
    BY <1>2, <2>3, <2>4
<1> QED
  BY <1>3, <1>4

\* There is one.
LEMMA DescendingRecursion ==
  ASSUME NEW S, NEW Base, NEW down, Descends(Base, down),
         NEW start, \A a \in Base : start[a] \in S,
         NEW step, \A a \in Nat, x \in S : step[a][x] \in S
  PROVE  \E f \in [Nat -> S] : Recurs(f, Nat, Base, start, down, step)
<1> DEFINE Partial(g, n) == g \in [0..n -> S] /\ Recurs(g, 0..n, Base, start, down, step)
           T == {n \in Nat : \E g : Partial(g, n)}
<1>1. 0 \in T
  <2>1. 0 \in Base
    BY DEF Descends
  <2> DEFINE g == [a \in 0..0 |-> start[a]]
  <2>2. g \in [0..0 -> S]
    BY <2>1
  <2>3. Recurs(g, 0..0, Base, start, down, step)
    BY <2>1 DEF Recurs
  <2> QED
    BY <2>2, <2>3
<1>2. ASSUME NEW n \in Nat, n \in T
      PROVE  n + 1 \in T
  <2>1. PICK g : Partial(g, n)
    BY <1>2
  <2> DEFINE v == IF n + 1 \in Base THEN start[n + 1] ELSE step[n + 1][g[down[n + 1]]]
             h == [a \in 0..(n + 1) |-> IF a = n + 1 THEN v ELSE g[a]]
  <2>2. n + 1 \notin Base => down[n + 1] \in 0..n
    BY DEF Descends
  <2>3. v \in S
    <3>1. CASE n + 1 \in Base
      BY <3>1
    <3>2. CASE n + 1 \notin Base
      <4>1. g[down[n + 1]] \in S
        BY <2>1, <2>2, <3>2
      <4> QED
        BY <3>2, <4>1
    <3> QED
      BY <3>1, <3>2
  <2> HIDE DEF v
  <2>4. h \in [0..(n + 1) -> S]
    <3>1. \A a \in 0..(n + 1) : a # n + 1 => a \in 0..n
      OBVIOUS
    <3> QED
      BY <2>1, <2>3, <3>1
  <2>5. \A a \in 0..n : a \in 0..(n + 1) /\ h[a] = g[a]
    OBVIOUS
  <2>6. h[n + 1] = v
    OBVIOUS
  <2> HIDE DEF h
  <2>7. ASSUME NEW a \in 0..(n + 1)
        PROVE  h[a] = IF a \in Base THEN start[a] ELSE step[a][h[down[a]]]
    <3>1. CASE a = n + 1
      BY <2>2, <2>5, <2>6, <3>1 DEF v
    <3>2. CASE a # n + 1
      <4>1. a \in 0..n /\ a \in Nat
        BY <3>2
      <4>2. a \notin Base => down[a] \in 0..n
        BY <4>1 DEF Descends
      <4>3. g[a] = IF a \in Base THEN start[a] ELSE step[a][g[down[a]]]
        BY <2>1, <4>1 DEF Recurs
      <4> QED
        BY <2>5, <4>1, <4>2, <4>3
    <3> QED
      BY <3>1, <3>2
  <2>8. Partial(h, n + 1)
    BY <2>4, <2>7 DEF Recurs
  <2> QED
    BY <2>8
<1>3. Nat \subseteq T
  <2> HIDE DEF T
  <2> QED
    BY <1>1, <1>2, NatSetInduction
<1> DEFINE upto[n \in Nat] == CHOOSE g : Partial(g, n)
           f == [n \in Nat |-> upto[n][n]]
<1>4. \A n \in Nat : Partial(upto[n], n)
  BY <1>3
<1> HIDE DEF upto
<1>5. f \in [Nat -> S]
  BY <1>4
<1>6. ASSUME NEW a \in Nat
      PROVE  f[a] = IF a \in Base THEN start[a] ELSE step[a][f[down[a]]]
  <2>1. upto[a][a] = IF a \in Base THEN start[a] ELSE step[a][upto[a][down[a]]]
    BY <1>4 DEF Recurs
  <2>2. ASSUME a \notin Base
        PROVE  upto[a][down[a]] = f[down[a]]
    <3>1. down[a] \in Nat /\ down[a] <= a
      BY <2>2 DEF Descends
    <3> DEFINE m == down[a]
               g == upto[m]
               h == upto[a]
    <3>2. /\ m \in Nat /\ m <= a
          /\ Recurs(g, 0..m, Base, start, down, step) /\ Recurs(h, 0..a, Base, start, down, step)
      BY <1>4, <3>1
    <3>3. \A b \in 0..m : g[b] = h[b]
      <4> HIDE DEF m, g, h
      <4> QED
        BY <3>2, RecursionUnique
    <3> QED
      BY <3>1, <3>3
  <2> QED
    BY <2>1, <2>2
<1> QED
  BY <1>5, <1>6 DEF Recurs

-----------------------------------------------------------------------------
(* Division with remainder.                                                *)

\* A number is a multiple of m and a remainder.
LEMMA RemainderOf ==
  ASSUME NEW m \in Nat \ {0}, NEW x \in Int
  PROVE  x \div m \in Int /\ (x % m) \in 0..(m - 1) /\ x = m * (x \div m) + (x % m)
OBVIOUS

\* What is left of a multiple of m and a remainder is the remainder.
LEMMA RemainderUnique ==
  ASSUME NEW m \in Nat \ {0}, NEW q \in Int, NEW r \in 0..(m - 1)
  PROVE  (m * q + r) % m = r
<1> DEFINE x == m * q + r
           p == x \div m
           t == (x % m)
<1>1. x \in Int /\ p \in Int /\ t \in 0..(m - 1) /\ x = m * p + t
  BY RemainderOf
<1> HIDE DEF p, t
<1>2. m * (q - p) = t - r
  BY <1>1
<1>3. ASSUME q - p >= 1
      PROVE  FALSE
  <2>1. m * (q - p) >= m
    BY <1>1, <1>3
  <2> QED
    BY <1>1, <1>2, <2>1
<1>4. ASSUME q - p <= -1
      PROVE  FALSE
  <2>1. m * (q - p) <= -m
    BY <1>1, <1>4
  <2> QED
    BY <1>1, <1>2, <2>1
<1>5. q = p
  BY <1>1, <1>3, <1>4
<1> QED
  BY <1>1, <1>2, <1>5 DEF t

\* What is left of a multiple of m and a remainder, divided by m.
LEMMA QuotientUnique ==
  ASSUME NEW m \in Nat \ {0}, NEW q \in Int, NEW r \in 0..(m - 1), NEW x, x = m * q + r
  PROVE  x \div m = q
<1> DEFINE d == x \div m
<1>1. (x % m) = r
  BY RemainderUnique
<1>2. x \in Int /\ d \in Int /\ x = m * d + r
  BY <1>1, RemainderOf
<1> HIDE DEF d
<1>3. m * d = m * q
  BY <1>2
<1>4. ASSUME d - q >= 1
      PROVE  FALSE
  <2>1. m * (d - q) >= m
    BY <1>2, <1>4
  <2> QED
    BY <1>2, <1>3, <2>1
<1>5. ASSUME d - q <= -1
      PROVE  FALSE
  <2>1. m * (d - q) <= -m
    BY <1>2, <1>5
  <2> QED
    BY <1>2, <1>3, <2>1
<1>6. d = q
  BY <1>2, <1>4, <1>5
<1> QED
  BY <1>6 DEF d

=============================================================================
