----------------------------- MODULE Arithmetic -----------------------------
(***************************************************************************)
(* What the proofs about loops need of the natural numbers: induction, for *)
(* sets; functions defined by recursion, which is what a loop computes;    *)
(* sums; and powers of two.                                                *)
(***************************************************************************)
EXTENDS Integers, FiniteSetTheorems, NaturalsInduction, WellFoundedInduction, TLAPS

-----------------------------------------------------------------------------
(* Natural numbers *)

\* The order of the natural numbers, as a set of pairs.
LEMMA LessThan == OpToRel(<, Nat) = {ss \in Nat \X Nat : ss[1] < ss[2]}
  BY DEF OpToRel

\* A set of natural numbers that is not empty has a least element.
LEMMA Least ==
  ASSUME NEW T, T \subseteq Nat, T # {}
  PROVE  \E m \in T : \A n \in T : m <= n
  <1>1. PICK m \in T : \A y \in T : ~(<<y, m>> \in OpToRel(<, Nat))
    BY NatLessThanWellFounded, WFMin, Zenon
  <1>2. ASSUME NEW n \in T, n < m PROVE FALSE
    <2>1. <<n, m>> \in {ss \in Nat \X Nat : ss[1] < ss[2]}
      BY <1>2
    <2> QED BY <2>1, LessThan, <1>1
  <1>3. \A n \in T : m <= n
    BY <1>2
  <1> QED BY <1>3

\* What a division leaves.
LEMMA Division ==
  ASSUME NEW a \in Nat, NEW b \in Nat \ {0}
  PROVE  a % b \in 0..(b - 1) /\ a \div b \in Nat /\ a = (a % b) + b * (a \div b)
  OBVIOUS

\* It leaves nothing else.
LEMMA DivisionIs ==
  ASSUME NEW b \in Nat \ {0}, NEW q \in Int, NEW r \in 0..(b - 1)
  PROVE  (r + b * q) % b = r /\ (r + b * q) \div b = q
  <1> DEFINE a == r + b * q
             s == a % b
             t == a \div b
             d == q - t
             m == b * d
  <1>1. a \in Int /\ b \in Int /\ b > 0 /\ r \in Int /\ 0 <= r /\ r < b
    OBVIOUS
  <1> HIDE DEF a
  <1>2. s \in Int /\ 0 <= s /\ s < b /\ t \in Int /\ a = s + b * t
    BY <1>1
  <1> HIDE DEF s, t
  <1>3. d \in Int /\ m \in Int /\ r + m = s
    <2>1. b * (q - t) = b * q - b * t /\ b * (q - t) \in Int
      BY <1>2
    <2> DEFINE x == b * q
               y == b * t
    <2>2. a = r + x /\ a = s + y /\ m = x - y /\ x \in Int /\ y \in Int
      BY <1>2, <2>1 DEF a
    <2> HIDE DEF x, y, m
    <2> QED BY <1>1, <1>2, <2>2
  <1> HIDE DEF d
  <1>4. (d >= 1 => m >= b) /\ (d <= -1 => m <= -b) /\ (d = 0 => m = 0)
    BY <1>1, <1>3
  <1> HIDE DEF m
  <1>5. d = 0 /\ m = 0
    BY <1>1, <1>2, <1>3, <1>4
  <1>6. q = t
    BY <1>2, <1>5 DEF d
  <1>7. s = r
    BY <1>1, <1>2, <1>3, <1>5
  <1> QED BY <1>6, <1>7 DEF s, t, a

\* A set with 0 that has n + 1 whenever it has n has all of them.
LEMMA Induction ==
  ASSUME NEW T, 0 \in T, \A n \in Nat : n \in T => n + 1 \in T
  PROVE  Nat \subseteq T
  <1> SUFFICES ASSUME Nat \ T # {} PROVE FALSE
    OBVIOUS
  <1>1. PICK m \in Nat \ T : \A n \in Nat \ T : m <= n
    BY Least
  <1>2. m # 0 /\ m - 1 \in Nat /\ ~(m <= m - 1) /\ (m - 1) + 1 = m
    OBVIOUS
  <1>3. m - 1 \in T
    BY <1>1, <1>2
  <1> QED BY <1>2, <1>3

\* From a, f goes on from each of its values to the next as G says.
Follows(f, N, a, G) == f[0] = a /\ \A n \in 1..N : f[n] = G[<<n, f[n - 1]>>]

\* There is a function that does.
LEMMA Recursion ==
  ASSUME NEW N \in Nat, NEW S, NEW a \in S, NEW G \in [(1..N) \X S -> S]
  PROVE  \E f \in [0..N -> S] : Follows(f, N, a, G)
  <1> USE DEF Follows
  <1> DEFINE Upto(k) == \E f \in [0..k -> S] : Follows(f, k, a, G)
             T == {k \in Nat : k <= N => Upto(k)}
  <1>1. 0 \in T
    <2>1. [n \in 0..0 |-> a] \in [0..0 -> S] /\ [n \in 0..0 |-> a][0] = a
      OBVIOUS
    <2>2. 1..0 = {}
      OBVIOUS
    <2> QED BY <2>1, <2>2
  <1>2. ASSUME NEW k \in Nat, k \in T PROVE k + 1 \in T
    <2> SUFFICES ASSUME k + 1 <= N PROVE Upto(k + 1)
      OBVIOUS
    <2>1. PICK f \in [0..k -> S] : f[0] = a /\ \A n \in 1..k : f[n] = G[<<n, f[n - 1]>>]
      BY <1>2
    <2> DEFINE g == [n \in 0..(k + 1) |-> IF n = k + 1 THEN G[<<k + 1, f[k]>>] ELSE f[n]]
    <2>2. f[k] \in S /\ k + 1 \in 1..N
      OBVIOUS
    <2>3. G[<<k + 1, f[k]>>] \in S
      BY <2>2
    <2>4. \A n \in 0..k : g[n] = f[n]
      OBVIOUS
    <2>5. g \in [0..(k + 1) -> S] /\ g[0] = a
      BY <2>1, <2>3
    <2>6. ASSUME NEW n \in 1..(k + 1) PROVE g[n] = G[<<n, g[n - 1]>>]
      <3>1. g[n - 1] = f[n - 1]
        BY <2>4
      <3>2. CASE n = k + 1
        <4>1. g[n] = G[<<k + 1, f[k]>>] /\ n - 1 = k
          BY <3>2
        <4> HIDE DEF g
        <4> QED BY <3>1, <3>2, <4>1
      <3>3. CASE n # k + 1
        <4>1. n \in 1..k /\ g[n] = f[n]
          BY <2>4, <3>3
        <4> HIDE DEF g
        <4> QED BY <2>1, <3>1, <4>1
      <3> QED BY <3>2, <3>3
    <2> HIDE DEF g
    <2> QED BY <2>5, <2>6
  <1>3. N \in T
    <2> HIDE DEF T
    <2> QED BY <1>1, <1>2, Induction
  <1> QED BY <1>3

-----------------------------------------------------------------------------
(* Sums *)

\* The sum of the first n values of f.
Sum(f, n) == LET acc[i \in 0..n] == IF i = 0 THEN 0 ELSE acc[i - 1] + f[i] IN acc[n]

\* f has integers up to n, and g adds them up.
Ints(f, n) == \A i \in 1..n : f[i] \in Int
AddsUp(g, f, n) == g \in [0..n -> Int] /\ g[0] = 0 /\ \A i \in 1..n : g[i] = g[i - 1] + f[i]

\* g goes on as f does, from the same value.
GoesOnAs(g, f, N) == g[0] = f[0] /\ \A n \in 1..N : g[n - 1] = f[n - 1] => g[n] = f[n]

\* Such a g is f.
LEMMA Agree ==
  ASSUME NEW N \in Nat, NEW f, NEW g, GoesOnAs(g, f, N) PROVE \A n \in 0..N : g[n] = f[n]
  <1> USE DEF GoesOnAs
  <1> DEFINE T == {n \in Nat : n <= N => g[n] = f[n]}
  <1>1. 0 \in T
    OBVIOUS
  <1>2. ASSUME NEW n \in Nat, n \in T PROVE n + 1 \in T
    <2> SUFFICES ASSUME n + 1 <= N PROVE g[n + 1] = f[n + 1]
      OBVIOUS
    <2>1. n + 1 \in 1..N /\ (n + 1) - 1 = n /\ g[n] = f[n]
      BY <1>2
    <2> QED BY <2>1
  <1>3. Nat \subseteq T
    <2> HIDE DEF T
    <2> QED BY <1>1, <1>2, Induction
  <1> QED BY <1>3

\* A function that adds up f ends at its sum.
LEMMA SumIs ==
  ASSUME NEW n \in Nat, NEW f, NEW g, AddsUp(g, f, n) PROVE Sum(f, n) = g[n]
  <1> DEFINE Step(h) == [i \in 0..n |-> IF i = 0 THEN 0 ELSE h[i - 1] + f[i]]
             r == CHOOSE h : h = Step(h)
  <1>1. g = Step(g)
    <2>1. ASSUME NEW i \in 0..n PROVE g[i] = IF i = 0 THEN 0 ELSE g[i - 1] + f[i]
      <3>1. i # 0 => i \in 1..n
        OBVIOUS
      <3> QED BY <3>1 DEF AddsUp
    <2> QED BY <2>1 DEF AddsUp
  <1>2. r = Step(r)
    <2> HIDE DEF Step
    <2> QED BY <1>1
  <1>3. Sum(f, n) = r[n]
    BY DEF Sum
  <1> HIDE DEF r
  <1>4. \A i \in 0..n : r[i] = IF i = 0 THEN 0 ELSE r[i - 1] + f[i]
    BY <1>2
  <1> HIDE DEF Step
  <1>5. r[0] = g[0]
    BY <1>4 DEF AddsUp
  <1>6. \A i \in 1..n : r[i - 1] = g[i - 1] => r[i] = g[i]
    <2> SUFFICES ASSUME NEW i \in 1..n, r[i - 1] = g[i - 1] PROVE r[i] = g[i]
      OBVIOUS
    <2>1. r[i] = r[i - 1] + f[i]
      BY <1>4
    <2> QED BY <2>1 DEF AddsUp
  <1>7. GoesOnAs(r, g, n)
    BY <1>5, <1>6 DEF GoesOnAs
  <1>8. \A i \in 0..n : r[i] = g[i]
    BY <1>7, Agree, Zenon
  <1> QED BY <1>3, <1>8

\* There is one that does.
LEMMA SumExists ==
  ASSUME NEW n \in Nat, NEW f, Ints(f, n) PROVE \E g : AddsUp(g, f, n)
  <1> DEFINE zero == 0
             G == [x \in (1..n) \X Int |-> x[2] + f[x[1]]]
  <1>1. zero \in Int /\ G \in [(1..n) \X Int -> Int]
    BY DEF Ints
  <1>2. PICK g \in [0..n -> Int] : Follows(g, n, zero, G)
    <2> HIDE DEF zero, G
    <2> QED BY <1>1, Recursion, Zenon
  <1>3. \A i \in 1..n : g[i] = g[i - 1] + f[i]
    <2> SUFFICES ASSUME NEW i \in 1..n PROVE g[i] = g[i - 1] + f[i]
      OBVIOUS
    <2>1. g[i - 1] \in Int /\ <<i, g[i - 1]>> \in (1..n) \X Int
      OBVIOUS
    <2>2. G[<<i, g[i - 1]>>] = g[i - 1] + f[i]
      BY <2>1
    <2> QED BY <1>2, <2>2 DEF Follows
  <1>4. g[0] = 0
    BY <1>2 DEF Follows
  <1> HIDE DEF G, zero
  <1>5. AddsUp(g, f, n)
    BY <1>3, <1>4 DEF AddsUp
  <1> QED BY <1>5

\* A sum of none.
LEMMA SumNone == ASSUME NEW f PROVE Sum(f, 0) = 0
  <1> DEFINE none == 0
             g == [i \in 0..0 |-> 0]
  <1>1. g \in [0..0 -> Int] /\ g[0] = 0 /\ 1..0 = {} /\ none \in Nat
    OBVIOUS
  <1>2. AddsUp(g, f, none) /\ g[none] = 0
    BY <1>1 DEF AddsUp
  <1>3. Sum(f, none) = g[none]
    <2> HIDE DEF none, g
    <2> QED BY <1>1, <1>2, SumIs, Zenon
  <1> HIDE DEF g
  <1>4. Sum(f, none) = 0
    BY <1>2, <1>3, Zenon
  <1> QED BY <1>4 DEF none

\* A sum of one term more.
LEMMA SumNext ==
  ASSUME NEW n \in Nat, NEW f, Ints(f, n + 1)
  PROVE  Sum(f, n) \in Int /\ Sum(f, n + 1) \in Int /\ Sum(f, n + 1) = Sum(f, n) + f[n + 1]
  <1> DEFINE m == n + 1
  <1>1. m \in Nat /\ m \in 1..m /\ m - 1 = n /\ m # 0 /\ Ints(f, m)
    OBVIOUS
  <1>2. PICK g : AddsUp(g, f, m)
    <2> HIDE DEF m
    <2> QED BY <1>1, SumExists, Zenon
  <1> DEFINE h == [i \in 0..n |-> g[i]]
  <1>3. AddsUp(h, f, n) /\ h[n] = g[n]
    BY <1>2 DEF AddsUp
  <1>4. Sum(f, n) = h[n]
    <2> HIDE DEF h
    <2> QED BY <1>3, SumIs, Zenon
  <1>5. Sum(f, m) = g[m]
    <2> HIDE DEF m
    <2> QED BY <1>1, <1>2, SumIs, Zenon
  <1> HIDE DEF h, m
  <1>6. g[m] = g[n] + f[m] /\ g[m] \in Int /\ g[n] \in Int
    BY <1>1, <1>2 DEF AddsUp
  <1>7. Sum(f, n) = g[n]
    BY <1>3, <1>4
  <1> QED BY <1>5, <1>6, <1>7 DEF m

\* Any sum of integers is one.
LEMMA SumInt == ASSUME NEW n \in Nat, NEW f, Ints(f, n) PROVE Sum(f, n) \in Int
  <1>1. PICK g : AddsUp(g, f, n)
    BY SumExists, Zenon
  <1>2. Sum(f, n) = g[n]
    BY <1>1, SumIs, Zenon
  <1> QED BY <1>1, <1>2 DEF AddsUp

\* What a sum of pairwise sums is.
LEMMA SumAdds ==
  ASSUME NEW n \in Nat, NEW f, NEW g, NEW h, Ints(f, n), Ints(g, n),
         \A i \in 1..n : h[i] = f[i] + g[i]
  PROVE  Sum(h, n) = Sum(f, n) + Sum(g, n)
  <1>1. PICK F : AddsUp(F, f, n)
    BY SumExists, Zenon
  <1>2. PICK G : AddsUp(G, g, n)
    BY SumExists, Zenon
  <1> DEFINE H == [i \in 0..n |-> F[i] + G[i]]
  <1>3. AddsUp(H, h, n)
    <2>1. H \in [0..n -> Int] /\ H[0] = 0
      BY <1>1, <1>2 DEF AddsUp
    <2>2. ASSUME NEW i \in 1..n PROVE H[i] = H[i - 1] + h[i]
      <3>1. i - 1 \in 0..n /\ i \in 0..n
        OBVIOUS
      <3>2. F[i] = F[i - 1] + f[i] /\ F[i - 1] \in Int /\ f[i] \in Int
        BY <1>1, <3>1 DEF AddsUp, Ints
      <3>3. G[i] = G[i - 1] + g[i] /\ G[i - 1] \in Int /\ g[i] \in Int
        BY <1>2, <3>1 DEF AddsUp, Ints
      <3>4. H[i] = F[i] + G[i] /\ H[i - 1] = F[i - 1] + G[i - 1] /\ h[i] = f[i] + g[i]
        BY <3>1
      <3> HIDE DEF H
      <3> QED BY <3>2, <3>3, <3>4
    <2> HIDE DEF H
    <2> QED BY <2>1, <2>2 DEF AddsUp
  <1>4. H[n] = F[n] + G[n]
    OBVIOUS
  <1> HIDE DEF H
  <1>5. Sum(f, n) = F[n] /\ Sum(g, n) = G[n] /\ Sum(h, n) = H[n]
    BY <1>1, <1>2, <1>3, SumIs, Zenon
  <1> QED BY <1>4, <1>5

\* A sum of the same terms.
LEMMA SumSame ==
  ASSUME NEW n \in Nat, NEW f, NEW g, Ints(f, n), \A i \in 1..n : g[i] = f[i]
  PROVE  Sum(g, n) = Sum(f, n)
  <1>1. PICK F : AddsUp(F, f, n)
    BY SumExists, Zenon
  <1>2. AddsUp(F, g, n)
    BY <1>1 DEF AddsUp
  <1> QED BY <1>1, <1>2, SumIs, Zenon

\* A sum of which one term, at most, is not zero.
LEMMA SumSingle ==
  ASSUME NEW n \in Nat, NEW f, NEW j \in 1..n, Ints(f, n), \A i \in 1..n : i # j => f[i] = 0
  PROVE  Sum(f, n) = f[j]
  <1> DEFINE g == [i \in 0..n |-> IF i < j THEN 0 ELSE f[j]]
  <1>1. AddsUp(g, f, n)
    <2>1. g \in [0..n -> Int] /\ g[0] = 0
      BY DEF Ints
    <2>2. ASSUME NEW i \in 1..n PROVE g[i] = g[i - 1] + f[i]
      <3>1. i - 1 \in 0..n /\ i \in 0..n /\ f[i] \in Int /\ f[j] \in Int
        BY DEF Ints
      <3>2. g[i] = (IF i < j THEN 0 ELSE f[j]) /\ g[i - 1] = (IF i - 1 < j THEN 0 ELSE f[j])
        BY <3>1
      <3> HIDE DEF g
      <3>3. CASE i < j
        BY <3>1, <3>2, <3>3
      <3>4. CASE i = j
        BY <3>1, <3>2, <3>4
      <3>5. CASE i > j
        BY <3>1, <3>2, <3>5
      <3> QED BY <3>3, <3>4, <3>5
    <2> HIDE DEF g
    <2> QED BY <2>1, <2>2 DEF AddsUp
  <1>2. g[n] = f[j]
    OBVIOUS
  <1> HIDE DEF g
  <1> QED BY <1>1, <1>2, SumIs

\* A sum of zeros.
LEMMA SumZeros ==
  ASSUME NEW n \in Nat, NEW f, \A i \in 1..n : f[i] = 0 PROVE Sum(f, n) = 0
  <1> DEFINE g == [i \in 0..n |-> 0]
  <1>1. AddsUp(g, f, n)
    BY DEF AddsUp
  <1>2. g[n] = 0
    OBVIOUS
  <1> HIDE DEF g
  <1> QED BY <1>1, <1>2, SumIs

-----------------------------------------------------------------------------
(* Powers of two *)

\* Products over sums, and of three.
LEMMA Distributes ==
  ASSUME NEW a \in Int, NEW b \in Int, NEW c \in Int
  PROVE  /\ a * b \in Int /\ a * b = b * a
         /\ a * (b + c) = a * b + a * c /\ (b + c) * a = b * a + c * a
         /\ (a * b) * c = a * (b * c)
  OBVIOUS

\* 2^n counts the subsets of a set of n; one element more doubles them.
LEMMA PowersOfTwo ==
  /\ 2 ^ 0 = 1
  /\ \A n \in Nat : 2 ^ n \in Nat \ {0} /\ 2 ^ (n + 1) = 2 * 2 ^ n
  <1>1. 2 ^ 0 = 1
    <2>1. IsFiniteSet({}) /\ Cardinality({}) = 0
      BY FS_EmptySet
    <2>2. Cardinality(SUBSET {}) = 2 ^ Cardinality({})
      BY <2>1, FS_SUBSET
    <2>3. SUBSET {} = {{}}
      OBVIOUS
    <2>4. Cardinality({{}}) = 1
      BY FS_Singleton
    <2> QED BY <2>1, <2>2, <2>3, <2>4, Zenon
  <1>2. ASSUME NEW n \in Nat PROVE 2 ^ n \in Nat /\ 2 ^ (n + 1) = 2 * 2 ^ n
    <2> DEFINE S == 1..n
               U == SUBSET S
               V == {T \cup {n + 1} : T \in U}
               f == [T \in U |-> T \cup {n + 1}]
    <2>1. IsFiniteSet(S) /\ Cardinality(S) = n
      <3>1. IsFiniteSet(1..n) /\ Cardinality(1..n) = IF 1 > n THEN 0 ELSE n - 1 + 1
        BY FS_Interval
      <3> QED BY <3>1
    <2>2. IsFiniteSet(1..(n + 1)) /\ Cardinality(1..(n + 1)) = n + 1
      <3>1. /\ IsFiniteSet(1..(n + 1))
            /\ Cardinality(1..(n + 1)) = IF 1 > n + 1 THEN 0 ELSE (n + 1) - 1 + 1
        BY FS_Interval
      <3> QED BY <3>1
    <2>3. IsFiniteSet(U) /\ Cardinality(U) = 2 ^ n
      BY <2>1, FS_SUBSET
    <2>4. Cardinality(SUBSET (1..(n + 1))) = 2 ^ (n + 1)
      <3>1. Cardinality(SUBSET (1..(n + 1))) = 2 ^ Cardinality(1..(n + 1))
        BY <2>2, FS_SUBSET
      <3> QED BY <2>2, <3>1, Zenon
    <2>5. SUBSET (1..(n + 1)) = U \cup V
      <3>1. 1..(n + 1) = S \cup {n + 1}
        OBVIOUS
      <3>2. ASSUME NEW T \in SUBSET (S \cup {n + 1}) PROVE T \in U \cup V
        <4>1. CASE n + 1 \in T
          <5>1. T \ {n + 1} \in U /\ T = (T \ {n + 1}) \cup {n + 1}
            BY <4>1
          <5> QED BY <5>1
        <4>2. CASE n + 1 \notin T
          BY <4>2
        <4> QED BY <4>1, <4>2
      <3>3. U \cup V \subseteq SUBSET (S \cup {n + 1})
        OBVIOUS
      <3> QED BY <3>1, <3>2, <3>3
    <2>6. n + 1 \notin S
      OBVIOUS
    <2>7. U \cap V = {}
      BY <2>6
    <2>8. IsFiniteSet(V) /\ Cardinality(V) = Cardinality(U)
      <3>1. f \in [U -> V] /\ \A y \in V : \E T \in U : f[T] = y
        OBVIOUS
      <3>2. \A A, B \in U : f[A] = f[B] => A = B
        <4> SUFFICES ASSUME NEW A \in U, NEW B \in U, A \cup {n + 1} = B \cup {n + 1} PROVE A = B
          OBVIOUS
        <4> QED BY <2>6
      <3>3. f \in Bijection(U, V)
        <4> HIDE DEF f, U, V
        <4> QED BY <3>1, <3>2 DEF Bijection, Injection, Surjection, IsInjective
      <3>4. ExistsBijection(U, V)
        BY <3>3 DEF ExistsBijection
      <3> HIDE DEF U, V
      <3> QED BY <2>3, <3>4, FS_Bijection
    <2> HIDE DEF S, U, V
    <2>9. Cardinality(U \cup V) = Cardinality(U) + Cardinality(V) - Cardinality(U \cap V)
      BY <2>3, <2>8, FS_Union
    <2>10. Cardinality(U \cap V) = 0
      BY <2>7, FS_EmptySet
    <2>11. Cardinality(U) \in Nat
      BY <2>3, FS_CardinalityType
    <2> DEFINE c == Cardinality(U)
               p == 2 ^ n
               q == 2 ^ (n + 1)
    <2>12. q = c + c - 0 /\ p = c /\ c \in Nat
      BY <2>3, <2>4, <2>5, <2>8, <2>9, <2>10, <2>11, Zenon
    <2> HIDE DEF c, p, q
    <2>13. p \in Nat /\ q = 2 * p
      BY <2>12
    <2> QED BY <2>13 DEF p, q
  <1>3. Nat \subseteq {n \in Nat : 2 ^ n \in Nat \ {0}}
    <2> DEFINE T == {n \in Nat : 2 ^ n \in Nat \ {0}}
    <2>1. 0 \in T
      BY <1>1
    <2>2. ASSUME NEW n \in Nat, n \in T PROVE n + 1 \in T
      <3> DEFINE p == 2 ^ n
                 q == 2 ^ (n + 1)
      <3>1. p \in Nat \ {0} /\ q = 2 * p
        BY <1>2, <2>2
      <3> HIDE DEF p, q
      <3>2. q \in Nat \ {0}
        BY <3>1
      <3> QED BY <3>2 DEF q
    <2> HIDE DEF T
    <2>3. Nat \subseteq T
      BY <2>1, <2>2, Induction
    <2> QED BY <2>3 DEF T
  <1>4. \A n \in Nat : 2 ^ n \in Nat \ {0}
    BY <1>3
  <1> QED BY <1>1, <1>2, <1>4, Zenon

\* They grow, and the lower divides the higher.
LEMMA PowersGrow ==
  ASSUME NEW m \in Nat, NEW k \in Nat
  PROVE  \E c \in Nat \ {0} : 2 ^ (m + k) = c * 2 ^ m /\ (k > 0 => \E d \in Nat \ {0} : c = 2 * d)
  <1> DEFINE Divides(j) == \E c \in Nat \ {0} :
               2 ^ (m + j) = c * 2 ^ m /\ (j > 0 => \E d \in Nat \ {0} : c = 2 * d)
             T == {j \in Nat : Divides(j)}
  <1>1. 0 \in T
    <2>1. 2 ^ m \in Nat \ {0} /\ m + 0 = m
      BY PowersOfTwo
    <2> DEFINE p == 2 ^ m
    <2>2. 2 ^ (m + 0) = p
      BY <2>1
    <2>3. p = 1 * p
      <3> HIDE DEF p
      <3>1. p \in Nat
        BY <2>1 DEF p
      <3> QED BY <3>1
    <2> QED BY <2>2, <2>3
  <1>2. ASSUME NEW j \in Nat, j \in T PROVE j + 1 \in T
    <2>1. PICK c \in Nat \ {0} : 2 ^ (m + j) = c * 2 ^ m
      BY <1>2
    <2>2. m + (j + 1) = (m + j) + 1 /\ m + j \in Nat
      OBVIOUS
    <2> DEFINE p == 2 ^ m
               q == 2 ^ (m + j)
               r == 2 ^ (m + (j + 1))
    <2>3. p \in Nat \ {0} /\ q \in Nat \ {0} /\ q = c * p
      BY <2>1, <2>2, PowersOfTwo
    <2>4. r = 2 * q
      <3>1. 2 ^ ((m + j) + 1) = 2 * 2 ^ (m + j)
        BY <2>2, PowersOfTwo
      <3> QED BY <2>2, <3>1
    <2> HIDE DEF p, q, r
    <2>5. r = (2 * c) * p /\ 2 * c \in Nat \ {0}
      BY <2>3, <2>4
    <2>6. Divides(j + 1)
      BY <2>5 DEF p, r
    <2> QED BY <2>6
  <1>3. Nat \subseteq T
    <2> HIDE DEF T
    <2> QED BY <1>1, <1>2, Induction
  <1> QED BY <1>3

\* Of the powers of two below a power of two.
LEMMA PowersBelow ==
  ASSUME NEW m \in Nat, NEW K \in Nat
  PROVE  /\ 2 ^ m < 2 ^ K => m < K /\ \E d \in Nat \ {0} : 2 ^ K = d * 2 ^ (m + 1)
         /\ 2 ^ m = 2 ^ K => m = K
         /\ m <= K => 2 ^ m <= 2 ^ K
         /\ m > K => 2 ^ m > 2 ^ K
  <1> DEFINE p == 2 ^ m
             q == 2 ^ K
  <1>1. p \in Nat \ {0} /\ q \in Nat \ {0} /\ 2 ^ (m + 1) = 2 * p
    BY PowersOfTwo
  <1>2. ASSUME m < K PROVE p < q /\ \E d \in Nat \ {0} : q = d * 2 ^ (m + 1)
    <2> DEFINE k == K - m
    <2>1. k \in Nat /\ k > 0 /\ m + k = K
      BY <1>2
    <2>2. PICK c \in Nat \ {0} :
            2 ^ (m + k) = c * 2 ^ m /\ (k > 0 => \E d \in Nat \ {0} : c = 2 * d)
      <3> HIDE DEF k
      <3> QED BY <2>1, PowersGrow
    <2>3. PICK d \in Nat \ {0} : c = 2 * d
      BY <2>1, <2>2
    <2>4. q = c * p
      BY <2>1, <2>2, Zenon
    <2> HIDE DEF p, q, k
    <2>5. q = d * (2 * p)
      BY <1>1, <2>3, <2>4
    <2>6. p < q
      <3>1. d * (2 * p) = 2 * (d * p) /\ d * p \in Nat
        BY <1>1
      <3>2. d * p >= p
        <4>1. d - 1 \in Nat /\ (d - 1) * p \in Nat /\ d * p = (d - 1) * p + p
          BY <1>1
        <4> QED BY <1>1, <4>1
      <3> DEFINE dp == d * p
      <3>3. q = 2 * dp /\ dp >= p /\ dp \in Nat
        BY <2>5, <3>1, <3>2
      <3> HIDE DEF dp
      <3> QED BY <1>1, <3>3
    <2> QED BY <1>1, <2>5, <2>6
  <1>3. ASSUME K < m PROVE q < p
    <2> DEFINE k == m - K
    <2>1. k \in Nat /\ k > 0 /\ K + k = m
      BY <1>3
    <2>2. PICK c \in Nat \ {0} :
            2 ^ (K + k) = c * 2 ^ K /\ (k > 0 => \E d \in Nat \ {0} : c = 2 * d)
      <3> HIDE DEF k
      <3> QED BY <2>1, PowersGrow
    <2>3. PICK d \in Nat \ {0} : c = 2 * d
      BY <2>1, <2>2
    <2>4. p = c * q
      BY <2>1, <2>2, Zenon
    <2> HIDE DEF p, q, k
    <2>5. p = q + (c - 1) * q /\ c - 1 \in Nat \ {0}
      BY <1>1, <2>3, <2>4
    <2>6. (c - 1) * q \in Nat \ {0}
      BY <1>1, <2>5
    <2> DEFINE r == (c - 1) * q
    <2>7. p = q + r /\ r \in Nat \ {0}
      BY <2>5, <2>6
    <2> HIDE DEF r
    <2> QED BY <1>1, <2>7
  <1>4. m = K => p = q
    OBVIOUS
  <1>5. p = 2 ^ m /\ q = 2 ^ K
    OBVIOUS
  <1> HIDE DEF p, q
  <1>6. m < K \/ m = K \/ K < m
    OBVIOUS
  <1>7. CASE m < K
    <2>1. p < q /\ ~(q < p) /\ p # q /\ p <= q
      BY <1>1, <1>2, <1>7
    <2> QED BY <1>2, <1>5, <1>7, <2>1
  <1>8. CASE m = K
    <2>1. p = q /\ ~(p < q) /\ p <= q
      BY <1>1, <1>4, <1>8
    <2> QED BY <1>5, <1>8, <2>1
  <1>9. CASE K < m
    <2>1. q < p /\ ~(p < q) /\ p # q
      BY <1>1, <1>3, <1>9
    <2> QED BY <1>5, <1>9, <2>1
  <1> QED BY <1>6, <1>7, <1>8, <1>9
=============================================================================
